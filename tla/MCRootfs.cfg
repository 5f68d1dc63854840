\* One entry more than there are slots for files; inodes for two files.
CONSTANTS
    ROOTFS_FILE_COUNT = 4
    ROOTFS_INODE_COUNT = 4
    ROOTFS_MAX_FILENAME_SIZE = 3
    Entries <- MCEntries
    Queries <- MCQueries
    MaxEntries = 5
    Offsets = {5, 6, 18}
SPECIFICATION Spec
INVARIANTS
    TypeOK
    DataInPlace
    HeadersFound
    SiblingsAscend
    TreeOfArchive
    AnswersMatchArchive
