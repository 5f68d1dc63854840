------------------------------- MODULE Rootfs -------------------------------
(***************************************************************************)
(* The root file system of kernel/rootfs.c: init_ramfs reads the entries   *)
(* of the cpio archive one after the other into the arrays files and       *)
(* inodes; search_file, read and ls look things up in them.                *)
(*                                                                         *)
(* A step reads one entry, which is chosen when it is read: the behaviours *)
(* are the archives.  Names are sequences of characters because strequal   *)
(* is a test for a prefix; of a path the code keeps the last two           *)
(* components.  Pointers are tuples of an array and an index, as children  *)
(* and ino share a word and the code follows one as the other.             *)
(***************************************************************************)
EXTENDS SequencesExt, Integers

CONSTANTS
    ROOTFS_FILE_COUNT,          \* slots of files
    ROOTFS_INODE_COUNT,         \* slots of inodes
    ROOTFS_MAX_FILENAME_SIZE,   \* bytes of a file_name
    Entries,                    \* what may stand in an archive
    Queries,                    \* names that read and ls are called with
    MaxEntries,                 \* bound: entries of an archive before its end
    Offsets                     \* offsets that read is called with

\* The characters of a name; the digits of a number, 26 to 31 for a to f.
Chars == 1..255
Digits == (0..15) \cup (26..31)

\* External: the number that cpio writes in hexadecimal digits of either case,
\* each worth its place counted from the end.
Value(s) ==
    LET n == Len(s)
        place[i \in 0..n] == IF i = 0 THEN 1 ELSE 16 * place[i - 1]
        sum[i \in 0..n] ==
            IF i = 0 THEN 0 ELSE sum[i - 1] + (s[n + 1 - i] % 16) * place[i - 1]
    IN  sum[n]

\* External: what cpio counts as the name of an entry, the path with its slash
\* and the byte that ends it, and the number of bytes that follow the entry.
NameSize(e) == Len(e.dir) + (IF e.dir = <<>> THEN 0 ELSE 1) + Len(e.base) + 1
Length(e) == Value(e.size)

ASSUME RootfsAssumption ==
    /\ ROOTFS_FILE_COUNT \in Nat \ {0}
    /\ ROOTFS_INODE_COUNT \in Nat \ {0}
    /\ ROOTFS_MAX_FILENAME_SIZE \in Nat \ {0}
    /\ MaxEntries \in Nat /\ Offsets \subseteq Nat
    /\ \A e \in Entries :
          /\ e.mode \in {"DIRECTORY", "REGULAR", "INVALID"}
          /\ e.size \in Seq(Digits)
          /\ e.dir \in Seq(Chars) /\ e.base \in Seq(Chars)
          /\ e.namesize \in Seq(Digits) /\ Value(e.namesize) = NameSize(e)

Files == 0..(ROOTFS_FILE_COUNT - 1)
Inodes == 0..(ROOTFS_INODE_COUNT - 1)

NULL == <<"NULL", 0>>
Elsewhere == <<"archive", 0>>
Pointers == {NULL} \cup ({"file"} \X Files) \cup ({"inode"} \X Inodes) \cup ({"archive"} \X Nat)

VARIABLES
    stage,      \* read; then the answer of init_ramfs, 0 or -1; or astray: a
                \* walk over siblings has no end, or follows bytes of the
                \* archive as pointers
    files,      \* link is the union of children and ino
    inodes,     \* number stands for inode_number and device_number
    findex,     \* current_file is &files[findex]
    iindex,
    ino,        \* current_ino is &inodes[ino]
    pos,        \* byte_stream, from RAMFS_START
    archive,    \* auxiliary: the entries so far
    header,     \* auxiliary: where the next entry of the archive begins
    answer      \* auxiliary: the latest call of read or ls and its answer

vars == <<stage, files, inodes, findex, iindex, ino, pos, archive, header, answer>>

Types == {"INVALID", "DIRECTORY", "REGULAR"}
Number == {e.number : e \in Entries}
NoAnswer == [op |-> "none", name |-> <<>>, offset |-> 0, ret |-> 0, out |-> <<>>]

TypeOK ==
    /\ stage \in {"read", "0", "-1", "astray"}
    /\ files \in [Files -> [name : Seq(Chars), parent : Pointers, type : Types,
                            next : Pointers, link : Pointers]]
    /\ \A i \in Files :
          /\ Len(files[i].name) < ROOTFS_MAX_FILENAME_SIZE
          /\ files[i].type = "DIRECTORY" => files[i].link[1] \in {"NULL", "file"}
    /\ inodes \in [Inodes -> [number : Number \cup {0}, data : Pointers, size : Nat]]
    /\ findex \in Files /\ iindex \in Inodes /\ ino \in Inodes
    /\ {pos, header} \subseteq Nat
    /\ archive \in Seq([e : Entries, at : Nat]) /\ Len(archive) <= MaxEntries
    /\ answer.op \in {"none", "read", "ls"}

Init ==
    /\ stage = "read"
    /\ files = [i \in Files |->
                  [name |-> <<>>, parent |-> NULL, type |-> "INVALID", next |-> NULL, link |-> NULL]]
    /\ inodes = [i \in Inodes |-> [number |-> 0, data |-> NULL, size |-> 0]]
    /\ findex = 0 /\ iindex = 0 /\ ino = 0
    /\ pos = 0
    /\ archive = <<>>
    /\ header = 0
    /\ answer = NoAnswer

-----------------------------------------------------------------------------
\* Digits 0 to 15 are written 0-9, A-F; a-f are refused.
int_from_char(c) == IF c \in 0..15 THEN c ELSE -1

\* The value of a header field; -1 if a character is no digit.
int_from_string(s) ==
    LET total[i \in 0..Len(s)] ==
            IF i = 0 THEN 0 ELSE 16 * total[i - 1] + int_from_char(s[i])
    IN  IF \E i \in DOMAIN s : int_from_char(s[i]) = -1 THEN -1 ELSE total[Len(s)]

Padded_Down(n) == (n \div 4) * 4

\* The next multiple of four, for the name and for the data.
Padded(n) == ((n + 3) \div 4) * 4

HeaderSize == 6 + 13 * 8

Stored_Unbounded(s) == s

\* What is left of a component in file_name or parent_filename: the index is
\* taken modulo the size, so a longer component starts over.
Stored(s) ==
    LET full == (Len(s) \div ROOTFS_MAX_FILENAME_SIZE) * ROOTFS_MAX_FILENAME_SIZE
    IN  SubSeq(s, full + 1, Len(s))

\* The loop ends with str1, so every string equals its prefixes.
strequal(str1, str2) == IsPrefix(str1, str2)

\* search_file fails if no slot matches, and else answers the first one.  A
\* slot that is not in use has the empty name, which matches.
Matches(fs, name) == {i \in Files : strequal(fs[i].name, name)}
search_file(fs, name) == Min(Matches(fs, name))

\* next_file at a pointer.  Where it points to an inode, the word read is
\* the first one of the inode after it: data.
next_file(fs, ns, p) ==
    CASE p[1] = "file" -> fs[p[2]].next
      [] p[1] = "inode" /\ p[2] + 1 \in Inodes -> ns[p[2] + 1].data
      [] OTHER -> Elsewhere

\* The walk along next_file, cut off where it can only be going in circles.
Siblings(fs, ns, first) ==
    LET walk[i \in 0..(ROOTFS_FILE_COUNT + 1)] ==
            IF i = 0 THEN <<first>>
            ELSE LET next == next_file(fs, ns, Last(walk[i - 1]))
                 IN  IF next = NULL THEN walk[i - 1] ELSE Append(walk[i - 1], next)
    IN  walk[ROOTFS_FILE_COUNT + 1]

WalkEnds(fs, ns, first) == next_file(fs, ns, Last(Siblings(fs, ns, first))) = NULL

-----------------------------------------------------------------------------
\* check_magic: a header begins where the reader is.
check_magic == pos = header

\* A regular file that is not empty: its numbers go into current_ino, and
\* current_ino moves on.
HasInode(e) == e.mode = "REGULAR" /\ int_from_string(e.size) # 0

\* The union after the switch.  An empty file looks for an inode with its
\* numbers; if there is none, the word is left as it was.
Link(e) ==
    LET same == {i \in Inodes : inodes[i].number = e.number}
    IN  CASE e.mode = "DIRECTORY" -> NULL
          [] e.mode = "REGULAR" /\ ~HasInode(e) /\ same # {} -> <<"inode", Min(same)>>
          [] OTHER -> files[findex].link

\* A record of files and inodes after the switch and the name.
Named(e) ==
    [files |-> [files EXCEPT ![findex].name = Stored(e.base), ![findex].type = e.mode,
                             ![findex].next = NULL, ![findex].link = Link(e)],
     inodes |-> IF HasInode(e) THEN [inodes EXCEPT ![ino].number = e.number] ELSE inodes]

HasParent(e) ==
    Stored(e.dir) # <<>> /\ Matches(Named(e).files, Stored(e.dir)) # {}

\* The slot of the parent: the first whose name matches, the file's own too.
Parent(e) == search_file(Named(e).files, Stored(e.dir))

FirstChild(e) == Named(e).files[Parent(e)].link
LastChild_First(e) == FirstChild(e)
LastChild(e) == Last(Siblings(Named(e).files, Named(e).inodes, FirstChild(e)))

Astray(e) ==
    /\ HasParent(e) /\ FirstChild(e) # NULL
    /\ ~WalkEnds(Named(e).files, Named(e).inodes, FirstChild(e))

\* The store of current_file behind its last sibling, or as the first child.
\* If search_file was not called the parent is left as it was.
Attached(e) ==
    LET me == <<"file", findex>>
        w == Named(e)
        parented == [w EXCEPT !.files[findex].parent =
                        IF HasParent(e) THEN <<"file", Parent(e)>>
                        ELSE IF Stored(e.dir) # <<>> THEN NULL ELSE @]
        last == LastChild(e)
    IN  CASE ~HasParent(e) -> parented
          [] HasParent(e) /\ FirstChild(e) = NULL -> [parented EXCEPT !.files[Parent(e)].link = me]
          [] HasParent(e) /\ FirstChild(e) # NULL /\ last[1] = "inode" ->
                [parented EXCEPT !.inodes[last[2] + 1].data = me]
          [] OTHER -> [parented EXCEPT !.files[last[2]].next = me]

\* iindex and current_ino behind the switch.
NextInode(e) == IF HasInode(e) THEN (iindex + 1) % ROOTFS_INODE_COUNT ELSE iindex
CurrentInode(e) == IF HasInode(e) THEN NextInode(e) ELSE ino

SizeInode_AfterIncrement(e) == (NextInode(e) + 1) % ROOTFS_INODE_COUNT

\* current_ino = &inodes[iindex++]: the inode of the data once more.
SizeInode(e) == NextInode(e)

NextFile_Same(f) == f
NextFile(f) == (f + 1) % ROOTFS_FILE_COUNT

\* External: where cpio places data and headers.
RoundUp(n) == CHOOSE m \in n..(n + 3) : m % 4 = 0
DataAt(e, start) == RoundUp(start + HeaderSize + NameSize(e))

Reading(e) ==
    /\ stage = "read" /\ Len(archive) < MaxEntries
    /\ check_magic
    /\ archive' = Append(archive, [e |-> e, at |-> header])
    /\ header' = RoundUp(DataAt(e, header) + Length(e))
    /\ UNCHANGED answer

\* One round of the loop, for an entry with data and for one without.
init_ramfs(e) ==
    LET size == int_from_string(e.size)
        data == pos + Padded(HeaderSize + int_from_string(e.namesize))
    IN  /\ Reading(e)
        /\ e.mode # "INVALID" /\ ~Astray(e)
        /\ \/ /\ HasInode(e) /\ size > 0
              /\ files' = [Attached(e).files EXCEPT ![findex].link = <<"inode", CurrentInode(e)>>]
              /\ inodes' = [Attached(e).inodes EXCEPT
                                ![CurrentInode(e)].data = <<"archive", data>>,
                                ![SizeInode(e)].size = size]
              /\ ino' = SizeInode(e)
              /\ iindex' = (NextInode(e) + 1) % ROOTFS_INODE_COUNT
           \/ /\ ~(HasInode(e) /\ size > 0)
              /\ files' = Attached(e).files
              /\ inodes' = Attached(e).inodes
              /\ ino' = CurrentInode(e)
              /\ iindex' = NextInode(e)
        /\ findex' = NextFile(findex)
        /\ pos' = data + Padded(size)
        /\ UNCHANGED stage

\* The loop over the siblings of the new file does not end.
init_ramfs_astray(e) ==
    /\ Reading(e)
    /\ e.mode # "INVALID" /\ Astray(e)
    /\ stage' = "astray"
    /\ files' = [Named(e).files EXCEPT ![findex].parent = <<"file", Parent(e)>>]
    /\ inodes' = Named(e).inodes
    /\ ino' = CurrentInode(e)
    /\ iindex' = NextInode(e)
    /\ UNCHANGED <<findex, pos>>

\* The mode is neither that of a directory nor that of a file: -1.
init_ramfs_invalid(e) ==
    /\ Reading(e)
    /\ e.mode = "INVALID"
    /\ stage' = "-1"
    /\ files' = [files EXCEPT ![findex].type = "INVALID"]
    /\ UNCHANGED <<inodes, findex, iindex, ino, pos>>

\* No header where one is expected: -1.
init_ramfs_magic ==
    /\ stage = "read" /\ ~check_magic
    /\ stage' = "-1"
    /\ UNCHANGED <<files, inodes, findex, iindex, ino, pos, archive, header, answer>>

\* TRAILER!!!: 0.
init_ramfs_end ==
    /\ stage = "read" /\ check_magic
    /\ stage' = "0"
    /\ UNCHANGED <<files, inodes, findex, iindex, ino, pos, archive, header, answer>>

\* read and ls change nothing, so one call for an archive is enough.
Asks == stage = "0" /\ answer = NoAnswer

\* What data_size may be behind a pointer.  In a file taken for an inode it
\* is the type; read through a null pointer it is anything.
data_size(p) ==
    CASE p[1] = "inode" -> {inodes[p[2]].size}
      [] p[1] = "file" -> {[INVALID |-> 0, DIRECTORY |-> 1, REGULAR |-> 2][files[p[2]].type]}
      [] OTHER -> {0} \cup Offsets

PastEnd_OffByOne(offset, size) == offset >= size
PastEnd(offset, size) == offset > size

read(name, offset) ==
    /\ Asks
    /\ \/ /\ Matches(files, name) = {}
          /\ answer' = [NoAnswer EXCEPT !.op = "read", !.name = name, !.ret = -1]
       \/ /\ Matches(files, name) # {}
          /\ \E size \in data_size(files[search_file(files, name)].link) :
                answer' = [NoAnswer EXCEPT !.op = "read", !.name = name, !.offset = offset,
                              !.ret = IF PastEnd(offset, size) THEN -1 ELSE 0]
    /\ UNCHANGED <<stage, files, inodes, findex, iindex, ino, pos, archive, header>>

\* ls puts out the file it finds and the siblings after it.
ls(name) ==
    /\ Asks
    /\ \/ /\ Matches(files, name) = {}
          /\ answer' = [NoAnswer EXCEPT !.op = "ls", !.name = name, !.ret = -1]
          /\ UNCHANGED stage
       \/ /\ Matches(files, name) # {}
          /\ LET first == <<"file", search_file(files, name)>>
             IN  IF WalkEnds(files, inodes, first)
                 THEN /\ answer' = [NoAnswer EXCEPT !.op = "ls", !.name = name,
                                        !.out = Siblings(files, inodes, first)]
                      /\ UNCHANGED stage
                 ELSE /\ stage' = "astray"
                      /\ UNCHANGED answer
    /\ UNCHANGED <<files, inodes, findex, iindex, ino, pos, archive, header>>

\* Nothing is left to do after -1, and nothing can be done when astray.
idle ==
    /\ stage \in {"-1", "astray"} \/ answer # NoAnswer
    /\ UNCHANGED vars

Next ==
    \/ \E e \in Entries : init_ramfs(e) \/ init_ramfs_astray(e) \/ init_ramfs_invalid(e)
    \/ init_ramfs_magic
    \/ init_ramfs_end
    \/ \E name \in Queries, offset \in Offsets : read(name, offset)
    \/ \E name \in Queries : ls(name)
    \/ idle

Spec == Init /\ [][Next]_vars

-----------------------------------------------------------------------------
Entry(k) == archive[k].e

\* Neither index has gone round.
FilesFit == Len(archive) <= ROOTFS_FILE_COUNT
InodesFit == 2 * Cardinality({k \in DOMAIN archive : HasInode(Entry(k))}) <= ROOTFS_INODE_COUNT

\* The entries of files with data that have been read to their end.
DataFiles ==
    {k \in DOMAIN archive :
        /\ Entry(k).mode = "REGULAR" /\ int_from_string(Entry(k).size) > 0
        /\ stage = "astray" => k # Len(archive)}

\* int_from_string refuses the size of the name or of the data.
NameRefused(e) == int_from_string(e.namesize) = -1
SizeRefused(e) == int_from_string(e.size) = -1

\* A file leads to its size and, unless the size of its name is written in
\* lower case, to its own data, where cpio has put it, although init_ramfs
\* moves to another inode twice for each file and treats files as directories
\* and inodes as files when their names are prefixes.
DataInPlace ==
    FilesFit /\ InodesFit =>
        \A k \in DataFiles :
            LET p == files[k - 1].link
            IN  /\ p[1] = "inode"
                /\ \/ NameRefused(Entry(k))
                   \/ inodes[p[2]].data = <<"archive", DataAt(Entry(k), archive[k].at)>>
                /\ inodes[p[2]].size = Length(Entry(k))

\* Unless the size of a name or of data is written in lower case, init_ramfs
\* finds every header of the archive, and answers -1 only for a mode it does
\* not know.
HeadersFound ==
    stage = "-1" =>
        \E k \in DOMAIN archive :
            Entry(k).mode = "INVALID" \/ NameRefused(Entry(k)) \/ SizeRefused(Entry(k))

\* As long as there are slots for the files, siblings are linked from lower
\* to higher slots, so that no walk over them goes in circles.
SiblingsAscend ==
    FilesFit => \A i \in Files : files[i].next # NULL => files[i].next[2] > i

\* No name is empty, a prefix of another or too long, and a directory is
\* listed before what is in it.
WellNamed ==
    /\ FilesFit
    /\ \A k \in DOMAIN archive :
          /\ Entry(k).mode # "INVALID"
          /\ Entry(k).base # <<>> /\ Stored(Entry(k).base) = Entry(k).base
          /\ \A j \in DOMAIN archive : IsPrefix(Entry(j).base, Entry(k).base) => j = k
          /\ \/ Entry(k).dir = <<>>
             \/ \E j \in 1..(k - 1) : Entry(j).mode = "DIRECTORY" /\ Entry(j).base = Entry(k).dir

\* The entries in a directory, from one of them on.
InDir(dir, from) == {k \in from..Len(archive) : Entry(k).dir = dir}

\* A sequence of pointers to just the slots of some entries, in their order.
Lists(seq, ks) ==
    /\ Range(seq) = {<<"file", k - 1>> : k \in ks}
    /\ \A i, j \in DOMAIN seq : i < j => seq[i][2] < seq[j][2]

\* For such an archive files is its tree: the children of a directory are
\* its entries, in their order, and point back to it.
TreeOfArchive ==
    WellNamed =>
        \A d \in DOMAIN archive : Entry(d).mode = "DIRECTORY" =>
            LET first == files[d - 1].link
                children == IF first = NULL THEN <<>> ELSE Siblings(files, inodes, first)
                in == InDir(Entry(d).base, 1)
            IN  /\ Lists(children, in)
                /\ \A k \in in : files[k - 1].parent = <<"file", d - 1>>

\* For such an archive read accepts just the offsets up to the size of the
\* file, and ls puts out the file and those after it in its directory; entries
\* without a directory are not linked to each other, so for one of them ls
\* puts out that one alone.
AnswersMatchArchive ==
    WellNamed /\ InodesFit =>
        \A k \in DOMAIN archive : answer.name = Entry(k).base =>
            /\ answer.op = "read" /\ k \in DataFiles =>
                  answer.ret = IF answer.offset <= Length(Entry(k)) THEN 0 ELSE -1
            /\ answer.op = "ls" =>
                  Lists(answer.out, IF Entry(k).dir = <<>> THEN {k} ELSE InDir(Entry(k).dir, k))

=============================================================================
