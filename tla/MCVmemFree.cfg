\* Tables of two entries; up to twelve frames, so that allocation fails at every level.
CONSTANTS
    PENTRY_CNT = 2
    KernelPages <- MCKernelPages
    MmioPages <- MCMmioPages
    FirstFrame = 2
    LastFrame = 13
    Requests <- MCRequests
    UserPages <- MCUserPages
SPECIFICATION Spec
PROPERTY FreedFramesReturn
