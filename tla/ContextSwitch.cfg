\* Three slots; the kernel page table leaves from two to six frames, so that
\* forks run out of slots, of frames, and of the second of their two frames.
CONSTANTS
    PROCCNT = 3
    MaxPid = 4
    LastFrame = 6
SPECIFICATION SwitchSpec
INVARIANTS
    SwitchTypeOK
    PidsDistinct
    BoundedWait
    FramesExclusive
    RegistersFollow
PROPERTY ForkTakesTwoOrNone
