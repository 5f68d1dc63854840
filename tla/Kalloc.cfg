\* Four frames: pages 1 to 4, the last one at kalloc_end.
CONSTANTS
    kalloc_start = 1
    kalloc_end = 4
SPECIFICATION Spec
INVARIANTS
    TypeOK
    FreeListExact
PROPERTIES
    ImplementsFramePool
    FreshFrameIsZero
