\* The kernel in page 0, frames from page 1 on with the archive in the fifth,
\* the peripherals from page 8 on; the page table takes three frames.
CONSTANTS
    kalloc_start = 1
    kalloc_end = 8
    RamfsPage = 5
    Tables = 3
    Mapped = {0, 8}
SPECIFICATION BootSpec
INVARIANT ArchiveIntact
