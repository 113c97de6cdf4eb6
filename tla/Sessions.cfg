\* Inode numbers are not reused.
CONSTANTS
    p1 = p1
    p2 = p2
    d1 = d1
    d2 = d2
    r1 = r1
    r2 = r2
    None = None
    Requests = {r1, r2}
    Paths = {p1, p2}
    Directories = {d1, d2}
    InodeOf <- MCDistinct
    Copies <- MCCopies
    MaxSwaps = 3
    MaxWrites = 3
    MaxRestarts = 1
SPECIFICATION Spec
SYMMETRY Symmetry
INVARIANTS
    OneDirectory
    RenamesChain
