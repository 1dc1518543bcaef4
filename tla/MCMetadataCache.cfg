SPECIFICATION FairSpec
CONSTANTS
    Buckets = {b1}
    Keys = {k1}
    Sizes <- RowSizes
    MaxBytes <- Budget
    Procs = {p1, p2}
    MaxWrites = 2
    None = None
INVARIANTS
    TypeOK
    WithinBudget
    ReadsSeeReturnedWrites
PROPERTIES
    KeepsPromise
    ReadsTerminate
