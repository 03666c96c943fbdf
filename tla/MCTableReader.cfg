SPECIFICATION Spec
CONSTANTS
    Dbs = {d1, d2}
    Names = {a, b}
    MaxDdl = 3
    Ddl <- AllDdl
    CatalogPage = 3
SYMMETRY Symmetry
INVARIANTS
    ReaderInv
    SelectionOfDb
    UntouchedFound
    ColumnsExact
    FetchSeesRows
CHECK_DEADLOCK FALSE
