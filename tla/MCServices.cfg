CONSTANTS
    t1 = t1
    t2 = t2
    t3 = t3
    u1 = u1
    u2 = u2
    v1 = v1
    v2 = v2
    ali = ali
    r1 = r1
    k1 = k1
    k2 = k2
    None = None
    NoParent = NoParent
    Nobody = Nobody
    NoRegister = NoRegister
    Items = {u1, u2}
    Assignments = {t1, t2, t3}
    MaxQuantity = 3
    Books = {u1, u2}
    BookLoans = {t1, t2, t3}
    MaxCopies = 2
    Rooms = {r1}
    Students = {t1, t2, t3}
    Wardens = {u1, u2}
    MaxCapacity = 2
    Slots = {u1, u2}
    Parents = {v1, v2}
    Pupils = {ali}
    Days = {1, 2}
    Offset = 0
    LongestAbsence = 2
    Absences = {u1, u2}
    Marks = {v1, v2}
    Sheets = {k1, k2}
    Registers = {1, 2, 3}
    SheetOf <- MCSheetOf
    Screens = {u1, u2}
    Drains = {v1, v2}
    ReadsFail = TRUE
SYMMETRY MCSymmetry
SPECIFICATION MCSpec
INVARIANTS
    ServicesTablesOK
    StockAgrees
    CopiesAgree
    FullMeansFull
    RegisterIsHonest
    ParkedIsKeptUncrossed
PROPERTIES
    InventoryImplementsPool
    LibraryImplementsPool
    NoBookingOverwritten
CHECK_DEADLOCK FALSE
