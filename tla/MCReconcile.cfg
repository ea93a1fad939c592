CONSTANTS
    north = north
    n1 = n1
    parent = parent
    tab = tab
    desk = desk
    c1 = c1
    c2 = c2
    d1 = d1
    d2 = d2
    d3 = d3
    None = None
    Schools = {north}
    Invoices = {n1}
    SchoolOf <- MCSchoolOf
    Submissions = {1, 2}
    Families = {parent}
    MayPay <- MCMayPay
    Admins = {tab}
    AdminOf <- MCAdminOf
    MaxAmount = 2
    MaxSequence <- MCMaxSequence
    Dues = {2, 3}
    Year = 2026
    Desks = {desk}
    DeskOf <- MCDeskOf
    Lines = {1, 2}
    Sessions = {c1, c2}
    Deliveries = {d1, d2, d3}
    FallsShort <- MCFallsShort
SYMMETRY MCSymmetry
SPECIFICATION MCSpec
INVARIANTS
    ReconcileTablesOK
    OnlineTotalsHold
    MatchesAreSound
    SuggestionsAreFair
PROPERTIES
    LineSpentOnce
CHECK_DEADLOCK FALSE
