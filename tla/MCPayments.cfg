CONSTANTS
    north = north
    south = south
    n1 = n1
    s1 = s1
    parent = parent
    student = student
    other = other
    tab1 = tab1
    tab2 = tab2
    None = None
    Schools = {north, south}
    Invoices = {n1, s1}
    SchoolOf <- MCSchoolOf
    Submissions = {1, 2}
    Families = {parent, student, other}
    MayPay <- MCMayPay
    Admins = {tab1, tab2}
    AdminOf <- MCAdminOf
    MaxAmount = 2
    MaxSequence <- MCMaxSequence
    Dues = {2}
    Year = 2026
SYMMETRY MCSymmetry
SPECIFICATION Spec
INVARIANTS
    PaymentTablesOK
    VerifiedMoneyCounted
    StatusFollowsClaims
    ReceiptCoversPayment
    ToldVerifiedIsCounted
    SchoolReferencesNeverClash
PROPERTIES
    ImplementsLedger
CHECK_DEADLOCK FALSE
