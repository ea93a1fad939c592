CONSTANTS
    a1 = a1
    a2 = a2
    a3 = a3
    b1 = b1
    b2 = b2
    c1 = c1
    c2 = c2
    k1 = k1
    k2 = k2
    r1 = r1
    NoRoom = NoRoom
    Null = Null
    NoOne = NoOne
    NoTemplate = NoTemplate
    NoRole = NoRole
    Gone = Gone
    NoPerson = NoPerson
    NoEmail = NoEmail
    NoMatter = NoMatter
    Nobody = Nobody
    TClasses = {a1, a2, a3}
    Teachers = {b1, b2}
    Rooms = {r1}
    Periods = {k1}
    Editors = {c1, c2}
    Syllabi = {k1, k2}
    CourseOf <- MCCourseOf
    Titles = {c1, c2}
    MaxTopics = 3
    MaxOrder = 0
    Plans = {r1}
    PlanPeriods = {r1}
    Authors = {b1, b2}
    Planners = {r1}
    Pupils = {a1, a2, a3}
    Cells = {b1, b2}
    ExamTypes = {b1, b2}
    ExamOf <- MCExamOf
    GClasses = {c1, c2}
    Scores <- MCScores
    Markers = {r1}
    Templates = {b1, b2}
    People = {c1, c2, r1}
    RoleOf <- MCRoleOf
    Admins = {a1, a2, a3}
    Profiles = {a1, a2, a3}
    Emails = {a1, a2, a3}
    Guardians = {r1}
    Clerks = {b1, b2}
    Cap = 1
    SupportTickets = {k1}
    Complaints = {k2}
    Handlers = {b1, b2}
    Users = {b1, b2}
    Calls = {a1, a2, a3}
    Pushes = {c1, c2}
SYMMETRY MCSymmetry
SPECIFICATION MCSpec
INVARIANTS
    OfficeTablesOK
    SyllabusTellsTheTruth
    MattersAnswerTruly
    NotificationsFollowThePhone
    NobodyInTwoPlaces
    PlansFollowTheSyllabus
    RanksAreFair
    CardsPlaceByTerm
    LockedOutByCrossingOnly
    OverCapByRacersOnly
CHECK_DEADLOCK FALSE
