CONSTANTS
    t1 = t1
    t2 = t2
    t3 = t3
    u1 = u1
    u2 = u2
    v1 = v1
    v2 = v2
    ali = ali
    NoScore = NoScore
    Sitters = {ali}
    Papers <- MCPapers
    MaxAttempts = 2
    Timed = TRUE
    Counts = TRUE
    TeachersMarks = {3}
    Graders = {u1, u2}
    Staff = {ali}
    LeaveRequests = {t1, t2, t3}
    Filers = {u1, u2}
    Ranges <- MCRanges
    NewYearsDay = 8
    Allowance = 3
SYMMETRY MCSymmetry
SPECIFICATION MCSpec
INVARIANTS
    SchoolTablesOK
    OnePaperAtATime
    MarksAddUp
    GradebookShowsBest
    AllowanceHolds
CHECK_DEADLOCK FALSE
