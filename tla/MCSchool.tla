------------------------------ MODULE MCSchool ------------------------------
(***************************************************************************)
(* Small instances of Quizzes and Leave, of which one runs in each         *)
(* behaviour, as they share no table.                                      *)
(***************************************************************************)
EXTENDS School, TLC

CONSTANTS
    t1, t2, t3,  \* ids of rows or of requests, shared as in MCServices
    u1, u2,
    v1, v2,
    ali

VARIABLE service  \* the service that runs in this behaviour

MCPapers == {{v1}, {v2}}

(* From day 8 on it is the next year, and day 7 is a Sunday: two days, two  *)
(* days across the Sunday and New Year, a Sunday alone, and one day.       *)
MCRanges == {<<5, 6>>, <<6, 8>>, <<7, 7>>, <<9, 9>>}

MCInit ==
    /\ SchoolInit
    /\ service \in {"quizzes", "leave"}

(* A quiz is edited, removed or marked over by a teacher, only one of the   *)
(* three, and closes only before the student is admitted, since it makes   *)
(* no difference afterwards.                                               *)
MCQuizTurn ==
    /\ QuizTurn
    /\ ~(toRewrite' /\ toRemove')
    /\ keyed' # {} => ~(toRewrite' \/ toRemove')
    /\ quiz'.window = "closed" => admitted' = {}

(* Reviews and withdrawals reach two of the three requests, or one twice.   *)
MCLeaveTurn ==
    /\ LeaveTurn
    /\ Cardinality(toReview') + Cardinality(toCancel') <= 2

MCNext ==
    /\ UNCHANGED service
    /\ \/ service = "quizzes" /\ MCQuizTurn
       \/ service = "leave" /\ MCLeaveTurn

MCSpec == MCInit /\ [][MCNext]_<<schoolVars, service>>

MCSymmetry ==
    UNION {Permutations({t1, t2, t3}), Permutations({u1, u2}), Permutations({v1, v2})}
==============================================================================
