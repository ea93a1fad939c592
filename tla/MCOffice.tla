------------------------------ MODULE MCOffice ------------------------------
(***************************************************************************)
(* Small instances of the services of Office.  One of them runs in each    *)
(* behaviour: they share no table that one of them relies on, so whatever  *)
(* holds of each alone holds of all together.                              *)
(***************************************************************************)
EXTENDS Office, TLC

CONSTANTS
    a1, a2, a3,  \* ids of rows or of requests, shared by the services as in
    b1, b2,      \* MCServices
    c1, c2,
    k1, k2, r1

VARIABLE service  \* the service that runs in this behaviour

MCCourseOf == [k \in {k1, k2} |-> k]
MCScores == {<<1, 1>>, <<1, 2>>}
MCExamOf == [x \in {b1, b2} |-> x]
MCRoleOf == [u \in {c1, c2, r1} |-> IF u = r1 THEN "PARENT" ELSE "TEACHER"]

MCInit ==
    /\ OfficeInit
    /\ service \in {"timetable", "syllabus", "plans", "cards", "comments", "templates",
                    "enrolment", "tickets", "devices"}
    /\ IF service \in {"cards", "comments"} THEN \A s \in Pupils : classOf[s] # NoOne
       ELSE \A s \in Pupils : classOf[s] = NoOne

(* One syllabus is written at a time, with all its topics ... *)
MCSyllabusTurn ==
    /\ SyllabusNext
    /\ UNCHANGED <<timetableVars, gradebookVars, peopleVars, contactVars>>
    /\ \A a \in Authors : author'[a].on # k2

(* ... or plans are pinned to at most two topics, of two courses. *)
MCPlansTurn ==
    /\ LessonTurn
    /\ entered' <= 2
    /\ \A a \in Authors : author'[a].step # "updating"

(* Report cards are made of at most three marks, all written as a quiz      *)
(* writes them, about whose comments they do not care ...                  *)
MCCardsTurn ==
    /\ GradebookTurn
    /\ UNCHANGED <<marker, comment>>
    /\ \A s \in Pupils, x \in Cells : grade'[s][x].comment = "none"
    /\ Cardinality({e \in Pupils \X Cells : grade'[e[1]][e[2]] # NoGrade}) <= 3

(* ... and comments are written for one student. *)
MCCommentsTurn ==
    /\ MarkNext
    /\ UNCHANGED <<timeVars, peopleVars, contactVars>>
    /\ \E s \in Pupils : \A o \in Pupils \ {s} :
          /\ classOf'[o] = classOf[o]
          /\ \A m \in Markers : marker'[m].pupil # o
          /\ \A x \in Cells : grade'[o][x] = NoGrade

(* One matter is raised. *)
MCTicketTurn ==
    /\ TicketTurn
    /\ \E x \in Matters : \A y \in Matters \ {x} : matter'[y] = NotRaised

MCNext ==
    /\ UNCHANGED service
    /\ \/ service = "timetable" /\ TimetableTurn
       \/ service = "syllabus" /\ MCSyllabusTurn
       \/ service = "plans" /\ MCPlansTurn
       \/ service = "cards" /\ MCCardsTurn
       \/ service = "comments" /\ MCCommentsTurn
       \/ service = "templates" /\ TemplateTurn
       \/ service = "enrolment" /\ EnrolmentTurn
       \/ service = "tickets" /\ MCTicketTurn
       \/ service = "devices" /\ DeviceTurn

MCSpec == MCInit /\ [][MCNext]_<<officeVars, service>>

MCSymmetry == UNION {Permutations({a1, a2, a3}), Permutations({b1, b2}), Permutations({c1, c2})}
==============================================================================
