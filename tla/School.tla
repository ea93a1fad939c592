------------------------------- MODULE School -------------------------------
(***************************************************************************)
(* Quizzes and Leave side by side: they share no table.                    *)
(***************************************************************************)
EXTENDS Quizzes, Leave

schoolVars == <<quizVars, leaveVars>>

SchoolInit == QuizInit /\ LeaveInit

QuizTurn == QuizNext /\ UNCHANGED leaveVars
LeaveTurn == LeaveNext /\ UNCHANGED quizVars

SchoolNext == QuizTurn \/ LeaveTurn

SchoolSpec == SchoolInit /\ [][SchoolNext]_schoolVars

(* Rows and requests have their shape: answers are to questions of the     *)
(* paper, and leave covers a working day.                                  *)
SchoolTablesOK ==
    /\ QuizTypeOK
    /\ LeaveTypeOK
==============================================================================
