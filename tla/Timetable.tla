----------------------------- MODULE Timetable -----------------------------
(***************************************************************************)
(* The weekly timetable (apps/api/src/timetable/timetable.service.ts): a   *)
(* lesson per class and slot, given by a teacher and perhaps in a room.    *)
(* An edit looks for clashes with two queries at once and writes later;    *)
(* the unique indexes of the table speak last.  Days never meet, so one    *)
(* day is modelled and a slot is a period.                                 *)
(***************************************************************************)
CONSTANTS
    TClasses, Teachers, Rooms,
    Periods,   \* ids of Period
    Editors,   \* edits of the timetable that can overlap
    NoRoom     \* the lesson names no room

ASSUME NoRoomAssumption == NoRoom \notin Rooms

VARIABLES
    periods,  \* the rows of Period
    lesson,   \* lesson[c][p]: the row of TimetableEntry of a class in a period
    editor    \* editor[e]: an edit in flight, and the clashes it has ruled out

timetableVars == <<periods, lesson, editor>>

NoLesson == [status |-> "NONE", teacher |-> NoRoom, room |-> NoRoom]
Lessons == [status : {"there"}, teacher : Teachers, room : Rooms \cup {NoRoom}]

NoEditor == [step |-> "idle", class |-> NoRoom, period |-> NoRoom, lesson |-> NoLesson, clear |-> {}]

TimetableInit ==
    /\ periods = {}
    /\ lesson = [c \in TClasses |-> [p \in Periods |-> NoLesson]]
    /\ editor = [e \in Editors |-> NoEditor]

------------------------------------------------------------------------------
(* Ids are not given again while an edit holds one. *)
CreatePeriod(p) ==
    /\ p \notin periods
    /\ \A e \in Editors : editor[e].period # p
    /\ periods' = periods \cup {p}
    /\ UNCHANGED <<lesson, editor>>

WithoutPeriod(c, p) == [lesson[c] EXCEPT ![p] = NoLesson]

(* "Entries cascade". *)
DeletePeriod(p) ==
    /\ p \in periods
    /\ periods' = periods \ {p}
    /\ lesson' = [c \in TClasses |-> WithoutPeriod(c, p)]
    /\ UNCHANGED editor

------------------------------------------------------------------------------
(* upsertEntry finds class, period and teacher ... *)
BeginEdit(e, c, p, l) ==
    /\ editor[e].step = "idle"
    /\ p \in periods
    /\ editor' = [editor EXCEPT ![e] =
          [step |-> "looking", class |-> c, period |-> p, lesson |-> l,
           clear |-> IF l.room = NoRoom THEN {"ROOM"} ELSE {}]]
    /\ UNCHANGED <<periods, lesson>>

(* ... looks in the other classes for the teacher and, if one is named,    *)
(* for the room, both at once ...                                          *)
Others(e, kind) ==
    {c \in TClasses \ {editor[e].class} :
        LET l == lesson[c][editor[e].period]
        IN  /\ l # NoLesson
            /\ IF kind = "TEACHER" THEN l.teacher = editor[e].lesson.teacher
               ELSE l.room = editor[e].lesson.room}

Look(e, kind) ==
    /\ editor[e].step = "looking"
    /\ Others(e, kind) = {}
    /\ editor' = [editor EXCEPT ![e].clear = @ \cup {kind}]
    /\ UNCHANGED <<periods, lesson>>

(* Broken variant: there are no unique indexes, only the look before. *)
OnlyLooked(e) == TRUE
IndexesHold(e) ==
    /\ Others(e, "TEACHER") = {}
    /\ editor[e].lesson.room # NoRoom => Others(e, "ROOM") = {}

(* ... and writes, in place of what the class had there. *)
Write(e) ==
    LET c == editor[e].class
        p == editor[e].period
    IN  /\ editor[e].step = "looking"
        /\ editor[e].clear = {"TEACHER", "ROOM"}
        /\ p \in periods
        /\ IndexesHold(e)
        /\ lesson' = [lesson EXCEPT ![c][p] = editor[e].lesson]
        /\ editor' = [editor EXCEPT ![e] = NoEditor]
        /\ UNCHANGED periods

(* A clash, an index, or a period that has gone refuses the edit; or it    *)
(* fails on its way.                                                       *)
Refuse(e) ==
    /\ editor[e].step # "idle"
    /\ editor' = [editor EXCEPT ![e] = NoEditor]
    /\ UNCHANGED <<periods, lesson>>

DeleteEntry(c, p) ==
    /\ lesson[c][p] # NoLesson
    /\ lesson' = [lesson EXCEPT ![c][p] = NoLesson]
    /\ UNCHANGED <<periods, editor>>

TimetableNext ==
    \/ \E p \in Periods : CreatePeriod(p) \/ DeletePeriod(p)
    \/ \E e \in Editors, c \in TClasses, p \in Periods, l \in Lessons : BeginEdit(e, c, p, l)
    \/ \E e \in Editors, kind \in {"TEACHER", "ROOM"} : Look(e, kind)
    \/ \E e \in Editors : Write(e) \/ Refuse(e)
    \/ \E c \in TClasses, p \in Periods : DeleteEntry(c, p)

TimetableSpec == TimetableInit /\ [][TimetableNext]_timetableVars

------------------------------------------------------------------------------
(* The rows have their shape, and a lesson is in a period that exists. *)
TimetableTypeOK ==
    /\ periods \subseteq Periods
    /\ lesson \in [TClasses -> [Periods -> Lessons \cup {NoLesson}]]
    /\ \A c \in TClasses, p \in Periods : lesson[c][p] # NoLesson => p \in periods
    /\ editor \in [Editors ->
          [step : {"looking"}, class : TClasses, period : Periods, lesson : Lessons,
           clear : SUBSET {"TEACHER", "ROOM"}] \cup {NoEditor}]

(* "Two admins editing the timetable at the same time can't both win": no  *)
(* teacher and no room is in two lessons of a slot, whatever edits look    *)
(* before others write.                                                    *)
NobodyInTwoPlaces ==
    \A p \in Periods, c, d \in TClasses :
        /\ c # d
        /\ lesson[c][p] # NoLesson
        /\ lesson[d][p] # NoLesson
        => /\ lesson[c][p].teacher # lesson[d][p].teacher
           /\ lesson[c][p].room = lesson[d][p].room => lesson[c][p].room = NoRoom
==============================================================================
