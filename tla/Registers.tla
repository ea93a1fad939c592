----------------------------- MODULE Registers -----------------------------
(***************************************************************************)
(* The attendance register and the absences families ask to have excused   *)
(* (apps/api/src/attendance/attendance.service.ts,                         *)
(* apps/api/src/absences/absences.service.ts).                             *)
(*                                                                         *)
(* Each side looks at the other's table: approving an absence turns the    *)
(* days already marked ABSENT into EXCUSED, and taking a register looks    *)
(* for approved absences first.  Alerts change nothing here and are left   *)
(* out.                                                                    *)
(***************************************************************************)
EXTENDS Integers

CONSTANTS
    Pupils,
    Days,
    Offset,          \* hours by which the school's clocks are ahead of UTC
    LongestAbsence,  \* MAX_ABSENCE_REQUEST_DAYS
    Absences,        \* ids of AbsenceRequest
    Marks,           \* requests to take a register that can overlap
    Nobody

ASSUME DaysAssumption == Days \subseteq Nat /\ LongestAbsence \in Nat
ASSUME OffsetAssumption == Offset \in -12..14
ASSUME NobodyAssumption == Nobody \notin Pupils

(* LATE is treated as PRESENT is: a child who turned up. *)
Statuses == {"PRESENT", "ABSENT", "EXCUSED"}

(* Days are those of the school's calendar, instants are hours of UTC.  An *)
(* absence is sent as midnights of UTC, a register as the midnight of the  *)
(* phone's clock; the columns keep the instants.                           *)
MidnightUTC(d) == 24 * d
Today(d) == 24 * d - Offset

(* What a family can ask for: the dates in order, and not too many. *)
Spans == {x \in [student : Pupils, first : Days, last : Days] :
            x.first <= x.last /\ x.last - x.first + 1 <= LongestAbsence}

VARIABLES
    record,     \* table AttendanceRecord: the status of a student on a day
    absence,    \* table AbsenceRequest
    toRequest,  \* spans a request has found no clash with
    mark,       \* mark[m]: the register a teacher's request is taking
    said        \* what the last register taken said (history, for properties)

registerVars == <<record, absence, toRequest, mark, said>>

NoAbsence == [status |-> "NONE", student |-> Nobody, first |-> 0, last |-> 0]
NoMark == [step |-> "idle", day |-> 0, entries |-> <<>>, excused |-> {}]

RegisterInit ==
    /\ record = [d \in Days |-> [s \in Pupils |-> "NONE"]]
    /\ absence = [x \in Absences |-> NoAbsence]
    /\ toRequest = {}
    /\ mark = [m \in Marks |-> NoMark]
    /\ said = [d \in Days |-> [s \in Pupils |-> "NONE"]]

(* The date comparisons by which registers and absences find each other. *)
Covers(span, s, d) ==
    /\ span.student = s
    /\ MidnightUTC(span.first) <= Today(d)
    /\ Today(d) <= MidnightUTC(span.last)

------------------------------------------------------------------------------
(* AbsencesService.request looks for a live request over the same days ... *)
Overlap(a, b) == a.student = b.student /\ a.first <= b.last /\ a.last >= b.first

CheckClash(span) ==
    /\ \A x \in Absences :
          absence[x].status \in {"PENDING", "APPROVED"} => ~Overlap(absence[x], span)
    /\ toRequest' = toRequest \cup {span}
    /\ UNCHANGED <<record, absence, mark, said>>

(* ... and inserts its own later. *)
RequestAbsence(x, span) ==
    /\ span \in toRequest
    /\ absence[x].status = "NONE"
    /\ absence' = [absence EXCEPT ![x] =
          [status |-> "PENDING", student |-> span.student,
           first |-> span.first, last |-> span.last]]
    /\ UNCHANGED <<record, toRequest, mark, said>>

(* Broken variant: deciding and withdrawing by id alone. *)
Raised(x) == absence[x].status # "NONE"
(* The status test in the WHERE clause of both updates. *)
Undecided(x) == absence[x].status = "PENDING"

(* Approval leaves alone whoever turned up. *)
Excusable(status) == status = "ABSENT"

(* review, one transaction: the claim, and on approval the registers. *)
ReviewAbsence(x, decision) ==
    /\ Undecided(x)
    /\ absence' = [absence EXCEPT ![x].status = decision]
    /\ record' =
          IF decision = "REJECTED" THEN record
          ELSE [d \in Days |-> [s \in Pupils |->
                  IF Covers(absence[x], s, d) /\ Excusable(record[d][s])
                  THEN "EXCUSED" ELSE record[d][s]]]
    /\ UNCHANGED <<toRequest, mark, said>>

CancelAbsence(x) ==
    /\ Undecided(x)
    /\ absence' = [absence EXCEPT ![x].status = "CANCELLED"]
    /\ UNCHANGED <<record, toRequest, mark, said>>

------------------------------------------------------------------------------
(* AttendanceService.markAttendance: the approved absences are read ...    *)
Approved(s, d) ==
    \E x \in Absences : absence[x].status = "APPROVED" /\ Covers(absence[x], s, d)

ExcusedOn(d, entries) ==
    {s \in DOMAIN entries : entries[s] = "ABSENT" /\ Approved(s, d)}

ReadExcused(m, d, entries) ==
    /\ mark[m].step = "idle"
    /\ mark' = [mark EXCEPT ![m] =
          [step |-> "read", day |-> d, entries |-> entries,
           excused |-> ExcusedOn(d, entries)]]
    /\ UNCHANGED <<record, absence, toRequest, said>>

Filed(row, entries) ==
    [s \in Pupils |-> IF s \in DOMAIN entries THEN entries[s] ELSE row[s]]
Excused(r) ==
    [s \in DOMAIN r.entries |-> IF s \in r.excused THEN "EXCUSED" ELSE r.entries[s]]

(* ... and one transaction of upserts writes the register. *)
TakeRegister(m) ==
    LET r == mark[m]
    IN  /\ r.step = "read"
        /\ record' = [record EXCEPT ![r.day] = Filed(@, Excused(r))]
        /\ said' = [said EXCEPT ![r.day] = Filed(@, r.entries)]
        /\ mark' = [mark EXCEPT ![m] = NoMark]
        /\ UNCHANGED <<absence, toRequest>>

(* The request dies before the transaction; the phone may send it again.   *)
DropMark(m) ==
    /\ mark[m].step = "read"
    /\ mark' = [mark EXCEPT ![m] = NoMark]
    /\ UNCHANGED <<record, absence, toRequest, said>>

(* What a class's register can say: a status for each student on it. *)
Entries == UNION {[S -> Statuses] : S \in SUBSET Pupils}

RegisterNext ==
    \/ \E span \in Spans : CheckClash(span)
    \/ \E x \in Absences, span \in toRequest : RequestAbsence(x, span)
    \/ \E x \in Absences, decision \in {"APPROVED", "REJECTED"} : ReviewAbsence(x, decision)
    \/ \E x \in Absences : CancelAbsence(x)
    \/ \E m \in Marks, d \in Days, entries \in Entries : ReadExcused(m, d, entries)
    \/ \E m \in Marks : TakeRegister(m)
    \/ \E m \in Marks : DropMark(m)

RegisterSpec == RegisterInit /\ [][RegisterNext]_registerVars
------------------------------------------------------------------------------
(* Rows and requests have the shape the schema and the code give them, a   *)
(* request for an absence is for a span a family can ask for, and only a   *)
(* child marked absent is about to be excused.                             *)
RegisterTypeOK ==
    /\ record \in [Days -> [Pupils -> Statuses \cup {"NONE"}]]
    /\ said \in [Days -> [Pupils -> Statuses \cup {"NONE"}]]
    /\ toRequest \subseteq Spans
    /\ absence \in [Absences ->
          {NoAbsence} \cup
          [status : {"PENDING", "APPROVED", "REJECTED", "CANCELLED"},
           student : Pupils, first : Days, last : Days]]
    /\ mark \in [Marks ->
          {NoMark} \cup
          [step : {"read"}, day : Days, entries : Entries, excused : SUBSET Pupils]]
    /\ \A m \in Marks : \A s \in mark[m].excused :
          s \in DOMAIN mark[m].entries /\ mark[m].entries[s] = "ABSENT"

(* The register is the teacher's, and the office changes one thing in it:  *)
(* a row says what the last register taken said, unless that was ABSENT    *)
(* and an absence that stands approved covers the day, which may have made *)
(* it EXCUSED.  However many admins and withdrawals race for one request,  *)
(* and however old the absences are that a register was taken against.     *)
RegisterIsHonest ==
    \A d \in Days, s \in Pupils :
        \/ record[d][s] = said[d][s]
        \/ record[d][s] = "EXCUSED" /\ said[d][s] = "ABSENT" /\ Approved(s, d)

(* "It converts ABSENT to EXCUSED for the days covered": an absence that   *)
(* stands approved covers every day it was asked for.                      *)
AbsenceCoversItsDays ==
    \A x \in Absences, d \in Days :
        absence[x].status = "APPROVED" /\ absence[x].first <= d /\ d <= absence[x].last
            => Covers(absence[x], absence[x].student, d)
==============================================================================
