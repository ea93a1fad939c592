-------------------------------- MODULE Leave --------------------------------
(***************************************************************************)
(* Staff leave of one kind with an annual allowance                        *)
(* (apps/api/src/leave/leave.service.ts).  Kinds have allowances of their  *)
(* own and do not meet; the kind without one skips the comparison, which   *)
(* is an Allowance that no request reaches.                                *)
(*                                                                         *)
(* Days are numbered, and every seventh is a Sunday.  A filing reads the   *)
(* balance in one query and inserts in another; a review and a withdrawal  *)
(* read the request and write it by its id.  The messages they send change *)
(* nothing here.                                                           *)
(***************************************************************************)
EXTENDS Naturals, FiniteSets

CONSTANTS
    Staff,
    LeaveRequests,  \* ids of LeaveRequest
    Filers,         \* filings that can overlap
    Ranges,         \* the pairs of first and last day that are asked for
    NewYearsDay,    \* the first day of the second year
    Allowance

ASSUME AllowanceAssumption == Allowance \in Nat
ASSUME FilersAssumption == IsFiniteSet(Filers)
ASSUME LeaveDaysAssumption ==
    /\ NewYearsDay \in Nat
    /\ \A x \in Ranges : x[1] \in Nat /\ x[2] \in Nat /\ x[1] <= x[2]

VARIABLES
    leave,      \* leave[l]: a row of LeaveRequest
    yearStart,  \* the day from which balanceFor counts
    filer,      \* filer[f]: a filing that the balance allows
    toReview,   \* requests a review has found pending
    toCancel,   \* requests a withdrawal has found pending
    crowded     \* staff of whom two filings overlapped (history)

leaveVars == <<leave, yearStart, filer, toReview, toCancel, crowded>>

LeaveStatuses == {"PENDING", "APPROVED", "REJECTED", "CANCELLED"}

NoLeave == [status |-> "NONE"]
NoFiling == [step |-> "idle"]

(* Two fields of a row are history: asked is the first day of the year in   *)
(* which its balance was read, and revived says that it was approved after *)
(* it had been declined or withdrawn.                                      *)
LeaveRows ==
    [status : LeaveStatuses, who : Staff, first : Nat, last : Nat,
     asked : {0, NewYearsDay}, revived : BOOLEAN]
Filings ==
    [step : {"allowed"}, who : Staff, first : Nat, last : Nat, asked : {0, NewYearsDay}]

LeaveInit ==
    /\ leave = [l \in LeaveRequests |-> NoLeave]
    /\ yearStart = 0
    /\ filer = [f \in Filers |-> NoFiling]
    /\ toReview = {}
    /\ toCancel = {}
    /\ crowded = {}

(* workingDaysBetween counts the days that are not Sundays. *)
WorkingDays(first, last) == {d \in first..last : d % 7 # 0}

OfStaff(s) == {l \in LeaveRequests : leave[l].status # "NONE" /\ leave[l].who = s}

(* Broken variant: what is not decided yet does not count. *)
DecidedOnly == {"APPROVED"}
Counted == {"APPROVED", "PENDING"}

(* The requests balanceFor counts, from this year's first day on. *)
Counting(s) == {l \in OfStaff(s) : leave[l].status \in Counted /\ leave[l].first >= yearStart}

(* A day counts once for each request that covers it. *)
DaysOff(s) ==
    UNION {{l} \X WorkingDays(leave[l].first, leave[l].last) : l \in Counting(s)}

DaysUsed(s) == Cardinality(DaysOff(s))
Remaining(s) == IF DaysUsed(s) > Allowance THEN 0 ELSE Allowance - DaysUsed(s)

HasWorkingDays(x) == WorkingDays(x[1], x[2]) # {}

(* Filing: the balance ... *)
CheckBalance(f, s, x) ==
    /\ filer[f] = NoFiling
    /\ HasWorkingDays(x)
    /\ Cardinality(WorkingDays(x[1], x[2])) <= Remaining(s)
    /\ crowded' = IF \E o \in Filers : filer[o] # NoFiling /\ filer[o].who = s
                  THEN crowded \cup {s} ELSE crowded
    /\ filer' = [filer EXCEPT ![f] =
          [step |-> "allowed", who |-> s, first |-> x[1], last |-> x[2], asked |-> yearStart]]
    /\ UNCHANGED <<leave, yearStart, toReview, toCancel>>

(* ... and the row. *)
File(f, l) ==
    /\ filer[f] # NoFiling
    /\ leave[l] = NoLeave
    /\ leave' = [leave EXCEPT ![l] = [status |-> "PENDING", who |-> filer[f].who,
          first |-> filer[f].first, last |-> filer[f].last, asked |-> filer[f].asked,
          revived |-> FALSE]]
    /\ filer' = [filer EXCEPT ![f] = NoFiling]
    /\ UNCHANGED <<yearStart, toReview, toCancel, crowded>>

DropFiling(f) ==
    /\ filer[f] # NoFiling
    /\ filer' = [filer EXCEPT ![f] = NoFiling]
    /\ UNCHANGED <<leave, yearStart, toReview, toCancel, crowded>>

(* An administrator who did not file it finds it pending ... *)
CheckToReview(l) ==
    /\ leave[l].status = "PENDING"
    /\ toReview' = toReview \cup {l}
    /\ UNCHANGED <<leave, yearStart, filer, toCancel, crowded>>

(* ... and decides it, whatever it is by then. *)
Review(l, status) ==
    /\ l \in toReview
    /\ leave' = [leave EXCEPT ![l].status = status,
          ![l].revived = @ \/ (status = "APPROVED"
                                /\ leave[l].status \in {"REJECTED", "CANCELLED"})]
    /\ UNCHANGED <<yearStart, filer, toReview, toCancel, crowded>>

CheckToCancel(l) ==
    /\ leave[l].status = "PENDING"
    /\ toCancel' = toCancel \cup {l}
    /\ UNCHANGED <<leave, yearStart, filer, toReview, crowded>>

Cancel(l) ==
    /\ l \in toCancel
    /\ leave' = [leave EXCEPT ![l].status = "CANCELLED"]
    /\ UNCHANGED <<yearStart, filer, toReview, toCancel, crowded>>

NewYear ==
    /\ yearStart < NewYearsDay
    /\ yearStart' = NewYearsDay
    /\ UNCHANGED <<leave, filer, toReview, toCancel, crowded>>

LeaveNext ==
    \/ \E f \in Filers, s \in Staff, x \in Ranges : CheckBalance(f, s, x)
    \/ \E f \in Filers, l \in LeaveRequests : File(f, l)
    \/ \E f \in Filers : DropFiling(f)
    \/ \E l \in LeaveRequests : CheckToReview(l)
    \/ \E l \in LeaveRequests, status \in {"APPROVED", "REJECTED"} : Review(l, status)
    \/ \E l \in LeaveRequests : CheckToCancel(l)
    \/ \E l \in LeaveRequests : Cancel(l)
    \/ NewYear

LeaveSpec == LeaveInit /\ [][LeaveNext]_leaveVars

------------------------------------------------------------------------------
(* A row of LeaveRequest covers a working day, and only rows there are are *)
(* under review or being withdrawn.                                        *)
LeaveTypeOK ==
    /\ leave \in [LeaveRequests -> LeaveRows \cup {NoLeave}]
    /\ \A l \in LeaveRequests : leave[l] # NoLeave =>
          WorkingDays(leave[l].first, leave[l].last) # {}
    /\ yearStart \in {0, NewYearsDay}
    /\ filer \in [Filers -> Filings \cup {NoFiling}]
    /\ \A l \in toReview \cup toCancel : l \in LeaveRequests /\ leave[l] # NoLeave
    /\ crowded \subseteq Staff

(* A request was asked for in time when its first day was not in a year    *)
(* already over, and it stands when it is granted or waits without having  *)
(* been brought back by an approval that crossed a refusal or withdrawal.  *)
AskedInTime(x) == x.first >= x.asked
Stands(l) == leave[l].status \in {"PENDING", "APPROVED"} /\ ~leave[l].revived

YearOf(day) == IF day >= NewYearsDay THEN NewYearsDay ELSE 0

HeldIn(s, year) ==
    {l \in OfStaff(s) : Stands(l) /\ AskedInTime(leave[l]) /\ YearOf(leave[l].first) = year}

DaysHeld(s, year) ==
    UNION {{l} \X WorkingDays(leave[l].first, leave[l].last) : l \in HeldIn(s, year)}

(* Whose filings overlapped may have one allowance for each of them. *)
Limit(s) == IF s \in crowded THEN Cardinality(Filers) * Allowance ELSE Allowance

(* "Pending requests count against the balance too - otherwise someone     *)
(* could file three overlapping requests that each look affordable alone": *)
(* of the leave that begins in one year, what a member of staff has been   *)
(* granted or waits for never exceeds the allowance of the year, through   *)
(* every order of filings, reviews and withdrawals and on whichever side   *)
(* of New Year it was filed; n filings under way together are worth at     *)
(* most n allowances.  Leave filed for a year already over is in no        *)
(* balance and not in this count: the code sets it no bound.               *)
AllowanceHolds ==
    \A s \in Staff, year \in {0, NewYearsDay} : Cardinality(DaysHeld(s, year)) <= Limit(s)
==============================================================================
