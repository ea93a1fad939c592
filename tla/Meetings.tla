------------------------------ MODULE Meetings ------------------------------
(***************************************************************************)
(* Slots that teachers offer and parents book                              *)
(* (apps/api/src/meetings/meetings.service.ts).  The push that tells the   *)
(* teacher of a booking changes nothing here and is left out.              *)
(***************************************************************************)
EXTENDS Naturals, FiniteSets

CONSTANTS
    Slots,    \* ids of MeetingSlot
    Parents,
    NoParent  \* bookedByParentUserId IS NULL

ASSUME NoParentAssumption == NoParent \notin Parents

VARIABLES
    slot,       \* table MeetingSlot: whether the row is there, and who booked it
    past,       \* slots whose startsAt has passed
    toWithdraw  \* slots a withdrawal has found to be free

meetingVars == <<slot, past, toWithdraw>>

NoSlot == [status |-> "NONE", parent |-> NoParent]

MeetingInit ==
    /\ slot = [s \in Slots |-> NoSlot]
    /\ past = {}
    /\ toWithdraw = {}

Offered(s) == slot[s].status = "OFFERED"

(* publish: a batch of slots, none of them in the past. *)
Publish(batch) ==
    /\ batch # {}
    /\ \A s \in batch : slot[s].status = "NONE"
    /\ slot' = [s \in Slots |->
          IF s \in batch THEN [NoSlot EXCEPT !.status = "OFFERED"] ELSE slot[s]]
    /\ UNCHANGED <<past, toWithdraw>>

(* The clock passes startsAt. *)
SlotPasses(s) ==
    /\ Offered(s)
    /\ past' = past \cup {s}
    /\ UNCHANGED <<slot, toWithdraw>>

(* Broken variant: the slot was free when somebody looked. *)
BookableUnlessPast(s) == Offered(s) /\ s \notin past
(* The WHERE clause of the booking. *)
Bookable(s) == Offered(s) /\ s \notin past /\ slot[s].parent = NoParent

Book(p, s) ==
    /\ Bookable(s)
    /\ slot' = [slot EXCEPT ![s].parent = p]
    /\ UNCHANGED <<past, toWithdraw>>

CancelBooking(p, s) ==
    /\ Offered(s)
    /\ slot[s].parent = p
    /\ slot' = [slot EXCEPT ![s].parent = NoParent]
    /\ UNCHANGED <<past, toWithdraw>>

(* withdraw: a look at the booking, and later the delete by id alone. *)
CheckWithdrawal(s) ==
    /\ Offered(s)
    /\ slot[s].parent = NoParent
    /\ toWithdraw' = toWithdraw \cup {s}
    /\ UNCHANGED <<slot, past>>

Withdraw(s) ==
    /\ Offered(s)
    /\ s \in toWithdraw
    /\ slot' = [slot EXCEPT ![s] = [NoSlot EXCEPT !.status = "WITHDRAWN"]]
    /\ UNCHANGED <<past, toWithdraw>>

MeetingNext ==
    \/ \E batch \in SUBSET Slots : Publish(batch)
    \/ \E s \in Slots : SlotPasses(s)
    \/ \E p \in Parents, s \in Slots : Book(p, s)
    \/ \E p \in Parents, s \in Slots : CancelBooking(p, s)
    \/ \E s \in Slots : CheckWithdrawal(s)
    \/ \E s \in Slots : Withdraw(s)

MeetingSpec == MeetingInit /\ [][MeetingNext]_meetingVars

------------------------------------------------------------------------------
(* Slots have the shape the schema gives them, and only a slot that is     *)
(* there is booked.                                                        *)
MeetingTypeOK ==
    /\ slot \in [Slots -> [status : {"NONE", "OFFERED", "WITHDRAWN"},
                           parent : Parents \cup {NoParent}]]
    /\ \A s \in Slots : slot[s].parent # NoParent => Offered(s)
    /\ past \subseteq Slots
    /\ toWithdraw \subseteq Slots

(* "The database decides": two parents who tap the same slot at the same   *)
(* moment do not overwrite each other.  A booking may be given up, but     *)
(* never passes from one parent to another in one step.                    *)
NoBookingOverwritten ==
    [][\A s \in Slots : slot[s].parent # NoParent =>
          slot'[s].parent \in {slot[s].parent, NoParent}]_meetingVars
==============================================================================
