---------------------------- MODULE OfflineQueue ----------------------------
(***************************************************************************)
(* The phone's queue of registers taken without a connection               *)
(* (apps/mobile/lib/offline-queue.ts and the screen that uses it,          *)
(* apps/mobile/app/attendance/[classId].tsx).                              *)
(*                                                                         *)
(* The queue is one value in the phone's storage.  Parking a register and  *)
(* draining the queue both read it, work, and write it back, and nothing   *)
(* keeps them apart: a drain starts whenever the screen opens or the app   *)
(* comes to the foreground, and lasts as long as the network takes.        *)
(*                                                                         *)
(* A register of the queue is modelled by its number; the order of the     *)
(* queue is left out, as it holds one register of a sheet at most.         *)
(***************************************************************************)
EXTENDS Naturals

CONSTANTS
    Sheets,     \* a class on a day: what a register is of
    Registers,  \* the registers a teacher takes; of a sheet, in this order
    SheetOf,    \* SheetOf[r]: the sheet register r is of
    Screens,    \* submissions under way that can overlap
    Drains,     \* calls of flushAttendanceQueue that can overlap
    ReadsFail,  \* whether the stored value may turn out unreadable
    NoRegister

ASSUME RegistersAssumption == Registers \subseteq Nat
ASSUME SheetOfAssumption == SheetOf \in [Registers -> Sheets]
ASSUME ReadsFailAssumption == ReadsFail \in BOOLEAN
ASSUME NoRegisterAssumption == NoRegister \notin Registers

VARIABLES
    queue,    \* the stored queue
    submit,   \* submit[u]: the submission of a screen
    drain,    \* drain[f]: the drain under way
    taken,    \* registers the teacher has submitted
    arrived,  \* registers that have reached the school
    filed,    \* filed[k]: the register of k the school has on file
    refused,  \* registers a drain discarded because the school refused them
    parked,   \* parked[k]: the register of k last saved for later (history)
    crossed   \* some write was made from a list that was not the stored one,
              \* out of date or unreadable (history)

queueVars == <<queue, submit, drain, taken, arrived, filed, refused, parked, crossed>>
schoolVars == <<arrived, filed>>

NotSubmitting == [step |-> "idle", register |-> NoRegister, seen |-> {}]
NotDraining == [step |-> "idle", seen |-> {}, left |-> {}, kept |-> {}]

QueueInit ==
    /\ queue = {}
    /\ submit = [u \in Screens |-> NotSubmitting]
    /\ drain = [f \in Drains |-> NotDraining]
    /\ taken = {}
    /\ arrived = {}
    /\ filed = [k \in Sheets |-> NoRegister]
    /\ refused = {}
    /\ parked = [k \in Sheets |-> NoRegister]
    /\ crossed = FALSE

(* The school upserts by class, student and date: the last to arrive is    *)
(* what is on file.                                                        *)
Arrives(r) ==
    /\ arrived' = arrived \cup {r}
    /\ filed' = [filed EXCEPT ![SheetOf[r]] = r]

------------------------------------------------------------------------------
(* The screen's submit: the register goes to the school ... *)
Submit(u, r) ==
    /\ submit[u].step = "idle"
    /\ r \notin taken
    /\ \A q \in Registers : SheetOf[q] = SheetOf[r] /\ q < r => q \in taken
    /\ taken' = taken \cup {r}
    /\ submit' = [submit EXCEPT ![u] = [step |-> "sent", register |-> r, seen |-> {}]]
    /\ UNCHANGED <<queue, drain, schoolVars, refused, parked, crossed>>

Answered(u) ==
    /\ submit[u].step = "sent"
    /\ Arrives(submit[u].register)
    /\ submit' = [submit EXCEPT ![u] = NotSubmitting]
    /\ UNCHANGED <<queue, drain, taken, refused, parked, crossed>>

(* ... and on any error, be it only that the answer is lost, it is parked: *)
(* the queue is read, and written back with it.                            *)
Unanswered(u) ==
    /\ submit[u].step = "sent"
    /\ Arrives(submit[u].register) \/ UNCHANGED schoolVars
    /\ submit' = [submit EXCEPT ![u].step = "failed"]
    /\ UNCHANGED <<queue, drain, taken, refused, parked, crossed>>

(* readQueue takes a value it cannot read for an empty list: "a corrupt     *)
(* queue shouldn't brick attendance marking - start clean".  A drain that  *)
(* reads it so ends at once and changes nothing.                           *)
ReadQueue == {queue} \cup (IF ReadsFail THEN {{}} ELSE {})

ReadToPark(u) ==
    /\ submit[u].step = "failed"
    /\ \E seen \in ReadQueue :
          submit' = [submit EXCEPT ![u].step = "parking", ![u].seen = seen]
    /\ UNCHANGED <<queue, drain, taken, schoolVars, refused, parked, crossed>>

(* Broken variant: the last register is all there is. *)
NothingElse(q, r) == {}
(* A later register of the same sheet replaces the earlier one. *)
WithoutSameRegister(q, r) == {x \in q : SheetOf[x] # SheetOf[r]}

Park(u) ==
    LET r == submit[u].register
    IN  /\ submit[u].step = "parking"
        /\ queue' = WithoutSameRegister(submit[u].seen, r) \cup {r}
        /\ parked' = [parked EXCEPT ![SheetOf[r]] = r]
        /\ crossed' = (crossed \/ queue # submit[u].seen)
        /\ submit' = [submit EXCEPT ![u] = NotSubmitting]
        /\ UNCHANGED <<drain, taken, schoolVars, refused>>

------------------------------------------------------------------------------
(* flushAttendanceQueue: each register of the list it read is sent once. *)
StartDrain(f) ==
    /\ drain[f].step = "idle"
    /\ queue # {}
    /\ drain' = [drain EXCEPT ![f] =
          [step |-> "sending", seen |-> queue, left |-> queue, kept |-> {}]]
    /\ UNCHANGED <<queue, submit, taken, schoolVars, refused, parked, crossed>>

Synced(f, r) ==
    /\ r \in drain[f].left
    /\ Arrives(r)
    /\ drain' = [drain EXCEPT ![f].left = @ \ {r}]
    /\ UNCHANGED <<queue, submit, taken, refused, parked, crossed>>

(* A 4xx is taken to be for good: the register is dropped. *)
Discarded(f, r) ==
    /\ r \in drain[f].left
    /\ refused' = refused \cup {r}
    /\ drain' = [drain EXCEPT ![f].left = @ \ {r}]
    /\ UNCHANGED <<queue, submit, taken, schoolVars, parked, crossed>>

(* Any other failure keeps it, whether or not it has arrived. *)
StillQueued(f, r) ==
    /\ r \in drain[f].left
    /\ Arrives(r) \/ UNCHANGED schoolVars
    /\ drain' = [drain EXCEPT ![f].left = @ \ {r}, ![f].kept = @ \cup {r}]
    /\ UNCHANGED <<queue, submit, taken, refused, parked, crossed>>

EndDrain(f) ==
    /\ drain[f].step = "sending"
    /\ drain[f].left = {}
    /\ queue' = drain[f].kept
    /\ crossed' = (crossed \/ queue # drain[f].seen)
    /\ drain' = [drain EXCEPT ![f] = NotDraining]
    /\ UNCHANGED <<submit, taken, schoolVars, refused, parked>>

(* The app is killed: only what is stored is left. *)
Quit ==
    /\ submit' = [u \in Screens |-> NotSubmitting]
    /\ drain' = [f \in Drains |-> NotDraining]
    /\ UNCHANGED <<queue, taken, schoolVars, refused, parked, crossed>>

QueueNext ==
    \/ \E u \in Screens, r \in Registers : Submit(u, r)
    \/ \E u \in Screens : Answered(u)
    \/ \E u \in Screens : Unanswered(u)
    \/ \E u \in Screens : ReadToPark(u)
    \/ \E u \in Screens : Park(u)
    \/ \E f \in Drains : StartDrain(f)
    \/ \E f \in Drains : \E r \in drain[f].left : Synced(f, r)
    \/ \E f \in Drains : \E r \in drain[f].left : Discarded(f, r)
    \/ \E f \in Drains : \E r \in drain[f].left : StillQueued(f, r)
    \/ \E f \in Drains : EndDrain(f)
    \/ Quit

QueueSpec == QueueInit /\ [][QueueNext]_queueVars
------------------------------------------------------------------------------
OnePerSheet(q) == \A x, y \in q : SheetOf[x] = SheetOf[y] => x = y

(* The queue and every list read from it hold registers the teacher has    *)
(* submitted, one of a sheet at most, however screens and drains overlap.  *)
QueueTypeOK ==
    /\ queue \subseteq taken /\ OnePerSheet(queue)
    /\ submit \in [Screens -> [step : {"idle", "sent", "failed", "parking"},
                               register : Registers \cup {NoRegister}, seen : SUBSET Registers]]
    /\ \A u \in Screens :
          /\ submit[u].step # "idle" => submit[u].register \in taken
          /\ submit[u].seen \subseteq taken /\ OnePerSheet(submit[u].seen)
    /\ drain \in [Drains -> [step : {"idle", "sending"}, seen : SUBSET Registers,
                             left : SUBSET Registers, kept : SUBSET Registers]]
    /\ \A f \in Drains :
          /\ drain[f].seen \subseteq taken /\ OnePerSheet(drain[f].seen)
          /\ drain[f].left \cup drain[f].kept \subseteq drain[f].seen
    /\ taken \subseteq Registers
    /\ arrived \subseteq taken
    /\ refused \subseteq taken
    /\ filed \in [Sheets -> arrived \cup {NoRegister}]
    /\ parked \in [Sheets -> taken \cup {NoRegister}]
    /\ \A k \in Sheets :
          /\ filed[k] # NoRegister => SheetOf[filed[k]] = k
          /\ parked[k] # NoRegister => SheetOf[parked[k]] = k
    /\ crossed \in BOOLEAN

(* A register the teacher was told is saved is in the queue until it has   *)
(* reached the school or been refused there: "Park it and let the next     *)
(* successful sync push it up".                                            *)
Kept(r) == r \in queue \cup arrived \cup refused
ParkedIsKept == \A k \in Sheets : parked[k] # NoRegister => Kept(parked[k])

(* Parking and draining are each right by themselves, through lost         *)
(* answers, repeated drains and the app being killed: a saved register is  *)
(* lost only by a write made from a list other than the stored one, which  *)
(* had changed since it was read or could not be read.                     *)
ParkedIsKeptUncrossed == ~crossed => ParkedIsKept
==============================================================================
