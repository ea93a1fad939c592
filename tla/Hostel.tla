------------------------------- MODULE Hostel -------------------------------
(***************************************************************************)
(* Rooms, beds and who sleeps in them                                      *)
(* (apps/api/src/hostel/hostel.service.ts).  Two partial unique indexes    *)
(* keep a bed to one student and a student to one bed; around them, wardens*)
(* read and then write.                                                    *)
(*                                                                         *)
(* Only the rows of current residents are kept: a row whose vacatedAt is   *)
(* set is history, which no operation modelled here reads.                 *)
(***************************************************************************)
EXTENDS Naturals, FiniteSetsExt

CONSTANTS
    Rooms,        \* ids of HostelRoom
    Students,
    Wardens,      \* admins' requests to allocate a bed that can overlap
    MaxCapacity,  \* MAX_HOSTEL_ROOM_CAPACITY
    None

ASSUME MaxCapacityAssumption == MaxCapacity \in Nat
ASSUME HostelNoneAssumption == None \notin Nat /\ None \notin Rooms /\ None \notin Students

Capacities == 1..MaxCapacity

VARIABLES
    room,      \* table HostelRoom: capacity, 0 when there is no such room
    resident,  \* table HostelAllocation: rows whose vacatedAt is null
    allocate,  \* allocate[w]: the allocation a warden has in flight
    toResize,  \* capacities an update has found no bed in use above
    toDelete,  \* rooms a removal has found nobody in
    settled    \* settled[w]: since w's request began nobody has moved out of
               \* its room, its student has moved out of none, and the room
               \* has not grown or gone (history, for the properties)

hostelVars == <<room, resident, allocate, toResize, toDelete, settled>>

NoAllocate ==
    [step |-> "idle", room |-> None, student |-> None, capacity |-> 0,
     attempt |-> None, bed |-> None]

HostelInit ==
    /\ room = [r \in Rooms |-> 0]
    /\ resident = {}
    /\ allocate = [w \in Wardens |-> NoAllocate]
    /\ toResize = {}
    /\ toDelete = {}
    /\ settled = [w \in Wardens |-> TRUE]

RoomExists(r) == room[r] # 0
Taken(r, b) == \E x \in resident : x.room = r /\ x.bed = b
Resides(s) == \E x \in resident : x.student = s

(* What the students of S moving out of r, or r changing, does to requests *)
(* that count on neither.                                                  *)
Unsettle(r, S) ==
    settled' = [w \in Wardens |->
        settled[w] /\ allocate[w].room # r /\ allocate[w].student \notin S]

------------------------------------------------------------------------------
(* A deleted room does not come back: its id is never given again. *)
CreateRoom(r, capacity) ==
    /\ r \notin toDelete
    /\ ~RoomExists(r)
    /\ room' = [room EXCEPT ![r] = capacity]
    /\ UNCHANGED <<resident, allocate, toResize, toDelete, settled>>

(* updateRoom looks up the highest bed in use, and updates later ... *)
CheckCapacity(r, capacity) ==
    /\ RoomExists(r)
    /\ \A x \in resident : x.room = r => x.bed <= capacity
    /\ toResize' = toResize \cup {<<r, capacity>>}
    /\ UNCHANGED <<room, resident, allocate, toDelete, settled>>

UpdateRoom(r, capacity) ==
    /\ RoomExists(r)
    /\ <<r, capacity>> \in toResize
    /\ room' = [room EXCEPT ![r] = capacity]
    /\ IF capacity > room[r] THEN Unsettle(r, {}) ELSE UNCHANGED settled
    /\ UNCHANGED <<resident, allocate, toResize, toDelete>>

(* ... and removeRoom looks for a resident, and deletes later; the delete  *)
(* cascades to the room's rows.                                            *)
CheckEmpty(r) ==
    /\ RoomExists(r)
    /\ \A x \in resident : x.room # r
    /\ toDelete' = toDelete \cup {r}
    /\ UNCHANGED <<room, resident, allocate, toResize, settled>>

RemoveRoom(r) ==
    /\ RoomExists(r)
    /\ r \in toDelete
    /\ room' = [room EXCEPT ![r] = 0]
    /\ resident' = {x \in resident : x.room # r}
    /\ Unsettle(r, {x.student : x \in {y \in resident : y.room = r}})
    /\ UNCHANGED <<allocate, toResize, toDelete>>

------------------------------------------------------------------------------
(* allocate: the room's capacity is read once, at the start. *)
StartAllocate(w, r, s) ==
    /\ allocate[w].step = "idle"
    /\ RoomExists(r)
    /\ allocate' = [allocate EXCEPT ![w] =
          [step |-> "looking", room |-> r, student |-> s, capacity |-> room[r],
           attempt |-> 0, bed |-> None]]
    /\ settled' = [settled EXCEPT ![w] = TRUE]
    /\ UNCHANGED <<room, resident, toResize, toDelete>>

(* A warden who names the bed gets one attempt at it. *)
StartNamedBed(w, r, s, b) ==
    /\ allocate[w].step = "idle"
    /\ RoomExists(r)
    /\ b <= room[r]
    /\ allocate' = [allocate EXCEPT ![w] =
          [step |-> "claiming", room |-> r, student |-> s, capacity |-> room[r],
           attempt |-> None, bed |-> b]]
    /\ settled' = [settled EXCEPT ![w] = TRUE]
    /\ UNCHANGED <<room, resident, toResize, toDelete>>

FreeBeds(r, capacity) == {b \in 1..capacity : ~Taken(r, b)}

(* One turn of the loop: the free beds are read afresh ... *)
ReadFreeBeds(w) ==
    LET free == FreeBeds(allocate[w].room, allocate[w].capacity)
    IN  /\ allocate[w].step = "looking"
        /\ allocate' =
              IF free = {} THEN [allocate EXCEPT ![w].step = "full"]
              ELSE [allocate EXCEPT ![w].step = "claiming", ![w].bed = Min(free)]
        /\ UNCHANGED <<room, resident, toResize, toDelete, settled>>

(* Broken variant: the student's index has been forgotten in a migration. *)
BedFree(r, b, s) == ~Taken(r, b)
(* The two partial unique indexes. *)
IndexesAllow(r, b, s) == ~Taken(r, b) /\ ~Resides(s)

(* ... and the lowest is claimed by an insert, which the indexes may       *)
(* refuse and, once the room is gone, its foreign key does.                *)
ClaimBed(w) ==
    LET a == allocate[w]
    IN  /\ a.step = "claiming"
        /\ RoomExists(a.room)
        /\ IndexesAllow(a.room, a.bed, a.student)
        /\ resident' = resident \cup {[student |-> a.student, room |-> a.room, bed |-> a.bed]}
        /\ allocate' = [allocate EXCEPT ![w] = NoAllocate]
        /\ UNCHANGED <<room, toResize, toDelete, settled>>

FailToClaim(w) ==
    /\ allocate[w].step = "claiming"
    /\ RoomExists(allocate[w].room)
    /\ ~IndexesAllow(allocate[w].room, allocate[w].bed, allocate[w].student)
    /\ allocate' = [allocate EXCEPT ![w].step = "failed"]
    /\ UNCHANGED <<room, resident, toResize, toDelete, settled>>

(* Broken variant: the loop stops one bed early. *)
LastAttemptEarly(w) == allocate[w].attempt + 2 >= allocate[w].capacity
LastAttempt(w) == allocate[w].attempt + 1 = allocate[w].capacity

(* A second query decides what the failure is called.  A student who lives *)
(* somewhere ends the request; otherwise the bed "was just taken", and the *)
(* loop goes on to its next turn.                                          *)
ExplainFailure(w) ==
    /\ allocate[w].step = "failed"
    /\ allocate' =
          IF Resides(allocate[w].student) \/ allocate[w].attempt = None
          THEN [allocate EXCEPT ![w] = NoAllocate]
          ELSE IF LastAttempt(w) THEN [allocate EXCEPT ![w].step = "full"]
          ELSE [allocate EXCEPT ![w].step = "looking", ![w].attempt = @ + 1]
    /\ UNCHANGED <<room, resident, toResize, toDelete, settled>>

(* "Room is full" goes out, or any other error, or the process dies. *)
EndAllocate(w) ==
    /\ allocate[w].step # "idle"
    /\ allocate' = [allocate EXCEPT ![w] = NoAllocate]
    /\ UNCHANGED <<room, resident, toResize, toDelete, settled>>

(* Moving out: a conditional update of one row, so a second tap is refused. *)
Vacate(x) ==
    /\ x \in resident
    /\ resident' = resident \ {x}
    /\ Unsettle(x.room, {x.student})
    /\ UNCHANGED <<room, allocate, toResize, toDelete>>

HostelNext ==
    \/ \E r \in Rooms, c \in Capacities : CreateRoom(r, c)
    \/ \E r \in Rooms, c \in Capacities : CheckCapacity(r, c)
    \/ \E r \in Rooms, c \in Capacities : UpdateRoom(r, c)
    \/ \E r \in Rooms : CheckEmpty(r)
    \/ \E r \in Rooms : RemoveRoom(r)
    \/ \E w \in Wardens, r \in Rooms, s \in Students : StartAllocate(w, r, s)
    \/ \E w \in Wardens, r \in Rooms, s \in Students, b \in Capacities :
          StartNamedBed(w, r, s, b)
    \/ \E w \in Wardens : ReadFreeBeds(w)
    \/ \E w \in Wardens : ClaimBed(w)
    \/ \E w \in Wardens : FailToClaim(w)
    \/ \E w \in Wardens : ExplainFailure(w)
    \/ \E w \in Wardens : EndAllocate(w)
    \/ \E x \in resident : Vacate(x)

HostelSpec == HostelInit /\ [][HostelNext]_hostelVars

------------------------------------------------------------------------------
(* Rooms and requests have the shape the schema and the code give them, a  *)
(* resident's room exists, and a request is about a bed of its room.       *)
HostelTypeOK ==
    /\ room \in [Rooms -> 0..MaxCapacity]
    /\ resident \subseteq [student : Students, room : Rooms, bed : Capacities]
    /\ \A x \in resident : RoomExists(x.room)
    /\ allocate \in [Wardens ->
          [step : {"idle", "looking", "claiming", "failed", "full"},
           room : Rooms \cup {None}, student : Students \cup {None},
           capacity : 0..MaxCapacity, attempt : 0..MaxCapacity \cup {None},
           bed : Capacities \cup {None}]]
    /\ \A w \in Wardens : allocate[w].step # "idle" =>
          /\ allocate[w].room \in Rooms
          /\ allocate[w].student \in Students
          /\ allocate[w].capacity \in Capacities
          /\ allocate[w].attempt # None => allocate[w].attempt < allocate[w].capacity
          /\ allocate[w].step \in {"claiming", "failed"} =>
                allocate[w].bed \in 1..allocate[w].capacity
    /\ toResize \subseteq Rooms \X Capacities
    /\ toDelete \subseteq Rooms
    /\ settled \in [Wardens -> BOOLEAN]

(* A child is in one place, and alone in its bed. *)
EveryoneHasTheirOwnBed ==
    \A x, y \in resident :
        x.student = y.student \/ (x.room = y.room /\ x.bed = y.bed) => x = y

(* "Room is full" is true: unless somebody moved out or the room changed   *)
(* meanwhile, a warden who is told so could not have been given a bed,     *)
(* however many others were racing for the same ones.                      *)
FullMeansFull ==
    \A w \in Wardens : allocate[w].step = "full" /\ settled[w] =>
        \A b \in 1..room[allocate[w].room] : Taken(allocate[w].room, b)

==============================================================================
