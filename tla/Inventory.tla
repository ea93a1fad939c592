------------------------------ MODULE Inventory ------------------------------
(***************************************************************************)
(* The school's inventory: items held in a number of identical units, and  *)
(* units issued to a teacher or a class                                    *)
(* (apps/api/src/inventory/inventory.service.ts).                          *)
(*                                                                         *)
(* The number of requests in flight is not bounded: a check that a request *)
(* made a round trip before its write is remembered for good, because some *)
(* request that made it may still be about to write.                       *)
(***************************************************************************)
EXTENDS Naturals, FiniteSets

CONSTANTS
    Items,        \* ids of InventoryItem
    Assignments,  \* ids of AssetAssignment
    MaxQuantity   \* bound: units of an item

ASSUME AssignmentsAssumption == IsFiniteSet(Assignments)
ASSUME MaxQuantityAssumption == MaxQuantity \in Nat

(* The conditions of an item, by the two kinds the service tells apart. *)
Unissuable == {"DAMAGED"}
Conditions == {"GOOD"} \cup Unissuable
Quantities == 0..MaxQuantity

VARIABLES
    item,        \* table InventoryItem
    assignment,  \* table AssetAssignment: its rows
    toIssue,     \* items whose condition an issue has found to be fine
    toRemove     \* items of which a removal has found no unit out

inventoryVars == <<item, assignment, toIssue, toRemove>>

NoItem == [status |-> "NONE", quantity |-> 0, unitsOut |-> 0, condition |-> "GOOD"]

InventoryInit ==
    /\ item = [i \in Items |-> NoItem]
    /\ assignment = {}
    /\ toIssue = {}
    /\ toRemove = {}

Listed(i) == item[i].status = "LISTED"

CreateItem(i, n, condition) ==
    /\ item[i].status = "NONE"
    /\ item' = [item EXCEPT ![i] =
          [status |-> "LISTED", quantity |-> n, unitsOut |-> 0, condition |-> condition]]
    /\ UNCHANGED <<assignment, toIssue, toRemove>>

(* updateItem.  Its look at unitsOut beforehand refuses nothing that the   *)
(* CHECK constraint would let through.                                     *)
UpdateItem(i, n, condition) ==
    /\ Listed(i)
    /\ item[i].unitsOut <= n
    /\ item' = [item EXCEPT ![i].quantity = n, ![i].condition = condition]
    /\ UNCHANGED <<assignment, toIssue, toRemove>>

(* removeItem: a look at unitsOut, and later the delete, which cascades to *)
(* the item's assignments.                                                 *)
CheckRemoval(i) ==
    /\ Listed(i)
    /\ item[i].unitsOut = 0
    /\ toRemove' = toRemove \cup {i}
    /\ UNCHANGED <<item, assignment, toIssue>>

RemoveItem(i) ==
    /\ Listed(i)
    /\ i \in toRemove
    /\ item' = [item EXCEPT ![i] = [NoItem EXCEPT !.status = "REMOVED"]]
    /\ assignment' = {r \in assignment : r.item # i}
    /\ UNCHANGED <<toIssue, toRemove>>

------------------------------------------------------------------------------
(* issue: the item's condition is read first ... *)
CheckIssue(i) ==
    /\ Listed(i)
    /\ item[i].condition \notin Unissuable
    /\ toIssue' = toIssue \cup {i}
    /\ UNCHANGED <<item, assignment, toRemove>>

(* The WHERE clause of the reservation. *)
Available(i, n) == item[i].unitsOut + n <= item[i].quantity

(* ... and one transaction reserves the units and records who has them. *)
Issue(i, n, a) ==
    /\ i \in toIssue
    /\ Listed(i)
    /\ Available(i, n)
    /\ \A r \in assignment : r.id # a
    /\ item' = [item EXCEPT ![i].unitsOut = @ + n]
    /\ assignment' = assignment \cup {[id |-> a, item |-> i, units |-> n, returned |-> FALSE]}
    /\ UNCHANGED <<toIssue, toRemove>>

(* Broken variant: the claim's WHERE clause has lost returnedAt. *)
ReturnableAgain(r) == r \in assignment
(* The WHERE clause of the claim that makes a return happen once. *)
Returnable(r) == r \in assignment /\ ~r.returned

(* returnAsset.  The claim decides: the read before it refuses nothing the *)
(* claim would match.  The units go back if that many are out, and damage  *)
(* becomes the item's condition.                                           *)
ReturnAsset(r, condition) ==
    LET i == r.item
    IN  /\ Returnable(r)
        /\ assignment' = (assignment \ {r}) \cup {[r EXCEPT !.returned = TRUE]}
        /\ item' = [item EXCEPT
              ![i].unitsOut = IF r.units <= @ THEN @ - r.units ELSE @,
              ![i].condition = IF condition \in Unissuable THEN condition ELSE @]
        /\ UNCHANGED <<toIssue, toRemove>>

InventoryNext ==
    \/ \E i \in Items, n \in Quantities, c \in Conditions : CreateItem(i, n, c)
    \/ \E i \in Items, n \in Quantities, c \in Conditions : UpdateItem(i, n, c)
    \/ \E i \in Items : CheckRemoval(i)
    \/ \E i \in Items : RemoveItem(i)
    \/ \E i \in Items : CheckIssue(i)
    \/ \E i \in Items, n \in 1..MaxQuantity, a \in Assignments : Issue(i, n, a)
    \/ \E r \in assignment, c \in Conditions : ReturnAsset(r, c)

InventorySpec == InventoryInit /\ [][InventoryNext]_inventoryVars

------------------------------------------------------------------------------
(* Rows have the shape the schema gives them, ids are unique, and an       *)
(* assignment is of an item that is still there.                           *)
InventoryTypeOK ==
    /\ item \in [Items -> [status : {"NONE", "LISTED", "REMOVED"}, quantity : Quantities,
                           unitsOut : Quantities, condition : Conditions]]
    /\ assignment \subseteq [id : Assignments, item : Items, units : 1..MaxQuantity,
                             returned : BOOLEAN]
    /\ \A r, s \in assignment : r.id = s.id => r = s
    /\ \A r \in assignment : Listed(r.item)
    /\ toIssue \subseteq Items
    /\ toRemove \subseteq Items

(* What the assignment rows say is out, of all items and of one. *)
Out == {r \in assignment : ~r.returned}
UnitsOf(i) == UNION {{r.id} \X (1..r.units) : r \in {x \in Out : x.item = i}}

(* The denormalised column tells the truth: unitsOut is what the rows add  *)
(* up to, through issues, double-tapped returns, recounts and deletions,   *)
(* and never more than the school holds.                                   *)
StockAgrees ==
    \A i \in Items : /\ item[i].unitsOut = Cardinality(UnitsOf(i))
                     /\ item[i].unitsOut <= item[i].quantity

(* The service implements the store room. *)
UnitsHeld == [i \in Items |-> item[i].quantity]
UnitsWithHolders ==
    {[loan |-> r.id, thing |-> r.item, units |-> r.units] : r \in Out}
InventoryPool == INSTANCE StockPool WITH Things <- Items, Loans <- Assignments,
                                         held <- UnitsHeld, out <- UnitsWithHolders
InventoryImplementsPool == InventoryPool!Spec
==============================================================================
