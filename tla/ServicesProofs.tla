--------------------------- MODULE ServicesProofs ---------------------------
(***************************************************************************)
(* Proofs about the services of Services, each for itself and then all     *)
(* together, for any number of items, titles, beds, slots, pupils, days,   *)
(* screens and requests under way, and any clock.                          *)
(***************************************************************************)
EXTENDS Services, FiniteSetTheorems, WellFoundedInduction, TLAPS

(***************************************************************************)
(* Inventory and Library.  Each count is shown to agree with the rows      *)
(* behind it; that agreement is what makes the conditional updates of the  *)
(* two services steps of one abstract store room.                          *)
(***************************************************************************)
(* The units of one assignment. *)
LEMMA Rectangle ==
  ASSUME NEW a, NEW n \in Nat
  PROVE  IsFiniteSet({a} \X (1..n)) /\ Cardinality({a} \X (1..n)) = n
<1>1. IsFiniteSet({a}) /\ Cardinality({a}) = 1
  BY FS_Singleton
<1>2. IsFiniteSet(1..n) /\ Cardinality(1..n) = n
  <2>1. CASE n = 0
    BY <2>1, FS_EmptySet
  <2>2. CASE n > 0
    BY <2>2, FS_Interval
  <2> QED
    BY <2>1, <2>2
<1>3. /\ IsFiniteSet({a} \X (1..n))
      /\ Cardinality({a} \X (1..n)) = Cardinality({a}) * Cardinality(1..n)
  BY <1>1, <1>2, FS_Product, Zenon
<1> QED
  BY <1>1, <1>2, <1>3

(* Adding and taking away a part of known size. *)
LEMMA AddPart ==
  ASSUME NEW S, NEW P, NEW n \in Nat, IsFiniteSet(S), IsFiniteSet(P), Cardinality(P) = n,
         S \cap P = {}
  PROVE  Cardinality(S \cup P) = Cardinality(S) + n
<1>1. Cardinality(S \cup P) = Cardinality(S) + Cardinality(P) - Cardinality(S \cap P)
  BY FS_Union
<1>2. Cardinality(S \cap P) = 0
  BY FS_EmptySet
<1>3. Cardinality(S) \in Nat
  BY FS_CardinalityType
<1> QED
  BY <1>1, <1>2, <1>3

LEMMA TakePart ==
  ASSUME NEW S, NEW P, NEW n \in Nat, IsFiniteSet(S), Cardinality(P) = n, P \subseteq S
  PROVE  Cardinality(S \ P) = Cardinality(S) - n /\ n <= Cardinality(S)
<1>1. P \in SUBSET S /\ S \cap P = P
  OBVIOUS
<1>2. Cardinality(S \ P) = Cardinality(S) - Cardinality(S \cap P)
  BY FS_Difference
<1>3. Cardinality(P) <= Cardinality(S)
  BY <1>1, FS_Subset
<1> QED
  BY <1>1, <1>2, <1>3

------------------------------------------------------------------------------
(* Inventory: what each action does to the units that are out. *)

(* The units of a set of assignments, and what one assignment more or less *)
(* does to them.                                                           *)
UnitsIn(R, i) == UNION {{r.id} \X (1..r.units) : r \in {x \in R : x.item = i}}

LEMMA UnitsOfIsUnitsIn ==
  \A i : UnitsOf(i) = UnitsIn(Out, i) /\ UnitsOf(i)' = UnitsIn(Out', i)
  BY DEF UnitsOf, UnitsIn

LEMMA UnitsInMember ==
  ASSUME NEW R, NEW i, NEW p
  PROVE  p \in UnitsIn(R, i) <=> \E r \in R : r.item = i /\ p \in {r.id} \X (1..r.units)
  BY DEF UnitsIn

LEMMA UnitsInPlus ==
  ASSUME NEW R, NEW e, \A r \in R : r.id # e.id
  PROVE  /\ UnitsIn(R \cup {e}, e.item) = UnitsIn(R, e.item) \cup ({e.id} \X (1..e.units))
         /\ UnitsIn(R, e.item) \cap ({e.id} \X (1..e.units)) = {}
         /\ \A j : j # e.item => UnitsIn(R \cup {e}, j) = UnitsIn(R, j)
<1>1. ASSUME NEW p
      PROVE  p \in UnitsIn(R \cup {e}, e.item)
               <=> p \in UnitsIn(R, e.item) \cup ({e.id} \X (1..e.units))
  <2> DEFINE Q(r) == p \in {r.id} \X (1..r.units)
  <2>1. p \in UnitsIn(R \cup {e}, e.item) <=> \E r \in R \cup {e} : r.item = e.item /\ Q(r)
    BY UnitsInMember
  <2>2. p \in UnitsIn(R, e.item) <=> \E r \in R : r.item = e.item /\ Q(r)
    BY UnitsInMember
  <2>3. p \in {e.id} \X (1..e.units) <=> Q(e)
    OBVIOUS
  <2> HIDE DEF Q
  <2> QED
    BY <2>1, <2>2, <2>3
<1>2. ASSUME NEW p \in UnitsIn(R, e.item), p \in {e.id} \X (1..e.units)
      PROVE  FALSE
  <2>1. PICK r \in R : p \in {r.id} \X (1..r.units)
    BY UnitsInMember
  <2>2. p[1] = r.id /\ p[1] = e.id
    BY <1>2, <2>1
  <2> QED
    BY <2>2
<1>3. ASSUME NEW j, j # e.item, NEW p
      PROVE  p \in UnitsIn(R \cup {e}, j) <=> p \in UnitsIn(R, j)
  <2> DEFINE Q(r) == p \in {r.id} \X (1..r.units)
  <2>1. p \in UnitsIn(R \cup {e}, j) <=> \E r \in R \cup {e} : r.item = j /\ Q(r)
    BY UnitsInMember
  <2>2. p \in UnitsIn(R, j) <=> \E r \in R : r.item = j /\ Q(r)
    BY UnitsInMember
  <2> HIDE DEF Q
  <2> QED
    BY <1>3, <2>1, <2>2
<1>4. UnitsIn(R \cup {e}, e.item) = UnitsIn(R, e.item) \cup ({e.id} \X (1..e.units))
  BY <1>1, Zenon
<1>5. ASSUME NEW j, j # e.item
      PROVE  UnitsIn(R \cup {e}, j) = UnitsIn(R, j)
  <2>1. \A p : p \in UnitsIn(R \cup {e}, j) <=> p \in UnitsIn(R, j)
    BY <1>3, <1>5
  <2> QED
    BY <2>1
<1> QED
  BY <1>2, <1>4, <1>5

LEMMA UnitsInMinus ==
  ASSUME NEW R, NEW e \in R, \A r \in R \ {e} : r.id # e.id
  PROVE  /\ UnitsIn(R \ {e}, e.item) = UnitsIn(R, e.item) \ ({e.id} \X (1..e.units))
         /\ {e.id} \X (1..e.units) \subseteq UnitsIn(R, e.item)
         /\ \A j : j # e.item => UnitsIn(R \ {e}, j) = UnitsIn(R, j)
<1> DEFINE rest == R \ {e}
<1>1. R = rest \cup {e} /\ \A r \in rest : r.id # e.id
  OBVIOUS
<1> HIDE DEF rest
<1>2. /\ UnitsIn(R, e.item) = UnitsIn(rest, e.item) \cup ({e.id} \X (1..e.units))
      /\ UnitsIn(rest, e.item) \cap ({e.id} \X (1..e.units)) = {}
      /\ \A j : j # e.item => UnitsIn(R, j) = UnitsIn(rest, j)
  <2>1. /\ UnitsIn(rest \cup {e}, e.item) = UnitsIn(rest, e.item) \cup ({e.id} \X (1..e.units))
        /\ UnitsIn(rest, e.item) \cap ({e.id} \X (1..e.units)) = {}
        /\ \A j : j # e.item => UnitsIn(rest \cup {e}, j) = UnitsIn(rest, j)
    BY <1>1, UnitsInPlus
  <2> QED
    BY <1>1, <2>1
<1>3. UnitsIn(rest, e.item) = UnitsIn(R, e.item) \ ({e.id} \X (1..e.units))
  BY <1>2, Zenon
<1> QED
  BY <1>2, <1>3 DEF rest

LEMMA UnitsOfFinite ==
  ASSUME InventoryTypeOK, NEW i \in Items
  PROVE  IsFiniteSet(UnitsOf(i))
<1>1. IsFiniteSet(1..MaxQuantity)
  BY Rectangle, MaxQuantityAssumption, FS_Interval
<1>2. IsFiniteSet(Assignments \X (1..MaxQuantity))
  BY <1>1, AssignmentsAssumption, FS_Product, Zenon
<1>3. UnitsOf(i) \subseteq Assignments \X (1..MaxQuantity)
  BY MaxQuantityAssumption DEF UnitsOf, Out, InventoryTypeOK
<1> QED
  BY <1>2, <1>3, FS_Subset

LEMMA IssueAddsUnits ==
  ASSUME InventoryTypeOK, NEW i \in Items, NEW n \in 1..MaxQuantity, NEW a \in Assignments,
         Issue(i, n, a)
  PROVE  /\ UnitsOf(i)' = UnitsOf(i) \cup ({a} \X (1..n))
         /\ UnitsOf(i) \cap ({a} \X (1..n)) = {}
         /\ \A j \in Items : j # i => UnitsOf(j)' = UnitsOf(j)
<1> DEFINE new == [id |-> a, item |-> i, units |-> n, returned |-> FALSE]
<1>1. Out' = Out \cup {new}
  BY DEF Issue, Out
<1>2. \A r \in Out : r.id # new.id
  BY DEF Issue, Out
<1>3. new.id = a /\ new.item = i /\ new.units = n
  OBVIOUS
<1> HIDE DEF new
<1>4. /\ UnitsIn(Out \cup {new}, i) = UnitsIn(Out, i) \cup ({a} \X (1..n))
      /\ UnitsIn(Out, i) \cap ({a} \X (1..n)) = {}
      /\ \A j : j # i => UnitsIn(Out \cup {new}, j) = UnitsIn(Out, j)
  <2>1. /\ UnitsIn(Out \cup {new}, new.item)
              = UnitsIn(Out, new.item) \cup ({new.id} \X (1..new.units))
        /\ UnitsIn(Out, new.item) \cap ({new.id} \X (1..new.units)) = {}
        /\ \A j : j # new.item => UnitsIn(Out \cup {new}, j) = UnitsIn(Out, j)
    BY <1>2, UnitsInPlus
  <2> QED
    BY <1>3, <2>1
<1> QED
  BY <1>1, <1>4, UnitsOfIsUnitsIn

LEMMA ReturnTakesUnits ==
  ASSUME InventoryTypeOK, NEW r \in assignment, NEW c \in Conditions, ReturnAsset(r, c)
  PROVE  /\ UnitsOf(r.item)' = UnitsOf(r.item) \ ({r.id} \X (1..r.units))
         /\ {r.id} \X (1..r.units) \subseteq UnitsOf(r.item)
         /\ \A j \in Items : j # r.item => UnitsOf(j)' = UnitsOf(j)
<1>1. r \in Out /\ Out' = Out \ {r}
  <2>1. [r EXCEPT !.returned = TRUE].returned
    BY DEF InventoryTypeOK
  <2> QED
    BY <2>1 DEF ReturnAsset, Returnable, Out
<1>2. \A s \in Out \ {r} : s.id # r.id
  BY <1>1 DEF Out, InventoryTypeOK
<1>3. /\ UnitsIn(Out \ {r}, r.item) = UnitsIn(Out, r.item) \ ({r.id} \X (1..r.units))
      /\ {r.id} \X (1..r.units) \subseteq UnitsIn(Out, r.item)
      /\ \A j : j # r.item => UnitsIn(Out \ {r}, j) = UnitsIn(Out, j)
  BY <1>1, <1>2, UnitsInMinus
<1> QED
  BY <1>1, <1>3, UnitsOfIsUnitsIn

LEMMA RemoveDropsUnits ==
  ASSUME NEW i \in Items, RemoveItem(i)
  PROVE  /\ UnitsOf(i)' = {}
         /\ \A j \in Items : j # i => UnitsOf(j)' = UnitsOf(j)
<1>1. Out' = {r \in Out : r.item # i}
  BY DEF RemoveItem, Out
<1> QED
  BY <1>1 DEF UnitsOf

------------------------------------------------------------------------------
(* The inductive invariant of Inventory.  The type needs the agreement (a  *)
(* recount is bounded by what is out) and the agreement needs unique ids.  *)
InventoryInv == InventoryTypeOK /\ StockAgrees

LEMMA InventoryStepType == InventoryInv /\ [InventoryNext]_inventoryVars => InventoryTypeOK'
<1> SUFFICES ASSUME InventoryInv, [InventoryNext]_inventoryVars PROVE InventoryTypeOK'
  OBVIOUS
<1> USE MaxQuantityAssumption DEF InventoryInv, InventoryTypeOK, Listed
<1> DEFINE Rows == [Items -> [status : {"NONE", "LISTED", "REMOVED"}, quantity : Quantities,
                              unitsOut : Quantities, condition : Conditions]]
<1>1. ASSUME NEW i \in Items, NEW n \in Quantities, NEW c \in Conditions, CreateItem(i, n, c)
      PROVE  InventoryTypeOK'
  <2>1. item' \in Rows /\ \A j \in Items : Listed(j) => item'[j].status = "LISTED"
    BY <1>1 DEF CreateItem, Quantities
  <2> QED
    BY <1>1, <2>1 DEF CreateItem
<1>2. ASSUME NEW i \in Items, NEW n \in Quantities, NEW c \in Conditions, UpdateItem(i, n, c)
      PROVE  InventoryTypeOK'
  <2>1. item' \in Rows
    BY <1>2 DEF UpdateItem
  <2>2. \A j \in Items : item'[j].status = item[j].status
    BY <1>2 DEF UpdateItem
  <2> QED
    BY <1>2, <2>1, <2>2 DEF UpdateItem
<1>3. ASSUME NEW i \in Items, CheckRemoval(i) \/ CheckIssue(i)
      PROVE  InventoryTypeOK'
  BY <1>3 DEF CheckRemoval, CheckIssue
<1>4. ASSUME NEW i \in Items, RemoveItem(i)
      PROVE  InventoryTypeOK'
  <2>1. item' \in Rows
    BY <1>4 DEF RemoveItem, NoItem, Conditions, Quantities
  <2>2. \A j \in Items : j # i => item'[j] = item[j]
    BY <1>4 DEF RemoveItem
  <2>3. assignment' = {r \in assignment : r.item # i}
    BY <1>4 DEF RemoveItem
  <2> QED
    BY <1>4, <2>1, <2>2, <2>3 DEF RemoveItem
<1>5. ASSUME NEW i \in Items, NEW n \in 1..MaxQuantity, NEW a \in Assignments, Issue(i, n, a)
      PROVE  InventoryTypeOK'
  <2>1. item[i].unitsOut + n \in Quantities
    <3>1. item[i].unitsOut \in Nat /\ item[i].quantity \in 0..MaxQuantity /\ n \in Nat
      BY DEF Quantities
    <3>2. item[i].unitsOut + n <= item[i].quantity
      BY <1>5 DEF Issue, Available
    <3> QED
      BY <3>1, <3>2 DEF Quantities
  <2>2. item' \in Rows
    BY <1>5, <2>1 DEF Issue
  <2>3. \A j \in Items : item'[j].status = item[j].status
    BY <1>5 DEF Issue
  <2> DEFINE new == [id |-> a, item |-> i, units |-> n, returned |-> FALSE]
  <2>4. /\ new \in [id : Assignments, item : Items, units : 1..MaxQuantity, returned : BOOLEAN]
        /\ new.id = a /\ new.item = i
    OBVIOUS
  <2>5. /\ assignment' = assignment \cup {new}
        /\ \A r \in assignment : r.id # a
        /\ item[i].status = "LISTED"
    BY <1>5 DEF Issue
  <2> HIDE DEF new
  <2>6. \A r, s \in assignment' : r.id = s.id => r = s
    BY <2>4, <2>5
  <2>7. \A r \in assignment' : item'[r.item].status = "LISTED"
    BY <2>3, <2>4, <2>5
  <2> QED
    BY <1>5, <2>2, <2>4, <2>5, <2>6, <2>7 DEF Issue
<1>6. ASSUME NEW r \in assignment, NEW c \in Conditions, ReturnAsset(r, c)
      PROVE  InventoryTypeOK'
  <2> DEFINE closed == [r EXCEPT !.returned = TRUE]
  <2>1. /\ closed \in [id : Assignments, item : Items, units : 1..MaxQuantity, returned : BOOLEAN]
        /\ closed.id = r.id /\ closed.item = r.item
    OBVIOUS
  <2>2. assignment' = (assignment \ {r}) \cup {closed}
    BY <1>6 DEF ReturnAsset
  <2>3. item' \in Rows
    <3>1. ASSUME r.units <= item[r.item].unitsOut
          PROVE  item[r.item].unitsOut - r.units \in Quantities
      BY <3>1 DEF Quantities
    <3> QED
      BY <1>6, <3>1 DEF ReturnAsset, Conditions, Unissuable
  <2>4. \A j \in Items : item'[j].status = item[j].status
    BY <1>6 DEF ReturnAsset
  <2>5. \A s \in assignment' : item'[s.item].status = "LISTED"
    BY <2>1, <2>2, <2>4
  <2>6. \A s, t \in assignment' : s.id = t.id => s = t
    <3> HIDE DEF closed
    <3> QED
      BY <2>1, <2>2
  <2> QED
    BY <1>6, <2>1, <2>2, <2>3, <2>5, <2>6 DEF ReturnAsset
<1>7. ASSUME UNCHANGED inventoryVars
      PROVE  InventoryTypeOK'
  BY <1>7 DEF inventoryVars
<1> QED
  BY <1>1, <1>2, <1>3, <1>4, <1>5, <1>6, <1>7 DEF InventoryNext

LEMMA InventoryStepAgrees == InventoryInv /\ [InventoryNext]_inventoryVars => StockAgrees'
<1> SUFFICES ASSUME InventoryInv, [InventoryNext]_inventoryVars, InventoryTypeOK' PROVE StockAgrees'
  BY InventoryStepType
<1> USE MaxQuantityAssumption DEF InventoryInv
<1>1. ASSUME assignment' = assignment
      PROVE  \A j \in Items : UnitsOf(j)' = UnitsOf(j)
  BY <1>1 DEF UnitsOf, Out
<1>2. ASSUME NEW i \in Items, NEW n \in Quantities, NEW c \in Conditions, CreateItem(i, n, c)
      PROVE  StockAgrees'
  <2>1. UnitsOf(i) = {}
    BY <1>2 DEF CreateItem, UnitsOf, Out, InventoryTypeOK, Listed
  <2>2. Cardinality(UnitsOf(i)) = 0
    BY <2>1, FS_EmptySet
  <2> QED
    BY <1>1, <1>2, <2>2 DEF CreateItem, StockAgrees, InventoryTypeOK, Quantities
<1>3. ASSUME NEW i \in Items, NEW n \in Quantities, NEW c \in Conditions, UpdateItem(i, n, c)
      PROVE  StockAgrees'
  BY <1>1, <1>3 DEF UpdateItem, StockAgrees, InventoryTypeOK, Quantities
<1>4. ASSUME NEW i \in Items, CheckRemoval(i) \/ CheckIssue(i)
      PROVE  StockAgrees'
  BY <1>1, <1>4 DEF CheckRemoval, CheckIssue, StockAgrees
<1>5. ASSUME NEW i \in Items, RemoveItem(i)
      PROVE  StockAgrees'
  <2>1. Cardinality(UnitsOf(i)') = 0 /\ \A j \in Items : j # i => UnitsOf(j)' = UnitsOf(j)
    BY <1>5, RemoveDropsUnits, FS_EmptySet
  <2> QED
    BY <1>5, <2>1 DEF RemoveItem, NoItem, StockAgrees, InventoryTypeOK
<1>6. ASSUME NEW i \in Items, NEW n \in 1..MaxQuantity, NEW a \in Assignments, Issue(i, n, a)
      PROVE  StockAgrees'
  <2>1. n \in Nat
    OBVIOUS
  <2>1a. Cardinality({a} \X (1..n)) = n /\ IsFiniteSet({a} \X (1..n))
    BY <2>1, Rectangle
  <2>2. Cardinality(UnitsOf(i)') = Cardinality(UnitsOf(i)) + n
    BY <1>6, <2>1, <2>1a, IssueAddsUnits, UnitsOfFinite, AddPart
  <2>3. /\ item'[i].unitsOut = item[i].unitsOut + n
        /\ item'[i].quantity = item[i].quantity
        /\ \A j \in Items : j # i => item'[j] = item[j]
    BY <1>6 DEF Issue, InventoryTypeOK
  <2>4. item[i].unitsOut + n <= item[i].quantity
    BY <1>6 DEF Issue, Available
  <2> QED
    BY <1>6, <2>2, <2>3, <2>4, IssueAddsUnits DEF StockAgrees
<1>7. ASSUME NEW r \in assignment, NEW c \in Conditions, ReturnAsset(r, c)
      PROVE  StockAgrees'
  <2> DEFINE i == r.item
             n == r.units
  <2>1. i \in Items /\ n \in Nat /\ item[i].unitsOut \in Nat /\ item[i].quantity \in Nat
    BY DEF InventoryTypeOK, Quantities
  <2>2. Cardinality({r.id} \X (1..n)) = n
    BY <2>1, Rectangle
  <2>3. /\ UnitsOf(i)' = UnitsOf(i) \ ({r.id} \X (1..n))
        /\ {r.id} \X (1..n) \subseteq UnitsOf(i)
        /\ \A j \in Items : j # i => UnitsOf(j)' = UnitsOf(j)
    BY <1>7, ReturnTakesUnits
  <2>4. /\ Cardinality(UnitsOf(i)') = Cardinality(UnitsOf(i)) - n
        /\ n <= Cardinality(UnitsOf(i))
    BY <2>1, <2>2, <2>3, UnitsOfFinite, TakePart
  <2>5. item[i].unitsOut = Cardinality(UnitsOf(i)) /\ item[i].unitsOut <= item[i].quantity
    BY <2>1 DEF StockAgrees
  <2>6. /\ item'[i].unitsOut = item[i].unitsOut - n
        /\ item'[i].quantity = item[i].quantity
        /\ \A j \in Items : j # i => item'[j] = item[j]
    BY <1>7, <2>1, <2>4, <2>5 DEF ReturnAsset, InventoryTypeOK
  <2>7. \A j \in Items \ {i} : /\ item'[j].unitsOut = Cardinality(UnitsOf(j)')
                               /\ item'[j].unitsOut <= item'[j].quantity
    BY <2>3, <2>6 DEF StockAgrees
  <2>8. item'[i].unitsOut = Cardinality(UnitsOf(i)') /\ item'[i].unitsOut <= item'[i].quantity
    BY <2>1, <2>4, <2>5, <2>6
  <2> QED
    BY <2>7, <2>8 DEF StockAgrees
<1>8. ASSUME UNCHANGED inventoryVars
      PROVE  StockAgrees'
  BY <1>1, <1>8 DEF inventoryVars, StockAgrees
<1> QED
  BY <1>2, <1>3, <1>4, <1>5, <1>6, <1>7, <1>8 DEF InventoryNext

LEMMA InventoryInvariant == InventorySpec => []InventoryInv
<1>1. InventoryInit => InventoryInv
  <2> SUFFICES ASSUME InventoryInit PROVE InventoryInv
    OBVIOUS
  <2>1. InventoryTypeOK
    BY MaxQuantityAssumption
    DEF InventoryInit, InventoryTypeOK, NoItem, Quantities, Conditions
  <2>2. \A i \in Items : UnitsOf(i) = {}
    BY DEF InventoryInit, UnitsOf, Out
  <2> QED
    BY <2>1, <2>2, FS_EmptySet DEF InventoryInit, InventoryInv, StockAgrees, NoItem
<1> QED
  BY <1>1, InventoryStepType, InventoryStepAgrees, PTL DEF InventorySpec, InventoryInv

(* The inventory's tables keep their shape, and no assignment outlives its *)
(* item.                                                                   *)
THEOREM InventoryTypeCorrect == InventorySpec => []InventoryTypeOK
  BY InventoryInvariant, PTL DEF InventoryInv

(* unitsOut is always the sum over the assignments that are out, and never *)
(* more than the quantity, however requests interleave.                    *)
THEOREM UnitsOutAgree == InventorySpec => []StockAgrees
  BY InventoryInvariant, PTL DEF InventoryInv

------------------------------------------------------------------------------
(* Inventory implements the store room. *)
LEMMA SameUnitsOut ==
  ASSUME NEW i
  PROVE  InventoryPool!UnitsOut(i) = UnitsOf(i)
<1> DEFINE Holder(r) == [loan |-> r.id, thing |-> r.item, units |-> r.units]
<1>1. \A r : Holder(r).loan = r.id /\ Holder(r).thing = r.item /\ Holder(r).units = r.units
  OBVIOUS
<1>2. UnitsWithHolders = {Holder(r) : r \in Out}
  BY DEF UnitsWithHolders
<1> HIDE DEF Holder
<1>3. ASSUME NEW p
      PROVE  p \in InventoryPool!UnitsOut(i) <=> p \in UnitsOf(i)
  <2>1. p \in InventoryPool!UnitsOut(i)
          <=> \E e \in UnitsWithHolders : e.thing = i /\ p \in {e.loan} \X (1..e.units)
    BY DEF InventoryPool!UnitsOut
  <2>2. p \in UnitsOf(i) <=> \E r \in Out : r.item = i /\ p \in {r.id} \X (1..r.units)
    BY DEF UnitsOf
  <2>3. ASSUME NEW r \in Out, r.item = i, p \in {r.id} \X (1..r.units)
        PROVE  p \in InventoryPool!UnitsOut(i)
    BY <1>1, <1>2, <2>1, <2>3
  <2>4. ASSUME NEW e \in UnitsWithHolders, e.thing = i, p \in {e.loan} \X (1..e.units)
        PROVE  p \in UnitsOf(i)
    <3>1. PICK r \in Out : e = Holder(r)
      BY <1>2
    <3> QED
      BY <1>1, <2>2, <2>4, <3>1
  <2> QED
    BY <2>1, <2>2, <2>3, <2>4
<1> QED
  BY <1>3

LEMMA PoolCardinality == \A S : InventoryPool!Cardinality(S) = Cardinality(S)
  BY DEF InventoryPool!Cardinality, Cardinality

LEMMA InventoryStepsOfPool ==
  InventoryInv /\ [InventoryNext]_inventoryVars
    => [InventoryPool!Next]_(InventoryPool!poolVars)
<1> SUFFICES ASSUME InventoryInv, [InventoryNext]_inventoryVars
             PROVE  InventoryPool!Next \/ UNCHANGED <<UnitsHeld, UnitsWithHolders>>
  BY DEF InventoryPool!poolVars
<1> USE DEF InventoryInv
<1>0a. \A i \in Items : /\ Cardinality(InventoryPool!UnitsOut(i)) = item[i].unitsOut
                       /\ item[i].unitsOut \in Nat /\ item[i].quantity \in Nat
                       /\ UnitsHeld[i] = item[i].quantity
  BY SameUnitsOut, MaxQuantityAssumption DEF StockAgrees, InventoryTypeOK, Quantities, UnitsHeld
<1>0b. ASSUME assignment' = assignment
      PROVE  UnitsWithHolders' = UnitsWithHolders
  BY <1>0b DEF UnitsWithHolders, Out
<1>1. ASSUME NEW i \in Items, NEW n \in Quantities, NEW c \in Conditions,
             CreateItem(i, n, c) \/ UpdateItem(i, n, c)
      PROVE  InventoryPool!Next
  <2>1. UnitsHeld' = [UnitsHeld EXCEPT ![i] = n]
    <3>1. \A j \in Items : item'[j].quantity = IF j = i THEN n ELSE item[j].quantity
      <4>1. CASE CreateItem(i, n, c)
        BY <4>1 DEF CreateItem, InventoryTypeOK
      <4>2. CASE UpdateItem(i, n, c)
        BY <4>2 DEF UpdateItem, InventoryTypeOK
      <4> QED
        BY <1>1, <4>1, <4>2
    <3> QED
      BY <3>1 DEF UnitsHeld
  <2>2. item[i].unitsOut <= n
    <3>1. CASE CreateItem(i, n, c)
      <4>1. UnitsOf(i) = {}
        BY <3>1 DEF CreateItem, UnitsOf, Out, InventoryTypeOK, Listed
      <4>2. item[i].unitsOut = 0 /\ n \in Nat
        BY <4>1, FS_EmptySet, MaxQuantityAssumption DEF StockAgrees, Quantities
      <4> QED
        BY <4>2
    <3> QED
      BY <1>1, <3>1 DEF UpdateItem
  <2>3. InventoryPool!Stock(i, n)
    <3>1. assignment' = assignment
      BY <1>1 DEF CreateItem, UpdateItem
    <3>2. Cardinality(InventoryPool!UnitsOut(i)) <= n
      BY <1>0a, <2>2
    <3> QED
      BY <1>0b, <2>1, <3>1, <3>2, PoolCardinality DEF InventoryPool!Stock
  <2> QED
    BY <2>3 DEF InventoryPool!Next
<1>2. ASSUME NEW i \in Items, CheckRemoval(i) \/ CheckIssue(i)
      PROVE  UNCHANGED <<UnitsHeld, UnitsWithHolders>>
  BY <1>2, <1>0b DEF CheckRemoval, CheckIssue, UnitsHeld
<1>3. ASSUME NEW i \in Items, RemoveItem(i)
      PROVE  InventoryPool!Next
  <2>1. UnitsHeld' = [UnitsHeld EXCEPT ![i] = 0]
    BY <1>3 DEF RemoveItem, NoItem, UnitsHeld, InventoryTypeOK
  <2>2. Out' = {r \in Out : r.item # i}
    BY <1>3 DEF RemoveItem, Out
  <2>3. UnitsWithHolders' = {e \in UnitsWithHolders : e.thing # i}
    BY <2>2 DEF UnitsWithHolders
  <2>4. InventoryPool!StrikeOff(i)
    BY <2>1, <2>3 DEF InventoryPool!StrikeOff
  <2> QED
    BY <2>4 DEF InventoryPool!Next
<1>4. ASSUME NEW i \in Items, NEW n \in 1..MaxQuantity, NEW a \in Assignments, Issue(i, n, a)
      PROVE  InventoryPool!Next
  <2> DEFINE new == [id |-> a, item |-> i, units |-> n, returned |-> FALSE]
             entry == [loan |-> a, thing |-> i, units |-> n]
  <2>1. UnitsHeld' = UnitsHeld
    BY <1>4 DEF Issue, UnitsHeld, InventoryTypeOK
  <2>2. Out' = Out \cup {new}
    BY <1>4 DEF Issue, Out
  <2>3. UnitsWithHolders' = UnitsWithHolders \cup {entry}
    <3>1. new.id = a /\ new.item = i /\ new.units = n
      OBVIOUS
    <3> HIDE DEF new
    <3> QED
      BY <2>2, <3>1 DEF UnitsWithHolders
  <2>4. \A e \in UnitsWithHolders : e.loan # a
    BY <1>4 DEF Issue, UnitsWithHolders, Out
  <2>5. item[i].unitsOut + n <= item[i].quantity
    BY <1>4 DEF Issue, Available
  <2>6. InventoryPool!Lend(a, i, n)
    <3>1. Cardinality(InventoryPool!UnitsOut(i)) + n <= UnitsHeld[i]
      BY <1>0a, <2>5
    <3> QED
      BY <2>1, <2>3, <2>4, <3>1, PoolCardinality DEF InventoryPool!Lend
  <2>7. n \in 1..UnitsHeld[i]
    BY <1>0a, <2>5
  <2> QED
    BY <2>6, <2>7 DEF InventoryPool!Next
<1>5. ASSUME NEW r \in assignment, NEW c \in Conditions, ReturnAsset(r, c)
      PROVE  InventoryPool!Next
  <2> DEFINE Holder(s) == [loan |-> s.id, thing |-> s.item, units |-> s.units]
  <2>1. UnitsHeld' = UnitsHeld
    BY <1>5 DEF ReturnAsset, UnitsHeld, InventoryTypeOK
  <2>2. r \in Out /\ Out' = Out \ {r}
    <3>1. [r EXCEPT !.returned = TRUE].returned
      BY DEF InventoryTypeOK
    <3> QED
      BY <1>5, <3>1 DEF ReturnAsset, Returnable, Out
  <2>3. \A s \in Out \ {r} : Holder(s) # Holder(r)
    BY DEF InventoryTypeOK, Out
  <2>4. UnitsWithHolders = {Holder(s) : s \in Out} /\ UnitsWithHolders' = {Holder(s) : s \in Out'}
    BY DEF UnitsWithHolders
  <2> HIDE DEF Holder
  <2>5. Holder(r) \in UnitsWithHolders /\ UnitsWithHolders' = UnitsWithHolders \ {Holder(r)}
    BY <2>2, <2>3, <2>4
  <2>6. InventoryPool!TakeBack(Holder(r))
    BY <2>1, <2>5 DEF InventoryPool!TakeBack
  <2> QED
    BY <2>5, <2>6 DEF InventoryPool!Next
<1>6. ASSUME UNCHANGED inventoryVars
      PROVE  UNCHANGED <<UnitsHeld, UnitsWithHolders>>
  BY <1>6, <1>0b DEF inventoryVars, UnitsHeld
<1> QED
  BY <1>1, <1>2, <1>3, <1>4, <1>5, <1>6 DEF InventoryNext

(* The inventory service is a store room: no unit is lent that the school  *)
(* does not hold, and what is out comes back once.                         *)
THEOREM InventoryRefinesPool == InventorySpec => InventoryImplementsPool
<1>1. InventoryInit => InventoryPool!Init
  BY DEF InventoryInit, InventoryPool!Init, UnitsHeld, UnitsWithHolders, Out, NoItem
<1> QED
  BY <1>1, InventoryInvariant, InventoryStepsOfPool, PTL
  DEF InventorySpec, InventoryImplementsPool, InventoryPool!Spec

------------------------------------------------------------------------------
(* The inductive invariant of Library: a title nobody has catalogued owns  *)
(* no copies, which is what lets it be catalogued with all on the shelf.   *)
LibraryInv ==
  /\ LibraryTypeOK
  /\ CopiesAgree
  /\ \A b \in Books : ~book[b].listed => book[b].totalCopies = 0

LEMMA LentFinite ==
  ASSUME LibraryTypeOK, NEW b \in Books
  PROVE  IsFiniteSet(LentOf(b)) /\ Cardinality(LentOf(b)) \in Nat
<1> DEFINE f == [r \in LentOf(b) |-> r.id]
<1>1. f \in Injection(LentOf(b), BookLoans)
  BY DEF Injection, IsInjective, LibraryTypeOK, LentOf, Lent
<1> HIDE DEF f
<1> QED
  BY <1>1, BookLoansAssumption, FS_Injection, FS_CardinalityType

LEMMA BorrowLends ==
  ASSUME LibraryTypeOK, NEW b \in Books, NEW l \in BookLoans, Borrow(b, l)
  PROVE  /\ Cardinality(LentOf(b)') = Cardinality(LentOf(b)) + 1
         /\ \A c \in Books : c # b => LentOf(c)' = LentOf(c)
<1> DEFINE new == [id |-> l, book |-> b, returned |-> FALSE]
<1>1. new.id = l /\ new.book = b /\ ~new.returned
  OBVIOUS
<1>2. loan' = loan \cup {new} /\ \A r \in loan : r.id # l
  BY DEF Borrow
<1> HIDE DEF new
<1>3. LentOf(b)' = LentOf(b) \cup {new} /\ new \notin LentOf(b)
  BY <1>1, <1>2 DEF LentOf, Lent
<1>4. \A c \in Books : c # b => LentOf(c)' = LentOf(c)
  BY <1>1, <1>2 DEF LentOf, Lent
<1> QED
  BY <1>3, <1>4, LentFinite, FS_AddElement

LEMMA ReturnTakesBack ==
  ASSUME LibraryTypeOK, NEW r \in loan, ReturnBook(r)
  PROVE  /\ Cardinality(LentOf(r.book)') = Cardinality(LentOf(r.book)) - 1
         /\ Cardinality(LentOf(r.book)) > 0
         /\ \A c \in Books : c # r.book => LentOf(c)' = LentOf(c)
<1> DEFINE closed == [r EXCEPT !.returned = TRUE]
<1>1. closed.returned /\ r.book \in Books
  BY DEF LibraryTypeOK
<1>2. loan' = (loan \ {r}) \cup {closed} /\ ~r.returned
  BY DEF ReturnBook, StillLent
<1> HIDE DEF closed
<1>3. LentOf(r.book)' = LentOf(r.book) \ {r} /\ r \in LentOf(r.book)
  BY <1>1, <1>2 DEF LentOf, Lent
<1>4. \A c \in Books : c # r.book => LentOf(c)' = LentOf(c)
  BY <1>1, <1>2 DEF LentOf, Lent
<1>5. /\ Cardinality(LentOf(r.book) \ {r}) = Cardinality(LentOf(r.book)) - 1
      /\ Cardinality(LentOf(r.book) \ {r}) \in Nat /\ Cardinality(LentOf(r.book)) \in Nat
  BY <1>1, <1>3, LentFinite, FS_RemoveElement, FS_CardinalityType
<1> QED
  BY <1>3, <1>4, <1>5

LEMMA LibraryStep == LibraryInv /\ [LibraryNext]_libraryVars => LibraryInv'
<1> SUFFICES ASSUME LibraryInv, [LibraryNext]_libraryVars PROVE LibraryInv'
  OBVIOUS
<1> DEFINE Rows == [Books -> [listed : BOOLEAN, totalCopies : 0..MaxCopies,
                              availableCopies : 0..MaxCopies]]
<1>0a. /\ book \in Rows /\ loan \subseteq [id : BookLoans, book : Books, returned : BOOLEAN]
       /\ \A r, s \in loan : r.id = s.id => r = s
       /\ LibraryTypeOK
  BY DEF LibraryInv, LibraryTypeOK
<1>0b. \A b \in Books : /\ Cardinality(LentOf(b)) \in Nat
                        /\ book[b].availableCopies + Cardinality(LentOf(b)) = book[b].totalCopies
                        /\ ~book[b].listed => book[b].totalCopies = 0
                        /\ book[b].totalCopies \in 0..MaxCopies
                        /\ book[b].availableCopies \in 0..MaxCopies
  BY <1>0a, LentFinite DEF LibraryInv, CopiesAgree
<1> USE MaxCopiesAssumption
<1>1. ASSUME NEW b \in Books, NEW n \in 1..MaxCopies, CreateBook(b, n)
      PROVE  LibraryInv'
  <2>1. \A c \in Books : LentOf(c)' = LentOf(c)
    BY <1>1 DEF CreateBook, LentOf, Lent
  <2>2. /\ book' \in Rows
        /\ book'[b] = [listed |-> TRUE, totalCopies |-> n, availableCopies |-> n]
        /\ \A c \in Books : c # b => book'[c] = book[c]
    BY <1>0a, <1>1 DEF CreateBook
  <2>3. Cardinality(LentOf(b)) = 0
    BY <1>0b, <1>1 DEF CreateBook
  <2> QED
    BY <1>0a, <1>0b, <1>1, <2>1, <2>2, <2>3
    DEF CreateBook, LibraryInv, LibraryTypeOK, CopiesAgree
<1>2. ASSUME NEW b \in Books, NEW l \in BookLoans, Borrow(b, l)
      PROVE  LibraryInv'
  <2>1. /\ book' = [book EXCEPT ![b].availableCopies = @ - 1]
        /\ book[b].availableCopies - 1 \in 0..MaxCopies
    BY <1>0b, <1>2 DEF Borrow, OnShelf
  <2>2. /\ book' \in Rows
        /\ book'[b].availableCopies = book[b].availableCopies - 1
        /\ book'[b].totalCopies = book[b].totalCopies /\ book'[b].listed = book[b].listed
        /\ \A c \in Books : c # b => book'[c] = book[c]
    BY <1>0a, <2>1
  <2> DEFINE new == [id |-> l, book |-> b, returned |-> FALSE]
  <2>3. new \in [id : BookLoans, book : Books, returned : BOOLEAN] /\ new.id = l
    OBVIOUS
  <2>4. loan' = loan \cup {new} /\ \A r \in loan : r.id # l
    BY <1>2 DEF Borrow
  <2> HIDE DEF new
  <2>5. LibraryTypeOK'
    BY <1>0a, <2>2, <2>3, <2>4 DEF LibraryTypeOK
  <2>6. CopiesAgree'
    BY <1>0a, <1>0b, <1>2, <2>2, BorrowLends DEF CopiesAgree
  <2> QED
    BY <1>0b, <2>2, <2>5, <2>6 DEF LibraryInv
<1>3. ASSUME NEW r \in loan, ReturnBook(r)
      PROVE  LibraryInv'
  <2>1. /\ r.book \in Books
        /\ Cardinality(LentOf(r.book)') = Cardinality(LentOf(r.book)) - 1
        /\ Cardinality(LentOf(r.book)) > 0
        /\ \A c \in Books : c # r.book => LentOf(c)' = LentOf(c)
    BY <1>0a, <1>3, ReturnTakesBack
  <2>2. /\ book' = [book EXCEPT ![r.book].availableCopies = @ + 1]
        /\ book[r.book].availableCopies + 1 \in 0..MaxCopies
    BY <1>0b, <1>3, <2>1 DEF ReturnBook
  <2>3. /\ book' \in Rows
        /\ book'[r.book].availableCopies = book[r.book].availableCopies + 1
        /\ book'[r.book].totalCopies = book[r.book].totalCopies
        /\ book'[r.book].listed = book[r.book].listed
        /\ \A c \in Books : c # r.book => book'[c] = book[c]
    BY <1>0a, <2>1, <2>2
  <2> DEFINE closed == [r EXCEPT !.returned = TRUE]
  <2>4. closed \in [id : BookLoans, book : Books, returned : BOOLEAN] /\ closed.id = r.id
    BY <1>0a
  <2>5. loan' = (loan \ {r}) \cup {closed}
    BY <1>3 DEF ReturnBook
  <2> HIDE DEF closed
  <2>6. LibraryTypeOK'
    BY <1>0a, <2>3, <2>4, <2>5 DEF LibraryTypeOK
  <2>7. CopiesAgree'
    BY <1>0b, <2>1, <2>3 DEF CopiesAgree
  <2> QED
    BY <1>0b, <2>3, <2>6, <2>7 DEF LibraryInv
<1>4. ASSUME UNCHANGED libraryVars
      PROVE  LibraryInv'
  BY <1>4 DEF libraryVars, LibraryInv, LibraryTypeOK, CopiesAgree, LentOf, Lent
<1> QED
  BY <1>1, <1>2, <1>3, <1>4 DEF LibraryNext

LEMMA LibraryInvariant == LibrarySpec => []LibraryInv
<1>1. LibraryInit => LibraryInv
  <2> SUFFICES ASSUME LibraryInit PROVE LibraryInv
    OBVIOUS
  <2>1. \A b \in Books : LentOf(b) = {}
    BY DEF LibraryInit, LentOf, Lent
  <2> QED
    BY <2>1, FS_EmptySet, MaxCopiesAssumption
    DEF LibraryInit, LibraryInv, LibraryTypeOK, CopiesAgree, NoBook
<1> QED
  BY <1>1, LibraryStep, PTL DEF LibrarySpec

(* The library's counts stay between 0 and what it owns with no constraint *)
(* in the database to keep them there.                                     *)
THEOREM LibraryTypeCorrect == LibrarySpec => []LibraryTypeOK
  BY LibraryInvariant, PTL DEF LibraryInv

(* Copies on the shelf and copies lent make up the copies owned, whatever  *)
(* loans and returns interleave.                                           *)
THEOREM CopiesAddUp == LibrarySpec => []CopiesAgree
  BY LibraryInvariant, PTL DEF LibraryInv

(* Library implements the store room, one copy to a loan. *)
LEMMA SameCopiesOut ==
  ASSUME LibraryTypeOK, NEW b \in Books
  PROVE  LibraryPool!Cardinality(LibraryPool!UnitsOut(b)) = Cardinality(LentOf(b))
<1> DEFINE f == [r \in LentOf(b) |-> <<r.id, 1>>]
           Entry(r) == [loan |-> r.id, thing |-> r.book, units |-> 1]
<1>1. \A r : Entry(r).loan = r.id /\ Entry(r).thing = r.book /\ Entry(r).units = 1
  OBVIOUS
<1>2. CopiesLent = {Entry(r) : r \in Lent}
  BY DEF CopiesLent
<1> HIDE DEF Entry
<1>3. {e \in CopiesLent : e.thing = b} = {Entry(r) : r \in LentOf(b)}
  BY <1>1, <1>2 DEF LentOf
<1>4. LibraryPool!UnitsOut(b) = {<<r.id, 1>> : r \in LentOf(b)}
  <2>1. ASSUME NEW p
        PROVE  p \in LibraryPool!UnitsOut(b) <=> \E r \in LentOf(b) : p \in {r.id} \X (1..1)
    BY <1>1, <1>3 DEF LibraryPool!UnitsOut
  <2>2. 1..1 = {1}
    OBVIOUS
  <2>3. \A r, p : p \in {r.id} \X {1} <=> p = <<r.id, 1>>
    OBVIOUS
  <2> QED
    BY <2>1, <2>2, <2>3
<1>5. f \in Bijection(LentOf(b), LibraryPool!UnitsOut(b))
  BY <1>4 DEF Bijection, Injection, Surjection, IsInjective, LentOf, Lent, LibraryTypeOK
<1>6. LibraryPool!Cardinality(LibraryPool!UnitsOut(b)) = Cardinality(LibraryPool!UnitsOut(b))
  BY DEF LibraryPool!Cardinality, Cardinality
<1> QED
  BY <1>5, <1>6, LentFinite, FS_Bijection DEF ExistsBijection

LEMMA LibraryStepsOfPool ==
  LibraryInv /\ [LibraryNext]_libraryVars => [LibraryPool!Next]_(LibraryPool!poolVars)
<1> SUFFICES ASSUME LibraryInv, [LibraryNext]_libraryVars
             PROVE  LibraryPool!Next \/ UNCHANGED <<CopiesHeld, CopiesLent>>
  BY DEF LibraryPool!poolVars
<1> USE MaxCopiesAssumption
<1>0a. LibraryTypeOK
  BY DEF LibraryInv
<1>0b. \A b \in Books :
          /\ LibraryPool!Cardinality(LibraryPool!UnitsOut(b)) = Cardinality(LentOf(b))
          /\ Cardinality(LentOf(b)) \in Nat
          /\ book[b].availableCopies + Cardinality(LentOf(b)) = book[b].totalCopies
          /\ ~book[b].listed => book[b].totalCopies = 0
          /\ book[b].totalCopies \in Nat /\ book[b].availableCopies \in Nat
          /\ CopiesHeld[b] = book[b].totalCopies
  BY <1>0a, LentFinite, SameCopiesOut DEF LibraryInv, LibraryTypeOK, CopiesAgree, CopiesHeld
<1>1. ASSUME NEW b \in Books, NEW n \in 1..MaxCopies, CreateBook(b, n)
      PROVE  LibraryPool!Next
  <2>1. CopiesHeld' = [CopiesHeld EXCEPT ![b] = n]
    BY <1>0a, <1>1 DEF CreateBook, CopiesHeld, LibraryTypeOK
  <2>2. CopiesLent' = CopiesLent
    BY <1>1 DEF CreateBook, CopiesLent, Lent
  <2>3. LibraryPool!Cardinality(LibraryPool!UnitsOut(b)) <= n
    BY <1>0b, <1>1 DEF CreateBook
  <2>4. LibraryPool!Stock(b, n) /\ n \in 0..MaxCopies
    BY <2>1, <2>2, <2>3 DEF LibraryPool!Stock
  <2> QED
    BY <2>4 DEF LibraryPool!Next
<1>2. ASSUME NEW b \in Books, NEW l \in BookLoans, Borrow(b, l)
      PROVE  LibraryPool!Next
  <2> DEFINE new == [id |-> l, book |-> b, returned |-> FALSE]
  <2>1. new.id = l /\ new.book = b /\ ~new.returned
    OBVIOUS
  <2>2. loan' = loan \cup {new} /\ \A r \in loan : r.id # l
    BY <1>2 DEF Borrow
  <2> HIDE DEF new
  <2>3. CopiesLent' = CopiesLent \cup {[loan |-> l, thing |-> b, units |-> 1]}
    BY <2>1, <2>2 DEF CopiesLent, Lent
  <2>4. \A e \in CopiesLent : e.loan # l
    BY <2>2 DEF CopiesLent, Lent
  <2>5. CopiesHeld' = CopiesHeld
    BY <1>0a, <1>2 DEF Borrow, CopiesHeld, LibraryTypeOK
  <2>6. /\ LibraryPool!Cardinality(LibraryPool!UnitsOut(b)) + 1 <= CopiesHeld[b]
        /\ 1 \in 1..CopiesHeld[b]
    BY <1>0b, <1>2 DEF Borrow, OnShelf
  <2>7. LibraryPool!Lend(l, b, 1)
    BY <2>3, <2>4, <2>5, <2>6 DEF LibraryPool!Lend
  <2> QED
    BY <2>6, <2>7 DEF LibraryPool!Next
<1>3. ASSUME NEW r \in loan, ReturnBook(r)
      PROVE  LibraryPool!Next
  <2> DEFINE Entry(s) == [loan |-> s.id, thing |-> s.book, units |-> 1]
             closed == [r EXCEPT !.returned = TRUE]
  <2>1. closed.returned
    BY <1>0a DEF LibraryTypeOK
  <2>2. loan' = (loan \ {r}) \cup {closed} /\ ~r.returned
    BY <1>3 DEF ReturnBook, StillLent
  <2> HIDE DEF closed
  <2>3. r \in Lent /\ Lent' = Lent \ {r}
    BY <2>1, <2>2 DEF Lent
  <2>4. \A s \in Lent \ {r} : Entry(s) # Entry(r)
    BY <1>0a DEF LibraryTypeOK, Lent
  <2>5. CopiesLent = {Entry(s) : s \in Lent} /\ CopiesLent' = {Entry(s) : s \in Lent'}
    BY DEF CopiesLent
  <2>6. CopiesHeld' = CopiesHeld
    BY <1>0a, <1>3 DEF ReturnBook, CopiesHeld, LibraryTypeOK
  <2> HIDE DEF Entry
  <2>7. Entry(r) \in CopiesLent /\ CopiesLent' = CopiesLent \ {Entry(r)}
    BY <2>3, <2>4, <2>5
  <2>8. LibraryPool!TakeBack(Entry(r))
    BY <2>6, <2>7 DEF LibraryPool!TakeBack
  <2> QED
    BY <2>7, <2>8 DEF LibraryPool!Next
<1>4. ASSUME UNCHANGED libraryVars
      PROVE  UNCHANGED <<CopiesHeld, CopiesLent>>
  BY <1>4 DEF libraryVars, CopiesHeld, CopiesLent, Lent
<1> QED
  BY <1>1, <1>2, <1>3, <1>4 DEF LibraryNext

(* The library is a store room too, with nothing but the claim's WHERE     *)
(* clause to make it one.                                                  *)
THEOREM LibraryRefinesPool == LibrarySpec => LibraryImplementsPool
<1>1. LibraryInit => LibraryPool!Init
  BY DEF LibraryInit, LibraryPool!Init, CopiesHeld, CopiesLent, Lent, NoBook
<1> QED
  BY <1>1, LibraryInvariant, LibraryStepsOfPool, PTL
  DEF LibrarySpec, LibraryImplementsPool, LibraryPool!Spec

(***************************************************************************)
(* Hostel and Meetings.                                                    *)
(***************************************************************************)
(* The parts of an allocation in flight, and of HostelTypeOK, by name. *)
Requests ==
  [step : {"idle", "looking", "claiming", "failed", "full"},
   room : Rooms \cup {None}, student : Students \cup {None},
   capacity : 0..MaxCapacity, attempt : 0..MaxCapacity \cup {None},
   bed : Capacities \cup {None}]

RequestWhole(w) ==
  allocate[w].step # "idle" =>
    /\ allocate[w].room \in Rooms
    /\ allocate[w].student \in Students
    /\ allocate[w].capacity \in Capacities
    /\ allocate[w].attempt # None => allocate[w].attempt < allocate[w].capacity
    /\ allocate[w].step \in {"claiming", "failed"} =>
          allocate[w].bed \in 1..allocate[w].capacity

TablesTyped ==
  /\ room \in [Rooms -> 0..MaxCapacity]
  /\ resident \subseteq [student : Students, room : Rooms, bed : Capacities]
  /\ \A x \in resident : RoomExists(x.room)
  /\ toResize \subseteq Rooms \X Capacities
  /\ toDelete \subseteq Rooms
  /\ settled \in [Wardens -> BOOLEAN]

LEMMA HostelTypeParts ==
  HostelTypeOK <=> /\ TablesTyped
                   /\ allocate \in [Wardens -> Requests]
                   /\ \A w \in Wardens : RequestWhole(w)
  BY DEF HostelTypeOK, TablesTyped, Requests, RequestWhole

(* The steps of one warden's request. *)
WardenStep(w) ==
  \/ \E r \in Rooms, s \in Students : StartAllocate(w, r, s)
  \/ \E r \in Rooms, s \in Students, b \in Capacities : StartNamedBed(w, r, s, b)
  \/ ReadFreeBeds(w)
  \/ ClaimBed(w)
  \/ FailToClaim(w)
  \/ ExplainFailure(w)
  \/ EndAllocate(w)

(* The steps that leave every request alone. *)
TableStep ==
  \/ \E r \in Rooms, c \in Capacities : CreateRoom(r, c)
  \/ \E r \in Rooms, c \in Capacities : CheckCapacity(r, c)
  \/ \E r \in Rooms, c \in Capacities : UpdateRoom(r, c)
  \/ \E r \in Rooms : CheckEmpty(r)
  \/ \E r \in Rooms : RemoveRoom(r)
  \/ \E x \in resident : Vacate(x)

LEMMA HostelStepCases ==
  HostelNext => TableStep \/ \E w \in Wardens : WardenStep(w)
  BY Zenon DEF HostelNext, TableStep, WardenStep

LEMMA TableStepKeepsRequests == TableStep => allocate' = allocate
  BY DEF TableStep, CreateRoom, CheckCapacity, UpdateRoom, CheckEmpty, RemoveRoom, Vacate

(* The lowest of some beds. *)
LEMMA LowestBed ==
  ASSUME NEW S \in SUBSET Nat, S # {}
  PROVE  Min(S) \in S /\ \A b \in S : Min(S) <= b
<1>1. PICK m \in S : \A b \in S : ~(<<b, m>> \in OpToRel(<, Nat))
  BY WFMin, NatLessThanWellFounded, Zenon
<1>2. \A b \in S : m <= b
  <2> SUFFICES ASSUME NEW b \in S, ~(m <= b) PROVE FALSE
    OBVIOUS
  <2>1. b < m /\ <<b, m>> \in Nat \X Nat
    OBVIOUS
  <2> QED
    BY <1>1, <2>1 DEF OpToRel
<1> QED
  BY <1>2 DEF Min

LEMMA FreeBedsAreBeds ==
  ASSUME NEW r, NEW c \in Nat, FreeBeds(r, c) # {}
  PROVE  /\ Min(FreeBeds(r, c)) \in 1..c
         /\ \A b \in 1..c : b < Min(FreeBeds(r, c)) => Taken(r, b)
<1>1. FreeBeds(r, c) \in SUBSET Nat
  BY DEF FreeBeds
<1>2. /\ Min(FreeBeds(r, c)) \in FreeBeds(r, c)
      /\ \A b \in FreeBeds(r, c) : Min(FreeBeds(r, c)) <= b
  BY <1>1, LowestBed
<1>3. Min(FreeBeds(r, c)) \in 1..c
  BY <1>2 DEF FreeBeds
<1>4. ASSUME NEW b \in 1..c, b < Min(FreeBeds(r, c)), ~Taken(r, b)
      PROVE  FALSE
  <2>1. b \in FreeBeds(r, c)
    BY <1>4 DEF FreeBeds
  <2> QED
    BY <1>2, <1>3, <1>4, <2>1
<1> QED
  BY <1>3, <1>4

------------------------------------------------------------------------------
(* Type correctness. *)
LEMMA OneRequestChanges ==
  ASSUME HostelTypeOK, NEW w \in Wardens, NEW q \in Requests,
         allocate' = [allocate EXCEPT ![w] = q], RequestWhole(w)'
  PROVE  /\ allocate' \in [Wardens -> Requests]
         /\ \A v \in Wardens : RequestWhole(v)'
<1>1. allocate \in [Wardens -> Requests] /\ \A v \in Wardens : RequestWhole(v)
  BY HostelTypeParts
<1>2. \A v \in Wardens : v # w => allocate'[v] = allocate[v]
  BY <1>1
<1>3. ASSUME NEW v \in Wardens, v # w
      PROVE  RequestWhole(v)'
  BY <1>1, <1>2, <1>3 DEF RequestWhole
<1> QED
  BY <1>1, <1>3

LEMMA WardenStepTyped ==
  ASSUME HostelTypeOK, NEW w \in Wardens, WardenStep(w)
  PROVE  allocate' \in [Wardens -> Requests] /\ \A v \in Wardens : RequestWhole(v)'
<1> DEFINE a == allocate[w]
<1> USE MaxCapacityAssumption, HostelNoneAssumption DEF Capacities
<1>0. allocate \in [Wardens -> Requests] /\ a \in Requests /\ RequestWhole(w)
  BY HostelTypeParts
<1>1. ASSUME NEW r \in Rooms, NEW s \in Students,
             NEW b \in Capacities \cup {None}, NEW step \in {"looking", "claiming"},
             NEW k \in {0, None},
             RoomExists(r), step = "claiming" => b \in 1..room[r],
             allocate' = [allocate EXCEPT ![w] =
                [step |-> step, room |-> r, student |-> s, capacity |-> room[r],
                 attempt |-> k, bed |-> b]]
      PROVE  allocate' \in [Wardens -> Requests] /\ \A v \in Wardens : RequestWhole(v)'
  <2> DEFINE q == [step |-> step, room |-> r, student |-> s, capacity |-> room[r],
                   attempt |-> k, bed |-> b]
  <2>1. room[r] \in Capacities
    BY <1>1, HostelTypeParts DEF TablesTyped, RoomExists
  <2>2. q \in Requests
    BY <2>1 DEF Requests
  <2>3. allocate'[w] = q
    BY <1>0, <1>1
  <2>4. RequestWhole(w)'
    BY <1>1, <2>1, <2>3 DEF RequestWhole
  <2> QED
    BY <1>1, <2>2, <2>4, OneRequestChanges
<1>2. ASSUME NEW r \in Rooms, NEW s \in Students, StartAllocate(w, r, s)
      PROVE  allocate' \in [Wardens -> Requests] /\ \A v \in Wardens : RequestWhole(v)'
  BY <1>1, <1>2 DEF StartAllocate
<1>3. ASSUME NEW r \in Rooms, NEW s \in Students, NEW b \in Capacities,
             StartNamedBed(w, r, s, b)
      PROVE  allocate' \in [Wardens -> Requests] /\ \A v \in Wardens : RequestWhole(v)'
  <2>1. b \in 1..room[r]
    BY <1>3, HostelTypeParts DEF StartNamedBed, TablesTyped
  <2> QED
    BY <1>1, <1>3, <2>1 DEF StartNamedBed
<1>4. ASSUME allocate' = [allocate EXCEPT ![w] = NoAllocate]
      PROVE  allocate' \in [Wardens -> Requests] /\ \A v \in Wardens : RequestWhole(v)'
  <2>1. NoAllocate \in Requests
    BY DEF NoAllocate, Requests
  <2>2. RequestWhole(w)'
    BY <1>0, <1>4 DEF RequestWhole, NoAllocate
  <2> QED
    BY <1>4, <2>1, <2>2, OneRequestChanges
<1>5. ASSUME NEW step \in {"looking", "claiming", "failed", "full"},
             NEW k \in 0..MaxCapacity \cup {None}, NEW b \in Capacities \cup {None},
             a.step # "idle", k # None => k < a.capacity,
             step \in {"claiming", "failed"} => b \in 1..a.capacity,
             allocate' = [allocate EXCEPT ![w] =
                [a EXCEPT !.step = step, !.attempt = k, !.bed = b]]
      PROVE  allocate' \in [Wardens -> Requests] /\ \A v \in Wardens : RequestWhole(v)'
  <2> DEFINE q == [a EXCEPT !.step = step, !.attempt = k, !.bed = b]
  <2>1. /\ q \in Requests /\ q.step = step /\ q.attempt = k /\ q.bed = b
        /\ q.room = a.room /\ q.student = a.student /\ q.capacity = a.capacity
    BY <1>0 DEF Requests
  <2>2. allocate'[w] = q
    BY <1>0, <1>5
  <2> HIDE DEF q
  <2>3. RequestWhole(w)'
    BY <1>0, <1>5, <2>1, <2>2 DEF RequestWhole
  <2>4. allocate' = [allocate EXCEPT ![w] = q]
    BY <1>5 DEF q
  <2> QED
    BY <2>1, <2>3, <2>4, OneRequestChanges
<1> USE DEF Requests
<1>6. CASE ReadFreeBeds(w)
  <2> DEFINE free == FreeBeds(a.room, a.capacity)
  <2>1. a.step = "looking" /\ a.capacity \in Nat
    BY <1>0, <1>6 DEF ReadFreeBeds
  <2>2. CASE free = {}
    <3>1. allocate' = [allocate EXCEPT ![w] = [a EXCEPT !.step = "full", !.attempt = a.attempt,
                                                        !.bed = a.bed]]
      BY <1>0, <1>6, <2>2 DEF ReadFreeBeds
    <3> QED
      BY <1>0, <1>5, <2>1, <3>1 DEF RequestWhole
  <2>3. CASE free # {}
    <3>1. allocate' = [allocate EXCEPT ![w] = [a EXCEPT !.step = "claiming", !.attempt = a.attempt,
                                                        !.bed = Min(free)]]
      BY <1>0, <1>6, <2>3 DEF ReadFreeBeds
    <3>2. Min(free) \in 1..a.capacity
      BY <2>1, <2>3, FreeBedsAreBeds
    <3>3. Min(free) \in Capacities
      BY <1>0, <3>2
    <3>4. a.attempt \in 0..MaxCapacity \cup {None} /\ (a.attempt # None => a.attempt < a.capacity)
      BY <1>0, <2>1 DEF RequestWhole
    <3> HIDE DEF free
    <3> QED
      BY <1>5, <2>1, <3>1, <3>2, <3>3, <3>4
  <2> QED
    BY <2>2, <2>3
<1>7. CASE FailToClaim(w)
  <2>1. allocate' = [allocate EXCEPT ![w] = [a EXCEPT !.step = "failed", !.attempt = a.attempt,
                                                      !.bed = a.bed]]
    BY <1>0, <1>7 DEF FailToClaim
  <2>2. a.step = "claiming"
    BY <1>7 DEF FailToClaim
  <2> QED
    BY <1>0, <1>5, <2>1, <2>2 DEF RequestWhole
<1>8. CASE ExplainFailure(w)
  <2>1. a.step = "failed"
    BY <1>8 DEF ExplainFailure
  <2>2. CASE Resides(a.student) \/ a.attempt = None
    BY <1>4, <1>8, <2>2 DEF ExplainFailure
  <2>3. CASE ~(Resides(a.student) \/ a.attempt = None) /\ LastAttempt(w)
    <3>1. allocate' = [allocate EXCEPT ![w] = [a EXCEPT !.step = "full", !.attempt = a.attempt,
                                                        !.bed = a.bed]]
      BY <1>0, <1>8, <2>3 DEF ExplainFailure
    <3> QED
      BY <1>0, <1>5, <2>1, <3>1 DEF RequestWhole
  <2>4. CASE ~(Resides(a.student) \/ a.attempt = None) /\ ~LastAttempt(w)
    <3>1. allocate' = [allocate EXCEPT ![w] = [a EXCEPT !.step = "looking",
                                                        !.attempt = a.attempt + 1, !.bed = a.bed]]
      BY <1>0, <1>8, <2>4 DEF ExplainFailure
    <3>2. a.attempt + 1 \in 0..MaxCapacity /\ a.attempt + 1 < a.capacity
      BY <1>0, <2>1, <2>4 DEF RequestWhole, LastAttempt
    <3> QED
      BY <1>0, <1>5, <2>1, <3>1, <3>2
  <2> QED
    BY <2>2, <2>3, <2>4
<1> QED
  BY <1>2, <1>3, <1>4, <1>6, <1>7, <1>8 DEF WardenStep, ClaimBed, EndAllocate

LEMMA StepKeepsTables == HostelTypeOK /\ HostelNext => TablesTyped'
<1> SUFFICES ASSUME HostelTypeOK, HostelNext PROVE TablesTyped'
  OBVIOUS
<1> USE MaxCapacityAssumption DEF Capacities
<1>0. /\ TablesTyped
      /\ allocate \in [Wardens -> Requests] /\ \A w \in Wardens : RequestWhole(w)
  BY HostelTypeParts
<1>0a. \A r, S : Unsettle(r, S) => settled' \in [Wardens -> BOOLEAN]
  BY DEF Unsettle
<1>1. ASSUME NEW w \in Wardens, WardenStep(w), ~ClaimBed(w)
      PROVE  TablesTyped'
  <2>1. UNCHANGED <<room, resident, toResize, toDelete>>
    BY <1>1 DEF WardenStep, StartAllocate, StartNamedBed, ReadFreeBeds, FailToClaim,
                ExplainFailure, EndAllocate
  <2>2. settled' = settled \/ settled' = [settled EXCEPT ![w] = TRUE]
    BY <1>1 DEF WardenStep, StartAllocate, StartNamedBed, ReadFreeBeds, FailToClaim,
                ExplainFailure, EndAllocate
  <2> QED
    BY <1>0, <2>1, <2>2 DEF TablesTyped, RoomExists
<1>2. ASSUME NEW w \in Wardens, ClaimBed(w)
      PROVE  TablesTyped'
  <2> DEFINE new == [student |-> allocate[w].student, room |-> allocate[w].room,
                     bed |-> allocate[w].bed]
  <2>1. /\ allocate[w].step = "claiming" /\ RoomExists(allocate[w].room)
        /\ resident' = resident \cup {new}
        /\ UNCHANGED <<room, toResize, toDelete, settled>>
    BY <1>2 DEF ClaimBed
  <2>2. /\ new \in [student : Students, room : Rooms, bed : 1..MaxCapacity]
        /\ new.room = allocate[w].room
    BY <1>0, <2>1 DEF RequestWhole
  <2> HIDE DEF new
  <2> QED
    BY <1>0, <2>1, <2>2 DEF TablesTyped, RoomExists
<1>3. ASSUME NEW r \in Rooms, NEW c \in Capacities, CreateRoom(r, c) \/ UpdateRoom(r, c)
      PROVE  TablesTyped'
  <2>1. /\ room' \in [Rooms -> 0..MaxCapacity]
        /\ \A q \in Rooms : RoomExists(q) => room'[q] # 0
    BY <1>0, <1>3 DEF CreateRoom, UpdateRoom, TablesTyped, RoomExists
  <2>2. /\ UNCHANGED <<resident, toResize, toDelete>>
        /\ settled' \in [Wardens -> BOOLEAN]
    BY <1>0, <1>0a, <1>3 DEF CreateRoom, UpdateRoom, TablesTyped
  <2> QED
    BY <1>0, <2>1, <2>2 DEF TablesTyped, RoomExists
<1>4. ASSUME NEW r \in Rooms, NEW c \in Capacities, CheckCapacity(r, c)
      PROVE  TablesTyped'
  BY <1>0, <1>4 DEF CheckCapacity, TablesTyped, RoomExists
<1>5. ASSUME NEW r \in Rooms, CheckEmpty(r)
      PROVE  TablesTyped'
  BY <1>0, <1>5 DEF CheckEmpty, TablesTyped, RoomExists
<1>6. ASSUME NEW r \in Rooms, RemoveRoom(r)
      PROVE  TablesTyped'
  <2>1. /\ room' = [room EXCEPT ![r] = 0]
        /\ resident' = {x \in resident : x.room # r}
        /\ UNCHANGED <<toResize, toDelete>>
        /\ settled' \in [Wardens -> BOOLEAN]
    BY <1>0a, <1>6 DEF RemoveRoom
  <2> QED
    BY <1>0, <2>1 DEF TablesTyped, RoomExists
<1>7. ASSUME NEW x \in resident, Vacate(x)
      PROVE  TablesTyped'
  BY <1>0, <1>0a, <1>7 DEF Vacate, TablesTyped, RoomExists
<1> QED
  BY <1>1, <1>2, <1>3, <1>4, <1>5, <1>6, <1>7, HostelStepCases DEF TableStep

LEMMA HostelStepTyped == HostelTypeOK /\ [HostelNext]_hostelVars => HostelTypeOK'
<1> SUFFICES ASSUME HostelTypeOK, [HostelNext]_hostelVars PROVE HostelTypeOK'
  OBVIOUS
<1>1. CASE HostelNext
  <2>1. TablesTyped'
    BY <1>1, StepKeepsTables
  <2>2. allocate' \in [Wardens -> Requests] /\ \A w \in Wardens : RequestWhole(w)'
    <3>1. CASE TableStep
      BY <3>1, TableStepKeepsRequests, HostelTypeParts DEF RequestWhole
    <3>2. ASSUME NEW w \in Wardens, WardenStep(w)
          PROVE  allocate' \in [Wardens -> Requests] /\ \A v \in Wardens : RequestWhole(v)'
      BY <3>2, WardenStepTyped
    <3> QED
      BY <1>1, <3>1, <3>2, HostelStepCases
  <2> QED
    BY <2>1, <2>2 DEF HostelTypeOK, TablesTyped, Requests, RequestWhole
<1>2. CASE UNCHANGED hostelVars
  BY <1>2 DEF hostelVars, HostelTypeOK, RoomExists
<1> QED
  BY <1>1, <1>2

(* Residents' rooms exist, and a request in flight is about a bed that its *)
(* room had when it was read.                                              *)
THEOREM HostelTypeCorrect == HostelSpec => []HostelTypeOK
<1>1. HostelInit => HostelTypeOK
  BY MaxCapacityAssumption DEF HostelInit, HostelTypeOK, NoAllocate, Capacities
<1> QED
  BY <1>1, HostelStepTyped, PTL DEF HostelSpec

------------------------------------------------------------------------------
(* The two indexes do what the migration says of them. *)
THEOREM BedsAreTheirs == HostelSpec => []EveryoneHasTheirOwnBed
<1>1. HostelInit => EveryoneHasTheirOwnBed
  BY DEF HostelInit, EveryoneHasTheirOwnBed
<1>2. EveryoneHasTheirOwnBed /\ [HostelNext]_hostelVars => EveryoneHasTheirOwnBed'
  <2> SUFFICES ASSUME EveryoneHasTheirOwnBed, [HostelNext]_hostelVars
               PROVE  EveryoneHasTheirOwnBed'
    OBVIOUS
  <2>1. ASSUME NEW w \in Wardens, ClaimBed(w)
        PROVE  EveryoneHasTheirOwnBed'
    <3> DEFINE new == [student |-> allocate[w].student, room |-> allocate[w].room,
                       bed |-> allocate[w].bed]
    <3>1. /\ resident' = resident \cup {new}
          /\ \A x \in resident : /\ ~(x.room = allocate[w].room /\ x.bed = allocate[w].bed)
                                /\ x.student # allocate[w].student
      BY <2>1 DEF ClaimBed, IndexesAllow, Taken, Resides
    <3>2. /\ new.student = allocate[w].student /\ new.room = allocate[w].room
          /\ new.bed = allocate[w].bed
      OBVIOUS
    <3> HIDE DEF new
    <3> QED
      BY <3>1, <3>2 DEF EveryoneHasTheirOwnBed
  <2>2. ASSUME \A w \in Wardens : ~ClaimBed(w)
        PROVE  resident' \subseteq resident
    BY <2>2 DEF HostelNext, hostelVars, CreateRoom, CheckCapacity, UpdateRoom, CheckEmpty,
                RemoveRoom, StartAllocate, StartNamedBed, ReadFreeBeds, FailToClaim,
                ExplainFailure, EndAllocate, Vacate
  <2> QED
    BY <2>1, <2>2 DEF EveryoneHasTheirOwnBed
<1> QED
  BY <1>1, <1>2, PTL DEF HostelSpec

------------------------------------------------------------------------------
(* "Room is full".  What an undisturbed request may conclude from how far  *)
(* it got: every failed attempt means one more bed, from the lowest up,    *)
(* that somebody has and that nobody has given up.                         *)
Knows(w) ==
  LET a == allocate[w]
  IN  /\ room[a.room] \in 1..a.capacity
      /\ a.step = "looking" => \A b \in 1..a.attempt : Taken(a.room, b)
      /\ a.step \in {"claiming", "failed"} /\ a.attempt # None =>
            a.attempt < a.bed /\ \A b \in 1..(a.bed - 1) : Taken(a.room, b)
      /\ a.step = "failed" => Taken(a.room, a.bed) \/ Resides(a.student)
      /\ a.step = "full" => \A b \in 1..a.capacity : Taken(a.room, b)

Informed ==
  \A w \in Wardens : /\ allocate[w].step = "looking" => allocate[w].attempt # None
                     /\ allocate[w].step # "idle" /\ settled[w] => Knows(w)

(* What a settled request relies on stays as it was. *)
LEMMA KnowledgeLasts ==
  ASSUME NEW w \in Wardens, Knows(w), allocate'[w] = allocate[w],
         allocate[w].capacity \in Nat,
         room'[allocate[w].room] \in 1..room[allocate[w].room],
         \A b : Taken(allocate[w].room, b) => Taken(allocate[w].room, b)',
         Resides(allocate[w].student) => Resides(allocate[w].student)'
  PROVE  Knows(w)'
<1>1. room'[allocate[w].room] \in 1..allocate[w].capacity
  BY DEF Knows
<1> QED
  BY <1>1 DEF Knows

LEMMA TableStepsInform ==
  ASSUME HostelTypeOK, Informed, TableStep, NEW w \in Wardens,
         allocate[w].step # "idle", settled'[w]
  PROVE  Knows(w)'
<1> DEFINE a == allocate[w]
<1>0. /\ allocate' = allocate
      /\ TablesTyped /\ a.room \in Rooms /\ a.capacity \in Nat
  BY TableStepKeepsRequests, HostelTypeParts, MaxCapacityAssumption DEF RequestWhole, Capacities
<1>1. \A r, S : Unsettle(r, S) => settled[w] /\ a.room # r /\ a.student \notin S
  BY DEF Unsettle
<1>2. settled[w]
  BY <1>1 DEF TableStep, CreateRoom, CheckCapacity, UpdateRoom, CheckEmpty, RemoveRoom, Vacate
<1>3. Knows(w) /\ room[a.room] \in Nat \ {0}
  BY <1>0, <1>2 DEF Informed, Knows
<1>4. room'[a.room] \in 1..room[a.room]
  <2>1. ASSUME NEW r \in Rooms, NEW c \in Capacities, UpdateRoom(r, c)
        PROVE  room'[a.room] \in 1..room[a.room]
    <3>1. c \in Nat \ {0} /\ room' = [room EXCEPT ![r] = c] /\ room[r] \in Nat
      BY <1>0, <2>1, MaxCapacityAssumption DEF UpdateRoom, Capacities, TablesTyped
    <3>2. c > room[r] => a.room # r
      BY <1>1, <2>1 DEF UpdateRoom
    <3> QED
      BY <1>0, <1>3, <3>1, <3>2 DEF TablesTyped
  <2>2. ASSUME NEW r \in Rooms, NEW c \in Capacities, CreateRoom(r, c)
        PROVE  room'[a.room] \in 1..room[a.room]
    BY <1>0, <1>3, <2>2 DEF CreateRoom, RoomExists, TablesTyped
  <2>3. ASSUME NEW r \in Rooms, RemoveRoom(r)
        PROVE  room'[a.room] \in 1..room[a.room]
    BY <1>0, <1>1, <1>3, <2>3 DEF RemoveRoom, TablesTyped
  <2>4. ASSUME room' = room
        PROVE  room'[a.room] \in 1..room[a.room]
    BY <1>3, <2>4
  <2> QED
    BY <2>1, <2>2, <2>3, <2>4 DEF TableStep, CheckCapacity, CheckEmpty, Vacate
<1>5. \A x \in resident : x.room = a.room \/ x.student = a.student => x \in resident'
  <2>1. ASSUME NEW r \in Rooms, RemoveRoom(r)
        PROVE  \A x \in resident : x.room = a.room \/ x.student = a.student => x \in resident'
    <3>1. a.room # r /\ a.student \notin {x.student : x \in {y \in resident : y.room = r}}
      BY <1>1, <2>1 DEF RemoveRoom
    <3>2. resident' = {x \in resident : x.room # r}
      BY <2>1 DEF RemoveRoom
    <3> QED
      BY <3>1, <3>2
  <2>2. ASSUME NEW y \in resident, Vacate(y)
        PROVE  \A x \in resident : x.room = a.room \/ x.student = a.student => x \in resident'
    <3>1. a.room # y.room /\ a.student \notin {y.student} /\ resident' = resident \ {y}
      BY <1>1, <2>2 DEF Vacate
    <3> QED
      BY <3>1
  <2> QED
    BY <2>1, <2>2 DEF TableStep, CreateRoom, CheckCapacity, UpdateRoom, CheckEmpty
<1> QED
  BY <1>0, <1>3, <1>4, <1>5, KnowledgeLasts DEF Taken, Resides

LEMMA WardenStepsInform ==
  ASSUME HostelTypeOK, HostelTypeOK', Informed, NEW w \in Wardens, WardenStep(w)
  PROVE  /\ allocate'[w].step = "looking" => allocate'[w].attempt # None
         /\ allocate'[w].step # "idle" /\ settled'[w] => Knows(w)'
<1> DEFINE a == allocate[w]
<1> USE HostelNoneAssumption, MaxCapacityAssumption
<1>0. /\ TablesTyped /\ allocate \in [Wardens -> Requests] /\ RequestWhole(w)
      /\ a.step # "idle" /\ settled[w] => Knows(w)
      /\ a.step = "looking" => a.attempt # None
  BY HostelTypeParts DEF Informed
<1>1. ASSUME NEW r \in Rooms, NEW s \in Students,
             \/ StartAllocate(w, r, s)
             \/ \E b \in Capacities : StartNamedBed(w, r, s, b)
      PROVE  /\ allocate'[w].step = "looking" => allocate'[w].attempt # None
             /\ Knows(w)'
  <2>1. room' = room /\ room[r] \in Nat \ {0} /\ RoomExists(r)
    BY <1>0, <1>1 DEF StartAllocate, StartNamedBed, RoomExists, TablesTyped
  <2>2. /\ allocate'[w].room = r /\ allocate'[w].capacity = room[r]
        /\ \/ allocate'[w].step = "looking" /\ allocate'[w].attempt = 0
           \/ allocate'[w].step = "claiming" /\ allocate'[w].attempt = None
    BY <1>0, <1>1 DEF StartAllocate, StartNamedBed
  <2> QED
    BY <2>1, <2>2 DEF Knows
<1>2. ASSUME ClaimBed(w) \/ EndAllocate(w)
      PROVE  allocate'[w].step = "idle"
  BY <1>0, <1>2 DEF ClaimBed, EndAllocate, NoAllocate
<1>3. CASE ReadFreeBeds(w)
  <2> DEFINE free == FreeBeds(a.room, a.capacity)
  <2>1. /\ a.step = "looking" /\ UNCHANGED <<room, resident, settled>>
        /\ a.capacity \in Nat /\ a.attempt \in Nat /\ a.attempt < a.capacity
    BY <1>0, <1>3 DEF ReadFreeBeds, RequestWhole, Requests, Capacities
  <2>2. CASE free = {}
    <3>1. allocate'[w] = [a EXCEPT !.step = "full"]
      BY <1>0, <1>3, <2>2 DEF ReadFreeBeds
    <3>2. allocate'[w].step = "full" /\ allocate'[w].room = a.room /\ allocate'[w].capacity = a.capacity
      BY <1>0, <3>1 DEF Requests
    <3>3. \A b \in 1..a.capacity : Taken(a.room, b)
      BY <2>2 DEF FreeBeds
    <3> QED
      BY <1>0, <2>1, <3>2, <3>3 DEF Knows, Taken
  <2>3. CASE free # {}
    <3>1. allocate'[w] = [a EXCEPT !.step = "claiming", !.bed = Min(free)]
      BY <1>0, <1>3, <2>3 DEF ReadFreeBeds
    <3>2. /\ allocate'[w].step = "claiming" /\ allocate'[w].room = a.room
          /\ allocate'[w].capacity = a.capacity /\ allocate'[w].attempt = a.attempt
          /\ allocate'[w].bed = Min(free)
      BY <1>0, <3>1 DEF Requests
    <3>3. /\ Min(free) \in 1..a.capacity /\ ~Taken(a.room, Min(free))
          /\ \A b \in 1..a.capacity : b < Min(free) => Taken(a.room, b)
      <4>1. free \in SUBSET Nat
        BY DEF FreeBeds
      <4>2. Min(free) \in free
        BY <2>3, <4>1, LowestBed
      <4> QED
        BY <2>1, <2>3, <4>2, FreeBedsAreBeds DEF FreeBeds
    <3> HIDE DEF free
    <3>4. settled[w] => a.attempt < Min(free)
      BY <1>0, <2>1, <3>3 DEF Knows
    <3>5. \A b \in 1..(Min(free) - 1) : Taken(a.room, b)
      BY <2>1, <3>3
    <3> QED
      BY <1>0, <2>1, <3>2, <3>4, <3>5 DEF Knows, Taken
  <2> QED
    BY <2>2, <2>3
<1>4. CASE FailToClaim(w)
  <2>1. /\ a.step = "claiming" /\ UNCHANGED <<room, resident, settled>>
        /\ Taken(a.room, a.bed) \/ Resides(a.student)
        /\ allocate'[w] = [a EXCEPT !.step = "failed"]
    BY <1>0, <1>4 DEF FailToClaim, IndexesAllow
  <2>2. /\ allocate'[w].step = "failed" /\ allocate'[w].room = a.room
        /\ allocate'[w].capacity = a.capacity /\ allocate'[w].attempt = a.attempt
        /\ allocate'[w].bed = a.bed /\ allocate'[w].student = a.student
    BY <1>0, <2>1 DEF Requests
  <2> QED
    BY <1>0, <2>1, <2>2 DEF Knows, Taken, Resides
<1>5. CASE ExplainFailure(w)
  <2>1. a.step = "failed" /\ UNCHANGED <<room, resident, settled>>
    BY <1>5 DEF ExplainFailure
  <2>2. CASE Resides(a.student) \/ a.attempt = None
    BY <1>0, <1>5, <2>2 DEF ExplainFailure, NoAllocate
  <2>3. CASE ~Resides(a.student) /\ a.attempt # None
    <3>1. /\ a.attempt \in Nat /\ a.bed \in Nat /\ a.capacity \in Nat
          /\ a.bed \in 1..a.capacity
      BY <1>0, <2>1, <2>3 DEF Requests, RequestWhole, Capacities
    <3>2. settled[w] => \A b \in 1..(a.attempt + 1) : Taken(a.room, b)
      <4>1. ASSUME settled[w]
            PROVE  /\ a.attempt < a.bed /\ Taken(a.room, a.bed)
                   /\ \A b \in 1..(a.bed - 1) : Taken(a.room, b)
        BY <1>0, <2>1, <2>3, <4>1 DEF Knows
      <4> QED
        BY <3>1, <4>1
    <3>3. CASE LastAttempt(w)
      <4>1. allocate'[w] = [a EXCEPT !.step = "full"] /\ a.attempt + 1 = a.capacity
        BY <1>0, <1>5, <2>3, <3>3 DEF ExplainFailure, LastAttempt
      <4>2. /\ allocate'[w].step = "full" /\ allocate'[w].room = a.room
            /\ allocate'[w].capacity = a.capacity
        BY <1>0, <4>1 DEF Requests
      <4> QED
        BY <1>0, <2>1, <3>2, <4>1, <4>2 DEF Knows, Taken
    <3>4. CASE ~LastAttempt(w)
      <4>1. allocate'[w] = [a EXCEPT !.step = "looking", !.attempt = a.attempt + 1]
        BY <1>0, <1>5, <2>3, <3>4 DEF ExplainFailure
      <4>2. /\ allocate'[w].step = "looking" /\ allocate'[w].room = a.room
            /\ allocate'[w].capacity = a.capacity /\ allocate'[w].attempt = a.attempt + 1
            /\ a.attempt + 1 # None
        BY <1>0, <3>1, <4>1 DEF Requests
      <4> QED
        BY <1>0, <2>1, <3>2, <4>2 DEF Knows, Taken
    <3> QED
      BY <3>3, <3>4
  <2> QED
    BY <2>2, <2>3
<1> QED
  BY <1>1, <1>2, <1>3, <1>4, <1>5 DEF WardenStep

LEMMA OthersStayInformed ==
  ASSUME HostelTypeOK, Informed, NEW v \in Wardens, WardenStep(v), NEW w \in Wardens, w # v,
         allocate[w].step # "idle", settled'[w]
  PROVE  Knows(w)'
<1>1. /\ allocate'[w] = allocate[w] /\ settled'[w] = settled[w]
      /\ room' = room /\ resident \subseteq resident'
  BY HostelTypeParts DEF WardenStep, StartAllocate, StartNamedBed, ReadFreeBeds, ClaimBed,
                         FailToClaim, ExplainFailure, EndAllocate, TablesTyped
<1>2. Knows(w) /\ allocate[w].capacity \in Nat
  BY <1>1, HostelTypeParts, MaxCapacityAssumption DEF Informed, RequestWhole, Capacities
<1>3. room'[allocate[w].room] \in 1..room[allocate[w].room]
  BY <1>1, <1>2 DEF Knows
<1> QED
  BY <1>1, <1>2, <1>3, KnowledgeLasts DEF Taken, Resides

LEMMA StepInforms ==
  HostelTypeOK /\ HostelTypeOK' /\ Informed /\ [HostelNext]_hostelVars => Informed'
<1> SUFFICES ASSUME HostelTypeOK, HostelTypeOK', Informed, [HostelNext]_hostelVars,
                    NEW w \in Wardens
             PROVE  /\ allocate'[w].step = "looking" => allocate'[w].attempt # None
                    /\ allocate'[w].step # "idle" /\ settled'[w] => Knows(w)'
  BY DEF Informed
<1>1. CASE TableStep
  BY <1>1, TableStepsInform, TableStepKeepsRequests DEF Informed
<1>2. ASSUME NEW v \in Wardens, WardenStep(v)
      PROVE  /\ allocate'[w].step = "looking" => allocate'[w].attempt # None
             /\ allocate'[w].step # "idle" /\ settled'[w] => Knows(w)'
  <2>1. CASE w = v
    BY <1>2, <2>1, WardenStepsInform
  <2>2. CASE w # v
    <3>1. allocate'[w] = allocate[w]
      BY <1>2, <2>2, HostelTypeParts
      DEF WardenStep, StartAllocate, StartNamedBed, ReadFreeBeds, ClaimBed,
          FailToClaim, ExplainFailure, EndAllocate
    <3> QED
      BY <1>2, <2>2, <3>1, OthersStayInformed DEF Informed
  <2> QED
    BY <2>1, <2>2
<1>3. CASE UNCHANGED hostelVars
  BY <1>3 DEF hostelVars, Informed, Knows, Taken, Resides
<1> QED
  BY <1>1, <1>2, <1>3, HostelStepCases

(* A warden who is told that the room is full was not unlucky in a race:   *)
(* with nobody moving out meanwhile, every bed of the room is taken.       *)
THEOREM FullIsTrue == HostelSpec => []FullMeansFull
<1>1. HostelInit => Informed
  BY DEF HostelInit, Informed, NoAllocate
<1>2. HostelTypeOK /\ Informed => FullMeansFull
  <2> SUFFICES ASSUME HostelTypeOK, Informed, NEW w \in Wardens,
                      allocate[w].step = "full", settled[w],
                      NEW b \in 1..room[allocate[w].room]
               PROVE  Taken(allocate[w].room, b)
    BY DEF FullMeansFull
  <2>1. Knows(w) /\ allocate[w].capacity \in Nat
    BY HostelTypeParts, MaxCapacityAssumption DEF Informed, RequestWhole, Capacities
  <2>2. b \in 1..allocate[w].capacity
    BY <2>1 DEF Knows
  <2> QED
    BY <2>1, <2>2 DEF Knows
<1> QED
  BY <1>1, <1>2, StepInforms, HostelTypeCorrect, PTL DEF HostelSpec

------------------------------------------------------------------------------
(* Meetings. *)
LEMMA MeetingStep == MeetingTypeOK /\ [MeetingNext]_meetingVars => MeetingTypeOK'
<1> SUFFICES ASSUME MeetingTypeOK, [MeetingNext]_meetingVars PROVE MeetingTypeOK'
  OBVIOUS
<1> USE DEF MeetingTypeOK, Offered
<1>1. ASSUME NEW batch \in SUBSET Slots, Publish(batch)
      PROVE  MeetingTypeOK'
  BY <1>1 DEF Publish, NoSlot
<1>2. ASSUME NEW s \in Slots, SlotPasses(s) \/ CheckWithdrawal(s)
      PROVE  MeetingTypeOK'
  BY <1>2 DEF SlotPasses, CheckWithdrawal
<1>3. ASSUME NEW p \in Parents, NEW s \in Slots, Book(p, s) \/ CancelBooking(p, s)
      PROVE  MeetingTypeOK'
  BY <1>3 DEF Book, Bookable, CancelBooking
<1>4. ASSUME NEW s \in Slots, Withdraw(s)
      PROVE  MeetingTypeOK'
  BY <1>4 DEF Withdraw, NoSlot
<1>5. CASE UNCHANGED meetingVars
  BY <1>5 DEF meetingVars
<1> QED
  BY <1>1, <1>2, <1>3, <1>4, <1>5 DEF MeetingNext

(* Only a slot that is there is booked, also after a withdrawal that came  *)
(* too late.                                                               *)
THEOREM MeetingTypeCorrect == MeetingSpec => []MeetingTypeOK
<1>1. MeetingInit => MeetingTypeOK
  BY DEF MeetingInit, MeetingTypeOK, NoSlot
<1> QED
  BY <1>1, MeetingStep, PTL DEF MeetingSpec

(* No parent's booking is overwritten by another's. *)
THEOREM BookingsAreKept == MeetingSpec => NoBookingOverwritten
<1>1. MeetingTypeOK /\ [MeetingNext]_meetingVars =>
        \A s \in Slots : slot[s].parent # NoParent => slot'[s].parent \in {slot[s].parent, NoParent}
  <2> SUFFICES ASSUME MeetingTypeOK, [MeetingNext]_meetingVars, NEW s \in Slots,
                      slot[s].parent # NoParent
               PROVE  slot'[s].parent \in {slot[s].parent, NoParent}
    OBVIOUS
  <2> USE DEF MeetingTypeOK, Offered
  <2>1. ASSUME NEW batch \in SUBSET Slots, Publish(batch)
        PROVE  slot'[s].parent = slot[s].parent
    BY <2>1 DEF Publish
  <2>2. ASSUME NEW p \in Parents, NEW t \in Slots, Book(p, t)
        PROVE  slot'[s].parent = slot[s].parent
    BY <2>2 DEF Book, Bookable
  <2>3. ASSUME NEW p \in Parents, NEW t \in Slots, CancelBooking(p, t) \/ Withdraw(t)
        PROVE  slot'[s].parent \in {slot[s].parent, NoParent}
    BY <2>3 DEF CancelBooking, Withdraw, NoSlot
  <2>4. ASSUME UNCHANGED slot
        PROVE  slot'[s].parent = slot[s].parent
    BY <2>4
  <2> QED
    BY <2>1, <2>2, <2>3, <2>4 DEF MeetingNext, meetingVars, SlotPasses, CheckWithdrawal
<1> QED
  BY <1>1, MeetingTypeCorrect, PTL DEF MeetingSpec, NoBookingOverwritten

(***************************************************************************)
(* Registers and the queue on the phone.                                   *)
(***************************************************************************)
Requested ==
  [status : {"PENDING", "APPROVED", "REJECTED", "CANCELLED"},
   student : Pupils, first : Days, last : Days]
Reading ==
  [step : {"read"}, day : Days, entries : Entries, excused : SUBSET Pupils]

(* A request that has a status other than NONE is a row of the table, and  *)
(* one whose register is being taken is a request about a day.             *)
LEMMA Rows ==
  ASSUME RegisterTypeOK
  PROVE  /\ \A x \in Absences : absence[x].status # "NONE" => absence[x] \in Requested
         /\ \A m \in Marks : mark[m].step = "read" => mark[m] \in Reading
BY DEF RegisterTypeOK, Requested, Reading, NoAbsence, NoMark

(* A register has one row for each pupil, whatever the class on it. *)
LEMMA FiledTyped ==
  ASSUME NEW row \in [Pupils -> Statuses \cup {"NONE"}], NEW entries \in Entries
  PROVE  Filed(row, entries) \in [Pupils -> Statuses \cup {"NONE"}]
BY DEF Filed, Entries

LEMMA ExcusedTyped ==
  ASSUME NEW r \in Reading
  PROVE  Excused(r) \in Entries
<1>1. PICK S \in SUBSET Pupils : r.entries \in [S -> Statuses]
  BY DEF Reading, Entries
<1>2. Excused(r) \in [S -> Statuses]
  BY <1>1 DEF Excused, Statuses
<1> QED
  BY <1>2 DEF Entries

LEMMA RegisterStep == RegisterTypeOK /\ [RegisterNext]_registerVars => RegisterTypeOK'
<1> SUFFICES ASSUME RegisterTypeOK, [RegisterNext]_registerVars
             PROVE  RegisterTypeOK'
  OBVIOUS
<1>1. ASSUME NEW span \in Spans, CheckClash(span)
      PROVE  RegisterTypeOK'
  BY <1>1 DEF CheckClash, RegisterTypeOK
<1>2. ASSUME NEW x \in Absences, NEW span \in toRequest, RequestAbsence(x, span)
      PROVE  RegisterTypeOK'
  <2>1. span \in [student : Pupils, first : Days, last : Days]
    BY <1>2 DEF RegisterTypeOK, Spans
  <2>2. absence' \in [Absences -> {NoAbsence} \cup Requested]
    BY <1>2, <2>1 DEF RequestAbsence, RegisterTypeOK, Requested
  <2> QED
    BY <1>2, <2>2 DEF RequestAbsence, RegisterTypeOK, Requested
<1>3. ASSUME NEW x \in Absences, NEW decision \in {"APPROVED", "REJECTED"},
             ReviewAbsence(x, decision)
      PROVE  RegisterTypeOK'
  <2>1. absence[x] \in Requested
    BY <1>3, Rows DEF ReviewAbsence, Undecided
  <2>2. absence' \in [Absences -> {NoAbsence} \cup Requested]
    BY <1>3, <2>1 DEF ReviewAbsence, RegisterTypeOK, Requested
  <2>3. record' \in [Days -> [Pupils -> Statuses \cup {"NONE"}]]
    BY <1>3 DEF ReviewAbsence, RegisterTypeOK, Statuses
  <2> QED
    BY <1>3, <2>2, <2>3 DEF ReviewAbsence, RegisterTypeOK, Requested
<1>4. ASSUME NEW x \in Absences, CancelAbsence(x)
      PROVE  RegisterTypeOK'
  <2>1. absence[x] \in Requested
    BY <1>4, Rows DEF CancelAbsence, Undecided
  <2>2. absence' \in [Absences -> {NoAbsence} \cup Requested]
    BY <1>4, <2>1 DEF CancelAbsence, RegisterTypeOK, Requested
  <2> QED
    BY <1>4, <2>2 DEF CancelAbsence, RegisterTypeOK, Requested
<1>5. ASSUME NEW m \in Marks, NEW d \in Days, NEW entries \in Entries,
             ReadExcused(m, d, entries)
      PROVE  RegisterTypeOK'
  <2> DEFINE r == [step |-> "read", day |-> d, entries |-> entries,
                   excused |-> ExcusedOn(d, entries)]
  <2>1. DOMAIN entries \subseteq Pupils
    BY DEF Entries
  <2>2. r \in Reading
    BY <2>1 DEF Reading, ExcusedOn
  <2>3. mark' \in [Marks -> {NoMark} \cup Reading]
    BY <1>5, <2>2 DEF ReadExcused, RegisterTypeOK, Reading
  <2>4. \A k \in Marks : \A s \in mark'[k].excused :
           s \in DOMAIN mark'[k].entries /\ mark'[k].entries[s] = "ABSENT"
    BY <1>5 DEF ReadExcused, RegisterTypeOK, ExcusedOn
  <2> QED
    BY <1>5, <2>3, <2>4 DEF ReadExcused, RegisterTypeOK, Reading
<1>6. ASSUME NEW m \in Marks, TakeRegister(m)
      PROVE  RegisterTypeOK'
  <2>1. mark[m] \in Reading
    BY <1>6, Rows DEF TakeRegister
  <2>2. mark[m].day \in Days /\ mark[m].entries \in Entries
    BY <2>1 DEF Reading
  <2>3. Excused(mark[m]) \in Entries
    BY <2>1, ExcusedTyped
  <2>4. record' \in [Days -> [Pupils -> Statuses \cup {"NONE"}]]
    BY <1>6, <2>2, <2>3, FiledTyped DEF TakeRegister, RegisterTypeOK
  <2>5. said' \in [Days -> [Pupils -> Statuses \cup {"NONE"}]]
    BY <1>6, <2>2, FiledTyped DEF TakeRegister, RegisterTypeOK
  <2> QED
    BY <1>6, <2>4, <2>5 DEF TakeRegister, RegisterTypeOK, NoMark
<1>7. ASSUME NEW m \in Marks, DropMark(m)
      PROVE  RegisterTypeOK'
  BY <1>7 DEF DropMark, RegisterTypeOK, NoMark
<1>8. CASE UNCHANGED registerVars
  BY <1>8 DEF registerVars, RegisterTypeOK
<1> QED
  BY <1>1, <1>2, <1>3, <1>4, <1>5, <1>6, <1>7, <1>8 DEF RegisterNext

(* RegisterTypeOK is an invariant: only a child marked absent is about to  *)
(* be excused.                                                             *)
THEOREM RegisterTypeCorrect == RegisterSpec => []RegisterTypeOK
<1>1. RegisterInit => RegisterTypeOK
  BY DEF RegisterInit, RegisterTypeOK, NoMark, NoAbsence
<1> QED
  BY <1>1, RegisterStep, PTL DEF RegisterSpec

(* What a register in flight was told is still so: an approval stands.     *)
ExcusesStand ==
  \A m \in Marks : \A s \in mark[m].excused : Approved(s, mark[m].day)

HonestInv == RegisterTypeOK /\ RegisterIsHonest /\ ExcusesStand

(* No step takes an approval back. *)
LEMMA ApprovalsLast ==
  ASSUME RegisterTypeOK, RegisterNext, NEW s, NEW d, Approved(s, d)
  PROVE  Approved(s, d)'
<1>1. PICK x \in Absences : absence[x].status = "APPROVED" /\ Covers(absence[x], s, d)
  BY DEF Approved
<1>2. absence'[x] = absence[x]
  BY <1>1 DEF RegisterNext, CheckClash, RequestAbsence, ReviewAbsence, CancelAbsence,
     ReadExcused, TakeRegister, DropMark, Undecided, RegisterTypeOK
<1> QED
  BY <1>1, <1>2 DEF Approved, Covers

LEMMA HonestStep == HonestInv /\ [RegisterNext]_registerVars => HonestInv'
<1> SUFFICES ASSUME HonestInv, [RegisterNext]_registerVars
             PROVE  HonestInv'
  OBVIOUS
<1>t. RegisterTypeOK /\ RegisterTypeOK'
  BY RegisterStep DEF HonestInv
<1>u. CASE UNCHANGED registerVars
  BY <1>u, <1>t DEF HonestInv, registerVars, RegisterIsHonest, ExcusesStand, Approved, Covers
<1>n. CASE RegisterNext
  <2>s. \A s, d : Approved(s, d) => Approved(s, d)'
    BY <1>t, <1>n, ApprovalsLast
  <2>1. ASSUME NEW m \in Marks, NEW s \in mark'[m].excused
        PROVE  Approved(s, mark[m].day)'
    <3>1. CASE mark'[m] = mark[m]
      <4>1. Approved(s, mark[m].day)
        BY <2>1, <3>1 DEF HonestInv, ExcusesStand
      <4>2. \A d : Approved(s, d) => Approved(s, d)'
        BY <2>s
      <4>3. PICK d : d = mark[m].day
        OBVIOUS
      <4> QED
        BY <3>1, <4>1, <4>2, <4>3 DEF Approved
    <3>2. ASSUME NEW d \in Days, NEW entries \in Entries, ReadExcused(m, d, entries)
          PROVE  Approved(s, mark[m].day)'
      BY <3>2, <2>s, <1>t DEF ReadExcused, RegisterTypeOK, ExcusedOn
    <3>3. CASE mark'[m] = NoMark
      BY <3>3 DEF NoMark
    <3>4. \/ mark'[m] = mark[m]
          \/ mark'[m] = NoMark
          \/ \E d \in Days, entries \in Entries : ReadExcused(m, d, entries)
      BY <1>n, <1>t DEF RegisterNext, CheckClash, RequestAbsence, ReviewAbsence,
         CancelAbsence, ReadExcused, TakeRegister, DropMark, RegisterTypeOK
    <3> QED
      BY <3>1, <3>2, <3>3, <3>4
  <2>2. ASSUME NEW d \in Days, NEW s \in Pupils
        PROVE  \/ record'[d][s] = said'[d][s]
               \/ record'[d][s] = "EXCUSED" /\ said'[d][s] = "ABSENT" /\ Approved(s, d)'
    <3>1. CASE UNCHANGED <<record, said>>
      BY <3>1, <2>s DEF HonestInv, RegisterIsHonest
    <3>2. ASSUME NEW x \in Absences, NEW decision \in {"APPROVED", "REJECTED"},
                 ReviewAbsence(x, decision)
          PROVE  \/ record'[d][s] = said'[d][s]
                 \/ record'[d][s] = "EXCUSED" /\ said'[d][s] = "ABSENT" /\ Approved(s, d)'
      <4>1. said' = said
        BY <3>2 DEF ReviewAbsence
      <4>2. CASE record'[d][s] = record[d][s]
        BY <4>1, <4>2, <2>s DEF HonestInv, RegisterIsHonest
      <4>3. CASE record'[d][s] # record[d][s]
        <5>1. /\ decision = "APPROVED"
              /\ Covers(absence[x], s, d)
              /\ record[d][s] = "ABSENT"
              /\ record'[d][s] = "EXCUSED"
          BY <3>2, <4>3, <1>t DEF ReviewAbsence, Excusable, RegisterTypeOK
        <5>2. absence'[x].status = "APPROVED" /\ Covers(absence'[x], s, d)
          <6>1. absence[x] \in Requested
            BY <3>2, <1>t, Rows DEF ReviewAbsence, Undecided
          <6> QED
            BY <3>2, <5>1, <6>1, <1>t DEF ReviewAbsence, RegisterTypeOK, Covers, Requested
        <5>3. said[d][s] = "ABSENT"
          BY <5>1 DEF HonestInv, RegisterIsHonest
        <5> QED
          BY <4>1, <5>1, <5>2, <5>3 DEF Approved
      <4> QED
        BY <4>2, <4>3
    <3>3. ASSUME NEW m \in Marks, TakeRegister(m)
          PROVE  \/ record'[d][s] = said'[d][s]
                 \/ record'[d][s] = "EXCUSED" /\ said'[d][s] = "ABSENT" /\ Approved(s, d)'
      <4> DEFINE r == mark[m]
      <4>1. r \in Reading
        BY <3>3, <1>t, Rows DEF TakeRegister
      <4>2. DOMAIN Excused(r) = DOMAIN r.entries
        BY DEF Excused
      <4>3. CASE d # r.day \/ s \notin DOMAIN r.entries
        <5>1. record'[d][s] = record[d][s] /\ said'[d][s] = said[d][s]
          BY <3>3, <4>2, <4>3, <1>t DEF TakeRegister, RegisterTypeOK, Filed
        <5> QED
          BY <5>1, <2>s DEF HonestInv, RegisterIsHonest
      <4>4. CASE d = r.day /\ s \in DOMAIN r.entries
        <5>1. record'[d][s] = Excused(r)[s] /\ said'[d][s] = r.entries[s]
          BY <3>3, <4>2, <4>4, <1>t DEF TakeRegister, RegisterTypeOK, Filed
        <5>2. CASE s \in r.excused
          <6>1. r.entries[s] = "ABSENT"
            BY <5>2, <1>t DEF RegisterTypeOK
          <6>2. Excused(r)[s] = "EXCUSED"
            BY <4>4, <5>2 DEF Excused
          <6>3. Approved(s, d)'
            BY <4>4, <5>2, <2>s DEF HonestInv, ExcusesStand
          <6> QED
            BY <5>1, <6>1, <6>2, <6>3
        <5>3. CASE s \notin r.excused
          BY <4>4, <5>1, <5>3 DEF Excused
        <5> QED
          BY <5>2, <5>3
      <4> QED
        BY <4>3, <4>4
    <3> QED
      BY <1>n, <3>1, <3>2, <3>3 DEF RegisterNext, CheckClash, RequestAbsence,
         CancelAbsence, ReadExcused, DropMark
  <2> QED
    BY <1>t, <2>1, <2>2 DEF HonestInv, ExcusesStand, RegisterIsHonest
<1> QED
  BY <1>u, <1>n

(* The office changes one thing in a register, an ABSENT that an approved  *)
(* absence covers, whoever races for the absence and however old the read  *)
(* a register was taken against.                                           *)
THEOREM RegistersAreHonest == RegisterSpec => []RegisterIsHonest
<1>1. RegisterInit => HonestInv
  BY DEF RegisterInit, HonestInv, RegisterTypeOK, RegisterIsHonest, ExcusesStand,
     NoMark, NoAbsence
<1>2. HonestInv => RegisterIsHonest
  BY DEF HonestInv
<1> QED
  BY <1>1, <1>2, HonestStep, PTL DEF RegisterSpec
------------------------------------------------------------------------------
(* What a submission, and a drain, may hold: registers the teacher took.   *)
SubmitWhole(x, registers) ==
  /\ x \in [step : {"idle", "sent", "failed", "parking"},
            register : Registers \cup {NoRegister}, seen : SUBSET Registers]
  /\ x.step # "idle" => x.register \in registers
  /\ x.seen \subseteq registers /\ OnePerSheet(x.seen)
DrainWhole(x, registers) ==
  /\ x \in [step : {"idle", "sending"}, seen : SUBSET Registers,
            left : SUBSET Registers, kept : SUBSET Registers]
  /\ x.seen \subseteq registers /\ OnePerSheet(x.seen)
  /\ x.left \cup x.kept \subseteq x.seen
SubmitsWhole ==
  /\ submit = [u \in Screens |-> submit[u]]
  /\ \A u \in Screens : SubmitWhole(submit[u], taken)
DrainsWhole ==
  /\ drain = [f \in Drains |-> drain[f]]
  /\ \A f \in Drains : DrainWhole(drain[f], taken)
QueueWhole ==
  /\ queue \subseteq taken /\ OnePerSheet(queue)
  /\ taken \subseteq Registers
SchoolWhole ==
  /\ arrived \subseteq taken
  /\ refused \subseteq taken
  /\ filed \in [Sheets -> arrived \cup {NoRegister}]
  /\ \A k \in Sheets : filed[k] # NoRegister => SheetOf[filed[k]] = k
ParkedWhole ==
  /\ parked \in [Sheets -> taken \cup {NoRegister}]
  /\ \A k \in Sheets : parked[k] # NoRegister => SheetOf[parked[k]] = k
  /\ crossed \in BOOLEAN

LEMMA QueueTypeParts ==
  QueueTypeOK <=> SubmitsWhole /\ DrainsWhole /\ QueueWhole /\ SchoolWhole /\ ParkedWhole
<1>1. QueueTypeOK => SubmitsWhole /\ DrainsWhole
  BY DEF QueueTypeOK, SubmitsWhole, DrainsWhole, SubmitWhole, DrainWhole
<1>2. QueueTypeOK => QueueWhole /\ SchoolWhole /\ ParkedWhole
  BY DEF QueueTypeOK, QueueWhole, SchoolWhole, ParkedWhole
<1>3. SubmitsWhole => submit \in [Screens -> [step : {"idle", "sent", "failed", "parking"},
                            register : Registers \cup {NoRegister}, seen : SUBSET Registers]]
  BY DEF SubmitsWhole, SubmitWhole
<1>4. DrainsWhole => drain \in [Drains -> [step : {"idle", "sending"}, seen : SUBSET Registers,
                             left : SUBSET Registers, kept : SUBSET Registers]]
  BY DEF DrainsWhole, DrainWhole
<1>5. SubmitsWhole /\ DrainsWhole /\ QueueWhole /\ SchoolWhole /\ ParkedWhole => QueueTypeOK
  BY <1>3, <1>4 DEF QueueTypeOK, SubmitsWhole, DrainsWhole, SubmitWhole, DrainWhole,
     QueueWhole, SchoolWhole, ParkedWhole
<1> QED
  BY <1>1, <1>2, <1>5

LEMMA QueueTypeNext ==
  SubmitsWhole' /\ DrainsWhole' /\ QueueWhole' /\ SchoolWhole' /\ ParkedWhole'
    => QueueTypeOK'
BY QueueTypeParts, PTL

(* A register that arrives is one that was taken, so the file stays whole. *)
LEMMA ArrivalsAreFiled ==
  ASSUME SchoolWhole, NEW r \in Registers, r \in taken, Arrives(r),
         UNCHANGED <<taken, refused>>
  PROVE  SchoolWhole'
<1>1. SheetOf[r] \in Sheets
  BY SheetOfAssumption
<1> QED
  BY <1>1 DEF SchoolWhole, Arrives

(* Parking keeps one register of a sheet. *)
LEMMA ReplacedBySheet ==
  ASSUME NEW q \in SUBSET Registers, OnePerSheet(q), NEW r \in Registers
  PROVE  OnePerSheet(WithoutSameRegister(q, r) \cup {r})
BY DEF OnePerSheet, WithoutSameRegister

LEMMA NothingHeld ==
  ASSUME NEW registers
  PROVE  SubmitWhole(NotSubmitting, registers) /\ DrainWhole(NotDraining, registers)
BY DEF SubmitWhole, DrainWhole, NotSubmitting, NotDraining, OnePerSheet

(* A step changes one submission, or one drain, or none. *)
LEMMA OneSubmissionChanges ==
  ASSUME SubmitsWhole, taken \subseteq taken', NEW u \in Screens, NEW x,
         SubmitWhole(x, taken'), submit' = [submit EXCEPT ![u] = x]
  PROVE  SubmitsWhole'
<1>1. submit' = [v \in Screens |-> IF v = u THEN x ELSE submit[v]]
  BY DEF SubmitsWhole
<1>2. \A v \in Screens : SubmitWhole(submit'[v], taken')
  BY <1>1 DEF SubmitsWhole, SubmitWhole
<1> QED
  BY <1>1, <1>2 DEF SubmitsWhole

LEMMA OneDrainChanges ==
  ASSUME DrainsWhole, taken \subseteq taken', NEW f \in Drains, NEW x,
         DrainWhole(x, taken'), drain' = [drain EXCEPT ![f] = x]
  PROVE  DrainsWhole'
<1>1. drain' = [g \in Drains |-> IF g = f THEN x ELSE drain[g]]
  BY DEF DrainsWhole
<1>2. \A g \in Drains : DrainWhole(drain'[g], taken')
  BY <1>1 DEF DrainsWhole, DrainWhole
<1> QED
  BY <1>1, <1>2 DEF DrainsWhole

LEMMA OthersKept ==
  /\ SubmitsWhole /\ submit' = submit /\ taken \subseteq taken' => SubmitsWhole'
  /\ DrainsWhole /\ drain' = drain /\ taken \subseteq taken' => DrainsWhole'
  /\ QueueWhole /\ UNCHANGED <<queue, taken>> => QueueWhole'
  /\ SchoolWhole /\ UNCHANGED <<arrived, filed, refused, taken>> => SchoolWhole'
  /\ ParkedWhole /\ UNCHANGED <<parked, crossed, taken>> => ParkedWhole'
<1>1. SubmitsWhole /\ submit' = submit /\ taken \subseteq taken' => SubmitsWhole'
  BY DEF SubmitsWhole, SubmitWhole
<1>2. DrainsWhole /\ drain' = drain /\ taken \subseteq taken' => DrainsWhole'
  BY DEF DrainsWhole, DrainWhole
<1>3. QueueWhole /\ UNCHANGED <<queue, taken>> => QueueWhole'
  BY DEF QueueWhole, OnePerSheet
<1>4. SchoolWhole /\ UNCHANGED <<arrived, filed, refused, taken>> => SchoolWhole'
  BY DEF SchoolWhole
<1>5. ParkedWhole /\ UNCHANGED <<parked, crossed, taken>> => ParkedWhole'
  BY DEF ParkedWhole
<1> QED
  BY <1>1, <1>2, <1>3, <1>4, <1>5

LEMMA SubmissionTyped ==
  ASSUME QueueTypeOK, NEW u \in Screens, NEW r \in Registers,
         Submit(u, r) \/ Answered(u) \/ Unanswered(u) \/ ReadToPark(u) \/ Park(u)
  PROVE  QueueTypeOK'
<1>t. SubmitsWhole /\ DrainsWhole /\ QueueWhole /\ SchoolWhole /\ ParkedWhole
  BY QueueTypeParts
<1>w. SubmitWhole(submit[u], taken) /\ SubmitWhole(NotSubmitting, taken)
  BY <1>t, NothingHeld DEF SubmitsWhole
<1>k. taken \subseteq Registers
  BY <1>t DEF QueueWhole
<1>1. CASE Submit(u, r)
  <2> DEFINE x == [step |-> "sent", register |-> r, seen |-> {}]
  <2>1. taken \subseteq taken' /\ taken' = taken \cup {r}
    BY <1>1 DEF Submit
  <2>2. SubmitWhole(x, taken')
    BY <2>1 DEF SubmitWhole, OnePerSheet
  <2>3. submit' = [submit EXCEPT ![u] = x]
    BY <1>1 DEF Submit
  <2>4. SubmitsWhole'
    BY <1>t, <2>1, <2>2, <2>3, OneSubmissionChanges
  <2>5. DrainsWhole'
    BY <1>1, <1>t, <2>1, OthersKept DEF Submit
  <2>6. QueueWhole'
    BY <1>1, <1>t, <2>1 DEF Submit, QueueWhole, OnePerSheet
  <2>7. SchoolWhole' /\ ParkedWhole'
    BY <1>1, <1>t, <2>1 DEF Submit, schoolVars, SchoolWhole, ParkedWhole
  <2> QED
    BY <2>4, <2>5, <2>6, <2>7, QueueTypeNext
<1>2. CASE Answered(u)
  <2>1. SchoolWhole'
    BY <1>2, <1>t, <1>w, <1>k, ArrivalsAreFiled DEF Answered, SubmitWhole
  <2>2. SubmitsWhole'
    BY <1>2, <1>t, <1>w, OneSubmissionChanges DEF Answered
  <2>3. DrainsWhole' /\ QueueWhole' /\ ParkedWhole'
    BY <1>2, <1>t, OthersKept DEF Answered
  <2> QED
    BY <2>1, <2>2, <2>3, QueueTypeNext
<1>3. CASE Unanswered(u)
  <2> DEFINE x == [submit[u] EXCEPT !.step = "failed"]
  <2>1. SchoolWhole'
    <3>1. submit[u].register \in taken /\ submit[u].register \in Registers
      BY <1>3, <1>w, <1>k DEF Unanswered, SubmitWhole
    <3>2. CASE Arrives(submit[u].register)
      BY <1>3, <1>t, <3>1, <3>2, ArrivalsAreFiled DEF Unanswered
    <3>3. CASE UNCHANGED schoolVars
      BY <1>3, <1>t, <3>3, OthersKept DEF Unanswered, schoolVars
    <3> QED
      BY <1>3, <3>2, <3>3 DEF Unanswered
  <2>2. SubmitWhole(x, taken)
    BY <1>3, <1>w DEF Unanswered, SubmitWhole
  <2>3. submit' = [submit EXCEPT ![u] = x] /\ taken' = taken
    BY <1>3 DEF Unanswered
  <2>4. SubmitsWhole'
    BY <1>t, <2>2, <2>3, OneSubmissionChanges
  <2>5. DrainsWhole' /\ QueueWhole' /\ ParkedWhole'
    BY <1>3, <1>t, OthersKept DEF Unanswered
  <2> QED
    BY <2>1, <2>4, <2>5, QueueTypeNext
<1>4. CASE ReadToPark(u)
  <2>s. PICK seen \in ReadQueue :
          submit' = [submit EXCEPT ![u].step = "parking", ![u].seen = seen]
    BY <1>4 DEF ReadToPark
  <2> DEFINE x == [submit[u] EXCEPT !.step = "parking", !.seen = seen]
  <2>q. seen = queue \/ seen = {}
    BY DEF ReadQueue
  <2>1. SubmitWhole(x, taken)
    BY <1>4, <1>t, <1>w, <2>q DEF ReadToPark, SubmitWhole, QueueWhole, OnePerSheet
  <2>2. submit' = [submit EXCEPT ![u] = x] /\ taken' = taken
    BY <1>4, <2>s DEF ReadToPark
  <2>3. SubmitsWhole'
    BY <1>t, <2>1, <2>2, OneSubmissionChanges
  <2>4. DrainsWhole' /\ QueueWhole' /\ SchoolWhole' /\ ParkedWhole'
    BY <1>4, <1>t, OthersKept DEF ReadToPark, schoolVars
  <2> QED
    BY <2>3, <2>4, QueueTypeNext
<1>5. CASE Park(u)
  <2>1. submit[u].register \in taken /\ submit[u].register \in Registers
    BY <1>5, <1>w, <1>k DEF Park, SubmitWhole
  <2>2. SheetOf[submit[u].register] \in Sheets
    BY <2>1, SheetOfAssumption
  <2>3. QueueWhole'
    <3>1. submit[u].seen \subseteq taken /\ OnePerSheet(submit[u].seen)
      BY <1>w DEF SubmitWhole
    <3>2. queue' = WithoutSameRegister(submit[u].seen, submit[u].register)
                      \cup {submit[u].register}
      BY <1>5 DEF Park
    <3>3. OnePerSheet(queue')
      BY <1>k, <2>1, <3>1, <3>2, ReplacedBySheet
    <3>4. queue' \subseteq taken
      BY <2>1, <3>1, <3>2 DEF WithoutSameRegister
    <3> QED
      BY <1>5, <1>k, <3>3, <3>4 DEF Park, QueueWhole, OnePerSheet
  <2>4. ParkedWhole'
    BY <1>5, <1>t, <2>1, <2>2 DEF Park, ParkedWhole
  <2>5. SubmitsWhole'
    BY <1>5, <1>t, <1>w, OneSubmissionChanges DEF Park
  <2>6. DrainsWhole' /\ SchoolWhole'
    BY <1>5, <1>t, OthersKept DEF Park, schoolVars
  <2> QED
    BY <2>3, <2>4, <2>5, <2>6, QueueTypeNext
<1> QED
  BY <1>1, <1>2, <1>3, <1>4, <1>5

LEMMA DrainTyped ==
  ASSUME QueueTypeOK, NEW f \in Drains, NEW r,
         \/ StartDrain(f) \/ EndDrain(f)
         \/ Synced(f, r) \/ Discarded(f, r) \/ StillQueued(f, r)
  PROVE  QueueTypeOK'
<1>t. SubmitsWhole /\ DrainsWhole /\ QueueWhole /\ SchoolWhole /\ ParkedWhole
  BY QueueTypeParts
<1>w. DrainWhole(drain[f], taken) /\ DrainWhole(NotDraining, taken)
  BY <1>t, NothingHeld DEF DrainsWhole
<1>u. submit' = submit /\ taken' = taken /\ parked' = parked
  BY DEF StartDrain, Synced, Discarded, StillQueued, EndDrain
<1>s. SubmitsWhole'
  BY <1>t, <1>u, OthersKept
<1>p. ParkedWhole'
  BY <1>t, <1>u DEF StartDrain, Synced, Discarded, StillQueued, EndDrain, ParkedWhole
<1>1. CASE StartDrain(f)
  <2> DEFINE x == [step |-> "sending", seen |-> queue, left |-> queue, kept |-> {}]
  <2>1. DrainWhole(x, taken)
    BY <1>t DEF DrainWhole, QueueWhole
  <2>2. drain' = [drain EXCEPT ![f] = x]
    BY <1>1 DEF StartDrain
  <2>3. DrainsWhole'
    BY <1>t, <1>u, <2>1, <2>2, OneDrainChanges
  <2>4. QueueWhole' /\ SchoolWhole'
    BY <1>1, <1>t, OthersKept DEF StartDrain, schoolVars
  <2> QED
    BY <1>s, <1>p, <2>3, <2>4, QueueTypeNext
<1>2. CASE Synced(f, r) \/ Discarded(f, r) \/ StillQueued(f, r)
  <2>1. r \in drain[f].left /\ r \in taken /\ r \in Registers
    BY <1>2, <1>w DEF Synced, Discarded, StillQueued, DrainWhole
  <2>2. SchoolWhole'
    <3>1. CASE refused' = refused /\ Arrives(r)
      BY <1>t, <1>u, <2>1, <3>1, ArrivalsAreFiled
    <3>2. CASE refused' \in {refused, refused \cup {r}} /\ UNCHANGED schoolVars
      BY <1>t, <1>u, <2>1, <3>2 DEF SchoolWhole, schoolVars
    <3> QED
      BY <1>2, <3>1, <3>2 DEF Synced, Discarded, StillQueued
  <2>3. PICK kept \in {drain[f].kept, drain[f].kept \cup {r}} :
           drain' = [drain EXCEPT ![f] = [drain[f] EXCEPT !.left = @ \ {r}, !.kept = kept]]
    <3>1. CASE Synced(f, r) \/ Discarded(f, r)
      <4>1. drain' = [drain EXCEPT ![f] = [drain[f] EXCEPT !.left = @ \ {r}]]
        BY <3>1 DEF Synced, Discarded
      <4>2. [drain[f] EXCEPT !.left = @ \ {r}] =
               [drain[f] EXCEPT !.left = @ \ {r}, !.kept = drain[f].kept]
        BY <1>w DEF DrainWhole
      <4> QED
        BY <4>1, <4>2
    <3>2. CASE StillQueued(f, r)
      BY <3>2 DEF StillQueued
    <3> QED
      BY <1>2, <3>1, <3>2
  <2>4. DrainWhole([drain[f] EXCEPT !.left = @ \ {r}, !.kept = kept], taken)
    BY <1>w, <2>1 DEF DrainWhole
  <2>5. DrainsWhole'
    BY <1>t, <1>u, <2>3, <2>4, OneDrainChanges
  <2>6. QueueWhole'
    BY <1>2, <1>t, OthersKept DEF Synced, Discarded, StillQueued
  <2> QED
    BY <1>s, <1>p, <2>2, <2>5, <2>6, QueueTypeNext
<1>3. CASE EndDrain(f)
  <2>1. QueueWhole'
    BY <1>3, <1>t, <1>w DEF EndDrain, DrainWhole, QueueWhole, OnePerSheet
  <2>2. DrainsWhole'
    BY <1>3, <1>t, <1>u, <1>w, OneDrainChanges DEF EndDrain
  <2>3. SchoolWhole'
    BY <1>3, <1>t, OthersKept DEF EndDrain, schoolVars
  <2> QED
    BY <1>s, <1>p, <2>1, <2>2, <2>3, QueueTypeNext
<1> QED
  BY <1>1, <1>2, <1>3

LEMMA QuitTyped == QueueTypeOK /\ Quit => QueueTypeOK'
<1> SUFFICES ASSUME QueueTypeOK, Quit PROVE QueueTypeOK'
  OBVIOUS
<1>t. SubmitsWhole /\ DrainsWhole /\ QueueWhole /\ SchoolWhole /\ ParkedWhole
  BY QueueTypeParts
<1>1. SubmitsWhole'
  BY NothingHeld DEF Quit, SubmitsWhole
<1>2. DrainsWhole'
  BY NothingHeld DEF Quit, DrainsWhole
<1>3. QueueWhole' /\ SchoolWhole' /\ ParkedWhole'
  BY <1>t, OthersKept DEF Quit, schoolVars
<1> QED
  BY <1>1, <1>2, <1>3, QueueTypeNext

(* The steps of QueueNext, with the register a drain sends in reach. *)
LEMMA QueueStepCases ==
  ASSUME QueueTypeOK, QueueNext
  PROVE  \/ \E u \in Screens, r \in Registers :
               Submit(u, r) \/ Answered(u) \/ Unanswered(u) \/ ReadToPark(u) \/ Park(u)
         \/ \E f \in Drains : StartDrain(f) \/ EndDrain(f)
         \/ \E f \in Drains, r \in Registers :
               Synced(f, r) \/ Discarded(f, r) \/ StillQueued(f, r)
         \/ Quit
<1>1. \A u \in Screens :
         submit[u].step # "idle" => submit[u].register \in Registers
  BY DEF QueueTypeOK
<1>2. \A f \in Drains : drain[f].left \subseteq Registers
  BY DEF QueueTypeOK
<1> QED
  BY <1>1, <1>2 DEF QueueNext, Answered, Unanswered, ReadToPark, Park

LEMMA QueueStep == QueueTypeOK /\ [QueueNext]_queueVars => QueueTypeOK'
<1> SUFFICES ASSUME QueueTypeOK, [QueueNext]_queueVars PROVE QueueTypeOK'
  OBVIOUS
<1>1. CASE UNCHANGED queueVars
  BY <1>1 DEF queueVars, QueueTypeOK, OnePerSheet
<1>2. CASE QueueNext
  <2>1. ASSUME NEW u \in Screens, NEW r \in Registers,
               Submit(u, r) \/ Answered(u) \/ Unanswered(u) \/ ReadToPark(u) \/ Park(u)
        PROVE  QueueTypeOK'
    BY <2>1, SubmissionTyped
  <2>2. ASSUME NEW f \in Drains, StartDrain(f) \/ EndDrain(f)
        PROVE  QueueTypeOK'
    BY <2>2, DrainTyped
  <2>3. ASSUME NEW f \in Drains, NEW r \in Registers,
               Synced(f, r) \/ Discarded(f, r) \/ StillQueued(f, r)
        PROVE  QueueTypeOK'
    BY <2>3, DrainTyped
  <2> QED
    BY <1>2, <2>1, <2>2, <2>3, QuitTyped, QueueStepCases
<1> QED
  BY <1>1, <1>2

LEMMA QueueStarts == QueueInit => QueueTypeOK
<1> SUFFICES ASSUME QueueInit PROVE QueueTypeOK
  OBVIOUS
<1>1. SubmitsWhole /\ DrainsWhole
  BY NothingHeld DEF QueueInit, SubmitsWhole, DrainsWhole
<1>2. QueueWhole /\ SchoolWhole /\ ParkedWhole
  BY DEF QueueInit, QueueWhole, SchoolWhole, ParkedWhole, OnePerSheet
<1> QED
  BY <1>1, <1>2, QueueTypeParts

(* QueueTypeOK is an invariant: one register of a sheet in the queue, and  *)
(* in every list read from it, all of them taken by the teacher.           *)
THEOREM QueueTypeCorrect == QueueSpec => []QueueTypeOK
<1> QED
  BY QueueStarts, QueueStep, PTL DEF QueueSpec

(* What a drain has read is still to be sent, kept, or where it was going. *)
DrainsAccount ==
  \A f \in Drains :
    drain[f].seen \subseteq drain[f].left \cup drain[f].kept \cup arrived \cup refused

KeptInv == QueueTypeOK /\ DrainsAccount /\ ParkedIsKeptUncrossed

(* As long as the queue is not overwritten, what was kept stays kept: what *)
(* has arrived or been refused stays so.                                   *)
LEMMA KeptLasts ==
  ASSUME queue \subseteq queue' \cup arrived' \cup refused',
         arrived \subseteq arrived', refused \subseteq refused',
         parked' = parked, crossed' => crossed, ~crossed' => ~crossed,
         ParkedIsKeptUncrossed
  PROVE  ParkedIsKeptUncrossed'
BY DEF ParkedIsKeptUncrossed, ParkedIsKept, Kept

LEMMA SubmissionAccounts ==
  ASSUME KeptInv, NEW u \in Screens, NEW r \in Registers,
         Submit(u, r) \/ Answered(u) \/ Unanswered(u) \/ ReadToPark(u) \/ Park(u)
  PROVE  DrainsAccount' /\ ParkedIsKeptUncrossed'
<1>1. /\ drain' = drain /\ refused' = refused
      /\ arrived \subseteq arrived'
  BY DEF Submit, Answered, Unanswered, ReadToPark, Park, Arrives, schoolVars
<1>2. DrainsAccount'
  BY <1>1 DEF KeptInv, DrainsAccount
<1>3. CASE Submit(u, r) \/ Answered(u) \/ Unanswered(u) \/ ReadToPark(u)
  <2>1. UNCHANGED <<queue, parked, crossed>>
    BY <1>3 DEF Submit, Answered, Unanswered, ReadToPark
  <2> QED
    BY <1>1, <1>2, <2>1, KeptLasts DEF KeptInv
<1>4. CASE Park(u)
  <2> DEFINE p == submit[u].register
  <2> SUFFICES ASSUME ~crossed', NEW k \in Sheets, parked'[k] # NoRegister
               PROVE  Kept(parked[k])'
    BY <1>2 DEF ParkedIsKeptUncrossed, ParkedIsKept
  <2>1. ~crossed /\ queue = submit[u].seen
    BY <1>4 DEF Park
  <2>2. queue' = WithoutSameRegister(queue, p) \cup {p}
    BY <1>4, <2>1 DEF Park
  <2>3. /\ parked' = [parked EXCEPT ![SheetOf[p]] = p]
        /\ parked \in [Sheets -> taken \cup {NoRegister}]
    BY <1>4 DEF Park, KeptInv, QueueTypeOK
  <2>4. CASE k = SheetOf[p]
    BY <2>2, <2>3, <2>4 DEF Kept
  <2>5. CASE k # SheetOf[p]
    <3>1. parked'[k] = parked[k]
      BY <2>3, <2>5
    <3>2. SheetOf[parked[k]] = k /\ Kept(parked[k])
      BY <2>1, <3>1 DEF KeptInv, QueueTypeOK, ParkedIsKeptUncrossed, ParkedIsKept
    <3> QED
      BY <1>1, <2>2, <2>5, <3>1, <3>2 DEF Kept, WithoutSameRegister
  <2> QED
    BY <2>4, <2>5
<1> QED
  BY <1>2, <1>3, <1>4

LEMMA DrainAccounts ==
  ASSUME KeptInv, NEW f \in Drains, NEW r,
         \/ StartDrain(f) \/ EndDrain(f)
         \/ Synced(f, r) \/ Discarded(f, r) \/ StillQueued(f, r)
  PROVE  DrainsAccount' /\ ParkedIsKeptUncrossed'
<1>1. /\ parked' = parked
      /\ arrived \subseteq arrived' /\ refused \subseteq refused'
  BY DEF StartDrain, EndDrain, Synced, Discarded, StillQueued, Arrives, schoolVars
<1>2. DrainsAccount'
  <2> SUFFICES ASSUME NEW g \in Drains
               PROVE  drain'[g].seen \subseteq
                        drain'[g].left \cup drain'[g].kept \cup arrived' \cup refused'
    BY DEF DrainsAccount
  <2>t. /\ drain = [h \in Drains |-> drain[h]]
        /\ drain[f] \in [step : {"idle", "sending"}, seen : SUBSET Registers,
                         left : SUBSET Registers, kept : SUBSET Registers]
    BY DEF KeptInv, QueueTypeOK
  <2>1. drain[g].seen \subseteq drain[g].left \cup drain[g].kept \cup arrived \cup refused
    BY DEF KeptInv, DrainsAccount
  <2>2. CASE g # f
    <3>1. drain'[g] = drain[g]
      BY <2>t, <2>2 DEF StartDrain, EndDrain, Synced, Discarded, StillQueued
    <3> QED
      BY <1>1, <2>1, <3>1
  <2>3. CASE g = f /\ StartDrain(f)
    BY <2>t, <2>3 DEF StartDrain
  <2>4. CASE g = f /\ EndDrain(f)
    BY <2>t, <2>4 DEF EndDrain, NotDraining
  <2>5. CASE g = f /\ (Synced(f, r) \/ Discarded(f, r))
    <3>1. /\ drain'[f].seen = drain[f].seen /\ drain'[f].kept = drain[f].kept
          /\ drain'[f].left = drain[f].left \ {r}
      BY <2>t, <2>5 DEF Synced, Discarded
    <3>2. r \in arrived' \cup refused'
      BY <2>5 DEF Synced, Discarded, Arrives
    <3> QED
      BY <1>1, <2>1, <2>5, <3>1, <3>2
  <2>6. CASE g = f /\ StillQueued(f, r)
    <3>1. /\ drain'[f].seen = drain[f].seen /\ drain'[f].kept = drain[f].kept \cup {r}
          /\ drain'[f].left = drain[f].left \ {r}
      BY <2>t, <2>6 DEF StillQueued
    <3> QED
      BY <1>1, <2>1, <2>6, <3>1
  <2> QED
    BY <2>2, <2>3, <2>4, <2>5, <2>6
<1>3. CASE StartDrain(f) \/ Synced(f, r) \/ Discarded(f, r) \/ StillQueued(f, r)
  <2>1. UNCHANGED <<queue, crossed>>
    BY <1>3 DEF StartDrain, Synced, Discarded, StillQueued
  <2> QED
    BY <1>1, <1>2, <2>1, KeptLasts DEF KeptInv
<1>4. CASE EndDrain(f)
  <2>1. CASE crossed'
    BY <1>2, <2>1 DEF ParkedIsKeptUncrossed
  <2>2. CASE ~crossed'
    <3>1. ~crossed /\ queue = drain[f].seen /\ drain[f].left = {} /\ queue' = drain[f].kept
      BY <1>4, <2>2 DEF EndDrain
    <3>2. queue \subseteq queue' \cup arrived \cup refused
      BY <3>1 DEF KeptInv, DrainsAccount
    <3> QED
      BY <1>1, <1>2, <2>2, <3>1, <3>2, KeptLasts DEF KeptInv
  <2> QED
    BY <2>1, <2>2
<1> QED
  BY <1>2, <1>3, <1>4

LEMMA KeptStep == KeptInv /\ [QueueNext]_queueVars => KeptInv'
<1> SUFFICES ASSUME KeptInv, [QueueNext]_queueVars PROVE KeptInv'
  OBVIOUS
<1>t. QueueTypeOK /\ QueueTypeOK'
  BY QueueStep DEF KeptInv
<1>1. CASE UNCHANGED queueVars
  BY <1>1, <1>t DEF KeptInv, queueVars, DrainsAccount, ParkedIsKeptUncrossed, ParkedIsKept, Kept
<1>2. CASE Quit
  <2>1. DrainsAccount'
    BY <1>2 DEF Quit, DrainsAccount, NotDraining
  <2>2. ParkedIsKeptUncrossed'
    BY <1>2, KeptLasts DEF Quit, schoolVars, KeptInv
  <2> QED
    BY <1>t, <2>1, <2>2 DEF KeptInv
<1>3. CASE QueueNext
  <2>1. ASSUME NEW u \in Screens, NEW r \in Registers,
               Submit(u, r) \/ Answered(u) \/ Unanswered(u) \/ ReadToPark(u) \/ Park(u)
        PROVE  KeptInv'
    BY <1>t, <2>1, SubmissionAccounts DEF KeptInv
  <2>2. ASSUME NEW f \in Drains, StartDrain(f) \/ EndDrain(f)
        PROVE  KeptInv'
    BY <1>t, <2>2, DrainAccounts DEF KeptInv
  <2>3. ASSUME NEW f \in Drains, NEW r \in Registers,
               Synced(f, r) \/ Discarded(f, r) \/ StillQueued(f, r)
        PROVE  KeptInv'
    BY <1>t, <2>3, DrainAccounts DEF KeptInv
  <2> QED
    BY <1>t, <1>2, <1>3, <2>1, <2>2, <2>3, QueueStepCases
<1> QED
  BY <1>1, <1>3

(* Parking and draining each lose nothing: through lost answers, refusals, *)
(* repeated drains and a killed app, a saved register is lost only by a    *)
(* write made from a list that was out of date or could not be read.       *)
THEOREM LossIsByCrossing == QueueSpec => []ParkedIsKeptUncrossed
<1>1. QueueInit => KeptInv
  <2>1. QueueInit => DrainsAccount /\ ParkedIsKeptUncrossed
    BY DEF QueueInit, DrainsAccount, NotDraining, ParkedIsKeptUncrossed, ParkedIsKept
  <2> QED
    BY <2>1, QueueStarts DEF KeptInv
<1>2. KeptInv => ParkedIsKeptUncrossed
  BY DEF KeptInv
<1> QED
  BY <1>1, <1>2, KeptStep, PTL DEF QueueSpec

(***************************************************************************)
(* All of them together.                                                   *)
(***************************************************************************)

(* Every step of the whole is a step of each service, or leaves it alone.  *)
LEMMA ServicesKeepEach ==
  ServicesSpec => /\ InventorySpec /\ LibrarySpec /\ HostelSpec
                  /\ MeetingSpec /\ RegisterSpec /\ QueueSpec
<1>1. ServicesInit => /\ InventoryInit /\ LibraryInit /\ HostelInit
                      /\ MeetingInit /\ RegisterInit /\ QueueInit
  BY DEF ServicesInit
<1>2. [ServicesNext]_servicesVars =>
        /\ [InventoryNext]_inventoryVars /\ [LibraryNext]_libraryVars /\ [HostelNext]_hostelVars
        /\ [MeetingNext]_meetingVars /\ [RegisterNext]_registerVars /\ [QueueNext]_queueVars
  BY DEF ServicesNext, InventoryTurn, LibraryTurn, HostelTurn, MeetingTurn, RegisterTurn,
         QueueTurn, servicesVars, storesVars, placesVars, schoolDayVars
<1> QED
  BY <1>1, <1>2, PTL DEF ServicesSpec, InventorySpec, LibrarySpec, HostelSpec, MeetingSpec,
                         RegisterSpec, QueueSpec

(* With all services at work, rows and requests keep their shape, and      *)
(* every bed and every resident is allocated once.                         *)
THEOREM ServicesTablesCorrect == ServicesSpec => []ServicesTablesOK
BY ServicesKeepEach, InventoryTypeCorrect, LibraryTypeCorrect, HostelTypeCorrect, BedsAreTheirs,
   MeetingTypeCorrect, RegisterTypeCorrect, QueueTypeCorrect, PTL DEF ServicesTablesOK
==============================================================================
