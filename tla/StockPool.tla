------------------------------ MODULE StockPool ------------------------------
(***************************************************************************)
(* What a store room promises, whatever it lends: of each thing it never   *)
(* has more units out than it holds, a loan goes out under a name of its   *)
(* own, and comes back once, with exactly the units that went out.         *)
(* Inventory.tla and Library.tla are shown to implement it.                *)
(***************************************************************************)
EXTENDS Naturals, FiniteSets

CONSTANTS
    Things,     \* what is lent
    Loans,      \* names for loans
    Quantities  \* how many units of a thing can be held

VARIABLES
    held,  \* held[t]: units of t there are
    out    \* what is out: [loan, thing, units]

poolVars == <<held, out>>

UnitsOut(t) ==
    UNION {{e.loan} \X (1..e.units) : e \in {x \in out : x.thing = t}}

Init == held = [t \in Things |-> 0] /\ out = {}

(* Buying, discarding, counting again: never below what is out. *)
Stock(t, n) ==
    /\ Cardinality(UnitsOut(t)) <= n
    /\ held' = [held EXCEPT ![t] = n]
    /\ UNCHANGED out

Lend(l, t, n) ==
    /\ \A e \in out : e.loan # l
    /\ Cardinality(UnitsOut(t)) + n <= held[t]
    /\ out' = out \cup {[loan |-> l, thing |-> t, units |-> n]}
    /\ UNCHANGED held

TakeBack(e) ==
    /\ out' = out \ {e}
    /\ UNCHANGED held

(* A thing is struck off, and whatever of it is out with it. *)
StrikeOff(t) ==
    /\ held' = [held EXCEPT ![t] = 0]
    /\ out' = {e \in out : e.thing # t}

Next ==
    \/ \E t \in Things, n \in Quantities : Stock(t, n)
    \/ \E l \in Loans, t \in Things : \E n \in 1..held[t] : Lend(l, t, n)
    \/ \E e \in out : TakeBack(e)
    \/ \E t \in Things : StrikeOff(t)

Spec == Init /\ [][Next]_poolVars
==============================================================================
