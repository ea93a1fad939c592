----------------------------- MODULE MCPayments -----------------------------
(***************************************************************************)
(* A small instance of Payments: two schools with one invoice each, two    *)
(* clients of the first school's family and one of the second's, and two   *)
(* browser tabs of the first school's admins.                              *)
(***************************************************************************)
EXTENDS Payments, TLC

CONSTANTS north, south, n1, s1, parent, student, other, tab1, tab2

MCSchoolOf == [i \in Invoices |-> IF i = s1 THEN south ELSE north]
MCMayPay == [f \in Families |-> IF f = other THEN {s1} ELSE {n1}]
MCAdminOf == [a \in Admins |-> north]
MCMaxSequence == [c \in Schools |-> IF c = north THEN 2 ELSE 1]

(* The two tabs are interchangeable, and so are the clients of one family. *)
MCSymmetry == Permutations({tab1, tab2}) \cup Permutations({parent, student})
==============================================================================
