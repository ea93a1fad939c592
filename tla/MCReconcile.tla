---------------------------- MODULE MCReconcile ----------------------------
(***************************************************************************)
(* Small instances of the two ways in which money reaches an invoice from  *)
(* outside: BankStatement, with two submissions, two statement lines and   *)
(* one page load at a time, and PaymentGateway, with one manual claim, two *)
(* checkout sessions and up to three webhook calls.  One of them runs      *)
(* beside Payments in each behaviour, as the gateway has no statement.     *)
(***************************************************************************)
EXTENDS Reconciliation, TLC

CONSTANTS north, n1, parent, tab, desk, c1, c2, d1, d2, d3

VARIABLE service  \* the one that runs in this behaviour

MCSchoolOf == [i \in Invoices |-> north]
MCMayPay == [f \in Families |-> Invoices]
MCAdminOf == [a \in Admins |-> north]
MCDeskOf == [d \in Desks |-> north]
MCFallsShort == {<<1, 1>>}
MCMaxSequence == [c \in Schools |-> 2]

MCInit ==
    /\ ReconcileInit
    /\ service \in {"bank", "gateway"}

MCNext ==
    /\ UNCHANGED service
    /\ \/ /\ service = "bank"
          /\ BankTurn
          /\ \A i \in Invoices : invoice'[i].due # 3
       \/ /\ service = "gateway"
          /\ GatewayTurn
          /\ submission'[2] = NoSubmission
          /\ sequence'[north] <= 1

MCSpec == MCInit /\ [][MCNext]_<<reconcileVars, service>>

(* Sessions are interchangeable, and so are webhook calls. *)
MCSymmetry == Permutations(Sessions) \cup Permutations(Deliveries)
==============================================================================
