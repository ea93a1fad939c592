--------------------------- MODULE Reconciliation ---------------------------
(***************************************************************************)
(* The two ways in which money reaches an invoice from outside, side by    *)
(* side: BankStatement and PaymentGateway work beside the reviews of       *)
(* Payments on the same invoices and submissions, and share nothing else.  *)
(***************************************************************************)
EXTENDS BankStatement, PaymentGateway

ReconcileInit == BankInit /\ GatewayInit

BankTurn == BankNext /\ UNCHANGED gatewayVars
GatewayTurn == GatewayNext /\ UNCHANGED bankVars

ReconcileNext == BankTurn \/ GatewayTurn

reconcileVars == <<bankAllVars, gatewayVars>>

ReconcileSpec == ReconcileInit /\ [][ReconcileNext]_reconcileVars

(* Rows and requests have their shape, matches and sessions included.      *)
ReconcileTablesOK ==
    /\ BankTypeOK
    /\ GatewayTypeOK
==============================================================================
