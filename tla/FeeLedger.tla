------------------------------ MODULE FeeLedger ------------------------------
(***************************************************************************)
(* What fee collection promises, with no requests, reviewers or receipts   *)
(* in sight: a claim of payment is accepted at most once and for good, and *)
(* accepting it adds exactly its amount to the one invoice it was made     *)
(* against.  Payments.tla is shown to implement this specification.        *)
(***************************************************************************)
EXTENDS Naturals

CONSTANTS
    Invoices,   \* the bills
    Claims,     \* the families' claims of having paid
    MaxAmount,  \* the largest amount a claim can be for
    None        \* the entry of a claim that has not been accepted

VARIABLES
    paid,       \* paid[i]: the money counted towards invoice i
    accepted    \* accepted[c]: the invoice and amount claim c was accepted for

ledgerVars == <<paid, accepted>>

Init ==
    /\ paid = [i \in Invoices |-> 0]
    /\ accepted = [c \in Claims |-> None]

Accept(c, i, n) ==
    /\ accepted[c] = None
    /\ accepted' = [accepted EXCEPT ![c] = [invoice |-> i, amount |-> n]]
    /\ paid' = [paid EXCEPT ![i] = @ + n]

Next == \E c \in Claims, i \in Invoices, n \in 1..MaxAmount : Accept(c, i, n)

Spec == Init /\ [][Next]_ledgerVars
==============================================================================
