--------------------------- MODULE PaymentGateway ---------------------------
(***************************************************************************)
(* Online payment beside manual verification                               *)
(* (apps/api/src/payment-gateway/payment-gateway.service.ts), switched on  *)
(* by configuring Stripe keys.                                             *)
(*                                                                         *)
(* A family opens a checkout session for what is left of an invoice; when  *)
(* it pays, Stripe delivers a webhook at least once, and again whenever it *)
(* saw no answer.  The handler reads the invoice, adds in JavaScript and   *)
(* writes the total back, in two round trips.  It keeps no record of the   *)
(* sessions it has handled.                                                *)
(*                                                                         *)
(* Amounts are whole numbers of hundredths of a rupee, as the database and *)
(* Stripe keep them.  The handler counts in rupees, in floating point.     *)
(***************************************************************************)
EXTENDS Payments

CONSTANTS
    Sessions,   \* Stripe checkout sessions
    Deliveries, \* webhook calls; bound on how often Stripe calls
    FallsShort  \* <<m, n>>: the doubles of m and n hundredths add up to less
                \* than the double of m + n of them, as 0.7 + 0.1 < 0.8

ASSUME SessionsAssumption ==
    IsFiniteSet(Sessions) /\ IsFiniteSet(Deliveries) /\ None \notin Sessions

(* Adding zero is exact. *)
ASSUME FallsShortAssumption == FallsShort \subseteq (Nat \ {0}) \X (Nat \ {0})

VARIABLES
    session,   \* session[c]: what Stripe keeps of checkout session c
    delivery   \* delivery[d]: the webhook handler running for call d

gatewayVars == <<session, delivery>>
gatewayAllVars == <<vars, gatewayVars>>

NoSession == [status |-> "NONE", invoice |-> None, amount |-> 0]
NoDelivery == [step |-> "idle", session |-> None, total |-> 0, status |-> "NONE"]

GatewayInit ==
    /\ Init
    /\ session = [c \in Sessions |-> NoSession]
    /\ delivery = [d \in Deliveries |-> NoDelivery]

(* A number of rupees in JavaScript: the hundredths it is nearest to, and  *)
(* whether it lies below them.  Number(decimal) and amount_total / 100 are *)
(* rounded once, so that equal amounts are equal; a sum is rounded again.  *)
Rupees(n) == [near |-> n, below |-> FALSE]
RupeeSum(x, y) == [near |-> x.near + y.near, below |-> <<x.near, y.near>> \in FallsShort]
Reaches(x, y) == x.near > y.near \/ (x.near = y.near /\ (x.below => y.below))

(* Stripe takes no session over a zero or negative amount. *)
Payable(i) == invoice[i].status # "NONE" /\ invoice[i].due > invoice[i].paid

(* Math.round(remaining * 100): the error of the difference is far below   *)
(* half a hundredth.                                                       *)
UnitAmount(i) == invoice[i].due - invoice[i].paid

(* initiateCheckout: the amount is what remains when it is created. *)
InitiateCheckout(c, i) ==
    /\ session[c].status = "NONE"
    /\ Payable(i)
    /\ session' = [session EXCEPT ![c] =
          [status |-> "open", invoice |-> i, amount |-> UnitAmount(i)]]
    /\ UNCHANGED <<vars, delivery>>

(* The family pays on Stripe's page; the school knows nothing of it yet. *)
PayOnline(c) ==
    /\ session[c].status = "open"
    /\ session' = [session EXCEPT ![c].status = "paid"]
    /\ UNCHANGED <<vars, delivery>>

(* Broken variant: Stripe counts in hundredths, and nobody divides. *)
Undivided(n) == Rupees(100 * n)
FromStripe(n) == Rupees(n)
(* Total as handleWebhook computes it from the invoice it has just read. *)
TotalToWrite(c) ==
    RupeeSum(Rupees(invoice[session[c].invoice].paid), FromStripe(session[c].amount))

(* Stripe calls the webhook for a paid session, and may have done before;  *)
(* the handler reads the invoice.                                          *)
ReadInvoice(d, c) ==
    LET total == TotalToWrite(c)
        due == Rupees(invoice[session[c].invoice].due)
    IN  /\ delivery[d].step = "idle"
        /\ session[c].status = "paid"
        /\ delivery' = [delivery EXCEPT ![d] =
              [step |-> "read", session |-> c, total |-> total.near,
               status |-> IF Reaches(total, due) THEN "PAID" ELSE "PARTIALLY_PAID"]]
        /\ UNCHANGED <<vars, session>>

(* The update writes the total, which the column rounds to hundredths, and *)
(* the status computed before that.                                        *)
WriteInvoice(d) ==
    LET i == session[delivery[d].session].invoice
    IN  /\ delivery[d].step = "read"
        /\ invoice' = [invoice EXCEPT ![i].paid = delivery[d].total,
                                      ![i].status = delivery[d].status]
        /\ delivery' = [delivery EXCEPT ![d].step = "done"]
        /\ UNCHANGED <<sequence, submission, requests, told, session>>

(* The handler dies before the update; Stripe will call again. *)
DropDelivery(d) ==
    /\ delivery[d].step = "read"
    /\ delivery' = [delivery EXCEPT ![d].step = "done", ![d].session = None]
    /\ UNCHANGED <<vars, session>>

GatewayStep ==
    \/ \E c \in Sessions, i \in Invoices : InitiateCheckout(c, i)
    \/ \E c \in Sessions : PayOnline(c)
    \/ \E d \in Deliveries, c \in Sessions : ReadInvoice(d, c)
    \/ \E d \in Deliveries : WriteInvoice(d)
    \/ \E d \in Deliveries : DropDelivery(d)

GatewayNext ==
    \/ Next /\ UNCHANGED gatewayVars
    \/ GatewayStep

GatewaySpec == GatewayInit /\ [][GatewayNext]_gatewayAllVars

------------------------------------------------------------------------------
(* The webhook calls that have added to invoice i. *)
Handled(i) ==
    {d \in Deliveries : /\ delivery[d].step = "done"
                        /\ delivery[d].session # None
                        /\ session[delivery[d].session].invoice = i}
HandledSessions(i) == {delivery[d].session : d \in Handled(i)}

(* Money families sent for invoice i through Stripe, each session once: a  *)
(* set of pairs, so that its cardinality is the sum of the amounts.        *)
SentOnline(i) ==
    UNION {{c} \X (1..session[c].amount) :
              c \in {x \in Sessions : session[x].status = "paid" /\ session[x].invoice = i}}

(* What Stripe's repeated calls added for sessions already credited. *)
FirstCall(c, i) == CHOOSE d \in Handled(i) : delivery[d].session = c
CreditedAgain(i) ==
    UNION {{d} \X (1..session[delivery[d].session].amount) :
              d \in {x \in Handled(i) : x # FirstCall(delivery[x].session, i)}}

GatewayTypeOK ==
    /\ session \in [Sessions -> [status : {"NONE", "open", "paid"},
                                 invoice : Invoices \cup {None}, amount : Nat]]
    /\ delivery \in [Deliveries -> [step : {"idle", "read", "done"},
                                    session : Sessions \cup {None}, total : Nat,
                                    status : {"NONE", "PARTIALLY_PAID", "PAID"}]]

(* However webhook calls and reviews cross, an invoice shows no more than  *)
(* its verified claims and the paid sessions, each counted once, except by *)
(* what repeated calls added for a session that was already credited:      *)
(* nothing recognises those, and each adds the session's amount again.     *)
NoMoneyInvented ==
    \A i \in Invoices :
        invoice[i].paid <= Cardinality(Credited(i)) + Cardinality(SentOnline(i))
                               + Cardinality(CreditedAgain(i))

(* Whichever of the two paths wrote last, status and total agree, but for  *)
(* an invoice paid exactly by a webhook call whose sum of doubles fell     *)
(* short of what is due: that one stays PARTIALLY_PAID.  The manual path   *)
(* derives the status inside the statement, from decimals, the webhook     *)
(* from a read that may be stale.                                          *)
ShortCall(d, i) ==
    LET amount == session[delivery[d].session].amount
    IN  /\ delivery[d].total = invoice[i].due
        /\ <<delivery[d].total - amount, amount>> \in FallsShort
StatusFollowsTotal ==
    \A i \in Invoices : invoice[i].status # "NONE" =>
        /\ invoice[i].status = "PAID" => invoice[i].paid >= invoice[i].due
        /\ invoice[i].paid >= invoice[i].due =>
              \/ invoice[i].status = "PAID"
              \/ invoice[i].paid = invoice[i].due /\ \E d \in Handled(i) : ShortCall(d, i)
        /\ invoice[i].status = "UNPAID" <=> invoice[i].paid = 0

(* What the gateway can promise an invoice without the lock it lacks. *)
OnlineTotalsHold == NoMoneyInvented /\ StatusFollowsTotal

(* What payments.service.ts says of writing back a total computed from a   *)
(* read: whichever commits second overwrites the first.  No payment may be *)
(* lost that way, so an invoice shows at least its verified claims and     *)
(* every session a webhook call has been handled for, each counted once.   *)
NoMoneyLost ==
    \A i \in Invoices :
        invoice[i].paid >=
            Cardinality(Credited(i)) +
            Cardinality(UNION {{c} \X (1..session[c].amount) : c \in HandledSessions(i)})
==============================================================================
