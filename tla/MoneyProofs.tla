---------------------------- MODULE MoneyProofs ----------------------------
(***************************************************************************)
(* What online payment and reconciliation hold beside the reviews of       *)
(* Payments, for any number of checkout sessions, webhook calls, statement *)
(* lines and page loads.                                                   *)
(***************************************************************************)
EXTENDS Reconciliation, Counting, PaymentsProofs

(***************************************************************************)
(* The gateway.                                                            *)
(***************************************************************************)
SessionRows ==
  [status : {"NONE", "open", "paid"}, invoice : Invoices \cup {None}, amount : Nat]
DeliveryRows ==
  [step : {"idle", "read", "done"}, session : Sessions \cup {None}, total : Nat,
   status : {"NONE", "PARTIALLY_PAID", "PAID"}]

(* Units of money that handled webhook calls added to invoice i, a session *)
(* as often as it was handled.                                             *)
PaidOnline(i) ==
  UNION {{d} \X (1..session[delivery[d].session].amount) : d \in Handled(i)}

(* A checkout session is over money of an invoice there is; a webhook call *)
(* that has read, or was handled, is of such a session that was paid, and  *)
(* what it is about to write is no more than the money known at the read   *)
(* and its own, with the status that follows from it as doubles go.        *)
SessionsWhole ==
  \A c \in Sessions : session[c].status # "NONE" =>
    /\ session[c].invoice \in Invoices
    /\ invoice[session[c].invoice].status # "NONE"
    /\ session[c].amount > 0
DeliveriesWhole ==
  \A d \in Deliveries, c \in Sessions :
    delivery[d].step # "idle" /\ delivery[d].session = c => session[c].status = "paid"
ReadsWhole ==
  \A d \in Deliveries : delivery[d].step = "read" => delivery[d].session \in Sessions
ReadsStatus ==
  \A d \in Deliveries :
    delivery[d].step = "read" => delivery[d].status \in {"PAID", "PARTIALLY_PAID"}
OnlineFinite == \A i \in Invoices : IsFiniteSet(PaidOnline(i))
Known(i) == Cardinality(Credited(i)) + Cardinality(PaidOnline(i))
StatusFits(d, i) ==
  /\ delivery[d].status \in {"PAID", "PARTIALLY_PAID"}
  /\ delivery[d].status = "PAID" => delivery[d].total >= invoice[i].due
  /\ delivery[d].total >= invoice[i].due =>
        \/ delivery[d].status = "PAID"
        \/ delivery[d].total = invoice[i].due /\ ShortCall(d, i)
StatusesFit ==
  \A d \in Deliveries, c \in Sessions, i \in Invoices :
    delivery[d].step = "read" /\ delivery[d].session = c /\ session[c].invoice = i =>
      StatusFits(d, i)
CallsCovered == \A i \in Invoices : invoice[i].paid <= Known(i)
TotalsCovered ==
  \A d \in Deliveries, c \in Sessions, i \in Invoices :
    delivery[d].step = "read" /\ delivery[d].session = c /\ session[c].invoice = i =>
      delivery[d].total > 0 /\ delivery[d].total <= Known(i) + session[c].amount
GatewayShape ==
  /\ TypeOK
  /\ session \in [Sessions -> SessionRows]
  /\ delivery \in [Deliveries -> DeliveryRows]
  /\ SessionsWhole /\ DeliveriesWhole /\ ReadsWhole /\ ReadsStatus
GatewayInv ==
  GatewayShape /\ OnlineFinite /\ TotalsCovered /\ CallsCovered /\ StatusesFit /\ StatusFollowsTotal

(* The units a handled call adds. *)
LEMMA UnitsOfCall ==
  ASSUME NEW d, NEW n \in Nat
  PROVE  IsFiniteSet({d} \X (1..n)) /\ Cardinality({d} \X (1..n)) = n
<1>1. IsFiniteSet({d}) /\ Cardinality({d}) = 1
  BY FS_Singleton
<1>2. IsFiniteSet(1..n) /\ Cardinality(1..n) = n
  BY FS_Interval
<1>3. /\ IsFiniteSet({d} \X (1..n))
      /\ Cardinality({d} \X (1..n)) = Cardinality({d}) * Cardinality(1..n)
  BY <1>1, <1>2, FS_Product, Zenon
<1> QED
  BY <1>1, <1>2, <1>3

LEMMA OnlineUnits ==
  ASSUME NEW i
  PROVE  /\ \A u \in PaidOnline(i) : \E d \in Deliveries : d \in Handled(i) /\ u[1] = d
         /\ \A u : u \in PaidOnline(i) <=> \E d \in Deliveries :
              d \in Handled(i) /\ u \in {d} \X (1..session[delivery[d].session].amount)
BY DEF PaidOnline, Handled

LEMMA KnownIsNat ==
  ASSUME OnlineFinite, NEW i \in Invoices
  PROVE  /\ Known(i) \in Nat /\ Cardinality(Credited(i)) \in Nat
         /\ Cardinality(PaidOnline(i)) \in Nat
BY CreditedFinite, FS_CardinalityType DEF OnlineFinite, Known

LEMMA GatewayShapeStep ==
  GatewayShape /\ [GatewayNext]_gatewayAllVars => GatewayShape'
<1> SUFFICES ASSUME GatewayShape, [GatewayNext]_gatewayAllVars
             PROVE  GatewayShape'
  OBVIOUS
<1>g. /\ TypeOK /\ session \in [Sessions -> SessionRows] /\ delivery \in [Deliveries -> DeliveryRows]
      /\ SessionsWhole /\ DeliveriesWhole /\ ReadsWhole /\ ReadsStatus
  BY DEF GatewayShape
<1>1. CASE [Next]_vars /\ UNCHANGED gatewayVars
  <2>1. TypeOK' /\ RowsLast
    BY <1>1, <1>g, StepKeepsTypes, StepKeepsRows
  <2>2. UNCHANGED <<session, delivery>>
    BY <1>1 DEF gatewayVars
  <2>3. SessionsWhole'
    BY <1>g, <2>1, <2>2 DEF SessionsWhole, RowsLast
  <2> QED
    BY <1>g, <2>1, <2>2, <2>3 DEF GatewayShape, DeliveriesWhole, ReadsWhole, ReadsStatus
<1>2. ASSUME NEW c \in Sessions, NEW i \in Invoices, InitiateCheckout(c, i)
      PROVE  GatewayShape'
  <2>1. /\ session[c].status = "NONE" /\ Payable(i) /\ UNCHANGED <<vars, delivery>>
        /\ session' = [session EXCEPT ![c] =
             [status |-> "open", invoice |-> i, amount |-> invoice[i].due - invoice[i].paid]]
    BY <1>2 DEF InitiateCheckout, UnitAmount
  <2>2. invoice[i].due \in Nat /\ invoice[i].paid \in Nat
    <3>1. invoice[i] \in InvoiceRows
      BY <1>g DEF TypeOK, Shapes
    <3>2. Dues \cup {0} \subseteq Nat
      BY BoundsAssumption
    <3>3. invoice[i].due \in Dues \cup {0} /\ invoice[i].paid \in Nat
      BY <3>1 DEF InvoiceRows
    <3> QED
      BY <3>2, <3>3
  <2>3. invoice[i].due - invoice[i].paid \in Nat /\ invoice[i].due - invoice[i].paid > 0
        /\ invoice[i].status # "NONE"
    BY <2>1, <2>2 DEF Payable
  <2>4. /\ session' \in [Sessions -> SessionRows]
        /\ session'[c].invoice = i /\ session'[c].amount > 0 /\ session'[c].status # "NONE"
        /\ \A e \in Sessions : e # c => session'[e] = session[e]
    BY <1>g, <2>1, <2>3 DEF SessionRows
  <2>5. TypeOK' /\ invoice' = invoice
    BY <1>g, <2>1, StepKeepsTypes DEF vars, tables
  <2>6. SessionsWhole'
    BY <1>g, <2>3, <2>4, <2>5 DEF SessionsWhole
  <2>7. DeliveriesWhole' /\ ReadsWhole' /\ ReadsStatus'
    BY <1>g, <2>1, <2>4 DEF DeliveriesWhole, ReadsWhole, ReadsStatus
  <2> QED
    BY <1>g, <2>1, <2>4, <2>5, <2>6, <2>7 DEF GatewayShape
<1>3. ASSUME NEW c \in Sessions, PayOnline(c)
      PROVE  GatewayShape'
  <2>1. /\ session[c].status = "open" /\ UNCHANGED <<vars, delivery>>
        /\ session' = [session EXCEPT ![c].status = "paid"]
    BY <1>3 DEF PayOnline
  <2>2. /\ session' \in [Sessions -> SessionRows]
        /\ \A e \in Sessions : /\ session'[e].status # "NONE" <=> session[e].status # "NONE"
                               /\ session'[e].invoice = session[e].invoice
                               /\ session'[e].amount = session[e].amount
    BY <1>g, <2>1 DEF SessionRows
  <2>3. TypeOK' /\ invoice' = invoice
    BY <1>g, <2>1, StepKeepsTypes DEF vars, tables
  <2> QED
    BY <1>g, <2>1, <2>2, <2>3 DEF GatewayShape, SessionsWhole, DeliveriesWhole, ReadsWhole, ReadsStatus
<1>4. ASSUME NEW d \in Deliveries, NEW c \in Sessions, ReadInvoice(d, c)
      PROVE  GatewayShape'
  <2>1. /\ session[c].status = "paid" /\ UNCHANGED <<vars, session>>
        /\ delivery' = [delivery EXCEPT ![d] =
             [step |-> "read", session |-> c,
              total |-> invoice[session[c].invoice].paid + session[c].amount,
              status |-> delivery'[d].status]]
        /\ delivery'[d].status \in {"PAID", "PARTIALLY_PAID"}
    <3>1. delivery \in [Deliveries -> DeliveryRows]
      BY <1>g
    <3> QED
      BY <1>4, <3>1 DEF ReadInvoice, TotalToWrite, RupeeSum, Rupees, FromStripe
  <2>2. invoice[session[c].invoice].paid + session[c].amount \in Nat
    BY <1>g, <2>1 DEF SessionsWhole, TypeOK, Shapes, InvoiceRows, SessionRows
  <2>3. /\ delivery' \in [Deliveries -> DeliveryRows]
        /\ delivery'[d].session = c /\ \A e \in Deliveries : e # d => delivery'[e] = delivery[e]
    BY <1>g, <2>1, <2>2 DEF DeliveryRows
  <2>4. TypeOK' /\ invoice' = invoice
    BY <1>g, <2>1, StepKeepsTypes DEF vars, tables
  <2> QED
    BY <1>g, <2>1, <2>3, <2>4 DEF GatewayShape, SessionsWhole, DeliveriesWhole, ReadsWhole, ReadsStatus
<1>5. ASSUME NEW d \in Deliveries, WriteInvoice(d)
      PROVE  GatewayShape'
  <2>1. PICK c \in Sessions : c = delivery[d].session
    BY <1>5, <1>g DEF WriteInvoice, ReadsWhole
  <2>2. PICK i \in Invoices : i = session[c].invoice /\ invoice[i].status # "NONE"
    BY <1>5, <1>g, <2>1 DEF WriteInvoice, SessionsWhole, DeliveriesWhole
  <2>3. /\ delivery[d].step = "read"
        /\ invoice' = [invoice EXCEPT
             ![i].paid = delivery[d].total, ![i].status = delivery[d].status]
        /\ delivery' = [delivery EXCEPT ![d].step = "done"]
        /\ UNCHANGED <<sequence, submission, requests, told, session>>
    BY <1>5, <2>1, <2>2 DEF WriteInvoice
  <2>4. delivery[d].total \in Nat /\ delivery[d].status \in {"PAID", "PARTIALLY_PAID"}
    BY <1>g, <2>1, <2>2, <2>3 DEF DeliveryRows, ReadsStatus
  <2>5. /\ invoice' \in [Invoices -> InvoiceRows]
        /\ \A j \in Invoices : /\ invoice'[j].status # "NONE" <=> invoice[j].status # "NONE"
                               /\ invoice'[j].due = invoice[j].due
                               /\ invoice[j].status = "NONE" => invoice'[j].paid = invoice[j].paid
    BY <1>g, <2>2, <2>3, <2>4 DEF TypeOK, Shapes, InvoiceRows
  <2>6. TypeOK'
    BY <1>g, <2>3, <2>5
    DEF TypeOK, Shapes, InvoicesWhole, SubmissionsWhole, SubmitsWhole, ReviewsWhole, Filed, requests
  <2>7. /\ delivery' \in [Deliveries -> DeliveryRows]
        /\ \A e \in Deliveries : /\ delivery'[e].step # "idle" <=> delivery[e].step # "idle"
                                 /\ delivery'[e].session = delivery[e].session
                                 /\ delivery'[e].step = "read" => delivery[e].step = "read"
    BY <1>g, <2>3 DEF DeliveryRows
  <2> QED
    BY <1>g, <2>3, <2>5, <2>6, <2>7 DEF GatewayShape, SessionsWhole, DeliveriesWhole, ReadsWhole, ReadsStatus
<1>6. ASSUME NEW d \in Deliveries, DropDelivery(d)
      PROVE  GatewayShape'
  <2>1. /\ UNCHANGED <<vars, session>>
        /\ delivery' = [delivery EXCEPT ![d].step = "done", ![d].session = None]
    BY <1>6 DEF DropDelivery
  <2>2. /\ delivery' \in [Deliveries -> DeliveryRows]
        /\ delivery'[d].step = "done" /\ delivery'[d].session = None
        /\ \A e \in Deliveries : e # d => delivery'[e] = delivery[e]
    BY <1>g, <2>1 DEF DeliveryRows
  <2>3. TypeOK' /\ invoice' = invoice
    BY <1>g, <2>1, StepKeepsTypes DEF vars, tables
  <2>4. DeliveriesWhole'
    BY <1>g, <2>1, <2>2, SessionsAssumption DEF DeliveriesWhole
  <2> QED
    BY <1>g, <2>1, <2>2, <2>3, <2>4 DEF GatewayShape, SessionsWhole, ReadsWhole, ReadsStatus
<1> QED
  BY <1>1, <1>2, <1>3, <1>4, <1>5, <1>6 DEF GatewayNext, GatewayStep, gatewayAllVars

(* Nothing that is known of an invoice is forgotten again. *)
LEMMA KnownGrows ==
  ASSUME OnlineFinite, NEW i \in Invoices,
         IsFiniteSet(Credited(i)'), IsFiniteSet(PaidOnline(i)'),
         Credited(i) \subseteq Credited(i)', PaidOnline(i) \subseteq PaidOnline(i)'
  PROVE  Known(i) <= Known(i)' /\ Known(i) \in Nat /\ Known(i)' \in Nat
<1>1. /\ Cardinality(Credited(i)) <= Cardinality(Credited(i)')
      /\ Cardinality(PaidOnline(i)) <= Cardinality(PaidOnline(i)')
  BY FS_Subset
<1>2. Cardinality(Credited(i)') \in Nat /\ Cardinality(PaidOnline(i)') \in Nat
  BY FS_CardinalityType
<1> QED
  BY <1>1, <1>2, KnownIsNat DEF Known

(* A review writes an invoice it has raised or verified a claim of. *)
LEMMA ReviewsWriteInvoices ==
  ASSUME TypeOK, [Next]_vars, NEW i \in Invoices, invoice'[i] # invoice[i]
  PROVE  \/ /\ invoice'[i].status = "UNPAID" /\ invoice'[i].paid = 0
            /\ invoice'[i].due \in Nat /\ invoice'[i].due > 0
         \/ \E n \in Nat \ {0} :
              /\ invoice'[i].paid = invoice[i].paid + n /\ invoice'[i].due = invoice[i].due
              /\ invoice'[i].status =
                    IF invoice'[i].paid >= invoice'[i].due THEN "PAID" ELSE "PARTIALLY_PAID"
<1> SUFFICES ASSUME TheStep
             PROVE  \/ /\ invoice'[i].status = "UNPAID" /\ invoice'[i].paid = 0
                       /\ invoice'[i].due \in Nat /\ invoice'[i].due > 0
                    \/ \E n \in Nat \ {0} :
                         /\ invoice'[i].paid = invoice[i].paid + n /\ invoice'[i].due = invoice[i].due
                         /\ invoice'[i].status =
                               IF invoice'[i].paid >= invoice'[i].due THEN "PAID" ELSE "PARTIALLY_PAID"
  BY StepCases
<1>1. CASE \E j \in Invoices, due \in Dues : RaiseInvoice(j, due)
  BY <1>1, BoundsAssumption DEF RaiseInvoice, TypeOK, Shapes, InvoiceRows, InvoicesWhole
<1>2. CASE \E a \in Admins : Verify(a)
  <2>1. PICK a \in Admins : Verify(a)
    BY <1>2
  <2>2. PICK j \in Invoices, n \in 1..MaxAmount :
           /\ invoice'[j].paid = invoice[j].paid + n
           /\ invoice'[j].due = invoice[j].due
           /\ invoice'[j].status =
                 IF invoice'[j].paid >= invoice[j].due THEN "PAID" ELSE "PARTIALLY_PAID"
           /\ \A k \in Invoices : k # j => invoice'[k] = invoice[k]
    BY <2>1, VerifyEffect
  <2>3. i = j /\ n \in Nat \ {0}
    BY <2>2, BoundsAssumption
  <2> QED
    BY <2>2, <2>3
<1>3. CASE invoice' = invoice
  BY <1>3
<1> QED
  BY <1>1, <1>2, <1>3, QuietSteps DEF RowsUntouched, CreateSubmission, ClaimForReview, StoreReceipt

LEMMA ReviewsKeepOnline ==
  GatewayInv /\ [Next]_vars /\ UNCHANGED gatewayVars => GatewayInv'
<1> SUFFICES ASSUME GatewayInv, [Next]_vars, UNCHANGED gatewayVars
             PROVE  GatewayInv'
  OBVIOUS
<1>g. GatewayShape /\ GatewayShape' /\ TypeOK /\ TypeOK'
  <2>1. [GatewayNext]_gatewayAllVars
    BY DEF GatewayNext, gatewayAllVars
  <2> QED
    BY <2>1, GatewayShapeStep DEF GatewayInv, GatewayShape
<1>p. OnlineFinite /\ TotalsCovered /\ CallsCovered /\ StatusesFit /\ StatusFollowsTotal
  BY DEF GatewayInv
<1>u. UNCHANGED <<session, delivery>>
  BY DEF gatewayVars
<1>1. \A i \in Invoices : PaidOnline(i)' = PaidOnline(i) /\ IsFiniteSet(PaidOnline(i)')
  BY <1>p, <1>u DEF PaidOnline, Handled, OnlineFinite
<1>2. \A i \in Invoices : IsFiniteSet(Credited(i)) /\ IsFiniteSet(Credited(i)')
  <2>1. IsFiniteSet(Submissions \X (1..MaxAmount))
    <3>1. IsFiniteSet(1..MaxAmount)
      BY BoundsAssumption, FS_Interval
    <3> QED
      BY <3>1, SubmissionsAssumption, FS_Product, Zenon
  <2> QED
    BY <2>1, FS_Subset DEF Credited
<1>3. ASSUME NEW i \in Invoices
      PROVE  /\ Credited(i) \subseteq Credited(i)'
             /\ invoice'[i].paid <= Known(i)'
  <2>k. /\ Known(i) \in Nat /\ Cardinality(Credited(i)) \in Nat /\ Cardinality(PaidOnline(i)) \in Nat
        /\ invoice[i].paid \in Nat
    BY <1>g, <1>p, KnownIsNat DEF TypeOK, Shapes, InvoiceRows
  <2>0. invoice[i].paid <= Known(i)
    BY <1>p DEF CallsCovered
  <2>1. CASE \E a \in Admins : Verify(a)
    <3>1. PICK a \in Admins : Verify(a)
      BY <2>1
    <3>2. PICK s \in Submissions, j \in Invoices, n \in 1..MaxAmount :
              s = review[a].submission /\ j = submission[s].invoice /\ n = submission[s].amount
      BY <1>g, <3>1, VerifyEffect DEF Filed
    <3>3. n \in Nat
      BY BoundsAssumption
    <3>4. CASE i = j
      <4>1. /\ Credited(i)' = Credited(i) \cup ({s} \X (1..n))
            /\ Credited(i) \cap ({s} \X (1..n)) = {}
        BY <1>g, <3>1, <3>2, <3>4, VerifyCredits
      <4>2. IsFiniteSet({s} \X (1..n)) /\ Cardinality({s} \X (1..n)) = n
        BY UnitsOfClaim
      <4>3. Cardinality(Credited(i) \cap ({s} \X (1..n))) = 0
        BY <4>1, FS_EmptySet
      <4>4. Cardinality(Credited(i) \cup ({s} \X (1..n))) =
                Cardinality(Credited(i)) + Cardinality({s} \X (1..n))
                    - Cardinality(Credited(i) \cap ({s} \X (1..n)))
        BY <1>2, <4>2, FS_Union, Zenon
      <4>5. Cardinality(Credited(i)') = Cardinality(Credited(i)) + n
        BY <2>k, <3>3, <4>1, <4>2, <4>3, <4>4
      <4>6. invoice'[i].paid = invoice[i].paid + n
        BY <1>g, <3>1, <3>2, <3>4, VerifyEffect
      <4>7. Known(i)' = Known(i) + n
        BY <1>1, <2>k, <3>3, <4>5 DEF Known
      <4> QED
        BY <2>0, <2>k, <3>3, <4>1, <4>6, <4>7
    <3>5. CASE i # j
      <4>1. Credited(i)' = Credited(i)
        BY <1>g, <3>1, <3>2, <3>5, VerifyCredits
      <4>2. invoice'[i] = invoice[i]
        BY <1>g, <3>1, <3>2, <3>5, VerifyEffect
      <4> QED
        BY <1>1, <2>0, <4>1, <4>2 DEF Known
    <3> QED
      BY <3>4, <3>5
  <2>2. CASE ~ \E a \in Admins : Verify(a)
    <3>1. Credited(i)' = Credited(i) /\ invoice'[i].paid = invoice[i].paid
      BY <1>g, <2>2, StepCases, OtherStepsCreditNothing
    <3> QED
      BY <1>1, <2>0, <3>1 DEF Known
  <2> QED
    BY <2>1, <2>2
<1>4. \A i \in Invoices : Known(i) <= Known(i)' /\ Known(i) \in Nat /\ Known(i)' \in Nat
  BY <1>1, <1>2, <1>3, <1>p, KnownGrows
<1>5. OnlineFinite' /\ CallsCovered'
  BY <1>1, <1>3 DEF OnlineFinite, CallsCovered
<1>6. TotalsCovered'
  BY <1>4, <1>g, <1>p, <1>u DEF TotalsCovered, GatewayShape, SessionRows, DeliveryRows
<1>r. RowsLast
  BY <1>g, StepKeepsRows
<1>h. \A i \in Invoices : Handled(i)' = Handled(i)
  BY <1>u DEF Handled
<1>s. \A i \in Invoices, d \in Deliveries :
        invoice'[i].due = invoice[i].due => (ShortCall(d, i)' <=> ShortCall(d, i))
  BY <1>u DEF ShortCall
<1>7. StatusFollowsTotal'
  <2> SUFFICES ASSUME NEW i \in Invoices, invoice'[i].status # "NONE"
               PROVE  /\ invoice'[i].status = "PAID" => invoice'[i].paid >= invoice'[i].due
                      /\ invoice'[i].paid >= invoice'[i].due =>
                            \/ invoice'[i].status = "PAID"
                            \/ /\ invoice'[i].paid = invoice'[i].due
                               /\ \E d \in Handled(i)' : ShortCall(d, i)'
                      /\ invoice'[i].status = "UNPAID" <=> invoice'[i].paid = 0
    BY DEF StatusFollowsTotal
  <2>1. CASE invoice'[i] = invoice[i]
    <3>1. \A d \in Handled(i) : d \in Deliveries
      BY DEF Handled
    <3> QED
      BY <1>h, <1>p, <1>s, <2>1, <3>1 DEF StatusFollowsTotal
  <2>2. CASE invoice'[i] # invoice[i]
    <3>1. \/ /\ invoice'[i].status = "UNPAID" /\ invoice'[i].paid = 0
            /\ invoice'[i].due \in Nat /\ invoice'[i].due > 0
          \/ \E n \in Nat \ {0} :
               /\ invoice'[i].paid = invoice[i].paid + n /\ invoice'[i].due = invoice[i].due
               /\ invoice'[i].status =
                     IF invoice'[i].paid >= invoice'[i].due THEN "PAID" ELSE "PARTIALLY_PAID"
      BY <1>g, <2>2, ReviewsWriteInvoices
    <3>2. invoice[i].paid \in Nat
      BY <1>g DEF TypeOK, Shapes, InvoiceRows
    <3> QED
      BY <3>1, <3>2
  <2> QED
    BY <2>1, <2>2
<1>8. StatusesFit'
  <2> SUFFICES ASSUME NEW d \in Deliveries, NEW c \in Sessions, NEW i \in Invoices,
                      delivery'[d].step = "read", delivery'[d].session = c, session'[c].invoice = i
               PROVE  StatusFits(d, i)'
    BY DEF StatusesFit
  <2>1. StatusFits(d, i)
    BY <1>p, <1>u DEF StatusesFit
  <2>2. invoice'[i].due = invoice[i].due
    BY <1>g, <1>r, <1>u DEF RowsLast, GatewayShape, SessionsWhole, DeliveriesWhole
  <2> QED
    BY <1>s, <1>u, <2>1, <2>2 DEF StatusFits
<1> QED
  BY <1>g, <1>5, <1>6, <1>7, <1>8 DEF GatewayInv

LEMMA WebhookAddsItsOwn ==
  ASSUME GatewayInv, NEW d \in Deliveries, NEW c \in Sessions, NEW i \in Invoices,
         WriteInvoice(d), c = delivery[d].session, i = session[c].invoice
  PROVE  /\ PaidOnline(i)' = PaidOnline(i) \cup ({d} \X (1..session[c].amount))
         /\ PaidOnline(i) \cap ({d} \X (1..session[c].amount)) = {}
         /\ \A j \in Invoices : j # i => PaidOnline(j)' = PaidOnline(j)
<1>1. /\ delivery[d].step = "read" /\ session' = session
      /\ delivery' = [delivery EXCEPT ![d].step = "done"]
  BY DEF WriteInvoice
<1>2. delivery \in [Deliveries -> DeliveryRows] /\ c # None
  BY SessionsAssumption DEF GatewayInv, GatewayShape
<1>3. /\ delivery'[d].step = "done" /\ delivery'[d].session = c
      /\ \A e \in Deliveries : e # d => delivery'[e] = delivery[e]
  BY <1>1, <1>2 DEF DeliveryRows
<1>4. \A j \in Invoices : \A u : u \in PaidOnline(j)' <=>
        \/ u \in PaidOnline(j)
        \/ j = i /\ u \in {d} \X (1..session[c].amount)
  <2> SUFFICES ASSUME NEW j \in Invoices, NEW u
               PROVE  u \in PaidOnline(j)' <=>
                        \/ u \in PaidOnline(j)
                        \/ j = i /\ u \in {d} \X (1..session[c].amount)
    OBVIOUS
  <2>1. u \in PaidOnline(j) <=> \E e \in Deliveries :
          e \in Handled(j) /\ u \in {e} \X (1..session[delivery[e].session].amount)
    BY OnlineUnits
  <2>2. u \in PaidOnline(j)' <=> \E e \in Deliveries :
          e \in Handled(j)' /\ u \in {e} \X (1..session'[delivery'[e].session].amount)
    BY DEF PaidOnline, Handled
  <2>3. \A e \in Deliveries : e # d => (e \in Handled(j)' <=> e \in Handled(j))
    BY <1>1, <1>3 DEF Handled
  <2>4. d \notin Handled(j) /\ (d \in Handled(j)' <=> j = i)
    BY <1>1, <1>2, <1>3 DEF Handled
  <2> QED
    BY <1>1, <1>3, <2>1, <2>2, <2>3, <2>4
<1>5. PaidOnline(i) \cap ({d} \X (1..session[c].amount)) = {}
  <2>1. \A u \in PaidOnline(i) : u[1] # d
    BY <1>1, OnlineUnits DEF Handled
  <2> QED
    BY <2>1
<1> QED
  BY <1>4, <1>5

LEMMA WebhookStep ==
  ASSUME GatewayInv, NEW d \in Deliveries, WriteInvoice(d)
  PROVE  GatewayInv'
<1>g. GatewayShape /\ GatewayShape' /\ TypeOK
  <2>1. [GatewayNext]_gatewayAllVars
    BY DEF GatewayNext, GatewayStep
  <2> QED
    BY <2>1, GatewayShapeStep DEF GatewayInv, GatewayShape
<1>p. OnlineFinite /\ TotalsCovered /\ CallsCovered /\ StatusesFit /\ StatusFollowsTotal
  BY DEF GatewayInv
<1>1. PICK c \in Sessions : c = delivery[d].session
  BY <1>g DEF GatewayShape, WriteInvoice, ReadsWhole
<1>2. PICK i \in Invoices : i = session[c].invoice /\ invoice[i].status # "NONE"
  BY <1>g, <1>1 DEF GatewayShape, WriteInvoice, SessionsWhole, DeliveriesWhole
<1>3. /\ delivery[d].step = "read"
      /\ invoice' = [invoice EXCEPT
           ![i].paid = delivery[d].total, ![i].status = delivery[d].status]
      /\ delivery' = [delivery EXCEPT ![d].step = "done"]
      /\ UNCHANGED <<submission, session>>
  BY <1>1, <1>2 DEF WriteInvoice
<1>4. PICK n \in Nat : n = session[c].amount /\ n > 0
  BY <1>g, <1>1, <1>3 DEF GatewayShape, SessionRows, SessionsWhole, DeliveriesWhole
<1>5. /\ PaidOnline(i)' = PaidOnline(i) \cup ({d} \X (1..n))
      /\ PaidOnline(i) \cap ({d} \X (1..n)) = {}
      /\ \A j \in Invoices : j # i => PaidOnline(j)' = PaidOnline(j)
  BY <1>1, <1>2, <1>4, WebhookAddsItsOwn
<1>6. \A j : Credited(j)' = Credited(j)
  BY <1>3 DEF Credited
<1>7. IsFiniteSet({d} \X (1..n)) /\ Cardinality({d} \X (1..n)) = n
  BY UnitsOfCall
<1>8. /\ IsFiniteSet(PaidOnline(i)')
      /\ Cardinality(PaidOnline(i)') = Cardinality(PaidOnline(i)) + n
  <2>1. IsFiniteSet(PaidOnline(i))
    BY <1>p DEF OnlineFinite
  <2>2. Cardinality(PaidOnline(i) \cap ({d} \X (1..n))) = 0
    BY <1>5, FS_EmptySet
  <2>3. IsFiniteSet(PaidOnline(i) \cup ({d} \X (1..n))) /\
        Cardinality(PaidOnline(i) \cup ({d} \X (1..n))) =
            Cardinality(PaidOnline(i)) + Cardinality({d} \X (1..n))
                - Cardinality(PaidOnline(i) \cap ({d} \X (1..n)))
    BY <1>7, <2>1, FS_Union, Zenon
  <2>4. Cardinality(PaidOnline(i)) \in Nat
    BY <2>1, FS_CardinalityType
  <2> QED
    BY <1>5, <1>7, <2>2, <2>3, <2>4
<1>9. Known(i)' = Known(i) + n /\ \A j \in Invoices : j # i => Known(j)' = Known(j)
  BY <1>5, <1>6, <1>8, <1>p, KnownIsNat DEF Known
<1>10. \A j \in Invoices : Known(j) \in Nat
  BY <1>p, KnownIsNat
<1>11. OnlineFinite'
  BY <1>5, <1>8, <1>p DEF OnlineFinite
<1>12. delivery[d].total > 0 /\ delivery[d].total <= Known(i) + n /\ delivery[d].total \in Nat
  BY <1>1, <1>2, <1>3, <1>4, <1>g, <1>p DEF TotalsCovered, GatewayShape, DeliveryRows
<1>13. /\ invoice[i] \in InvoiceRows
       /\ invoice'[i].paid = delivery[d].total /\ invoice'[i].due = invoice[i].due
       /\ invoice'[i].status = delivery[d].status
       /\ \A j \in Invoices : j # i => invoice'[j] = invoice[j]
  BY <1>g, <1>2, <1>3 DEF TypeOK, Shapes, InvoiceRows
<1>14. CallsCovered'
  BY <1>9, <1>10, <1>12, <1>13, <1>p DEF CallsCovered
<1>s. /\ delivery'[d].session = c /\ delivery'[d].step = "done"
      /\ \A e \in Deliveries :
            /\ delivery'[e].total = delivery[e].total
            /\ delivery'[e].status = delivery[e].status
            /\ delivery'[e].session = delivery[e].session
            /\ e # d => delivery'[e] = delivery[e]
  <2>1. delivery \in [Deliveries -> DeliveryRows]
    BY <1>g DEF GatewayShape
  <2> QED
    BY <1>1, <1>3, <2>1 DEF DeliveryRows
<1>d. \A j \in Invoices : invoice'[j].due = invoice[j].due
  BY <1>13
<1>c. \A e \in Deliveries, j \in Invoices : ShortCall(e, j)' <=> ShortCall(e, j)
  <2> TAKE e \in Deliveries, j \in Invoices
  <2>1. /\ delivery'[e].total = delivery[e].total /\ delivery'[e].session = delivery[e].session
        /\ session' = session /\ invoice'[j].due = invoice[j].due
    BY <1>3, <1>d, <1>s
  <2> QED
    BY <2>1 DEF ShortCall
<1>h. \A j \in Invoices : \A e \in Handled(j) : e \in Handled(j)' /\ e \in Deliveries
  BY <1>3, <1>s DEF Handled
<1>15. StatusFollowsTotal'
  <2> SUFFICES ASSUME NEW j \in Invoices, invoice'[j].status # "NONE"
               PROVE  /\ invoice'[j].status = "PAID" => invoice'[j].paid >= invoice'[j].due
                      /\ invoice'[j].paid >= invoice'[j].due =>
                            \/ invoice'[j].status = "PAID"
                            \/ /\ invoice'[j].paid = invoice'[j].due
                               /\ \E e \in Handled(j)' : ShortCall(e, j)'
                      /\ invoice'[j].status = "UNPAID" <=> invoice'[j].paid = 0
    BY DEF StatusFollowsTotal
  <2>1. CASE j = i
    <3>1. StatusFits(d, i)
      BY <1>1, <1>2, <1>3, <1>p DEF StatusesFit
    <3>2. d \in Handled(i)'
      BY <1>1, <1>2, <1>3, <1>s, SessionsAssumption DEF Handled
    <3> QED
      BY <1>12, <1>13, <1>c, <2>1, <3>1, <3>2 DEF StatusFits
  <2>2. CASE j # i
    BY <1>13, <1>c, <1>h, <1>p, <2>2 DEF StatusFollowsTotal
  <2> QED
    BY <2>1, <2>2
<1>17. StatusesFit'
  <2> SUFFICES ASSUME NEW e \in Deliveries, NEW x \in Sessions, NEW j \in Invoices,
                      delivery'[e].step = "read", delivery'[e].session = x, session'[x].invoice = j
               PROVE  StatusFits(e, j)'
    BY DEF StatusesFit
  <2>1. e # d
    BY <1>s
  <2>3. delivery'[e] = delivery[e]
    BY <1>s, <2>1
  <2>2. StatusFits(e, j)
    BY <1>3, <1>p, <2>3 DEF StatusesFit
  <2> QED
    BY <1>c, <1>d, <2>2, <2>3 DEF StatusFits
<1>16. TotalsCovered'
  <2> SUFFICES ASSUME NEW e \in Deliveries, NEW x \in Sessions, NEW j \in Invoices,
                      delivery'[e].step = "read", delivery'[e].session = x, session'[x].invoice = j
               PROVE  delivery'[e].total > 0 /\ delivery'[e].total <= Known(j)' + session'[x].amount
    BY DEF TotalsCovered
  <2>1. e # d /\ delivery'[e] = delivery[e]
    BY <1>g, <1>3 DEF GatewayShape, DeliveryRows
  <2>2. delivery[e].total > 0 /\ delivery[e].total <= Known(j) + session[x].amount
    BY <1>3, <1>p, <2>1 DEF TotalsCovered
  <2>3. Known(j) <= Known(j)' /\ Known(j)' \in Nat /\ Known(j) \in Nat
    BY <1>4, <1>9, <1>10
  <2>4. session[x].amount \in Nat /\ delivery[e].total \in Nat
    BY <1>g DEF GatewayShape, SessionRows, DeliveryRows
  <2> QED
    BY <1>3, <2>1, <2>2, <2>3, <2>4
<1> QED
  BY <1>g, <1>11, <1>14, <1>15, <1>16, <1>17 DEF GatewayInv

(* Steps of checkout sessions and webhook calls that write no invoice. *)
LEMMA OtherGatewaySteps ==
  ASSUME GatewayInv, GatewayShape', UNCHANGED vars,
         \A i \in Invoices : PaidOnline(i)' = PaidOnline(i),
         \A i \in Invoices : \A d \in Handled(i) :
           d \in Handled(i)' /\ (ShortCall(d, i) => ShortCall(d, i)'),
         \A d \in Deliveries, c \in Sessions, i \in Invoices :
           delivery'[d].step = "read" /\ delivery'[d].session = c /\ session'[c].invoice = i =>
             /\ delivery'[d].total > 0 /\ delivery'[d].total <= Known(i) + session'[c].amount
             /\ StatusFits(d, i)'
  PROVE  GatewayInv'
<1>1. UNCHANGED <<invoice, submission>>
  BY DEF vars, tables
<1>2. \A i \in Invoices : Credited(i)' = Credited(i)
  BY <1>1 DEF Credited
<1>3. \A i \in Invoices : Known(i)' = Known(i)
  BY <1>2 DEF Known
<1>4. OnlineFinite' /\ CallsCovered' /\ StatusFollowsTotal'
  BY <1>1, <1>3 DEF GatewayInv, OnlineFinite, CallsCovered, StatusFollowsTotal
<1>5. TotalsCovered' /\ StatusesFit'
  BY <1>3 DEF TotalsCovered, StatusesFit
<1> QED
  BY <1>4, <1>5 DEF GatewayInv

(* A checkout session is opened or paid, and no webhook call sees it.      *)
LEMMA SessionsOnlyStep ==
  ASSUME GatewayInv, GatewayShape', UNCHANGED vars, delivery' = delivery,
         \A d \in Deliveries : delivery[d].step # "idle" =>
           /\ session'[delivery[d].session].invoice = session[delivery[d].session].invoice
           /\ session'[delivery[d].session].amount = session[delivery[d].session].amount
  PROVE  GatewayInv'
<1>1. UNCHANGED invoice
  BY DEF vars, tables
<1>2. \A i \in Invoices : Handled(i)' = Handled(i)
  BY DEF Handled
<1>3. \A i \in Invoices : PaidOnline(i)' = PaidOnline(i)
  <2> TAKE i \in Invoices
  <2>1. PICK H : H = Handled(i)
    OBVIOUS
  <2>2. \A d \in H : session'[delivery'[d].session].amount = session[delivery[d].session].amount
    BY <2>1 DEF Handled
  <2>3. Handled(i)' = H
    BY <1>2, <2>1
  <2> QED
    BY <2>1, <2>2, <2>3 DEF PaidOnline
<1>4. \A d \in Deliveries, i \in Invoices :
         delivery[d].step # "idle" => (ShortCall(d, i)' <=> ShortCall(d, i))
  BY <1>1 DEF ShortCall
<1>5. \A i \in Invoices : \A d \in Handled(i) : d \in Handled(i)' /\ (ShortCall(d, i) => ShortCall(d, i)')
  BY <1>2, <1>4 DEF Handled
<1>6. ASSUME NEW d \in Deliveries, NEW c \in Sessions, NEW i \in Invoices,
             delivery'[d].step = "read", delivery'[d].session = c, session'[c].invoice = i
      PROVE  /\ delivery'[d].total > 0 /\ delivery'[d].total <= Known(i) + session'[c].amount
             /\ StatusFits(d, i)'
  <2>1. /\ delivery[d].total > 0 /\ delivery[d].total <= Known(i) + session[c].amount
        /\ StatusFits(d, i)
    BY <1>6 DEF GatewayInv, TotalsCovered, StatusesFit
  <2> QED
    BY <1>1, <1>4, <1>6, <2>1 DEF StatusFits
<1> QED
  BY <1>3, <1>5, <1>6, OtherGatewaySteps

(* A webhook call reads the invoice, or dies. *)
LEMMA CallsOnlyStep ==
  ASSUME GatewayInv, GatewayShape', UNCHANGED vars, session' = session, NEW d \in Deliveries,
         delivery[d].step # "done", \A e \in Deliveries : e # d => delivery'[e] = delivery[e],
         \/ delivery'[d].step = "done" /\ delivery'[d].session = None
         \/ /\ delivery'[d].step = "read"
            /\ \A c \in Sessions, i \in Invoices :
                  delivery'[d].session = c /\ session[c].invoice = i =>
                    /\ delivery'[d].total > 0
                    /\ delivery'[d].total <= Known(i) + session[c].amount
                    /\ StatusFits(d, i)'
  PROVE  GatewayInv'
<1>1. UNCHANGED invoice
  BY DEF vars, tables
<1>2. \A i \in Invoices : Handled(i)' = Handled(i) /\ d \notin Handled(i)
  <2> TAKE i \in Invoices
  <2>1. d \notin Handled(i) /\ d \notin Handled(i)'
    BY DEF Handled
  <2> QED
    BY <2>1 DEF Handled
<1>3. \A i \in Invoices : PaidOnline(i)' = PaidOnline(i)
  <2> TAKE i \in Invoices
  <2>1. PICK H : H = Handled(i)
    OBVIOUS
  <2>2. \A e \in H : delivery'[e] = delivery[e]
    BY <1>2, <2>1 DEF Handled
  <2>3. Handled(i)' = H
    BY <1>2, <2>1
  <2> QED
    BY <2>1, <2>2, <2>3 DEF PaidOnline
<1>4. \A e \in Deliveries, i \in Invoices : e # d => (ShortCall(e, i)' <=> ShortCall(e, i))
  BY <1>1 DEF ShortCall
<1>5. \A i \in Invoices : \A e \in Handled(i) : e \in Handled(i)' /\ (ShortCall(e, i) => ShortCall(e, i)')
  BY <1>2, <1>4 DEF Handled
<1>6. ASSUME NEW e \in Deliveries, NEW c \in Sessions, NEW i \in Invoices,
             delivery'[e].step = "read", delivery'[e].session = c, session'[c].invoice = i
      PROVE  /\ delivery'[e].total > 0 /\ delivery'[e].total <= Known(i) + session'[c].amount
             /\ StatusFits(e, i)'
  <2>1. CASE e = d
    BY <1>6, <2>1
  <2>2. CASE e # d
    <3>1. /\ delivery[e].total > 0 /\ delivery[e].total <= Known(i) + session[c].amount
          /\ StatusFits(e, i)
      BY <1>6, <2>2 DEF GatewayInv, TotalsCovered, StatusesFit
    <3> QED
      BY <1>1, <1>4, <1>6, <2>2, <3>1 DEF StatusFits
  <2> QED
    BY <2>1, <2>2
<1> QED
  BY <1>3, <1>5, <1>6, OtherGatewaySteps

LEMMA GatewayInvStep ==
  GatewayInv /\ [GatewayNext]_gatewayAllVars => GatewayInv'
<1> SUFFICES ASSUME GatewayInv, [GatewayNext]_gatewayAllVars
             PROVE  GatewayInv'
  OBVIOUS
<1>g. /\ GatewayShape /\ GatewayShape' /\ TypeOK
      /\ session \in [Sessions -> SessionRows] /\ delivery \in [Deliveries -> DeliveryRows]
      /\ SessionsWhole /\ DeliveriesWhole /\ ReadsWhole /\ ReadsStatus
  BY GatewayShapeStep DEF GatewayInv, GatewayShape
<1>p. OnlineFinite /\ TotalsCovered /\ CallsCovered /\ StatusesFit /\ StatusFollowsTotal
  BY DEF GatewayInv
<1>1. CASE [Next]_vars /\ UNCHANGED gatewayVars
  BY <1>1, ReviewsKeepOnline
<1>u. UNCHANGED vars => UNCHANGED <<invoice, submission>>
  BY DEF vars, tables
<1>2. ASSUME NEW c \in Sessions, NEW i \in Invoices, InitiateCheckout(c, i)
      PROVE  GatewayInv'
  <2>1. /\ session[c].status = "NONE" /\ UNCHANGED <<vars, delivery>>
        /\ session' = [session EXCEPT ![c] =
             [status |-> "open", invoice |-> i, amount |-> invoice[i].due - invoice[i].paid]]
    BY <1>2 DEF InitiateCheckout, UnitAmount
  <2>2. \A e \in Sessions : e # c => session'[e] = session[e]
    BY <1>g, <2>1
  <2>3. \A d \in Deliveries : delivery[d].step # "idle" => delivery[d].session # c
    BY <1>g, <2>1 DEF DeliveriesWhole
  <2>4. \A d \in Deliveries :
           delivery[d].step # "idle" => session'[delivery[d].session] = session[delivery[d].session]
    BY <1>g, <2>1, <2>2, <2>3, SessionsAssumption DEF DeliveryRows, SessionRows
  <2> QED
    BY <1>g, <1>u, <2>1, <2>4, SessionsOnlyStep
<1>3. ASSUME NEW c \in Sessions, PayOnline(c)
      PROVE  GatewayInv'
  <2>1. UNCHANGED <<vars, delivery>> /\ session' = [session EXCEPT ![c].status = "paid"]
    BY <1>3 DEF PayOnline
  <2>2. \A e \in Sessions : /\ session'[e].invoice = session[e].invoice
                            /\ session'[e].amount = session[e].amount
    BY <1>g, <2>1 DEF SessionRows
  <2>3. \A e : e \notin Sessions => session'[e] = session[e]
    BY <1>g, <2>1
  <2> QED
    BY <1>g, <1>u, <2>1, <2>2, <2>3, SessionsOnlyStep
<1>4. ASSUME NEW d \in Deliveries, NEW c \in Sessions, ReadInvoice(d, c)
      PROVE  GatewayInv'
  <2>1. /\ delivery[d].step = "idle" /\ session[c].status = "paid" /\ UNCHANGED <<vars, session>>
    BY <1>4 DEF ReadInvoice
  <2>2. PICK i \in Invoices, p \in Nat, n \in Nat, due \in Nat :
           /\ session[c].invoice = i /\ invoice[i].paid = p /\ session[c].amount = n /\ n > 0
           /\ invoice[i].due = due
    <3>1. /\ session[c].invoice \in Invoices /\ session[c].amount \in Nat /\ session[c].amount > 0
      BY <1>g, <2>1 DEF SessionRows, SessionsWhole
    <3>2. \A j \in Invoices : invoice[j].paid \in Nat /\ invoice[j].due \in Nat
      <4>1. invoice \in [Invoices -> InvoiceRows]
        BY <1>g DEF TypeOK, Shapes
      <4>2. \A r \in InvoiceRows : r.paid \in Nat /\ r.due \in Dues \cup {0}
        BY DEF InvoiceRows
      <4>3. Dues \cup {0} \subseteq Nat
        BY BoundsAssumption
      <4> HIDE DEF InvoiceRows
      <4> QED
        BY <4>1, <4>2, <4>3
    <3> QED
      BY <3>1, <3>2
  <2>3. /\ delivery'[d].step = "read" /\ delivery'[d].session = c /\ delivery'[d].total = p + n
        /\ delivery'[d].status = IF p + n > due \/ (p + n = due /\ <<p, n>> \notin FallsShort)
                                 THEN "PAID" ELSE "PARTIALLY_PAID"
        /\ \A e \in Deliveries : e # d => delivery'[e] = delivery[e]
    BY <1>4, <1>g, <2>2
       DEF ReadInvoice, TotalToWrite, RupeeSum, Rupees, FromStripe, Reaches, DeliveryRows
  <2>4. /\ delivery'[d].total > 0 /\ delivery'[d].total <= Known(i) + session[c].amount
        /\ StatusFits(d, i)'
    <3>1. p <= Known(i) /\ Known(i) \in Nat
      BY <1>p, <2>2, KnownIsNat DEF CallsCovered
    <3>2. invoice' = invoice /\ session' = session
      BY <1>u, <2>1
    <3>3. (p + n) - n = p
      OBVIOUS
    <3> QED
      BY <2>2, <2>3, <3>1, <3>2, <3>3 DEF StatusFits, ShortCall
  <2> QED
    BY <1>g, <1>u, <2>1, <2>2, <2>3, <2>4, CallsOnlyStep
<1>5. ASSUME NEW d \in Deliveries, DropDelivery(d)
      PROVE  GatewayInv'
  <2>1. /\ delivery[d].step = "read" /\ UNCHANGED <<vars, session>>
        /\ delivery' = [delivery EXCEPT ![d].step = "done", ![d].session = None]
    BY <1>5 DEF DropDelivery
  <2>2. /\ delivery'[d].step = "done" /\ delivery'[d].session = None
        /\ \A e \in Deliveries : e # d => delivery'[e] = delivery[e]
    <3>1. delivery[d] \in DeliveryRows
      BY <1>g
    <3>2. /\ [delivery[d] EXCEPT !.step = "done", !.session = None].step = "done"
          /\ [delivery[d] EXCEPT !.step = "done", !.session = None].session = None
      BY <3>1 DEF DeliveryRows
    <3> QED
      BY <1>g, <2>1, <3>2
  <2> QED
    BY <1>g, <1>u, <2>1, <2>2, CallsOnlyStep
<1> QED
  BY <1>1, <1>2, <1>3, <1>4, <1>5, WebhookStep DEF GatewayNext, GatewayStep, gatewayAllVars

LEMMA GatewayInvInit == GatewayInit => GatewayInv
<1> SUFFICES ASSUME GatewayInit
             PROVE  GatewayInv
  OBVIOUS
<1>1. TypeOK /\ VerifiedMoneyCounted
  BY InitTyped, InitMoneyCounted DEF GatewayInit
<1>2. /\ \A c \in Sessions : session[c].status = "NONE"
      /\ \A d \in Deliveries : delivery[d].step = "idle"
      /\ session \in [Sessions -> SessionRows] /\ delivery \in [Deliveries -> DeliveryRows]
  BY DEF GatewayInit, NoSession, NoDelivery, SessionRows, DeliveryRows
<1>3. GatewayShape
  BY <1>1, <1>2 DEF GatewayShape, SessionsWhole, DeliveriesWhole, ReadsWhole, ReadsStatus
<1>4. \A i \in Invoices : PaidOnline(i) = {}
  BY <1>2 DEF PaidOnline, Handled
<1>5. OnlineFinite /\ TotalsCovered /\ StatusesFit
  BY <1>2, <1>4, FS_EmptySet DEF OnlineFinite, TotalsCovered, StatusesFit
<1>6. CallsCovered
  <2> SUFFICES ASSUME NEW i \in Invoices
               PROVE  invoice[i].paid <= Cardinality(Credited(i)) + Cardinality(PaidOnline(i))
    BY DEF CallsCovered, Known
  <2>1. Cardinality(PaidOnline(i)) = 0
    BY <1>4, FS_EmptySet
  <2>2. Cardinality(Credited(i)) \in Nat
    BY CreditedFinite, FS_CardinalityType
  <2>3. invoice[i].paid = Cardinality(Credited(i))
    BY <1>1 DEF VerifiedMoneyCounted
  <2> QED
    BY <2>1, <2>2, <2>3
<1>7. StatusFollowsTotal
  BY DEF GatewayInit, Init, NoInvoice, StatusFollowsTotal
<1> QED
  BY <1>3, <1>5, <1>6, <1>7 DEF GatewayInv

LEMMA GatewayInvHolds == GatewaySpec => []GatewayInv
BY GatewayInvInit, GatewayInvStep, PTL DEF GatewaySpec

(* Sessions and webhook calls keep their shape, beside every review.       *)
THEOREM GatewayTypeCorrect == GatewaySpec => []GatewayTypeOK
<1>1. GatewayInv => GatewayTypeOK
  BY DEF GatewayInv, GatewayShape, GatewayTypeOK, SessionRows, DeliveryRows
<1> QED
  BY <1>1, GatewayInvHolds, PTL

(* Each handled call adds the amount of its session: the first one money   *)
(* that was sent, the later ones money that was credited before.           *)
LEMMA CallsAreSentOrRepeated ==
  ASSUME GatewayInv, NEW i \in Invoices
  PROVE  /\ Cardinality(PaidOnline(i)) <= Cardinality(SentOnline(i)) + Cardinality(CreditedAgain(i))
         /\ Cardinality(SentOnline(i)) \in Nat /\ Cardinality(CreditedAgain(i)) \in Nat
<1>g. /\ session \in [Sessions -> SessionRows] /\ delivery \in [Deliveries -> DeliveryRows]
      /\ DeliveriesWhole /\ IsFiniteSet(PaidOnline(i))
  BY DEF GatewayInv, GatewayShape, OnlineFinite
<1> DEFINE of(d) == delivery[d].session
           amount(c) == session[c].amount
           Again == CreditedAgain(i)
           First == PaidOnline(i) \ Again
<1>1. \A d \in Handled(i) : /\ d \in Deliveries /\ of(d) \in Sessions /\ amount(of(d)) \in Nat
                            /\ session[of(d)].status = "paid" /\ session[of(d)].invoice = i
  BY <1>g DEF Handled, DeliveryRows, SessionRows, DeliveriesWhole
<1>2. IsFiniteSet(SentOnline(i))
  <2> DEFINE S == {x \in Sessions : session[x].status = "paid" /\ session[x].invoice = i}
             f == [c \in S |-> {c} \X (1..amount(c))]
  <2>1. IsFiniteSet(S)
    BY SessionsAssumption, FS_Subset
  <2>2. ASSUME NEW c \in S
        PROVE  IsFiniteSet(f[c])
    <3>1. session[c].amount \in Nat
      BY <1>g DEF SessionRows
    <3> QED
      BY <3>1, UnitsOfCall
  <2>3. DOMAIN f = S /\ SentOnline(i) = UNION {f[c] : c \in S}
    BY DEF SentOnline
  <2> HIDE DEF f, S
  <2>4. IsFiniteSet({f[c] : c \in S})
    BY <2>1, <2>3, ImageFinite
  <2> QED
    BY <2>2, <2>3, <2>4, FS_UNION
<1>3. /\ IsFiniteSet(Again) /\ Again \subseteq PaidOnline(i)
  <2>1. Again \subseteq PaidOnline(i)
    BY DEF CreditedAgain, PaidOnline
  <2> QED
    BY <1>g, <2>1, FS_Subset
<1>4. \A u \in First : \E d \in Handled(i) :
         /\ u \in {d} \X (1..amount(of(d))) /\ d = FirstCall(of(d), i)
  BY DEF PaidOnline, CreditedAgain
<1> DEFINE f == [u \in First |-> <<of(u[1]), u[2]>>]
<1>5. \A u \in First : f[u] \in SentOnline(i)
  <2> TAKE u \in First
  <2>1. PICK d \in Handled(i) : u \in {d} \X (1..amount(of(d)))
    BY <1>4
  <2>2. f[u] = <<of(d), u[2]>> /\ u[2] \in 1..amount(of(d))
    BY <2>1
  <2>3. f[u] \in {of(d)} \X (1..amount(of(d)))
    BY <2>2
  <2> QED
    BY <1>1, <2>3 DEF SentOnline
<1>6. \A u, v \in First : f[u] = f[v] => u = v
  <2> SUFFICES ASSUME NEW u \in First, NEW v \in First, f[u] = f[v]
               PROVE  u = v
    OBVIOUS
  <2>1. PICK d \in Handled(i) : u \in {d} \X (1..amount(of(d))) /\ d = FirstCall(of(d), i)
    BY <1>4
  <2>2. PICK e \in Handled(i) : v \in {e} \X (1..amount(of(e))) /\ e = FirstCall(of(e), i)
    BY <1>4
  <2>3. u = <<d, u[2]>> /\ v = <<e, v[2]>> /\ of(d) = of(e) /\ u[2] = v[2]
    BY <2>1, <2>2
  <2> QED
    BY <2>1, <2>2, <2>3
<1>7. f \in Injection(First, SentOnline(i))
  BY <1>5, <1>6 DEF Injection, IsInjective
<1> HIDE DEF f
<1>8. Cardinality(First) <= Cardinality(SentOnline(i))
  BY <1>2, <1>7, FS_Injection
<1>9. IsFiniteSet(First) /\ First \cap Again = {} /\ First \cup Again = PaidOnline(i)
  BY <1>3, <1>g, FS_Subset
<1> HIDE DEF First, Again
<1>10. Cardinality(PaidOnline(i)) = Cardinality(First) + Cardinality(Again) - Cardinality({})
  BY <1>3, <1>9, FS_Union
<1>11. /\ Cardinality(First) \in Nat /\ Cardinality(Again) \in Nat /\ Cardinality({}) = 0
       /\ Cardinality(SentOnline(i)) \in Nat
  BY <1>2, <1>3, <1>9, FS_CardinalityType, FS_EmptySet
<1> QED
  BY <1>8, <1>10, <1>11 DEF Again

LEMMA MoneyIsAccountedFor == GatewayInv => OnlineTotalsHold
<1> SUFFICES ASSUME GatewayInv, NEW i \in Invoices
             PROVE  invoice[i].paid <= Cardinality(Credited(i)) + Cardinality(SentOnline(i))
                                           + Cardinality(CreditedAgain(i))
  BY DEF GatewayInv, OnlineTotalsHold, NoMoneyInvented
<1>1. /\ invoice[i].paid <= Known(i) /\ invoice[i].paid \in Nat
      /\ Cardinality(Credited(i)) \in Nat /\ Cardinality(PaidOnline(i)) \in Nat
  BY KnownIsNat DEF GatewayInv, GatewayShape, CallsCovered, TypeOK, Shapes, InvoiceRows
<1>2. Cardinality(PaidOnline(i)) <= Cardinality(SentOnline(i)) + Cardinality(CreditedAgain(i))
  BY CallsAreSentOrRepeated
<1>3. Cardinality(SentOnline(i)) \in Nat /\ Cardinality(CreditedAgain(i)) \in Nat
  BY CallsAreSentOrRepeated
<1> QED
  BY <1>1, <1>2, <1>3 DEF Known

(* However webhook calls and reviews cross, an invoice shows no more than  *)
(* verified claims, paid sessions counted once, and what repeated calls    *)
(* credited again; its status agrees with its total but for exact payments *)
(* whose sum of doubles falls short of what is due.                        *)
THEOREM OnlineTotalsHoldAlways == GatewaySpec => []OnlineTotalsHold
BY GatewayInvHolds, MoneyIsAccountedFor, PTL

(***************************************************************************)
(* The bank statement.                                                     *)
(***************************************************************************)
(* Only lines of a school are matched. *)
LinesWhole ==
  /\ line \in [Lines -> [school : Schools \cup {None}, amount : 0..MaxAmount,
                        match : Submissions \cup {None}]]
  /\ \A l \in Lines : line[l].match # None => line[l].school # None

LEMMA MatchedLinesStay ==
  LinesWhole /\ [BankNext]_bankAllVars =>
    LinesWhole' /\ \A l \in Lines : line[l].match # None => line'[l] = line[l]
<1> SUFFICES ASSUME LinesWhole, [BankNext]_bankAllVars
             PROVE  LinesWhole' /\ \A l \in Lines : line[l].match # None => line'[l] = line[l]
  OBVIOUS
<1> DEFINE Rows == [school : Schools \cup {None}, amount : 0..MaxAmount,
                    match : Submissions \cup {None}]
<1>1. ASSUME UNCHANGED line
      PROVE  LinesWhole' /\ \A l \in Lines : line[l].match # None => line'[l] = line[l]
  BY <1>1 DEF LinesWhole
<1>2. ASSUME NEW school \in Schools, NEW batch \in SUBSET Lines, ImportStatement(school, batch)
      PROVE  LinesWhole' /\ \A l \in Lines : line[l].match # None => line'[l] = line[l]
  <2>1. PICK amount \in [batch -> 1..MaxAmount] :
          line' = [l \in Lines |->
              IF l \in batch
              THEN [school |-> school, amount |-> amount[l], match |-> None]
              ELSE line[l]]
    BY <1>2 DEF ImportStatement
  <2>2. \A l \in batch : amount[l] \in 0..MaxAmount
    BY BoundsAssumption
  <2>3. \A l \in batch : /\ [school |-> school, amount |-> amount[l], match |-> None] \in Rows
                         /\ [school |-> school, amount |-> amount[l], match |-> None].match = None
    BY <2>2
  <2>4. \A l \in batch : line[l].match = None
    BY <1>2 DEF ImportStatement, Imported, LinesWhole
  <2>5. line' \in [Lines -> Rows]
    BY <2>1, <2>3 DEF LinesWhole
  <2>6. \A l \in Lines : l \in batch => line'[l].match = None
    BY <2>1, <2>3
  <2>7. \A l \in Lines : l \notin batch => line'[l] = line[l]
    BY <2>1
  <2> QED
    BY <2>4, <2>5, <2>6, <2>7 DEF LinesWhole
<1>3. ASSUME NEW school \in Schools, NEW p \in shown[school], ConfirmMatch(school, p)
      PROVE  LinesWhole' /\ \A l \in Lines : line[l].match # None => line'[l] = line[l]
  <2>1. /\ p.submission \in Submissions
        /\ line[p.line].school = school /\ line[p.line].match = None
        /\ line' = [line EXCEPT ![p.line].match = p.submission]
    BY <1>3 DEF ConfirmMatch, Unspent, Filed
  <2>2. \A l \in Lines : l # p.line => line'[l] = line[l]
    BY <2>1 DEF LinesWhole
  <2>3. p.line \in Lines => line'[p.line] \in Rows /\ line'[p.line].school = school
    BY <2>1 DEF LinesWhole
  <2>4. line' \in [Lines -> Rows]
    BY <2>1, <2>2, <2>3 DEF LinesWhole
  <2>5. school # None
    BY SchoolsAssumption
  <2> QED
    BY <2>1, <2>2, <2>3, <2>4, <2>5 DEF LinesWhole
<1>4. CASE (Next /\ UNCHANGED bankVars) \/ (\E d \in Desks : ReadPending(d) \/ ReadLines(d))
           \/ UNCHANGED bankAllVars
  BY <1>1, <1>4 DEF bankVars, bankAllVars, ReadPending, ReadLines
<1> QED
  BY <1>2, <1>3, <1>4 DEF BankNext, BankStep

(* "A line can be spent once": no import, confirmation or review changes a *)
(* line that has been matched.                                             *)
THEOREM LineSpentOnceAlways == BankSpec => LineSpentOnce
<1>1. BankInit => LinesWhole
  BY BoundsAssumption DEF BankInit, LinesWhole, NotImported
<1>2. LinesWhole /\ [BankNext]_bankAllVars =>
        [\A l \in Lines : line[l].match # None => line'[l] = line[l]]_bankAllVars
  BY MatchedLinesStay
<1>3. LinesWhole /\ [BankNext]_bankAllVars => LinesWhole'
  BY MatchedLinesStay
<1> QED
  BY <1>1, <1>2, <1>3, PTL DEF BankSpec, LineSpentOnce

(***************************************************************************)
(* Suggested matches.                                                      *)
(***************************************************************************)
(* Places in an order of twins: they tell twins apart, and those before x  *)
(* have the places before that of x.                                       *)
LEMMA PlacesBefore ==
  ASSUME NEW S, S \subseteq Nat, IsFiniteSet(S), NEW x \in S
  PROVE  /\ Rank(S, x) \in Nat \ {0}
         /\ \A y \in S : Rank(S, y) < Rank(S, x) <=> y < x
         /\ \A y \in S : Rank(S, y) = Rank(S, x) => y = x
         /\ \A n \in 1..(Rank(S, x) - 1) : \E y \in S : y < x /\ Rank(S, y) = n
<1> DEFINE Before == {y \in S : y < x}
           k == Rank(S, x) - 1
           f == [y \in Before |-> Rank(S, y)]
<1>1. \A y \in S : Rank(S, y) = Place(S, y)
  BY DEF Rank, Place
<1>2. \A y \in S : Rank(S, y) \in Nat \ {0}
  <2>1. \A y \in S : Rank(S, y) \in 1..Cardinality(S)
    BY <1>1, PlaceBounds
  <2>2. Cardinality(S) \in Nat
    BY FS_CardinalityType
  <2> QED
    BY <2>1, <2>2
<1>3. \A y \in S, z \in S : y < z => Rank(S, y) < Rank(S, z)
  BY <1>1, PlaceGrows
<1>4. \A y \in S, z \in S : y \in Nat /\ z \in Nat /\ (y < z \/ z < y \/ y = z)
  OBVIOUS
<1>5. \A y \in S, z \in S : Rank(S, y) < Rank(S, z) <=> y < z
  BY <1>2, <1>3, <1>4
<1>6. \A y \in S, z \in S : Rank(S, y) = Rank(S, z) => y = z
  BY <1>2, <1>3, <1>4
<1>7. k \in Nat /\ IsFiniteSet(1..k) /\ Cardinality(1..k) = k
  BY <1>2, PrefixFinite
<1>8. f \in Injection(Before, 1..k)
  <2>1. \A y \in Before : Rank(S, y) \in 1..k
    BY <1>2, <1>3
  <2> QED
    BY <1>6, <2>1 DEF Injection, IsInjective
<1>9. Cardinality(Before) = k /\ IsFiniteSet(Before)
  <2>1. {y \in S : y <= x} \ {x} = Before
    <3>1. \A y \in S : y < x <=> y <= x /\ y # x
      BY <1>4
    <3> QED
      BY <3>1
  <2>2. IsFiniteSet({y \in S : y <= x}) /\ x \in {y \in S : y <= x}
    BY FS_Subset
  <2> QED
    BY <2>1, <2>2, FS_RemoveElement DEF Rank
<1>10. f \in Surjection(Before, 1..k)
  BY <1>7, <1>8, <1>9, FS_Injection
<1>11. \A n \in 1..k : \E y \in S : y < x /\ Rank(S, y) = n
  BY <1>10 DEF Surjection
<1> QED
  BY <1>2, <1>5, <1>6, <1>11

FairUpTo(pending, lines, s) == {p \in FairMatches(pending, lines) : p.submission <= s}
FairBefore(pending, lines, s) == {p \in FairMatches(pending, lines) : p.submission < s}

(* A turn of the loop adds what is fair for its submission: of its twins   *)
(* among the lines, those with smaller places are spoken for, so that the  *)
(* first free one has its own place, if the lines go as far.               *)
LEMMA OfferIsFair ==
  ASSUME NEW pending, pending \subseteq Nat, IsFiniteSet(pending),
         NEW lines, lines \subseteq Nat, IsFiniteSet(lines), NEW s \in pending
  PROVE  Offer(FairBefore(pending, lines, s), s, lines) = FairUpTo(pending, lines, s)
<1> DEFINE T == Twins(pending, submission, s)
           L == {l \in lines : line[l].amount = submission[s].amount}
           pairs == FairBefore(pending, lines, s)
           free == FreeLines(pairs, s, lines)
           k == Rank(T, s)
<1>1. /\ T \subseteq Nat /\ IsFiniteSet(T) /\ s \in T /\ T \subseteq pending
      /\ L \subseteq Nat /\ IsFiniteSet(L) /\ L \subseteq lines
      /\ \A t \in T : Twins(pending, submission, t) = T
      /\ \A l \in L : Twins(lines, line, l) = L
  BY FS_Subset DEF Twins
<1>2. /\ k \in Nat \ {0} /\ \A l \in L : Rank(L, l) \in Nat \ {0}
      /\ \A n \in 1..(k - 1) : \E t \in T : t < s /\ Rank(T, t) = n
      /\ \A m \in L : \A n \in 1..(Rank(L, m) - 1) : \E l \in L : l < m /\ Rank(L, l) = n
      /\ \A m \in L : \A l \in L : Rank(L, l) = Rank(L, m) => l = m
  <2> HIDE DEF T, L
  <2>1. T \subseteq Nat /\ IsFiniteSet(T) /\ s \in T /\ L \subseteq Nat /\ IsFiniteSet(L)
    BY <1>1
  <2> QED
    BY <2>1, PlacesBefore
<1>3. \A t \in pending, l \in L :
         [submission |-> t, line |-> l] \in FairMatches(pending, lines)
           <=> t \in T /\ Rank(T, t) = Rank(L, l)
  <2> SUFFICES ASSUME NEW t \in pending, NEW l \in L
               PROVE  [submission |-> t, line |-> l] \in FairMatches(pending, lines)
                        <=> t \in T /\ Rank(T, t) = Rank(L, l)
    OBVIOUS
  <2>1. t \in T <=> submission[t].amount = line[l].amount
    BY DEF Twins
  <2>2. t \in T => Twins(pending, submission, t) = T
    BY <1>1
  <2>3. Twins(lines, line, l) = L /\ l \in lines
    BY <1>1
  <2> QED
    BY <2>1, <2>2, <2>3 DEF FairMatches
<1>4. \A l \in L : (\E p \in pairs : p.line = l) <=> Rank(L, l) < k
  <2> SUFFICES ASSUME NEW l \in L
               PROVE  (\E p \in pairs : p.line = l) <=> Rank(L, l) < k
    OBVIOUS
  <2>1. ASSUME NEW p \in pairs, p.line = l
        PROVE  Rank(L, l) < k
    <3>1. /\ p \in FairMatches(pending, lines) /\ p.submission < s
          /\ p.submission \in pending /\ p = [submission |-> p.submission, line |-> l]
      BY <2>1 DEF FairBefore, FairMatches
    <3>2. p.submission \in T /\ Rank(T, p.submission) = Rank(L, l)
      BY <1>3, <3>1
    <3> QED
      BY <1>1, <3>1, <3>2, PlacesBefore
  <2>2. ASSUME Rank(L, l) < k
        PROVE  \E p \in pairs : p.line = l
    <3>1. PICK t \in T : t < s /\ Rank(T, t) = Rank(L, l)
      <4>1. Rank(L, l) \in 1..(k - 1)
        BY <1>2, <2>2
      <4> HIDE DEF T, L
      <4> QED
        BY <1>2, <4>1
    <3>2. [submission |-> t, line |-> l] \in FairMatches(pending, lines)
      BY <1>1, <1>3, <3>1
    <3>3. [submission |-> t, line |-> l] \in pairs
      BY <3>1, <3>2 DEF FairBefore
    <3> QED
      BY <3>3
  <2> QED
    BY <2>1, <2>2
<1>5. free = {l \in L : k <= Rank(L, l)}
  <2>1. free = {l \in L : ~ \E p \in pairs : p.line = l}
    BY DEF FreeLines
  <2> HIDE DEF T, L, pairs, free
  <2>2. \A l \in L : Rank(L, l) < k <=> ~ (k <= Rank(L, l))
    BY <1>2
  <2> QED
    BY <1>4, <2>1, <2>2
<1>6. FairUpTo(pending, lines, s) =
        pairs \cup {[submission |-> s, line |-> l] : l \in {x \in L : Rank(L, x) = k}}
  <2>1. ASSUME NEW p \in FairMatches(pending, lines), p.submission = s
        PROVE  p \in {[submission |-> s, line |-> l] : l \in {x \in L : Rank(L, x) = k}}
    <3>1. p.line \in L /\ p = [submission |-> s, line |-> p.line]
      BY <2>1 DEF FairMatches
    <3> QED
      BY <1>3, <2>1, <3>1
  <2>2. ASSUME NEW l \in L, Rank(L, l) = k
        PROVE  [submission |-> s, line |-> l] \in FairMatches(pending, lines)
    BY <1>1, <1>3, <2>2
  <2>3. \A p \in FairMatches(pending, lines) :
           p.submission \in Nat /\ (p.submission <= s <=> p.submission < s \/ p.submission = s)
    <3>1. \A p \in FairMatches(pending, lines) : p.submission \in pending
      BY DEF FairMatches
    <3>2. \A t \in pending : t \in Nat /\ s \in Nat /\ (t <= s <=> t < s \/ t = s)
      OBVIOUS
    <3> QED
      BY <3>1, <3>2
  <2>4. s <= s
    OBVIOUS
  <2> HIDE DEF L, T, k
  <2> QED
    BY <2>1, <2>2, <2>3, <2>4 DEF FairUpTo, FairBefore
<1> HIDE DEF T, L, pairs, free, k
<1>7. CASE free = {}
  <2>1. {x \in L : Rank(L, x) = k} = {}
    BY <1>2, <1>5, <1>7
  <2> QED
    BY <1>6, <1>7, <2>1 DEF Offer, free, pairs
<1>8. CASE free # {}
  <2>1. free \subseteq Nat
    BY <1>1, <1>5
  <2>2. PICK m \in free : m = Min(free) /\ \A l \in free : m <= l
    BY <1>8, <2>1, MinExists
  <2>3. m \in L /\ k <= Rank(L, m) /\ m \in Nat
    BY <1>5, <2>1, <2>2
  <2>4. Rank(L, m) = k
    <3> SUFFICES ASSUME Rank(L, m) # k
                 PROVE  FALSE
      OBVIOUS
    <3>1. k \in 1..(Rank(L, m) - 1)
      BY <1>2, <2>3
    <3>2. PICK l \in L : l < m /\ Rank(L, l) = k
      BY <1>2, <2>3, <3>1
    <3>3. l \in free /\ l \in Nat
      BY <1>1, <1>2, <1>5, <3>2
    <3> QED
      BY <2>2, <2>3, <3>2, <3>3
  <2>5. {x \in L : Rank(L, x) = k} = {m}
    BY <1>2, <2>3, <2>4
  <2>6. Offer(pairs, s, lines) = pairs \cup {[submission |-> s, line |-> m]}
    BY <1>8, <2>2 DEF Offer, free
  <2> QED
    BY <1>6, <2>5, <2>6 DEF pairs
<1> QED
  BY <1>7, <1>8

(* What the loop has after a submission is what is fair up to there: that  *)
(* satisfies its equation, and only one function does.                     *)
LEMMA LoopIsFair ==
  ASSUME NEW pending, pending \subseteq Nat, IsFiniteSet(pending),
         NEW lines, lines \subseteq Nat, IsFiniteSet(lines)
  PROVE  SuggestedMatches(pending, lines) = FairMatches(pending, lines)
<1> DEFINE Before(s) == {x \in pending : x < s}
           Loop(upTo) == [s \in pending |->
                            Offer(UNION {upTo[r] : r \in Before(s)}, s, lines)]
           fair == [s \in pending |-> FairUpTo(pending, lines, s)]
<1>1. SuggestedMatches(pending, lines) =
        LET upTo == CHOOSE upTo : upTo = Loop(upTo)
        IN  UNION {upTo[s] : s \in pending}
  BY DEF SuggestedMatches
<1>2. \A s \in pending : Loop(fair)[s] = fair[s]
  <2> SUFFICES ASSUME NEW s \in pending
               PROVE  Loop(fair)[s] = fair[s]
    OBVIOUS
  <2>1. \A p \in FairMatches(pending, lines) : p.submission \in pending
    BY DEF FairMatches
  <2>2. \A r, t \in pending : r <= r /\ (r <= t /\ t < s => r < s)
    OBVIOUS
  <2>3. UNION {fair[r] : r \in Before(s)} = FairBefore(pending, lines, s)
    <3>1. \A r \in Before(s) : fair[r] = FairUpTo(pending, lines, r) /\ r \in pending /\ r < s
      OBVIOUS
    <3>2. \A r \in Before(s) : \A p \in fair[r] : p \in FairBefore(pending, lines, s)
      BY <2>1, <2>2, <3>1 DEF FairBefore, FairUpTo
    <3>3. ASSUME NEW p \in FairBefore(pending, lines, s)
          PROVE  p.submission \in Before(s) /\ p \in fair[p.submission]
      BY <2>1, <2>2, <3>3 DEF FairBefore, FairUpTo
    <3> HIDE DEF fair, Before
    <3> QED
      BY <3>2, <3>3
  <2>4. Loop(fair)[s] = Offer(FairBefore(pending, lines, s), s, lines)
    BY <2>3
  <2> QED
    BY <2>4, OfferIsFair
<1>3. fair = Loop(fair)
  BY <1>2
<1>4. ASSUME NEW upTo, upTo = Loop(upTo)
      PROVE  upTo = fair
  <2> DEFINE Differ == {s \in pending : upTo[s] # fair[s]}
  <2>1. Differ = {}
    <3> SUFFICES ASSUME Differ # {}
                 PROVE  FALSE
      OBVIOUS
    <3>1. Differ \subseteq Nat
      OBVIOUS
    <3>2. PICK s \in Differ : \A t \in Differ : s <= t
      <4> HIDE DEF Differ
      <4> QED
        BY <3>1, LeastExists
    <3>3. s \in pending /\ upTo[s] # fair[s]
      BY <3>2
    <3>4. \A r \in Before(s) : upTo[r] = fair[r]
      <4>1. \A r \in Before(s) : r \in pending /\ ~ (s <= r)
        BY <3>3
      <4> QED
        BY <3>2, <4>1
    <3>5. UNION {upTo[r] : r \in Before(s)} = UNION {fair[r] : r \in Before(s)}
      <4> HIDE DEF fair, Before
      <4> QED
        BY <3>4
    <3>6. upTo[s] = Loop(upTo)[s] /\ fair[s] = Loop(fair)[s]
      BY <1>2, <1>4, <3>3
    <3>7. Loop(upTo)[s] = Loop(fair)[s]
      BY <3>3, <3>5
    <3> QED
      BY <3>3, <3>6, <3>7
  <2>2. \A s \in pending : upTo[s] = fair[s]
    BY <2>1
  <2>3. upTo = [s \in pending |-> upTo[s]]
    BY <1>4
  <2> QED
    BY <2>2, <2>3
<1>5. SuggestedMatches(pending, lines) = UNION {fair[s] : s \in pending}
  <2> HIDE DEF fair, Loop
  <2> QED
    BY <1>1, <1>3, <1>4
<1>6. \A p \in FairMatches(pending, lines) :
         p.submission \in pending /\ p \in FairUpTo(pending, lines, p.submission)
  <2>1. \A s \in pending : s <= s
    OBVIOUS
  <2> QED
    BY <2>1 DEF FairMatches, FairUpTo
<1>7. \A s \in pending : FairUpTo(pending, lines, s) \subseteq FairMatches(pending, lines)
  BY DEF FairUpTo
<1> QED
  BY <1>5, <1>6, <1>7

(* The loop of suggestedMatches gives the k-th oldest of the pending       *)
(* submissions of an amount the k-th earliest free line of it, and no line *)
(* twice, whatever is pending and unmatched.                               *)
THEOREM SuggestionsAreFairAlways == BankSpec => []SuggestionsAreFair
<1>1. SuggestionsAreFair
  <2> SUFFICES ASSUME NEW school \in Schools
               PROVE  SuggestedMatches(Pending(school), Unmatched(school)) =
                        FairMatches(Pending(school), Unmatched(school))
    BY DEF SuggestionsAreFair
  <2>1. /\ Pending(school) \subseteq Nat /\ IsFiniteSet(Pending(school))
        /\ Unmatched(school) \subseteq Nat /\ IsFiniteSet(Unmatched(school))
    BY SubmissionsAssumption, LinesAssumption, FS_Subset DEF Pending, Unmatched
  <2> QED
    BY <2>1, LoopIsFair
<1> QED
  BY <1>1, PTL

------------------------------------------------------------------------------
(* What a load has read was filed with its school; what a page shows is a  *)
(* line and a submission of its school, of one amount.  Amount and school  *)
(* of a submission and of a line never change, so that this stays true of  *)
(* every screen however old.                                               *)
LoadsFiled ==
  \A d \in Desks : load[d] # None =>
    \A s \in load[d] : s \in Filed /\ SchoolOfSubmission(s) = DeskOf[d]
Fits(c, p) ==
  /\ p.submission \in Filed /\ SchoolOfSubmission(p.submission) = c
  /\ p.line \in Lines /\ line[p.line].school = c
  /\ submission[p.submission].amount = line[p.line].amount
ScreensFit == \A c \in Schools : \A p \in shown[c] : Fits(c, p)
BankInv ==
  TypeOK /\ BankTypeOK /\ LinesWhole /\ LoadsFiled /\ ScreensFit /\ MatchesAreSound

ClaimsKept ==
  \A s \in Filed : /\ s \in Filed'
                   /\ submission'[s].invoice = submission[s].invoice
                   /\ submission'[s].amount = submission[s].amount

LEMMA BankWaits == BankInv /\ TypeOK' /\ ClaimsKept /\ UNCHANGED bankVars => BankInv'
<1> SUFFICES ASSUME BankInv, TypeOK', ClaimsKept, UNCHANGED bankVars
             PROVE  BankInv'
  OBVIOUS
<1> USE DEF BankInv, bankVars
<1>1. \A s \in Filed : /\ s \in Filed' /\ SchoolOfSubmission(s)' = SchoolOfSubmission(s)
                       /\ submission'[s].amount = submission[s].amount
  BY DEF ClaimsKept, SchoolOfSubmission
<1>2. BankTypeOK' /\ LinesWhole'
  BY DEF BankTypeOK, LinesWhole
<1>3. LoadsFiled'
  BY <1>1 DEF LoadsFiled
<1>4. ScreensFit'
  BY <1>1 DEF ScreensFit, Fits
<1>5. MatchesAreSound'
  BY <1>1 DEF MatchesAreSound
<1> QED
  BY <1>2, <1>3, <1>4, <1>5

LEMMA BankInvStep == BankInv /\ [BankNext]_bankAllVars => BankInv'
<1> SUFFICES ASSUME BankInv, [BankNext]_bankAllVars
             PROVE  BankInv'
  OBVIOUS
<1>l. LinesWhole' /\ \A l \in Lines : line[l].match # None => line'[l] = line[l]
  BY MatchedLinesStay DEF BankInv
<1>1. CASE [Next]_vars /\ UNCHANGED bankVars
  BY <1>1, BankWaits, StepKeepsTypes, StepKeepsRows DEF BankInv, ClaimsKept, RowsLast
<1>u. ASSUME UNCHANGED vars
      PROVE  /\ TypeOK' /\ Filed' = Filed /\ submission' = submission
             /\ \A s : SchoolOfSubmission(s)' = SchoolOfSubmission(s)
  <2>1. TypeOK'
    BY <1>u, StepKeepsTypes DEF BankInv
  <2>2. submission' = submission
    BY <1>u DEF vars, tables
  <2> QED
    BY <2>1, <2>2 DEF Filed, SchoolOfSubmission
<1>2. ASSUME NEW school \in Schools, NEW batch \in SUBSET Lines, ImportStatement(school, batch)
      PROVE  BankInv'
  <2>1. UNCHANGED <<vars, load, shown>> /\ \A l \in Lines : line[l].school # None => line'[l] = line[l]
    BY <1>2 DEF ImportStatement, Imported
  <2>2. \A l \in Lines : line'[l].match # None => line'[l] = line[l]
    <3> SUFFICES ASSUME NEW l \in Lines, line'[l] # line[l]
                 PROVE  line'[l].match = None
      OBVIOUS
    <3> QED
      BY <1>2 DEF ImportStatement
  <2>3. BankTypeOK'
    BY <1>l, <2>1 DEF BankInv, BankTypeOK, LinesWhole
  <2>4. LoadsFiled'
    BY <1>u, <2>1 DEF BankInv, LoadsFiled
  <2>5. ScreensFit'
    <3> SUFFICES ASSUME NEW c \in Schools, NEW p \in shown[c]
                 PROVE  Fits(c, p)'
      BY <2>1 DEF ScreensFit
    <3>1. Fits(c, p) /\ c # None
      BY SchoolsAssumption DEF BankInv, ScreensFit
    <3> QED
      BY <1>u, <2>1, <3>1 DEF Fits
  <2>6. MatchesAreSound'
    BY <1>u, <2>1, <2>2 DEF BankInv, MatchesAreSound
  <2> QED
    BY <1>l, <1>u, <2>1, <2>3, <2>4, <2>5, <2>6 DEF BankInv
<1>3. ASSUME NEW d \in Desks, ReadPending(d)
      PROVE  BankInv'
  <2>1. UNCHANGED <<vars, line, shown>> /\ load' = [load EXCEPT ![d] = Pending(DeskOf[d])]
    BY <1>3 DEF ReadPending
  <2>2. \A s \in Pending(DeskOf[d]) :
           s \in Submissions /\ s \in Filed /\ SchoolOfSubmission(s) = DeskOf[d]
    BY DEF Pending, Filed
  <2>3. BankTypeOK'
    BY <2>1, <2>2 DEF BankInv, BankTypeOK
  <2>4. LoadsFiled'
    BY <1>u, <2>1, <2>2 DEF BankInv, LoadsFiled, BankTypeOK
  <2>5. ScreensFit' /\ MatchesAreSound'
    BY <1>u, <2>1 DEF BankInv, ScreensFit, Fits, MatchesAreSound
  <2> QED
    BY <1>l, <1>u, <2>1, <2>3, <2>4, <2>5 DEF BankInv
<1>4. ASSUME NEW d \in Desks, ReadLines(d)
      PROVE  BankInv'
  <2>1. PICK c \in Schools : c = DeskOf[d]
    BY DeskOfAssumption
  <2>2. PICK pending : pending = load[d]
    OBVIOUS
  <2>3. /\ UNCHANGED <<vars, line>> /\ load' = [load EXCEPT ![d] = None]
        /\ shown' = [shown EXCEPT ![c] = @ \cup SuggestedMatches(pending, Unmatched(c))]
        /\ pending # None
    BY <1>4, <2>1, <2>2 DEF ReadLines
  <2>4. /\ pending \subseteq Submissions
        /\ \A s \in pending : s \in Filed /\ SchoolOfSubmission(s) = c
    BY <2>1, <2>2, <2>3 DEF BankInv, BankTypeOK, LoadsFiled
  <2>5. SuggestedMatches(pending, Unmatched(c)) = FairMatches(pending, Unmatched(c))
    <3>1. /\ pending \subseteq Nat /\ IsFiniteSet(pending)
          /\ Unmatched(c) \subseteq Nat /\ IsFiniteSet(Unmatched(c))
      BY <2>4, SubmissionsAssumption, LinesAssumption, FS_Subset DEF Unmatched
    <3> QED
      BY <3>1, LoopIsFair
  <2>6. \A p \in FairMatches(pending, Unmatched(c)) : p \in Pairs /\ Fits(c, p)
    BY <2>4 DEF FairMatches, Unmatched, Pairs, Fits
  <2>7. \A e \in Schools : \A p \in shown'[e] : p \in shown[e] \/ (e = c /\ p \in Pairs /\ Fits(c, p))
    BY <2>3, <2>5, <2>6 DEF BankInv, BankTypeOK
  <2>8. BankTypeOK'
    <3>1. shown' \in [Schools -> SUBSET Pairs]
      BY <2>3, <2>5, <2>6 DEF BankInv, BankTypeOK
    <3> QED
      BY <2>3, <3>1 DEF BankInv, BankTypeOK
  <2>9. LoadsFiled'
    BY <1>u, <2>3 DEF BankInv, LoadsFiled, BankTypeOK
  <2>10. ScreensFit'
    <3> SUFFICES ASSUME NEW e \in Schools, NEW p \in shown'[e]
                 PROVE  Fits(e, p)'
      BY DEF ScreensFit
    <3>1. Fits(e, p)
      BY <2>7 DEF BankInv, ScreensFit
    <3> QED
      BY <1>u, <2>3, <3>1 DEF Fits
  <2>11. MatchesAreSound'
    BY <1>u, <2>3 DEF BankInv, MatchesAreSound
  <2> QED
    BY <1>l, <1>u, <2>3, <2>8, <2>9, <2>10, <2>11 DEF BankInv
<1>5. ASSUME NEW school \in Schools, NEW p \in shown[school], ConfirmMatch(school, p)
      PROVE  BankInv'
  <2>1. /\ UNCHANGED <<vars, load, shown>> /\ Fits(school, p)
        /\ line' = [line EXCEPT ![p.line].match = p.submission]
        /\ \A l \in Lines : line[l].match # p.submission
    BY <1>5 DEF ConfirmMatch, BankInv, ScreensFit
  <2>2. /\ \A l \in Lines : line'[l].school = line[l].school /\ line'[l].amount = line[l].amount
        /\ \A l \in Lines : line'[l].match = IF l = p.line THEN p.submission ELSE line[l].match
    BY <2>1 DEF BankInv, LinesWhole, Fits
  <2>3. BankTypeOK'
    BY <1>l, <2>1 DEF BankInv, BankTypeOK, LinesWhole
  <2>4. LoadsFiled'
    BY <1>u, <2>1 DEF BankInv, LoadsFiled
  <2>5. ScreensFit'
    BY <1>u, <2>1, <2>2 DEF BankInv, ScreensFit, Fits
  <2>6. MatchesAreSound'
    BY <1>u, <2>1, <2>2 DEF BankInv, MatchesAreSound, Fits
  <2> QED
    BY <1>l, <1>u, <2>1, <2>3, <2>4, <2>5, <2>6 DEF BankInv
<1>6. CASE UNCHANGED bankAllVars
  BY <1>1, <1>6 DEF bankAllVars
<1> QED
  BY <1>1, <1>2, <1>3, <1>4, <1>5, <1>6 DEF BankNext, BankStep

LEMMA BankInvInit == BankInit => BankInv
<1> SUFFICES ASSUME BankInit
             PROVE  BankInv
  OBVIOUS
<1>1. TypeOK
  BY InitTyped DEF BankInit
<1>2. BankTypeOK /\ LinesWhole
  BY BoundsAssumption DEF BankInit, BankTypeOK, LinesWhole, NotImported
<1>3. LoadsFiled /\ ScreensFit /\ MatchesAreSound
  BY DEF BankInit, LoadsFiled, ScreensFit, MatchesAreSound, NotImported
<1> QED
  BY <1>1, <1>2, <1>3 DEF BankInv

LEMMA BankInvHolds == BankSpec => []BankInv
BY BankInvInit, BankInvStep, PTL DEF BankSpec

(* A reconciled line is behind a filed payment of the same school and the  *)
(* same amount, and no payment has two lines behind it, however old the    *)
(* screen a match was confirmed from and whatever reviews and imports came *)
(* in between (BankStatementService.confirmMatch).                         *)
THEOREM MatchesAreSoundAlways == BankSpec => []MatchesAreSound
<1>1. BankInv => MatchesAreSound
  BY DEF BankInv
<1> QED
  BY <1>1, BankInvHolds, PTL

------------------------------------------------------------------------------
(* Both at work on the same invoices and submissions. *)
ReconcileInv == BankInv /\ GatewayInv

LEMMA ReconcileInvHolds == ReconcileSpec => []ReconcileInv
<1>1. ReconcileInit => ReconcileInv
  BY BankInvInit, GatewayInvInit DEF ReconcileInit, ReconcileInv
<1>2. ReconcileInv /\ [ReconcileNext]_reconcileVars => ReconcileInv'
  <2> SUFFICES ASSUME ReconcileInv, [ReconcileNext]_reconcileVars
               PROVE  ReconcileInv'
    OBVIOUS
  <2>1. CASE [BankNext]_bankAllVars /\ UNCHANGED gatewayVars
    <3>1. BankInv'
      BY <2>1, BankInvStep DEF ReconcileInv
    <3>2. [Next]_vars
      BY <2>1 DEF BankNext, BankStep, bankAllVars, ImportStatement, ReadPending, ReadLines,
                  ConfirmMatch
    <3>3. GatewayInv'
      BY <2>1, <3>2, GatewayInvStep DEF ReconcileInv, GatewayNext, gatewayAllVars
    <3> QED
      BY <3>1, <3>3 DEF ReconcileInv
  <2>2. CASE GatewayNext /\ UNCHANGED bankVars
    <3>1. GatewayInv' /\ TypeOK'
      BY <2>2, GatewayInvStep DEF ReconcileInv, GatewayInv, GatewayShape
    <3>2. ClaimsKept
      <4>1. CASE Next
        BY <4>1, StepKeepsRows DEF ReconcileInv, BankInv, ClaimsKept, RowsLast
      <4>2. CASE GatewayStep
        <5>1. submission' = submission
          <6>1. UNCHANGED vars \/ \E d \in Deliveries : WriteInvoice(d)
            BY <4>2 DEF GatewayStep, InitiateCheckout, PayOnline, ReadInvoice, DropDelivery
          <6>2. UNCHANGED vars => submission' = submission
            BY DEF vars, tables
          <6> QED
            BY <6>1, <6>2 DEF WriteInvoice
        <5> QED
          BY <5>1 DEF ClaimsKept, Filed
      <4> QED
        BY <2>2, <4>1, <4>2 DEF GatewayNext
    <3> QED
      BY <2>2, <3>1, <3>2, BankWaits DEF ReconcileInv
  <2> QED
    BY <2>1, <2>2 DEF ReconcileNext, BankTurn, GatewayTurn, reconcileVars
<1> QED
  BY <1>1, <1>2, PTL DEF ReconcileSpec

(* With reviews, reconciliation and online payment all at work beside each *)
(* other, rows, screens, sessions and webhook calls keep their shape.      *)
THEOREM ReconcileTablesCorrect == ReconcileSpec => []ReconcileTablesOK
<1>1. ReconcileInv => ReconcileTablesOK
  BY DEF ReconcileInv, BankInv, GatewayInv, GatewayShape, ReconcileTablesOK, GatewayTypeOK,
         SessionRows, DeliveryRows
<1> QED
  BY <1>1, ReconcileInvHolds, PTL

(* Neither disturbs the other: what is proved of the bank statement and of *)
(* the gateway holds of the two together.                                  *)
THEOREM MoneyFromOutsideAddsUp == ReconcileSpec => [](MatchesAreSound /\ OnlineTotalsHold)
<1>1. ReconcileInv => MatchesAreSound /\ OnlineTotalsHold
  BY MoneyIsAccountedFor DEF ReconcileInv, BankInv
<1> QED
  BY <1>1, ReconcileInvHolds, PTL
=============================================================================
