--------------------------- MODULE PaymentsProofs ---------------------------
(***************************************************************************)
(* Proofs about Payments for any number of schools, invoices, submissions, *)
(* clients and admins.  The constants are as Payments assumes them.        *)
(***************************************************************************)
EXTENDS Payments, FiniteSetTheorems, TLAPS

USE DEF tables, requests, Reviewable, Claimable, PaidToDate

(* The steps of the specification, named for case analysis. *)
TheStep ==
    \/ \E i \in Invoices, due \in Dues : RaiseInvoice(i, due)
    \/ \E f \in Families, i \in Invoices, n \in 1..MaxAmount : TakeReference(f, i, n)
    \/ \E f \in Families : CheckDuplicate(f)
    \/ \E f \in Families : CreateSubmission(f)
    \/ \E f \in Families : ClashOnReference(f) \/ DropSubmit(f)
    \/ \E a \in Admins, s \in Submissions, outcome \in Outcomes : ReadForReview(a, s, outcome)
    \/ \E a \in Admins : Verify(a)
    \/ \E a \in Admins : ClaimForReview(a)
    \/ \E a \in Admins : RefuseReview(a) \/ DropReview(a)
    \/ \E a \in Admins : ReadForReceipt(a)
    \/ \E a \in Admins : StoreReceipt(a)
    \/ \E a \in Admins : LoseReceipt(a)
    \/ \E a \in Admins : Notify(a)
    \/ UNCHANGED vars

LEMMA StepCases == [Next]_vars => TheStep
  BY DEF Next, SubmitStep, ReviewStep, TheStep

LEMMA InitTyped == Init => TypeOK
  BY NoneAssumption, BoundsAssumption
  DEF Init, TypeOK, Shapes, InvoicesWhole, SubmissionsWhole, SubmitsWhole, ReviewsWhole,
      InvoiceRows, SubmissionRows, SubmitRequests, ReviewRequests,
      NoInvoice, NoSubmission, NoSubmit, NoReview, Filed

LEMMA StepKeepsShapes == TypeOK /\ [Next]_vars => Shapes'
<1> SUFFICES ASSUME TypeOK, TheStep PROVE Shapes'
  BY StepCases
<1> USE BoundsAssumption, SchoolOfAssumption DEF TypeOK, ReviewsWhole, SubmissionsWhole, Filed
<1>1. CASE \E i \in Invoices, due \in Dues : RaiseInvoice(i, due)
  BY <1>1 DEF RaiseInvoice, Shapes, InvoiceRows
<1>2. CASE \E f \in Families, i \in Invoices, n \in 1..MaxAmount : TakeReference(f, i, n)
  BY <1>2 DEF TakeReference, Shapes, SubmitRequests, NextReferenceId, FormatPaymentReference, References
<1>3. CASE \E f \in Families : CheckDuplicate(f)
  <2>1. PICK f \in Families : CheckDuplicate(f)
    BY <1>3
  <2>2. PICK d \in Submissions \cup {None} :
            submit' = [submit EXCEPT ![f].step = "checked", ![f].duplicateOf = d]
    BY <2>1 DEF CheckDuplicate, PossibleDuplicates
  <2>3. submit[f] \in SubmitRequests
    BY DEF Shapes
  <2>4. submit'[f] \in SubmitRequests
    BY <2>2, <2>3 DEF SubmitRequests, Shapes
  <2>5. \A g \in Families \ {f} : submit'[g] = submit[g]
    BY <2>2 DEF Shapes
  <2> QED
    BY <2>1, <2>2, <2>4, <2>5 DEF CheckDuplicate, Shapes
<1>4. CASE \E f \in Families : CreateSubmission(f)
  BY <1>4 DEF CreateSubmission, Shapes, SubmitRequests, SubmissionRows, NoSubmit
<1>5. CASE \E f \in Families : ClashOnReference(f) \/ DropSubmit(f)
  <2>1. NoSubmit \in SubmitRequests
    BY DEF NoSubmit, SubmitRequests
  <2> QED
    BY <1>5, <2>1 DEF ClashOnReference, DropSubmit, Shapes
<1>6. CASE \E a \in Admins, s \in Submissions, outcome \in Outcomes : ReadForReview(a, s, outcome)
  BY <1>6 DEF ReadForReview, Shapes, ReviewRequests
<1>7. CASE \E a \in Admins : Verify(a)
  <2>1. PICK a \in Admins : Verify(a)
    BY <1>7
  <2> DEFINE s == review[a].submission
             i == submission[s].invoice
             total == invoice[i].paid + submission[s].amount
  <2>2. /\ s \in Submissions /\ i \in Invoices
        /\ invoice[i] \in InvoiceRows /\ submission[s] \in SubmissionRows
        /\ review[a] \in ReviewRequests
    BY <2>1 DEF Verify, Shapes
  <2>3. total \in Nat /\ StatusAfter(total, invoice[i].due) \in {"PAID", "PARTIALLY_PAID"}
    BY <2>2 DEF InvoiceRows, SubmissionRows, StatusAfter
  <2>4. [invoice[i] EXCEPT !.paid = total, !.status = StatusAfter(total, invoice[i].due)]
          \in InvoiceRows
    BY <2>2, <2>3 DEF InvoiceRows
  <2>5. invoice' \in [Invoices -> InvoiceRows]
    BY <2>1, <2>2, <2>4 DEF Verify, Shapes
  <2>6. submission' \in [Submissions -> SubmissionRows]
    BY <2>1, <2>2 DEF Verify, Shapes, SubmissionRows, Outcomes
  <2>7. review' \in [Admins -> ReviewRequests]
    BY <2>1, <2>2 DEF Verify, Shapes, ReviewRequests
  <2> QED
    BY <2>1, <2>5, <2>6, <2>7 DEF Verify, Shapes
<1>8. CASE \E a \in Admins : ClaimForReview(a)
  <2>1. PICK a \in Admins : ClaimForReview(a)
    BY <1>8
  <2> DEFINE s == review[a].submission
  <2>2. /\ s \in Submissions /\ review[a].outcome \in Outcomes
        /\ submission[s] \in SubmissionRows /\ review[a] \in ReviewRequests
    BY <2>1 DEF ClaimForReview, Shapes
  <2>3. [submission[s] EXCEPT !.status = review[a].outcome, !.duplicateOf = None]
          \in SubmissionRows
    BY <2>2 DEF SubmissionRows
  <2>4. submission' \in [Submissions -> SubmissionRows]
    BY <2>1, <2>2, <2>3 DEF ClaimForReview, Shapes
  <2>5. review' \in [Admins -> ReviewRequests]
    BY <2>1, <2>2 DEF ClaimForReview, Shapes, ReviewRequests
  <2> QED
    BY <2>1, <2>4, <2>5 DEF ClaimForReview, Shapes
<1>9. CASE \E a \in Admins : RefuseReview(a) \/ DropReview(a)
  BY <1>9 DEF RefuseReview, DropReview, Shapes, ReviewRequests, NoReview
<1>10. CASE \E a \in Admins : ReadForReceipt(a)
  <2>1. PICK a \in Admins : ReadForReceipt(a)
    BY <1>10
  <2> DEFINE i == submission[review[a].submission].invoice
  <2>2. i \in Invoices /\ review[a] \in ReviewRequests
    BY <2>1 DEF ReadForReceipt, Shapes
  <2>3. invoice[i].paid \in Nat
    BY <2>2 DEF Shapes, InvoiceRows
  <2>4. [review[a] EXCEPT !.step = "rendering", !.seen = invoice[i].paid] \in ReviewRequests
    BY <2>2, <2>3 DEF ReviewRequests
  <2>5. review' \in [Admins -> ReviewRequests]
    BY <2>1, <2>4 DEF ReadForReceipt, Shapes
  <2> QED
    BY <2>1, <2>5 DEF ReadForReceipt, Shapes
<1>11. CASE \E a \in Admins : StoreReceipt(a)
  <2>1. PICK a \in Admins : StoreReceipt(a)
    BY <1>11
  <2> DEFINE s == review[a].submission
  <2>2. s \in Submissions /\ submission[s] \in SubmissionRows /\ review[a] \in ReviewRequests
    BY <2>1 DEF StoreReceipt, Shapes
  <2>3. [submission[s] EXCEPT !.receipt = review[a].seen] \in SubmissionRows
    BY <2>2 DEF SubmissionRows, ReviewRequests
  <2>4. submission' \in [Submissions -> SubmissionRows]
    BY <2>1, <2>2, <2>3 DEF StoreReceipt, Shapes
  <2>5. review' \in [Admins -> ReviewRequests]
    BY <2>1, <2>2 DEF StoreReceipt, Shapes, ReviewRequests
  <2> QED
    BY <2>1, <2>4, <2>5 DEF StoreReceipt, Shapes
<1>12. CASE \E a \in Admins : LoseReceipt(a)
  BY <1>12 DEF LoseReceipt, Shapes, ReviewRequests
<1>13. CASE \E a \in Admins : Notify(a)
  BY <1>13 DEF Notify, Shapes, ReviewRequests, NoReview
<1>14. CASE UNCHANGED vars
  BY <1>14 DEF vars, Shapes
<1> QED
  BY <1>1, <1>2, <1>3, <1>4, <1>5, <1>6, <1>7, <1>8, <1>9, <1>10, <1>11, <1>12, <1>13, <1>14 DEF TheStep

(* What a verification does, spelt out. *)
LEMMA VerifyEffect ==
  ASSUME TypeOK, NEW a \in Admins, Verify(a)
  PROVE  LET s == review[a].submission
             i == submission[s].invoice
         IN  /\ s \in Filed /\ s \notin Verified /\ i \in Invoices
             /\ invoice[i].status # "NONE"
             /\ submission[s].amount \in 1..MaxAmount
             /\ submission'[s].status = "VERIFIED"
             /\ submission'[s].invoice = i
             /\ submission'[s].amount = submission[s].amount
             /\ submission'[s].receipt = submission[s].receipt
             /\ \A t \in Submissions : t # s => submission'[t] = submission[t]
             /\ invoice'[i].paid = invoice[i].paid + submission[s].amount
             /\ invoice'[i].due = invoice[i].due
             /\ invoice'[i].status =
                   IF invoice'[i].paid >= invoice[i].due THEN "PAID" ELSE "PARTIALLY_PAID"
             /\ \A j \in Invoices : j # i => invoice'[j] = invoice[j]
             /\ review'[a].step = "verified"
             /\ review'[a].submission = s
             /\ review'[a].outcome = "VERIFIED"
             /\ \A b \in Admins : b # a => review'[b] = review[b]
<1> DEFINE s == review[a].submission
           i == submission[s].invoice
<1>1. /\ s \in Filed /\ s \notin Verified /\ i \in Invoices /\ s \in Submissions
      /\ invoice[i].status # "NONE" /\ submission[s].amount > 0
      /\ invoice[i] \in InvoiceRows /\ submission[s] \in SubmissionRows
      /\ review[a] \in ReviewRequests
  BY DEF Verify, TypeOK, Shapes, ReviewsWhole, SubmissionsWhole, Filed, Verified
<1>2. /\ submission'[s].status = "VERIFIED"
      /\ submission'[s].invoice = i
      /\ submission'[s].amount = submission[s].amount
      /\ submission'[s].receipt = submission[s].receipt
      /\ \A t \in Submissions : t # s => submission'[t] = submission[t]
  BY <1>1 DEF Verify, TypeOK, Shapes, SubmissionRows
<1>3. /\ invoice'[i].paid = invoice[i].paid + submission[s].amount
      /\ invoice'[i].due = invoice[i].due
      /\ invoice'[i].status =
            IF invoice'[i].paid >= invoice[i].due THEN "PAID" ELSE "PARTIALLY_PAID"
      /\ \A j \in Invoices : j # i => invoice'[j] = invoice[j]
  BY <1>1 DEF Verify, StatusAfter, TypeOK, Shapes, InvoiceRows
<1>4. /\ review'[a].step = "verified"
      /\ review'[a].submission = s
      /\ review'[a].outcome = "VERIFIED"
      /\ \A b \in Admins : b # a => review'[b] = review[b]
  BY <1>1 DEF Verify, TypeOK, Shapes, ReviewRequests
<1>5. submission[s].amount \in 1..MaxAmount
  BY <1>1, BoundsAssumption DEF SubmissionRows
<1> QED
  BY <1>1, <1>2, <1>3, <1>4, <1>5

(* Rows are never deleted, and what a claim is for never changes. *)
RowsLast ==
    /\ \A i \in Invoices : invoice[i].status # "NONE" =>
          invoice'[i].status # "NONE" /\ invoice'[i].due = invoice[i].due
    /\ \A s \in Filed : /\ s \in Filed'
                        /\ submission'[s].invoice = submission[s].invoice
                        /\ submission'[s].amount = submission[s].amount
                        /\ submission'[s].reference = submission[s].reference

(* Most actions write no table but the counter. *)
RowsUntouched == invoice' = invoice /\ submission' = submission

LEMMA QuietSteps ==
  TheStep =>
    \/ RowsUntouched
    \/ \E i \in Invoices, due \in Dues : RaiseInvoice(i, due)
    \/ \E f \in Families : CreateSubmission(f)
    \/ \E a \in Admins : Verify(a)
    \/ \E a \in Admins : ClaimForReview(a)
    \/ \E a \in Admins : StoreReceipt(a)
  BY DEF TheStep, RowsUntouched, TakeReference, CheckDuplicate, ClashOnReference, DropSubmit,
         ReadForReview, RefuseReview, DropReview, ReadForReceipt, LoseReceipt, Notify, vars

LEMMA StepKeepsRows == TypeOK /\ [Next]_vars => RowsLast
<1> SUFFICES ASSUME TypeOK, TheStep PROVE RowsLast
  BY StepCases
<1> USE DEF TypeOK, Shapes, RowsLast, Filed
<1>1. CASE RowsUntouched
  BY <1>1 DEF RowsUntouched
<1>2. CASE \E i \in Invoices, due \in Dues : RaiseInvoice(i, due)
  BY <1>2 DEF RaiseInvoice
<1>3. CASE \E f \in Families : CreateSubmission(f)
  BY <1>3, SubmissionsAssumption DEF CreateSubmission
<1>4. CASE \E a \in Admins : Verify(a)
  <2>1. PICK a \in Admins : Verify(a)
    BY <1>4
  <2>2. submission'[review[a].submission].reference = submission[review[a].submission].reference
    BY <2>1 DEF Verify, SubmissionRows, ReviewsWhole
  <2> QED
    BY <2>1, <2>2, VerifyEffect DEF ReviewsWhole
<1>5. CASE \E a \in Admins : ClaimForReview(a)
  BY <1>5 DEF ClaimForReview, SubmissionRows, ReviewsWhole, Outcomes
<1>6. CASE \E a \in Admins : StoreReceipt(a)
  BY <1>6 DEF StoreReceipt, SubmissionRows
<1> QED
  BY <1>1, <1>2, <1>3, <1>4, <1>5, <1>6, QuietSteps

LEMMA StepKeepsInvoicesWhole == TypeOK /\ [Next]_vars => InvoicesWhole'
<1> SUFFICES ASSUME TypeOK, TheStep, Shapes' PROVE InvoicesWhole'
  BY StepCases, StepKeepsShapes
<1> USE DEF TypeOK, Shapes, InvoicesWhole, InvoiceRows
<1>1. CASE invoice' = invoice
  BY <1>1
<1>2. CASE \E i \in Invoices, due \in Dues : RaiseInvoice(i, due)
  BY <1>2, BoundsAssumption DEF RaiseInvoice
<1>3. CASE \E a \in Admins : Verify(a)
  BY <1>3, VerifyEffect
<1> QED
  BY <1>1, <1>2, <1>3, QuietSteps DEF RowsUntouched, CreateSubmission, ClaimForReview, StoreReceipt

LEMMA StepKeepsSubmissionsWhole == TypeOK /\ [Next]_vars => SubmissionsWhole'
<1> SUFFICES ASSUME TypeOK, TheStep, RowsLast PROVE SubmissionsWhole'
  BY StepCases, StepKeepsRows
<1> USE DEF TypeOK, Shapes, SubmissionsWhole, RowsLast
<1>1. CASE \E f \in Families : CreateSubmission(f)
  <2>1. PICK f \in Families : CreateSubmission(f)
    BY <1>1
  <2>2. PICK s \in Submissions : \A t \in Submissions :
            /\ t # s => submission'[t] = submission[t]
            /\ t = s => submission'[t].invoice = submit[f].invoice /\ submission'[t].amount = submit[f].amount
    BY <2>1 DEF CreateSubmission
  <2> QED
    BY <2>1, <2>2 DEF CreateSubmission, SubmitsWhole, Filed
<1>2. CASE Filed' = Filed
  BY <1>2 DEF Filed
<1>3. CASE RowsUntouched
  BY <1>3, <1>2 DEF RowsUntouched, Filed
<1>4. CASE \E i \in Invoices, due \in Dues : RaiseInvoice(i, due)
  BY <1>4, <1>2 DEF RaiseInvoice, Filed
<1>5. CASE \E a \in Admins : Verify(a)
  BY <1>5, <1>2, VerifyEffect DEF Filed
<1>6. CASE \E a \in Admins : ClaimForReview(a)
  <2>1. Filed' = Filed
    BY <1>6 DEF ClaimForReview, ReviewsWhole, Filed, Outcomes, SubmissionRows
  <2> QED
    BY <2>1, <1>2
<1>7. CASE \E a \in Admins : StoreReceipt(a)
  <2>1. Filed' = Filed
    BY <1>7 DEF StoreReceipt, Filed, SubmissionRows
  <2> QED
    BY <2>1, <1>2
<1> QED
  BY <1>1, <1>3, <1>4, <1>5, <1>6, <1>7, QuietSteps

LEMMA StepKeepsSubmitsWhole == TypeOK /\ [Next]_vars => SubmitsWhole'
<1> SUFFICES ASSUME TypeOK, TheStep, RowsLast, Shapes' PROVE SubmitsWhole'
  BY StepCases, StepKeepsRows, StepKeepsShapes
<1> USE DEF TypeOK, Shapes, SubmitsWhole, RowsLast, SubmitRequests
<1>1. CASE submit' = submit
  BY <1>1
<1>2. CASE \E f \in Families, i \in Invoices, n \in 1..MaxAmount : TakeReference(f, i, n)
  BY <1>2, BoundsAssumption DEF TakeReference, FindsInvoice
<1>3. CASE \E f \in Families : CheckDuplicate(f)
  BY <1>3 DEF CheckDuplicate
<1>4. CASE \E f \in Families : CreateSubmission(f) \/ ClashOnReference(f) \/ DropSubmit(f)
  BY <1>4 DEF CreateSubmission, ClashOnReference, DropSubmit, NoSubmit
<1> QED
  BY <1>1, <1>2, <1>3, <1>4
  DEF TheStep, RaiseInvoice, ReadForReview, Verify, ClaimForReview, RefuseReview, DropReview,
      ReadForReceipt, StoreReceipt, LoseReceipt, Notify, vars

LEMMA StepKeepsReviewsWhole == TypeOK /\ [Next]_vars => ReviewsWhole'
<1> SUFFICES ASSUME TypeOK, TheStep, RowsLast PROVE ReviewsWhole'
  BY StepCases, StepKeepsRows
<1> USE DEF TypeOK, Shapes, ReviewsWhole, RowsLast, ReviewRequests
<1>1. CASE review' = review
  BY <1>1
<1>2. CASE \E a \in Admins, s \in Submissions, outcome \in Outcomes : ReadForReview(a, s, outcome)
  BY <1>2 DEF ReadForReview
<1>3. CASE \E a \in Admins : Verify(a) \/ ClaimForReview(a) \/ StoreReceipt(a) \/ LoseReceipt(a)
  <2>1. PICK a \in Admins, step \in {"verified", "decided"} :
            /\ review[a].step # "idle"
            /\ review' = [review EXCEPT ![a].step = step]
    BY <1>3 DEF Verify, ClaimForReview, StoreReceipt, LoseReceipt
  <2> QED
    BY <2>1
<1>4. CASE \E a \in Admins : ReadForReceipt(a)
  BY <1>4 DEF ReadForReceipt
<1>5. CASE \E a \in Admins : RefuseReview(a) \/ DropReview(a) \/ Notify(a)
  BY <1>5 DEF RefuseReview, DropReview, Notify, NoReview
<1> QED
  BY <1>1, <1>2, <1>3, <1>4, <1>5
  DEF TheStep, RaiseInvoice, TakeReference, CheckDuplicate, CreateSubmission, ClashOnReference,
      DropSubmit, vars

LEMMA StepKeepsTypes == TypeOK /\ [Next]_vars => TypeOK'
  BY StepKeepsShapes, StepKeepsInvoicesWhole, StepKeepsSubmissionsWhole,
     StepKeepsSubmitsWhole, StepKeepsReviewsWhole DEF TypeOK

(* Every table and every request in flight keeps the shape the schema and  *)
(* the code give it, and rows refer to rows that exist.                    *)
THEOREM TypeCorrect == Spec => []TypeOK
  BY InitTyped, StepKeepsTypes, PTL DEF Spec

------------------------------------------------------------------------------
(* The sum of verified claims is the cardinality of a finite set. *)
LEMMA CreditedFinite == \A i \in Invoices : IsFiniteSet(Credited(i))
<1>1. IsFiniteSet(1..MaxAmount)
  BY BoundsAssumption, FS_Interval
<1>2. IsFiniteSet(Submissions \X (1..MaxAmount))
  BY <1>1, SubmissionsAssumption, FS_Product, Zenon
<1> QED
  BY <1>2, FS_Subset DEF Credited

LEMMA UnitsOfClaim ==
  ASSUME NEW s \in Submissions, NEW n \in 1..MaxAmount
  PROVE  IsFiniteSet({s} \X (1..n)) /\ Cardinality({s} \X (1..n)) = n
<1>1. n \in Nat /\ n > 0
  BY BoundsAssumption
<1>2. IsFiniteSet({s}) /\ Cardinality({s}) = 1
  BY FS_Singleton
<1>3. IsFiniteSet(1..n) /\ Cardinality(1..n) = n
  BY <1>1, FS_Interval
<1>4. /\ IsFiniteSet({s} \X (1..n))
      /\ Cardinality({s} \X (1..n)) = Cardinality({s}) * Cardinality(1..n)
  BY <1>2, <1>3, FS_Product, Zenon
<1> QED
  BY <1>1, <1>2, <1>3, <1>4

(* Only a verification changes what an invoice is credited with. *)
LEMMA OtherStepsKeepClaims ==
  ASSUME TypeOK, TheStep, ~ \E a \in Admins : Verify(a)
  PROVE  /\ \A s \in Submissions :
              /\ (submission'[s].status = "VERIFIED") <=> (submission[s].status = "VERIFIED")
              /\ submission[s].status = "VERIFIED" =>
                    /\ submission'[s].invoice = submission[s].invoice
                    /\ submission'[s].amount = submission[s].amount
         /\ \A i \in Invoices : invoice'[i].paid = invoice[i].paid
<1> USE DEF TypeOK, Shapes
<1>1. CASE RowsUntouched
  BY <1>1 DEF RowsUntouched
<1>2. CASE \E i \in Invoices, due \in Dues : RaiseInvoice(i, due)
  BY <1>2 DEF RaiseInvoice, InvoicesWhole
<1>3. CASE \E f \in Families : CreateSubmission(f)
  BY <1>3, SubmissionsAssumption DEF CreateSubmission, Filed
<1>4. CASE \E a \in Admins : ClaimForReview(a)
  BY <1>4 DEF ClaimForReview, SubmissionRows, ReviewsWhole, Outcomes
<1>5. CASE \E a \in Admins : StoreReceipt(a)
  BY <1>5 DEF StoreReceipt, SubmissionRows
<1> QED
  BY <1>1, <1>2, <1>3, <1>4, <1>5, QuietSteps

LEMMA OtherStepsCreditNothing ==
  ASSUME TypeOK, TheStep, ~ \E a \in Admins : Verify(a)
  PROVE  \A i \in Invoices : Credited(i)' = Credited(i) /\ invoice'[i].paid = invoice[i].paid
  BY OtherStepsKeepClaims DEF Credited

(* A verification adds exactly the units of its claim. *)
LEMMA VerifyCredits ==
  ASSUME TypeOK, NEW a \in Admins, Verify(a),
         NEW s \in Submissions, s = review[a].submission,
         NEW i \in Invoices, i = submission[s].invoice,
         NEW n \in 1..MaxAmount, n = submission[s].amount
  PROVE  /\ Credited(i)' = Credited(i) \cup ({s} \X (1..n))
         /\ Credited(i) \cap ({s} \X (1..n)) = {}
         /\ \A j \in Invoices : j # i => Credited(j)' = Credited(j)
<1>1. n \in Nat
  BY BoundsAssumption
<1>2. Credited(i) \cap ({s} \X (1..n)) = {}
  BY VerifyEffect DEF Credited, Verified
<1>3. Credited(i)' = Credited(i) \cup ({s} \X (1..n))
  <2>1. \A unit \in Submissions \X (1..MaxAmount) :
           unit \in Credited(i)' <=> unit \in Credited(i) \cup ({s} \X (1..n))
    BY <1>1, VerifyEffect DEF Credited, Verified
  <2>2. {s} \X (1..n) \subseteq Submissions \X (1..MaxAmount)
    BY <1>1, BoundsAssumption
  <2> QED
    BY <2>1, <2>2 DEF Credited
<1>4. \A j \in Invoices : j # i => Credited(j)' = Credited(j)
  BY VerifyEffect DEF Credited, Verified
<1> QED
  BY <1>2, <1>3, <1>4

LEMMA StepKeepsMoneyCounted ==
  TypeOK /\ VerifiedMoneyCounted /\ [Next]_vars => VerifiedMoneyCounted'
<1> SUFFICES ASSUME TypeOK, VerifiedMoneyCounted, TheStep PROVE VerifiedMoneyCounted'
  BY StepCases
<1>1. CASE \E a \in Admins : Verify(a)
  <2>1. PICK a \in Admins : Verify(a)
    BY <1>1
  <2>2. PICK s \in Submissions, i \in Invoices, n \in 1..MaxAmount :
            s = review[a].submission /\ i = submission[s].invoice /\ n = submission[s].amount
    BY <2>1, VerifyEffect DEF Filed
  <2>3. IsFiniteSet({s} \X (1..n)) /\ Cardinality({s} \X (1..n)) = n
    BY UnitsOfClaim
  <2>4. IsFiniteSet(Credited(i)) /\ Cardinality(Credited(i)) \in Nat
    BY CreditedFinite, FS_CardinalityType
  <2>5. Cardinality(Credited(i) \cap ({s} \X (1..n))) = 0
    <3>1. Credited(i) \cap ({s} \X (1..n)) = {}
      BY <2>1, <2>2, VerifyCredits
    <3> QED
      BY <3>1, FS_EmptySet
  <2>6. Cardinality(Credited(i) \cup ({s} \X (1..n))) =
            Cardinality(Credited(i)) + Cardinality({s} \X (1..n))
                - Cardinality(Credited(i) \cap ({s} \X (1..n)))
    BY <2>3, <2>4, FS_Union, Zenon
  <2>7. Credited(i)' = Credited(i) \cup ({s} \X (1..n))
    BY <2>1, <2>2, VerifyCredits
  <2>8. n \in Nat
    BY BoundsAssumption
  <2>9. Cardinality(Credited(i)') = Cardinality(Credited(i)) + n
    BY <2>3, <2>4, <2>5, <2>6, <2>7, <2>8
  <2>10. invoice'[i].paid = Cardinality(Credited(i)')
    BY <2>1, <2>2, <2>9, VerifyEffect DEF VerifiedMoneyCounted
  <2>11. \A j \in Invoices \ {i} : invoice'[j].paid = Cardinality(Credited(j)')
    BY <2>1, <2>2, VerifyEffect, VerifyCredits DEF VerifiedMoneyCounted
  <2> QED
    BY <2>10, <2>11 DEF VerifiedMoneyCounted
<1>2. CASE ~ \E a \in Admins : Verify(a)
  BY <1>2, OtherStepsCreditNothing DEF VerifiedMoneyCounted
<1> QED
  BY <1>1, <1>2

LEMMA InitMoneyCounted == Init => VerifiedMoneyCounted
<1> SUFFICES ASSUME Init, NEW i \in Invoices PROVE invoice[i].paid = Cardinality(Credited(i))
  BY DEF VerifiedMoneyCounted
<1>1. Credited(i) = {}
  BY DEF Init, NoSubmission, Credited
<1> QED
  BY <1>1, FS_EmptySet DEF Init, NoInvoice

(* An invoice's running total is the sum of the verified claims against    *)
(* it, however many reviews race and wherever they die.                    *)
THEOREM MoneyCounted == Spec => []VerifiedMoneyCounted
  BY InitMoneyCounted, StepKeepsMoneyCounted, TypeCorrect, PTL DEF Spec

------------------------------------------------------------------------------
(* The status written by each action agrees with the total it writes. *)
StatusFitsTotal ==
    \A i \in Invoices : invoice[i].status # "NONE" =>
        /\ invoice[i].status = "PAID" <=> invoice[i].paid >= invoice[i].due
        /\ invoice[i].status = "UNPAID" <=> invoice[i].paid = 0

LEMMA StepKeepsStatus == TypeOK /\ StatusFitsTotal /\ [Next]_vars => StatusFitsTotal'
<1> SUFFICES ASSUME TypeOK, StatusFitsTotal, TheStep PROVE StatusFitsTotal'
  BY StepCases
<1> USE DEF StatusFitsTotal, TypeOK, Shapes, InvoiceRows, InvoicesWhole
<1>1. CASE \E i \in Invoices, due \in Dues : RaiseInvoice(i, due)
  BY <1>1, BoundsAssumption DEF RaiseInvoice
<1>2. CASE \E a \in Admins : Verify(a)
  <2>1. PICK a \in Admins : Verify(a)
    BY <1>2
  <2>2. PICK i \in Invoices, n \in 1..MaxAmount :
           /\ invoice'[i].paid = invoice[i].paid + n
           /\ invoice'[i].due = invoice[i].due
           /\ invoice'[i].status =
                 IF invoice'[i].paid >= invoice[i].due THEN "PAID" ELSE "PARTIALLY_PAID"
           /\ \A j \in Invoices : j # i => invoice'[j] = invoice[j]
    BY <2>1, VerifyEffect
  <2>3. invoice[i].paid \in Nat /\ n \in Nat /\ n > 0
    <3>1. invoice[i] \in InvoiceRows
      OBVIOUS
    <3> QED
      BY <3>1, BoundsAssumption
  <2>4. invoice'[i].paid >= invoice[i].due <=> invoice'[i].status = "PAID"
    BY <2>2
  <2>5. invoice'[i].status # "UNPAID" /\ invoice'[i].paid # 0
    BY <2>2, <2>3
  <2> QED
    BY <2>2, <2>4, <2>5
<1>3. CASE invoice' = invoice
  BY <1>3
<1> QED
  BY <1>1, <1>2, <1>3, QuietSteps DEF RowsUntouched, CreateSubmission, ClaimForReview, StoreReceipt

LEMMA SettledByClaims ==
  TypeOK /\ VerifiedMoneyCounted /\ StatusFitsTotal => StatusFollowsClaims
<1> SUFFICES ASSUME TypeOK, VerifiedMoneyCounted, StatusFitsTotal,
                    NEW i \in Invoices, invoice[i].status # "NONE"
             PROVE  /\ invoice[i].status = "PAID" <=> Cardinality(Credited(i)) >= invoice[i].due
                    /\ invoice[i].status = "UNPAID" <=> Credited(i) = {}
  BY DEF StatusFollowsClaims
<1>1. Cardinality(Credited(i)) = 0 <=> Credited(i) = {}
  BY CreditedFinite, FS_EmptySet
<1> QED
  BY <1>1 DEF VerifiedMoneyCounted, StatusFitsTotal

(* PAID means that verified claims cover what is due, UNPAID that there is *)
(* none: the status never runs ahead of the claims nor behind them.        *)
THEOREM StatusSettled == Spec => []StatusFollowsClaims
<1>1. Init => StatusFitsTotal
  BY DEF Init, StatusFitsTotal, NoInvoice
<1> QED
  BY <1>1, StepKeepsStatus, SettledByClaims, TypeCorrect, MoneyCounted, PTL DEF Spec

------------------------------------------------------------------------------
(* A verified claim is part of its invoice's total. *)
LEMMA ClaimWithinTotal ==
  ASSUME TypeOK, VerifiedMoneyCounted, NEW s \in Verified
  PROVE  submission[s].amount <= invoice[submission[s].invoice].paid
<1>1. PICK i \in Invoices, n \in 1..MaxAmount : i = submission[s].invoice /\ n = submission[s].amount
  BY BoundsAssumption
  DEF TypeOK, Shapes, SubmissionRows, SubmissionsWhole, Verified, Filed
<1>2. n \in Nat /\ s \in Submissions
  BY BoundsAssumption DEF Verified
<1>3. {s} \X (1..n) \in SUBSET Credited(i)
  BY <1>1, <1>2, BoundsAssumption DEF Credited, Verified
<1>4. Cardinality({s} \X (1..n)) <= Cardinality(Credited(i))
  BY <1>3, CreditedFinite, FS_Subset, Zenon
<1>5. Cardinality({s} \X (1..n)) = n
  BY <1>2, UnitsOfClaim
<1> QED
  BY <1>1, <1>4, <1>5 DEF VerifiedMoneyCounted

(* Money and verified rows only accumulate. *)
LEMMA StepsAccumulate ==
  ASSUME TypeOK, [Next]_vars
  PROVE  /\ \A i \in Invoices : invoice'[i].paid >= invoice[i].paid
         /\ Verified \subseteq Verified'
<1> SUFFICES ASSUME TheStep
             PROVE  /\ \A i \in Invoices : invoice'[i].paid >= invoice[i].paid
                    /\ Verified \subseteq Verified'
  BY StepCases
<1> USE DEF TypeOK, Shapes, Verified
<1>1. CASE \E a \in Admins : Verify(a)
  BY <1>1, VerifyEffect, BoundsAssumption DEF InvoiceRows
<1>2. CASE RowsUntouched
  BY <1>2 DEF RowsUntouched, InvoiceRows
<1>3. CASE \E i \in Invoices, due \in Dues : RaiseInvoice(i, due)
  BY <1>3 DEF RaiseInvoice, InvoicesWhole, InvoiceRows
<1>4. CASE \E f \in Families : CreateSubmission(f)
  BY <1>4, SubmissionsAssumption DEF CreateSubmission, Filed, InvoiceRows
<1>5. CASE \E a \in Admins : ClaimForReview(a)
  BY <1>5 DEF ClaimForReview, SubmissionRows, ReviewsWhole, InvoiceRows
<1>6. CASE \E a \in Admins : StoreReceipt(a)
  BY <1>6 DEF StoreReceipt, SubmissionRows, InvoiceRows
<1> QED
  BY <1>1, <1>2, <1>3, <1>4, <1>5, <1>6, QuietSteps

(* The parts of ReviewsInFlight, by step of the review. *)
OwnsRow(a) ==
    /\ review[a].submission \in Verified
    /\ submission[review[a].submission].receipt = 0
    /\ review[a].outcome = "VERIFIED"
    /\ \A b \in Admins \ {a} : Rendering(b) => review[b].submission # review[a].submission
SeenCovers(a) ==
    LET s == review[a].submission
    IN  review[a].seen \in submission[s].amount .. invoice[submission[s].invoice].paid
InFlight(a) ==
    /\ Rendering(a) => OwnsRow(a)
    /\ review[a].step = "rendering" => SeenCovers(a)
    /\ review[a].step = "decided" =>
          (review[a].outcome = "VERIFIED" => review[a].submission \in Verified)

LEMMA InFlightParts == ReviewsInFlight <=> \A a \in Admins : InFlight(a)
  BY DEF ReviewsInFlight, InFlight, OwnsRow, SeenCovers

(* What one review has read stays covered, because totals only grow. *)
LEMMA SeenStaysCovered ==
  ASSUME TypeOK, [Next]_vars, NEW a \in Admins, review[a].step # "idle", SeenCovers(a),
         review'[a].submission = review[a].submission, review'[a].seen = review[a].seen
  PROVE  SeenCovers(a)'
<1> DEFINE s == review[a].submission
           i == submission[s].invoice
<1>1. /\ s \in Filed /\ i \in Invoices
      /\ review[a].seen \in Nat /\ submission[s].amount \in Nat
      /\ invoice[i] \in InvoiceRows /\ invoice'[i] \in InvoiceRows
  BY StepKeepsShapes, BoundsAssumption
  DEF TypeOK, Shapes, ReviewsWhole, SubmissionsWhole, ReviewRequests, SubmissionRows, Filed
<1>2. submission'[s].invoice = i /\ submission'[s].amount = submission[s].amount
  BY <1>1, StepKeepsRows DEF RowsLast
<1>3. invoice'[i].paid >= invoice[i].paid
  BY <1>1, StepsAccumulate
<1> QED
  BY <1>1, <1>2, <1>3 DEF SeenCovers, InvoiceRows

(* Steps that touch neither this review, nor receipts, nor start another   *)
(* review's rendering leave it as it was.                                  *)
LEMMA OthersInFlight ==
  ASSUME TypeOK, [Next]_vars, NEW a \in Admins, InFlight(a), review'[a] = review[a],
         Rendering(a) => submission'[review[a].submission].receipt =
                             submission[review[a].submission].receipt,
         \A b \in Admins : Rendering(b)' /\ review'[b].submission = review[a].submission =>
              \/ Rendering(b) /\ review[b].submission = review'[b].submission
              \/ review[a].submission \notin Verified
  PROVE  InFlight(a)'
<1>1. Rendering(a)' => OwnsRow(a)'
  BY StepsAccumulate DEF InFlight, OwnsRow, Rendering, Verified
<1>2. review'[a].step = "rendering" => SeenCovers(a)'
  BY SeenStaysCovered DEF InFlight
<1> QED
  BY <1>1, <1>2, StepsAccumulate DEF InFlight

LEMMA StepKeepsReviewsInFlight ==
  TypeOK /\ ReceiptCoversPayment /\ VerifiedMoneyCounted /\ ReviewsInFlight /\ [Next]_vars
    => ReviewsInFlight'
<1> SUFFICES ASSUME TypeOK, ReceiptCoversPayment, VerifiedMoneyCounted, ReviewsInFlight,
                    [Next]_vars, TheStep, NEW c \in Admins
             PROVE  InFlight(c)'
  BY StepCases DEF ReviewsInFlight, InFlight, OwnsRow, SeenCovers
<1>1. InFlight(c) /\ \A b \in Admins : InFlight(b)
  BY InFlightParts
<1> USE DEF TypeOK, Shapes
<1>2. CASE review' = review /\ (submission' = submission \/ \E f \in Families : CreateSubmission(f))
  <2>1. CASE submission' = submission
    BY <1>1, <1>2, <2>1, OthersInFlight DEF Rendering
  <2>2. CASE \E f \in Families : CreateSubmission(f)
    <3>1. \A s \in Filed : submission'[s] = submission[s]
      BY <2>2, SubmissionsAssumption DEF CreateSubmission, Filed
    <3>2. Rendering(c) => review[c].submission \in Filed
      BY <1>1 DEF InFlight, OwnsRow, Verified, Filed
    <3> QED
      BY <1>1, <1>2, <3>1, <3>2, OthersInFlight DEF Rendering
  <2> QED
    BY <1>2, <2>1, <2>2
<1>3. CASE \E a \in Admins, s \in Submissions, outcome \in Outcomes : ReadForReview(a, s, outcome)
  <2>1. PICK a \in Admins, s \in Submissions, outcome \in Outcomes : ReadForReview(a, s, outcome)
    BY <1>3
  <2>2. CASE c = a
    BY <2>1, <2>2 DEF ReadForReview, InFlight, Rendering
  <2>3. CASE c # a
    BY <1>1, <2>1, <2>3, OthersInFlight DEF ReadForReview, Rendering
  <2> QED
    BY <2>2, <2>3
<1>4. CASE \E a \in Admins : Verify(a)
  <2>1. PICK a \in Admins : Verify(a)
    BY <1>4
  <2>2. CASE c = a
    <3>1. submission[review[a].submission].receipt = 0
      BY <2>1, VerifyEffect DEF ReceiptCoversPayment, Filed
    <3>2. \A b \in Admins \ {a} : Rendering(b)' => review'[b].submission # review[a].submission
      BY <1>1, <2>1, VerifyEffect DEF InFlight, OwnsRow, Rendering
    <3>3. OwnsRow(a)'
      BY <2>1, <3>1, <3>2, VerifyEffect DEF OwnsRow, Verified, Filed
    <3> QED
      BY <2>1, <2>2, <3>3, VerifyEffect DEF InFlight
  <2>3. CASE c # a
    BY <1>1, <2>1, <2>3, VerifyEffect, OthersInFlight
    DEF Rendering, InFlight, OwnsRow, Verified, Filed
  <2> QED
    BY <2>2, <2>3
<1>5. CASE \E a \in Admins : ClaimForReview(a)
  <2>1. PICK a \in Admins : ClaimForReview(a)
    BY <1>5
  <2>2. CASE c = a
    BY <2>1, <2>2 DEF ClaimForReview, InFlight, Rendering, ReviewRequests
  <2>3. CASE c # a
    BY <1>1, <2>1, <2>3, OthersInFlight
    DEF ClaimForReview, Rendering, ReviewRequests, SubmissionRows, ReviewsWhole, Filed
  <2> QED
    BY <2>2, <2>3
<1>6. CASE \E a \in Admins : RefuseReview(a) \/ DropReview(a) \/ Notify(a)
  <2>1. PICK a \in Admins : RefuseReview(a) \/ DropReview(a) \/ Notify(a)
    BY <1>6
  <2>2. review' = [review EXCEPT ![a] = NoReview] /\ submission' = submission
    BY <2>1 DEF RefuseReview, DropReview, Notify
  <2>3. CASE c = a
    BY <2>2, <2>3 DEF InFlight, Rendering, NoReview
  <2>4. CASE c # a
    BY <1>1, <2>2, <2>4, OthersInFlight DEF Rendering, NoReview
  <2> QED
    BY <2>3, <2>4
<1>7. CASE \E a \in Admins : ReadForReceipt(a)
  <2>1. PICK a \in Admins : ReadForReceipt(a)
    BY <1>7
  <2>2. CASE c = a
    <3> DEFINE s == review[a].submission
               i == submission[s].invoice
    <3>1. /\ s \in Verified /\ submission[s].amount <= invoice[i].paid
          /\ i \in Invoices /\ invoice[i] \in InvoiceRows
          /\ submission[s].amount \in Nat
      BY <1>1, <2>1, <2>2, ClaimWithinTotal, BoundsAssumption
      DEF ReadForReceipt, InFlight, OwnsRow, Rendering, SubmissionsWhole, SubmissionRows,
          Verified, Filed
    <3>2. review'[a] = [review[a] EXCEPT !.step = "rendering", !.seen = invoice[i].paid]
      BY <2>1 DEF ReadForReceipt
    <3>3. /\ review'[a].submission = s /\ review'[a].outcome = review[a].outcome
          /\ review'[a].seen = invoice[i].paid /\ review'[a].step = "rendering"
      BY <3>2 DEF ReviewRequests
    <3>4. SeenCovers(a)'
      BY <2>1, <3>1, <3>3 DEF ReadForReceipt, SeenCovers, InvoiceRows
    <3>5. OwnsRow(a)'
      BY <1>1, <2>1, <2>2, <3>3
      DEF ReadForReceipt, InFlight, OwnsRow, Rendering, Verified
    <3> QED
      BY <2>2, <3>3, <3>4, <3>5 DEF InFlight
  <2>3. CASE c # a
    BY <1>1, <2>1, <2>3, OthersInFlight DEF ReadForReceipt, Rendering, ReviewRequests
  <2> QED
    BY <2>2, <2>3
<1>8. CASE \E a \in Admins : StoreReceipt(a)
  <2>1. PICK a \in Admins : StoreReceipt(a)
    BY <1>8
  <2>2. CASE c = a
    BY <1>1, <2>1, <2>2, StepsAccumulate
    DEF StoreReceipt, InFlight, OwnsRow, Rendering, ReviewRequests, Verified
  <2>3. CASE c # a
    BY <1>1, <2>1, <2>3, OthersInFlight
    DEF StoreReceipt, InFlight, OwnsRow, Rendering, ReviewRequests, SubmissionRows
  <2> QED
    BY <2>2, <2>3
<1>9. CASE \E a \in Admins : LoseReceipt(a)
  <2>1. PICK a \in Admins : LoseReceipt(a)
    BY <1>9
  <2>2. CASE c = a
    BY <1>1, <2>1, <2>2
    DEF LoseReceipt, InFlight, OwnsRow, Rendering, ReviewRequests, Verified
  <2>3. CASE c # a
    BY <1>1, <2>1, <2>3, OthersInFlight DEF LoseReceipt, Rendering, ReviewRequests
  <2> QED
    BY <2>2, <2>3
<1> QED
  BY <1>2, <1>3, <1>4, <1>5, <1>6, <1>7, <1>8, <1>9
  DEF TheStep, RaiseInvoice, TakeReference, CheckDuplicate, CreateSubmission, ClashOnReference,
      DropSubmit, vars

LEMMA StepKeepsReceipts ==
  TypeOK /\ ReceiptCoversPayment /\ VerifiedMoneyCounted /\ ReviewsInFlight /\ [Next]_vars
    => ReceiptCoversPayment'
<1> SUFFICES ASSUME TypeOK, ReceiptCoversPayment, ReviewsInFlight, [Next]_vars, TheStep,
                    Shapes', NEW s \in Submissions, submission'[s].receipt # 0
             PROVE  /\ s \in Verified'
                    /\ submission'[s].receipt \in
                          submission'[s].amount .. invoice'[submission'[s].invoice].paid
  BY StepCases, StepKeepsShapes DEF ReceiptCoversPayment
<1>1. CASE submission'[s].receipt = submission[s].receipt
  <2> DEFINE i == submission[s].invoice
  <2>1. /\ s \in Verified /\ s \in Filed /\ i \in Invoices
        /\ submission[s].receipt \in submission[s].amount .. invoice[i].paid
        /\ submission[s].amount \in Nat /\ invoice[i].paid \in Nat /\ invoice'[i].paid \in Nat
    BY <1>1, BoundsAssumption
    DEF ReceiptCoversPayment, TypeOK, Shapes, SubmissionRows, InvoiceRows, SubmissionsWhole,
        Verified, Filed
  <2>2. submission'[s].amount = submission[s].amount /\ submission'[s].invoice = i
    BY <2>1, StepKeepsRows DEF RowsLast
  <2>3. s \in Verified' /\ invoice'[i].paid >= invoice[i].paid
    BY <2>1, StepsAccumulate
  <2> QED
    BY <1>1, <2>1, <2>2, <2>3
<1>2. CASE \E a \in Admins : StoreReceipt(a) /\ review[a].submission = s
  <2>1. PICK a \in Admins : StoreReceipt(a) /\ review[a].submission = s
    BY <1>2
  <2>2. /\ s \in Verified
        /\ review[a].seen \in submission[s].amount .. invoice[submission[s].invoice].paid
    BY <2>1 DEF StoreReceipt, ReviewsInFlight, Rendering
  <2>3. /\ submission'[s].receipt = review[a].seen
        /\ submission'[s].status = submission[s].status
        /\ submission'[s].amount = submission[s].amount
        /\ submission'[s].invoice = submission[s].invoice
    BY <2>1 DEF StoreReceipt, TypeOK, Shapes, SubmissionRows
  <2> QED
    BY <2>1, <2>2, <2>3 DEF StoreReceipt, Verified
<1>3. CASE \E a \in Admins : StoreReceipt(a) /\ review[a].submission # s
  BY <1>1, <1>3 DEF StoreReceipt, TypeOK, Shapes
<1>4. CASE \E f \in Families : CreateSubmission(f)
  BY <1>1, <1>4 DEF CreateSubmission, TypeOK, Shapes
<1>5. CASE \E a \in Admins : Verify(a)
  <2>1. PICK a \in Admins : Verify(a)
    BY <1>5
  <2>2. submission'[s].receipt = submission[s].receipt
    BY <2>1, VerifyEffect
  <2> QED
    BY <1>1, <2>2
<1>6. CASE \E a \in Admins : ClaimForReview(a)
  <2>1. submission'[s].receipt = submission[s].receipt
    BY <1>6 DEF ClaimForReview, TypeOK, Shapes, SubmissionRows
  <2> QED
    BY <1>1, <2>1
<1>7. CASE submission' = submission
  BY <1>1, <1>7
<1> QED
  BY <1>2, <1>3, <1>4, <1>5, <1>6, <1>7, QuietSteps DEF RowsUntouched, RaiseInvoice

(* The inductive invariant: each part needs the others.  A receipt is      *)
(* covered because the review that stores it has read a covering total,    *)
(* and a review owns a row because only a verified row has a receipt.      *)
ReceiptInv == ReceiptCoversPayment /\ ReviewsInFlight

LEMMA ReceiptInvariant == Spec => []ReceiptInv
<1>1. Init => ReceiptInv
  BY DEF Init, ReceiptInv, ReceiptCoversPayment, ReviewsInFlight, NoReview, NoSubmission, Rendering
<1>2. TypeOK /\ VerifiedMoneyCounted /\ ReceiptInv /\ [Next]_vars => ReceiptInv'
  BY StepKeepsReviewsInFlight, StepKeepsReceipts DEF ReceiptInv
<1> QED
  BY <1>1, <1>2, TypeCorrect, MoneyCounted, PTL DEF Spec

(* A verification in progress owns its row until its receipt is stored.    *)
THEOREM ReviewsOwnTheirRows == Spec => []ReviewsInFlight
  BY ReceiptInvariant, PTL DEF ReceiptInv

(* Rows and requests keep their shape while every review under way owns    *)
(* its row, however many run on the same submission.                       *)
THEOREM PaymentTablesCorrect == Spec => []PaymentTablesOK
  BY TypeCorrect, ReviewsOwnTheirRows, PTL DEF PaymentTablesOK

(* A receipt is for a verified claim, and the paid-to-date on it covers    *)
(* the claim and is on the invoice.                                        *)
THEOREM ReceiptsAreHonest == Spec => []ReceiptCoversPayment
  BY ReceiptInvariant, PTL DEF ReceiptInv

------------------------------------------------------------------------------
LEMMA StepKeepsTold ==
  TypeOK /\ ReviewsInFlight /\ [Next]_vars /\ (\A s \in Submissions : told[s] = "VERIFIED" => s \in Verified)
    => (\A s \in Submissions : told'[s] = "VERIFIED" => s \in Verified')
<1> SUFFICES ASSUME TypeOK, ReviewsInFlight, [Next]_vars, TheStep,
                    \A s \in Submissions : told[s] = "VERIFIED" => s \in Verified,
                    NEW s \in Submissions, told'[s] = "VERIFIED"
             PROVE  s \in Verified'
  BY StepCases
<1>1. CASE told' = told
  BY <1>1, StepsAccumulate
<1>2. CASE \E a \in Admins : Notify(a)
  BY <1>2, StepsAccumulate DEF Notify, TypeOK, Shapes, ReviewsInFlight
<1> QED
  BY <1>1, <1>2
  DEF TheStep, RaiseInvoice, TakeReference, CheckDuplicate, CreateSubmission, ClashOnReference,
      DropSubmit, ReadForReview, Verify, ClaimForReview, RefuseReview, DropReview,
      ReadForReceipt, StoreReceipt, LoseReceipt, vars

(* "Verified" is told only of claims that are verified and counted.        *)
THEOREM ToldTheTruth == Spec => []ToldVerifiedIsCounted
<1> DEFINE T == \A s \in Submissions : told[s] = "VERIFIED" => s \in Verified
<1>1. Init => T
  BY NoneAssumption DEF Init, Outcomes
<1>2. TypeOK /\ ReviewsInFlight /\ T /\ [Next]_vars => T'
  BY StepKeepsTold
<1>3. TypeOK /\ VerifiedMoneyCounted /\ T => ToldVerifiedIsCounted
  BY ClaimWithinTotal DEF ToldVerifiedIsCounted
<1> HIDE DEF T
<1> QED
  BY <1>1, <1>2, <1>3, TypeCorrect, MoneyCounted, ReviewsOwnTheirRows, PTL DEF Spec

(* Verification is final: status, terms and receipt of a verified claim    *)
(* never change, and no invoice's total ever goes down.                    *)
THEOREM VerificationIsFinal == Spec => VerifiedIsFinal
<1> DEFINE Final ==
      /\ \A s \in Verified :
            /\ submission'[s].status = "VERIFIED"
            /\ submission'[s].invoice = submission[s].invoice
            /\ submission'[s].amount = submission[s].amount
            /\ submission[s].receipt # 0 => submission'[s].receipt = submission[s].receipt
      /\ \A i \in Invoices : invoice'[i].paid >= invoice[i].paid
<1>1. TypeOK /\ ReviewsInFlight /\ [Next]_vars => Final
  <2> SUFFICES ASSUME TypeOK, ReviewsInFlight, [Next]_vars, TheStep, NEW s \in Verified,
                      submission[s].receipt # 0
               PROVE  submission'[s].receipt = submission[s].receipt
    BY StepCases, StepsAccumulate, StepKeepsRows DEF RowsLast, Verified, Filed
  <2> USE DEF TypeOK, Shapes, Verified
  <2>1. CASE submission' = submission
    BY <2>1
  <2>2. CASE \E f \in Families : CreateSubmission(f)
    BY <2>2, SubmissionsAssumption DEF CreateSubmission, Filed
  <2>3. CASE \E a \in Admins : Verify(a)
    BY <2>3, VerifyEffect
  <2>4. CASE \E a \in Admins : ClaimForReview(a)
    BY <2>4 DEF ClaimForReview, SubmissionRows
  <2>5. CASE \E a \in Admins : StoreReceipt(a)
    BY <2>5 DEF StoreReceipt, ReviewsInFlight, Rendering
  <2> QED
    BY <2>1, <2>2, <2>3, <2>4, <2>5, QuietSteps DEF RowsUntouched, RaiseInvoice
<1> QED
  BY <1>1, TypeCorrect, ReviewsOwnTheirRows, PTL DEF Spec, VerifiedIsFinal

------------------------------------------------------------------------------
(* Within a school, numbers drawn from the counter are never drawn again.  *)
(* For the induction: every number in use was drawn, so it is at most the  *)
(* counter.                                                                *)
Drawn(school) == {FormatPaymentReference(Year, n) : n \in 1..sequence[school]}
NumbersWereDrawn ==
    \A school \in Schools :
        /\ \A s \in Filed : SchoolOfSubmission(s) = school =>
              submission[s].reference \in Drawn(school)
        /\ \A f \in Families : submit[f].step # "idle" /\ SchoolOf[submit[f].invoice] = school =>
              submit[f].reference \in Drawn(school)
ReferenceInv == NumbersWereDrawn /\ SchoolReferencesNeverClash

LEMMA NextNumberIsNew ==
  ASSUME Shapes, NEW school \in Schools
  PROVE  /\ NextReferenceId(school) \notin Drawn(school)
         /\ sequence[school] \in Nat
  BY DEF Shapes, NextReferenceId, Drawn, FormatPaymentReference

LEMMA DrawnGrows ==
  ASSUME TypeOK, TheStep, NEW school \in Schools
  PROVE  Drawn(school) \subseteq Drawn(school)'
<1>1. sequence[school] \in Nat /\ sequence'[school] \in Nat /\ sequence'[school] >= sequence[school]
  <2>1. CASE \E f \in Families, i \in Invoices, n \in 1..MaxAmount : TakeReference(f, i, n)
    BY <2>1, SchoolOfAssumption DEF TakeReference, TypeOK, Shapes
  <2>2. CASE sequence' = sequence
    BY <2>2 DEF TypeOK, Shapes
  <2> QED
    BY <2>1, <2>2
    DEF TheStep, RaiseInvoice, CheckDuplicate, CreateSubmission, ClashOnReference, DropSubmit,
        ReadForReview, Verify, ClaimForReview, RefuseReview, DropReview, ReadForReceipt,
        StoreReceipt, LoseReceipt, Notify, vars
<1> QED
  BY <1>1 DEF Drawn

(* Steps of other requests: no new row, and every request as it was or idle. *)
LEMMA ReferencesKept ==
  ASSUME TypeOK, ReferenceInv, TheStep, RowsLast, Filed' \subseteq Filed,
         \A f \in Families :
            \/ submit'[f].step = "idle"
            \/ /\ submit[f].step # "idle"
               /\ submit'[f].invoice = submit[f].invoice
               /\ submit'[f].reference = submit[f].reference
  PROVE  ReferenceInv'
<1>1. NumbersWereDrawn'
  BY DrawnGrows DEF ReferenceInv, NumbersWereDrawn, RowsLast, SchoolOfSubmission
<1>2. SchoolReferencesNeverClash'
  BY DEF ReferenceInv, SchoolReferencesNeverClash, RowsLast, SchoolOfSubmission
<1> QED
  BY <1>1, <1>2 DEF ReferenceInv

LEMMA StepKeepsReferences == TypeOK /\ ReferenceInv /\ [Next]_vars => ReferenceInv'
<1> SUFFICES ASSUME TypeOK, ReferenceInv, [Next]_vars, TheStep, RowsLast, Shapes'
             PROVE  ReferenceInv'
  BY StepCases, StepKeepsRows, StepKeepsShapes
<1>1. CASE \E f \in Families, i \in Invoices, n \in 1..MaxAmount : TakeReference(f, i, n)
  <2>1. PICK f \in Families, i \in Invoices, n \in 1..MaxAmount : TakeReference(f, i, n)
    BY <1>1
  <2>2. PICK school \in Schools : school = SchoolOf[i]
    BY SchoolOfAssumption
  <2>3. /\ submit'[f].invoice = i
        /\ submit'[f].reference = NextReferenceId(school)
        /\ submit'[f].step = "referenced"
        /\ \A g \in Families \ {f} : submit'[g] = submit[g]
        /\ submission' = submission /\ Filed' = Filed
        /\ sequence' = [sequence EXCEPT ![school] = @ + 1]
    BY <2>1, <2>2 DEF TakeReference, TypeOK, Shapes, Filed
  <2>4. NextReferenceId(school) \notin Drawn(school) /\ NextReferenceId(school) \in Drawn(school)'
    BY <2>3, NextNumberIsNew DEF TypeOK, Shapes, Drawn, NextReferenceId
  <2>5. NumbersWereDrawn'
    BY <2>2, <2>3, <2>4, DrawnGrows DEF ReferenceInv, NumbersWereDrawn, SchoolOfSubmission
  <2>6. SchoolReferencesNeverClash'
    BY <2>2, <2>3, <2>4
    DEF ReferenceInv, NumbersWereDrawn, SchoolReferencesNeverClash, SchoolOfSubmission
  <2> QED
    BY <2>5, <2>6 DEF ReferenceInv
<1>2. CASE \E f \in Families : CreateSubmission(f)
  <2>1. PICK f \in Families : CreateSubmission(f)
    BY <1>2
  <2>2. PICK s \in Submissions :
          /\ \A t \in Submissions : t # s => submission'[t] = submission[t]
          /\ submission'[s].invoice = submit[f].invoice
          /\ submission'[s].reference = submit[f].reference
    BY <2>1 DEF CreateSubmission, TypeOK, Shapes
  <2>3. /\ submit'[f].step = "idle"
        /\ \A g \in Families \ {f} : submit'[g] = submit[g]
        /\ submit[f].step # "idle"
    BY <2>1 DEF CreateSubmission, NoSubmit, TypeOK, Shapes
  <2>4. NumbersWereDrawn'
    BY <2>2, <2>3, DrawnGrows
    DEF ReferenceInv, NumbersWereDrawn, SchoolOfSubmission, Filed
  <2>5. SchoolReferencesNeverClash'
    BY <2>2, <2>3 DEF ReferenceInv, SchoolReferencesNeverClash, SchoolOfSubmission, Filed
  <2> QED
    BY <2>4, <2>5 DEF ReferenceInv
<1>3. CASE \E f \in Families : CheckDuplicate(f) \/ ClashOnReference(f) \/ DropSubmit(f)
  BY <1>3, ReferencesKept
  DEF CheckDuplicate, ClashOnReference, DropSubmit, NoSubmit, TypeOK, Shapes, SubmitRequests, Filed
<1>4. CASE submit' = submit /\ Filed' \subseteq Filed
  BY <1>4, ReferencesKept
<1>5. CASE \E a \in Admins : Verify(a)
  <2>1. PICK a \in Admins : Verify(a)
    BY <1>5
  <2>2. submit' = submit /\ Filed' \subseteq Filed
    BY <2>1, VerifyEffect DEF Verify, Filed
  <2> QED
    BY <2>2, <1>4
<1>6. CASE \E a \in Admins : ClaimForReview(a)
  BY <1>4, <1>6 DEF ClaimForReview, Filed, TypeOK, Shapes, SubmissionRows, ReviewsWhole
<1>7. CASE \E a \in Admins : StoreReceipt(a)
  BY <1>4, <1>7 DEF StoreReceipt, Filed, TypeOK, Shapes, SubmissionRows
<1> QED
  BY <1>1, <1>2, <1>3, <1>4, <1>5, <1>6, <1>7
  DEF TheStep, RaiseInvoice, ReadForReview, RefuseReview, DropReview, ReadForReceipt,
      LoseReceipt, Notify, vars, Filed

(* Two requests of one school never hold the same number, nor a request    *)
(* and a submission: within a school the unique index never fires.         *)
THEOREM SchoolReferencesAreUnique == Spec => []SchoolReferencesNeverClash
<1>1. Init => ReferenceInv
  BY DEF Init, ReferenceInv, NumbersWereDrawn, SchoolReferencesNeverClash, NoSubmit,
         NoSubmission, Filed
<1>2. ReferenceInv => SchoolReferencesNeverClash
  BY DEF ReferenceInv
<1> QED
  BY <1>1, <1>2, StepKeepsReferences, TypeCorrect, PTL DEF Spec

------------------------------------------------------------------------------
(* Refinement: every step is a step of the ledger, or invisible to it. *)
LEMMA StepsOfLedger == TypeOK /\ [Next]_vars => [Ledger!Next]_(Ledger!ledgerVars)
<1> SUFFICES ASSUME TypeOK, TheStep PROVE [Ledger!Next]_(Ledger!ledgerVars)
  BY StepCases
<1>1. CASE \E a \in Admins : Verify(a)
  <2>1. PICK a \in Admins : Verify(a)
    BY <1>1
  <2>2. PICK s \in Submissions, i \in Invoices, n \in 1..MaxAmount :
            s = review[a].submission /\ i = submission[s].invoice /\ n = submission[s].amount
    BY <2>1, VerifyEffect DEF Filed
  <2>3. AcceptedClaims[s] = None
    BY <2>1, <2>2, VerifyEffect DEF AcceptedClaims, Verified
  <2>4. AcceptedClaims' = [AcceptedClaims EXCEPT ![s] = [invoice |-> i, amount |-> n]]
    <3>1. /\ submission'[s].status = "VERIFIED"
          /\ submission'[s].invoice = i
          /\ submission'[s].amount = n
          /\ \A t \in Submissions : t # s => submission'[t] = submission[t]
      BY <2>1, <2>2, VerifyEffect
    <3> QED
      BY <3>1 DEF AcceptedClaims, Verified
  <2>5. PaidPerInvoice' = [PaidPerInvoice EXCEPT ![i] = @ + n]
    BY <2>1, <2>2, VerifyEffect DEF PaidPerInvoice
  <2>6. Ledger!Accept(s, i, n)
    BY <2>3, <2>4, <2>5 DEF Ledger!Accept
  <2> QED
    BY <2>2, <2>6 DEF Ledger!Next
<1>2. CASE ~ \E a \in Admins : Verify(a)
  <2>1. PaidPerInvoice' = PaidPerInvoice
    BY <1>2, OtherStepsCreditNothing DEF PaidPerInvoice
  <2>2. \A s \in Submissions :
          /\ s \in Verified <=> s \in Verified'
          /\ s \in Verified => /\ submission'[s].invoice = submission[s].invoice
                               /\ submission'[s].amount = submission[s].amount
    BY <1>2, OtherStepsKeepClaims DEF Verified
  <2>3. AcceptedClaims' = AcceptedClaims
    BY <2>2 DEF AcceptedClaims
  <2> QED
    BY <2>1, <2>3 DEF Ledger!ledgerVars
<1> QED
  BY <1>1, <1>2

(* The service implements the ledger: a claim is accepted once and for     *)
(* good, and its amount counts towards its own invoice.                    *)
THEOREM LedgerImplemented == Spec => ImplementsLedger
<1>1. Init => Ledger!Init
  BY DEF Init, Ledger!Init, PaidPerInvoice, AcceptedClaims, Verified, NoInvoice, NoSubmission
<1> QED
  BY <1>1, StepsOfLedger, TypeCorrect, PTL DEF Spec, ImplementsLedger, Ledger!Spec
==============================================================================
