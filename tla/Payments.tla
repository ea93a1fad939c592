------------------------------ MODULE Payments ------------------------------
(***************************************************************************)
(* Fee payments, from the parent's screenshot to the receipt               *)
(* (apps/api/src/payments/payments.service.ts).                            *)
(*                                                                         *)
(* A family files a claim of having paid an invoice; a school admin        *)
(* reviews it.  Every `await` of the service is a round trip to Postgres   *)
(* at READ COMMITTED, so a request is a sequence of actions, any other     *)
(* request may run between two of them, and a request may die between two  *)
(* of them (a failed query, a restart of the process).  One statement, and *)
(* one $transaction whose first write takes the row lock, is one action.   *)
(***************************************************************************)
EXTENDS Naturals, FiniteSets

CONSTANTS
    Schools,
    Invoices,
    SchoolOf,     \* SchoolOf[i]: the school that raises invoice i
    Submissions,  \* row numbers of PaymentSubmission, in order of createdAt
    Families,     \* clients that submit payments: a parent's app, a student's
    MayPay,       \* MayPay[f]: the invoices of f's own student, at f's school
    Admins,       \* browser tabs of school admins
    AdminOf,      \* AdminOf[a]: the school of the admin at a
    MaxAmount,    \* bound: largest amount of a claim
    Dues,         \* amounts an invoice can be raised for
    MaxSequence,  \* bound: MaxSequence[c] references drawn by school c this year
    Year,         \* the calendar year; it is part of every reference
    None

Outcomes == {"VERIFIED", "REJECTED", "NEEDS_INFO"}

ASSUME SubmissionsAssumption ==
    Submissions \subseteq Nat /\ IsFiniteSet(Submissions)
ASSUME SchoolOfAssumption == SchoolOf \in [Invoices -> Schools]
ASSUME MayPayAssumption == MayPay \in [Families -> SUBSET Invoices]
ASSUME AdminOfAssumption == AdminOf \in [Admins -> Schools]
ASSUME BoundsAssumption ==
    /\ MaxAmount \in Nat \ {0}
    /\ Dues \subseteq Nat \ {0}
    /\ MaxSequence \in [Schools -> Nat]
    /\ Year \in Nat
ASSUME NoneAssumption ==
    /\ None \notin Invoices \cup Submissions \cup Nat \cup Outcomes
    /\ \A i \in Invoices, n \in 1..MaxAmount : None # [invoice |-> i, amount |-> n]

VARIABLES
    invoice,     \* table Invoice: amountDue, amountPaid, status
    sequence,    \* table PaymentReferenceSequence, this year's rows
    submission,  \* table PaymentSubmission
    submit,      \* submit[f]: the POST a family has in flight
    review,      \* review[a]: the PATCH an admin has in flight
    told         \* told[s]: the outcome the family last heard about s

tables == <<invoice, sequence, submission>>
requests == <<submit, review>>
vars == <<tables, requests, told>>

(* SKL-<year>-<sequence, padded>: the school is not part of it. *)
FormatPaymentReference(year, n) == <<"SKL", year, n>>
References == {"SKL"} \X {Year} \X Nat

(* "NONE" is the status of a row that has not been inserted. *)
NoInvoice == [status |-> "NONE", due |-> 0, paid |-> 0]
NoSubmission ==
    [status |-> "NONE", invoice |-> None, amount |-> 0, reference |-> None,
     duplicateOf |-> None, receipt |-> 0]

NoSubmit ==
    [step |-> "idle", invoice |-> None, amount |-> 0, reference |-> None,
     duplicateOf |-> None]
NoReview == [step |-> "idle", submission |-> None, outcome |-> None, seen |-> 0]

Filed == {s \in Submissions : submission[s].status # "NONE"}
Verified == {s \in Submissions : submission[s].status = "VERIFIED"}
SchoolOfSubmission(s) == SchoolOf[submission[s].invoice]

(* Money as sets of units: the units of verified claims against i.  Its    *)
(* cardinality is the sum of their amounts.                                *)
Credited(i) ==
    {unit \in Submissions \X (1..MaxAmount) :
        /\ submission[unit[1]].status = "VERIFIED"
        /\ submission[unit[1]].invoice = i
        /\ unit[2] <= submission[unit[1]].amount}

Init ==
    /\ invoice = [i \in Invoices |-> NoInvoice]
    /\ sequence = [c \in Schools |-> 0]
    /\ submission = [s \in Submissions |-> NoSubmission]
    /\ submit = [f \in Families |-> NoSubmit]
    /\ review = [a \in Admins |-> NoReview]
    /\ told = [s \in Submissions |-> None]

------------------------------------------------------------------------------
(* InvoicesService.create *)
RaiseInvoice(i, due) ==
    /\ invoice[i].status = "NONE"
    /\ invoice' = [invoice EXCEPT ![i] = [status |-> "UNPAID", due |-> due, paid |-> 0]]
    /\ UNCHANGED <<sequence, submission, requests, told>>

------------------------------------------------------------------------------
(* PaymentsService.submitPayment *)

(* Broken variant: numbering by the rows there are instead of a counter.   *)
CountedReferenceId(school) ==
    FormatPaymentReference(Year, 1 + Cardinality({s \in Filed : SchoolOfSubmission(s) = school}))

(* nextReferenceId: one upsert increments the school's counter for the year. *)
NextReferenceId(school) == FormatPaymentReference(Year, sequence[school] + 1)

(* Broken variant: the invoice id of the request is taken as it comes. *)
NamesInvoice(f, i) == i \in MayPay[f]
(* The lookup finds the invoice under the caller's school and student. *)
FindsInvoice(f, i) == i \in MayPay[f] /\ invoice[i].status # "NONE"

(* With the invoice found, a reference is drawn from the counter. *)
TakeReference(f, i, n) ==
    /\ submit[f].step = "idle"
    /\ FindsInvoice(f, i)
    /\ sequence[SchoolOf[i]] < MaxSequence[SchoolOf[i]]
    /\ sequence' = [sequence EXCEPT ![SchoolOf[i]] = @ + 1]
    /\ submit' = [submit EXCEPT ![f] =
          [step |-> "referenced", invoice |-> i, amount |-> n,
           reference |-> NextReferenceId(SchoolOf[i]), duplicateOf |-> None]]
    /\ UNCHANGED <<invoice, submission, review, told>>

PossibleDuplicates(i, n) ==
    {s \in Submissions : /\ submission[s].status = "PENDING_VERIFICATION"
                         /\ submission[s].invoice = i
                         /\ submission[s].amount = n}

(* findFirst without an order returns any of the rows that qualify. *)
CheckDuplicate(f) ==
    LET likely == PossibleDuplicates(submit[f].invoice, submit[f].amount)
    IN  /\ submit[f].step = "referenced"
        /\ \E d \in IF likely = {} THEN {None} ELSE likely :
              submit' = [submit EXCEPT ![f].step = "checked", ![f].duplicateOf = d]
        /\ UNCHANGED <<tables, review, told>>

ReferenceTaken(r) == \E s \in Submissions : submission[s].reference = r

(* The insert; rows are numbered in the order they are inserted. *)
CreateSubmission(f) ==
    /\ submit[f].step = "checked"
    /\ ~ReferenceTaken(submit[f].reference)
    /\ \E s \in Submissions :
          /\ \A t \in Submissions : t < s <=> t \in Filed
          /\ submission' = [submission EXCEPT ![s] =
                [status |-> "PENDING_VERIFICATION", invoice |-> submit[f].invoice,
                 amount |-> submit[f].amount, reference |-> submit[f].reference,
                 duplicateOf |-> submit[f].duplicateOf, receipt |-> 0]]
    /\ submit' = [submit EXCEPT ![f] = NoSubmit]
    /\ UNCHANGED <<invoice, sequence, review, told>>

(* referenceId is @unique over the whole table: the insert fails with P2002. *)
ClashOnReference(f) ==
    /\ submit[f].step = "checked"
    /\ ReferenceTaken(submit[f].reference)
    /\ submit' = [submit EXCEPT ![f] = NoSubmit]
    /\ UNCHANGED <<tables, review, told>>

(* A query fails or the process dies: what has been written stays written. *)
DropSubmit(f) ==
    /\ submit[f].step # "idle"
    /\ submit' = [submit EXCEPT ![f] = NoSubmit]
    /\ UNCHANGED <<tables, review, told>>

------------------------------------------------------------------------------
(* PaymentsService.review *)

(* The first read: the row exists and is not verified. *)
Reviewable == Filed \ Verified

ReadForReview(a, s, outcome) ==
    /\ review[a].step = "idle"
    /\ s \in Reviewable
    /\ SchoolOfSubmission(s) = AdminOf[a]
    /\ review' = [review EXCEPT ![a] =
          [step |-> "read", submission |-> s, outcome |-> outcome, seen |-> 0]]
    /\ UNCHANGED <<tables, submit, told>>

(* Broken variant: the invoice paid to the rupee is not PAID. *)
StatusAfterMore(paid, due) == IF paid > due THEN "PAID" ELSE "PARTIALLY_PAID"
StatusAfter(paid, due) == IF paid >= due THEN "PAID" ELSE "PARTIALLY_PAID"

(* Broken variant: an update whose WHERE clause has lost its status test. *)
ClaimableAlways(s) == s \in Filed
(* The status test of both claims, which the row lock makes atomic. *)
Claimable(s) == submission[s].status # "VERIFIED"

(* The transaction: claim the row unless it is verified, credit the invoice. *)
Verify(a) ==
    LET s == review[a].submission
        i == submission[s].invoice
        total == invoice[i].paid + submission[s].amount
    IN  /\ review[a].step = "read"
        /\ review[a].outcome = "VERIFIED"
        /\ Claimable(s)
        /\ submission' = [submission EXCEPT ![s].status = "VERIFIED"]
        /\ invoice' = [invoice EXCEPT ![i].paid = total,
                                      ![i].status = StatusAfter(total, invoice[i].due)]
        /\ review' = [review EXCEPT ![a].step = "verified"]
        /\ UNCHANGED <<sequence, submit, told>>

(* claimForReview: a rejection or a question, unless the row is verified.  *)
(* reviewNote is overwritten, and the duplicate flag it carried with it.   *)
ClaimForReview(a) ==
    LET s == review[a].submission
    IN  /\ review[a].step = "read"
        /\ review[a].outcome # "VERIFIED"
        /\ Claimable(s)
        /\ submission' = [submission EXCEPT ![s].status = review[a].outcome,
                                            ![s].duplicateOf = None]
        /\ review' = [review EXCEPT ![a].step = "decided"]
        /\ UNCHANGED <<invoice, sequence, submit, told>>

(* Neither claim matches a row: somebody else verified it first. *)
RefuseReview(a) ==
    /\ review[a].step = "read"
    /\ ~Claimable(review[a].submission)
    /\ review' = [review EXCEPT ![a] = NoReview]
    /\ UNCHANGED <<tables, submit, told>>

(* Broken variant: a receipt made from the invoice as it was before. *)
PaidBefore(s) == invoice[submission[s].invoice].paid - submission[s].amount
PaidToDate(s) == invoice[submission[s].invoice].paid

(* renderReceipt reads the invoice, renders and uploads, then stores the   *)
(* URL.  A receipt is modelled by the paid-to-date figure printed on it.   *)
ReadForReceipt(a) ==
    /\ review[a].step = "verified"
    /\ review' = [review EXCEPT ![a].step = "rendering",
                                       ![a].seen = PaidToDate(review[a].submission)]
    /\ UNCHANGED <<tables, submit, told>>

StoreReceipt(a) ==
    /\ review[a].step = "rendering"
    /\ submission' = [submission EXCEPT ![review[a].submission].receipt = review[a].seen]
    /\ review' = [review EXCEPT ![a].step = "decided"]
    /\ UNCHANGED <<invoice, sequence, submit, told>>

(* Rendering, upload and update are best effort: the error is logged. *)
LoseReceipt(a) ==
    /\ review[a].step \in {"verified", "rendering"}
    /\ review' = [review EXCEPT ![a].step = "decided"]
    /\ UNCHANGED <<tables, submit, told>>

(* The family is messaged last.  A send that fails is swallowed, which has *)
(* the effect of DropReview at this point.                                 *)
Notify(a) ==
    /\ review[a].step = "decided"
    /\ told' = [told EXCEPT ![review[a].submission] = review[a].outcome]
    /\ review' = [review EXCEPT ![a] = NoReview]
    /\ UNCHANGED <<tables, submit>>

DropReview(a) ==
    /\ review[a].step # "idle"
    /\ review' = [review EXCEPT ![a] = NoReview]
    /\ UNCHANGED <<tables, submit, told>>

------------------------------------------------------------------------------
SubmitStep(f) ==
    \/ \E i \in Invoices, n \in 1..MaxAmount : TakeReference(f, i, n)
    \/ CheckDuplicate(f)
    \/ CreateSubmission(f)
    \/ ClashOnReference(f)
    \/ DropSubmit(f)

ReviewStep(a) ==
    \/ \E s \in Submissions, outcome \in Outcomes : ReadForReview(a, s, outcome)
    \/ Verify(a)
    \/ ClaimForReview(a)
    \/ RefuseReview(a)
    \/ ReadForReceipt(a)
    \/ StoreReceipt(a)
    \/ LoseReceipt(a)
    \/ Notify(a)
    \/ DropReview(a)

Next ==
    \/ \E i \in Invoices, due \in Dues : RaiseInvoice(i, due)
    \/ \E f \in Families : SubmitStep(f)
    \/ \E a \in Admins : ReviewStep(a)

Spec == Init /\ [][Next]_vars
------------------------------------------------------------------------------
(* Every table and every request in flight has the shape the schema and    *)
(* the code give it.                                                       *)
InvoiceRows ==
    [status : {"NONE", "UNPAID", "PARTIALLY_PAID", "PAID"},
     due : Dues \cup {0}, paid : Nat]
SubmissionRows ==
    [status : {"NONE", "PENDING_VERIFICATION"} \cup Outcomes,
     invoice : Invoices \cup {None}, amount : 0..MaxAmount,
     reference : References \cup {None},
     duplicateOf : Submissions \cup {None}, receipt : Nat]
SubmitRequests ==
    [step : {"idle", "referenced", "checked"},
     invoice : Invoices \cup {None}, amount : 0..MaxAmount,
     reference : References \cup {None}, duplicateOf : Submissions \cup {None}]
ReviewRequests ==
    [step : {"idle", "read", "verified", "rendering", "decided"},
     submission : Submissions \cup {None}, outcome : Outcomes \cup {None},
     seen : Nat]

Shapes ==
    /\ invoice \in [Invoices -> InvoiceRows]
    /\ sequence \in [Schools -> Nat]
    /\ submission \in [Submissions -> SubmissionRows]
    /\ submit \in [Families -> SubmitRequests]
    /\ review \in [Admins -> ReviewRequests]
    /\ told \in [Submissions -> Outcomes \cup {None}]

(* A row that exists is about an invoice that exists and claims a positive *)
(* amount; a request past its first read is about one, too.                *)
InvoicesWhole ==
    \A i \in Invoices : /\ invoice[i].status # "NONE" => invoice[i].due > 0
                        /\ invoice[i].status = "NONE" => invoice[i].paid = 0
SubmissionsWhole ==
    \A s \in Filed : /\ submission[s].invoice \in Invoices
                     /\ invoice[submission[s].invoice].status # "NONE"
                     /\ submission[s].amount > 0
SubmitsWhole ==
    \A f \in Families : submit[f].step # "idle" =>
        /\ submit[f].invoice \in Invoices
        /\ invoice[submit[f].invoice].status # "NONE"
        /\ submit[f].amount > 0
ReviewsWhole ==
    \A a \in Admins : review[a].step # "idle" =>
        review[a].submission \in Filed /\ review[a].outcome \in Outcomes

TypeOK == Shapes /\ InvoicesWhole /\ SubmissionsWhole /\ SubmitsWhole /\ ReviewsWhole

(* However many admins work the same queue, and wherever a review dies, an *)
(* invoice's running total is the sum of the verified claims against it:   *)
(* no claim is credited twice, to another invoice, or not at all.          *)
VerifiedMoneyCounted ==
    \A i \in Invoices : invoice[i].paid = Cardinality(Credited(i))

(* The invoice's status is settled by the claims themselves: PAID exactly  *)
(* when the verified ones cover what is due, UNPAID while there is none.   *)
StatusFollowsClaims ==
    \A i \in Invoices : invoice[i].status # "NONE" =>
        /\ invoice[i].status = "PAID" <=> Cardinality(Credited(i)) >= invoice[i].due
        /\ invoice[i].status = "UNPAID" <=> Credited(i) = {}

(* A receipt exists only for a verified claim, and its paid-to-date figure *)
(* covers that claim and is money the school has recorded: a receipt is    *)
(* rendered from a second read, after the transaction that verified.       *)
ReceiptCoversPayment ==
    \A s \in Submissions : submission[s].receipt # 0 =>
        /\ s \in Verified
        /\ submission[s].receipt \in
              submission[s].amount .. invoice[submission[s].invoice].paid

(* A verification in progress owns its row: past the claim, the row is     *)
(* VERIFIED and without a receipt, no other review is past a claim of the  *)
(* same row, and what the renderer has read covers the claim.              *)
Rendering(a) == review[a].step \in {"verified", "rendering"}
ReviewsInFlight ==
    \A a \in Admins :
        LET s == review[a].submission
        IN  /\ Rendering(a) =>
                  /\ s \in Verified
                  /\ submission[s].receipt = 0
                  /\ review[a].outcome = "VERIFIED"
                  /\ \A b \in Admins \ {a} : Rendering(b) => review[b].submission # s
            /\ review[a].step = "rendering" =>
                  review[a].seen \in submission[s].amount .. invoice[submission[s].invoice].paid
            /\ review[a].step = "decided" =>
                  (review[a].outcome = "VERIFIED" => s \in Verified)

(* Rows and requests have their shape, and a review under way owns its row. *)
PaymentTablesOK ==
    /\ TypeOK
    /\ ReviewsInFlight

(* A family that was told "verified" can rely on it: the claim is verified *)
(* and counted, whatever other reviews of it are still running.            *)
ToldVerifiedIsCounted ==
    \A s \in Submissions : told[s] = "VERIFIED" =>
        /\ s \in Verified
        /\ submission[s].amount <= invoice[submission[s].invoice].paid

(* Within a school the counter does what it is for: the number a request   *)
(* drew is on no submission of that school and on no other request.        *)
SchoolReferencesNeverClash ==
    \A f \in Families : submit[f].step # "idle" =>
        /\ \A s \in Filed : SchoolOfSubmission(s) = SchoolOf[submit[f].invoice]
              => submission[s].reference # submit[f].reference
        /\ \A g \in Families \ {f} :
              /\ submit[g].step # "idle"
              /\ SchoolOf[submit[g].invoice] = SchoolOf[submit[f].invoice]
              => submit[g].reference # submit[f].reference

(* What the schema says of the counter: references never collide under     *)
(* concurrent submissions.  It counts per school, the column is unique     *)
(* over all schools.                                                       *)
ReferencesNeverCollide ==
    \A f \in Families : submit[f].step # "idle" => ~ReferenceTaken(submit[f].reference)

(* Verification is final and a rejection loses to it: a verified claim     *)
(* keeps its status, its terms and its receipt, and the total of an        *)
(* invoice never goes down.                                                *)
VerifiedIsFinal ==
    [][/\ \A s \in Verified :
            /\ submission'[s].status = "VERIFIED"
            /\ submission'[s].invoice = submission[s].invoice
            /\ submission'[s].amount = submission[s].amount
            /\ submission[s].receipt # 0 => submission'[s].receipt = submission[s].receipt
       /\ \A i \in Invoices : invoice'[i].paid >= invoice[i].paid]_vars

(* The service implements the ledger: a claim is accepted when its row     *)
(* becomes VERIFIED, and every other step leaves the ledger alone.         *)
PaidPerInvoice == [i \in Invoices |-> invoice[i].paid]
AcceptedClaims ==
    [s \in Submissions |->
        IF s \in Verified
        THEN [invoice |-> submission[s].invoice, amount |-> submission[s].amount]
        ELSE None]
Ledger == INSTANCE FeeLedger WITH Claims <- Submissions,
                                  paid <- PaidPerInvoice,
                                  accepted <- AcceptedClaims
ImplementsLedger == Ledger!Spec
==============================================================================
