---------------------------- MODULE BankStatement ----------------------------
(***************************************************************************)
(* Reconciling submitted payments with the school's bank statement         *)
(* (apps/api/src/bank-statement/bank-statement.service.ts), beside the     *)
(* reviews of Payments: the same admins, the same PaymentSubmission rows.  *)
(*                                                                         *)
(* An admin imports statement lines, looks at suggested pairs on the       *)
(* bank-statement page and confirms them there.  A page keeps showing what *)
(* two reads returned when it was loaded, however long ago that was, so    *)
(* the model remembers every pair a school was ever shown: each may still  *)
(* be on somebody's screen, next to its Confirm button.                    *)
(***************************************************************************)
EXTENDS Payments, FiniteSetsExt

CONSTANTS
    Lines,   \* row numbers of BankStatementLine, in order of transactionDate
    Desks,   \* loads of the bank-statement page that can overlap
    DeskOf   \* DeskOf[d]: the school of the admin at d

ASSUME LinesAssumption == Lines \subseteq Nat /\ IsFiniteSet(Lines)
ASSUME DeskOfAssumption == DeskOf \in [Desks -> Schools]
ASSUME SchoolsAssumption == None \notin Schools

VARIABLES
    line,    \* table BankStatementLine; school = None: not imported
    load,    \* load[d]: the submissions read by a load under way, or None
    shown    \* shown[c]: the pairs suggested to school c so far

bankVars == <<line, load, shown>>
bankAllVars == <<vars, bankVars>>

NotImported == [school |-> None, amount |-> 0, match |-> None]

BankInit ==
    /\ Init
    /\ line = [l \in Lines |-> NotImported]
    /\ load = [d \in Desks |-> None]
    /\ shown = [c \in Schools |-> {}]

Imported == {l \in Lines : line[l].school # None}

(* import: the rows that parse are inserted by one createMany. *)
ImportStatement(school, batch) ==
    /\ batch # {}
    /\ batch \cap Imported = {}
    /\ \E amount \in [batch -> 1..MaxAmount] :
          line' = [l \in Lines |->
              IF l \in batch
              THEN [school |-> school, amount |-> amount[l], match |-> None]
              ELSE line[l]]
    /\ UNCHANGED <<vars, load, shown>>

------------------------------------------------------------------------------
(* suggestedMatches *)
Pending(school) ==
    {s \in Submissions : /\ submission[s].status = "PENDING_VERIFICATION"
                         /\ SchoolOfSubmission(s) = school}
Unmatched(school) ==
    {l \in Lines : line[l].school = school /\ line[l].match = None}

(* Broken variants: lines of any amount, lines already spoken for. *)
LinesOfAnyAmount(pairs, s, lines) == {l \in lines : \A p \in pairs : p.line # l}
LinesOfItsAmount(pairs, s, lines) == {l \in lines : line[l].amount = submission[s].amount}

FreeLines(pairs, s, lines) ==
    {l \in lines : line[l].amount = submission[s].amount /\ \A p \in pairs : p.line # l}

(* Broken variant: a submission no line fits is suggested with none. *)
OfferAnyway(pairs, s, lines) ==
    LET free == FreeLines(pairs, s, lines)
    IN  pairs \cup {[submission |-> s, line |-> IF free = {} THEN None ELSE Min(free)]}
(* One turn of the loop: submission s is offered the first line of its     *)
(* amount that no earlier pair has spoken for.                             *)
Offer(pairs, s, lines) ==
    LET free == FreeLines(pairs, s, lines)
    IN  IF free = {} THEN pairs
        ELSE pairs \cup {[submission |-> s, line |-> Min(free)]}

(* The loop goes from the oldest submission to the newest: upTo[s] is what *)
(* has been suggested when it has dealt with s.                            *)
SuggestedMatches(pending, lines) ==
    LET upTo[s \in pending] ==
            Offer(UNION {upTo[r] : r \in {x \in pending : x < s}}, s, lines)
    IN  UNION {upTo[s] : s \in pending}

ReadPending(d) ==
    /\ load[d] = None
    /\ load' = [load EXCEPT ![d] = Pending(DeskOf[d])]
    /\ UNCHANGED <<vars, line, shown>>

ReadLines(d) ==
    /\ load[d] # None
    /\ shown' = [shown EXCEPT ![DeskOf[d]] =
                    @ \cup SuggestedMatches(load[d], Unmatched(DeskOf[d]))]
    /\ load' = [load EXCEPT ![d] = None]
    /\ UNCHANGED <<vars, line>>

(* Broken variant: a bare update, which re-points a reconciled line. *)
OfSchool(school, l) == line[l].school = school
(* The WHERE clause of the update that claims a line. *)
Unspent(school, l) == line[l].school = school /\ line[l].match = None

(* confirmMatch: the conditional update claims the line, and the unique    *)
(* index on matchedPaymentSubmissionId refuses a payment that has one.  A  *)
(* refused confirmation changes nothing, so it is no action.               *)
ConfirmMatch(school, p) ==
    /\ p.submission \in Filed
    /\ SchoolOfSubmission(p.submission) = school
    /\ Unspent(school, p.line)
    /\ \A l \in Lines : line[l].match # p.submission
    /\ line' = [line EXCEPT ![p.line].match = p.submission]
    /\ UNCHANGED <<vars, load, shown>>

BankStep ==
    \/ \E school \in Schools, batch \in SUBSET Lines : ImportStatement(school, batch)
    \/ \E d \in Desks : ReadPending(d)
    \/ \E d \in Desks : ReadLines(d)
    \/ \E school \in Schools : \E p \in shown[school] : ConfirmMatch(school, p)

BankNext ==
    \/ Next /\ UNCHANGED bankVars
    \/ BankStep

BankSpec == BankInit /\ [][BankNext]_bankAllVars

------------------------------------------------------------------------------
Pairs == [submission : Submissions, line : Lines]

(* Lines and screens have the shape the schema and the page give them. *)
BankTypeOK ==
    /\ line \in [Lines -> [school : Schools \cup {None}, amount : 0..MaxAmount,
                           match : Submissions \cup {None}]]
    /\ load \in [Desks -> {None} \cup SUBSET Submissions]
    /\ shown \in [Schools -> SUBSET Pairs]

(* A reconciled line is evidence of a real payment of the same school and  *)
(* the same amount, however old the screen it was confirmed from; and no   *)
(* payment has two transfers behind it.                                    *)
MatchesAreSound ==
    \A l \in Lines : line[l].match # None =>
        /\ line[l].match \in Filed
        /\ SchoolOfSubmission(line[l].match) = line[l].school
        /\ submission[line[l].match].amount = line[l].amount
        /\ \A k \in Lines \ {l} : line[k].match # line[l].match

(* "A line can be spent once": no later import, confirmation or review     *)
(* un-reconciles a line or points it at another payment.                   *)
LineSpentOnce ==
    [][\A l \in Lines : line[l].match # None => line'[l] = line[l]]_bankAllVars

(* The loop's result is the fair one: among pending submissions of one     *)
(* amount, the k-th oldest is offered the k-th earliest free line of it,   *)
(* and no line is offered twice.                                           *)
Twins(S, amountOf, x) == {y \in S : amountOf[y].amount = amountOf[x].amount}
Rank(S, x) == Cardinality({y \in S : y <= x})
FairMatches(pending, lines) ==
    {p \in [submission : pending, line : lines] :
        /\ submission[p.submission].amount = line[p.line].amount
        /\ Rank(Twins(pending, submission, p.submission), p.submission) =
               Rank(Twins(lines, line, p.line), p.line)}
SuggestionsAreFair ==
    \A school \in Schools :
        SuggestedMatches(Pending(school), Unmatched(school)) =
            FairMatches(Pending(school), Unmatched(school))
==============================================================================
