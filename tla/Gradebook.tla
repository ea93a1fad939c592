----------------------------- MODULE Gradebook -----------------------------
(***************************************************************************)
(* Marks, the rank lists of exams and the report cards of a class          *)
(* (apps/api/src/grades/grades.service.ts, exams/exams.service.ts and      *)
(* report-cards/report-cards.service.ts), in one term with exams of        *)
(* several types and quizzes beside them.  Two algorithms place a student. *)
(* A rank list is of one type of exam and gives equal percentages equal    *)
(* ranks.  A report card is of the whole term and gives the index in a     *)
(* list sorted by percentage, in which the database may have put equals in *)
(* any order.  The cards of a class are made one after the other: each     *)
(* reads the student's class, and a round trip later the marks of it.      *)
(***************************************************************************)
EXTENDS Naturals, SequencesExt

CONSTANTS
    Pupils,
    Cells,     \* what a row is of, besides its student: a subject and a type of exam
    ExamTypes,
    ExamOf,    \* ExamOf[x]: the type of exam of a cell
    GClasses,  \* ids of SchoolClass
    Scores,    \* marks obtained, out of how many
    Markers,   \* requests to mark that can overlap
    NoOne

ASSUME GradebookAssumption ==
    /\ IsFiniteSet(Pupils) /\ IsFiniteSet(Cells)
    /\ ExamOf \in [Cells -> ExamTypes]
    /\ Scores \subseteq Nat \X Nat
    /\ NoOne \notin Nat \cup GClasses \cup Pupils

VARIABLES
    classOf,    \* StudentProfile.classId, NoOne before a student is placed
    grade,      \* grade[s][x]: the row of GradeEntry
    marker,     \* marker[m]: a request that has found its student in its class
    comment,    \* a comment being written by the AI service, for a row
    batch,      \* the report cards of a class in the making
    card,       \* card[s]: class, position and class size on the card of the batch
    outdated    \* whose card is older than the last change of marks (history)

gradebookVars == <<classOf, grade, marker, comment, batch, card, outdated>>

NoGrade == [class |-> NoOne, obtained |-> 0, max |-> 0, comment |-> "none"]
NoMarker == [pupil |-> NoOne, class |-> NoOne]
NoComment == [pupil |-> NoOne, cell |-> NoOne]
NoBatch == [class |-> NoOne, left |-> {}, pupil |-> NoOne, read |-> NoOne]
NoCard == [made |-> FALSE, class |-> NoOne, position |-> NoOne, size |-> 0]

GradebookInit ==
    /\ classOf \in [Pupils -> GClasses \cup {NoOne}]
    /\ grade = [s \in Pupils |-> [x \in Cells |-> NoGrade]]
    /\ marker = [m \in Markers |-> NoMarker]
    /\ comment = NoComment
    /\ batch = NoBatch
    /\ card = [s \in Pupils |-> NoCard]
    /\ outdated = {}

(* What a rank list filters on, { classId, term, examType }, and what a    *)
(* report card does, { classId, term }: the term is the one modelled.      *)
CellsOf(e) == {x \in Cells : ExamOf[x] = e}
CellsOfTerm == Cells

Marked(s, x) == grade[s][x] # NoGrade
Counted(s, c, X) == {x \in X : Marked(s, x) /\ grade[s][x].class = c}
(* The students a class has marks of; some may have left it since. *)
MarkedIn(c, X) == {s \in Pupils : Counted(s, c, X) # {}}

------------------------------------------------------------------------------
(* Points, summed over the marks of a student that a list counts. *)
SumIn(s, c, X, field) ==
    Cardinality(UNION {{x} \X (1..grade[s][x][field]) : x \in Counted(s, c, X)})

(* A percentage, as points of how many; nothing of nothing is 0 percent.   *)
Earned(s, c, X) == IF SumIn(s, c, X, "max") > 0 THEN SumIn(s, c, X, "obtained") ELSE 0
Possible(s, c, X) == IF SumIn(s, c, X, "max") > 0 THEN SumIn(s, c, X, "max") ELSE 1
Ahead(a, b, c, X) == Earned(a, c, X) * Possible(b, c, X) > Earned(b, c, X) * Possible(a, c, X)

(* All orders a sort by percentage can leave a class in. *)
Sortings(c, X) ==
    {q \in SetToSeqs(MarkedIn(c, X)) :
        \A i, j \in DOMAIN q : i < j => ~Ahead(q[j], q[i], c, X)}

(* Broken variant: every row is counted on from the last. *)
NextRank(q, i, c, X, rank) == rank + 1
(* rankList goes down the list and moves on where the percentage changes. *)
RankAfter(q, i, c, X, rank) == IF i = 1 \/ Ahead(q[i - 1], q[i], c, X) THEN i ELSE rank
RankList(q, c, X) ==
    LET rank[i \in DOMAIN q] == RankAfter(q, i, c, X, IF i = 1 THEN 0 ELSE rank[i - 1])
    IN  rank

(* ranking takes the index of the student. *)
PositionIn(q, s) == IF \E i \in DOMAIN q : q[i] = s THEN CHOOSE i \in DOMAIN q : q[i] = s ELSE NoOne

------------------------------------------------------------------------------
(* upsert looks for the student in the class ... *)
FindPupil(m, s) ==
    /\ marker[m] = NoMarker
    /\ classOf[s] # NoOne
    /\ marker' = [marker EXCEPT ![m] = [pupil |-> s, class |-> classOf[s]]]
    /\ UNCHANGED <<classOf, grade, comment, batch, card, outdated>>

(* The row is inserted, or updated: that leaves the class as it was, and a *)
(* comment too unless there is a new one.                                  *)
WriteMark(s, x, c, score, said) ==
    /\ grade' = [grade EXCEPT ![s][x] =
          [class |-> IF Marked(s, x) THEN grade[s][x].class ELSE c,
           obtained |-> score[1], max |-> score[2],
           comment |-> IF said = "none" THEN grade[s][x].comment ELSE said]]
    /\ outdated' = {o \in Pupils : card[o].made}

(* ... and writes the mark. *)
UpsertGrade(m, x, score, said) ==
    /\ marker[m] # NoMarker
    /\ WriteMark(marker[m].pupil, x, marker[m].class, score, said)
    /\ marker' = [marker EXCEPT ![m] = NoMarker]
    /\ UNCHANGED <<classOf, comment, batch, card>>

(* A quiz writes the best score into its cell, for the class the quiz was  *)
(* set in, which the student may have left.                                *)
SyncGradebook(s, x, c, score) ==
    /\ classOf[s] # NoOne
    /\ WriteMark(s, x, c, score, "none")
    /\ UNCHANGED <<classOf, marker, comment, batch, card>>

AssignClass(s, c) ==
    /\ classOf' = [classOf EXCEPT ![s] = c]
    /\ UNCHANGED <<grade, marker, comment, batch, card, outdated>>

OnRow(s, x) == Marked(s, x)

(* generateComment shows a row to the AI service, which takes its time ... *)
AskForComment(s, x) ==
    /\ comment = NoComment
    /\ OnRow(s, x)
    /\ comment' = [pupil |-> s, cell |-> x]
    /\ UNCHANGED <<classOf, grade, marker, batch, card, outdated>>

(* ... and writes what it said into the row; or the service fails. *)
WriteComment ==
    /\ comment # NoComment
    /\ \/ grade' = [grade EXCEPT ![comment.pupil][comment.cell].comment = "drafted"]
       \/ UNCHANGED grade
    /\ comment' = NoComment
    /\ UNCHANGED <<classOf, marker, batch, card, outdated>>

------------------------------------------------------------------------------
(* forClass lists the students with marks in the class ... *)
BeginBatch(c) ==
    /\ batch = NoBatch
    /\ MarkedIn(c, CellsOfTerm) # {}
    /\ batch' = [NoBatch EXCEPT !.class = c, !.left = MarkedIn(c, CellsOfTerm)]
    /\ UNCHANGED <<classOf, grade, marker, comment, card, outdated>>

(* ... and makes their cards one by one.  gather reads the student with    *)
(* the class of the moment, which goes onto the card ...                   *)
ReadPupil(s) ==
    /\ batch.pupil = NoOne
    /\ s \in batch.left
    /\ batch' = [batch EXCEPT !.pupil = s, !.read = classOf[s], !.left = @ \ {s}]
    /\ UNCHANGED <<classOf, grade, marker, comment, card, outdated>>

(* Broken variant: the class is looked up again. *)
ClassNow == classOf[batch.pupil]
ClassToRank == batch.read
CellsToRank == CellsOfTerm

(* ... and reads the marks of that class of the whole term, all exams and  *)
(* quizzes of it; a student without a class is not placed.                 *)
MakeCard ==
    /\ batch.pupil # NoOne
    /\ \E q \in IF ClassToRank = NoOne THEN {<< >>} ELSE Sortings(ClassToRank, CellsToRank) :
          card' = [card EXCEPT ![batch.pupil] =
              [made |-> TRUE, class |-> batch.read,
               position |-> PositionIn(q, batch.pupil), size |-> Len(q)]]
    /\ batch' = [batch EXCEPT !.pupil = NoOne, !.read = NoOne]
    /\ UNCHANGED <<classOf, grade, marker, comment, outdated>>

(* The answer goes out; or a card fails, which ends the batch. *)
EndBatch ==
    /\ batch # NoBatch
    /\ batch' = NoBatch
    /\ card' = [s \in Pupils |-> NoCard]
    /\ outdated' = {}
    /\ UNCHANGED <<classOf, grade, marker, comment>>

MarkNext ==
    \/ \E m \in Markers, s \in Pupils : FindPupil(m, s)
    \/ \E m \in Markers, x \in Cells, score \in Scores : UpsertGrade(m, x, score, "none")
    \/ \E m \in Markers, x \in Cells, score \in Scores : UpsertGrade(m, x, score, "said")
    \/ \E s \in Pupils, x \in Cells, c \in GClasses, score \in Scores :
          SyncGradebook(s, x, c, score)
    \/ \E s \in Pupils, c \in GClasses : AssignClass(s, c)
    \/ \E s \in Pupils, x \in Cells : AskForComment(s, x)
    \/ WriteComment

CardNext ==
    \/ \E c \in GClasses : BeginBatch(c)
    \/ \E s \in Pupils : ReadPupil(s)
    \/ MakeCard
    \/ EndBatch

GradebookNext == MarkNext \/ CardNext

GradebookSpec == GradebookInit /\ [][GradebookNext]_gradebookVars

------------------------------------------------------------------------------
(* Rows, requests and cards have their shape. *)
GradebookTypeOK ==
    /\ classOf \in [Pupils -> GClasses \cup {NoOne}]
    /\ grade \in [Pupils -> [Cells ->
          [class : GClasses, obtained : Nat, max : Nat, comment : {"none", "said", "drafted"}]
             \cup {NoGrade}]]
    /\ marker \in [Markers -> [pupil : Pupils, class : GClasses] \cup {NoMarker}]
    /\ comment \in [pupil : Pupils, cell : Cells] \cup {NoComment}
    /\ comment # NoComment => Marked(comment.pupil, comment.cell)
    /\ batch \in [class : GClasses, left : SUBSET Pupils, pupil : Pupils \cup {NoOne},
                  read : GClasses \cup {NoOne}] \cup {NoBatch}
    /\ card \in [Pupils -> [made : BOOLEAN, class : GClasses \cup {NoOne},
                            position : Nat \cup {NoOne}, size : Nat]]
    /\ outdated \subseteq Pupils

Better(s, c, X) == {o \in MarkedIn(c, X) : Ahead(o, s, c, X)}
Equals(s, c, X) == {o \in MarkedIn(c, X) : ~Ahead(o, s, c, X) /\ ~Ahead(s, o, c, X)}

(* The scan of a rank list gives each student of the exam one more than    *)
(* there are students with a better percentage in it, in whatever order    *)
(* equals come.                                                            *)
RanksAreFair ==
    \A c \in GClasses, e \in ExamTypes : \A q \in Sortings(c, CellsOf(e)) : \A i \in DOMAIN q :
        RankList(q, c, CellsOf(e))[i] = Cardinality(Better(q[i], c, CellsOf(e))) + 1

(* The marks a class has are all of one type of exam. *)
OnlyExam(c, e) == \A s \in Pupils : Counted(s, c, CellsOfTerm) \subseteq CellsOf(e)

(* "Position in class by total percentage across all subjects this term":  *)
(* a card counts everyone with marks of the term in the class it names,    *)
(* and its position is one the student shares with equals in the total of  *)
(* all exams and quizzes, though students move and marks come in while the *)
(* cards are made: only a card that is older than the last mark may differ.*)
(* Where the class has marks of one type of exam only, every rank list of  *)
(* that exam places the student no lower, and higher only by equals.       *)
CardsPlaceByTerm ==
    \A s \in Pupils \ outdated : card[s].made =>
        LET c == card[s].class
            places(X) == Cardinality(Better(s, c, X)) + 1 ..
                             Cardinality(Better(s, c, X)) + Cardinality(Equals(s, c, X))
        IN  /\ card[s].size = Cardinality(MarkedIn(c, CellsOfTerm))
            /\ IF s \in MarkedIn(c, CellsOfTerm)
               THEN card[s].position \in places(CellsOfTerm)
               ELSE card[s].position = NoOne
            /\ \A e \in ExamTypes : OnlyExam(c, e) =>
                  \A q \in Sortings(c, CellsOf(e)) : \A i \in DOMAIN q :
                      q[i] = s => card[s].position - RankList(q, c, CellsOf(e))[i]
                                      \in 0 .. Cardinality(Equals(s, c, CellsOf(e))) - 1
==============================================================================
