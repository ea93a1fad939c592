------------------------------ MODULE Quizzes ------------------------------
(***************************************************************************)
(* One quiz, from draft to gradebook                                       *)
(* (apps/api/src/quizzes/quizzes.service.ts).  No two quizzes write the    *)
(* same gradebook cell, by an index on Quiz, but a teacher who keys in     *)
(* marks (apps/api/src/grades/grades.service.ts) upserts the same row of   *)
(* GradeEntry.  There is no scheduled job: whichever request meets an      *)
(* attempt whose time is up settles it, and a settlement is a read, a      *)
(* transaction and two more calls, with other requests in between.         *)
(*                                                                         *)
(* A question is worth one mark, and of an answer only whether it is right *)
(* is kept.  Ids of questions are not given again (printed).               *)
(***************************************************************************)
EXTENDS Naturals, FiniteSetsExt

CONSTANTS
    Sitters,      \* the students of the class
    Papers,       \* the papers a teacher may set: sets of ids of QuizQuestion
    MaxAttempts,  \* Quiz.maxAttempts
    Timed,        \* timeLimitMinutes is set
    Counts,       \* gradeTerm and gradeExamType are set
    TeachersMarks,\* marks a teacher may key in
    Graders,      \* requests that settle an attempt and can overlap
    NoScore

ASSUME MaxAttemptsAssumption == MaxAttempts \in Nat \ {0}
ASSUME QuizFlagsAssumption == Timed \in BOOLEAN /\ Counts \in BOOLEAN
ASSUME PapersAssumption == IsFiniteSet(Papers) /\ \A P \in Papers : IsFiniteSet(P) /\ P # {}
ASSUME TeachersMarksAssumption == TeachersMarks \subseteq Nat
ASSUME NoScoreAssumption == NoScore \notin Nat

VARIABLES
    quiz,       \* the row of Quiz: its stage, and where now lies in its window
    paper,      \* its rows of QuizQuestion
    printed,    \* every question it ever had
    attempt,    \* attempt[s][n]: the row of QuizAttempt with that number
    answer,     \* answer[s][n][q]: the row of QuizAnswer
    late,       \* attempts in progress whose expiresAt has passed
    toRewrite,  \* an edit has found the quiz a draft
    toRemove,   \* a removal has found no attempt
    admitted,   \* students for whom a start has found the quiz open
    toOpen,     \* attempts a start has decided to insert
    toAnswer,   \* attempts a save has found in progress and in time
    grader,     \* grader[g]: a settlement in flight
    gradebook,  \* the row of GradeEntry each student has in the cell of this quiz
    keyed,      \* students whose cell a teacher was the last to write (history)
    disturbed   \* students of whom two settlements overlapped, or one died
                \* before the gradebook, or whose paper was rewritten or
                \* removed after they had begun (history, for the properties)

quizVars == <<quiz, paper, printed, attempt, answer, late, toRewrite, toRemove,
              admitted, toOpen, toAnswer, grader, gradebook, keyed, disturbed>>

Questions == UNION Papers
Numbers == 1..(MaxAttempts + 1)  \* one more than a student may have
Settled == {"SUBMITTED", "EXPIRED"}

NoAttempt == [status |-> "NONE", score |-> NoScore]
NoAnswer == [pick |-> "none", mark |-> "none"]
NoGrader ==
    [step |-> "idle", student |-> NoScore, number |-> 0, as |-> "NONE", next |-> 0,
     right |-> {}, wrong |-> {}, best |-> NoScore]

QuizInit ==
    /\ quiz = [stage |-> "NONE", window |-> "before"]
    /\ paper = {}
    /\ printed = {}
    /\ attempt = [s \in Sitters |-> [n \in Numbers |-> NoAttempt]]
    /\ answer = [s \in Sitters |-> [n \in Numbers |-> [q \in Questions |-> NoAnswer]]]
    /\ late = {}
    /\ toRewrite = FALSE
    /\ toRemove = FALSE
    /\ admitted = {}
    /\ toOpen = {}
    /\ toAnswer = {}
    /\ grader = [g \in Graders |-> NoGrader]
    /\ gradebook = [s \in Sitters |-> NoScore]
    /\ keyed = {}
    /\ disturbed = {}

Exists == quiz.stage \in {"DRAFT", "PUBLISHED"}
Sat(s) == {n \in Numbers : attempt[s][n].status # "NONE"}
InProgress(s, n) == attempt[s][n].status = "IN_PROGRESS"
HasSettled(s, n) == attempt[s][n].status \in Settled
Started == {s \in Sitters : Sat(s) # {}}
GradersOf(s) == {g \in Graders : grader[g].step # "idle" /\ grader[g].student = s}

------------------------------------------------------------------------------
(* Authoring.  The paper is never empty: the schema of the request asks    *)
(* for a question.                                                         *)
Create(P) ==
    /\ quiz.stage = "NONE"
    /\ quiz' = [quiz EXCEPT !.stage = "DRAFT"]
    /\ paper' = P
    /\ printed' = P
    /\ UNCHANGED <<attempt, answer, late, toRewrite, toRemove, admitted, toOpen,
                   toAnswer, grader, gradebook, keyed, disturbed>>

(* replaceQuestions looks whether the quiz is a draft ... *)
CheckDraft ==
    /\ quiz.stage = "DRAFT"
    /\ toRewrite' = TRUE
    /\ UNCHANGED <<quiz, paper, printed, attempt, answer, late, toRemove, admitted,
                   toOpen, toAnswer, grader, gradebook, keyed, disturbed>>

(* Broken variant: the foreign key does not cascade. *)
WithoutCascade(s, n, q) == answer[s][n][q]
AfterCascade(s, n, q) == IF q \in paper THEN NoAnswer ELSE answer[s][n][q]

(* ... and puts a new paper in place of the old in a transaction that does *)
(* not look again.  Answers to the old questions go with them.             *)
Rewrite(P) ==
    /\ toRewrite
    /\ Exists
    /\ P \cap printed = {}
    /\ paper' = P
    /\ printed' = printed \cup P
    /\ answer' = [s \in Sitters |-> [n \in Numbers |-> [q \in Questions |->
          AfterCascade(s, n, q)]]]
    /\ disturbed' = disturbed \cup Started
    /\ UNCHANGED <<quiz, attempt, late, toRewrite, toRemove, admitted, toOpen, toAnswer,
                   grader, gradebook, keyed>>

(* The question count is at least one, and publishing twice changes nothing. *)
Publish ==
    /\ quiz.stage = "DRAFT"
    /\ quiz' = [quiz EXCEPT !.stage = "PUBLISHED"]
    /\ UNCHANGED <<paper, printed, attempt, answer, late, toRewrite, toRemove, admitted,
                   toOpen, toAnswer, grader, gradebook, keyed, disturbed>>

(* remove counts the attempts, and deletes later; attempts and answers go  *)
(* with the quiz, the gradebook stays.                                     *)
CheckUnsat ==
    /\ Exists
    /\ Started = {}
    /\ toRemove' = TRUE
    /\ UNCHANGED <<quiz, paper, printed, attempt, answer, late, toRewrite, admitted,
                   toOpen, toAnswer, grader, gradebook, keyed, disturbed>>

Remove ==
    /\ toRemove
    /\ Exists
    /\ quiz' = [quiz EXCEPT !.stage = "REMOVED"]
    /\ paper' = {}
    /\ attempt' = [s \in Sitters |-> [n \in Numbers |-> NoAttempt]]
    /\ answer' = [s \in Sitters |-> [n \in Numbers |-> [q \in Questions |-> NoAnswer]]]
    /\ disturbed' = disturbed \cup Started
    /\ late' = {}
    /\ UNCHANGED <<printed, toRewrite, toRemove, admitted, toOpen, toAnswer, grader,
                   gradebook, keyed>>

(* Time passes: opensAt, closesAt, an attempt's expiresAt. *)
PassTime ==
    /\ \/ /\ quiz.window = "before"
          /\ quiz' = [quiz EXCEPT !.window = "open"]
       \/ /\ quiz.window = "open"
          /\ quiz' = [quiz EXCEPT !.window = "closed"]
    /\ UNCHANGED <<paper, printed, attempt, answer, late, toRewrite, toRemove, admitted,
                   toOpen, toAnswer, grader, gradebook, keyed, disturbed>>

RunOut(s, n) ==
    /\ Timed
    /\ InProgress(s, n)
    /\ late' = late \cup {<<s, n>>}
    /\ UNCHANGED <<quiz, paper, printed, attempt, answer, toRewrite, toRemove, admitted,
                   toOpen, toAnswer, grader, gradebook, keyed, disturbed>>

------------------------------------------------------------------------------
(* Sitting the quiz.  startAttempt reads the quiz ... *)
FindOpen(s) ==
    /\ quiz = [stage |-> "PUBLISHED", window |-> "open"]
    /\ admitted' = admitted \cup {s}
    /\ UNCHANGED <<quiz, paper, printed, attempt, answer, late, toRewrite, toRemove,
                   toOpen, toAnswer, grader, gradebook, keyed, disturbed>>

(* Broken variant: the allowance is off by one. *)
AllowanceOffByOne(s) == Cardinality(Sat(s)) <= MaxAttempts
AllowanceLeft(s) == Cardinality(Sat(s)) < MaxAttempts
NextNumber(s) == IF Sat(s) = {} THEN 1 ELSE Max(Sat(s)) + 1

NothingInProgress(s) == \A n \in Sat(s) : ~InProgress(s, n)

(* ... then the student's attempts.  One in progress and in time is handed *)
(* back, which changes nothing; one whose time is up is settled first      *)
(* (ExpireAndGoOn); else the next one is due.                              *)
ChooseNext(s) ==
    /\ s \in admitted
    /\ NothingInProgress(s)
    /\ AllowanceLeft(s)
    /\ toOpen' = toOpen \cup {<<s, NextNumber(s)>>}
    /\ UNCHANGED <<quiz, paper, printed, attempt, answer, late, toRewrite, toRemove,
                   admitted, toAnswer, grader, gradebook, keyed, disturbed>>

(* The index on (quiz, student, number) refuses all inserts but one, so    *)
(* whoever else has chosen this number is done.                            *)
Open(s, n) ==
    /\ <<s, n>> \in toOpen
    /\ Exists
    /\ attempt[s][n].status = "NONE"
    /\ attempt' = [attempt EXCEPT ![s][n].status = "IN_PROGRESS"]
    /\ toOpen' = toOpen \ {<<s, n>>}
    /\ UNCHANGED <<quiz, paper, printed, answer, late, toRewrite, toRemove, admitted,
                   toAnswer, grader, gradebook, keyed, disturbed>>

(* saveAnswer finds the attempt in progress and in time ... *)
CheckAttempt(s, n) ==
    /\ InProgress(s, n)
    /\ <<s, n>> \notin late
    /\ toAnswer' = toAnswer \cup {<<s, n>>}
    /\ UNCHANGED <<quiz, paper, printed, attempt, answer, late, toRewrite, toRemove,
                   admitted, toOpen, grader, gradebook, keyed, disturbed>>

(* ... and stores the answer some calls later.  The foreign keys want      *)
(* attempt and question to be there; the status is not looked at again.    *)
SaveAnswer(s, n, q, pick) ==
    /\ <<s, n>> \in toAnswer
    /\ attempt[s][n].status # "NONE"
    /\ q \in paper
    /\ answer' = [answer EXCEPT ![s][n][q].pick = pick]
    /\ UNCHANGED <<quiz, paper, printed, attempt, late, toRewrite, toRemove, admitted,
                   toOpen, toAnswer, grader, gradebook, keyed, disturbed>>

------------------------------------------------------------------------------
(* Settling an attempt.  A request has found it in progress: *)
Begin(g, s, n, as, next) ==
    /\ grader[g].step = "idle"
    /\ InProgress(s, n)
    /\ grader' = [grader EXCEPT ![g] = [NoGrader EXCEPT
          !.step = "reading", !.student = s, !.number = n, !.as = as, !.next = next]]
    /\ disturbed' = IF GradersOf(s) = {} THEN disturbed ELSE disturbed \cup {s}
    /\ UNCHANGED <<quiz, paper, printed, attempt, answer, late, toRewrite, toRemove,
                   admitted, toOpen, toAnswer, gradebook, keyed>>

(* submitAttempt settles it as submitted unless its time is up; *)
Submit(g, s, n) == Begin(g, s, n, IF <<s, n>> \in late THEN "EXPIRED" ELSE "SUBMITTED", 0)

(* a late answer settles it, *)
Expire(g, s, n) == <<s, n>> \in late /\ Begin(g, s, n, "EXPIRED", 0)

(* and so does a start, which then goes on to the next attempt. *)
ExpireAndGoOn(g, s, n) ==
    /\ s \in admitted
    /\ <<s, n>> \in late
    /\ Begin(g, s, n, "EXPIRED", IF AllowanceLeft(s) THEN NextNumber(s) ELSE 0)

AnswersOf(s, n, pick) == {q \in paper : answer[s][n][q].pick = pick}

(* grade reads answers and key ... *)
ReadAnswers(g) ==
    LET s == grader[g].student
        n == grader[g].number
    IN  /\ grader[g].step = "reading"
        /\ attempt[s][n].status # "NONE"
        /\ grader' = [grader EXCEPT ![g].step = "marked",
                                    ![g].right = AnswersOf(s, n, "right"),
                                    ![g].wrong = AnswersOf(s, n, "wrong")]
        /\ UNCHANGED <<quiz, paper, printed, attempt, answer, late, toRewrite, toRemove,
                       admitted, toOpen, toAnswer, gradebook, keyed, disturbed>>

(* Broken variant: an answer is credited whichever option it picked. *)
MarkAnything(g, q) == "earned"
MarkOf(g, q) == IF q \in grader[g].right THEN "earned" ELSE "missed"

(* ... and writes the marks of the rows it saw and the attempt, in one     *)
(* transaction that fails if one of the rows is gone.                      *)
Settle(g) ==
    LET s == grader[g].student
        n == grader[g].number
        seen == grader[g].right \cup grader[g].wrong
    IN  /\ grader[g].step = "marked"
        /\ attempt[s][n].status # "NONE"
        /\ \A q \in seen : answer[s][n][q].pick # "none"
        /\ answer' = [answer EXCEPT ![s][n] = [q \in Questions |->
              IF q \in seen THEN [answer[s][n][q] EXCEPT !.mark = MarkOf(g, q)]
              ELSE answer[s][n][q]]]
        /\ attempt' = [attempt EXCEPT ![s][n] =
              [status |-> grader[g].as, score |-> Cardinality(grader[g].right)]]
        /\ late' = late \ {<<s, n>>}
        /\ grader' = [grader EXCEPT ![g].step = "settled", ![g].right = {}, ![g].wrong = {}]
        /\ UNCHANGED <<quiz, paper, printed, toRewrite, toRemove, admitted, toOpen,
                       toAnswer, gradebook, keyed, disturbed>>

(* Broken variant: the last attempt counts, not the best. *)
LatestScore(s) == attempt[s][Max({n \in Numbers : HasSettled(s, n)})].score
Scores(s) == {attempt[s][n].score : n \in {m \in Numbers : HasSettled(s, m)}}
BestScore(s) == IF Scores(s) = {} THEN NoScore ELSE Max(Scores(s))

(* syncGradebook reads the best settled attempt ... *)
ReadBest(g) ==
    /\ grader[g].step = "settled"
    /\ Counts
    /\ Exists
    /\ Scores(grader[g].student) # {}
    /\ grader' = [grader EXCEPT ![g].step = "synced", ![g].best = BestScore(grader[g].student)]
    /\ UNCHANGED <<quiz, paper, printed, attempt, answer, late, toRewrite, toRemove,
                   admitted, toOpen, toAnswer, gradebook, keyed, disturbed>>

(* ... and upserts it, for a quiz that counts, over whatever the cell      *)
(* holds.  A start that came this way now opens its attempt.               *)
Finish(g) ==
    LET s == grader[g].student
    IN  /\ grader[g].step = IF Counts THEN "synced" ELSE "settled"
        /\ gradebook' = IF Counts THEN [gradebook EXCEPT ![s] = grader[g].best] ELSE gradebook
        /\ keyed' = IF Counts THEN keyed \ {s} ELSE keyed
        /\ toOpen' = IF grader[g].next = 0 THEN toOpen
                     ELSE toOpen \cup {<<s, grader[g].next>>}
        /\ grader' = [grader EXCEPT ![g] = NoGrader]
        /\ UNCHANGED <<quiz, paper, printed, attempt, answer, late, toRewrite, toRemove,
                       admitted, toAnswer, disturbed>>

(* A teacher keys the mark of this term and kind of exam in by hand        *)
(* (grades upsert): the same row, whatever the quiz has put there.         *)
KeyIn(s, mark) ==
    /\ Counts
    /\ gradebook' = [gradebook EXCEPT ![s] = mark]
    /\ keyed' = keyed \cup {s}
    /\ UNCHANGED <<quiz, paper, printed, attempt, answer, late, toRewrite, toRemove,
                   admitted, toOpen, toAnswer, grader, disturbed>>

(* A settlement ends early: a query fails, a row is gone, the process dies. *)
DropGrader(g) ==
    /\ grader[g].step # "idle"
    /\ disturbed' = IF grader[g].step \in {"settled", "synced"}
                    THEN disturbed \cup {grader[g].student} ELSE disturbed
    /\ grader' = [grader EXCEPT ![g] = NoGrader]
    /\ UNCHANGED <<quiz, paper, printed, attempt, answer, late, toRewrite, toRemove,
                   admitted, toOpen, toAnswer, gradebook, keyed>>

------------------------------------------------------------------------------
QuizNext ==
    \/ \E P \in Papers : Create(P)
    \/ CheckDraft
    \/ \E P \in Papers : Rewrite(P)
    \/ Publish
    \/ CheckUnsat
    \/ Remove
    \/ PassTime
    \/ \E s \in Sitters, n \in Numbers : RunOut(s, n)
    \/ \E s \in Sitters : FindOpen(s)
    \/ \E s \in Sitters : ChooseNext(s)
    \/ \E s \in Sitters, n \in Numbers : Open(s, n)
    \/ \E s \in Sitters, n \in Numbers : CheckAttempt(s, n)
    \/ \E s \in Sitters, n \in Numbers, q \in Questions, pick \in {"right", "wrong"} :
          SaveAnswer(s, n, q, pick)
    \/ \E g \in Graders, s \in Sitters, n \in Numbers : Submit(g, s, n)
    \/ \E g \in Graders, s \in Sitters, n \in Numbers : Expire(g, s, n)
    \/ \E g \in Graders, s \in Sitters, n \in Numbers : ExpireAndGoOn(g, s, n)
    \/ \E g \in Graders : ReadAnswers(g)
    \/ \E g \in Graders : Settle(g)
    \/ \E g \in Graders : ReadBest(g)
    \/ \E g \in Graders : Finish(g)
    \/ \E g \in Graders : DropGrader(g)
    \/ \E s \in Sitters, mark \in TeachersMarks : KeyIn(s, mark)

QuizSpec == QuizInit /\ [][QuizNext]_quizVars

------------------------------------------------------------------------------
Settlements ==
    [step : {"reading", "marked", "settled", "synced"}, student : Sitters,
     number : Numbers, as : Settled, next : Numbers \cup {0},
     right : SUBSET Questions, wrong : SUBSET Questions, best : Nat \cup {NoScore}]

(* Rows have the shape of the schema; only questions of the paper have     *)
(* answers; a settlement past the write is of a settled attempt.           *)
QuizTypeOK ==
    /\ quiz \in [stage : {"NONE", "DRAFT", "PUBLISHED", "REMOVED"},
                 window : {"before", "open", "closed"}]
    /\ paper \subseteq printed /\ printed \subseteq Questions
    /\ attempt \in [Sitters -> [Numbers ->
          [status : {"NONE", "IN_PROGRESS"} \cup Settled, score : Nat \cup {NoScore}]]]
    /\ \A s \in Sitters, n \in Numbers : HasSettled(s, n) <=> attempt[s][n].score # NoScore
    /\ answer \in [Sitters -> [Numbers -> [Questions ->
          [pick : {"none", "right", "wrong"}, mark : {"none", "earned", "missed"}]]]]
    /\ \A s \in Sitters, n \in Numbers, q \in Questions :
          answer[s][n][q] # NoAnswer => q \in paper
    /\ late \subseteq {x \in Sitters \X Numbers : InProgress(x[1], x[2])}
    /\ toRewrite \in BOOLEAN /\ toRemove \in BOOLEAN
    /\ admitted \subseteq Sitters
    /\ toOpen \subseteq Sitters \X Numbers
    /\ toAnswer \subseteq Sitters \X Numbers
    /\ grader \in [Graders -> Settlements \cup {NoGrader}]
    /\ gradebook \in [Sitters -> Nat \cup {NoScore}]
    /\ keyed \subseteq Sitters /\ (~Counts => keyed = {})
    /\ disturbed \subseteq Sitters

(* However often a student taps Start, and whatever expires meanwhile, no  *)
(* more attempts are opened than the quiz allows, and one at a time: "a    *)
(* double tap can't open two papers at once".                              *)
OnePaperAtATime ==
    \A s \in Sitters :
        /\ attempt[s][MaxAttempts + 1].status = "NONE"
        /\ \A m, n \in Numbers : InProgress(s, m) /\ InProgress(s, n) => m = n

(* The score of a settled attempt is the marks on the answers under it,    *)
(* even as answers arrive after the bell, unless two requests settled it   *)
(* at once or the paper was rewritten underneath.                          *)
MarksAddUp ==
    \A s \in Sitters \ disturbed, n \in Numbers : HasSettled(s, n) =>
        attempt[s][n].score = Cardinality({q \in Questions : answer[s][n][q].mark = "earned"})

(* A settlement leaves the best settled attempt in the gradebook: "the     *)
(* retake" never lowers a mark, and nothing settled is missing, whatever a *)
(* teacher had keyed in before or keys in meanwhile, once no settlement is *)
(* under way, none overlapped or died, and no teacher wrote afterwards.    *)
GradebookShowsBest ==
    \A s \in Sitters \ (disturbed \cup keyed) :
        Counts /\ GradersOf(s) = {} =>
            /\ Scores(s) = {} <=> gradebook[s] = NoScore
            /\ Scores(s) # {} => gradebook[s] \in Scores(s)
            /\ \A x \in Scores(s) : x <= gradebook[s]

(* "Marks every saved answer and settles the attempt": at the moment an    *)
(* attempt is settled no answer under it, of which the student was told    *)
(* that it is saved, is left without a mark.                               *)
SavedAnswersAreMarked ==
    [][\A s \in Sitters, n \in Numbers :
          InProgress(s, n) /\ HasSettled(s, n)' =>
              \A q \in Questions :
                  answer'[s][n][q].pick # "none" => answer'[s][n][q].mark # "none"]_quizVars
==============================================================================
