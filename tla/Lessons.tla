------------------------------ MODULE Lessons ------------------------------
(***************************************************************************)
(* Syllabus and lesson plans (apps/api/src/lessons/lessons.service.ts).  A *)
(* syllabus is the list of topics of a class, a subject and a term; a plan *)
(* is for a class and a subject and may be pinned to one of their topics   *)
(* and to a period of the timetable, both of which it outlives.            *)
(*                                                                         *)
(* Topics are numbered in the order they were entered, and numbers are not *)
(* given again.  Of completedOn is kept whether there is one.              *)
(***************************************************************************)
EXTENDS Naturals, Sequences, FiniteSetsExt

CONSTANTS
    Syllabi,     \* a class, a subject and a term each
    CourseOf,    \* CourseOf[k]: the class and subject of a syllabus
    Titles,
    MaxTopics,   \* bound on the topics ever entered
    MaxOrder,    \* bound on the positions given by hand
    Plans,       \* ids of LessonPlan
    PlanPeriods, \* ids of Period
    Authors,     \* requests to a syllabus that can overlap
    Planners,    \* requests to the plans that can overlap
    Null

ASSUME LessonAssumption ==
    /\ CourseOf = [k \in Syllabi |-> CourseOf[k]]
    /\ MaxTopics \in Nat
    /\ MaxOrder \in Nat
    /\ Null \notin Nat \cup PlanPeriods \cup Syllabi

VARIABLES
    topic,     \* topic[i]: the row of SyllabusTopic
    entered,   \* how many topics have been entered
    author,    \* author[a]: a request to a syllabus, and what it has read
    plan,      \* plan[l]: the row of LessonPlan
    planner,   \* planner[p]: a plan whose targets have been checked
    pinnable,  \* the rows of Period
    muddled    \* syllabi ordered by hand, or by two overlapping requests, and
               \* topics that two overlapping requests have updated (history)

lessonVars == <<topic, entered, author, plan, planner, pinnable, muddled>>

Topics == 1..MaxTopics
Courses == {CourseOf[k] : k \in Syllabi}
TopicStatuses == {"NOT_STARTED", "IN_PROGRESS", "COMPLETED"}

NoTopic == [status |-> "NONE", syllabus |-> Null, title |-> Null, order |-> 0, dated |-> FALSE]
NoPlan == [course |-> Null, topic |-> Null, period |-> Null]
NoAuthor == [step |-> "idle", on |-> Null, base |-> 0, saw |-> "NONE"]
NoPlanner == [plan |-> Null, course |-> Null, topic |-> Null, period |-> Null]

LessonInit ==
    /\ topic = [i \in Topics |-> NoTopic]
    /\ entered = 0
    /\ author = [a \in Authors |-> NoAuthor]
    /\ plan = [l \in Plans |-> NoPlan]
    /\ planner = [p \in Planners |-> NoPlanner]
    /\ pinnable = PlanPeriods
    /\ muddled = {}

There(i) == topic[i] # NoTopic
TopicsOf(k) == {i \in Topics : There(i) /\ topic[i].syllabus = k}
TitlesOf(k) == {topic[i].title : i \in TopicsOf(k)}
Busy(step, x) == \E a \in Authors : author[a].step = step /\ author[a].on = x

------------------------------------------------------------------------------
(* addTopics reads the last position of the syllabus ... *)
(* Broken variant: it counts the topics instead. *)
NumberOfTopics(k) == Cardinality(TopicsOf(k))
NextPosition(k) ==
    IF TopicsOf(k) = {} THEN 0 ELSE Max({topic[i].order : i \in TopicsOf(k)}) + 1

ReadLast(a, k) ==
    /\ author[a].step = "idle"
    /\ author' = [author EXCEPT ![a] =
          [NoAuthor EXCEPT !.step = "adding", !.on = k, !.base = NextPosition(k)]]
    /\ muddled' = IF Busy("adding", k) THEN muddled \cup {k} ELSE muddled
    /\ UNCHANGED <<topic, entered, plan, planner, pinnable>>

(* The places of a batch whose titles the unique index lets in. *)
Fresh(k, batch) ==
    {j \in DOMAIN batch : batch[j] \notin TitlesOf(k) /\ \A i \in 1..(j - 1) : batch[i] # batch[j]}

(* ... and inserts the batch from there, less the titles already there,    *)
(* which leave gaps.                                                       *)
CreateTopics(a, batch) ==
    LET k == author[a].on
        fresh == Fresh(k, batch)
        Id(j) == entered + Cardinality({i \in fresh : i <= j})
    IN  /\ author[a].step = "adding"
        /\ entered + Cardinality(fresh) <= MaxTopics
        /\ entered' = entered + Cardinality(fresh)
        /\ topic' = [i \in Topics |->
              IF \E j \in fresh : Id(j) = i
              THEN LET j == CHOOSE j \in fresh : Id(j) = i
                   IN  [status |-> "NOT_STARTED", syllabus |-> k, title |-> batch[j],
                        order |-> author[a].base + j - 1, dated |-> FALSE]
              ELSE topic[i]]
        /\ author' = [author EXCEPT ![a] = NoAuthor]
        /\ UNCHANGED <<plan, planner, pinnable, muddled>>

------------------------------------------------------------------------------
(* updateTopic reads the status ... *)
ReadTopic(a, i) ==
    /\ author[a].step = "idle"
    /\ There(i)
    /\ author' = [author EXCEPT ![a] =
          [NoAuthor EXCEPT !.step = "updating", !.on = i, !.saw = topic[i].status]]
    /\ muddled' = IF Busy("updating", i) THEN muddled \cup {i} ELSE muddled
    /\ UNCHANGED <<topic, entered, plan, planner, pinnable>>

DateOf(a, status) ==
    IF status = author[a].saw THEN topic[author[a].on].dated ELSE status = "COMPLETED"

(* ... and writes by id; the date of completion follows from the change it *)
(* believes to make.                                                       *)
WriteStatus(a, status) ==
    LET i == author[a].on
    IN  /\ author[a].step = "updating"
        /\ There(i)
        /\ topic' = [topic EXCEPT ![i].status = status, ![i].dated = DateOf(a, status)]
        /\ author' = [author EXCEPT ![a] = NoAuthor]
        /\ UNCHANGED <<entered, plan, planner, pinnable, muddled>>

WriteTitle(a, title) ==
    LET i == author[a].on
    IN  /\ author[a].step = "updating"
        /\ There(i)
        /\ title \notin {topic[o].title : o \in TopicsOf(topic[i].syllabus) \ {i}}
        /\ topic' = [topic EXCEPT ![i].title = title]
        /\ author' = [author EXCEPT ![a] = NoAuthor]
        /\ UNCHANGED <<entered, plan, planner, pinnable, muddled>>

WriteOrder(a, order) ==
    LET i == author[a].on
    IN  /\ author[a].step = "updating"
        /\ There(i)
        /\ topic' = [topic EXCEPT ![i].order = order]
        /\ muddled' = muddled \cup {topic[i].syllabus}
        /\ author' = [author EXCEPT ![a] = NoAuthor]
        /\ UNCHANGED <<entered, plan, planner, pinnable>>

(* A request fails, or its topic has gone. *)
DropAuthor(a) ==
    /\ author[a] # NoAuthor
    /\ author' = [author EXCEPT ![a] = NoAuthor]
    /\ UNCHANGED <<topic, entered, plan, planner, pinnable, muddled>>

(* Broken variant: a plan stays pinned to what has gone. *)
StillPinned(l, field, x) == plan[l]
Released(l, field, x) == IF plan[l][field] = x THEN [plan[l] EXCEPT ![field] = Null] ELSE plan[l]

(* "Lessons pinned to it survive, unpinned". *)
RemoveTopic(i) ==
    /\ There(i)
    /\ topic' = [topic EXCEPT ![i] = NoTopic]
    /\ plan' = [l \in Plans |-> Released(l, "topic", i)]
    /\ UNCHANGED <<entered, author, planner, pinnable, muddled>>

(* TimetableService.deletePeriod, as the plans see it. *)
DropPeriod(d) ==
    /\ d \in pinnable
    /\ pinnable' = pinnable \ {d}
    /\ plan' = [l \in Plans |-> Released(l, "period", d)]
    /\ UNCHANGED <<topic, entered, author, planner, muddled>>

------------------------------------------------------------------------------
(* Broken variant: the topic may be of any course. *)
AnyTopic(course, i) == i # Null => There(i)
OnSyllabus(course, i) == i # Null => There(i) /\ CourseOf[topic[i].syllabus] = course

(* createPlan and updatePlan look whether topic and period fit ... *)
CheckTargets(p, l, course, i, d) ==
    /\ planner[p] = NoPlanner
    /\ OnSyllabus(course, i)
    /\ d # Null => d \in pinnable
    /\ planner' = [planner EXCEPT ![p] =
          [plan |-> l, course |-> course, topic |-> i, period |-> d]]
    /\ UNCHANGED <<topic, entered, author, plan, pinnable, muddled>>

(* ... and write the whole row; the foreign keys want topic and period to  *)
(* be there.  A row that is there is updated, one that is not is new.      *)
WritePlan(p) ==
    LET w == planner[p]
    IN  /\ w # NoPlanner
        /\ w.topic # Null => There(w.topic)
        /\ w.period # Null => w.period \in pinnable
        /\ plan' = [plan EXCEPT ![w.plan] =
              [course |-> w.course, topic |-> w.topic, period |-> w.period]]
        /\ planner' = [planner EXCEPT ![p] = NoPlanner]
        /\ UNCHANGED <<topic, entered, author, pinnable, muddled>>

DropPlanner(p) ==
    /\ planner[p] # NoPlanner
    /\ planner' = [planner EXCEPT ![p] = NoPlanner]
    /\ UNCHANGED <<topic, entered, author, plan, pinnable, muddled>>

RemovePlan(l) ==
    /\ plan[l] # NoPlan
    /\ plan' = [plan EXCEPT ![l] = NoPlan]
    /\ UNCHANGED <<topic, entered, author, planner, pinnable, muddled>>

------------------------------------------------------------------------------
Batches == {<<x>> : x \in Titles} \cup (Titles \X Titles)

SyllabusNext ==
    \/ \E a \in Authors, k \in Syllabi : ReadLast(a, k)
    \/ \E a \in Authors, batch \in Batches : CreateTopics(a, batch)
    \/ \E a \in Authors, i \in Topics : ReadTopic(a, i)
    \/ \E a \in Authors, status \in TopicStatuses : WriteStatus(a, status)
    \/ \E a \in Authors, title \in Titles : WriteTitle(a, title)
    \/ \E a \in Authors, order \in 0..MaxOrder : WriteOrder(a, order)
    \/ \E a \in Authors : DropAuthor(a)
    \/ \E i \in Topics : RemoveTopic(i)

PlanNext ==
    \/ \E d \in PlanPeriods : DropPeriod(d)
    \/ \E p \in Planners, l \in Plans, course \in Courses, i \in Topics \cup {Null},
          d \in PlanPeriods \cup {Null} : CheckTargets(p, l, course, i, d)
    \/ \E p \in Planners : WritePlan(p) \/ DropPlanner(p)
    \/ \E l \in Plans : RemovePlan(l)

LessonNext == SyllabusNext \/ PlanNext

LessonSpec == LessonInit /\ [][LessonNext]_lessonVars

------------------------------------------------------------------------------
(* The rows have their shape, a title is on a syllabus once, and whatever  *)
(* a plan is pinned to exists.                                             *)
LessonTypeOK ==
    /\ topic \in [Topics ->
          [status : TopicStatuses, syllabus : Syllabi, title : Titles, order : Nat,
           dated : BOOLEAN] \cup {NoTopic}]
    /\ entered \in 0..MaxTopics
    /\ \A i \in Topics : There(i) => i <= entered
    /\ \A i, o \in Topics : There(i) /\ i # o =>
          <<topic[i].syllabus, topic[i].title>> # <<topic[o].syllabus, topic[o].title>>
    /\ \A a \in Authors :
          \/ author[a] = NoAuthor
          \/ author[a].step = "adding" /\ author[a].on \in Syllabi /\ author[a].base \in Nat
          \/ author[a].step = "updating" /\ author[a].on \in 1..entered
                /\ author[a].saw \in TopicStatuses
    /\ plan \in [Plans ->
          [course : Courses, topic : Topics \cup {Null}, period : pinnable \cup {Null}]
             \cup {NoPlan}]
    /\ \A l \in Plans : plan[l].topic # Null => There(plan[l].topic)
    /\ pinnable \subseteq PlanPeriods

(* Topics are appended, "continuing the existing ordering rather than      *)
(* restarting it - a syllabus is usually entered in two or three sittings":*)
(* what was entered later comes later, through removals, duplicates and    *)
(* new titles, unless two sittings overlapped or the order was set by hand.*)
TopicsInOrder ==
    \A i, o \in Topics :
        /\ i < o
        /\ There(i)
        /\ There(o)
        /\ topic[i].syllabus = topic[o].syllabus
        /\ topic[i].syllabus \notin muddled
        => topic[i].order < topic[o].order

(* "completedOn is derived from the status transition": exactly the topics *)
(* that are covered have a date, unless two requests updated one topic at  *)
(* once.                                                                   *)
CoveredHasItsDate ==
    \A i \in Topics : i \notin muddled => (topic[i].dated <=> topic[i].status = "COMPLETED")

(* "A plan may only point at a topic [of] the same class and subject":     *)
(* through every order of rewriting plans and removing topics, also those  *)
(* in which the check and the write of a plan are far apart.               *)
PlansFollowTheSyllabus ==
    \A l \in Plans : plan[l].topic # Null => CourseOf[topic[plan[l].topic].syllabus] = plan[l].course

(* A syllabus says in which order it was entered and what of it is covered. *)
SyllabusTellsTheTruth == TopicsInOrder /\ CoveredHasItsDate
==============================================================================
