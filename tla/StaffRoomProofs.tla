-------------------------- MODULE StaffRoomProofs --------------------------
(***************************************************************************)
(* Proofs about the syllabus and the lesson plans, for any number of       *)
(* topics, plans, courses and requests under way.                          *)
(***************************************************************************)
EXTENDS Lessons, Gradebook, Counting

TopicRows ==
  [status : TopicStatuses, syllabus : Syllabi, title : Titles, order : Nat, dated : BOOLEAN]
Adding == [step : {"adding"}, on : Syllabi, base : Nat, saw : {"NONE"}]
UpdatingRequests == [step : {"updating"}, on : Topics, base : {0}, saw : TopicStatuses]
Checked ==
  [plan : Plans, course : Courses, topic : Topics \cup {Null}, period : PlanPeriods \cup {Null}]

(* Beside the tables, requests have their shape. *)
LessonShape ==
  /\ LessonTypeOK
  /\ author \in [Authors -> {NoAuthor} \cup Adding \cup UpdatingRequests]
  /\ planner \in [Planners -> {NoPlanner} \cup Checked]

LEMMA LessonFacts ==
  ASSUME LessonShape
  PROVE  /\ topic \in [Topics -> TopicRows \cup {NoTopic}]
         /\ \A i \in Topics : There(i) <=> topic[i] \in TopicRows
         /\ \A a \in Authors :
              /\ author[a].step = "adding" <=> author[a] \in Adding
              /\ author[a].step = "updating" <=> author[a] \in UpdatingRequests
              /\ author[a].step = "idle" <=> author[a] = NoAuthor
              /\ author[a] \in UpdatingRequests => author[a].on \in 1..entered
         /\ \A p \in Planners : planner[p] # NoPlanner => planner[p] \in Checked
         /\ entered \in Nat
         /\ Null \notin Topics
         /\ NoTopic \notin TopicRows
<1>1. topic \in [Topics -> TopicRows \cup {NoTopic}]
  BY DEF LessonShape, LessonTypeOK, TopicRows
<1>2. NoTopic \notin TopicRows
  BY DEF NoTopic, TopicRows, TopicStatuses
<1>3. \A a \in Authors :
        /\ author[a].step = "adding" <=> author[a] \in Adding
        /\ author[a].step = "updating" <=> author[a] \in UpdatingRequests
        /\ author[a].step = "idle" <=> author[a] = NoAuthor
  BY DEF LessonShape, Adding, UpdatingRequests, NoAuthor
<1>4. \A a \in Authors : author[a].step = "updating" => author[a].on \in 1..entered
  BY DEF LessonShape, LessonTypeOK, NoAuthor
<1>5. entered \in Nat /\ Null \notin Topics
  BY LessonAssumption DEF LessonShape, LessonTypeOK, Topics
<1> QED
  BY <1>1, <1>2, <1>3, <1>4, <1>5 DEF There, LessonShape

(* A batch fills places after the last number; the places of what is new   *)
(* in it grow with the numbers.                                            *)
NewRow(k, base, titles, j) ==
  [status |-> "NOT_STARTED", syllabus |-> k, title |-> titles[j], order |-> base + j - 1,
   dated |-> FALSE]

LEMMA BatchShape ==
  ASSUME NEW titles \in Batches
  PROVE  /\ DOMAIN titles \subseteq Nat \ {0} /\ IsFiniteSet(DOMAIN titles)
         /\ \A j \in DOMAIN titles : titles[j] \in Titles
<1>1. IsFiniteSet(1..1) /\ IsFiniteSet(1..2)
  BY PrefixFinite
<1>2. CASE titles \in {<<x>> : x \in Titles}
  <2>1. PICK x \in Titles : titles = <<x>>
    BY <1>2
  <2>2. DOMAIN titles = 1..1 /\ titles[1] \in Titles
    BY <2>1
  <2>3. \A j \in DOMAIN titles : j = 1
    BY <2>2
  <2> QED
    BY <1>1, <2>2, <2>3
<1>3. CASE titles \in Titles \X Titles
  <2>1. DOMAIN titles = 1..2 /\ titles[1] \in Titles /\ titles[2] \in Titles
    BY <1>3
  <2>2. \A j \in DOMAIN titles : j = 1 \/ j = 2
    BY <2>1
  <2> QED
    BY <1>1, <2>1, <2>2
<1> QED
  BY <1>2, <1>3 DEF Batches

LEMMA BatchEntered ==
  ASSUME LessonShape, NEW a \in Authors, NEW titles \in Batches, CreateTopics(a, titles),
         NEW k, k = author[a].on, NEW fresh, fresh = Fresh(k, titles)
  PROVE  /\ author[a] \in Adding
         /\ entered' \in entered..MaxTopics
         /\ fresh \subseteq DOMAIN titles /\ fresh \subseteq Nat \ {0} /\ IsFiniteSet(fresh)
         /\ \A i \in Topics :
              \/ topic'[i] = topic[i]
              \/ \E j \in fresh : /\ i = entered + Place(fresh, j)
                                  /\ i \in (entered + 1)..entered'
                                  /\ topic'[i] = NewRow(k, author[a].base, titles, j)
         /\ topic' \in [Topics -> TopicRows \cup {NoTopic}]
<1> USE LessonFacts
<1>1. author[a] \in Adding
  BY DEF CreateTopics
<1>2. fresh \subseteq DOMAIN titles /\ fresh \subseteq Nat \ {0} /\ IsFiniteSet(fresh)
  BY BatchShape, FS_Subset DEF Fresh
<1>3. Cardinality(fresh) \in Nat
  BY <1>2, FS_CardinalityType
<1>4. entered' = entered + Cardinality(fresh) /\ entered' <= MaxTopics
  BY DEF CreateTopics
<1>5. entered' \in entered..MaxTopics
  BY <1>3, <1>4, LessonAssumption
<1> DEFINE Id(j) == entered + Place(fresh, j)
<1>6. topic' = [i \in Topics |->
         IF \E j \in fresh : Id(j) = i
         THEN NewRow(k, author[a].base, titles, CHOOSE j \in fresh : Id(j) = i)
         ELSE topic[i]]
  BY DEF CreateTopics, NewRow, Place
<1>7. \A j \in fresh : Id(j) \in (entered + 1)..entered'
  <2> SUFFICES ASSUME NEW j \in fresh
               PROVE  Id(j) \in (entered + 1)..entered'
    OBVIOUS
  <2>1. Place(fresh, j) \in 1..Cardinality(fresh)
    BY <1>2, PlaceBounds
  <2> QED
    BY <1>3, <1>4, <2>1
<1>8. \A j \in fresh : NewRow(k, author[a].base, titles, j) \in TopicRows
  <2>1. \A j \in fresh : author[a].base + j - 1 \in Nat
    BY <1>1, <1>2 DEF Adding
  <2>2. \A j \in fresh : titles[j] \in Titles
    BY <1>2, BatchShape
  <2> QED
    BY <1>1, <2>1, <2>2 DEF Adding, NewRow, TopicRows, TopicStatuses
<1>9. ASSUME NEW i \in Topics
      PROVE  \/ topic'[i] = topic[i]
             \/ \E j \in fresh : Id(j) = i /\ topic'[i] = NewRow(k, author[a].base, titles, j)
  <2>1. CASE \E j \in fresh : Id(j) = i
    <3> DEFINE j == CHOOSE j \in fresh : Id(j) = i
    <3>1. j \in fresh /\ Id(j) = i
      BY <2>1
    <3>2. topic'[i] = NewRow(k, author[a].base, titles, j)
      BY <1>6, <2>1
    <3> QED
      BY <3>1, <3>2
  <2>2. CASE ~ \E j \in fresh : Id(j) = i
    BY <1>6, <2>2
  <2> QED
    BY <2>1, <2>2
<1>10. topic' \in [Topics -> TopicRows \cup {NoTopic}]
  <2>1. \A i \in Topics : topic'[i] \in TopicRows \cup {NoTopic}
    BY <1>8, <1>9
  <2>2. topic' = [i \in Topics |-> topic'[i]]
    BY <1>6
  <2> QED
    BY <2>1, <2>2
<1> QED
  BY <1>1, <1>2, <1>5, <1>7, <1>9, <1>10

LEMMA BatchTitles ==
  ASSUME LessonShape, NEW a \in Authors, NEW titles \in Batches, CreateTopics(a, titles),
         NEW i \in Topics, NEW o \in Topics, There(i)', i # o
  PROVE  <<topic'[i].syllabus, topic'[i].title>> # <<topic'[o].syllabus, topic'[o].title>>
<1> DEFINE k == author[a].on
           fresh == Fresh(k, titles)
           New(x) == \E j \in fresh : /\ x = entered + Place(fresh, j)
                                      /\ topic'[x] = NewRow(k, author[a].base, titles, j)
<1>1. /\ topic'[i] = topic[i] \/ New(i)
      /\ topic'[o] = topic[o] \/ New(o)
      /\ author[a] \in Adding
      /\ fresh \subseteq Nat \ {0}
  BY BatchEntered
<1>2. topic'[i] # NoTopic
  BY DEF There
<1>3. \A j \in fresh : NewRow(k, author[a].base, titles, j).syllabus = k
                       /\ NewRow(k, author[a].base, titles, j).title = titles[j]
  BY DEF NewRow
<1>4. \A x \in Topics : There(x) /\ topic[x].syllabus = k =>
         \A j \in fresh : titles[j] # topic[x].title
  BY DEF Fresh, TitlesOf, TopicsOf
<1>5. \A j, h \in fresh : j # h => titles[j] # titles[h]
  <2> SUFFICES ASSUME NEW j \in fresh, NEW h \in fresh, j < h
               PROVE  titles[j] # titles[h]
    BY <1>1
  <2>1. j \in 1..(h - 1)
    BY <1>1
  <2> QED
    BY <2>1 DEF Fresh
<1>6. CASE topic'[i] = topic[i] /\ topic'[o] = topic[o]
  <2>1. There(i)
    BY <1>2, <1>6 DEF There
  <2> QED
    BY <1>6, <2>1 DEF LessonShape, LessonTypeOK
<1>7. CASE topic'[i] = topic[i] /\ New(o)
  <2>1. There(i)
    BY <1>2, <1>7 DEF There
  <2> HIDE DEF fresh, k
  <2> QED
    BY <1>3, <1>4, <1>7, <2>1
<1>8. CASE New(i) /\ topic'[o] = topic[o]
  <2>1. CASE There(o)
    <3> HIDE DEF fresh, k
    <3> QED
      BY <1>3, <1>4, <1>8, <2>1
  <2>2. CASE ~There(o)
    <3>1. topic'[o].syllabus = Null
      BY <1>8, <2>2 DEF There, NoTopic
    <3>2. topic'[i].syllabus = k /\ k \in Syllabi
      BY <1>1, <1>3, <1>8 DEF Adding
    <3> QED
      BY <3>1, <3>2, LessonAssumption
  <2> QED
    BY <2>1, <2>2
<1>9. CASE New(i) /\ New(o)
  <2> HIDE DEF fresh, k
  <2> QED
    BY <1>3, <1>5, <1>9
<1> QED
  BY <1>1, <1>6, <1>7, <1>8, <1>9

(* The parts of the shape that changes of topics, plans and requests can   *)
(* disturb.                                                                *)
TopicsWhole ==
  /\ topic \in [Topics -> TopicRows \cup {NoTopic}]
  /\ entered \in 0..MaxTopics
  /\ \A i \in Topics : There(i) => i <= entered
  /\ \A i, o \in Topics : There(i) /\ i # o =>
       <<topic[i].syllabus, topic[i].title>> # <<topic[o].syllabus, topic[o].title>>
AuthorsWhole ==
  /\ author \in [Authors -> {NoAuthor} \cup Adding \cup UpdatingRequests]
  /\ \A a \in Authors : author[a] \in UpdatingRequests => author[a].on <= entered
PlansWhole ==
  /\ plan \in [Plans ->
       [course : Courses, topic : Topics \cup {Null}, period : pinnable \cup {Null}] \cup {NoPlan}]
  /\ \A l \in Plans : plan[l].topic # Null => There(plan[l].topic)
  /\ pinnable \subseteq PlanPeriods
PlannersWhole == planner \in [Planners -> {NoPlanner} \cup Checked]

LEMMA LessonParts == LessonShape <=> TopicsWhole /\ AuthorsWhole /\ PlansWhole /\ PlannersWhole
<1>1. LessonShape => TopicsWhole /\ AuthorsWhole /\ PlansWhole /\ PlannersWhole
  <2> SUFFICES ASSUME LessonShape
               PROVE  TopicsWhole /\ AuthorsWhole /\ PlansWhole /\ PlannersWhole
    OBVIOUS
  <2>1. TopicsWhole
    BY DEF LessonShape, LessonTypeOK, TopicsWhole, TopicRows
  <2>2. AuthorsWhole
    <3>1. \A a \in Authors : author[a] \in UpdatingRequests => author[a].on <= entered
      BY LessonFacts
    <3> QED
      BY <3>1 DEF LessonShape, AuthorsWhole
  <2>3. PlansWhole /\ PlannersWhole
    BY DEF LessonShape, LessonTypeOK, PlansWhole, PlannersWhole
  <2> QED
    BY <2>1, <2>2, <2>3
<1>2. ASSUME TopicsWhole, AuthorsWhole, PlansWhole, PlannersWhole
      PROVE  LessonShape
  <2>1. ASSUME NEW a \in Authors
        PROVE  \/ author[a] = NoAuthor
               \/ author[a].step = "adding" /\ author[a].on \in Syllabi /\ author[a].base \in Nat
               \/ author[a].step = "updating" /\ author[a].on \in 1..entered
                     /\ author[a].saw \in TopicStatuses
    <3>1. author[a] \in UpdatingRequests => author[a].on \in 1..entered
      BY <1>2, LessonAssumption DEF AuthorsWhole, TopicsWhole, UpdatingRequests, Topics
    <3> QED
      BY <1>2, <3>1 DEF AuthorsWhole, Adding, UpdatingRequests
  <2>2. LessonTypeOK
    BY <1>2, <2>1 DEF TopicsWhole, PlansWhole, LessonTypeOK, TopicRows
  <2> QED
    BY <1>2, <2>2 DEF LessonShape, AuthorsWhole, PlannersWhole
<1> QED
  BY <1>1, <1>2

LEMMA TopicsStep ==
  ASSUME LessonShape, LessonNext
  PROVE  TopicsWhole'
<1> USE LessonFacts
<1>w. TopicsWhole
  BY LessonParts
<1>1. ASSUME UNCHANGED <<topic, entered>>
      PROVE  TopicsWhole'
  BY <1>1, <1>w DEF TopicsWhole, There
<1>2. ASSUME NEW a \in Authors, NEW titles \in Batches, CreateTopics(a, titles)
      PROVE  TopicsWhole'
  <2>1. /\ topic' \in [Topics -> TopicRows \cup {NoTopic}]
        /\ entered' \in entered..MaxTopics
        /\ \A i \in Topics : topic'[i] = topic[i] \/ i <= entered'
    BY <1>2, BatchEntered
  <2>2. entered' \in 0..MaxTopics /\ entered <= entered'
    BY <2>1, LessonAssumption
  <2>3. \A i \in Topics : There(i)' => i <= entered'
    BY <1>w, <2>1, <2>2, LessonAssumption DEF TopicsWhole, There, Topics
  <2>4. \A i, o \in Topics : There(i)' /\ i # o =>
          <<topic'[i].syllabus, topic'[i].title>> # <<topic'[o].syllabus, topic'[o].title>>
    BY <1>2, BatchTitles
  <2> QED
    BY <2>1, <2>2, <2>3, <2>4 DEF TopicsWhole
<1>3. ASSUME NEW a \in Authors, NEW status \in TopicStatuses, WriteStatus(a, status)
      PROVE  TopicsWhole'
  <2>1. PICK i \in Topics :
          i = author[a].on /\ author[a] \in UpdatingRequests /\ There(i) /\ topic[i] \in TopicRows
    BY <1>3 DEF WriteStatus, UpdatingRequests
  <2>2. DateOf(a, status) \in BOOLEAN
    BY <2>1 DEF DateOf, TopicRows
  <2>3. /\ topic' = [topic EXCEPT ![i] = [topic[i] EXCEPT !.status = status, !.dated = DateOf(a, status)]]
        /\ entered' = entered
    BY <1>3, <2>1 DEF WriteStatus
  <2>4. topic'[i] \in TopicRows /\ topic'[i].syllabus = topic[i].syllabus
        /\ topic'[i].title = topic[i].title
    BY <2>1, <2>2, <2>3 DEF TopicRows
  <2>5. \A o \in Topics : topic'[o].syllabus = topic[o].syllabus
          /\ topic'[o].title = topic[o].title /\ (There(o)' <=> There(o))
    <3>1. \A o \in Topics : o # i => topic'[o] = topic[o]
      BY <2>3
    <3>2. There(i)'
      BY <2>4 DEF There
    <3> QED
      BY <2>1, <2>4, <3>1, <3>2 DEF There
  <2>6. topic' \in [Topics -> TopicRows \cup {NoTopic}]
    BY <2>3, <2>4
  <2> QED
    BY <1>w, <2>3, <2>5, <2>6 DEF TopicsWhole
<1>4. ASSUME NEW a \in Authors, NEW title \in Titles, WriteTitle(a, title)
      PROVE  TopicsWhole'
  <2>1. PICK i \in Topics :
          i = author[a].on /\ author[a] \in UpdatingRequests /\ There(i) /\ topic[i] \in TopicRows
    BY <1>4 DEF WriteTitle, UpdatingRequests
  <2>3. topic' = [topic EXCEPT ![i] = [topic[i] EXCEPT !.title = title]] /\ entered' = entered
    BY <1>4, <2>1 DEF WriteTitle
  <2>4. topic'[i] \in TopicRows /\ topic'[i].syllabus = topic[i].syllabus
        /\ topic'[i].title = title
    BY <2>1, <2>3 DEF TopicRows
  <2>5. \A o \in Topics : (There(o)' <=> There(o)) /\ (o # i => topic'[o] = topic[o])
    <3>1. \A o \in Topics : o # i => topic'[o] = topic[o]
      BY <2>3
    <3>2. There(i)'
      BY <2>4 DEF There
    <3> QED
      BY <2>1, <3>1, <3>2 DEF There
  <2>6. topic' \in [Topics -> TopicRows \cup {NoTopic}]
    BY <2>3, <2>4
  <2>7. \A o \in Topics : There(o) /\ topic[o].syllabus = topic[i].syllabus /\ o # i =>
          topic[o].title # title
    BY <1>4, <2>1 DEF WriteTitle, TopicsOf
  <2>8. \A o \in Topics : ~There(o) => topic[o].syllabus \notin Syllabi
    BY LessonAssumption DEF There, NoTopic
  <2>9. topic[i].syllabus \in Syllabi
    BY <2>1 DEF TopicRows
  <2>10. ASSUME NEW x \in Topics, NEW o \in Topics, There(x)', x # o
         PROVE  <<topic'[x].syllabus, topic'[x].title>> # <<topic'[o].syllabus, topic'[o].title>>
    <3>1. CASE x = i
      BY <2>4, <2>5, <2>7, <2>8, <2>9, <2>10, <3>1
    <3>2. CASE o = i
      BY <2>4, <2>5, <2>7, <2>10, <3>2
    <3>3. CASE x # i /\ o # i
      BY <1>w, <2>5, <2>10, <3>3 DEF TopicsWhole
    <3> QED
      BY <3>1, <3>2, <3>3
  <2>11. \A x \in Topics : There(x)' => x <= entered'
    BY <1>w, <2>3, <2>5 DEF TopicsWhole
  <2> QED
    BY <1>w, <2>3, <2>6, <2>10, <2>11 DEF TopicsWhole
<1>5. ASSUME NEW a \in Authors, NEW order \in 0..MaxOrder, WriteOrder(a, order)
      PROVE  TopicsWhole'
  <2>1. PICK i \in Topics :
          i = author[a].on /\ author[a] \in UpdatingRequests /\ There(i) /\ topic[i] \in TopicRows
    BY <1>5 DEF WriteOrder, UpdatingRequests
  <2>3. topic' = [topic EXCEPT ![i] = [topic[i] EXCEPT !.order = order]] /\ entered' = entered
    BY <1>5, <2>1 DEF WriteOrder
  <2>4. topic'[i] \in TopicRows /\ topic'[i].syllabus = topic[i].syllabus
        /\ topic'[i].title = topic[i].title
    BY <2>1, <2>3, LessonAssumption DEF TopicRows
  <2>5. \A o \in Topics : topic'[o].syllabus = topic[o].syllabus
          /\ topic'[o].title = topic[o].title /\ (There(o)' <=> There(o))
    <3>1. \A o \in Topics : o # i => topic'[o] = topic[o]
      BY <2>3
    <3>2. There(i)'
      BY <2>4 DEF There
    <3> QED
      BY <2>1, <2>4, <3>1, <3>2 DEF There
  <2>6. topic' \in [Topics -> TopicRows \cup {NoTopic}]
    BY <2>3, <2>4
  <2> QED
    BY <1>w, <2>3, <2>5, <2>6 DEF TopicsWhole
<1>6. ASSUME NEW i \in Topics, RemoveTopic(i)
      PROVE  TopicsWhole'
  <2>1. topic' = [topic EXCEPT ![i] = NoTopic] /\ entered' = entered
    BY <1>6 DEF RemoveTopic
  <2>2. \A o \in Topics : (There(o)' => There(o)) /\ (o # i => topic'[o] = topic[o]) /\ ~There(i)'
    BY <2>1 DEF There
  <2>3. topic' \in [Topics -> TopicRows \cup {NoTopic}]
    BY <2>1
  <2>4. ASSUME NEW x \in Topics, NEW o \in Topics, There(x)', x # o
        PROVE  <<topic'[x].syllabus, topic'[x].title>> # <<topic'[o].syllabus, topic'[o].title>>
    <3>1. x # i /\ topic'[x] = topic[x] /\ There(x)
      BY <2>2, <2>4
    <3>2. CASE o = i
      <4>1. topic'[o].syllabus = Null
        BY <2>1, <3>2 DEF NoTopic
      <4>2. topic'[x].syllabus \in Syllabi
        BY <3>1 DEF TopicRows
      <4> QED
        BY <4>1, <4>2, LessonAssumption
    <3>3. CASE o # i
      BY <1>w, <2>2, <2>4, <3>1, <3>3 DEF TopicsWhole
    <3> QED
      BY <3>2, <3>3
  <2> QED
    BY <1>w, <2>1, <2>2, <2>3, <2>4 DEF TopicsWhole
<1> QED
  BY <1>1, <1>2, <1>3, <1>4, <1>5, <1>6
  DEF LessonNext, SyllabusNext, PlanNext, ReadLast, ReadTopic, DropAuthor, DropPeriod, CheckTargets,
      WritePlan, DropPlanner, RemovePlan

(* The next position of a syllabus is past all its topics. *)
LEMMA NextPositionIsPast ==
  ASSUME LessonShape, NEW k \in Syllabi
  PROVE  /\ NextPosition(k) \in Nat
         /\ \A i \in TopicsOf(k) : topic[i].order < NextPosition(k)
<1> USE LessonFacts
<1> DEFINE f == [i \in TopicsOf(k) |-> topic[i].order]
           S == {topic[i].order : i \in TopicsOf(k)}
<1>1. IsFiniteSet(TopicsOf(k)) /\ TopicsOf(k) \subseteq Topics
  <2>1. IsFiniteSet(Topics)
    BY LessonAssumption, PrefixFinite DEF Topics
  <2> QED
    BY <2>1, FS_Subset DEF TopicsOf
<1>2. S \subseteq Nat
  BY DEF TopicsOf, TopicRows
<1>3. CASE TopicsOf(k) = {}
  BY <1>3 DEF NextPosition
<1>4. CASE TopicsOf(k) # {}
  <2>1. DOMAIN f = TopicsOf(k) /\ \A i \in TopicsOf(k) : f[i] = topic[i].order
    OBVIOUS
  <2>2. IsFiniteSet(S)
    <3> HIDE DEF f
    <3>1. S = {f[i] : i \in TopicsOf(k)}
      BY <2>1
    <3> QED
      BY <1>1, <2>1, <3>1, ImageFinite
  <2>3. S # {}
    <3>1. PICK i \in TopicsOf(k) : TRUE
      BY <1>4
    <3> QED
      BY <3>1
  <2>4. Max(S) \in S /\ \A x \in S : x <= Max(S)
    <3> HIDE DEF S
    <3> QED
      BY <1>2, <2>2, <2>3, GreatestOfFinite
  <2>5. NextPosition(k) = Max(S) + 1
    BY <1>4 DEF NextPosition
  <2>6. \A i \in TopicsOf(k) : topic[i].order \in S
    OBVIOUS
  <2> HIDE DEF S
  <2>7. \A m \in S : (\A x \in S : x <= m) => m \in Nat /\ \A x \in S : x < m + 1
    BY <1>2
  <2> QED
    BY <2>4, <2>5, <2>6, <2>7
<1> QED
  BY <1>3, <1>4

LEMMA AuthorsStep ==
  ASSUME LessonShape, LessonNext
  PROVE  AuthorsWhole'
<1> USE LessonFacts
<1>w. AuthorsWhole /\ TopicsWhole
  BY LessonParts
<1>e. entered' \in Nat /\ entered <= entered'
  <2>1. ASSUME NEW a \in Authors, NEW titles \in Batches, CreateTopics(a, titles)
        PROVE  entered' \in Nat /\ entered <= entered'
    BY <2>1, BatchEntered, LessonAssumption
  <2>2. CASE UNCHANGED entered
    BY <2>2
  <2> QED
    BY <2>1, <2>2
    DEF LessonNext, SyllabusNext, PlanNext, ReadLast, ReadTopic, WriteStatus, WriteTitle, WriteOrder,
        DropAuthor, RemoveTopic, DropPeriod, CheckTargets, WritePlan, DropPlanner, RemovePlan
<1>k. \A x \in Authors : author[x] \in UpdatingRequests => author[x].on <= entered'
  BY <1>e DEF Topics
<1>1. ASSUME NEW a \in Authors, NEW row \in {NoAuthor} \cup Adding \cup UpdatingRequests,
             row \in UpdatingRequests => row.on <= entered, author' = [author EXCEPT ![a] = row]
      PROVE  AuthorsWhole'
  <2>1. \A x \in Authors : author'[x] = IF x = a THEN row ELSE author[x]
    BY <1>1, <1>w DEF AuthorsWhole
  <2>2. author' \in [Authors -> {NoAuthor} \cup Adding \cup UpdatingRequests]
    BY <1>1, <1>w DEF AuthorsWhole
  <2>3. row \in UpdatingRequests => row.on <= entered'
    BY <1>1, <1>e DEF UpdatingRequests, Topics
  <2>4. \A x \in Authors : author'[x] \in UpdatingRequests => author'[x].on <= entered'
    BY <1>k, <2>1, <2>3
  <2> QED
    BY <2>2, <2>4 DEF AuthorsWhole
<1>2. ASSUME UNCHANGED author
      PROVE  AuthorsWhole'
  BY <1>2, <1>w, <1>k DEF AuthorsWhole
<1>3. NoAuthor \notin UpdatingRequests
  BY DEF NoAuthor, UpdatingRequests
<1>4. ASSUME NEW a \in Authors, author' = [author EXCEPT ![a] = NoAuthor]
      PROVE  AuthorsWhole'
  BY <1>1, <1>3, <1>4
<1>5. ASSUME NEW a \in Authors, NEW k \in Syllabi, ReadLast(a, k)
      PROVE  AuthorsWhole'
  <2> DEFINE row == [NoAuthor EXCEPT !.step = "adding", !.on = k, !.base = NextPosition(k)]
  <2>1. row \in Adding /\ row \notin UpdatingRequests
    BY NextPositionIsPast DEF NoAuthor, Adding, UpdatingRequests
  <2>2. author' = [author EXCEPT ![a] = row]
    BY <1>5 DEF ReadLast
  <2> HIDE DEF row
  <2> QED
    BY <1>1, <2>1, <2>2
<1>6. ASSUME NEW a \in Authors, NEW i \in Topics, ReadTopic(a, i)
      PROVE  AuthorsWhole'
  <2> DEFINE row == [NoAuthor EXCEPT !.step = "updating", !.on = i, !.saw = topic[i].status]
  <2>1. row \in UpdatingRequests /\ row.on <= entered
    <3>1. topic[i].status \in TopicStatuses /\ i <= entered
      BY <1>6, <1>w DEF ReadTopic, TopicRows, TopicsWhole
    <3> QED
      BY <3>1 DEF NoAuthor, UpdatingRequests
  <2>2. author' = [author EXCEPT ![a] = row]
    BY <1>6 DEF ReadTopic
  <2> HIDE DEF row
  <2> QED
    BY <1>1, <2>1, <2>2
<1>7. ASSUME NEW a \in Authors, NEW titles \in Batches, CreateTopics(a, titles)
      PROVE  AuthorsWhole'
  BY <1>4, <1>7 DEF CreateTopics
<1>8. CASE PlanNext
  BY <1>2, <1>8 DEF PlanNext, DropPeriod, CheckTargets, WritePlan, DropPlanner, RemovePlan
<1> QED
  BY <1>2, <1>4, <1>5, <1>6, <1>7, <1>8
  DEF LessonNext, SyllabusNext, WriteStatus, WriteTitle, WriteOrder, DropAuthor, RemoveTopic

(* A topic that is there stays so until it is removed, and stays of its    *)
(* syllabus; and what is not there only comes with a new number.           *)
Lasting(i) == There(i) => There(i)' /\ topic'[i].syllabus = topic[i].syllabus
OldTopics == \A i \in Topics :
  There(i)' /\ i <= entered => There(i) /\ topic'[i].syllabus = topic[i].syllabus

LEMMA RowRewritten ==
  ASSUME LessonShape, NEW i \in Topics, There(i), NEW row, row # NoTopic,
         row.syllabus = topic[i].syllabus, topic' = [topic EXCEPT ![i] = row]
  PROVE  OldTopics /\ \A o \in Topics : Lasting(o)
BY LessonFacts DEF There, Lasting, OldTopics

LEMMA TopicsLast ==
  ASSUME LessonShape, LessonNext
  PROVE  /\ OldTopics
         /\ \/ UNCHANGED <<plan, pinnable>> /\ \A i \in Topics : Lasting(i)
            \/ UNCHANGED topic
            \/ \E i \in Topics : RemoveTopic(i)
<1> USE LessonFacts
<1>1. ASSUME NEW a \in Authors, NEW titles \in Batches, CreateTopics(a, titles)
      PROVE  OldTopics /\ UNCHANGED <<plan, pinnable>> /\ \A i \in Topics : Lasting(i)
  <2>1. ASSUME NEW i \in Topics, i <= entered
        PROVE  topic'[i] = topic[i]
    <3>1. \/ topic'[i] = topic[i]
          \/ i \in (entered + 1)..entered'
      BY <1>1, BatchEntered
    <3> QED
      BY <2>1, <3>1 DEF Topics
  <2>2. \A i \in Topics : There(i) => i <= entered
    BY DEF LessonShape, LessonTypeOK
  <2> QED
    BY <1>1, <2>1, <2>2 DEF CreateTopics, OldTopics, Lasting, There
<1>2. ASSUME NEW a \in Authors, NEW status \in TopicStatuses, WriteStatus(a, status)
      PROVE  OldTopics /\ UNCHANGED <<plan, pinnable>> /\ \A i \in Topics : Lasting(i)
  <2>1. PICK i \in Topics : i = author[a].on /\ There(i) /\ topic[i] \in TopicRows
    BY <1>2 DEF WriteStatus, UpdatingRequests
  <2> DEFINE row == [topic[i] EXCEPT !.status = status, !.dated = DateOf(a, status)]
  <2>2. topic' = [topic EXCEPT ![i] = row]
    BY <1>2, <2>1 DEF WriteStatus
  <2>3. row.syllabus = topic[i].syllabus /\ row # NoTopic
    BY <2>1 DEF TopicRows, NoTopic, TopicStatuses
  <2> HIDE DEF row
  <2> QED
    BY <1>2, <2>1, <2>2, <2>3, RowRewritten DEF WriteStatus
<1>3. ASSUME NEW a \in Authors, NEW title \in Titles, WriteTitle(a, title)
      PROVE  OldTopics /\ UNCHANGED <<plan, pinnable>> /\ \A i \in Topics : Lasting(i)
  <2>1. PICK i \in Topics : i = author[a].on /\ There(i) /\ topic[i] \in TopicRows
    BY <1>3 DEF WriteTitle, UpdatingRequests
  <2> DEFINE row == [topic[i] EXCEPT !.title = title]
  <2>2. topic' = [topic EXCEPT ![i] = row]
    BY <1>3, <2>1 DEF WriteTitle
  <2>3. row.syllabus = topic[i].syllabus /\ row # NoTopic
    BY <2>1 DEF TopicRows, NoTopic, TopicStatuses
  <2> HIDE DEF row
  <2> QED
    BY <1>3, <2>1, <2>2, <2>3, RowRewritten DEF WriteTitle
<1>4. ASSUME NEW a \in Authors, NEW order \in 0..MaxOrder, WriteOrder(a, order)
      PROVE  OldTopics /\ UNCHANGED <<plan, pinnable>> /\ \A i \in Topics : Lasting(i)
  <2>1. PICK i \in Topics : i = author[a].on /\ There(i) /\ topic[i] \in TopicRows
    BY <1>4 DEF WriteOrder, UpdatingRequests
  <2> DEFINE row == [topic[i] EXCEPT !.order = order]
  <2>2. topic' = [topic EXCEPT ![i] = row]
    BY <1>4, <2>1 DEF WriteOrder
  <2>3. row.syllabus = topic[i].syllabus /\ row # NoTopic
    BY <2>1 DEF TopicRows, NoTopic, TopicStatuses
  <2> HIDE DEF row
  <2> QED
    BY <1>4, <2>1, <2>2, <2>3, RowRewritten DEF WriteOrder
<1>5. ASSUME UNCHANGED topic
      PROVE  OldTopics
  BY <1>5 DEF OldTopics, There
<1>6. ASSUME NEW i \in Topics, RemoveTopic(i)
      PROVE  OldTopics
  BY <1>6 DEF RemoveTopic, OldTopics, There
<1>7. CASE PlanNext
  BY <1>5, <1>7 DEF PlanNext, DropPeriod, CheckTargets, WritePlan, DropPlanner, RemovePlan
<1> QED
  BY <1>1, <1>2, <1>3, <1>4, <1>5, <1>6, <1>7
  DEF LessonNext, SyllabusNext, ReadLast, ReadTopic, DropAuthor

(* What a plan in the making was checked against is still so, as numbers   *)
(* do not come back.                                                       *)
ChecksHold == \A p \in Planners : planner[p] # NoPlanner /\ planner[p].topic # Null =>
  /\ planner[p].topic <= entered
  /\ There(planner[p].topic) => CourseOf[topic[planner[p].topic].syllabus] = planner[p].course
PinnedRight == PlansFollowTheSyllabus /\ ChecksHold

LEMMA PlansStep ==
  ASSUME LessonShape, PinnedRight, LessonNext
  PROVE  PlansWhole' /\ PlansFollowTheSyllabus'
<1> USE LessonFacts
<1>w. PlansWhole /\ PlansFollowTheSyllabus
  BY LessonParts DEF PinnedRight
<1>1. ASSUME UNCHANGED <<plan, pinnable>>, \A i \in Topics : Lasting(i)
      PROVE  PlansWhole' /\ PlansFollowTheSyllabus'
  <2>1. \A l \in Plans : plan[l].topic # Null =>
          plan[l].topic \in Topics /\ There(plan[l].topic)
    BY <1>w DEF PlansWhole, NoPlan
  <2> QED
    BY <1>1, <1>w, <2>1 DEF PlansWhole, PlansFollowTheSyllabus, Lasting, There
<1>2. ASSUME NEW i \in Topics, RemoveTopic(i)
      PROVE  PlansWhole' /\ PlansFollowTheSyllabus'
  <2>1. plan' = [l \in Plans |-> IF plan[l].topic = i THEN [plan[l] EXCEPT !.topic = Null] ELSE plan[l]]
    BY <1>2 DEF RemoveTopic, Released
  <2>2. UNCHANGED pinnable /\ \A o \in Topics : o # i => topic'[o] = topic[o]
    BY <1>2 DEF RemoveTopic
  <2>3. \A l \in Plans : plan'[l].topic # Null => plan'[l] = plan[l] /\ plan[l].topic # i
    BY <1>w, <2>1 DEF PlansWhole, NoPlan
  <2>4. \A l \in Plans : plan'[l] \in [course : Courses, topic : Topics \cup {Null},
                                       period : pinnable \cup {Null}] \cup {NoPlan}
    BY <1>w, <2>1 DEF PlansWhole, NoPlan
  <2>5. \A l \in Plans : plan[l].topic # Null => plan[l].topic \in Topics
    BY <1>w DEF PlansWhole, NoPlan
  <2>6. PlansFollowTheSyllabus'
    BY <1>w, <2>2, <2>3, <2>5 DEF PlansFollowTheSyllabus
  <2>7. ASSUME NEW l \in Plans, plan'[l].topic # Null
        PROVE  topic'[plan'[l].topic] # NoTopic
    <3>1. plan'[l].topic = plan[l].topic /\ plan[l].topic # i /\ plan[l].topic # Null
      BY <2>3, <2>7
    <3>2. topic[plan[l].topic] # NoTopic /\ plan[l].topic \in Topics
      BY <1>w, <2>5, <3>1 DEF PlansWhole, There
    <3> QED
      BY <2>2, <3>1, <3>2
  <2>8. plan' \in [Plans -> [course : Courses, topic : Topics \cup {Null},
                             period : pinnable \cup {Null}] \cup {NoPlan}]
    BY <2>1, <2>4
  <2> QED
    BY <1>w, <2>2, <2>6, <2>7, <2>8 DEF PlansWhole, There
<1>3. ASSUME NEW d \in PlanPeriods, DropPeriod(d)
      PROVE  PlansWhole' /\ PlansFollowTheSyllabus'
  <2>1. plan' = [l \in Plans |-> IF plan[l].period = d THEN [plan[l] EXCEPT !.period = Null] ELSE plan[l]]
    BY <1>3 DEF DropPeriod, Released
  <2>2. UNCHANGED topic /\ pinnable' = pinnable \ {d}
    BY <1>3 DEF DropPeriod
  <2>3. \A l \in Plans : plan'[l].topic = plan[l].topic /\ plan'[l].course = plan[l].course
    BY <1>w, <2>1 DEF PlansWhole, NoPlan
  <2>4. \A l \in Plans : plan'[l] \in [course : Courses, topic : Topics \cup {Null},
                                       period : pinnable' \cup {Null}] \cup {NoPlan}
    BY <1>w, <2>1, <2>2 DEF PlansWhole, NoPlan
  <2> QED
    BY <1>w, <2>1, <2>2, <2>3, <2>4 DEF PlansWhole, PlansFollowTheSyllabus, There
<1>4. ASSUME NEW p \in Planners, WritePlan(p)
      PROVE  PlansWhole' /\ PlansFollowTheSyllabus'
  <2>1. PICK w : w = planner[p] /\ w \in Checked
    BY <1>4 DEF WritePlan
  <2> DEFINE row == [course |-> w.course, topic |-> w.topic, period |-> w.period]
  <2>2. /\ w.topic # Null => w.topic \in Topics /\ There(w.topic)
                             /\ CourseOf[topic[w.topic].syllabus] = w.course
        /\ w.period # Null => w.period \in pinnable
    BY <1>4, <2>1 DEF WritePlan, Checked, PinnedRight, ChecksHold
  <2>3. plan' = [plan EXCEPT ![w.plan] = row] /\ UNCHANGED <<topic, pinnable>>
    BY <1>4, <2>1 DEF WritePlan
  <2>4. row \in [course : Courses, topic : Topics \cup {Null}, period : pinnable \cup {Null}]
        /\ row.topic = w.topic /\ row.course = w.course
    BY <2>1, <2>2 DEF Checked
  <2> HIDE DEF row
  <2>5. \A l \in Plans : plan'[l] = row \/ plan'[l] = plan[l]
    BY <1>w, <2>3 DEF PlansWhole
  <2>6. plan' \in [Plans -> [course : Courses, topic : Topics \cup {Null},
                             period : pinnable \cup {Null}] \cup {NoPlan}]
    BY <1>w, <2>3, <2>4 DEF PlansWhole
  <2> QED
    BY <1>w, <2>2, <2>3, <2>4, <2>5, <2>6 DEF PlansWhole, PlansFollowTheSyllabus, There
<1>5. ASSUME NEW l \in Plans, RemovePlan(l)
      PROVE  PlansWhole' /\ PlansFollowTheSyllabus'
  <2>1. plan' = [plan EXCEPT ![l] = NoPlan] /\ UNCHANGED <<topic, pinnable>>
    BY <1>5 DEF RemovePlan
  <2>2. \A x \in Plans : plan'[x] = plan[x] \/ plan'[x].topic = Null
    BY <1>w, <2>1 DEF PlansWhole, NoPlan
  <2> QED
    BY <1>w, <2>1, <2>2 DEF PlansWhole, PlansFollowTheSyllabus, There
<1>6. ASSUME UNCHANGED <<topic, plan, pinnable>>
      PROVE  PlansWhole' /\ PlansFollowTheSyllabus'
  BY <1>1, <1>6 DEF Lasting, There
<1>7. CASE PlanNext
  BY <1>3, <1>4, <1>5, <1>6, <1>7 DEF PlanNext, CheckTargets, DropPlanner
<1>8. CASE SyllabusNext
  <2>1. UNCHANGED topic => UNCHANGED <<plan, pinnable>>
    BY <1>8, LessonFacts DEF SyllabusNext, ReadLast, CreateTopics, ReadTopic, WriteStatus, WriteTitle, WriteOrder, DropAuthor,
       RemoveTopic, There
  <2> QED
    BY <1>1, <1>2, <1>6, <2>1, TopicsLast
<1> QED
  BY <1>7, <1>8 DEF LessonNext

LEMMA PlannersStep ==
  ASSUME LessonShape, PinnedRight, LessonNext
  PROVE  PlannersWhole' /\ ChecksHold'
<1> USE LessonFacts
<1>w. PlannersWhole /\ TopicsWhole
  BY LessonParts
<1>e. entered' \in Nat /\ entered <= entered'
  <2>1. ASSUME NEW a \in Authors, NEW titles \in Batches, CreateTopics(a, titles)
        PROVE  entered' \in Nat /\ entered <= entered'
    BY <2>1, BatchEntered, LessonAssumption
  <2>2. CASE UNCHANGED entered
    BY <2>2
  <2> QED
    BY <2>1, <2>2
    DEF LessonNext, SyllabusNext, PlanNext, ReadLast, ReadTopic, WriteStatus, WriteTitle, WriteOrder,
        DropAuthor, RemoveTopic, DropPeriod, CheckTargets, WritePlan, DropPlanner, RemovePlan
<1>o. OldTopics
  BY TopicsLast
<1> DEFINE Holds(w) == w.topic # Null =>
             /\ w.topic <= entered
             /\ There(w.topic) => CourseOf[topic[w.topic].syllabus] = w.course
           HoldsThen(w) == w.topic # Null =>
             /\ w.topic <= entered'
             /\ topic'[w.topic] # NoTopic => CourseOf[topic'[w.topic].syllabus] = w.course
<1>1. ASSUME NEW w \in Checked, Holds(w)
      PROVE  HoldsThen(w)
  <2>1. w.topic # Null => w.topic \in Topics /\ w.topic \in Nat
    BY DEF Checked, Topics
  <2>2. w.topic # Null => w.topic <= entered'
    BY <1>1, <1>e, <2>1
  <2> QED
    BY <1>1, <1>o, <2>1, <2>2 DEF OldTopics, There
<1>2. ASSUME \A p \in Planners : planner'[p] = planner[p] \/ planner'[p] = NoPlanner
                                 \/ (planner'[p] \in Checked /\ Holds(planner'[p]))
      PROVE  \A p \in Planners : planner'[p] # NoPlanner => planner'[p] \in Checked /\ HoldsThen(planner'[p])
  <2>1. \A p \in Planners : planner[p] # NoPlanner => planner[p] \in Checked /\ Holds(planner[p])
    BY DEF PinnedRight, ChecksHold
  <2> HIDE DEF Holds, HoldsThen
  <2> QED
    BY <1>1, <1>2, <2>1
<1>3. ASSUME NEW p \in Planners, NEW w \in {NoPlanner} \cup Checked, w = NoPlanner \/ Holds(w),
             planner' = [planner EXCEPT ![p] = w]
      PROVE  /\ \A o \in Planners : planner'[o] = planner[o] \/ planner'[o] = NoPlanner
                                    \/ (planner'[o] \in Checked /\ Holds(planner'[o]))
             /\ planner' \in [Planners -> {NoPlanner} \cup Checked]
  <2>1. \A o \in Planners : planner'[o] = planner[o] \/ planner'[o] = w
    BY <1>3, <1>w DEF PlannersWhole
  <2>2. planner' \in [Planners -> {NoPlanner} \cup Checked]
    BY <1>3, <1>w DEF PlannersWhole
  <2>3. ASSUME NEW o \in Planners, planner'[o] = w
        PROVE  planner'[o] = NoPlanner \/ (planner'[o] \in Checked /\ Holds(planner'[o]))
    BY <1>3, <2>3
  <2> QED
    BY <2>1, <2>2, <2>3
<1>4. ASSUME NEW p \in Planners, NEW l \in Plans, NEW course \in Courses, NEW i \in Topics \cup {Null},
             NEW d \in PlanPeriods \cup {Null}, CheckTargets(p, l, course, i, d)
      PROVE  /\ \A o \in Planners : planner'[o] = planner[o] \/ planner'[o] = NoPlanner
                                    \/ (planner'[o] \in Checked /\ Holds(planner'[o]))
             /\ planner' \in [Planners -> {NoPlanner} \cup Checked]
  <2> DEFINE w == [plan |-> l, course |-> course, topic |-> i, period |-> d]
  <2>1. planner' = [planner EXCEPT ![p] = w]
    BY <1>4 DEF CheckTargets
  <2>2. w \in Checked
    BY DEF Checked
  <2>3. Holds(w)
    BY <1>4, <1>w DEF CheckTargets, OnSyllabus, TopicsWhole
  <2> HIDE DEF w, Holds
  <2> QED
    BY <1>3, <2>1, <2>2, <2>3
<1>5. /\ \A o \in Planners : planner'[o] = planner[o] \/ planner'[o] = NoPlanner
                             \/ (planner'[o] \in Checked /\ Holds(planner'[o]))
      /\ planner' \in [Planners -> {NoPlanner} \cup Checked]
  <2>1. CASE UNCHANGED planner
    <3>1. planner' = planner /\ planner' \in [Planners -> {NoPlanner} \cup Checked]
      BY <2>1, <1>w DEF PlannersWhole
    <3> QED
      BY <3>1
  <2>2. ASSUME NEW p \in Planners, planner' = [planner EXCEPT ![p] = NoPlanner]
        PROVE  <1>5
    <3> HIDE DEF Holds
    <3> QED
      BY <1>3, <2>2
  <2> HIDE DEF Holds
  <2> QED
    BY <1>4, <2>1, <2>2
    DEF LessonNext, SyllabusNext, PlanNext, ReadLast, CreateTopics, ReadTopic, WriteStatus, WriteTitle, WriteOrder,
        DropAuthor, RemoveTopic, DropPeriod, WritePlan, DropPlanner, RemovePlan
<1>6. ChecksHold'
  BY <1>2, <1>5 DEF ChecksHold, There
<1> QED
  BY <1>5, <1>6 DEF PlannersWhole

LEMMA LessonStarts == LessonInit => LessonShape /\ PinnedRight
<1> SUFFICES ASSUME LessonInit
             PROVE  LessonShape /\ PinnedRight
  OBVIOUS
<1>1. TopicsWhole /\ AuthorsWhole /\ PlansWhole /\ PlannersWhole
  BY LessonAssumption
  DEF LessonInit, TopicsWhole, AuthorsWhole, PlansWhole, PlannersWhole, There, NoPlan, NoAuthor, UpdatingRequests
<1> QED
  BY <1>1, LessonParts DEF LessonInit, PinnedRight, PlansFollowTheSyllabus, ChecksHold, NoPlan

LEMMA LessonShapeHolds == LessonSpec => [](LessonShape /\ PinnedRight)
<1>1. LessonShape /\ PinnedRight /\ [LessonNext]_lessonVars => (LessonShape /\ PinnedRight)'
  <2> SUFFICES ASSUME LessonShape, PinnedRight, [LessonNext]_lessonVars
               PROVE  LessonShape' /\ PinnedRight'
    OBVIOUS
  <2>1. CASE LessonNext
    <3>1. (TopicsWhole /\ AuthorsWhole /\ PlansWhole /\ PlannersWhole)'
      BY <2>1, TopicsStep, AuthorsStep, PlansStep, PlannersStep
    <3>2. LessonShape'
      BY <3>1, LessonParts, PTL
    <3> QED
      BY <2>1, <3>2, PlansStep, PlannersStep DEF PinnedRight
  <2>2. CASE UNCHANGED lessonVars
    BY <2>2 DEF lessonVars, LessonShape, LessonTypeOK, PinnedRight, PlansFollowTheSyllabus, ChecksHold, There
  <2> QED
    BY <2>1, <2>2
<1> QED
  BY <1>1, LessonStarts, PTL DEF LessonSpec

(* Topics, requests and plans keep their shape, a title is on a syllabus   *)
(* once, and what a plan is pinned to exists.                              *)
THEOREM LessonTypeCorrect == LessonSpec => []LessonTypeOK
<1>1. LessonShape => LessonTypeOK
  BY DEF LessonShape
<1> QED
  BY <1>1, LessonShapeHolds, PTL

(* A plan stays pinned to a topic of its own class and subject through     *)
(* every order of checks, writes and removals: the topic that was checked  *)
(* has either gone or is of that course still, since topics do not move    *)
(* and numbers are not given again.                                        *)
THEOREM PlansFollowTheSyllabusAlways == LessonSpec => []PlansFollowTheSyllabus
<1>1. PinnedRight => PlansFollowTheSyllabus
  BY DEF PinnedRight
<1> QED
  BY <1>1, LessonShapeHolds, PTL

(* Why the syllabus tells the truth.  Two requests that do the same to the *)
(* same thing muddle it; so while a syllabus is not muddled, the one that  *)
(* adds to it starts past all its topics, and while a topic is not, the    *)
(* one that updates it knows its status.                                   *)
AuthorsApart == \A a, b \in Authors :
  a # b /\ author[a].step # "idle" /\ author[b].step = author[a].step /\ author[b].on = author[a].on
    => author[a].on \in muddled
AddersLead == \A a \in Authors, i \in Topics :
  author[a].step = "adding" /\ author[a].on \notin muddled /\ There(i) /\ topic[i].syllabus = author[a].on
    => topic[i].order < author[a].base
UpdatersSaw == \A a \in Authors, i \in Topics :
  author[a].step = "updating" /\ author[a].on = i /\ i \notin muddled /\ There(i) =>
    author[a].saw = topic[i].status
TruthInv == AuthorsApart /\ AddersLead /\ UpdatersSaw /\ SyllabusTellsTheTruth

(* A step after which every topic that is there was there before, with the *)
(* same syllabus and order.                                                *)
OrdersKept == \A i \in Topics : There(i)' =>
  There(i) /\ topic'[i].syllabus = topic[i].syllabus /\ topic'[i].order = topic[i].order

LEMMA OrderKept ==
  ASSUME TopicsInOrder, OrdersKept, muddled \subseteq muddled'
  PROVE  TopicsInOrder'
BY DEF TopicsInOrder, OrdersKept, There

(* Requests that were there before keep what they know of the positions.   *)
LEMMA LeadKept ==
  ASSUME AddersLead, OrdersKept, muddled \subseteq muddled',
         NEW a \in Authors, author'[a] = author[a], NEW i \in Topics, author'[a].step = "adding",
         author'[a].on \notin muddled', There(i)', topic'[i].syllabus = author'[a].on
  PROVE  topic'[i].order < author'[a].base
BY DEF AddersLead, OrdersKept

(* The requests but one are as before, and that one is done: those left    *)
(* are as far apart.                                                       *)
LEMMA ApartKept ==
  ASSUME LessonShape, AuthorsApart, muddled \subseteq muddled',
         \A x \in Authors : author'[x] = author[x] \/ author'[x] = NoAuthor
  PROVE  AuthorsApart'
BY DEF AuthorsApart, NoAuthor

LEMMA TruthStep ==
  LessonShape /\ TruthInv /\ [LessonNext]_lessonVars => TruthInv'
<1> SUFFICES ASSUME LessonShape, TruthInv, [LessonNext]_lessonVars
             PROVE  TruthInv'
  OBVIOUS
<1> USE LessonFacts
<1>a. /\ author \in [Authors -> {NoAuthor} \cup Adding \cup UpdatingRequests]
      /\ AuthorsApart /\ AddersLead /\ UpdatersSaw /\ TopicsInOrder /\ CoveredHasItsDate
  BY DEF LessonShape, TruthInv, SyllabusTellsTheTruth
<1>b. NoAuthor.step = "idle"
  BY DEF NoAuthor
<1>1. ASSUME UNCHANGED <<topic, author, muddled>>
      PROVE  TruthInv'
  BY <1>1, <1>a DEF TruthInv, SyllabusTellsTheTruth, AuthorsApart, AddersLead, UpdatersSaw, TopicsInOrder,
     CoveredHasItsDate, TopicsOf, There
<1>2. ASSUME NEW a \in Authors, NEW k \in Syllabi, ReadLast(a, k)
      PROVE  TruthInv'
  <2>1. /\ author' = [author EXCEPT ![a] =
               [NoAuthor EXCEPT !.step = "adding", !.on = k, !.base = NextPosition(k)]]
        /\ muddled' = IF Busy("adding", k) THEN muddled \cup {k} ELSE muddled
        /\ topic' = topic
    BY <1>2 DEF ReadLast
  <2>2. /\ author'[a].step = "adding" /\ author'[a].on = k /\ author'[a].base = NextPosition(k)
        /\ \A x \in Authors \ {a} : author'[x] = author[x]
    BY <2>1, <1>a DEF NoAuthor
  <2>3. muddled \subseteq muddled' /\ OrdersKept
    BY <2>1 DEF OrdersKept, There
  <2>4. AuthorsApart'
    <3>1. \A x \in Authors : x # a /\ author[x].step = "adding" /\ author[x].on = k => k \in muddled'
      BY <2>1 DEF Busy
    <3> QED
      BY <1>a, <2>2, <2>3, <3>1 DEF AuthorsApart
  <2>5. AddersLead'
    <3>1. \A i \in Topics : There(i) /\ topic[i].syllabus = k => topic[i].order < NextPosition(k)
      BY NextPositionIsPast DEF TopicsOf
    <3>2. ASSUME NEW i \in Topics, There(i)', topic'[i].syllabus = author'[a].on
          PROVE  topic'[i].order < author'[a].base
      BY <2>1, <2>2, <3>1, <3>2 DEF There
    <3>3. ASSUME NEW x \in Authors \ {a}, NEW i \in Topics, author'[x].step = "adding",
                 author'[x].on \notin muddled', There(i)', topic'[i].syllabus = author'[x].on
          PROVE  topic'[i].order < author'[x].base
      BY <1>a, <2>2, <2>3, <3>3, LeadKept
    <3> QED
      BY <3>2, <3>3 DEF AddersLead
  <2>6. UpdatersSaw'
    BY <1>a, <2>1, <2>2, <2>3 DEF UpdatersSaw, There
  <2>7. TopicsInOrder' /\ CoveredHasItsDate'
    BY <1>a, <2>1, <2>3, OrderKept DEF CoveredHasItsDate
  <2> QED
    BY <2>4, <2>5, <2>6, <2>7 DEF TruthInv, SyllabusTellsTheTruth
<1>3. ASSUME NEW a \in Authors, NEW i \in Topics, ReadTopic(a, i)
      PROVE  TruthInv'
  <2>1. /\ author' = [author EXCEPT ![a] =
               [NoAuthor EXCEPT !.step = "updating", !.on = i, !.saw = topic[i].status]]
        /\ muddled' = IF Busy("updating", i) THEN muddled \cup {i} ELSE muddled
        /\ topic' = topic
    BY <1>3 DEF ReadTopic
  <2>2. /\ author'[a].step = "updating" /\ author'[a].on = i /\ author'[a].saw = topic[i].status
        /\ \A x \in Authors \ {a} : author'[x] = author[x]
    BY <2>1, <1>a DEF NoAuthor
  <2>3. muddled \subseteq muddled' /\ OrdersKept
    BY <2>1 DEF OrdersKept, There
  <2>4. AuthorsApart'
    <3>1. \A x \in Authors : x # a /\ author[x].step = "updating" /\ author[x].on = i => i \in muddled'
      BY <2>1 DEF Busy
    <3> QED
      BY <1>a, <2>2, <2>3, <3>1 DEF AuthorsApart
  <2>5. AddersLead'
    <3>1. ASSUME NEW x \in Authors, NEW o \in Topics, author'[x].step = "adding",
                 author'[x].on \notin muddled', There(o)', topic'[o].syllabus = author'[x].on
          PROVE  topic'[o].order < author'[x].base
      BY <1>a, <2>2, <2>3, <3>1, LeadKept
    <3> QED
      BY <3>1 DEF AddersLead
  <2>6. UpdatersSaw'
    BY <1>a, <2>1, <2>2, <2>3 DEF UpdatersSaw, There
  <2>7. TopicsInOrder' /\ CoveredHasItsDate'
    BY <1>a, <2>1, <2>3, OrderKept DEF CoveredHasItsDate
  <2> QED
    BY <2>4, <2>5, <2>6, <2>7 DEF TruthInv, SyllabusTellsTheTruth
<1>4. ASSUME NEW a \in Authors, author' = [author EXCEPT ![a] = NoAuthor], OrdersKept,
             muddled \subseteq muddled'
      PROVE  AuthorsApart' /\ AddersLead' /\ TopicsInOrder'
  <2>1. author'[a] = NoAuthor /\ \A x \in Authors \ {a} : author'[x] = author[x]
    BY <1>4, <1>a
  <2>2. AuthorsApart'
    BY <1>4, <1>a, <2>1, ApartKept
  <2>3. ASSUME NEW x \in Authors, NEW i \in Topics, author'[x].step = "adding",
               author'[x].on \notin muddled', There(i)', topic'[i].syllabus = author'[x].on
        PROVE  topic'[i].order < author'[x].base
    BY <1>4, <1>a, <1>b, <2>1, <2>3, LeadKept
  <2> QED
    BY <1>4, <1>a, <2>2, <2>3, OrderKept DEF AddersLead
<1>5. ASSUME NEW a \in Authors, DropAuthor(a)
      PROVE  TruthInv'
  <2>1. /\ author' = [author EXCEPT ![a] = NoAuthor] /\ UNCHANGED <<topic, muddled>>
    BY <1>5 DEF DropAuthor
  <2>2. AuthorsApart' /\ AddersLead' /\ TopicsInOrder'
    BY <1>4, <2>1 DEF OrdersKept, There
  <2>3. \A x \in Authors : author'[x] = author[x] \/ author'[x] = NoAuthor
    BY <1>a, <2>1
  <2>4. UpdatersSaw' /\ CoveredHasItsDate'
    BY <1>a, <1>b, <2>1, <2>3 DEF UpdatersSaw, CoveredHasItsDate, There
  <2> QED
    BY <2>2, <2>4 DEF TruthInv, SyllabusTellsTheTruth
<1>6. ASSUME NEW i \in Topics, RemoveTopic(i)
      PROVE  TruthInv'
  <2>1. topic' = [topic EXCEPT ![i] = NoTopic] /\ UNCHANGED <<author, muddled>>
    BY <1>6 DEF RemoveTopic
  <2>2. \A o \in Topics : IF o = i THEN topic'[o] = NoTopic ELSE topic'[o] = topic[o]
    BY <2>1
  <2>3. OrdersKept
    BY <2>2 DEF OrdersKept, There
  <2>4. AddersLead'
    BY <1>a, <2>1, <2>3, LeadKept DEF AddersLead
  <2>5. AuthorsApart' /\ TopicsInOrder'
    BY <1>a, <2>1, <2>3, OrderKept DEF AuthorsApart
  <2>6. UpdatersSaw'
    BY <1>a, <2>1, <2>2 DEF UpdatersSaw, There
  <2>7. CoveredHasItsDate'
    BY <1>a, <2>1, <2>2 DEF CoveredHasItsDate, NoTopic
  <2> QED
    BY <2>4, <2>5, <2>6, <2>7 DEF TruthInv, SyllabusTellsTheTruth
<1>7. ASSUME NEW a \in Authors, NEW status \in TopicStatuses, WriteStatus(a, status)
      PROVE  TruthInv'
  <2>1. PICK i \in Topics : i = author[a].on /\ author[a] \in UpdatingRequests /\ There(i) /\ topic[i] \in TopicRows
    BY <1>7 DEF WriteStatus, UpdatingRequests
  <2>2. /\ topic' = [topic EXCEPT ![i] = [topic[i] EXCEPT !.status = status, !.dated = DateOf(a, status)]]
        /\ author' = [author EXCEPT ![a] = NoAuthor]
        /\ muddled' = muddled
    BY <1>7, <2>1 DEF WriteStatus
  <2>3. /\ topic'[i].syllabus = topic[i].syllabus /\ topic'[i].order = topic[i].order
        /\ topic'[i].status = status /\ topic'[i].dated = DateOf(a, status)
    BY <2>1, <2>2 DEF TopicRows
  <2>4. \A o \in Topics : o # i => topic'[o] = topic[o]
    BY <2>2
  <2>5. OrdersKept
    BY <2>1, <2>3, <2>4 DEF OrdersKept, There
  <2>6. AuthorsApart' /\ AddersLead' /\ TopicsInOrder'
    BY <1>4, <2>2, <2>5
  <2>7. UpdatersSaw'
    <3>1. \A x \in Authors : x # a /\ author[x].step = "updating" /\ author[x].on = i => i \in muddled
      BY <1>a, <2>1 DEF AuthorsApart
    <3>2. \A x \in Authors : IF x = a THEN author'[x] = NoAuthor ELSE author'[x] = author[x]
      BY <1>a, <2>2
    <3> QED
      BY <1>a, <1>b, <2>2, <2>4, <3>1, <3>2 DEF UpdatersSaw, There
  <2>8. CoveredHasItsDate'
    <3>1. i \notin muddled => author[a].saw = topic[i].status /\ (topic[i].dated <=> topic[i].status = "COMPLETED")
      BY <1>a, <2>1 DEF UpdatersSaw, CoveredHasItsDate
    <3>2. i \notin muddled => (topic'[i].dated <=> topic'[i].status = "COMPLETED")
      BY <2>1, <2>3, <3>1 DEF DateOf
    <3> QED
      BY <1>a, <2>2, <2>4, <3>2 DEF CoveredHasItsDate
  <2> QED
    BY <2>6, <2>7, <2>8 DEF TruthInv, SyllabusTellsTheTruth
<1>8. ASSUME NEW a \in Authors, NEW title \in Titles, WriteTitle(a, title)
      PROVE  TruthInv'
  <2>1. PICK i \in Topics : i = author[a].on /\ author[a] \in UpdatingRequests /\ There(i) /\ topic[i] \in TopicRows
    BY <1>8 DEF WriteTitle, UpdatingRequests
  <2>2. /\ topic' = [topic EXCEPT ![i] = [topic[i] EXCEPT !.title = title]]
        /\ author' = [author EXCEPT ![a] = NoAuthor]
        /\ muddled' = muddled
    BY <1>8, <2>1 DEF WriteTitle
  <2>3. \A o \in Topics : /\ topic'[o].syllabus = topic[o].syllabus /\ topic'[o].order = topic[o].order
                          /\ topic'[o].status = topic[o].status /\ topic'[o].dated = topic[o].dated
    BY <2>1, <2>2 DEF TopicRows
  <2>4. \A o \in Topics : There(o)' => There(o)
    BY <2>1, <2>2 DEF There
  <2>5. OrdersKept
    BY <2>3, <2>4 DEF OrdersKept
  <2>6. AuthorsApart' /\ AddersLead' /\ TopicsInOrder'
    BY <1>4, <2>2, <2>5
  <2>7. UpdatersSaw' /\ CoveredHasItsDate'
    <3>1. \A x \in Authors : author'[x] = author[x] \/ author'[x] = NoAuthor
      BY <1>a, <2>2
    <3> QED
      BY <1>a, <1>b, <2>2, <2>3, <2>4, <3>1 DEF UpdatersSaw, CoveredHasItsDate
  <2> QED
    BY <2>6, <2>7 DEF TruthInv, SyllabusTellsTheTruth
<1>9. ASSUME NEW a \in Authors, NEW order \in 0..MaxOrder, WriteOrder(a, order)
      PROVE  TruthInv'
  <2>1. PICK i \in Topics : i = author[a].on /\ author[a] \in UpdatingRequests /\ There(i) /\ topic[i] \in TopicRows
    BY <1>9 DEF WriteOrder, UpdatingRequests
  <2>2. PICK k : k = topic[i].syllabus
    OBVIOUS
  <2>3. /\ topic' = [topic EXCEPT ![i] = [topic[i] EXCEPT !.order = order]]
        /\ author' = [author EXCEPT ![a] = NoAuthor]
        /\ muddled' = muddled \cup {k}
    BY <1>9, <2>1, <2>2 DEF WriteOrder
  <2>4. \A o \in Topics : /\ topic'[o].syllabus = topic[o].syllabus
                          /\ topic[o].syllabus # k => topic'[o].order = topic[o].order
                          /\ topic'[o].status = topic[o].status /\ topic'[o].dated = topic[o].dated
    BY <2>1, <2>2, <2>3 DEF TopicRows
  <2>5. \A o \in Topics : There(o)' => There(o)
    BY <2>1, <2>3 DEF There
  <2>6. \A x \in Authors : author'[x] = author[x] \/ author'[x] = NoAuthor
    BY <1>a, <2>3
  <2>7. AuthorsApart'
    BY <1>a, <2>3, <2>6, ApartKept
  <2>8. AddersLead'
    <3> SUFFICES ASSUME NEW x \in Authors, NEW o \in Topics, author'[x].step = "adding",
                        author'[x].on \notin muddled', There(o)', topic'[o].syllabus = author'[x].on
                 PROVE  topic'[o].order < author'[x].base
      BY DEF AddersLead
    <3>1. author'[x] = author[x] /\ author[x].on # k /\ author[x].on \notin muddled
      BY <1>b, <2>3, <2>6
    <3>2. There(o) /\ topic[o].syllabus = author[x].on /\ topic'[o].order = topic[o].order
      BY <2>4, <2>5, <3>1
    <3> QED
      BY <1>a, <3>1, <3>2 DEF AddersLead
  <2>9. UpdatersSaw' /\ CoveredHasItsDate'
    BY <1>a, <1>b, <2>3, <2>4, <2>5, <2>6 DEF UpdatersSaw, CoveredHasItsDate
  <2>10. TopicsInOrder'
    BY <1>a, <2>3, <2>4, <2>5 DEF TopicsInOrder
  <2> QED
    BY <2>7, <2>8, <2>9, <2>10 DEF TruthInv, SyllabusTellsTheTruth
<1>10. ASSUME NEW a \in Authors, NEW titles \in Batches, CreateTopics(a, titles)
       PROVE  TruthInv'
  <2>1. PICK k, fresh, base : k = author[a].on /\ fresh = Fresh(k, titles) /\ base = author[a].base
    OBVIOUS
  <2> DEFINE New(i, j) == /\ i = entered + Place(fresh, j)
                          /\ i \in (entered + 1)..entered'
                          /\ topic'[i] = NewRow(k, base, titles, j)
  <2>2. /\ author[a] \in Adding
        /\ fresh \subseteq Nat \ {0} /\ IsFiniteSet(fresh)
        /\ \A i \in Topics : topic'[i] = topic[i] \/ \E j \in fresh : New(i, j)
    BY <1>10, <2>1, BatchEntered
  <2>3. author' = [author EXCEPT ![a] = NoAuthor] /\ muddled' = muddled
    BY <1>10 DEF CreateTopics
  <2>4. base \in Nat /\ k \in Syllabi
    BY <2>1, <2>2 DEF Adding
  <2>5. \A i \in Topics, j \in fresh : New(i, j) =>
          /\ topic'[i].syllabus = k /\ topic'[i].order = base + j - 1
          /\ topic'[i].status # "COMPLETED" /\ topic'[i].dated = FALSE
          /\ i > entered
    BY DEF NewRow, Topics
  <2>6. \A i \in Topics : There(i) => i <= entered
    BY DEF LessonShape, LessonTypeOK
  <2>7. \A x \in Authors : author'[x] = author[x] \/ author'[x] = NoAuthor
    BY <1>a, <2>3
  <2>8. \A x \in Authors : x # a /\ author[x].step = "adding" /\ author[x].on = k => k \in muddled
    BY <1>a, <2>1, <2>2 DEF AuthorsApart, Adding
  <2>9. k \notin muddled => \A i \in Topics : There(i) /\ topic[i].syllabus = k => topic[i].order < base
    BY <1>a, <2>1, <2>2 DEF AddersLead, Adding
  <2>10. AuthorsApart'
    BY <1>a, <2>3, <2>7, ApartKept
  <2>11. AddersLead'
    <3> SUFFICES ASSUME NEW x \in Authors, NEW o \in Topics, author'[x].step = "adding",
                        author'[x].on \notin muddled', There(o)', topic'[o].syllabus = author'[x].on
                 PROVE  topic'[o].order < author'[x].base
      BY DEF AddersLead
    <3>1. author'[x] = author[x] /\ x # a
      BY <1>a, <1>b, <2>3, <2>7
    <3>2. author[x].on # k /\ author[x].on \notin muddled
      BY <2>3, <2>8, <3>1
    <3>3. topic'[o] = topic[o]
      BY <2>2, <2>5, <3>1, <3>2
    <3> QED
      BY <1>a, <3>1, <3>2, <3>3 DEF AddersLead, There
  <2>12. UpdatersSaw'
    <3> SUFFICES ASSUME NEW x \in Authors, NEW i \in Topics, author'[x].step = "updating",
                        author'[x].on = i, i \notin muddled', There(i)'
                 PROVE  author'[x].saw = topic'[i].status
      BY DEF UpdatersSaw
    <3>1. author'[x] = author[x] /\ author[x] \in UpdatingRequests
      BY <1>b, <2>7
    <3>2. i <= entered
      BY <3>1
    <3>3. topic'[i] = topic[i]
      BY <2>2, <2>5, <3>2 DEF Topics
    <3> QED
      BY <1>a, <2>3, <3>1, <3>3 DEF UpdatersSaw, There
  <2>13. CoveredHasItsDate'
    BY <1>a, <2>2, <2>3, <2>5 DEF CoveredHasItsDate
  <2>14. TopicsInOrder'
    <3> SUFFICES ASSUME NEW i \in Topics, NEW o \in Topics, i < o, There(i)', There(o)',
                        topic'[i].syllabus = topic'[o].syllabus, topic'[i].syllabus \notin muddled
                 PROVE  topic'[i].order < topic'[o].order
      BY <2>3 DEF TopicsInOrder
    <3>1. CASE topic'[i] = topic[i] /\ topic'[o] = topic[o]
      BY <1>a, <3>1 DEF TopicsInOrder, There
    <3>2. ASSUME topic'[i] = topic[i], NEW h \in fresh, New(o, h)
          PROVE  topic'[i].order < topic'[o].order
      <4>1. There(i) /\ topic[i].syllabus = k /\ k \notin muddled
        BY <2>5, <3>2 DEF There
      <4>2. topic[i].order < base /\ topic[i].order \in Nat
        BY <2>9, <4>1 DEF TopicRows
      <4>3. topic'[o].order = base + h - 1 /\ h \in Nat \ {0}
        BY <2>2, <2>5, <3>2
      <4> QED
        BY <2>4, <3>2, <4>2, <4>3
    <3>3. ASSUME topic'[o] = topic[o], NEW j \in fresh, New(i, j)
          PROVE  FALSE
      <4>1. o <= entered /\ i > entered
        BY <2>5, <2>6, <3>3 DEF There
      <4> QED
        BY <4>1 DEF Topics
    <3>4. ASSUME NEW j \in fresh, New(i, j), NEW h \in fresh, New(o, h)
          PROVE  topic'[i].order < topic'[o].order
      <4>1. j \in Nat /\ h \in Nat /\ Place(fresh, j) \in Nat /\ Place(fresh, h) \in Nat
        <5>1. fresh \subseteq Nat /\ IsFiniteSet(fresh)
          BY <2>2
        <5>2. \A x \in fresh : Place(fresh, x) \in 1..Cardinality(fresh)
          BY <5>1, PlaceBounds
        <5>3. Cardinality(fresh) \in Nat
          BY <5>1, FS_CardinalityType
        <5> QED
          BY <5>1, <5>2, <5>3
      <4>2. Place(fresh, j) < Place(fresh, h)
        BY <3>4, <4>1
      <4>3. h < j => Place(fresh, h) < Place(fresh, j)
        BY <2>2, PlaceGrows
      <4>4. j < h
        BY <4>1, <4>2, <4>3
      <4> QED
        BY <2>4, <2>5, <3>4, <4>1, <4>4
    <3> QED
      BY <2>2, <3>1, <3>2, <3>3, <3>4
  <2> QED
    BY <2>10, <2>11, <2>12, <2>13, <2>14 DEF TruthInv, SyllabusTellsTheTruth
<1>11. CASE PlanNext
  BY <1>1, <1>11 DEF PlanNext, DropPeriod, CheckTargets, WritePlan, DropPlanner, RemovePlan
<1>12. CASE UNCHANGED lessonVars
  BY <1>1, <1>12 DEF lessonVars
<1> QED
  BY <1>2, <1>3, <1>5, <1>6, <1>7, <1>8, <1>9, <1>10, <1>11, <1>12 DEF LessonNext, SyllabusNext

(* A syllabus lists its topics in the order in which they were entered and *)
(* dates those that are covered, however many requests add, update and     *)
(* remove at once, for all but the syllabi ordered by hand or entered in   *)
(* two sittings that overlapped, and the topics updated twice at once.     *)
THEOREM SyllabusTellsTheTruthAlways == LessonSpec => []SyllabusTellsTheTruth
<1>1. LessonInit => TruthInv
  BY DEF LessonInit, TruthInv, AuthorsApart, AddersLead, UpdatersSaw, SyllabusTellsTheTruth, TopicsInOrder,
     CoveredHasItsDate, There, TopicsOf, NoAuthor, NoTopic
<1>2. TruthInv => SyllabusTellsTheTruth
  BY DEF TruthInv
<1> QED
  BY <1>1, <1>2, LessonShapeHolds, TruthStep, PTL DEF LessonSpec

------------------------------------------------------------------------------
(***************************************************************************)
(* Marks, ranks and report cards.                                          *)
(***************************************************************************)
GradeRows ==
  [class : GClasses, obtained : Nat, max : Nat, comment : {"none", "said", "drafted"}]
GradesTyped == grade \in [Pupils -> [Cells -> GradeRows \cup {NoGrade}]]

LEMMA RowsMarked ==
  ASSUME GradesTyped
  PROVE  /\ NoGrade \notin GradeRows
         /\ \A s \in Pupils, x \in Cells : Marked(s, x) <=> grade[s][x] \in GradeRows
<1>1. NoGrade \notin GradeRows
  BY GradebookAssumption DEF NoGrade, GradeRows
<1> QED
  BY <1>1 DEF Marked, GradesTyped

(* Sums are numbers: a student has finitely many marks. *)
LEMMA SumIsNat ==
  ASSUME GradesTyped, NEW s \in Pupils, NEW c, NEW X \in SUBSET Cells,
         NEW field \in {"obtained", "max"}
  PROVE  SumIn(s, c, X, field) \in Nat
<1> DEFINE In == Counted(s, c, X)
           f == [x \in In |-> {x} \X (1..grade[s][x][field])]
<1>1. IsFiniteSet(In) /\ In \subseteq Cells
  BY GradebookAssumption, FS_Subset DEF Counted
<1>2. ASSUME NEW x \in In
      PROVE  IsFiniteSet(f[x])
  <2>1. grade[s][x][field] \in Nat
    BY <1>1, RowsMarked DEF GradeRows, Counted
  <2>2. IsFiniteSet(1..grade[s][x][field]) /\ IsFiniteSet({x})
    BY <2>1, PrefixFinite, FS_Singleton
  <2> QED
    BY <2>2, FS_Product
<1>3. DOMAIN f = In
  OBVIOUS
<1>4. SumIn(s, c, X, field) = Cardinality(UNION {f[x] : x \in In})
  BY DEF SumIn
<1> HIDE DEF f
<1> HIDE DEF In
<1>5. IsFiniteSet({f[x] : x \in In})
  BY <1>1, <1>3, ImageFinite
<1>6. IsFiniteSet(UNION {f[x] : x \in In})
  BY <1>2, <1>5, FS_UNION
<1> QED
  BY <1>4, <1>6, FS_CardinalityType

LEMMA PercentagesTyped ==
  ASSUME GradesTyped, NEW s \in Pupils, NEW c, NEW X \in SUBSET Cells
  PROVE  Earned(s, c, X) \in Nat /\ Possible(s, c, X) \in Nat \ {0}
BY SumIsNat DEF Earned, Possible

(* Comparing fractions by cross multiplication is a weak order. *)
LEMMA CrossOrder ==
  ASSUME NEW a \in Nat, NEW x \in Nat \ {0}, NEW b \in Nat, NEW y \in Nat \ {0},
         NEW c \in Nat, NEW z \in Nat \ {0}, ~ (a * y > b * x)
  PROVE  /\ a * z > c * x => b * z > c * y
         /\ c * y > b * z => c * x > a * z
OBVIOUS

LEMMA AheadOrder ==
  ASSUME GradesTyped, NEW r \in Pupils, NEW s \in Pupils, NEW t \in Pupils, NEW c,
         NEW X \in SUBSET Cells
  PROVE  /\ ~Ahead(r, r, c, X)
         /\ ~Ahead(r, s, c, X) /\ Ahead(r, t, c, X) => Ahead(s, t, c, X)
         /\ ~Ahead(r, s, c, X) /\ Ahead(t, s, c, X) => Ahead(t, r, c, X)
         /\ Ahead(r, s, c, X) => ~Ahead(s, r, c, X)
<1>1. /\ Earned(r, c, X) \in Nat /\ Possible(r, c, X) \in Nat \ {0}
      /\ Earned(s, c, X) \in Nat /\ Possible(s, c, X) \in Nat \ {0}
      /\ Earned(t, c, X) \in Nat /\ Possible(t, c, X) \in Nat \ {0}
  BY PercentagesTyped
<1>2. /\ Earned(r, c, X) * Possible(r, c, X) \in Nat
      /\ Earned(r, c, X) * Possible(s, c, X) \in Nat /\ Earned(s, c, X) * Possible(r, c, X) \in Nat
  BY <1>1
<1>3. ~Ahead(r, r, c, X) /\ (Ahead(r, s, c, X) => ~Ahead(s, r, c, X))
  BY <1>2 DEF Ahead
<1>4. /\ ~Ahead(r, s, c, X) /\ Ahead(r, t, c, X) => Ahead(s, t, c, X)
      /\ ~Ahead(r, s, c, X) /\ Ahead(t, s, c, X) => Ahead(t, r, c, X)
  <2> DEFINE a == Earned(r, c, X)
             x == Possible(r, c, X)
             b == Earned(s, c, X)
             y == Possible(s, c, X)
             d == Earned(t, c, X)
             z == Possible(t, c, X)
  <2>1. a \in Nat /\ x \in Nat \ {0} /\ b \in Nat /\ y \in Nat \ {0} /\ d \in Nat /\ z \in Nat \ {0}
    BY <1>1
  <2>2. ~ (a * y > b * x) => (a * z > d * x => b * z > d * y) /\ (d * y > b * z => d * x > a * z)
    <3> HIDE DEF a, x, b, y, d, z
    <3> QED
      BY <2>1, CrossOrder
  <2> QED
    BY <2>2 DEF Ahead
<1> QED
  BY <1>3, <1>4

(* A sorting lists everyone with marks once. *)
LEMMA SortingShape ==
  ASSUME GradesTyped, NEW c, NEW X \in SUBSET Cells, NEW q \in Sortings(c, X)
  PROVE  /\ IsFiniteSet(MarkedIn(c, X)) /\ MarkedIn(c, X) \subseteq Pupils
         /\ DOMAIN q = 1..Cardinality(MarkedIn(c, X)) /\ Cardinality(MarkedIn(c, X)) \in Nat
         /\ \A i \in DOMAIN q : q[i] \in MarkedIn(c, X)
         /\ \A i, j \in DOMAIN q : i # j => q[i] # q[j]
         /\ \A s \in MarkedIn(c, X) : \E i \in DOMAIN q : q[i] = s
         /\ \A i, j \in DOMAIN q : i < j => ~Ahead(q[j], q[i], c, X)
<1> DEFINE S == MarkedIn(c, X)
           D == 1..Cardinality(S)
<1>1. IsFiniteSet(S) /\ S \subseteq Pupils
  BY GradebookAssumption, FS_Subset DEF MarkedIn
<1>2. Cardinality(S) \in Nat
  BY <1>1, FS_CardinalityType
<1>3. q \in SetToSeqs(S) /\ \A i, j \in DOMAIN q : i < j => ~Ahead(q[j], q[i], c, X)
  BY DEF Sortings
<1>4. q \in [D -> S] /\ \A i, j \in D : i # j => q[i] # q[j]
  BY <1>3 DEF SetToSeqs
<1>5. q \in Injection(D, S)
  BY <1>4 DEF Injection, IsInjective
<1>6. IsFiniteSet(D) /\ Cardinality(D) = Cardinality(S)
  BY <1>2, PrefixFinite
<1>7. q \in Surjection(D, S)
  BY <1>1, <1>5, <1>6, FS_Injection
<1> QED
  BY <1>1, <1>2, <1>3, <1>4, <1>7 DEF Surjection

(* The places of a sorting that are ahead of place i: none of the first,   *)
(* all before i where the percentage changes, and those ahead of the place *)
(* before where it does not.                                               *)
AheadOf(q, i, c, X) == {j \in DOMAIN q : Ahead(q[j], q[i], c, X)}

LEMMA PlacesAhead ==
  ASSUME GradesTyped, NEW c, NEW X \in SUBSET Cells, NEW q \in Sortings(c, X), NEW i \in DOMAIN q
  PROVE  /\ AheadOf(q, i, c, X) \subseteq 1..(i - 1)
         /\ i # 1 => i - 1 \in DOMAIN q
         /\ i # 1 /\ Ahead(q[i - 1], q[i], c, X) => AheadOf(q, i, c, X) = 1..(i - 1)
         /\ i # 1 /\ ~Ahead(q[i - 1], q[i], c, X) => AheadOf(q, i, c, X) = AheadOf(q, i - 1, c, X)
<1> USE SortingShape
<1>1. /\ \A j \in DOMAIN q : j \in Nat /\ j >= 1 /\ q[j] \in Pupils
      /\ \A j \in DOMAIN q : \A h \in Nat : 1 <= h /\ h <= j => h \in DOMAIN q
  OBVIOUS
<1>2. ASSUME NEW j \in DOMAIN q, Ahead(q[j], q[i], c, X)
      PROVE  j \in 1..(i - 1)
  <2>1. ~Ahead(q[i], q[i], c, X)
    BY <1>1, AheadOrder
  <2>2. ~ (i < j) /\ i # j
    BY <1>2, <2>1
  <2> QED
    BY <1>1, <2>2
<1>3. i # 1 => i - 1 \in DOMAIN q
  BY <1>1
<1>4. ASSUME i # 1, Ahead(q[i - 1], q[i], c, X), NEW j \in 1..(i - 1)
      PROVE  j \in DOMAIN q /\ Ahead(q[j], q[i], c, X)
  <2>1. j \in DOMAIN q /\ i - 1 \in DOMAIN q
    BY <1>1, <1>3, <1>4
  <2>2. j = i - 1 \/ j < i - 1
    BY <1>1, <1>4
  <2>3. j < i - 1 => ~Ahead(q[i - 1], q[j], c, X)
    BY <2>1
  <2> QED
    BY <1>1, <1>4, <2>1, <2>2, <2>3, AheadOrder
<1>5. ASSUME i # 1, ~Ahead(q[i - 1], q[i], c, X), NEW j \in DOMAIN q
      PROVE  Ahead(q[j], q[i], c, X) <=> Ahead(q[j], q[i - 1], c, X)
  <2>1. i - 1 \in DOMAIN q /\ i - 1 < i
    BY <1>1, <1>3, <1>5
  <2>2. ~Ahead(q[i], q[i - 1], c, X)
    BY <2>1
  <2> QED
    BY <1>1, <1>5, <2>1, <2>2, AheadOrder
<1> QED
  BY <1>2, <1>3, <1>4, <1>5 DEF AheadOf

(* Those who are better are the students in the places ahead. *)
LEMMA BetterAreAhead ==
  ASSUME GradesTyped, NEW c, NEW X \in SUBSET Cells, NEW q \in Sortings(c, X), NEW i \in DOMAIN q
  PROVE  /\ Cardinality(Better(q[i], c, X)) = Cardinality(AheadOf(q, i, c, X))
         /\ IsFiniteSet(AheadOf(q, i, c, X)) /\ Cardinality(AheadOf(q, i, c, X)) \in 0..(i - 1)
<1> USE SortingShape
<1> DEFINE A == AheadOf(q, i, c, X)
           B == Better(q[i], c, X)
           f == [j \in A |-> q[j]]
<1>1. IsFiniteSet(B)
  BY FS_Subset DEF Better
<1>2. f \in Injection(A, B) /\ f \in Surjection(A, B)
  BY DEF AheadOf, Better, Injection, IsInjective, Surjection
<1>3. IsFiniteSet(A) /\ Cardinality(A) = Cardinality(B)
  BY <1>1, <1>2, FS_Injection
<1>4. i - 1 \in Nat /\ IsFiniteSet(1..(i - 1)) /\ Cardinality(1..(i - 1)) = i - 1
  BY PrefixFinite
<1>5. Cardinality(A) <= i - 1 /\ Cardinality(A) \in Nat
  BY <1>3, <1>4, PlacesAhead, FS_Subset, FS_CardinalityType
<1> QED
  BY <1>3, <1>4, <1>5

(* The scan computes one more than the number of places ahead: that        *)
(* satisfies its equation, and only one function on the places does.       *)
LEMMA RankListCounts ==
  ASSUME GradesTyped, NEW c, NEW X \in SUBSET Cells, NEW q \in Sortings(c, X)
  PROVE  RankList(q, c, X) = [i \in DOMAIN q |-> Cardinality(AheadOf(q, i, c, X)) + 1]
<1> DEFINE Scan(rank) ==
             [i \in DOMAIN q |-> IF i = 1 \/ Ahead(q[i - 1], q[i], c, X) THEN i
                                 ELSE IF i = 1 THEN 0 ELSE rank[i - 1]]
           count == [i \in DOMAIN q |-> Cardinality(AheadOf(q, i, c, X)) + 1]
<1>1. RankList(q, c, X) = CHOOSE rank : rank = Scan(rank)
  BY DEF RankList, RankAfter
<1>2. DOMAIN q \subseteq Nat
  BY SortingShape
<1>3. \A i \in DOMAIN q : Scan(count)[i] = count[i]
  <2> SUFFICES ASSUME NEW i \in DOMAIN q
               PROVE  Scan(count)[i] = count[i]
    OBVIOUS
  <2>1. CASE i = 1
    <3>1. AheadOf(q, i, c, X) = {}
      BY <2>1, PlacesAhead
    <3> QED
      BY <2>1, <3>1, FS_EmptySet
  <2>2. CASE i # 1 /\ Ahead(q[i - 1], q[i], c, X)
    <3>1. AheadOf(q, i, c, X) = 1..(i - 1) /\ i - 1 \in Nat
      BY <1>2, <2>2, PlacesAhead
    <3>2. Cardinality(AheadOf(q, i, c, X)) = i - 1
      BY <3>1, PrefixFinite
    <3> QED
      BY <1>2, <2>2, <3>2
  <2>3. CASE i # 1 /\ ~Ahead(q[i - 1], q[i], c, X)
    <3>1. AheadOf(q, i, c, X) = AheadOf(q, i - 1, c, X) /\ i - 1 \in DOMAIN q
      BY <2>3, PlacesAhead
    <3> QED
      BY <2>3, <3>1
  <2> QED
    BY <2>1, <2>2, <2>3
<1>4. count = Scan(count)
  BY <1>3
<1>5. ASSUME NEW rank, rank = Scan(rank)
      PROVE  rank = count
  <2> DEFINE Differ == {i \in DOMAIN q : rank[i] # count[i]}
  <2>1. Differ = {}
    <3> SUFFICES ASSUME Differ # {}
                 PROVE  FALSE
      OBVIOUS
    <3>1. Differ \subseteq Nat
      BY <1>2
    <3>2. PICK i \in Differ : \A j \in Differ : i <= j
      <4> HIDE DEF Differ
      <4> QED
        BY <3>1, LeastExists
    <3>3. i \in DOMAIN q /\ i \in Nat /\ rank[i] # count[i]
      BY <3>1, <3>2
    <3>4. rank[i] = Scan(rank)[i] /\ count[i] = Scan(count)[i]
      BY <1>3, <1>5, <3>3
    <3>5. i # 1 /\ rank[i - 1] # count[i - 1]
      BY <3>3, <3>4
    <3>6. i - 1 \in DOMAIN q /\ ~ (i <= i - 1)
      BY <3>3, <3>5, PlacesAhead
    <3>7. i - 1 \in Differ
      BY <3>5, <3>6
    <3> QED
      BY <3>2, <3>6, <3>7
  <2>2. \A i \in DOMAIN q : rank[i] = count[i]
    BY <2>1
  <2>3. rank = [i \in DOMAIN q |-> rank[i]]
    BY <1>5
  <2> QED
    BY <2>2, <2>3
<1> HIDE DEF count, Scan
<1>6. RankList(q, c, X) = count
  BY <1>1, <1>4, <1>5
<1> QED
  BY <1>6 DEF count

LEMMA RanksFair == GradesTyped => RanksAreFair
<1> SUFFICES ASSUME GradesTyped, NEW c \in GClasses, NEW e \in ExamTypes,
                    NEW q \in Sortings(c, CellsOf(e)), NEW i \in DOMAIN q
             PROVE  RankList(q, c, CellsOf(e))[i] = Cardinality(Better(q[i], c, CellsOf(e))) + 1
  BY DEF RanksAreFair
<1>1. PICK X \in SUBSET Cells : X = CellsOf(e)
  BY DEF CellsOf
<1>2. RankList(q, c, X)[i] = Cardinality(Better(q[i], c, X)) + 1
  BY <1>1, RankListCounts, BetterAreAhead
<1> QED
  BY <1>1, <1>2

(* The place of a student in a sorting is one of those its equals share.   *)
LEMMA PlaceAmongEquals ==
  ASSUME GradesTyped, NEW c, NEW X \in SUBSET Cells, NEW q \in Sortings(c, X), NEW i \in DOMAIN q
  PROVE  i \in Cardinality(Better(q[i], c, X)) + 1 ..
               Cardinality(Better(q[i], c, X)) + Cardinality(Equals(q[i], c, X))
<1> USE SortingShape
<1> DEFINE B == Better(q[i], c, X)
           E == Equals(q[i], c, X)
           f == [j \in 1..i |-> q[j]]
<1>1. /\ IsFiniteSet(B) /\ IsFiniteSet(E) /\ IsFiniteSet(B \cup E)
      /\ Cardinality(B) \in Nat /\ Cardinality(E) \in Nat /\ Cardinality(B \cap E) \in Nat
      /\ Cardinality(B \cup E) = Cardinality(B) + Cardinality(E) - Cardinality(B \cap E)
  <2>1. IsFiniteSet(B) /\ IsFiniteSet(E) /\ IsFiniteSet(B \cap E)
    BY FS_Subset DEF Better, Equals
  <2> QED
    BY <2>1, FS_Union, FS_CardinalityType
<1>2. \A j \in 1..i : j \in DOMAIN q /\ q[j] \in B \cup E
  <2> SUFFICES ASSUME NEW j \in 1..i
               PROVE  j \in DOMAIN q /\ q[j] \in B \cup E
    OBVIOUS
  <2>1. j \in DOMAIN q /\ (j = i \/ j < i)
    OBVIOUS
  <2>2. ~Ahead(q[i], q[j], c, X)
    BY <2>1, AheadOrder
  <2> QED
    BY <2>1, <2>2 DEF Better, Equals
<1>3. f \in Injection(1..i, B \cup E)
  BY <1>2 DEF Injection, IsInjective
<1>4. i \in Nat /\ Cardinality(1..i) = i
  BY PrefixFinite
<1>5. i <= Cardinality(B \cup E)
  BY <1>1, <1>3, <1>4, FS_Injection
<1>6. Cardinality(B) <= i - 1
  BY BetterAreAhead
<1> QED
  BY <1>1, <1>4, <1>5, <1>6

(* A student's row is in the shape of rows once it is one. *)
LEMMA GradebookTypeInit == GradebookInit => GradebookTypeOK
<1> SUFFICES ASSUME GradebookInit
             PROVE  GradebookTypeOK
  OBVIOUS
<1> USE DEF GradebookInit, NoCard, NoMarker, NoBatch
<1>1. grade \in [Pupils -> [Cells -> GradeRows \cup {NoGrade}]]
  OBVIOUS
<1> QED
  BY <1>1 DEF GradebookTypeOK, GradeRows

LEMMA RowStaysMarked ==
  ASSUME GradebookTypeOK, NEW s \in Pupils, NEW x \in Cells, NEW row \in GradeRows,
         grade' = [grade EXCEPT ![s][x] = row]
  PROVE  /\ grade' \in [Pupils -> [Cells -> GradeRows \cup {NoGrade}]]
         /\ \A t \in Pupils, y \in Cells :
               grade'[t][y] = IF t = s /\ y = x THEN row ELSE grade[t][y]
         /\ \A t \in Pupils, y \in Cells : Marked(t, y) => Marked(t, y)'
<1>1. GradesTyped
  BY DEF GradebookTypeOK, GradesTyped, GradeRows
<1>2. /\ grade' \in [Pupils -> [Cells -> GradeRows \cup {NoGrade}]]
      /\ \A t \in Pupils, y \in Cells :
            grade'[t][y] = IF t = s /\ y = x THEN row ELSE grade[t][y]
  BY <1>1 DEF GradesTyped
<1>3. NoGrade \notin GradeRows
  BY <1>1, RowsMarked
<1> QED
  BY <1>2, <1>3 DEF Marked

LEMMA PositionTyped ==
  ASSUME GradesTyped, NEW c, NEW X \in SUBSET Cells, NEW q \in Sortings(c, X), NEW s
  PROVE  /\ PositionIn(q, s) \in Nat \cup {NoOne} /\ Len(q) = Cardinality(MarkedIn(c, X))
         /\ Len(q) \in Nat
         /\ s \in MarkedIn(c, X) => PositionIn(q, s) \in DOMAIN q /\ q[PositionIn(q, s)] = s
         /\ s \notin MarkedIn(c, X) => PositionIn(q, s) = NoOne
<1> USE SortingShape
<1>1. Len(q) = Cardinality(MarkedIn(c, X))
  <2>1. PICK n \in Nat : n = Cardinality(MarkedIn(c, X))
    OBVIOUS
  <2>2. q \in [1..n -> MarkedIn(c, X)]
    BY <2>1 DEF Sortings, SetToSeqs
  <2>3. q \in Seq(MarkedIn(c, X))
    BY <2>2
  <2> QED
    BY <2>1, <2>2, <2>3
<1> QED
  BY <1>1 DEF PositionIn

LEMMA MarkKeepsShape ==
  ASSUME GradebookTypeOK, NEW s \in Pupils, NEW x \in Cells, NEW c \in GClasses,
         NEW score \in Scores, NEW said \in {"none", "said"}, WriteMark(s, x, c, score, said)
  PROVE  /\ grade' \in [Pupils -> [Cells -> GradeRows \cup {NoGrade}]]
         /\ outdated' \subseteq Pupils
         /\ comment' = comment /\ comment # NoComment => Marked(comment.pupil, comment.cell)'
<1> DEFINE row == [class |-> IF Marked(s, x) THEN grade[s][x].class ELSE c,
                   obtained |-> score[1], max |-> score[2],
                   comment |-> IF said = "none" THEN grade[s][x].comment ELSE said]
<1>1. grade[s][x] \in GradeRows \cup {NoGrade}
  BY DEF GradebookTypeOK, GradeRows
<1>2. row \in GradeRows
  <2>1. score[1] \in Nat /\ score[2] \in Nat
    BY GradebookAssumption
  <2>2. Marked(s, x) => grade[s][x].class \in GClasses
    BY <1>1 DEF Marked, GradeRows
  <2>3. grade[s][x].comment \in {"none", "said", "drafted"}
    BY <1>1 DEF NoGrade, GradeRows
  <2> QED
    BY <2>1, <2>2, <2>3 DEF GradeRows
<1>3. grade' = [grade EXCEPT ![s][x] = row] /\ outdated' \subseteq Pupils
  BY DEF WriteMark
<1>4. PICK r \in GradeRows : grade' = [grade EXCEPT ![s][x] = r]
  BY <1>2, <1>3
<1>5. /\ grade' \in [Pupils -> [Cells -> GradeRows \cup {NoGrade}]]
      /\ \A t \in Pupils, y \in Cells : Marked(t, y) => Marked(t, y)'
  BY <1>4, RowStaysMarked
<1>6. comment # NoComment => /\ comment.pupil \in Pupils /\ comment.cell \in Cells
                            /\ Marked(comment.pupil, comment.cell)
  BY DEF GradebookTypeOK
<1>7. comment' = comment /\ comment # NoComment => Marked(comment.pupil, comment.cell)'
  BY <1>5, <1>6
<1> QED
  BY <1>3, <1>5, <1>7

LEMMA GradebookTypeStep == GradebookTypeOK /\ [GradebookNext]_gradebookVars => GradebookTypeOK'
<1> SUFFICES ASSUME GradebookTypeOK, [GradebookNext]_gradebookVars
             PROVE  GradebookTypeOK'
  OBVIOUS
<1> USE DEF GradeRows
<1>t. GradesTyped
  BY DEF GradebookTypeOK, GradesTyped
<1>n. NoOne \notin GClasses
  BY GradebookAssumption
<1>1. ASSUME NEW m \in Markers, NEW s \in Pupils, FindPupil(m, s)
      PROVE  GradebookTypeOK'
  <2>1. marker' \in [Markers -> [pupil : Pupils, class : GClasses] \cup {NoMarker}]
    BY <1>1 DEF FindPupil, GradebookTypeOK
  <2> QED
    BY <1>1, <2>1 DEF FindPupil, GradebookTypeOK, Marked
<1>2. ASSUME NEW m \in Markers, NEW x \in Cells, NEW score \in Scores, NEW said \in {"none", "said"},
             UpsertGrade(m, x, score, said)
      PROVE  GradebookTypeOK'
  <2>1. marker[m] \in [pupil : Pupils, class : GClasses]
    BY <1>2 DEF UpsertGrade, GradebookTypeOK
  <2>2. PICK s \in Pupils, c \in GClasses : marker[m].pupil = s /\ marker[m].class = c
    BY <2>1
  <2>3. WriteMark(s, x, c, score, said)
    BY <1>2, <2>2 DEF UpsertGrade
  <2>4. marker' \in [Markers -> [pupil : Pupils, class : GClasses] \cup {NoMarker}]
    BY <1>2 DEF UpsertGrade, GradebookTypeOK
  <2> QED
    BY <1>2, <2>3, <2>4, MarkKeepsShape DEF UpsertGrade, GradebookTypeOK, Marked
<1>10. ASSUME NEW s \in Pupils, NEW x \in Cells, NEW c \in GClasses, NEW score \in Scores,
              SyncGradebook(s, x, c, score)
       PROVE  GradebookTypeOK'
  <2>1. WriteMark(s, x, c, score, "none")
    BY <1>10 DEF SyncGradebook
  <2> QED
    BY <1>10, <2>1, MarkKeepsShape DEF SyncGradebook, GradebookTypeOK, Marked
<1>3. ASSUME NEW s \in Pupils, NEW c \in GClasses, AssignClass(s, c)
      PROVE  GradebookTypeOK'
  BY <1>3 DEF AssignClass, GradebookTypeOK, Marked
<1>4. ASSUME NEW s \in Pupils, NEW x \in Cells, AskForComment(s, x)
      PROVE  GradebookTypeOK'
  BY <1>4 DEF AskForComment, OnRow, GradebookTypeOK, Marked
<1>5. ASSUME WriteComment
      PROVE  GradebookTypeOK'
  <2>1. grade' \in [Pupils -> [Cells -> GradeRows \cup {NoGrade}]]
    <3>1. CASE UNCHANGED grade
      BY <3>1 DEF GradebookTypeOK
    <3>2. CASE grade' = [grade EXCEPT ![comment.pupil][comment.cell].comment = "drafted"]
      <4>1. PICK s \in Pupils, x \in Cells : comment = [pupil |-> s, cell |-> x]
        BY <1>5 DEF WriteComment, GradebookTypeOK
      <4>2. Marked(s, x)
        BY <1>5, <4>1 DEF WriteComment, GradebookTypeOK
      <4>3. grade[s][x] \in GradeRows
        BY <1>t, <4>2, RowsMarked
      <4>4. grade' = [grade EXCEPT ![s][x].comment = "drafted"]
        BY <3>2, <4>1
      <4>5. PICK row \in GradeRows : grade' = [grade EXCEPT ![s][x] = row]
        <5>1. [grade[s][x] EXCEPT !.comment = "drafted"] \in GradeRows
          BY <4>3
        <5> QED
          BY <4>4, <5>1
      <4> QED
        BY <4>5, RowStaysMarked
    <3> QED
      BY <1>5, <3>1, <3>2 DEF WriteComment
  <2> QED
    BY <1>5, <2>1 DEF WriteComment, GradebookTypeOK, NoComment
<1>b. NoBatch.pupil = NoOne /\ NoBatch.read = NoOne /\ NoBatch.left = {}
  BY DEF NoBatch
<1>6. ASSUME NEW c \in GClasses, BeginBatch(c)
      PROVE  GradebookTypeOK'
  <2>1. MarkedIn(c, CellsOfTerm) \in SUBSET Pupils
    BY DEF MarkedIn
  <2>2. batch' \in [class : GClasses, left : SUBSET Pupils, pupil : Pupils \cup {NoOne},
                    read : GClasses \cup {NoOne}]
    BY <1>6, <2>1 DEF BeginBatch, NoBatch
  <2> QED
    BY <1>6, <2>2 DEF BeginBatch, GradebookTypeOK, Marked
<1>7. ASSUME NEW s \in Pupils, ReadPupil(s)
      PROVE  GradebookTypeOK'
  <2>1. batch' = [batch EXCEPT !.pupil = s, !.read = classOf[s], !.left = @ \ {s}] /\ batch # NoBatch
    BY <1>7, <1>b DEF ReadPupil
  <2>2. batch' \in [class : GClasses, left : SUBSET Pupils, pupil : Pupils \cup {NoOne},
                    read : GClasses \cup {NoOne}]
    BY <2>1 DEF GradebookTypeOK
  <2> QED
    BY <1>7, <2>2 DEF ReadPupil, GradebookTypeOK, Marked
<1>11. ASSUME MakeCard
       PROVE  GradebookTypeOK'
  <2>1. /\ batch \in [class : GClasses, left : SUBSET Pupils, pupil : Pupils \cup {NoOne},
                      read : GClasses \cup {NoOne}]
        /\ batch.pupil \in Pupils
    BY <1>11, <1>b DEF MakeCard, GradebookTypeOK
  <2>2. PICK s \in Pupils, c \in GClasses \cup {NoOne} : s = batch.pupil /\ c = batch.read
    BY <2>1
  <2>3. PICK q \in IF c = NoOne THEN {<< >>} ELSE Sortings(c, Cells) :
          card' = [card EXCEPT ![s] = [made |-> TRUE, class |-> c,
                                       position |-> PositionIn(q, s), size |-> Len(q)]]
    BY <1>11, <2>2 DEF MakeCard, ClassToRank, CellsToRank, CellsOfTerm
  <2>4. PositionIn(q, s) \in Nat \cup {NoOne} /\ Len(q) \in Nat
    <3>1. CASE c = NoOne
      BY <2>3, <3>1 DEF PositionIn
    <3>2. CASE c # NoOne
      BY <1>t, <2>3, <3>2, PositionTyped
    <3> QED
      BY <3>1, <3>2
  <2>5. card' \in [Pupils -> [made : BOOLEAN, class : GClasses \cup {NoOne},
                             position : Nat \cup {NoOne}, size : Nat]]
    BY <2>3, <2>4 DEF GradebookTypeOK
  <2>6. batch' \in [class : GClasses, left : SUBSET Pupils, pupil : Pupils \cup {NoOne},
                    read : GClasses \cup {NoOne}]
    BY <1>11, <2>1 DEF MakeCard
  <2> QED
    BY <1>11, <2>5, <2>6 DEF MakeCard, GradebookTypeOK, Marked
<1>8. ASSUME EndBatch
      PROVE  GradebookTypeOK'
  BY <1>8 DEF EndBatch, NoCard, GradebookTypeOK, Marked
<1>9. CASE UNCHANGED gradebookVars
  BY <1>9 DEF gradebookVars, GradebookTypeOK, Marked
<1> QED
  BY <1>1, <1>2, <1>3, <1>4, <1>5, <1>6, <1>7, <1>8, <1>9, <1>10, <1>11
     DEF GradebookNext, MarkNext, CardNext

(* Rows, requests to mark and cards have their shape, whatever requests    *)
(* overlap; a comment is only ever being written for a row that exists     *)
(* (grades.service.ts, report-cards.service.ts).                           *)
THEOREM GradebookTypeCorrect == GradebookSpec => []GradebookTypeOK
BY GradebookTypeInit, GradebookTypeStep, PTL DEF GradebookSpec

(* In every state each way of sorting the students of a class by the marks *)
(* of one type of exam gives every one of them one more than there are     *)
(* students with a better percentage in it: equals share a rank and the    *)
(* next rank is skipped (ExamsService.rankList).                           *)
THEOREM RanksAreFairAlways == GradebookSpec => []RanksAreFair
<1>1. GradebookTypeOK => RanksAreFair
  BY RanksFair DEF GradebookTypeOK, GradesTyped, GradeRows
<1> QED
  BY <1>1, GradebookTypeCorrect, PTL

(* Everyone's place depends on class and points of the rows only. *)
LEMMA PlacesKept ==
  ASSUME GradesTyped,
         \A s \in Pupils, x \in Cells :
            /\ Marked(s, x)' <=> Marked(s, x)
            /\ grade'[s][x].class = grade[s][x].class
            /\ grade'[s][x]["obtained"] = grade[s][x]["obtained"]
            /\ grade'[s][x]["max"] = grade[s][x]["max"],
         NEW c, NEW X \in SUBSET Cells
  PROVE  /\ \A s \in Pupils : Counted(s, c, X)' = Counted(s, c, X)
         /\ MarkedIn(c, X)' = MarkedIn(c, X)
         /\ \A a, b \in Pupils : Ahead(a, b, c, X)' <=> Ahead(a, b, c, X)
<1>1. \A s \in Pupils : Counted(s, c, X)' = Counted(s, c, X)
  BY DEF Counted
<1>2. \A s \in Pupils : Counted(s, c, X) \subseteq Cells
  BY DEF Counted
<1>3. \A s \in Pupils : SumIn(s, c, X, "obtained")' = SumIn(s, c, X, "obtained")
                     /\ SumIn(s, c, X, "max")' = SumIn(s, c, X, "max")
  <2> SUFFICES ASSUME NEW s \in Pupils
               PROVE  /\ SumIn(s, c, X, "obtained")' = SumIn(s, c, X, "obtained")
                      /\ SumIn(s, c, X, "max")' = SumIn(s, c, X, "max")
    OBVIOUS
  <2>1. PICK Y : Y = Counted(s, c, X)
    OBVIOUS
  <2>2. Y = Counted(s, c, X)' /\ Y \subseteq Cells
    BY <1>1, <1>2, <2>1
  <2>3. \A x \in Y : /\ grade'[s][x]["obtained"] = grade[s][x]["obtained"]
                    /\ grade'[s][x]["max"] = grade[s][x]["max"]
    BY <2>2
  <2>4. /\ {{x} \X (1..grade'[s][x]["obtained"]) : x \in Y} = {{x} \X (1..grade[s][x]["obtained"]) : x \in Y}
        /\ {{x} \X (1..grade'[s][x]["max"]) : x \in Y} = {{x} \X (1..grade[s][x]["max"]) : x \in Y}
    BY <2>3
  <2>5. /\ SumIn(s, c, X, "obtained")' =
              Cardinality(UNION {{x} \X (1..grade'[s][x]["obtained"]) : x \in Y})
        /\ SumIn(s, c, X, "max")' = Cardinality(UNION {{x} \X (1..grade'[s][x]["max"]) : x \in Y})
    BY <2>2 DEF SumIn
  <2> QED
    BY <2>1, <2>4, <2>5 DEF SumIn
<1>4. \A a, b \in Pupils : Ahead(a, b, c, X)' <=> Ahead(a, b, c, X)
  BY <1>3 DEF Ahead, Earned, Possible
<1> QED
  BY <1>1, <1>4 DEF MarkedIn

(* What a card says, in terms that a step either keeps or does not touch.  *)
CardPlaces(s) ==
  LET c == card[s].class
  IN  /\ card[s].size = Cardinality(MarkedIn(c, Cells))
      /\ IF s \in MarkedIn(c, Cells)
         THEN card[s].position \in Cardinality(Better(s, c, Cells)) + 1 ..
                  Cardinality(Better(s, c, Cells)) + Cardinality(Equals(s, c, Cells))
         ELSE card[s].position = NoOne

CardsPlace == \A s \in Pupils \ outdated : card[s].made => CardPlaces(s)

(* Where a class has marks of one type of exam only, leaving out the other *)
(* types leaves out nothing.                                               *)
LEMMA OneExamIsTheTerm ==
  ASSUME NEW c, NEW e \in ExamTypes, OnlyExam(c, e)
  PROVE  /\ MarkedIn(c, CellsOf(e)) = MarkedIn(c, Cells)
         /\ \A s \in Pupils : /\ Better(s, c, CellsOf(e)) = Better(s, c, Cells)
                              /\ Equals(s, c, CellsOf(e)) = Equals(s, c, Cells)
<1>1. \A s \in Pupils : Counted(s, c, CellsOf(e)) = Counted(s, c, Cells)
  BY DEF OnlyExam, CellsOfTerm, Counted, CellsOf
<1>2. MarkedIn(c, CellsOf(e)) = MarkedIn(c, Cells) /\ MarkedIn(c, Cells) \subseteq Pupils
  BY <1>1 DEF MarkedIn
<1>3. \A s \in Pupils : /\ SumIn(s, c, CellsOf(e), "obtained") = SumIn(s, c, Cells, "obtained")
                       /\ SumIn(s, c, CellsOf(e), "max") = SumIn(s, c, Cells, "max")
  BY <1>1 DEF SumIn
<1>4. \A a, b \in Pupils : Ahead(a, b, c, CellsOf(e)) <=> Ahead(a, b, c, Cells)
  BY <1>3 DEF Ahead, Earned, Possible
<1> QED
  BY <1>2, <1>4 DEF Better, Equals

LEMMA PlacesSuffice == GradebookTypeOK /\ CardsPlace => CardsPlaceByTerm
<1> SUFFICES ASSUME GradebookTypeOK, CardsPlace, NEW s \in Pupils \ outdated, card[s].made,
                    NEW c, c = card[s].class,
                    NEW e \in ExamTypes, OnlyExam(c, e), NEW q \in Sortings(c, CellsOf(e)),
                    NEW i \in DOMAIN q, q[i] = s
             PROVE  card[s].position - RankList(q, c, CellsOf(e))[i]
                        \in 0 .. Cardinality(Equals(s, c, CellsOf(e))) - 1
  BY DEF CardsPlace, CardPlaces, CardsPlaceByTerm, CellsOfTerm
<1>t. GradesTyped
  BY DEF GradebookTypeOK, GradesTyped, GradeRows
<1>1. PICK X \in SUBSET Cells : X = CellsOf(e)
  BY DEF CellsOf
<1>2. /\ RankList(q, c, X)[i] = Cardinality(Better(s, c, X)) + 1
      /\ Cardinality(Better(s, c, X)) \in Nat
  BY <1>t, <1>1, RankListCounts, BetterAreAhead
<1>3. s \in MarkedIn(c, X)
  BY <1>t, <1>1, SortingShape
<1>4. /\ MarkedIn(c, X) = MarkedIn(c, Cells)
      /\ Better(s, c, X) = Better(s, c, Cells) /\ Equals(s, c, X) = Equals(s, c, Cells)
  BY <1>1, OneExamIsTheTerm
<1>5. card[s].position \in Cardinality(Better(s, c, X)) + 1 ..
          Cardinality(Better(s, c, X)) + Cardinality(Equals(s, c, X))
  BY <1>3, <1>4 DEF CardsPlace, CardPlaces
<1>6. IsFiniteSet(Equals(s, c, X)) /\ Cardinality(Equals(s, c, X)) \in Nat
  BY GradebookAssumption, FS_Subset, FS_CardinalityType DEF Equals, MarkedIn
<1> QED
  BY <1>1, <1>2, <1>5, <1>6

LEMMA CardsStep ==
  GradebookTypeOK /\ CardsPlace /\ [GradebookNext]_gradebookVars => CardsPlace'
<1> SUFFICES ASSUME GradebookTypeOK, CardsPlace, [GradebookNext]_gradebookVars,
                    NEW s \in Pupils, card'[s].made, s \notin outdated'
             PROVE  CardPlaces(s)'
  BY DEF CardsPlace
<1>t. GradesTyped
  BY DEF GradebookTypeOK, GradesTyped, GradeRows
<1>k. card[s].made /\ s \notin outdated => CardPlaces(s)
  BY DEF CardsPlace
<1>p. ASSUME \A u \in Pupils, x \in Cells :
                /\ Marked(u, x)' <=> Marked(u, x)
                /\ grade'[u][x].class = grade[u][x].class
                /\ grade'[u][x]["obtained"] = grade[u][x]["obtained"]
                /\ grade'[u][x]["max"] = grade[u][x]["max"],
             NEW c
      PROVE  /\ MarkedIn(c, Cells)' = MarkedIn(c, Cells)
             /\ Better(s, c, Cells)' = Better(s, c, Cells) /\ Equals(s, c, Cells)' = Equals(s, c, Cells)
  <2>1. PICK X \in SUBSET Cells : X = Cells
    OBVIOUS
  <2>2. /\ MarkedIn(c, X)' = MarkedIn(c, X) /\ MarkedIn(c, X) \subseteq Pupils
        /\ \A a, b \in Pupils : Ahead(a, b, c, X)' <=> Ahead(a, b, c, X)
    BY <1>t, <1>p, PlacesKept DEF MarkedIn
  <2>3. Better(s, c, X)' = Better(s, c, X) /\ Equals(s, c, X)' = Equals(s, c, X)
    BY <2>2 DEF Better, Equals
  <2> QED
    BY <2>1, <2>2, <2>3
<1>f. ASSUME \A u \in Pupils, x \in Cells :
                /\ Marked(u, x)' <=> Marked(u, x)
                /\ grade'[u][x].class = grade[u][x].class
                /\ grade'[u][x]["obtained"] = grade[u][x]["obtained"]
                /\ grade'[u][x]["max"] = grade[u][x]["max"],
             outdated' = outdated, card'[s] = card[s]
      PROVE  CardPlaces(s)'
  <2>1. PICK c : c = card[s].class
    OBVIOUS
  <2>2. /\ MarkedIn(c, Cells)' = MarkedIn(c, Cells)
        /\ Better(s, c, Cells)' = Better(s, c, Cells) /\ Equals(s, c, Cells)' = Equals(s, c, Cells)
    BY <1>f, <1>p
  <2>3. card'[s].class = c /\ CardPlaces(s)
    BY <1>f, <1>k, <2>1
  <2> QED
    BY <1>f, <2>1, <2>2, <2>3 DEF CardPlaces
<1>g. ASSUME UNCHANGED <<grade, outdated>>, card'[s] = card[s]
      PROVE  CardPlaces(s)'
  BY <1>f, <1>g DEF Marked
<1>1. ASSUME NEW m \in Markers, NEW u \in Pupils, FindPupil(m, u)
      PROVE  CardPlaces(s)'
  BY <1>1, <1>g DEF FindPupil
<1>2. ASSUME NEW u, NEW x \in Cells, NEW c, NEW score \in Scores, NEW said,
             WriteMark(u, x, c, score, said), card' = card
      PROVE  FALSE
  BY <1>2 DEF WriteMark
<1>3. ASSUME NEW u \in Pupils, NEW c \in GClasses, AssignClass(u, c)
      PROVE  CardPlaces(s)'
  BY <1>3, <1>g DEF AssignClass
<1>4. ASSUME NEW u \in Pupils, NEW x \in Cells, AskForComment(u, x)
      PROVE  CardPlaces(s)'
  BY <1>4, <1>g DEF AskForComment
<1>5. ASSUME WriteComment
      PROVE  CardPlaces(s)'
  <2>1. CASE UNCHANGED grade
    BY <1>5, <1>g, <2>1 DEF WriteComment
  <2>2. CASE grade' = [grade EXCEPT ![comment.pupil][comment.cell].comment = "drafted"]
    <3>1. PICK u \in Pupils, x \in Cells : comment = [pupil |-> u, cell |-> x]
      BY <1>5 DEF WriteComment, GradebookTypeOK
    <3>2. grade[u][x] \in GradeRows
      BY <1>5, <1>t, <3>1, RowsMarked DEF WriteComment, GradebookTypeOK
    <3>3. PICK row \in GradeRows : /\ grade' = [grade EXCEPT ![u][x] = row]
                                   /\ row.class = grade[u][x].class
                                   /\ row["obtained"] = grade[u][x]["obtained"]
                                   /\ row["max"] = grade[u][x]["max"]
      <4>1. PICK row : row = [grade[u][x] EXCEPT !.comment = "drafted"]
        OBVIOUS
      <4>2. /\ row \in GradeRows /\ row.class = grade[u][x].class
            /\ row["obtained"] = grade[u][x]["obtained"] /\ row["max"] = grade[u][x]["max"]
        BY <3>2, <4>1 DEF GradeRows
      <4>3. grade' = [grade EXCEPT ![u][x] = row]
        BY <2>2, <3>1, <4>1
      <4> QED
        BY <4>2, <4>3
    <3>4. \A t \in Pupils, y \in Cells :
             grade'[t][y] = IF t = u /\ y = x THEN row ELSE grade[t][y]
      BY <1>t, <3>3 DEF GradesTyped
    <3>5. \A t \in Pupils, y \in Cells :
             /\ Marked(t, y)' <=> Marked(t, y)
             /\ grade'[t][y].class = grade[t][y].class
             /\ grade'[t][y]["obtained"] = grade[t][y]["obtained"]
             /\ grade'[t][y]["max"] = grade[t][y]["max"]
      BY <1>t, <3>2, <3>3, <3>4, RowsMarked DEF Marked
    <3>6. card' = card /\ outdated' = outdated
      BY <1>5 DEF WriteComment
    <3> QED
      BY <1>f, <3>5, <3>6
  <2> QED
    BY <1>5, <2>1, <2>2 DEF WriteComment
<1>6. ASSUME EndBatch
      PROVE  FALSE
  BY <1>6 DEF EndBatch, NoCard
<1>7. ASSUME NEW u \in Pupils, ReadPupil(u)
      PROVE  CardPlaces(s)'
  BY <1>7, <1>g DEF ReadPupil
<1>8. ASSUME NEW c \in GClasses, BeginBatch(c)
      PROVE  CardPlaces(s)'
  BY <1>8, <1>g DEF BeginBatch
<1>9. ASSUME MakeCard
      PROVE  CardPlaces(s)'
  <2>1. CASE batch.pupil # s
    <3>1. card'[s] = card[s]
      BY <1>9, <2>1 DEF MakeCard, GradebookTypeOK
    <3> QED
      BY <1>9, <1>g, <3>1 DEF MakeCard
  <2>2. CASE batch.pupil = s
    <3>1. PICK c : c = batch.read
      OBVIOUS
    <3>2. PICK q \in IF c = NoOne THEN {<< >>} ELSE Sortings(c, Cells) :
            card'[s] = [made |-> TRUE, class |-> c, position |-> PositionIn(q, s), size |-> Len(q)]
      BY <1>9, <2>2, <3>1 DEF MakeCard, ClassToRank, CellsToRank, CellsOfTerm, GradebookTypeOK
    <3>3. UNCHANGED <<grade, outdated>>
      BY <1>9 DEF MakeCard
    <3>4. /\ MarkedIn(c, Cells)' = MarkedIn(c, Cells)
          /\ Better(s, c, Cells)' = Better(s, c, Cells) /\ Equals(s, c, Cells)' = Equals(s, c, Cells)
      BY <3>3, <1>p DEF Marked
    <3>5. CASE c = NoOne
      <4>1. MarkedIn(c, Cells) = {}
        BY <1>t, <3>5, RowsMarked, GradebookAssumption DEF MarkedIn, Counted, GradeRows
      <4>2. PositionIn(q, s) = NoOne /\ Len(q) = 0
        BY <3>2, <3>5 DEF PositionIn
      <4>3. card'[s].class = c /\ card'[s].size = 0 /\ card'[s].position = NoOne
        BY <3>2, <4>2
      <4>4. MarkedIn(c, Cells)' = {} /\ Cardinality({}) = 0
        BY <3>4, <4>1, FS_EmptySet
      <4> QED
        BY <4>3, <4>4 DEF CardPlaces
    <3>6. CASE c # NoOne
      <4>1. PICK X \in SUBSET Cells : X = Cells
        OBVIOUS
      <4>2. q \in Sortings(c, X)
        BY <3>2, <3>6, <4>1
      <4>3. /\ Len(q) = Cardinality(MarkedIn(c, X))
            /\ s \notin MarkedIn(c, X) => PositionIn(q, s) = NoOne
            /\ s \in MarkedIn(c, X) => PositionIn(q, s) \in DOMAIN q /\ q[PositionIn(q, s)] = s
        BY <1>t, <4>2, PositionTyped
      <4>4. PICK i : i = PositionIn(q, s)
        OBVIOUS
      <4>5. s \in MarkedIn(c, X) =>
              i \in Cardinality(Better(s, c, X)) + 1 ..
                  Cardinality(Better(s, c, X)) + Cardinality(Equals(s, c, X))
        BY <1>t, <4>2, <4>3, <4>4, PlaceAmongEquals
      <4>6. /\ card'[s].class = c /\ card'[s].size = Cardinality(MarkedIn(c, X))
            /\ card'[s].position = i /\ (s \notin MarkedIn(c, X) => i = NoOne)
        BY <3>2, <4>3, <4>4
      <4> QED
        BY <3>4, <4>1, <4>5, <4>6 DEF CardPlaces
    <3> QED
      BY <3>5, <3>6
  <2> QED
    BY <2>1, <2>2
<1>10. CASE UNCHANGED gradebookVars
  BY <1>10, <1>g DEF gradebookVars
<1>11. ASSUME NEW m \in Markers, NEW x \in Cells, NEW score \in Scores, NEW said,
              UpsertGrade(m, x, score, said)
       PROVE  FALSE
  BY <1>2, <1>11 DEF UpsertGrade
<1>12. ASSUME NEW u \in Pupils, NEW x \in Cells, NEW c \in GClasses, NEW score \in Scores,
              SyncGradebook(u, x, c, score)
       PROVE  FALSE
  BY <1>2, <1>12 DEF SyncGradebook
<1> QED
  BY <1>1, <1>3, <1>4, <1>5, <1>6, <1>7, <1>8, <1>9, <1>10, <1>11, <1>12
     DEF GradebookNext, MarkNext, CardNext

(* A card that is not older than the last mark counts everyone with marks  *)
(* of the term in the class it names, and places the student within its    *)
(* equals in the total of all the term's exams and quizzes, whatever order *)
(* the database sorted them in and though students moved between its two   *)
(* readings (ReportCardsService.gather and ranking).  Where the class has  *)
(* marks of one type of exam only, that is within its equals on the rank   *)
(* list of that exam (ExamsService.rankList).                              *)
THEOREM CardsPlaceByTermAlways == GradebookSpec => []CardsPlaceByTerm
<1>1. GradebookInit => CardsPlace
  BY DEF GradebookInit, CardsPlace, NoCard
<1>2. GradebookSpec => []CardsPlace
  BY <1>1, CardsStep, GradebookTypeCorrect, PTL DEF GradebookSpec
<1> QED
  BY <1>2, PlacesSuffice, GradebookTypeCorrect, PTL
=============================================================================
