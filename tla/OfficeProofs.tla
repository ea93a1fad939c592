---------------------------- MODULE OfficeProofs ----------------------------
(***************************************************************************)
(* Proofs about the office's services, for any number of rows, people and  *)
(* requests under way.                                                     *)
(***************************************************************************)
EXTENDS Office, StaffRoomProofs

(***************************************************************************)
(* Timetable.                                                              *)
(***************************************************************************)
Looking ==
  [step : {"looking"}, class : TClasses, period : Periods, lesson : Lessons,
   clear : SUBSET {"TEACHER", "ROOM"}]

(* An edit that is not idle has its shape, and "no lesson" is no lesson. *)
LEMMA EditorFacts ==
  ASSUME TimetableTypeOK
  PROVE  /\ \A e \in Editors : editor[e].step # "idle" => editor[e] \in Looking
         /\ NoLesson \notin Lessons
BY DEF TimetableTypeOK, Looking, NoEditor, Lessons, NoLesson

LEMMA TimetableStep == TimetableTypeOK /\ [TimetableNext]_timetableVars => TimetableTypeOK'
<1> SUFFICES ASSUME TimetableTypeOK, [TimetableNext]_timetableVars
             PROVE  TimetableTypeOK'
  OBVIOUS
<1>1. ASSUME NEW p \in Periods, CreatePeriod(p)
      PROVE  TimetableTypeOK'
  BY <1>1 DEF CreatePeriod, TimetableTypeOK
<1>2. ASSUME NEW p \in Periods, DeletePeriod(p)
      PROVE  TimetableTypeOK'
  BY <1>2 DEF DeletePeriod, WithoutPeriod, TimetableTypeOK
<1>3. ASSUME NEW e \in Editors, NEW c \in TClasses, NEW p \in Periods, NEW l \in Lessons,
             BeginEdit(e, c, p, l)
      PROVE  TimetableTypeOK'
  BY <1>3 DEF BeginEdit, TimetableTypeOK
<1>4. ASSUME NEW e \in Editors, NEW kind \in {"TEACHER", "ROOM"}, Look(e, kind)
      PROVE  TimetableTypeOK'
  <2>1. editor[e] \in Looking
    BY <1>4, EditorFacts DEF Look
  <2> QED
    BY <1>4, <2>1 DEF Look, TimetableTypeOK, Looking
<1>5. ASSUME NEW e \in Editors, Write(e)
      PROVE  TimetableTypeOK'
  <2>1. editor[e] \in Looking
    BY <1>5, EditorFacts DEF Write
  <2> QED
    BY <1>5, <2>1 DEF Write, TimetableTypeOK, Looking
<1>6. ASSUME NEW e \in Editors, Refuse(e)
      PROVE  TimetableTypeOK'
  BY <1>6 DEF Refuse, TimetableTypeOK
<1>7. ASSUME NEW c \in TClasses, NEW p \in Periods, DeleteEntry(c, p)
      PROVE  TimetableTypeOK'
  BY <1>7 DEF DeleteEntry, TimetableTypeOK
<1>8. ASSUME UNCHANGED timetableVars
      PROVE  TimetableTypeOK'
  BY <1>8 DEF timetableVars, TimetableTypeOK
<1> QED
  BY <1>1, <1>2, <1>3, <1>4, <1>5, <1>6, <1>7, <1>8 DEF TimetableNext

(* The timetable's rows keep their shape and never outlive their period:   *)
(* deletePeriod cascades, and a write into a period that has gone fails.   *)
THEOREM TimetableTypeCorrect == TimetableSpec => []TimetableTypeOK
<1>1. TimetableInit => TimetableTypeOK
  BY DEF TimetableInit, TimetableTypeOK
<1> QED
  BY <1>1, TimetableStep, PTL DEF TimetableSpec

LEMMA PlacesStep ==
  TimetableTypeOK /\ NobodyInTwoPlaces /\ [TimetableNext]_timetableVars => NobodyInTwoPlaces'
<1> SUFFICES ASSUME TimetableTypeOK, NobodyInTwoPlaces, [TimetableNext]_timetableVars
             PROVE  NobodyInTwoPlaces'
  OBVIOUS
<1>1. CASE UNCHANGED lesson
  BY <1>1 DEF NobodyInTwoPlaces
<1>2. ASSUME NEW p \in Periods, DeletePeriod(p)
      PROVE  NobodyInTwoPlaces'
  BY <1>2 DEF DeletePeriod, WithoutPeriod, TimetableTypeOK, NobodyInTwoPlaces
<1>3. ASSUME NEW c \in TClasses, NEW p \in Periods, DeleteEntry(c, p)
      PROVE  NobodyInTwoPlaces'
  BY <1>3 DEF DeleteEntry, TimetableTypeOK, NobodyInTwoPlaces
<1>4. ASSUME NEW e \in Editors, Write(e)
      PROVE  NobodyInTwoPlaces'
  <2> DEFINE x == editor[e].class
             y == editor[e].period
             new == editor[e].lesson
  <2>1. editor[e] \in Looking
    BY <1>4, EditorFacts DEF Write
  <2>2. x \in TClasses /\ y \in Periods /\ new \in Lessons
    BY <2>1 DEF Looking
  <2>3. ASSUME NEW d \in TClasses, d # x, lesson[d][y] # NoLesson
        PROVE  /\ lesson[d][y].teacher # new.teacher
               /\ lesson[d][y].room = new.room => new.room = NoRoom
    <3>1. d \notin Others(e, "TEACHER") /\ (new.room # NoRoom => d \notin Others(e, "ROOM"))
      BY <1>4 DEF Write, IndexesHold
    <3> QED
      BY <2>3, <3>1 DEF Others
  <2>4. lesson' = [lesson EXCEPT ![x][y] = new]
    BY <1>4 DEF Write
  <2>5. \A c \in TClasses, p \in Periods :
           lesson'[c][p] = IF c = x /\ p = y THEN new ELSE lesson[c][p]
    BY <2>2, <2>4 DEF TimetableTypeOK
  <2>6. /\ lesson'[x][y] = new
        /\ \A c \in TClasses : c # x => lesson'[c][y] = lesson[c][y]
        /\ \A c \in TClasses, p \in Periods : p # y => lesson'[c][p] = lesson[c][p]
    BY <2>2, <2>5
  <2> SUFFICES ASSUME NEW p \in Periods, NEW c \in TClasses, NEW d \in TClasses, c # d,
                      lesson'[c][p] # NoLesson, lesson'[d][p] # NoLesson
               PROVE  /\ lesson'[c][p].teacher # lesson'[d][p].teacher
                      /\ lesson'[c][p].room = lesson'[d][p].room => lesson'[c][p].room = NoRoom
    BY DEF NobodyInTwoPlaces
  <2>7. CASE p # y \/ (c # x /\ d # x)
    <3>1. lesson'[c][p] = lesson[c][p] /\ lesson'[d][p] = lesson[d][p]
      BY <2>6, <2>7
    <3> QED
      BY <3>1 DEF NobodyInTwoPlaces
  <2>8. CASE p = y /\ c = x
    BY <2>3, <2>6, <2>8
  <2>9. CASE p = y /\ d = x
    BY <2>3, <2>6, <2>9
  <2> QED
    BY <2>7, <2>8, <2>9
<1> QED
  BY <1>1, <1>2, <1>3, <1>4
  DEF TimetableNext, timetableVars, CreatePeriod, BeginEdit, Look, Refuse

(* "Two admins editing the timetable at the same time can't both win": the *)
(* unique indexes speak at the write, whatever the look before has seen.   *)
THEOREM NobodyIsInTwoPlaces == TimetableSpec => []NobodyInTwoPlaces
<1>1. TimetableInit => NobodyInTwoPlaces
  BY DEF TimetableInit, NobodyInTwoPlaces
<1> QED
  BY <1>1, TimetableTypeCorrect, PlacesStep, PTL DEF TimetableSpec

(***************************************************************************)
(* Access templates.                                                       *)
(***************************************************************************)
Updating ==
  [kind : {"update"}, on : Templates, role : Roles, who : {NoPerson}, met : BOOLEAN]
Assigning ==
  [kind : {"assign"}, on : Templates, role : {NoRole}, who : People, met : {FALSE}]

(* Requests have the shape of their kind. *)
LEMMA AdminFacts ==
  ASSUME TemplateTypeOK, NEW a \in Admins
  PROVE  /\ admin[a] = Idle \/ admin[a] \in Updating \/ admin[a] \in Assigning
         /\ admin[a].kind = "update" => admin[a] \in Updating
         /\ admin[a].kind = "assign" => admin[a] \in Assigning
<1>1. admin[a] = Idle \/ admin[a] \in Updating \/ admin[a] \in Assigning
  BY DEF TemplateTypeOK, Updating, Assigning
<1>2. admin[a] \in Updating => admin[a].kind = "update"
  BY DEF Updating
<1>3. admin[a] \in Assigning => admin[a].kind = "assign"
  BY DEF Assigning
<1>4. Idle.kind = "NONE"
  BY DEF Idle
<1> QED
  BY <1>1, <1>2, <1>3, <1>4

LEMMA TemplateStep == TemplateTypeOK /\ [TemplateNext]_templateVars => TemplateTypeOK'
<1> USE RoleTemplatesAssumption
<1> SUFFICES ASSUME TemplateTypeOK, [TemplateNext]_templateVars
             PROVE  TemplateTypeOK'
  OBVIOUS
<1>1. ASSUME NEW t \in Templates, NEW r \in Roles, Create(t, r)
      PROVE  TemplateTypeOK'
  BY <1>1 DEF Create, TemplateTypeOK, Exists
<1>2. ASSUME NEW a \in Admins, NEW t \in Templates, NEW r \in Roles, CheckUpdate(a, t, r)
      PROVE  TemplateTypeOK'
  <2> DEFINE w == [kind |-> "update", on |-> t, role |-> r, who |-> NoPerson,
                   met |-> PastCheck("assign", t) # {}]
  <2>1. w \in Updating
    BY DEF Updating
  <2>2. admin' = [admin EXCEPT ![a] = w]
    BY <1>2 DEF CheckUpdate
  <2>3. admin' \in [Admins -> {Idle} \cup Updating \cup Assigning]
    BY <2>1, <2>2 DEF TemplateTypeOK, Updating, Assigning
  <2> QED
    BY <1>2, <2>3 DEF CheckUpdate, TemplateTypeOK, Exists, Updating, Assigning
<1>3. ASSUME NEW a \in Admins, WriteUpdate(a)
      PROVE  TemplateTypeOK'
  <2>1. admin[a] \in Updating
    BY <1>3, AdminFacts DEF WriteUpdate
  <2>2. admin[a].on \in Templates /\ admin[a].role \in Roles
    BY <2>1 DEF Updating
  <2>3. baseRole' = [baseRole EXCEPT ![admin[a].on] = admin[a].role]
    BY <1>3 DEF WriteUpdate
  <2>4. admin' = [admin EXCEPT ![a] = Idle]
    BY <1>3 DEF WriteUpdate
  <2>5. \A u \in People : holding'[u] # NoTemplate => Exists(holding[u])'
    BY <1>3, <2>2, <2>3 DEF WriteUpdate, TemplateTypeOK, Exists
  <2>6. crossed' \subseteq Templates
    BY <1>3, <2>2 DEF WriteUpdate, TemplateTypeOK
  <2> QED
    BY <1>3, <2>2, <2>3, <2>4, <2>5, <2>6 DEF WriteUpdate, TemplateTypeOK, Updating, Assigning
<1>4. ASSUME NEW t \in Templates, RemoveTemplate(t)
      PROVE  TemplateTypeOK'
  BY <1>4 DEF RemoveTemplate, Freed, TemplateTypeOK, Exists
<1>5. ASSUME NEW a \in Admins, NEW t \in Templates, NEW u \in People, CheckAssign(a, t, u)
      PROVE  TemplateTypeOK'
  <2> DEFINE w == [kind |-> "assign", on |-> t, role |-> NoRole, who |-> u, met |-> FALSE]
  <2>1. w \in Assigning
    BY DEF Assigning
  <2>2. ASSUME NEW b \in PastCheck("update", t)
        PROVE  [admin[b] EXCEPT !.met = TRUE] \in Updating
    <3>1. b \in Admins /\ admin[b] \in Updating
      BY AdminFacts DEF PastCheck
    <3> QED
      BY <3>1 DEF Updating
  <2>3. ASSUME NEW b \in Admins
        PROVE  admin'[b] \in {Idle} \cup Updating \cup Assigning
    BY <1>5, <2>1, <2>2, AdminFacts DEF CheckAssign
  <2>4. admin' \in [Admins -> {Idle} \cup Updating \cup Assigning]
    BY <1>5, <2>3 DEF CheckAssign
  <2> QED
    BY <1>5, <2>4 DEF CheckAssign, TemplateTypeOK, Exists, Updating, Assigning
<1>6. ASSUME NEW a \in Admins, WriteAssign(a)
      PROVE  TemplateTypeOK'
  <2>1. admin[a] \in Assigning
    BY <1>6, AdminFacts DEF WriteAssign
  <2>2. admin[a].on \in Templates /\ admin[a].who \in People
    BY <2>1 DEF Assigning
  <2> QED
    BY <1>6, <2>2 DEF WriteAssign, TemplateTypeOK, Exists
<1>7. ASSUME NEW a \in Admins, DropRequest(a)
      PROVE  TemplateTypeOK'
  BY <1>7 DEF DropRequest, TemplateTypeOK, Exists
<1>8. ASSUME NEW u \in People, Clear(u)
      PROVE  TemplateTypeOK'
  BY <1>8 DEF Clear, TemplateTypeOK, Exists
<1>9. ASSUME UNCHANGED templateVars
      PROVE  TemplateTypeOK'
  BY <1>9 DEF templateVars, TemplateTypeOK, Exists
<1> QED
  BY <1>1, <1>2, <1>3, <1>4, <1>5, <1>6, <1>7, <1>8, <1>9 DEF TemplateNext

(* A template that users hold exists: removing one frees its holders.      *)
THEOREM TemplateTypeCorrect == TemplateSpec => []TemplateTypeOK
<1>1. TemplateInit => TemplateTypeOK
  BY DEF TemplateInit, TemplateTypeOK
<1> QED
  BY <1>1, TemplateStep, PTL DEF TemplateSpec

(* Why nobody is locked out without a crossing: holders are of the         *)
(* template's role; so is whoever is being given it, while it is there; an *)
(* update and an assignment that overlap know of each other; and an update *)
(* that met no assignment suits the holders there still are.               *)
HoldersMatch ==
  \A u \in People : holding[u] # NoTemplate =>
    baseRole[holding[u]] = RoleOf[u] \/ holding[u] \in crossed
AssignmentsMatch ==
  \A a \in Admins : admin[a].kind = "assign" =>
    \/ baseRole[admin[a].on] = RoleOf[admin[a].who]
    \/ baseRole[admin[a].on] = Gone
    \/ admin[a].on \in crossed
OverlapsMeet ==
  \A a, b \in Admins :
    admin[a].kind = "assign" /\ admin[b].kind = "update" /\ admin[a].on = admin[b].on
      => admin[b].met
UpdatesSuitHolders ==
  \A b \in Admins : admin[b].kind = "update" /\ ~admin[b].met =>
    \A u \in People : holding[u] = admin[b].on =>
      RoleOf[u] = admin[b].role \/ admin[b].on \in crossed
TemplateInv == HoldersMatch /\ AssignmentsMatch /\ OverlapsMeet /\ UpdatesSuitHolders

LEMMA TemplateInvStep ==
  TemplateTypeOK /\ TemplateInv /\ [TemplateNext]_templateVars => TemplateInv'
<1> USE RoleTemplatesAssumption
<1> SUFFICES ASSUME TemplateTypeOK, TemplateInv, [TemplateNext]_templateVars
             PROVE  TemplateInv'
  OBVIOUS
<1> USE DEF TemplateInv
<1>k. Idle.kind = "NONE"
  BY DEF Idle
<1>1. ASSUME NEW t \in Templates, NEW r \in Roles, Create(t, r)
      PROVE  TemplateInv'
  <2>1. \A u \in People : holding[u] # t
    BY <1>1 DEF Create, TemplateTypeOK, Exists
  <2>2. \A a \in Admins : admin[a].kind = "assign" /\ admin[a].on = t => t \in crossed
    <3> SUFFICES ASSUME NEW a \in Admins, admin[a].kind = "assign", admin[a].on = t
                 PROVE  t \in crossed
      OBVIOUS
    <3>1. RoleOf[admin[a].who] \in Roles
      BY AdminFacts DEF Assigning, Roles
    <3> QED
      BY <1>1, <3>1 DEF Create, AssignmentsMatch
  <2>3. HoldersMatch'
    BY <1>1, <2>1 DEF Create, HoldersMatch, TemplateTypeOK
  <2>4. AssignmentsMatch'
    BY <1>1, <2>2, AdminFacts DEF Create, AssignmentsMatch, TemplateTypeOK, Assigning
  <2> QED
    BY <1>1, <2>3, <2>4 DEF Create, OverlapsMeet, UpdatesSuitHolders
<1>2. ASSUME NEW a \in Admins, NEW t \in Templates, NEW r \in Roles, CheckUpdate(a, t, r)
      PROVE  TemplateInv'
  <2> DEFINE w == [kind |-> "update", on |-> t, role |-> r, who |-> NoPerson,
                   met |-> PastCheck("assign", t) # {}]
  <2>0. admin' = [admin EXCEPT ![a] = w]
    BY <1>2 DEF CheckUpdate
  <2>w. /\ w.kind = "update" /\ w.on = t /\ w.role = r
        /\ w.met <=> PastCheck("assign", t) # {}
    OBVIOUS
  <2> HIDE DEF w
  <2>1. \A b \in Admins : admin'[b] = IF b = a THEN w ELSE admin[b]
    BY <2>0 DEF TemplateTypeOK
  <2>2. UNCHANGED <<baseRole, holding, crossed>>
    BY <1>2 DEF CheckUpdate
  <2>3. \A u \in People : holding[u] = t => RoleOf[u] = r \/ t \in crossed
    BY <1>2 DEF CheckUpdate, MayRebase, Holders, HoldersMatch, TemplateTypeOK
  <2>4. HoldersMatch'
    BY <2>2 DEF HoldersMatch
  <2>5. AssignmentsMatch'
    BY <2>w, <2>1, <2>2 DEF AssignmentsMatch
  <2>6. OverlapsMeet'
    BY <2>w, <2>1 DEF OverlapsMeet, PastCheck
  <2>7. UpdatesSuitHolders'
    BY <2>w, <2>1, <2>2, <2>3 DEF UpdatesSuitHolders
  <2> QED
    BY <2>4, <2>5, <2>6, <2>7
<1>3. ASSUME NEW a \in Admins, WriteUpdate(a)
      PROVE  TemplateInv'
  <2> DEFINE t == admin[a].on
  <2>1. admin[a] \in Updating
    BY <1>3, AdminFacts DEF WriteUpdate
  <2>2. t \in Templates /\ admin[a].kind = "update"
    BY <2>1 DEF Updating
  <2>3. \A x \in Templates : baseRole'[x] = IF x = t THEN admin[a].role ELSE baseRole[x]
    BY <1>3, <2>2 DEF WriteUpdate, TemplateTypeOK
  <2>4. \A b \in Admins : admin'[b] = IF b = a THEN Idle ELSE admin[b]
    BY <1>3 DEF WriteUpdate, TemplateTypeOK
  <2>5. crossed \subseteq crossed' /\ (admin[a].met => t \in crossed')
    BY <1>3 DEF WriteUpdate
  <2>6. HoldersMatch'
    BY <1>3, <2>2, <2>3, <2>5 DEF WriteUpdate, HoldersMatch, UpdatesSuitHolders, TemplateTypeOK
  <2>7. AssignmentsMatch'
    <3> SUFFICES ASSUME NEW b \in Admins, admin'[b].kind = "assign"
                 PROVE  \/ baseRole'[admin'[b].on] = RoleOf[admin'[b].who]
                        \/ baseRole'[admin'[b].on] = Gone
                        \/ admin'[b].on \in crossed'
      BY DEF AssignmentsMatch
    <3>1. b # a /\ admin'[b] = admin[b]
      BY <1>k, <2>4
    <3>2. admin[b].on \in Templates
      BY <3>1, AdminFacts DEF Assigning
    <3>3. CASE admin[b].on = t
      BY <2>2, <2>5, <3>1, <3>3 DEF OverlapsMeet
    <3>4. CASE admin[b].on # t
      BY <2>3, <2>5, <3>1, <3>2, <3>4 DEF AssignmentsMatch
    <3> QED
      BY <3>3, <3>4
  <2>8. OverlapsMeet'
    BY <1>k, <2>4 DEF OverlapsMeet
  <2>9. UpdatesSuitHolders'
    BY <1>3, <1>k, <2>4, <2>5 DEF WriteUpdate, UpdatesSuitHolders
  <2> QED
    BY <2>6, <2>7, <2>8, <2>9
<1>4. ASSUME NEW t \in Templates, RemoveTemplate(t)
      PROVE  TemplateInv'
  <2>1. \A x \in Templates : baseRole'[x] = IF x = t THEN Gone ELSE baseRole[x]
    BY <1>4 DEF RemoveTemplate, TemplateTypeOK
  <2>2. \A u \in People : holding'[u] = IF holding[u] = t THEN NoTemplate ELSE holding[u]
    BY <1>4 DEF RemoveTemplate, Freed
  <2>3. UNCHANGED <<admin, crossed>>
    BY <1>4 DEF RemoveTemplate
  <2>4. HoldersMatch'
    BY <2>1, <2>2, <2>3 DEF HoldersMatch, TemplateTypeOK
  <2>5. AssignmentsMatch'
    BY <2>1, <2>3, AdminFacts DEF AssignmentsMatch, Assigning
  <2>6. UpdatesSuitHolders'
    <3> SUFFICES ASSUME NEW b \in Admins, admin[b].kind = "update", ~admin[b].met,
                        NEW u \in People, holding'[u] = admin[b].on
                 PROVE  RoleOf[u] = admin[b].role \/ admin[b].on \in crossed
      BY <2>3 DEF UpdatesSuitHolders
    <3>1. admin[b].on \in Templates
      BY AdminFacts DEF Updating
    <3>2. holding[u] = admin[b].on
      BY <2>2, <3>1
    <3> QED
      BY <3>2 DEF UpdatesSuitHolders
  <2> QED
    BY <2>3, <2>4, <2>5, <2>6 DEF OverlapsMeet
<1>5. ASSUME NEW a \in Admins, NEW t \in Templates, NEW u \in People, CheckAssign(a, t, u)
      PROVE  TemplateInv'
  <2> DEFINE w == [kind |-> "assign", on |-> t, role |-> NoRole, who |-> u, met |-> FALSE]
  <2>1. /\ admin'[a].kind = "assign" /\ admin'[a].on = t /\ admin'[a].who = u
        /\ ~admin'[a].met
    <3>1. admin'[a] = w
      BY <1>5 DEF CheckAssign
    <3> QED
      BY <3>1
  <2>2. ASSUME NEW b \in Admins, b # a
        PROVE  /\ admin'[b].kind = admin[b].kind /\ admin'[b].on = admin[b].on
               /\ admin'[b].role = admin[b].role /\ admin'[b].who = admin[b].who
               /\ admin'[b].met <=> admin[b].met \/ b \in PastCheck("update", t)
    <3>1. CASE b \in PastCheck("update", t)
      <4>1. admin[b] \in Updating
        BY <3>1, AdminFacts DEF PastCheck
      <4>2. admin'[b] = [admin[b] EXCEPT !.met = TRUE]
        BY <1>5, <2>2, <3>1 DEF CheckAssign
      <4> QED
        BY <3>1, <4>1, <4>2 DEF Updating
    <3>2. CASE b \notin PastCheck("update", t)
      <4>1. admin'[b] = admin[b]
        BY <1>5, <2>2, <3>2 DEF CheckAssign
      <4> QED
        BY <3>2, <4>1
    <3> QED
      BY <3>1, <3>2
  <2>3. UNCHANGED <<baseRole, holding, crossed>>
    BY <1>5 DEF CheckAssign
  <2>4. HoldersMatch'
    BY <2>3 DEF HoldersMatch
  <2>5. AssignmentsMatch'
    BY <1>5, <2>1, <2>2, <2>3 DEF AssignmentsMatch, CheckAssign, SameRole
  <2>6. OverlapsMeet'
    <3> SUFFICES ASSUME NEW c \in Admins, NEW b \in Admins, admin'[c].kind = "assign",
                        admin'[b].kind = "update", admin'[c].on = admin'[b].on
                 PROVE  admin'[b].met
      BY DEF OverlapsMeet
    <3>1. b # a
      BY <2>1
    <3>2. CASE c = a
      BY <2>1, <2>2, <3>1, <3>2 DEF PastCheck
    <3>3. CASE c # a
      BY <2>2, <3>1, <3>3 DEF OverlapsMeet
    <3> QED
      BY <3>2, <3>3
  <2>7. UpdatesSuitHolders'
    BY <2>1, <2>2, <2>3 DEF UpdatesSuitHolders
  <2> QED
    BY <2>4, <2>5, <2>6, <2>7
<1>6. ASSUME NEW a \in Admins, WriteAssign(a)
      PROVE  TemplateInv'
  <2> DEFINE t == admin[a].on
             u == admin[a].who
  <2>1. admin[a] \in Assigning
    BY <1>6, AdminFacts DEF WriteAssign
  <2>2. t \in Templates /\ u \in People /\ admin[a].kind = "assign"
    BY <2>1 DEF Assigning
  <2>3. \A b \in Admins : admin'[b] = IF b = a THEN Idle ELSE admin[b]
    BY <1>6 DEF WriteAssign, TemplateTypeOK
  <2>4. \A x \in People : holding'[x] = IF x = u THEN t ELSE holding[x]
    BY <1>6, <2>2 DEF WriteAssign, TemplateTypeOK
  <2>5. UNCHANGED <<baseRole, crossed>>
    BY <1>6 DEF WriteAssign
  <2>6. baseRole[t] = RoleOf[u] \/ t \in crossed
    BY <1>6, <2>2 DEF WriteAssign, AssignmentsMatch, Exists
  <2>7. HoldersMatch'
    BY <2>4, <2>5, <2>6 DEF HoldersMatch
  <2>8. AssignmentsMatch'
    BY <1>k, <2>3, <2>5 DEF AssignmentsMatch
  <2>9. OverlapsMeet'
    BY <1>k, <2>3 DEF OverlapsMeet
  <2>10. UpdatesSuitHolders'
    <3> SUFFICES ASSUME NEW b \in Admins, admin'[b].kind = "update", ~admin'[b].met,
                        NEW x \in People, holding'[x] = admin'[b].on
                 PROVE  RoleOf[x] = admin'[b].role \/ admin'[b].on \in crossed
      BY <2>5 DEF UpdatesSuitHolders
    <3>1. admin'[b] = admin[b]
      BY <1>k, <2>3
    <3>2. admin[b].on # t
      BY <2>2, <3>1 DEF OverlapsMeet
    <3>3. holding[x] = admin[b].on
      BY <2>4, <3>1, <3>2
    <3> QED
      BY <3>1, <3>3 DEF UpdatesSuitHolders
  <2> QED
    BY <2>7, <2>8, <2>9, <2>10
<1>7. ASSUME NEW a \in Admins, DropRequest(a)
      PROVE  TemplateInv'
  <2>1. \A b \in Admins : admin'[b] = IF b = a THEN Idle ELSE admin[b]
    BY <1>7 DEF DropRequest, TemplateTypeOK
  <2> QED
    BY <1>7, <1>k, <2>1
    DEF DropRequest, HoldersMatch, AssignmentsMatch, OverlapsMeet, UpdatesSuitHolders
<1>8. ASSUME NEW u \in People, Clear(u)
      PROVE  TemplateInv'
  <2>1. \A x \in People : holding'[x] = IF x = u THEN NoTemplate ELSE holding[x]
    BY <1>8 DEF Clear, TemplateTypeOK
  <2>2. UNCHANGED <<baseRole, admin, crossed>>
    BY <1>8 DEF Clear
  <2>3. \A b \in Admins : admin[b].kind = "update" => admin[b].on # NoTemplate
    BY AdminFacts DEF Updating
  <2> QED
    BY <2>1, <2>2, <2>3 DEF HoldersMatch, AssignmentsMatch, OverlapsMeet, UpdatesSuitHolders
<1>9. ASSUME UNCHANGED templateVars
      PROVE  TemplateInv'
  BY <1>9 DEF templateVars, HoldersMatch, AssignmentsMatch, OverlapsMeet, UpdatesSuitHolders
<1> QED
  BY <1>1, <1>2, <1>3, <1>4, <1>5, <1>6, <1>7, <1>8, <1>9 DEF TemplateNext

(* A template locks out its holders only if its role was changed while it  *)
(* was being assigned: "refuses to change the base role while anyone holds *)
(* the template" is true of every other order of any number of requests.   *)
THEOREM LockedOutOnlyByCrossing == TemplateSpec => []LockedOutByCrossingOnly
<1>1. TemplateInit => TemplateInv
  BY DEF TemplateInit, TemplateInv, HoldersMatch, AssignmentsMatch, OverlapsMeet,
         UpdatesSuitHolders, Idle
<1>2. TemplateInv => LockedOutByCrossingOnly
  BY DEF TemplateInv, HoldersMatch, LockedOutByCrossingOnly, LockedOut
<1> QED
  BY <1>1, <1>2, TemplateTypeCorrect, TemplateInvStep, PTL DEF TemplateSpec

(***************************************************************************)
(* Admissions.                                                             *)
(***************************************************************************)
Account == [email : Emails, parents : SUBSET Guardians]
Hashing == [step : {"hashing"}, email : Emails, parents : SUBSET Guardians]

(* An enrolled profile has an account, and an admission that is past the   *)
(* cap has everything it will insert.                                      *)
LEMMA EnrolmentFacts ==
  ASSUME EnrolmentTypeOK
  PROVE  /\ NoProfile \notin Account /\ NoAdmission \notin Hashing
         /\ \A s \in Profiles : profile[s] # NoProfile <=> profile[s] \in Account
         /\ \A c \in Clerks : clerk[c].step = "hashing" <=> clerk[c] \in Hashing
<1>1. NoProfile \notin Account
  BY EnrolmentAssumption DEF NoProfile, Account
<1>2. NoAdmission \notin Hashing
  BY EnrolmentAssumption DEF NoAdmission, Hashing
<1>3. NoAdmission.step # "hashing"
  BY DEF NoAdmission
<1>4. \A c \in Clerks : clerk[c] \in Hashing => clerk[c].step = "hashing"
  BY DEF Hashing
<1> QED
  BY <1>1, <1>2, <1>3, <1>4 DEF EnrolmentTypeOK, Account, Hashing

LEMMA EnrolmentStep == EnrolmentTypeOK /\ [EnrolmentNext]_enrolmentVars => EnrolmentTypeOK'
<1> SUFFICES ASSUME EnrolmentTypeOK, [EnrolmentNext]_enrolmentVars
             PROVE  EnrolmentTypeOK'
  OBVIOUS
<1>1. ASSUME NEW c \in Clerks, NEW e \in Emails, NEW family \in SUBSET Guardians,
             CheckCap(c, e, family)
      PROVE  EnrolmentTypeOK'
  <2> DEFINE w == [step |-> "hashing", email |-> e, parents |-> family]
  <2>1. w \in Hashing
    BY DEF Hashing
  <2>2. clerk' = [clerk EXCEPT ![c] = w] /\ profile' = profile
    BY <1>1 DEF CheckCap
  <2> QED
    BY <2>1, <2>2 DEF EnrolmentTypeOK, Hashing, Enrolled
<1>2. ASSUME NEW c \in Clerks, NEW s \in Profiles, Admit(c, s)
      PROVE  EnrolmentTypeOK'
  <2> DEFINE w == [email |-> clerk[c].email, parents |-> clerk[c].parents]
  <2>1. w \in Account
    BY <1>2, EnrolmentFacts DEF Admit, Hashing, Account
  <2>2. profile' = [profile EXCEPT ![s] = w]
    BY <1>2 DEF Admit
  <2>3. clerk' = [clerk EXCEPT ![c] = NoAdmission]
    BY <1>2 DEF Admit
  <2>4. \A x, y \in Enrolled' : profile'[x].email = profile'[y].email => x = y
    <3>1. \A x \in Enrolled' : x = s \/ (x \in Enrolled /\ profile'[x] = profile[x])
      BY <2>2 DEF Enrolled, EnrolmentTypeOK
    <3>2. profile'[s].email = clerk[c].email
      BY <2>2 DEF EnrolmentTypeOK
    <3>3. \A x \in Enrolled : profile[x].email # clerk[c].email
      BY <1>2 DEF Admit, EmailFree
    <3> QED
      BY <3>1, <3>2, <3>3 DEF EnrolmentTypeOK
  <2> QED
    BY <2>1, <2>2, <2>3, <2>4 DEF EnrolmentTypeOK, Account
<1>3. ASSUME NEW c \in Clerks, DropAdmission(c)
      PROVE  EnrolmentTypeOK'
  BY <1>3 DEF DropAdmission, EnrolmentTypeOK, Enrolled
<1>4. ASSUME NEW s \in Profiles, NEW p \in Guardians, LinkParent(s, p) \/ UnlinkParent(s, p)
      PROVE  EnrolmentTypeOK'
  <2>1. profile[s] \in Account
    BY <1>4, EnrolmentFacts DEF LinkParent, UnlinkParent
  <2>2. PICK f \in SUBSET Guardians : profile' = [profile EXCEPT ![s].parents = f]
    BY <1>4, <2>1 DEF LinkParent, UnlinkParent, Account
  <2>3. clerk' = clerk
    BY <1>4 DEF LinkParent, UnlinkParent
  <2>4. profile'[s] \in Account /\ profile'[s].email = profile[s].email
    BY <2>1, <2>2 DEF EnrolmentTypeOK, Account
  <2>5. \A x \in Profiles : x # s => profile'[x] = profile[x]
    BY <2>2 DEF EnrolmentTypeOK
  <2>6. profile' \in [Profiles -> {NoProfile} \cup Account]
    BY <2>2, <2>4, <2>5 DEF EnrolmentTypeOK, Account
  <2>7. Enrolled' = Enrolled
    BY <1>4, <2>4, <2>5, EnrolmentFacts DEF Enrolled, LinkParent, UnlinkParent
  <2>8. \A x \in Enrolled : profile'[x].email = profile[x].email
    BY <2>4, <2>5 DEF Enrolled
  <2> QED
    BY <2>3, <2>6, <2>7, <2>8 DEF EnrolmentTypeOK, Account
<1>5. ASSUME UNCHANGED enrolmentVars
      PROVE  EnrolmentTypeOK'
  BY <1>5 DEF enrolmentVars, EnrolmentTypeOK, Enrolled
<1> QED
  BY <1>1, <1>2, <1>3, <1>4, <1>5 DEF EnrolmentNext

(* No two accounts of a school have one address, and an enrolled profile   *)
(* always has an account: the transaction inserts all or nothing.          *)
THEOREM EnrolmentTypeCorrect == EnrolmentSpec => []EnrolmentTypeOK
<1>1. EnrolmentInit => EnrolmentTypeOK
  BY DEF EnrolmentInit, EnrolmentTypeOK, Enrolled
<1> QED
  BY <1>1, EnrolmentStep, PTL DEF EnrolmentSpec

(* Who is in and who is on the way in, together. *)
Racing == {c \in Clerks : clerk[c].step = "hashing"}
RacersFit ==
  /\ IsFiniteSet(Enrolled)
  /\ Clerks # {} =>
       Cardinality(Enrolled) + Cardinality(Racing) + 1 <= Cap + Cardinality(Clerks)

LEMMA RacingFinite ==
  /\ IsFiniteSet(Racing) /\ Cardinality(Racing) \in Nat
  /\ Cardinality(Clerks) \in Nat /\ Cardinality(Racing) <= Cardinality(Clerks)
BY EnrolmentAssumption, FS_Subset, FS_CardinalityType DEF Racing

LEMMA RacersStep ==
  EnrolmentTypeOK /\ RacersFit /\ [EnrolmentNext]_enrolmentVars => RacersFit'
<1> SUFFICES ASSUME EnrolmentTypeOK, RacersFit, [EnrolmentNext]_enrolmentVars
             PROVE  RacersFit'
  OBVIOUS
<1> USE EnrolmentAssumption
<1>n. Cardinality(Enrolled) \in Nat
  BY FS_CardinalityType DEF RacersFit
<1>r. /\ IsFiniteSet(Racing) /\ Cardinality(Racing) \in Nat
      /\ Cardinality(Clerks) \in Nat /\ Cardinality(Racing) <= Cardinality(Clerks)
  BY RacingFinite
<1>s. /\ IsFiniteSet(Racing') /\ Cardinality(Racing') \in Nat
      /\ Cardinality(Racing') <= Cardinality(Clerks)
  <2>1. Racing' \subseteq Clerks
    BY DEF Racing
  <2> QED
    BY <2>1, FS_Subset, FS_CardinalityType
<1>1. ASSUME NEW c \in Clerks, NEW e \in Emails, NEW family \in SUBSET Guardians,
             CheckCap(c, e, family)
      PROVE  RacersFit'
  <2>1. Enrolled' = Enrolled /\ Cardinality(Enrolled) < Cap
    BY <1>1 DEF CheckCap, UnderStudentCap, Enrolled
  <2> QED
    BY <2>1, <1>n, <1>r, <1>s DEF RacersFit
<1>2. ASSUME NEW c \in Clerks, NEW s \in Profiles, Admit(c, s)
      PROVE  RacersFit'
  <2>1. clerk[c] \in Hashing
    BY <1>2, EnrolmentFacts DEF Admit
  <2>2. s \notin Enrolled
    BY <1>2 DEF Admit, Enrolled
  <2>3. Enrolled' = Enrolled \cup {s}
    <3>1. [email |-> clerk[c].email, parents |-> clerk[c].parents] \in Account
      BY <2>1 DEF Hashing, Account
    <3> QED
      BY <1>2, <3>1, EnrolmentFacts DEF Admit, Enrolled, EnrolmentTypeOK
  <2>4. c \in Racing
    BY <1>2 DEF Admit, Racing
  <2>5. Racing' = Racing \ {c}
    <3>1. NoAdmission.step # "hashing"
      BY DEF NoAdmission
    <3> QED
      BY <1>2, <3>1 DEF Admit, Racing, EnrolmentTypeOK
  <2>6. IsFiniteSet(Enrolled') /\ Cardinality(Enrolled') = Cardinality(Enrolled) + 1
    BY <2>2, <2>3, FS_AddElement DEF RacersFit
  <2>7. Cardinality(Racing') = Cardinality(Racing) - 1
    BY <1>r, <2>4, <2>5, FS_RemoveElement
  <2> QED
    BY <1>n, <1>r, <2>6, <2>7 DEF RacersFit
<1>3. ASSUME NEW c \in Clerks, DropAdmission(c)
      PROVE  RacersFit'
  <2>1. Enrolled' = Enrolled
    BY <1>3 DEF DropAdmission, Enrolled
  <2>2. Racing' \subseteq Racing
    <3>1. NoAdmission.step # "hashing"
      BY DEF NoAdmission
    <3> QED
      BY <1>3, <3>1 DEF DropAdmission, Racing, EnrolmentTypeOK
  <2>3. Cardinality(Racing') <= Cardinality(Racing)
    BY <1>r, <2>2, FS_Subset
  <2> QED
    BY <1>n, <1>r, <1>s, <2>1, <2>3 DEF RacersFit
<1>4. ASSUME NEW s \in Profiles, NEW p \in Guardians, LinkParent(s, p) \/ UnlinkParent(s, p)
      PROVE  RacersFit'
  <2>1. profile[s] \in Account
    BY <1>4, EnrolmentFacts DEF LinkParent, UnlinkParent
  <2>2. PICK f \in SUBSET Guardians : profile' = [profile EXCEPT ![s].parents = f]
    BY <1>4, <2>1 DEF LinkParent, UnlinkParent, Account
  <2>3. profile'[s] \in Account
    BY <2>1, <2>2 DEF EnrolmentTypeOK, Account
  <2>4. \A x \in Profiles : x # s => profile'[x] = profile[x]
    BY <2>2 DEF EnrolmentTypeOK
  <2>5. Enrolled' = Enrolled
    BY <1>4, <2>3, <2>4, EnrolmentFacts DEF Enrolled, LinkParent, UnlinkParent
  <2>6. Racing' = Racing
    BY <1>4 DEF LinkParent, UnlinkParent, Racing
  <2> QED
    BY <2>5, <2>6 DEF RacersFit
<1>5. ASSUME UNCHANGED enrolmentVars
      PROVE  RacersFit'
  BY <1>5 DEF enrolmentVars, RacersFit, Racing, Enrolled
<1> QED
  BY <1>1, <1>2, <1>3, <1>4, <1>5 DEF EnrolmentNext

(* However many admissions race, a school exceeds its plan's cap by fewer  *)
(* students than there are admissions at the same moment.                  *)
THEOREM OverCapOnlyByRacers == EnrolmentSpec => []OverCapByRacersOnly
<1>1. EnrolmentInit => RacersFit
  <2> SUFFICES ASSUME EnrolmentInit
               PROVE  RacersFit
    OBVIOUS
  <2>1. Enrolled = {} /\ Racing = {}
    BY DEF EnrolmentInit, Enrolled, Racing, NoAdmission
  <2>2. Clerks # {} => Cardinality(Clerks) \in Nat /\ Cardinality(Clerks) # 0
    BY EnrolmentAssumption, FS_CardinalityType, FS_EmptySet
  <2> QED
    BY <2>1, <2>2, FS_EmptySet, EnrolmentAssumption DEF RacersFit
<1>2. RacersFit => OverCapByRacersOnly
  BY RacingFinite, FS_CardinalityType, EnrolmentAssumption DEF RacersFit, OverCapByRacersOnly
<1> QED
  BY <1>1, <1>2, EnrolmentTypeCorrect, RacersStep, PTL DEF EnrolmentSpec

(***************************************************************************)
(* Support tickets and complaints.                                         *)
(***************************************************************************)
Commenting ==
  [step : {"commenting"}, on : Matters, to : {"NONE"}, was : {"NONE"}, met : BOOLEAN]
Changing ==
  [step : {"changing", "telling"}, on : Matters, to : SupportTicketStatuses,
   was : SupportTicketStatuses, met : {FALSE}]
Row == [status : SupportTicketStatuses \cup {"NONE"}, resolved : BOOLEAN]

(* A change asks for a status its matter can have, and nobody works on a   *)
(* matter that has not been raised.                                        *)
TicketShape ==
  /\ matter \in [Matters -> Row]
  /\ \A x \in Matters :
       /\ matter[x].status \in StatusesOf(x) \cup {"NONE"}
       /\ matter[x].resolved <=> matter[x].status \in {"RESOLVED", "CLOSED"}
  /\ told \in [Matters -> SupportTicketStatuses \cup {"NONE"}]
  /\ \A x \in Matters : told[x] \in StatusesOf(x) \cup {"NONE"}
  /\ handler \in [Handlers -> {NoHandler} \cup Commenting \cup Changing]
  /\ \A h \in Handlers : handler[h] # NoHandler =>
       /\ matter[handler[h].on].status # "NONE"
       /\ handler[h] \in Changing => handler[h].to \in StatusesOf(handler[h].on)

(* A status is never mistaken for another shape or row. *)
LEMMA RowFacts ==
  ASSUME TicketShape
  PROVE  /\ \A x \in Matters :
              /\ matter[x] = NotRaised <=> matter[x].status = "NONE"
              /\ StatusesOf(x) \subseteq SupportTicketStatuses
              /\ "OPEN" \in StatusesOf(x) /\ "NONE" \notin StatusesOf(x)
         /\ \A h \in Handlers :
              /\ handler[h].step = "commenting" <=> handler[h] \in Commenting
              /\ handler[h].step \in {"changing", "telling"} <=> handler[h] \in Changing
              /\ handler[h] = NoHandler <=> handler[h].step = "NONE"
<1>1. \A x \in Matters : matter[x] = NotRaised <=> matter[x].status = "NONE"
  BY DEF TicketShape, Row, NotRaised
<1>2. \A x : /\ StatusesOf(x) \subseteq SupportTicketStatuses
             /\ "OPEN" \in StatusesOf(x) /\ "NONE" \notin StatusesOf(x)
  BY DEF StatusesOf, SupportTicketStatuses, ComplaintStatuses
<1>3. NoHandler.step = "NONE"
  BY DEF NoHandler
<1>4. \A w \in Commenting : w.step = "commenting"
  BY DEF Commenting
<1>5. \A w \in Changing : w.step \in {"changing", "telling"}
  BY DEF Changing
<1> QED
  BY <1>1, <1>2, <1>3, <1>4, <1>5 DEF TicketShape

LEMMA TicketShapeStep == TicketShape /\ [TicketNext]_ticketVars => TicketShape'
<1> SUFFICES ASSUME TicketShape, [TicketNext]_ticketVars
             PROVE  TicketShape'
  OBVIOUS
<1>1. ASSUME NEW x \in Matters, Raise(x)
      PROVE  TicketShape'
  <2>1. matter' = [matter EXCEPT ![x].status = "OPEN"] /\ matter[x] = NotRaised
    BY <1>1 DEF Raise
  <2>2. matter'[x] \in Row /\ matter'[x].status = "OPEN" /\ ~matter'[x].resolved
    <3>1. matter'[x] = [matter[x] EXCEPT !.status = "OPEN"] /\ matter[x] \in Row
      BY <2>1 DEF TicketShape
    <3>2. ~matter[x].resolved
      BY <2>1 DEF NotRaised
    <3> QED
      BY <3>1, <3>2 DEF Row, SupportTicketStatuses
  <2>3. matter' \in [Matters -> Row]
    BY <2>1, <2>2 DEF TicketShape, Row, SupportTicketStatuses
  <2>4. \A y \in Matters : y # x => matter'[y] = matter[y]
    BY <2>1 DEF TicketShape
  <2>5. told' \in [Matters -> SupportTicketStatuses \cup {"NONE"}]
    BY <1>1 DEF Raise, TicketShape, SupportTicketStatuses
  <2>6. \A y \in Matters : told'[y] \in StatusesOf(y) \cup {"NONE"}
    BY <1>1, RowFacts DEF Raise, TicketShape
  <2>7. \A y \in Matters :
          /\ matter'[y].status \in StatusesOf(y) \cup {"NONE"}
          /\ matter'[y].resolved <=> matter'[y].status \in {"RESOLVED", "CLOSED"}
    BY <2>2, <2>4, RowFacts DEF TicketShape
  <2>8. \A h \in Handlers : handler[h] # NoHandler => matter'[handler[h].on].status # "NONE"
    <3>1. \A h \in Handlers : handler[h] # NoHandler => handler[h].on \in Matters
      BY DEF TicketShape, Commenting, Changing
    <3> QED
      BY <3>1, <2>2, <2>4 DEF TicketShape
  <2>9. handler' = handler
    BY <1>1 DEF Raise
  <2> QED
    BY <2>3, <2>5, <2>6, <2>7, <2>8, <2>9 DEF TicketShape
<1>2. ASSUME NEW h \in Handlers, NEW x \in Matters, CheckComment(h, x)
      PROVE  TicketShape'
  <2> DEFINE w == [NoHandler EXCEPT !.step = "commenting", !.on = x]
  <2>1. w \in Commenting /\ w.on = x /\ w \notin Changing
    BY DEF Commenting, NoHandler, Changing
  <2>2. handler' = [handler EXCEPT ![h] = w] /\ UNCHANGED <<matter, told>>
    BY <1>2 DEF CheckComment
  <2>3. matter[x].status # "NONE"
    BY <1>2, RowFacts DEF CheckComment, Open
  <2> HIDE DEF w
  <2> QED
    BY <2>1, <2>2, <2>3 DEF TicketShape
<1>3. ASSUME NEW h \in Handlers, AddComment(h) \/ Tell(h) \/ DropHandler(h)
      PROVE  TicketShape'
  <2>1. handler' = [handler EXCEPT ![h] = NoHandler] /\ matter' = matter
    BY <1>3 DEF AddComment, Tell, DropHandler
  <2>2. told' \in [Matters -> SupportTicketStatuses \cup {"NONE"}]
    BY <1>3, RowFacts DEF AddComment, Tell, DropHandler, TicketShape, NewStatus, Changing
  <2>3. \A x \in Matters : told'[x] \in StatusesOf(x) \cup {"NONE"}
    <3>1. CASE Tell(h)
      <4>1. handler[h] \in Changing /\ handler[h] # NoHandler
        BY <3>1, RowFacts DEF Tell
      <4> QED
        BY <3>1, <4>1 DEF Tell, TicketShape, NewStatus, Changing
    <3> QED
      BY <1>3, <3>1 DEF AddComment, DropHandler, TicketShape
  <2> QED
    BY <2>1, <2>2, <2>3 DEF TicketShape
<1>4. ASSUME NEW h \in Handlers, NEW x \in Matters, NEW s \in StatusesOf(x),
             ReadToChange(h, x, s)
      PROVE  TicketShape'
  <2> DEFINE w == [step |-> "changing", on |-> x, to |-> s, was |-> matter[x].status,
                   met |-> FALSE]
  <2>1. matter[x].status \in SupportTicketStatuses
    BY <1>4, RowFacts DEF ReadToChange, TicketShape
  <2>2. s \in SupportTicketStatuses
    BY RowFacts
  <2>3. w \in Changing
    BY <2>1, <2>2 DEF Changing
  <2>4. handler' = [handler EXCEPT ![h] = w] /\ UNCHANGED <<matter, told>>
    BY <1>4 DEF ReadToChange
  <2>5. w.on = x /\ w.to = s /\ matter[x].status # "NONE"
    BY <1>4, RowFacts DEF ReadToChange
  <2> HIDE DEF w
  <2> QED
    BY <2>3, <2>4, <2>5 DEF TicketShape
<1>5. ASSUME NEW h \in Handlers, Change(h)
      PROVE  TicketShape'
  <2> DEFINE x == handler[h].on
             s == handler[h].to
             row == [status |-> s, resolved |-> Stamp(x, s)]
  <2>1. handler[h] \in Changing /\ handler[h] # NoHandler
    BY <1>5, RowFacts DEF Change
  <2>2. x \in Matters /\ s \in StatusesOf(x) /\ s \in SupportTicketStatuses
    BY <2>1 DEF TicketShape, Changing
  <2>3. Stamp(x, s) \in BOOLEAN /\ (Stamp(x, s) <=> s \in {"RESOLVED", "CLOSED"})
    BY DEF Stamp
  <2>4. row \in Row /\ row.status = s /\ (row.resolved <=> s \in {"RESOLVED", "CLOSED"})
    BY <2>2, <2>3 DEF Row
  <2>5. matter' = [matter EXCEPT ![x] = row] /\ told' = told
    BY <1>5 DEF Change
  <2> HIDE DEF row
  <2>6. \A y \in Matters : matter'[y] = IF y = x THEN row ELSE matter[y]
    BY <2>5 DEF TicketShape
  <2>7. [handler[h] EXCEPT !.step = "telling"] \in Changing
    BY <2>1 DEF Changing
  <2>8. ASSUME NEW g \in Handlers
        PROVE  /\ handler'[g] \in {NoHandler} \cup Commenting \cup Changing
               /\ handler'[g] # NoHandler => handler[g] # NoHandler
               /\ handler'[g].on = handler[g].on
               /\ handler'[g].to = handler[g].to
               /\ handler'[g] \in Changing => handler[g] \in Changing
    <3>1. CASE g = h
      <4>1. handler'[g] = [handler[h] EXCEPT !.step = "telling"]
        BY <1>5, <3>1 DEF Change
      <4> QED
        BY <2>1, <2>7, <3>1, <4>1 DEF Changing
    <3>2. CASE g # h /\ g \in UnderWay("commenting", x) /\ s = "CLOSED"
      <4>1. handler[g] \in Commenting
        BY <3>2, RowFacts DEF UnderWay
      <4>2. handler'[g] = [handler[g] EXCEPT !.met = TRUE]
        BY <1>5, <3>2 DEF Change
      <4>3. handler'[g] \in Commenting /\ handler'[g].step = "commenting"
        BY <4>1, <4>2 DEF Commenting
      <4>4. handler'[g] \notin Changing
        BY <4>3 DEF Changing
      <4> QED
        BY <3>2, <4>1, <4>2, <4>3, <4>4, RowFacts DEF Commenting
    <3>3. CASE g # h /\ ~(g \in UnderWay("commenting", x) /\ s = "CLOSED")
      <4>1. handler'[g] = handler[g]
        BY <1>5, <3>3 DEF Change
      <4> QED
        BY <4>1 DEF TicketShape
    <3> QED
      BY <3>1, <3>2, <3>3
  <2>9. handler' \in [Handlers -> {NoHandler} \cup Commenting \cup Changing]
    <3>1. handler' = [g \in Handlers |-> handler'[g]]
      BY <1>5 DEF Change
    <3> QED
      BY <2>8, <3>1
  <2>10. \A g \in Handlers : handler'[g] # NoHandler =>
           /\ matter'[handler'[g].on].status # "NONE"
           /\ handler'[g] \in Changing => handler'[g].to \in StatusesOf(handler'[g].on)
    <3>1. \A g \in Handlers : handler[g] # NoHandler => handler[g].on \in Matters
      BY DEF TicketShape, Commenting, Changing
    <3>2. s # "NONE"
      BY <2>2 DEF SupportTicketStatuses
    <3> QED
      BY <2>4, <2>6, <2>8, <3>1, <3>2 DEF TicketShape
  <2>11. matter' \in [Matters -> Row]
    BY <2>4, <2>5 DEF TicketShape
  <2>12. \A y \in Matters :
           /\ matter'[y].status \in StatusesOf(y) \cup {"NONE"}
           /\ matter'[y].resolved <=> matter'[y].status \in {"RESOLVED", "CLOSED"}
    BY <2>2, <2>4, <2>6 DEF TicketShape
  <2> QED
    BY <2>5, <2>9, <2>10, <2>11, <2>12 DEF TicketShape
<1>6. ASSUME UNCHANGED ticketVars
      PROVE  TicketShape'
  BY <1>6 DEF ticketVars, TicketShape
<1> QED
  BY <1>1, <1>2, <1>3, <1>4, <1>5, <1>6 DEF TicketNext

LEMMA TicketShapeHolds == TicketSpec => []TicketShape
<1>1. TicketInit => TicketShape
  BY DEF TicketInit, TicketShape, Row, NotRaised
<1> QED
  BY <1>1, TicketShapeStep, PTL DEF TicketSpec

(* "So the timestamp never describes a state the ticket isn't in", through *)
(* any number of changes under way at once.                                *)
THEOREM TicketTypeCorrect == TicketSpec => []TicketTypeOK
<1>1. TicketShape => TicketTypeOK
  <2> SUFFICES ASSUME TicketShape
               PROVE  TicketTypeOK
    OBVIOUS
  <2>1. Commenting \cup Changing \subseteq
          [step : {"commenting", "changing", "telling"}, on : Matters,
           to : SupportTicketStatuses \cup {"NONE"}, was : SupportTicketStatuses \cup {"NONE"},
           met : BOOLEAN]
    BY DEF Commenting, Changing
  <2> QED
    BY <2>1, RowFacts DEF TicketShape, TicketTypeOK
<1> QED
  BY <1>1, TicketShapeHolds, PTL

(* What was told is the status, or will be: while nothing is doubtful, at  *)
(* most one change of a matter is still to be told, and it tells what the  *)
(* matter is; and a comment that has not met a closing is on an open one.  *)
OneTeller ==
  \A h \in Handlers : handler[h].step = "telling" /\ handler[h].on \notin doubtful =>
    /\ handler[h].to = matter[handler[h].on].status
    /\ \A g \in Handlers : handler[g].step = "telling" /\ handler[g].on = handler[h].on => g = h
CommentsMeet ==
  \A h \in Handlers : handler[h].step = "commenting" /\ ~handler[h].met =>
    matter[handler[h].on].status # "CLOSED"
TicketInv == OneTeller /\ CommentsMeet /\ LastToldIsStatus /\ ClosedByCrossingOnly

(* Of a handler that has let go of its matter. *)
LEMMA LetGo ==
  ASSUME TicketShape, NEW h \in Handlers, handler' = [handler EXCEPT ![h] = NoHandler]
  PROVE  /\ \A g \in Handlers : g # h => handler'[g] = handler[g]
         /\ handler'[h].step = "NONE"
         /\ \A step \in {"commenting", "telling"} : \A x \in Matters :
              UnderWay(step, x)' = UnderWay(step, x) \ {h}
<1>1. \A g \in Handlers : handler'[g] = IF g = h THEN NoHandler ELSE handler[g]
  BY DEF TicketShape
<1>2. NoHandler.step = "NONE"
  BY DEF NoHandler
<1> QED
  BY <1>1, <1>2 DEF UnderWay

LEMMA TicketInvStep == TicketShape /\ TicketInv /\ [TicketNext]_ticketVars => TicketInv'
<1> SUFFICES ASSUME TicketShape, TicketInv, [TicketNext]_ticketVars
             PROVE  TicketInv'
  OBVIOUS
<1> USE DEF TicketInv
<1>t. \A h \in Handlers : handler[h] # NoHandler => handler[h].on \in Matters
  BY DEF TicketShape, Commenting, Changing
<1>1. ASSUME NEW x \in Matters, Raise(x)
      PROVE  TicketInv'
  <2>1. /\ matter'[x].status = "OPEN" /\ told'[x] = "OPEN"
        /\ \A y \in Matters : y # x => matter'[y] = matter[y] /\ told'[y] = told[y]
        /\ UNCHANGED <<handler, doubtful, answered>>
    BY <1>1 DEF Raise, TicketShape
  <2>2. \A h \in Handlers : handler[h] # NoHandler => handler[h].on # x
    BY <1>1, RowFacts DEF Raise, TicketShape
  <2>3. \A h \in Handlers : handler[h] # NoHandler =>
          matter'[handler[h].on].status = matter[handler[h].on].status
    BY <1>t, <2>1, <2>2
  <2>4. OneTeller'
    BY <2>1, <2>3, RowFacts DEF OneTeller, UnderWay
  <2>5. CommentsMeet'
    BY <2>1, <2>3, RowFacts DEF CommentsMeet
  <2>6. LastToldIsStatus'
    BY <2>1 DEF LastToldIsStatus, UnderWay
  <2> QED
    BY <2>1, <2>4, <2>5, <2>6 DEF ClosedByCrossingOnly
<1>2. ASSUME NEW h \in Handlers, NEW x \in Matters, CheckComment(h, x)
      PROVE  TicketInv'
  <2> DEFINE w == [NoHandler EXCEPT !.step = "commenting", !.on = x]
  <2>1. w.step = "commenting" /\ w.on = x
    BY DEF NoHandler
  <2>2. handler' = [handler EXCEPT ![h] = w] /\ UNCHANGED <<matter, told, doubtful, answered>>
    BY <1>2 DEF CheckComment
  <2> HIDE DEF w
  <2>3. \A g \in Handlers : handler'[g] = IF g = h THEN w ELSE handler[g]
    BY <2>2 DEF TicketShape
  <2>4. \A y \in Matters : UnderWay("telling", y)' = UnderWay("telling", y)
    <3>1. handler[h].step = "NONE"
      BY <1>2, RowFacts DEF CheckComment
    <3> QED
      BY <2>1, <2>3, <3>1 DEF UnderWay
  <2>5. matter[x].status # "CLOSED"
    BY <1>2 DEF CheckComment, Open
  <2>6. OneTeller'
    BY <1>t, <2>1, <2>2, <2>3, <2>4, RowFacts DEF OneTeller
  <2>7. CommentsMeet'
    BY <2>1, <2>2, <2>3, <2>5 DEF CommentsMeet
  <2>8. LastToldIsStatus'
    BY <2>2, <2>4 DEF LastToldIsStatus
  <2> QED
    BY <2>2, <2>6, <2>7, <2>8 DEF ClosedByCrossingOnly
<1>3. ASSUME NEW h \in Handlers, AddComment(h)
      PROVE  TicketInv'
  <2>1. handler' = [handler EXCEPT ![h] = NoHandler] /\ UNCHANGED <<matter, told, doubtful>>
    BY <1>3 DEF AddComment
  <2>l. (\A g \in Handlers : g # h => handler'[g] = handler[g]) /\ handler'[h].step = "NONE"
    BY <2>1, LetGo
  <2>2. answered' = answered
    BY <1>3 DEF AddComment, CommentsMeet
  <2>3. \A y \in Matters : UnderWay("telling", y)' = UnderWay("telling", y)
    BY <1>3, <2>1, LetGo DEF AddComment, UnderWay
  <2>4. OneTeller'
    BY <2>1, <2>l DEF OneTeller
  <2>5. CommentsMeet'
    BY <2>1, <2>l DEF CommentsMeet
  <2>6. LastToldIsStatus'
    BY <2>1, <2>3 DEF LastToldIsStatus
  <2> QED
    BY <2>2, <2>4, <2>5, <2>6 DEF ClosedByCrossingOnly
<1>4. ASSUME NEW h \in Handlers, NEW x \in Matters, NEW s \in StatusesOf(x),
             ReadToChange(h, x, s)
      PROVE  TicketInv'
  <2> DEFINE w == [step |-> "changing", on |-> x, to |-> s, was |-> matter[x].status,
                   met |-> FALSE]
  <2>1. w.step = "changing"
    OBVIOUS
  <2>2. handler' = [handler EXCEPT ![h] = w] /\ UNCHANGED <<matter, told, doubtful, answered>>
    BY <1>4 DEF ReadToChange
  <2> HIDE DEF w
  <2>3. \A g \in Handlers : handler'[g] = IF g = h THEN w ELSE handler[g]
    BY <2>2 DEF TicketShape
  <2>4. \A y \in Matters : UnderWay("telling", y)' = UnderWay("telling", y)
    <3>1. handler[h].step = "NONE"
      BY <1>4, RowFacts DEF ReadToChange
    <3> QED
      BY <2>1, <2>3, <3>1 DEF UnderWay
  <2>5. OneTeller'
    BY <1>t, <2>1, <2>2, <2>3, <2>4, RowFacts DEF OneTeller
  <2>6. CommentsMeet'
    BY <2>1, <2>2, <2>3 DEF CommentsMeet
  <2>7. LastToldIsStatus'
    BY <2>2, <2>4 DEF LastToldIsStatus
  <2> QED
    BY <2>2, <2>5, <2>6, <2>7 DEF ClosedByCrossingOnly
<1>5. ASSUME NEW h \in Handlers, Change(h)
      PROVE  TicketInv'
  <2> DEFINE x == handler[h].on
             s == handler[h].to
  <2>1. handler[h] \in Changing /\ handler[h].step = "changing" /\ x \in Matters
    BY <1>5, <1>t, RowFacts DEF Change
  <2>2. /\ matter'[x].status = s
        /\ \A y \in Matters : y # x => matter'[y] = matter[y]
    BY <1>5, <2>1 DEF Change, TicketShape
  <2>3. UNCHANGED <<told, answered>>
    BY <1>5 DEF Change
  <2>4. doubtful' = IF UnderWay("telling", x) = {} THEN doubtful \ {x} ELSE doubtful \cup {x}
    BY <1>5 DEF Change
  <2>5. handler'[h].step = "telling" /\ handler'[h].on = x /\ handler'[h].to = s
    <3>1. handler'[h] = [handler[h] EXCEPT !.step = "telling"]
      BY <1>5 DEF Change
    <3> QED
      BY <2>1, <3>1 DEF Changing
  <2>6. ASSUME NEW g \in Handlers, g # h
        PROVE  /\ handler'[g].step = handler[g].step /\ handler'[g].on = handler[g].on
               /\ handler'[g].to = handler[g].to
               /\ handler[g].step = "commenting" =>
                    IF handler[g].on = x /\ s = "CLOSED" THEN handler'[g].met
                                                         ELSE handler'[g] = handler[g]
    <3>1. CASE g \in UnderWay("commenting", x) /\ s = "CLOSED"
      <4>1. handler[g] \in Commenting
        BY <3>1, RowFacts DEF UnderWay
      <4>2. handler'[g] = [handler[g] EXCEPT !.met = TRUE]
        BY <1>5, <2>6, <3>1 DEF Change
      <4> QED
        BY <3>1, <4>1, <4>2 DEF Commenting, UnderWay
    <3>2. CASE ~(g \in UnderWay("commenting", x) /\ s = "CLOSED")
      <4>1. handler'[g] = handler[g]
        BY <1>5, <2>6, <3>2 DEF Change
      <4> QED
        BY <3>2, <4>1 DEF UnderWay
    <3> QED
      BY <3>1, <3>2
  <2>o. \A g \in Handlers : g # h =>
          /\ handler'[g].step = handler[g].step /\ handler'[g].on = handler[g].on
          /\ handler'[g].to = handler[g].to
    BY <2>6
  <2>7. \A y \in Matters :
          UnderWay("telling", y)' = IF y = x THEN UnderWay("telling", y) \cup {h}
                                             ELSE UnderWay("telling", y)
    BY <2>1, <2>5, <2>6 DEF UnderWay
  <2>8. OneTeller'
    <3> SUFFICES ASSUME NEW g \in Handlers, handler'[g].step = "telling",
                        handler'[g].on \notin doubtful'
                 PROVE  /\ handler'[g].to = matter'[handler'[g].on].status
                        /\ \A o \in Handlers :
                             handler'[o].step = "telling" /\ handler'[o].on = handler'[g].on
                               => o = g
      BY DEF OneTeller
    <3>1. CASE g = h
      <4>1. UnderWay("telling", x) = {}
        BY <2>4, <2>5, <3>1
      <4>2. ASSUME NEW o \in Handlers, o # h, handler'[o].step = "telling"
            PROVE  handler'[o].on # x
        BY <2>o, <4>1, <4>2 DEF UnderWay
      <4>3. handler'[g].to = s /\ handler'[g].on = x /\ matter'[x].status = s
        BY <2>2, <2>5, <3>1
      <4> QED
        BY <3>1, <4>2, <4>3
    <3>2. CASE g # h
      <4>1. handler[g].step = "telling" /\ handler[g].on = handler'[g].on
        BY <2>6, <3>2
      <4>2. handler[g].on \in Matters
        BY <1>t, <4>1, RowFacts
      <4>3. handler[g].on # x
        BY <2>4, <4>1 DEF UnderWay
      <4>4. handler[g].on \notin doubtful
        BY <2>4, <4>1, <4>3
      <4>5. /\ handler[g].to = matter[handler[g].on].status
            /\ \A o \in Handlers :
                 handler[o].step = "telling" /\ handler[o].on = handler[g].on => o = g
        BY <4>1, <4>4 DEF OneTeller
      <4>6. handler'[g].to = matter'[handler'[g].on].status
        <5>1. matter'[handler[g].on] = matter[handler[g].on]
          BY <2>2, <4>2, <4>3
        <5>2. handler'[g].to = handler[g].to
          BY <2>o, <3>2
        <5> QED
          BY <4>1, <4>5, <5>1, <5>2
      <4>7. ASSUME NEW o \in Handlers, handler'[o].step = "telling", handler'[o].on = handler'[g].on
            PROVE  o = g
        <5>1. o # h
          BY <2>5, <4>1, <4>3, <4>7
        <5>2. handler[o].step = "telling" /\ handler[o].on = handler[g].on
          BY <2>o, <4>1, <4>7, <5>1
        <5> QED
          BY <4>5, <5>2
      <4> QED
        BY <4>6, <4>7
    <3> QED
      BY <3>1, <3>2
  <2>9. CommentsMeet'
    <3> SUFFICES ASSUME NEW g \in Handlers, handler'[g].step = "commenting", ~handler'[g].met
                 PROVE  matter'[handler'[g].on].status # "CLOSED"
      BY DEF CommentsMeet
    <3>1. g # h
      BY <2>5
    <3>2. handler[g].step = "commenting" /\ handler[g].on = handler'[g].on
      BY <2>6, <3>1
    <3>3. handler[g].on \in Matters
      BY <1>t, <3>2, RowFacts
    <3>4. CASE handler[g].on = x
      BY <2>2, <2>6, <3>1, <3>2, <3>4
    <3>5. CASE handler[g].on # x
      BY <2>2, <2>6, <3>1, <3>2, <3>3, <3>5 DEF CommentsMeet
    <3> QED
      BY <3>4, <3>5
  <2>10. LastToldIsStatus'
    <3>1. \A y \in Matters : y = x => h \in UnderWay("telling", y)'
      BY <2>7
    <3>2. \A y \in Matters : y # x /\ y \in doubtful => y \in doubtful'
      BY <2>4
    <3>3. ASSUME NEW y \in Matters, told'[y] # matter'[y].status
          PROVE  y \in doubtful' \/ UnderWay("telling", y)' # {}
      BY <2>2, <2>3, <2>7, <3>1, <3>2, <3>3 DEF LastToldIsStatus
    <3> QED
      BY <3>3 DEF LastToldIsStatus, UnderWay
  <2> QED
    BY <2>3, <2>8, <2>9, <2>10 DEF ClosedByCrossingOnly
<1>6. ASSUME NEW h \in Handlers, Tell(h)
      PROVE  TicketInv'
  <2> DEFINE x == handler[h].on
  <2>1. handler' = [handler EXCEPT ![h] = NoHandler] /\ UNCHANGED <<matter, doubtful, answered>>
    BY <1>6 DEF Tell
  <2>l. (\A g \in Handlers : g # h => handler'[g] = handler[g]) /\ handler'[h].step = "NONE"
    BY <2>1, LetGo
  <2>2. x \in Matters
    BY <1>6, <1>t, RowFacts DEF Tell
  <2>3. \A y \in Matters : told'[y] = IF y = x THEN handler[h].to ELSE told[y]
    BY <1>6, <2>2 DEF Tell, TicketShape, NewStatus
  <2>4. \A y \in Matters : UnderWay("telling", y)' = UnderWay("telling", y) \ {h}
    BY <2>1, LetGo
  <2>5. \A g \in Handlers : g # h /\ handler[g].step = "telling" /\ handler[g].on \notin doubtful
          => handler[g].on # x
    BY <1>6 DEF Tell, OneTeller, UnderWay
  <2>6. OneTeller'
    BY <2>1, <2>l DEF OneTeller
  <2>7. CommentsMeet'
    BY <2>1, <2>l DEF CommentsMeet
  <2>8. LastToldIsStatus'
    <3>1. x \notin doubtful => handler[h].to = matter[x].status
      BY <1>6 DEF Tell, OneTeller
    <3>2. \A y \in Matters : y # x => UnderWay("telling", y)' = UnderWay("telling", y)
      BY <2>4 DEF UnderWay
    <3>3. ASSUME NEW y \in Matters, told'[y] # matter'[y].status
          PROVE  y \in doubtful' \/ UnderWay("telling", y)' # {}
      BY <2>1, <2>3, <3>1, <3>2, <3>3 DEF LastToldIsStatus
    <3> QED
      BY <3>3 DEF LastToldIsStatus, UnderWay
  <2> QED
    BY <2>1, <2>6, <2>7, <2>8 DEF ClosedByCrossingOnly
<1>7. ASSUME NEW h \in Handlers, DropHandler(h)
      PROVE  TicketInv'
  <2> DEFINE x == handler[h].on
  <2>1. handler' = [handler EXCEPT ![h] = NoHandler] /\ UNCHANGED <<matter, told, answered>>
    BY <1>7 DEF DropHandler
  <2>l. (\A g \in Handlers : g # h => handler'[g] = handler[g]) /\ handler'[h].step = "NONE"
    BY <2>1, LetGo
  <2>2. /\ doubtful \subseteq doubtful'
        /\ handler[h].step = "telling" => x \in doubtful'
    BY <1>7 DEF DropHandler
  <2>3. \A y \in Matters : UnderWay("telling", y)' = UnderWay("telling", y) \ {h}
    BY <2>1, LetGo
  <2>4. \A y \in Matters : y \in doubtful' \/ UnderWay("telling", y)' = UnderWay("telling", y)
    BY <2>2, <2>3 DEF UnderWay
  <2>5. OneTeller'
    BY <2>1, <2>2, <2>l DEF OneTeller
  <2>6. CommentsMeet'
    BY <2>1, <2>l DEF CommentsMeet
  <2>7. LastToldIsStatus'
    <3>1. ASSUME NEW y \in Matters, told'[y] # matter'[y].status
          PROVE  y \in doubtful' \/ UnderWay("telling", y)' # {}
      BY <2>1, <2>2, <2>4, <3>1 DEF LastToldIsStatus
    <3> QED
      BY <3>1 DEF LastToldIsStatus, UnderWay
  <2> QED
    BY <2>1, <2>5, <2>6, <2>7 DEF ClosedByCrossingOnly
<1>8. ASSUME UNCHANGED ticketVars
      PROVE  TicketInv'
  BY <1>8 DEF ticketVars, OneTeller, CommentsMeet, LastToldIsStatus, ClosedByCrossingOnly, UnderWay
<1> QED
  BY <1>1, <1>2, <1>3, <1>4, <1>5, <1>6, <1>7, <1>8 DEF TicketNext

(* Whoever raised a matter has last been told its status or soon will be,  *)
(* and a closed ticket takes no comment, but for what crossed: with any    *)
(* number of matters and of changes and comments under way.                *)
THEOREM MattersAnswerTrulyAlways == TicketSpec => []MattersAnswerTruly
<1>1. TicketInit => TicketInv
  BY DEF TicketInit, TicketInv, OneTeller, CommentsMeet, LastToldIsStatus, ClosedByCrossingOnly,
         NoHandler, NotRaised
<1>2. TicketInv => MattersAnswerTruly
  BY DEF TicketInv, MattersAnswerTruly
<1> QED
  BY <1>1, <1>2, TicketShapeHolds, TicketInvStep, PTL DEF TicketSpec

(***************************************************************************)
(* Devices.                                                                *)
(***************************************************************************)
Phone == [user : Users \cup {Nobody}, step : {"out", "registering", "in", "detaching"},
          stored : BOOLEAN, on : Calls \cup {Nobody}]
OnItsWay == [kind : {"register", "unregister"}, user : Users]

(* A phone that waits has a call to wait for, of its kind and its user;    *)
(* only a phone that is in or is leaving has stored a token.               *)
Waits ==
  /\ phone.step \in {"registering", "detaching"} <=> phone.on \in Calls
  /\ phone.step = "out" => phone.user = Nobody
  /\ phone.step # "out" => phone.user \in Users
  /\ phone.stored => phone.step \in {"in", "detaching"}
  /\ \A c \in Calls : phone.on = c /\ call[c] # NoCall =>
       /\ call[c].user = phone.user
       /\ call[c].kind = "register" <=> phone.step = "registering"

(* The row is the phone's user's from the moment a registration arrives    *)
(* until an unregistration does.                                           *)
RowOurs == owner = phone.user \/ late = TRUE
Reached ==
  /\ phone.stored /\ phone.step = "in" => RowOurs
  /\ \A c \in Calls : phone.on = c =>
       /\ phone.step = "registering" /\ call[c] = NoCall => RowOurs
       /\ phone.step = "detaching" /\ call[c] # NoCall => RowOurs
       /\ phone.step = "detaching" /\ call[c] = NoCall =>
            owner # phone.user \/ phone.user \in strayed

DeviceShape ==
  /\ owner \in Users \cup {Nobody}
  /\ phone \in Phone
  /\ call \in [Calls -> {NoCall} \cup OnItsWay]
  /\ push \in [Pushes -> {NoPush} \cup [user : Users, step : {"sending", "cleaning"}]]
  /\ strayed \subseteq Users
  /\ late \in BOOLEAN

DeviceInv == DeviceShape /\ Waits /\ Reached /\ DetachedStaysDetached

LEMMA CallFacts ==
  ASSUME DeviceShape
  PROVE  \A c \in Calls :
           /\ call[c].kind \in {"register", "unregister"} <=> call[c] # NoCall
           /\ call[c] # NoCall => call[c] \in OnItsWay /\ call[c].user \in Users
<1>1. NoCall.kind = "NONE"
  BY DEF NoCall
<1>2. \A w \in OnItsWay : w.kind \in {"register", "unregister"} /\ w.user \in Users
  BY DEF OnItsWay
<1> QED
  BY <1>1, <1>2 DEF DeviceShape

(* What the phone does with no call of its own: it keeps or leaves its     *)
(* session, and whoever leaves with the row has strayed.                   *)
LEMMA PhoneLeaves ==
  ASSUME DeviceInv, phone' = SignedOut, UNCHANGED <<owner, call, push, late>>,
         strayed \subseteq strayed', strayed' \subseteq Users,
         owner # Nobody /\ owner = phone.user => phone.user \in strayed'
  PROVE  DeviceInv'
<1> USE NobodyAssumption
<1>1. /\ phone'.user = Nobody /\ phone'.step = "out" /\ phone'.on = Nobody
      /\ ~phone'.stored /\ phone' \in Phone
  BY DEF SignedOut, Phone
<1>2. DeviceShape'
  BY <1>1 DEF DeviceInv, DeviceShape
<1>3. Waits' /\ Reached'
  BY <1>1 DEF Waits, Reached
<1>4. DetachedStaysDetached'
  BY DEF DeviceInv, DetachedStaysDetached
<1> QED
  BY <1>2, <1>3, <1>4 DEF DeviceInv

LEMMA DeviceStep == DeviceInv /\ [DeviceNext]_deviceVars => DeviceInv'
<1> USE NobodyAssumption
<1> SUFFICES ASSUME DeviceInv, [DeviceNext]_deviceVars
             PROVE  DeviceInv'
  OBVIOUS
<1>s. DeviceShape /\ Waits /\ Reached /\ DetachedStaysDetached
  BY DEF DeviceInv
<1>c. \A c \in Calls :
        /\ call[c].kind \in {"register", "unregister"} <=> call[c] # NoCall
        /\ call[c] # NoCall => call[c] \in OnItsWay /\ call[c].user \in Users
  BY <1>s, CallFacts
<1>1. ASSUME NEW u \in Users, SignIn(u)
      PROVE  DeviceInv'
  <2>1. CASE phone' = [phone EXCEPT !.user = u, !.step = "in"] /\ UNCHANGED call
    <3>1. /\ phone' \in Phone /\ phone'.user = u /\ phone'.step = "in"
          /\ phone'.on = phone.on /\ (phone'.stored <=> phone.stored)
      BY <2>1, <1>s DEF DeviceShape, Phone
    <3>2. UNCHANGED <<owner, push, strayed, late>> /\ phone.step = "out"
      BY <1>1 DEF SignIn
    <3>3. phone.user = Nobody /\ phone.on \notin Calls /\ ~phone.stored
      BY <1>s, <3>2 DEF Waits
    <3>4. DeviceShape'
      BY <1>s, <2>1, <3>1, <3>2 DEF DeviceShape
    <3>5. Waits' /\ Reached'
      BY <3>1, <3>3 DEF Waits, Reached
    <3>6. DetachedStaysDetached'
      BY <1>s, <3>2, <3>3 DEF DetachedStaysDetached
    <3> QED
      BY <3>4, <3>5, <3>6 DEF DeviceInv
  <2>2. ASSUME NEW c \in Calls, call[c] = NoCall,
               call' = [call EXCEPT ![c] = [kind |-> "register", user |-> u]],
               phone' = [phone EXCEPT !.user = u, !.step = "registering", !.on = c]
        PROVE  DeviceInv'
    <3>1. /\ phone' \in Phone /\ phone'.user = u /\ phone'.step = "registering"
          /\ phone'.on = c /\ (phone'.stored <=> phone.stored)
      BY <2>2, <1>s DEF DeviceShape, Phone
    <3>2. UNCHANGED <<owner, push, strayed, late>> /\ phone.step = "out"
      BY <1>1 DEF SignIn
    <3>3. phone.user = Nobody /\ ~phone.stored
      BY <1>s, <3>2 DEF Waits
    <3>4. [kind |-> "register", user |-> u] \in OnItsWay
      BY DEF OnItsWay
    <3>5. DeviceShape'
      BY <1>s, <2>2, <3>1, <3>2, <3>4 DEF DeviceShape
    <3>6. call'[c] = [kind |-> "register", user |-> u] /\ call'[c] # NoCall
      BY <1>s, <2>2 DEF DeviceShape, NoCall
    <3>7. Waits' /\ Reached'
      BY <3>1, <3>3, <3>6 DEF Waits, Reached
    <3>8. DetachedStaysDetached'
      BY <1>s, <3>2, <3>3 DEF DetachedStaysDetached
    <3> QED
      BY <3>5, <3>7, <3>8 DEF DeviceInv
  <2> QED
    BY <1>1, <2>1, <2>2 DEF SignIn
<1>2. CASE Registered
  <2>1. /\ phone' \in Phone /\ phone'.user = phone.user /\ phone'.step = "in"
        /\ phone'.on = Nobody /\ phone'.stored
    BY <1>2, <1>s DEF Registered, DeviceShape, Phone
  <2>2. phone.step = "registering" /\ UNCHANGED <<owner, call, push, strayed, late>>
    BY <1>2 DEF Registered
  <2>3. RowOurs
    BY <1>2, <1>s DEF Registered, Arrived, Waits, Reached
  <2>4. DeviceShape'
    BY <1>s, <2>1, <2>2 DEF DeviceShape
  <2>5. Waits' /\ Reached'
    BY <1>s, <2>1, <2>2, <2>3 DEF Waits, Reached, RowOurs
  <2>6. DetachedStaysDetached'
    BY <1>s, <2>1, <2>2 DEF DetachedStaysDetached
  <2> QED
    BY <2>4, <2>5, <2>6 DEF DeviceInv
<1>3. CASE RegistrationFails
  <2>1. /\ phone' \in Phone /\ phone'.user = phone.user /\ phone'.step = "in"
        /\ phone'.on = Nobody /\ (phone'.stored <=> phone.stored)
    BY <1>3, <1>s DEF RegistrationFails, DeviceShape, Phone
  <2>2. phone.step = "registering" /\ UNCHANGED <<owner, call, push, strayed, late>>
    BY <1>3 DEF RegistrationFails
  <2>3. ~phone.stored
    BY <1>s, <2>2 DEF Waits
  <2>4. DeviceShape'
    BY <1>s, <2>1, <2>2 DEF DeviceShape
  <2>5. Waits' /\ Reached'
    BY <1>s, <2>1, <2>2, <2>3 DEF Waits, Reached
  <2>6. DetachedStaysDetached'
    BY <1>s, <2>1, <2>2 DEF DetachedStaysDetached
  <2> QED
    BY <2>4, <2>5, <2>6 DEF DeviceInv
<1>4. CASE SignOut
  <2>0. phone.step = "in" /\ phone.user \in Users /\ UNCHANGED <<owner, push, late>>
    BY <1>4, <1>s DEF SignOut, Waits
  <2>1. CASE ~phone.stored
    BY <1>4, <1>s, <2>0, <2>1, PhoneLeaves DEF SignOut, SessionCleared, DeviceShape
  <2>2. CASE phone.stored
    <3>1. PICK c \in Calls :
            /\ call[c] = NoCall
            /\ call' = [call EXCEPT ![c] = [kind |-> "unregister", user |-> phone.user]]
            /\ phone' = [phone EXCEPT !.step = "detaching", !.on = c]
      BY <1>4, <2>2 DEF SignOut
    <3>2. /\ phone' \in Phone /\ phone'.user = phone.user /\ phone'.step = "detaching"
          /\ phone'.on = c /\ (phone'.stored <=> phone.stored)
      BY <3>1, <1>s DEF DeviceShape, Phone
    <3>3. strayed' = strayed
      BY <1>4, <2>2 DEF SignOut
    <3>4. [kind |-> "unregister", user |-> phone.user] \in OnItsWay
      BY <2>0 DEF OnItsWay
    <3>5. DeviceShape'
      BY <1>s, <2>0, <3>1, <3>2, <3>3, <3>4 DEF DeviceShape
    <3>6. call'[c] = [kind |-> "unregister", user |-> phone.user] /\ call'[c] # NoCall
      BY <1>s, <3>1 DEF DeviceShape, NoCall
    <3>7. RowOurs
      BY <1>s, <2>0, <2>2 DEF Reached
    <3>8. Waits'
      BY <2>0, <3>2, <3>6 DEF Waits
    <3>9. Reached'
      BY <2>0, <3>2, <3>6, <3>7 DEF Reached, RowOurs
    <3>10. DetachedStaysDetached'
      BY <1>s, <2>0, <3>2, <3>3 DEF DetachedStaysDetached
    <3> QED
      BY <3>5, <3>8, <3>9, <3>10 DEF DeviceInv
  <2> QED
    BY <2>1, <2>2
<1>5. CASE Detached
  <2>1. phone.step = "detaching" /\ phone.on \in Calls /\ call[phone.on] = NoCall
    BY <1>5, <1>s DEF Detached, Arrived, Waits
  <2>2. owner # phone.user \/ phone.user \in strayed
    BY <1>s, <2>1 DEF Reached
  <2>3. phone' = SignedOut /\ UNCHANGED <<owner, call, push, strayed, late>>
    BY <1>5 DEF Detached, SessionCleared
  <2> QED
    BY <1>s, <2>2, <2>3, PhoneLeaves DEF DeviceShape
<1>6. CASE DetachFails \/ SessionEnds
  <2>1. /\ phone' = SignedOut /\ strayed' = strayed \cup {phone.user}
        /\ phone.step # "out" /\ UNCHANGED <<owner, call, push, late>>
    BY <1>6 DEF DetachFails, SessionEnds, SessionCleared
  <2>2. phone.user \in Users
    BY <1>s, <2>1 DEF Waits
  <2> QED
    BY <1>s, <2>1, <2>2, PhoneLeaves DEF DeviceShape
<1>7. CASE Reopened
  <2>1. /\ phone' \in Phone /\ phone'.user = phone.user /\ phone'.step = "in"
        /\ phone'.on = Nobody
    BY <1>7, <1>s DEF Reopened, DeviceShape, Phone
  <2>2. phone.step = "detaching" /\ UNCHANGED <<owner, call, push, strayed>>
    BY <1>7 DEF Reopened
  <2>3. phone.on \in Calls
    BY <1>s, <2>2 DEF Waits
  <2>4. late' \in BOOLEAN /\ (late = TRUE => late' = TRUE)
        /\ (call[phone.on] = NoCall => late' = TRUE)
    BY <1>7, <1>s DEF Reopened, Arrived, DeviceShape
  <2>5. owner = phone.user \/ late' = TRUE
    BY <1>s, <2>2, <2>3, <2>4 DEF Reached, RowOurs
  <2>6. DeviceShape'
    BY <1>s, <2>1, <2>2, <2>4 DEF DeviceShape
  <2>7. Waits' /\ Reached'
    BY <1>s, <2>1, <2>2, <2>5 DEF Waits, Reached, RowOurs
  <2>8. DetachedStaysDetached'
    BY <1>s, <2>1, <2>2 DEF DetachedStaysDetached
  <2> QED
    BY <2>6, <2>7, <2>8 DEF DeviceInv
<1>8. ASSUME NEW c \in Calls, Register(c)
      PROVE  DeviceInv'
  <2>1. /\ call[c].kind = "register" /\ call[c] # NoCall /\ call[c].user \in Users
        /\ owner' = call[c].user /\ UNCHANGED <<phone, push>>
    BY <1>8, <1>c DEF Register
  <2>2. \A d \in Calls : call'[d] = IF d = c THEN NoCall ELSE call[d]
    BY <1>8, <1>s DEF Register, DeviceShape
  <2>3. late' \in BOOLEAN /\ (late = TRUE => late' = TRUE) /\ (phone.on # c => late' = TRUE)
    BY <1>8, <1>s DEF Register, DeviceShape
  <2>4. /\ strayed \subseteq strayed' /\ strayed' \subseteq Users
        /\ phone.on # c => call[c].user \in strayed'
    BY <1>8, <1>s, <2>1 DEF Register, DeviceShape
  <2>5. phone.on = c => call[c].user = phone.user /\ phone.step = "registering"
    BY <1>s, <2>1 DEF Waits
  <2>6. DeviceShape'
    BY <1>8, <1>s, <2>1, <2>3, <2>4 DEF Register, DeviceShape
  <2>7. Waits'
    BY <1>s, <2>1, <2>2 DEF Waits
  <2>8. Reached'
    BY <1>s, <2>1, <2>2, <2>3, <2>4, <2>5 DEF Waits, Reached, RowOurs
  <2>9. DetachedStaysDetached'
    BY <1>s, <2>1, <2>4, <2>5 DEF DetachedStaysDetached
  <2> QED
    BY <2>6, <2>7, <2>8, <2>9 DEF DeviceInv
<1>9. ASSUME NEW c \in Calls, Unregister(c)
      PROVE  DeviceInv'
  <2>1. /\ call[c].kind = "unregister" /\ call[c] # NoCall /\ call[c].user \in Users
        /\ UNCHANGED <<phone, push, strayed>>
    BY <1>9, <1>c DEF Unregister
  <2>2. \A d \in Calls : call'[d] = IF d = c THEN NoCall ELSE call[d]
    BY <1>9, <1>s DEF Unregister, DeviceShape
  <2>3. late' \in BOOLEAN /\ (late = TRUE => late' = TRUE)
        /\ (phone.on # c /\ phone.user = call[c].user => late' = TRUE)
    BY <1>9, <1>s DEF Unregister, DeviceShape
  <2>4. owner' = IF owner = call[c].user THEN Nobody ELSE owner
    BY <1>9 DEF Unregister, MayDetach
  <2>5. phone.on = c => call[c].user = phone.user /\ phone.step = "detaching"
    BY <1>s, <2>1 DEF Waits
  <2>6. DeviceShape'
    BY <1>9, <1>s, <2>1, <2>3, <2>4 DEF Unregister, DeviceShape
  <2>7. Waits'
    BY <1>s, <2>1, <2>2 DEF Waits
  <2>8. RowOurs /\ phone.on # c => RowOurs'
    BY <2>1, <2>3, <2>4 DEF RowOurs
  <2>9. Reached'
    <3>1. phone.stored /\ phone.step = "in" => RowOurs'
      BY <1>s, <2>5, <2>8 DEF Reached
    <3>2. ASSUME NEW d \in Calls, phone.on = d
          PROVE  /\ phone.step = "registering" /\ call'[d] = NoCall => RowOurs'
                 /\ phone.step = "detaching" /\ call'[d] # NoCall => RowOurs'
                 /\ phone.step = "detaching" /\ call'[d] = NoCall =>
                      owner' # phone.user \/ phone.user \in strayed
      <4>1. CASE d = c
        <5>1. phone.user \in Users /\ phone.step = "detaching" /\ call'[d] = NoCall
          BY <1>s, <2>2, <2>5, <3>2, <4>1 DEF Waits
        <5>2. owner' # phone.user
          BY <2>4, <2>5, <3>2, <4>1, <5>1
        <5> QED
          BY <5>1, <5>2
      <4>2. CASE d # c
        <5>1. call'[d] = call[d]
          BY <2>2, <4>2
        <5>2. phone.step = "detaching" => phone.user \in Users
          BY <1>s DEF Waits
        <5> QED
          BY <1>s, <2>4, <2>8, <3>2, <4>2, <5>1, <5>2 DEF Reached
      <4> QED
        BY <4>1, <4>2
    <3> QED
      BY <2>1, <3>1, <3>2 DEF Reached
  <2>10. DetachedStaysDetached'
    BY <1>s, <2>1, <2>4 DEF DetachedStaysDetached
  <2> QED
    BY <2>6, <2>7, <2>9, <2>10 DEF DeviceInv
<1>10. ASSUME NEW c \in Calls, LoseCall(c)
       PROVE  DeviceInv'
  <2>1. phone.on # c /\ UNCHANGED <<owner, phone, push, strayed, late>>
    BY <1>10 DEF LoseCall
  <2>2. \A d \in Calls : call'[d] = IF d = c THEN NoCall ELSE call[d]
    BY <1>10, <1>s DEF LoseCall, DeviceShape
  <2>3. DeviceShape'
    BY <1>10, <1>s, <2>1 DEF LoseCall, DeviceShape
  <2>4. Waits'
    BY <1>s, <2>1, <2>2 DEF Waits
  <2>5. Reached'
    BY <1>s, <2>1, <2>2 DEF Reached, RowOurs
  <2>6. DetachedStaysDetached'
    BY <1>s, <2>1 DEF DetachedStaysDetached
  <2> QED
    BY <2>3, <2>4, <2>5, <2>6 DEF DeviceInv
<1>11. ASSUME NEW p \in Pushes,
              Send(p) \/ (\E u \in Users : LookUp(p, u))
       PROVE  DeviceInv'
  <2>1. UNCHANGED <<owner, phone, call, strayed, late>>
    BY <1>11 DEF Send, LookUp
  <2>2. push' \in [Pushes -> {NoPush} \cup [user : Users, step : {"sending", "cleaning"}]]
    <3>1. CASE Send(p)
      <4>1. push[p] \in [user : Users, step : {"sending", "cleaning"}]
        BY <3>1, <1>s DEF Send, DeviceShape, NoPush
      <4> QED
        BY <3>1, <1>s, <4>1 DEF Send, DeviceShape
    <3>2. ASSUME NEW u \in Users, LookUp(p, u)
          PROVE  push' \in [Pushes -> {NoPush} \cup [user : Users, step : {"sending", "cleaning"}]]
      BY <3>2, <1>s DEF LookUp, DeviceShape
    <3> QED
      BY <1>11, <3>1, <3>2
  <2>3. DeviceShape'
    BY <1>s, <2>1, <2>2 DEF DeviceShape
  <2>4. Waits' /\ Reached' /\ DetachedStaysDetached'
    BY <1>s, <2>1 DEF Waits, Reached, RowOurs, DetachedStaysDetached
  <2> QED
    BY <2>3, <2>4 DEF DeviceInv
<1>12. ASSUME NEW p \in Pushes, DropInvalid(p)
       PROVE  DeviceInv'
  <2>1. owner' = Nobody /\ UNCHANGED <<phone, call, strayed>>
    BY <1>12 DEF DropInvalid
  <2>2. late' \in BOOLEAN /\ (late = TRUE => late' = TRUE) /\ (phone.step # "out" => late' = TRUE)
    BY <1>12, <1>s DEF DropInvalid, DeviceShape
  <2>3. DeviceShape'
    BY <1>12, <1>s, <2>1, <2>2 DEF DropInvalid, DeviceShape
  <2>4. Waits'
    BY <1>s, <2>1 DEF Waits
  <2>5. Reached'
    <3>1. phone.step # "out" => phone.user # Nobody
      BY <1>s DEF Waits
    <3> QED
      BY <2>1, <2>2, <3>1 DEF Reached, RowOurs
  <2>6. DetachedStaysDetached'
    BY <2>1 DEF DetachedStaysDetached
  <2> QED
    BY <2>3, <2>4, <2>5, <2>6 DEF DeviceInv
<1>13. CASE UNCHANGED deviceVars
  BY <1>s, <1>13 DEF deviceVars, DeviceInv, DeviceShape, Waits, Reached, RowOurs,
                     DetachedStaysDetached
<1> QED
  BY <1>1, <1>2, <1>3, <1>4, <1>5, <1>6, <1>7, <1>8, <1>9, <1>10, <1>11, <1>12, <1>13
  DEF DeviceNext

LEMMA DeviceInvHolds == DeviceSpec => []DeviceInv
<1>1. DeviceInit => DeviceInv
  <2> SUFFICES ASSUME DeviceInit
               PROVE  DeviceInv
    OBVIOUS
  <2>1. /\ phone.user = Nobody /\ phone.step = "out" /\ phone.on = Nobody
        /\ ~phone.stored /\ phone \in Phone
    BY DEF DeviceInit, SignedOut, Phone
  <2>2. DeviceShape
    BY <2>1 DEF DeviceInit, DeviceShape
  <2>3. Waits /\ Reached
    BY <2>1, NobodyAssumption DEF Waits, Reached
  <2>4. DetachedStaysDetached
    BY DEF DeviceInit, DetachedStaysDetached
  <2> QED
    BY <2>2, <2>3, <2>4 DEF DeviceInv
<1> QED
  BY <1>1, DeviceStep, PTL DEF DeviceSpec

(* The handset, its calls and its row keep their shape.                    *)
THEOREM DeviceTypeCorrect == DeviceSpec => []DeviceTypeOK
<1>1. DeviceInv => DeviceTypeOK
  BY NobodyAssumption DEF DeviceInv, DeviceShape, Waits, DeviceTypeOK, Phone, OnItsWay
<1> QED
  BY <1>1, DeviceInvHolds, PTL

(* Notifications follow whoever is signed in on the handset, unless        *)
(* somebody left without detaching or a call outlived its occasion: for    *)
(* any number of users, of calls on their way and of pushes being sent.    *)
THEOREM NotificationsFollowThePhoneAlways == DeviceSpec => []NotificationsFollowThePhone
<1>1. DeviceInv => NotificationsFollowThePhone
  BY DEF DeviceInv, DeviceShape, Reached, RowOurs, RegisteredIsReached,
         NotificationsFollowThePhone
<1> QED
  BY <1>1, DeviceInvHolds, PTL

(***************************************************************************)
(* The whole office.                                                       *)
(***************************************************************************)

(* Every step of the whole is a step of each service, or leaves it alone.  *)
LEMMA OfficeKeepsEach ==
  OfficeSpec => /\ TimetableSpec /\ LessonSpec /\ GradebookSpec
                /\ TemplateSpec /\ EnrolmentSpec /\ TicketSpec /\ DeviceSpec
<1>1. OfficeInit => /\ TimetableInit /\ LessonInit /\ GradebookInit
                    /\ TemplateInit /\ EnrolmentInit /\ TicketInit /\ DeviceInit
  BY DEF OfficeInit
<1>2. [OfficeNext]_officeVars =>
        /\ [TimetableNext]_timetableVars /\ [LessonNext]_lessonVars
        /\ [GradebookNext]_gradebookVars /\ [TemplateNext]_templateVars
        /\ [EnrolmentNext]_enrolmentVars /\ [TicketNext]_ticketVars /\ [DeviceNext]_deviceVars
  BY DEF OfficeNext, TimetableTurn, LessonTurn, GradebookTurn, TemplateTurn, EnrolmentTurn,
         TicketTurn, DeviceTurn, officeVars, timeVars, peopleVars, contactVars
<1> QED
  BY <1>1, <1>2, PTL DEF OfficeSpec, TimetableSpec, LessonSpec, GradebookSpec, TemplateSpec,
                         EnrolmentSpec, TicketSpec, DeviceSpec

(* With the whole office at work, rows and requests keep their shape and   *)
(* whatever a row points to exists.                                        *)
THEOREM OfficeTablesCorrect == OfficeSpec => []OfficeTablesOK
BY OfficeKeepsEach, TimetableTypeCorrect, LessonTypeCorrect, GradebookTypeCorrect,
   TemplateTypeCorrect, EnrolmentTypeCorrect, TicketTypeCorrect, DeviceTypeCorrect, PTL
   DEF OfficeTablesOK
=============================================================================
