--------------------------- MODULE RoleTemplates ---------------------------
(***************************************************************************)
(* Access templates of a school.  Each is for one role and narrows what    *)
(* the users of that role who hold it may do; PermissionGuard refuses      *)
(* everything to a user whose template is for another role.  A change      *)
(* counts the holders before it writes, an assignment compares the roles   *)
(* before it writes, and each looks at what the other one writes.  Which   *)
(* capabilities a template lists makes no difference to that.              *)
(***************************************************************************)
EXTENDS FiniteSets

CONSTANTS
    Templates,     \* ids of templates
    People,        \* users that can be templated
    RoleOf,        \* People -> the role of a user: nothing changes it
    Admins,        \* requests of administrators under way at once
    NoTemplate,    \* roleTemplateId null
    NoRole,        \* baseRole of a template that does not exist yet
    Gone,          \* baseRole of one that was deleted: its id does not come back
    NoPerson

Roles == {RoleOf[u] : u \in People}

ASSUME RoleTemplatesAssumption ==
    /\ NoTemplate \notin Templates
    /\ NoRole \notin Roles /\ Gone \notin Roles /\ Gone # NoRole
    /\ NoPerson \notin People

VARIABLES
    baseRole,  \* Templates -> the role it is for, NoRole or Gone
    holding,   \* People -> the template a user holds, or NoTemplate
    admin,     \* Admins -> a request under way
    crossed    \* history: templates changed while they were being assigned

templateVars == <<baseRole, holding, admin, crossed>>

Idle == [kind |-> "NONE", on |-> NoTemplate, role |-> NoRole, who |-> NoPerson, met |-> FALSE]

TemplateInit ==
    /\ baseRole = [t \in Templates |-> NoRole]
    /\ holding = [u \in People |-> NoTemplate]
    /\ admin = [a \in Admins |-> Idle]
    /\ crossed = {}

Exists(t) == baseRole[t] \in Roles

Holders(t) == {u \in People : holding[u] = t}

(* Requests of a kind that are past their check of t. *)
PastCheck(kind, t) == {a \in Admins : admin[a].kind = kind /\ admin[a].on = t}

-----------------------------------------------------------------------------
Create(t, r) ==
    /\ baseRole[t] = NoRole
    /\ baseRole' = [baseRole EXCEPT ![t] = r]
    /\ UNCHANGED <<holding, admin, crossed>>

(* Broken variant: forgets to look who holds it. *)
NobodyAsked(t, r) == TRUE

(* A base role may be changed while nobody holds the template. *)
MayRebase(t, r) == baseRole[t] # r => Holders(t) = {}

(* own and, for another role, the count. *)
CheckUpdate(a, t, r) ==
    /\ admin[a] = Idle
    /\ Exists(t)
    /\ MayRebase(t, r)
    /\ admin' = [admin EXCEPT ![a] = [kind |-> "update", on |-> t, role |-> r,
                                      who |-> NoPerson, met |-> PastCheck("assign", t) # {}]]
    /\ UNCHANGED <<baseRole, holding, crossed>>

WriteUpdate(a) ==
    LET t == admin[a].on IN
    /\ admin[a].kind = "update"
    /\ Exists(t)
    /\ baseRole' = [baseRole EXCEPT ![t] = admin[a].role]
    /\ crossed' = IF admin[a].met THEN crossed \union {t} ELSE crossed
    /\ admin' = [admin EXCEPT ![a] = Idle]
    /\ UNCHANGED holding

(* The foreign key: ON DELETE SET NULL. *)
Freed(t) == [u \in People |-> IF holding[u] = t THEN NoTemplate ELSE holding[u]]

RemoveTemplate(t) ==
    /\ Exists(t)
    /\ baseRole' = [baseRole EXCEPT ![t] = Gone]
    /\ holding' = Freed(t)
    /\ UNCHANGED <<admin, crossed>>

-----------------------------------------------------------------------------
SameRole(t, u) == baseRole[t] = RoleOf[u]

(* assign: the target, then the template and its role.  An update under way *)
(* has met an assignment from now on.                                      *)
CheckAssign(a, t, u) ==
    /\ admin[a] = Idle
    /\ Exists(t)
    /\ SameRole(t, u)
    /\ admin' = [b \in Admins |->
         IF b = a THEN [kind |-> "assign", on |-> t, role |-> NoRole, who |-> u, met |-> FALSE]
         ELSE IF b \in PastCheck("update", t) THEN [admin[b] EXCEPT !.met = TRUE]
         ELSE admin[b]]
    /\ UNCHANGED <<baseRole, holding, crossed>>

WriteAssign(a) ==
    /\ admin[a].kind = "assign"
    /\ Exists(admin[a].on)
    /\ holding' = [holding EXCEPT ![admin[a].who] = admin[a].on]
    /\ admin' = [admin EXCEPT ![a] = Idle]
    /\ UNCHANGED <<baseRole, crossed>>

(* The row went meanwhile, the name is taken, or the request dies. *)
DropRequest(a) ==
    /\ admin[a] # Idle
    /\ admin' = [admin EXCEPT ![a] = Idle]
    /\ UNCHANGED <<baseRole, holding, crossed>>

(* assign with null, and clearForUser. *)
Clear(u) ==
    /\ holding[u] # NoTemplate
    /\ holding' = [holding EXCEPT ![u] = NoTemplate]
    /\ UNCHANGED <<baseRole, admin, crossed>>

TemplateNext ==
    \/ \E t \in Templates, r \in Roles :
         \/ Create(t, r)
         \/ \E a \in Admins : CheckUpdate(a, t, r)
    \/ \E t \in Templates : RemoveTemplate(t)
    \/ \E a \in Admins : WriteUpdate(a) \/ WriteAssign(a) \/ DropRequest(a)
    \/ \E a \in Admins, t \in Templates, u \in People : CheckAssign(a, t, u)
    \/ \E u \in People : Clear(u)

TemplateSpec == TemplateInit /\ [][TemplateNext]_templateVars
-----------------------------------------------------------------------------
TemplateTypeOK ==
    /\ baseRole \in [Templates -> Roles \union {NoRole, Gone}]
    /\ holding \in [People -> Templates \union {NoTemplate}]
    /\ \A u \in People : holding[u] # NoTemplate => Exists(holding[u])
    /\ admin \in [Admins -> {Idle}
         \union [kind : {"update"}, on : Templates, role : Roles, who : {NoPerson}, met : BOOLEAN]
         \union [kind : {"assign"}, on : Templates, role : {NoRole}, who : People, met : {FALSE}]]
    /\ crossed \subseteq Templates

(* PermissionGuard: "your access template no longer matches your role". *)
LockedOut(u) == holding[u] # NoTemplate /\ baseRole[holding[u]] # RoleOf[u]

(* Nobody is locked out by a template that is for another role than theirs, *)
(* except by one that was changed while it was being assigned to somebody:  *)
(* update counts and assign compares, each a round trip before it writes.   *)
LockedOutByCrossingOnly ==
    \A u \in People : LockedOut(u) => holding[u] \in crossed
=============================================================================
