------------------------------ MODULE Tickets ------------------------------
(***************************************************************************)
(* Support tickets, which schools raise with the platform, and complaints, *)
(* which families raise with their school: a status that staff set, the    *)
(* time at which the matter was resolved, comments, and pushes that tell   *)
(* whoever raised it.  Comments and changes read the row first and write   *)
(* in a second round trip; the push is sent after that.                    *)
(***************************************************************************)

CONSTANTS
    SupportTickets,  \* ids of support tickets
    Complaints,      \* ids of complaints
    Handlers,        \* comments and changes under way at once
    NoMatter

Matters == SupportTickets \union Complaints

ASSUME TicketsAssumption ==
    /\ SupportTickets \intersect Complaints = {}
    /\ NoMatter \notin Matters

VARIABLES
    matter,    \* Matters -> status, whether resolvedAt is set, and comments
    handler,   \* Handlers -> a comment or a change under way
    told,      \* Matters -> the status the last push has told
    doubtful,  \* history: matters whose pushes overlapped or were lost
    answered   \* history: matters that took a comment from a request that had found them closed

ticketVars == <<matter, handler, told, doubtful, answered>>

SupportTicketStatuses == {"OPEN", "IN_PROGRESS", "WAITING_ON_SCHOOL", "RESOLVED", "CLOSED"}
ComplaintStatuses == {"OPEN", "IN_PROGRESS", "RESOLVED"}
StatusesOf(x) == IF x \in SupportTickets THEN SupportTicketStatuses ELSE ComplaintStatuses

NotRaised == [status |-> "NONE", resolved |-> FALSE]
NoHandler == [step |-> "NONE", on |-> NoMatter, to |-> "NONE", was |-> "NONE", met |-> FALSE]

TicketInit ==
    /\ matter = [x \in Matters |-> NotRaised]
    /\ handler = [h \in Handlers |-> NoHandler]
    /\ told = [x \in Matters |-> "NONE"]
    /\ doubtful = {}
    /\ answered = {}

(* Requests past their first step on x. *)
UnderWay(step, x) == {h \in Handlers : handler[h].step = step /\ handler[h].on = x}

(* Whoever raises a matter knows that it is open. *)
Raise(x) ==
    /\ matter[x] = NotRaised
    /\ matter' = [matter EXCEPT ![x].status = "OPEN"]
    /\ told' = [told EXCEPT ![x] = "OPEN"]
    /\ UNCHANGED <<handler, doubtful, answered>>

-----------------------------------------------------------------------------
(* assertVisible: a closed ticket takes no comment.  Complaints never close. *)
Open(x) == matter[x] # NotRaised /\ matter[x].status # "CLOSED"

CheckComment(h, x) ==
    /\ handler[h] = NoHandler
    /\ Open(x)
    /\ handler' = [handler EXCEPT ![h] = [NoHandler EXCEPT !.step = "commenting", !.on = x]]
    /\ UNCHANGED <<matter, told, doubtful, answered>>

(* met: the ticket was closed since the comment looked. *)
AddComment(h) ==
    LET x == handler[h].on IN
    /\ handler[h].step = "commenting"
    /\ answered' = IF matter[x].status = "CLOSED" /\ ~handler[h].met
                   THEN answered \union {x} ELSE answered
    /\ handler' = [handler EXCEPT ![h] = NoHandler]
    /\ UNCHANGED <<matter, told, doubtful>>

-----------------------------------------------------------------------------
ReadToChange(h, x, s) ==
    /\ handler[h] = NoHandler
    /\ matter[x] # NotRaised
    /\ handler' = [handler EXCEPT ![h] =
         [step |-> "changing", on |-> x, to |-> s, was |-> matter[x].status, met |-> FALSE]]
    /\ UNCHANGED <<matter, told, doubtful, answered>>

(* Stamped on the way in, cleared on the way out. *)
Stamp(x, s) == s \in {"RESOLVED", "CLOSED"}

(* One update, whatever the status has become since. *)
Change(h) ==
    LET x == handler[h].on
        s == handler[h].to
    IN
    /\ handler[h].step = "changing"
    /\ matter' = [matter EXCEPT ![x] = [status |-> s, resolved |-> Stamp(x, s)]]
    /\ handler' = [g \in Handlers |->
         IF g = h THEN [handler[h] EXCEPT !.step = "telling"]
         ELSE IF g \in UnderWay("commenting", x) /\ s = "CLOSED" THEN [handler[g] EXCEPT !.met = TRUE]
         ELSE handler[g]]
    /\ doubtful' = IF UnderWay("telling", x) = {} THEN doubtful \ {x} ELSE doubtful \union {x}
    /\ UNCHANGED <<told, answered>>

(* Broken variant: tells the status that was read. *)
OldStatus(h) == handler[h].was

NewStatus(h) == handler[h].to

(* The push tells the status that was asked for. *)
Tell(h) ==
    /\ handler[h].step = "telling"
    /\ told' = [told EXCEPT ![handler[h].on] = NewStatus(h)]
    /\ handler' = [handler EXCEPT ![h] = NoHandler]
    /\ UNCHANGED <<matter, doubtful, answered>>

(* The request dies, or the push fails, which nobody is told. *)
DropHandler(h) ==
    /\ handler[h] # NoHandler
    /\ handler' = [handler EXCEPT ![h] = NoHandler]
    /\ doubtful' = IF handler[h].step = "telling" THEN doubtful \union {handler[h].on} ELSE doubtful
    /\ UNCHANGED <<matter, told, answered>>

TicketNext ==
    \/ \E x \in Matters :
         \/ Raise(x)
         \/ \E h \in Handlers : CheckComment(h, x) \/ \E s \in StatusesOf(x) : ReadToChange(h, x, s)
    \/ \E h \in Handlers : AddComment(h) \/ Change(h) \/ Tell(h) \/ DropHandler(h)

TicketSpec == TicketInit /\ [][TicketNext]_ticketVars

-----------------------------------------------------------------------------
(* Types; a matter has a time of resolution exactly while it is resolved or *)
(* closed ("so the timestamp never describes a state the ticket isn't in",  *)
(* SupportService.update).                                                 *)
TicketTypeOK ==
    /\ \A x \in Matters :
         /\ matter[x] = NotRaised \/ matter[x].status \in StatusesOf(x)
         /\ matter[x].resolved <=> matter[x].status \in {"RESOLVED", "CLOSED"}
    /\ handler \in [Handlers -> {NoHandler} \union
         [step : {"commenting", "changing", "telling"}, on : Matters,
          to : SupportTicketStatuses \union {"NONE"}, was : SupportTicketStatuses \union {"NONE"},
          met : BOOLEAN]]
    /\ \A x \in Matters : told[x] \in StatusesOf(x) \union {"NONE"}

(* Whoever raised a matter has last been told its status, is about to be,   *)
(* or was told of two changes at once or lost a push (update, updateStatus: *)
(* the push is sent after the write and not in its order).                 *)
LastToldIsStatus ==
    \A x \in Matters :
      told[x] # matter[x].status => x \in doubtful \/ UnderWay("telling", x) # {}

(* A comment lands on a closed ticket only if the ticket was closed while   *)
(* the comment was on its way (addComment, assertVisible).                 *)
ClosedByCrossingOnly == answered = {}

(* What schools and families see of a matter: its pushes and its comments   *)
(* fit its status, but for the crossings the two name.                     *)
MattersAnswerTruly == LastToldIsStatus /\ ClosedByCrossingOnly
=============================================================================
