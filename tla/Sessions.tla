------------------------------ MODULE Sessions ------------------------------
(***************************************************************************)
(* Staying signed in: the refresh of expired access tokens as the API does *)
(* it (apps/api/src/auth/auth.service.ts) and as the client shared by web  *)
(* and phone asks for it (packages/api-client/src/client.ts).  The tokens  *)
(* of one account on one device are in a storage that all tabs of the      *)
(* browser share; the promise that joins concurrent refreshes is each      *)
(* tab's own.                                                              *)
(*                                                                         *)
(* Access tokens need no variable: one lasts minutes, may run out at any   *)
(* moment, and shows only in that a request is refused with 401.  Ids of   *)
(* refresh tokens that no tab or storage knows any more are given again,   *)
(* which keeps the model finite without an end of time.                    *)
(***************************************************************************)
EXTENDS Naturals, FiniteSetsExt

CONSTANTS
    Tabs,
    Requests,   \* requests to the API that can overlap
    TabOf,      \* the tab a request belongs to
    MaxTokens,  \* ids of RefreshToken
    None

ASSUME TabOfAssumption == TabOf \in [Requests -> Tabs]
(* Enough for what is stored and, of each tab, the token it has posted and *)
(* the one it is given.                                                    *)
ASSUME MaxTokensAssumption ==
    IsFiniteSet(Tabs) /\ MaxTokens \in Nat /\ MaxTokens > 2 * Cardinality(Tabs)
ASSUME SessionNoneAssumption == None \notin Nat /\ None \notin Requests

Tokens == 1..MaxTokens

VARIABLES
    live,      \* refresh tokens the API would exchange: not revoked, not past
               \* expiresAt, the account active and its school TRIAL or ACTIVE
    stored,    \* the refresh token in the device's storage
    request,   \* request[r]: a request of a tab, and its retry
    inFlight,  \* inFlight[x]: refreshInFlight of a tab, as the request that began it
    flight,    \* flight[r]: the refresh that r began, client and API together
    excused    \* something has happened that may cost the user the session:
               \* an answer was lost, a tab was closed half way, two tabs used
               \* one refresh token, or the session was ended (history)

sessionVars == <<live, stored, request, inFlight, flight, excused>>

NoRequest == [step |-> "idle", retry |-> FALSE, waitsFor |-> None]
NoFlight == [step |-> "idle", token |-> None, new |-> None]

(* The user has signed in. *)
SessionInit ==
    /\ live = {1}
    /\ stored = 1
    /\ request = [r \in Requests |-> NoRequest]
    /\ inFlight = [x \in Tabs |-> None]
    /\ flight = [r \in Requests |-> NoFlight]
    /\ excused = FALSE

Known == {stored} \cup {flight[r].token : r \in Requests} \cup {flight[r].new : r \in Requests}
Unknown == Tokens \ Known
Flying(r) == flight[r].step \notin {"idle", "over"}

------------------------------------------------------------------------------
(* The tokens run out, resetPassword revokes all of them, or the account   *)
(* or its school is barred.                                                *)
EndSession ==
    /\ live' = {}
    /\ excused' = TRUE
    /\ UNCHANGED <<stored, request, inFlight, flight>>

------------------------------------------------------------------------------
(* A request: request(), upload() and requestText() do the same. *)
Start(r) ==
    /\ request[r].step = "idle"
    /\ request' = [request EXCEPT ![r].step = "sent"]
    /\ UNCHANGED <<live, stored, inFlight, flight, excused>>

(* Any answer but a first 401 ends it. *)
Answered(r) ==
    /\ request[r].step = "sent"
    /\ request' = [request EXCEPT ![r] = NoRequest]
    /\ UNCHANGED <<live, stored, inFlight, flight, excused>>

(* Broken variant: nobody looks whether a refresh is under way. *)
AlwaysOwnFlight(r) == TRUE
MustBeginFlight(r) == inFlight[TabOf[r]] = None

(* 401: begin a refresh, or wait for the one under way. *)
Refused(r) ==
    LET x == TabOf[r]
    IN  /\ request[r].step = "sent"
        /\ ~request[r].retry
        /\ IF MustBeginFlight(r)
           THEN /\ inFlight' = [inFlight EXCEPT ![x] = r]
                /\ flight' = [flight EXCEPT ![r].step = "reading"]
           ELSE UNCHANGED <<inFlight, flight>>
        /\ request' = [request EXCEPT ![r].step = "waiting", ![r].waitsFor = inFlight'[x]]
        /\ UNCHANGED <<live, stored, excused>>

------------------------------------------------------------------------------
(* The refresh.  The client reads the stored token and posts it ... *)
Over(r, new) == flight' = [flight EXCEPT ![r] = [step |-> "over", token |-> None, new |-> new]]

ReadRefreshToken(r) ==
    /\ flight[r].step = "reading"
    /\ IF stored = None THEN Over(r, None) ELSE
          flight' = [flight EXCEPT ![r].step = "asking", ![r].token = stored]
    /\ excused' = (excused \/ \E o \in Requests \ {r} :
          Flying(o) /\ flight[o].token = stored /\ TabOf[o] # TabOf[r])
    /\ UNCHANGED <<live, stored, request, inFlight>>

(* ... the API finds it good, or not ... *)
FindToken(r) ==
    /\ flight[r].step = "asking"
    /\ IF flight[r].token \in live
       THEN flight' = [flight EXCEPT ![r].step = "found"]
       ELSE Over(r, None)
    /\ UNCHANGED <<live, stored, request, inFlight, excused>>

(* ... revokes it by id, whatever has become of it since ... *)
Rotate(r) ==
    /\ flight[r].step = "found"
    /\ live' = live \ {flight[r].token}
    /\ flight' = [flight EXCEPT ![r].step = "rotated"]
    /\ UNCHANGED <<stored, request, inFlight, excused>>

(* ... and issues the next pair. *)
Issue(r) ==
    LET new == Min(Unknown)
    IN  /\ flight[r].step = "rotated"
        /\ Unknown # {}
        /\ live' = live \cup {new}
        /\ flight' = [flight EXCEPT ![r].step = "issued", ![r].new = new]
        /\ UNCHANGED <<stored, request, inFlight, excused>>

(* Broken variant: the promise settles before the refresh token is stored. *)
OverAtOnce(r) == Over(r, flight[r].new)
AwaitRefreshToken(r) == flight' = [flight EXCEPT ![r].step = "storing"]

(* onTokensRefreshed stores the access token, and then the refresh token:  *)
(* on the phone two awaits.                                                *)
StoreAccess(r) ==
    /\ flight[r].step = "issued"
    /\ AwaitRefreshToken(r)
    /\ UNCHANGED <<live, stored, request, inFlight, excused>>

StoreRefresh(r) ==
    /\ flight[r].step = "storing"
    /\ stored' = flight[r].new
    /\ Over(r, flight[r].new)
    /\ UNCHANGED <<live, request, inFlight, excused>>

(* The post fails or its answer is lost, which the client takes for a no.  *)
(* What the API did until then stays done.                                 *)
LoseAnswer(r) ==
    /\ flight[r].step \in {"asking", "found", "rotated", "issued"}
    /\ Over(r, None)
    /\ excused' = TRUE
    /\ UNCHANGED <<live, stored, request, inFlight>>

(* Broken variant: only the request that began the refresh hears of it. *)
OnlyTheFirst(r) == {r}
Waiters(r) == {w \in Requests : request[w].step = "waiting" /\ request[w].waitsFor = r}

(* Broken variant: a tab keeps the promise that has settled. *)
KeptPromise(r) == r
ClearedPromise(r) == None

(* The promise settles, and all who await it go on, one after the other    *)
(* and with no other callback in between; each clears refreshInFlight.     *)
Resume(r) ==
    /\ flight[r].step = "over"
    /\ request' = [w \in Requests |->
          IF w \notin Waiters(r) THEN request[w]
          ELSE IF flight[r].new = None THEN [NoRequest EXCEPT !.step = "failing"]
          ELSE [NoRequest EXCEPT !.step = "sent", !.retry = TRUE]]
    /\ inFlight' = [inFlight EXCEPT ![TabOf[r]] = ClearedPromise(r)]
    /\ flight' = [flight EXCEPT ![r] = NoFlight]
    /\ UNCHANGED <<live, stored, excused>>

(* onAuthFailure: clearSession.  The phone also forgets where its          *)
(* notifications go, and both show the login screen.                       *)
SignOut(r) ==
    /\ request[r].step = "failing"
    /\ stored' = None
    /\ request' = [request EXCEPT ![r] = NoRequest]
    /\ UNCHANGED <<live, inFlight, flight, excused>>

------------------------------------------------------------------------------
(* logout clears the storage and tells the API, which may not hear it; a   *)
(* revocation that arrives late is like EndSession.                        *)
Logout ==
    /\ stored # None
    /\ live' \in {live, live \ {stored}}
    /\ stored' = None
    /\ excused' = TRUE
    /\ UNCHANGED <<request, inFlight, flight>>

(* Once signed out, the user signs in again. *)
Login ==
    LET new == Min(Unknown)
    IN  /\ stored = None
        /\ Unknown # {}
        /\ live' = live \cup {new}
        /\ stored' = new
        /\ UNCHANGED <<request, inFlight, flight, excused>>

(* A tab is closed, or the app is killed, and opened again. *)
Reopen(x) ==
    LET own == {r \in Requests : TabOf[r] = x}
    IN  /\ \E r \in own : request[r].step # "idle"
        /\ request' = [r \in Requests |-> IF r \in own THEN NoRequest ELSE request[r]]
        /\ flight' = [r \in Requests |-> IF r \in own THEN NoFlight ELSE flight[r]]
        /\ inFlight' = [inFlight EXCEPT ![x] = None]
        /\ excused' = TRUE
        /\ UNCHANGED <<live, stored>>

------------------------------------------------------------------------------
RequestStep(r) == Answered(r) \/ Refused(r) \/ SignOut(r)

FlightStep(r) ==
    \/ ReadRefreshToken(r) \/ FindToken(r) \/ Rotate(r) \/ Issue(r)
    \/ StoreAccess(r) \/ StoreRefresh(r) \/ Resume(r)

SessionNext ==
    \/ EndSession
    \/ \E r \in Requests : Start(r)
    \/ \E r \in Requests : RequestStep(r)
    \/ \E r \in Requests : FlightStep(r)
    \/ \E r \in Requests : LoseAnswer(r)
    \/ Logout
    \/ Login
    \/ \E x \in Tabs : Reopen(x)

SessionSpec == SessionInit /\ [][SessionNext]_sessionVars

(* A browser runs the callbacks that are due, a fetch ends, and a handler  *)
(* of the API that is not cut off goes on; nobody has to make a request,   *)
(* lose an answer or sign in.                                              *)
SessionFairness ==
    /\ \A r \in Requests : WF_sessionVars(RequestStep(r))
    /\ \A r \in Requests : WF_sessionVars(FlightStep(r))

FairSessionSpec == SessionSpec /\ SessionFairness

------------------------------------------------------------------------------
(* Tokens, storage and requests have their shape, a waiting request waits  *)
(* for a refresh of its own tab that will end, and a tab knows only of     *)
(* such a one.                                                             *)
SessionTypeOK ==
    /\ live \subseteq Tokens
    /\ stored \in Tokens \cup {None}
    /\ request \in [Requests ->
          [step : {"idle", "sent", "waiting", "failing"}, retry : BOOLEAN,
           waitsFor : Requests \cup {None}]]
    /\ inFlight \in [Tabs -> Requests \cup {None}]
    /\ flight \in [Requests ->
          [step : {"idle", "reading", "asking", "found", "rotated", "issued", "storing", "over"},
           token : Tokens \cup {None}, new : Tokens \cup {None}]]
    /\ \A r \in Requests :
          /\ flight[r].step \in {"asking", "found", "rotated", "issued", "storing"}
                => flight[r].token \in Tokens
          /\ flight[r].step \in {"issued", "storing"} => flight[r].new \in Tokens
          /\ request[r].step = "waiting" =>
                /\ request[r].waitsFor # None
                /\ request[r].waitsFor = inFlight[TabOf[r]]
    /\ \A x \in Tabs : inFlight[x] # None =>
          /\ flight[inFlight[x]].step # "idle"
          /\ TabOf[inFlight[x]] = x
    /\ excused \in BOOLEAN

(* "Dedupes concurrent refreshes: if five requests 401 at once, only one   *)
(* actual /auth/refresh call happens and the rest await its result" - in a *)
(* tab.                                                                    *)
OneRefreshPerTab ==
    \A r, o \in Requests : Flying(r) /\ Flying(o) /\ TabOf[r] = TabOf[o] => r = o

(* Refreshing is "silent": however many requests of a tab find the access  *)
(* token expired, and whenever it expires again, the user is not signed    *)
(* out, unless an answer was lost, a tab closed half way, another tab used *)
(* the same refresh token at the same time, or the session was ended.      *)
SignedOutForAReason ==
    \A r \in Requests : request[r].step = "failing" => excused

(* onAuthFailure is "called once a 401 survives a refresh attempt (or      *)
(* there's no refresh token)": nobody is signed out who holds a token that *)
(* the API would have exchanged.                                           *)
LiveSessionsAreKept ==
    \A r \in Requests : request[r].step = "failing" =>
        stored \notin live

(* No request hangs: not behind a refresh that failed, was lost, or has    *)
(* been joined by others.                                                  *)
RequestsEnd == \A r \in Requests : request[r].step # "idle" ~> request[r].step = "idle"
==============================================================================
