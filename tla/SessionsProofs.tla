--------------------------- MODULE SessionsProofs ---------------------------
(***************************************************************************)
(* What Sessions holds for any number of tabs, requests and tokens: rows   *)
(* keep their shape, a tab refreshes once at a time, and nobody is signed  *)
(* out without a reason.                                                   *)
(***************************************************************************)
EXTENDS Sessions, FiniteSetTheorems, WellFoundedInduction, TLAPS

RequestRows ==
  [step : {"idle", "sent", "waiting", "failing"}, retry : BOOLEAN, waitsFor : Requests \cup {None}]
FlightRows ==
  [step : {"idle", "reading", "asking", "found", "rotated", "issued", "storing", "over"},
   token : Tokens \cup {None}, new : Tokens \cup {None}]

(* A refresh that holds a token to exchange. *)
Active == {"asking", "found", "rotated", "issued", "storing"}
Holds(f) ==
  /\ f.step \in Active => f.token \in Tokens
  /\ f.step \in {"issued", "storing"} => f.new \in Tokens

(* A waiting request waits for the refresh its tab knows of, and a tab     *)
(* knows of the refresh under way in it, whoever began it, and of no       *)
(* other.                                                                  *)
Waits(r) == request[r].step = "waiting" =>
  request[r].waitsFor # None /\ request[r].waitsFor = inFlight[TabOf[r]]
Knows(x) == \A r \in Requests : inFlight[x] = r => flight[r].step # "idle" /\ TabOf[r] = x
KnownToTab(r) == flight[r].step # "idle" => inFlight[TabOf[r]] = r

SessionRows ==
  /\ live \subseteq Tokens
  /\ stored \in Tokens \cup {None}
  /\ request \in [Requests -> RequestRows]
  /\ inFlight \in [Tabs -> Requests \cup {None}]
  /\ flight \in [Requests -> FlightRows]
  /\ excused \in BOOLEAN
Links ==
  /\ \A r \in Requests : Holds(flight[r]) /\ Waits(r) /\ KnownToTab(r)
  /\ \A x \in Tabs : Knows(x)
SessionShape == SessionRows /\ Links

LEMMA ShapeIsType == SessionShape => SessionTypeOK
<1> SUFFICES ASSUME SessionShape
             PROVE  SessionTypeOK
  OBVIOUS
<1>1. /\ live \subseteq Tokens
      /\ stored \in Tokens \cup {None}
      /\ request \in [Requests ->
          [step : {"idle", "sent", "waiting", "failing"}, retry : BOOLEAN,
           waitsFor : Requests \cup {None}]]
      /\ inFlight \in [Tabs -> Requests \cup {None}]
      /\ flight \in [Requests ->
          [step : {"idle", "reading", "asking", "found", "rotated", "issued", "storing", "over"},
           token : Tokens \cup {None}, new : Tokens \cup {None}]]
      /\ excused \in BOOLEAN
  BY DEF SessionShape, SessionRows, RequestRows, FlightRows
<1>2. \A r \in Requests :
          /\ flight[r].step \in {"asking", "found", "rotated", "issued", "storing"}
                => flight[r].token \in Tokens
          /\ flight[r].step \in {"issued", "storing"} => flight[r].new \in Tokens
          /\ request[r].step = "waiting" =>
                /\ request[r].waitsFor # None
                /\ request[r].waitsFor = inFlight[TabOf[r]]
  BY DEF SessionShape, Links, Holds, Waits, Active
<1>3. \A x \in Tabs : inFlight[x] # None =>
          /\ flight[inFlight[x]].step # "idle"
          /\ TabOf[inFlight[x]] = x
  BY <1>1 DEF SessionShape, Links, Knows
<1> QED
  BY <1>1, <1>2, <1>3 DEF SessionTypeOK

LEMMA FreshToken ==
  ASSUME Unknown # {}
  PROVE  Min(Unknown) \in Tokens /\ Min(Unknown) \in Unknown
<1>1. Unknown \subseteq Tokens /\ Tokens \subseteq Nat
  BY MaxTokensAssumption DEF Unknown, Tokens
<1>2. PICK m \in Unknown : \A y \in Unknown : ~ (<<y, m>> \in OpToRel(<, Nat))
  BY <1>1, NatLessThanWellFounded, WFMin
<1>3. \A y \in Unknown : ~ (y < m)
  BY <1>1, <1>2 DEF OpToRel
<1>4. \A y \in Unknown : m <= y
  BY <1>1, <1>3
<1>5. Min(Unknown) \in Unknown
  BY <1>4 DEF Min
<1> QED
  BY <1>1, <1>5

(* A refresh under way that stays under way disturbs nobody's waiting. *)
LEMMA FlightMoves ==
  ASSUME SessionShape, NEW r \in Requests, NEW w \in FlightRows, Holds(w), w.step # "idle",
         flight[r].step # "idle", flight' = [flight EXCEPT ![r] = w],
         live' \subseteq Tokens, stored' \in Tokens \cup {None}, excused' \in BOOLEAN,
         UNCHANGED <<request, inFlight>>
  PROVE  SessionShape'
<1>1. flight' \in [Requests -> FlightRows]
  BY DEF SessionShape, SessionRows
<1>2. SessionRows'
  BY <1>1 DEF SessionShape, SessionRows
<1>3. flight'[r] = w /\ \A o \in Requests : o # r => flight'[o] = flight[o]
  BY DEF SessionShape, SessionRows
<1>4. \A o \in Requests : flight'[o].step # "idle" <=> flight[o].step # "idle"
  BY <1>3
<1>5. \A o \in Requests : Holds(flight'[o])
  BY <1>3 DEF SessionShape, Links
<1>6. \A o \in Requests : Waits(o)' /\ KnownToTab(o)'
  BY <1>4 DEF SessionShape, Links, Waits, KnownToTab
<1>7. \A x \in Tabs : Knows(x)'
  BY <1>4 DEF SessionShape, Links, Knows
<1> QED
  BY <1>2, <1>5, <1>6, <1>7 DEF SessionShape, Links, Holds

LEMMA NoRows ==
  /\ NoRequest \in RequestRows /\ NoRequest.step = "idle"
  /\ NoFlight \in FlightRows /\ NoFlight.step = "idle"
BY DEF NoRequest, RequestRows, NoFlight, FlightRows

(* What a step of a refresh makes of its row. *)
MovesTo(r, s, t, n) ==
  flight' = [flight EXCEPT ![r] = [step |-> s, token |-> t, new |-> n]]

LEMMA FlightSteps ==
  ASSUME SessionShape, NEW r \in Requests
  PROVE  /\ ReadRefreshToken(r) =>
              /\ stored = None => MovesTo(r, "over", None, None)
              /\ stored # None => MovesTo(r, "asking", stored, flight[r].new)
         /\ FindToken(r) =>
              /\ flight[r].token \in live => MovesTo(r, "found", flight[r].token, flight[r].new)
              /\ flight[r].token \notin live => MovesTo(r, "over", None, None)
         /\ Rotate(r) => MovesTo(r, "rotated", flight[r].token, flight[r].new)
         /\ Issue(r) => MovesTo(r, "issued", flight[r].token, Min(Unknown))
         /\ StoreAccess(r) => MovesTo(r, "storing", flight[r].token, flight[r].new)
         /\ StoreRefresh(r) => MovesTo(r, "over", None, flight[r].new)
         /\ LoseAnswer(r) => MovesTo(r, "over", None, None)
<1>1. flight[r] = [step |-> flight[r].step, token |-> flight[r].token, new |-> flight[r].new]
      /\ flight \in [Requests -> FlightRows]
  BY DEF SessionShape, SessionRows, FlightRows
<1>2. ASSUME NEW n, Over(r, n)
      PROVE  MovesTo(r, "over", None, n)
  BY <1>2 DEF Over, MovesTo
<1>3. ReadRefreshToken(r) =>
              /\ stored = None => MovesTo(r, "over", None, None)
              /\ stored # None => MovesTo(r, "asking", stored, flight[r].new)
  BY <1>1, <1>2 DEF ReadRefreshToken, MovesTo
<1>4. FindToken(r) =>
              /\ flight[r].token \in live => MovesTo(r, "found", flight[r].token, flight[r].new)
              /\ flight[r].token \notin live => MovesTo(r, "over", None, None)
  BY <1>1, <1>2 DEF FindToken, MovesTo
<1>5. Rotate(r) => MovesTo(r, "rotated", flight[r].token, flight[r].new)
  BY <1>1 DEF Rotate, MovesTo
<1>6. Issue(r) => MovesTo(r, "issued", flight[r].token, Min(Unknown))
  BY <1>1 DEF Issue, MovesTo
<1>7. StoreAccess(r) => MovesTo(r, "storing", flight[r].token, flight[r].new)
  BY <1>1 DEF StoreAccess, AwaitRefreshToken, MovesTo
<1>8. StoreRefresh(r) => MovesTo(r, "over", None, flight[r].new)
  BY <1>2 DEF StoreRefresh
<1>9. LoseAnswer(r) => MovesTo(r, "over", None, None)
  BY <1>2 DEF LoseAnswer
<1> QED
  BY <1>3, <1>4, <1>5, <1>6, <1>7, <1>8, <1>9

LEMMA SessionShapeStep ==
  SessionShape /\ [SessionNext]_sessionVars => SessionShape'
<1> SUFFICES ASSUME SessionShape, [SessionNext]_sessionVars
             PROVE  SessionShape'
  OBVIOUS
<1> USE SessionNoneAssumption
<1>r. SessionRows /\ Links
  BY DEF SessionShape
<1>1. ASSUME NEW r \in Requests, NEW s, NEW t, NEW n, MovesTo(r, s, t, n),
             s \in Active \cup {"over"}, t \in Tokens \cup {None}, n \in Tokens \cup {None},
             s \in Active => t \in Tokens, s \in {"issued", "storing"} => n \in Tokens,
             flight[r].step # "idle",
             live' \subseteq Tokens, stored' \in Tokens \cup {None}, excused' \in BOOLEAN,
             UNCHANGED <<request, inFlight>>
      PROVE  SessionShape'
  <2> DEFINE w == [step |-> s, token |-> t, new |-> n]
  <2>1. w \in FlightRows /\ Holds(w) /\ w.step # "idle"
    BY <1>1 DEF FlightRows, Holds, Active
  <2>2. flight' = [flight EXCEPT ![r] = w]
    BY <1>1 DEF MovesTo
  <2> HIDE DEF w
  <2> QED
    BY <1>1, <2>1, <2>2, FlightMoves
<1>2. ASSUME NEW r \in Requests
      PROVE  /\ flight[r].token \in Tokens \cup {None} /\ flight[r].new \in Tokens \cup {None}
             /\ flight[r].step \in Active => flight[r].token \in Tokens
             /\ flight[r].step \in {"issued", "storing"} => flight[r].new \in Tokens
  BY <1>r DEF SessionRows, Links, FlightRows, Holds
<1>3. ASSUME NEW r \in Requests, ReadRefreshToken(r)
      PROVE  SessionShape'
  <2>1. /\ flight[r].step = "reading" /\ UNCHANGED <<live, stored, request, inFlight>>
        /\ excused' \in BOOLEAN
    BY <1>3 DEF ReadRefreshToken
  <2>2. \/ MovesTo(r, "over", None, None)
        \/ stored # None /\ MovesTo(r, "asking", stored, flight[r].new)
    BY <1>3, FlightSteps
  <2>3. live' \subseteq Tokens /\ stored' \in Tokens \cup {None} /\ stored \in Tokens \cup {None}
    BY <1>r, <2>1 DEF SessionRows
  <2> QED
    BY <1>1, <1>2, <2>1, <2>2, <2>3 DEF Active
<1>4. ASSUME NEW r \in Requests, FindToken(r) \/ Rotate(r) \/ StoreAccess(r) \/ LoseAnswer(r)
      PROVE  SessionShape'
  <2>1. /\ flight[r].step \in Active /\ UNCHANGED <<stored, request, inFlight>>
        /\ live' \subseteq live /\ excused' \in {excused, TRUE}
    BY <1>4 DEF FindToken, Rotate, StoreAccess, LoseAnswer, Active
  <2>2. \/ MovesTo(r, "over", None, None)
        \/ MovesTo(r, "found", flight[r].token, flight[r].new)
        \/ MovesTo(r, "rotated", flight[r].token, flight[r].new)
        \/ flight[r].step = "issued" /\ MovesTo(r, "storing", flight[r].token, flight[r].new)
    BY <1>4, FlightSteps DEF StoreAccess
  <2>3. live' \subseteq Tokens /\ stored' \in Tokens \cup {None} /\ excused' \in BOOLEAN
    BY <1>r, <2>1 DEF SessionRows
  <2> QED
    BY <1>1, <1>2, <2>1, <2>2, <2>3 DEF Active
<1>5. ASSUME NEW r \in Requests, Issue(r)
      PROVE  SessionShape'
  <2>1. /\ flight[r].step = "rotated" /\ UNCHANGED <<stored, request, inFlight, excused>>
        /\ Unknown # {} /\ live' = live \cup {Min(Unknown)}
    BY <1>5 DEF Issue
  <2>2. MovesTo(r, "issued", flight[r].token, Min(Unknown))
    BY <1>5, FlightSteps
  <2>3. Min(Unknown) \in Tokens
    BY <2>1, FreshToken
  <2>4. live' \subseteq Tokens /\ stored' \in Tokens \cup {None} /\ excused' \in BOOLEAN
    BY <1>r, <2>1, <2>3 DEF SessionRows
  <2> QED
    BY <1>1, <1>2, <2>1, <2>2, <2>3, <2>4 DEF Active
<1>6. ASSUME NEW r \in Requests, StoreRefresh(r)
      PROVE  SessionShape'
  <2>1. /\ flight[r].step = "storing" /\ UNCHANGED <<live, request, inFlight, excused>>
        /\ stored' = flight[r].new
    BY <1>6 DEF StoreRefresh
  <2>2. MovesTo(r, "over", None, flight[r].new)
    BY <1>6, FlightSteps
  <2>3. live' \subseteq Tokens /\ stored' \in Tokens \cup {None} /\ excused' \in BOOLEAN
    BY <1>r, <1>2, <2>1 DEF SessionRows
  <2> QED
    BY <1>1, <1>2, <2>1, <2>2, <2>3 DEF Active
<1>7. ASSUME UNCHANGED <<request, inFlight, flight>>, live' \subseteq Tokens,
             stored' \in Tokens \cup {None}, excused' \in BOOLEAN
      PROVE  SessionShape'
  BY <1>7, <1>r DEF SessionShape, SessionRows, Links, Holds, Waits, Knows, KnownToTab
<1>8. CASE EndSession \/ Logout \/ Login \/ UNCHANGED sessionVars
  <2>1. UNCHANGED <<request, inFlight, flight>> /\ excused' \in {excused, TRUE}
    BY <1>8 DEF EndSession, Logout, Login, sessionVars
  <2>2. live' \subseteq Tokens /\ stored' \in Tokens \cup {None}
    BY <1>8, <1>r, FreshToken DEF EndSession, Logout, Login, sessionVars, SessionRows
  <2>3. excused' \in BOOLEAN
    BY <1>r, <2>1 DEF SessionRows
  <2> QED
    BY <1>7, <2>1, <2>2, <2>3
<1>9. ASSUME NEW r \in Requests, NEW w \in RequestRows, request' = [request EXCEPT ![r] = w],
             w.step # "waiting", UNCHANGED <<live, inFlight, flight, excused>>,
             stored' \in Tokens \cup {None}
      PROVE  SessionShape'
  <2>1. request' \in [Requests -> RequestRows] /\ request'[r] = w
        /\ \A o \in Requests : o # r => request'[o] = request[o]
    BY <1>9, <1>r DEF SessionRows
  <2>2. \A o \in Requests : Waits(o)'
    BY <1>9, <1>r, <2>1 DEF Links, Waits
  <2>3. SessionRows'
    BY <1>9, <1>r, <2>1 DEF SessionRows
  <2>4. \A o \in Requests : Holds(flight[o])' /\ KnownToTab(o)'
    BY <1>9, <1>r DEF Links, Holds, KnownToTab
  <2>5. \A x \in Tabs : Knows(x)'
    BY <1>9, <1>r DEF Links, Knows
  <2> QED
    BY <2>2, <2>3, <2>4, <2>5 DEF SessionShape, Links
<1>10. ASSUME NEW r \in Requests, Start(r) \/ Answered(r) \/ SignOut(r)
       PROVE  SessionShape'
  <2>1. UNCHANGED <<live, inFlight, flight, excused>> /\ stored' \in {stored, None}
    BY <1>10 DEF Start, Answered, SignOut
  <2>2. stored' \in Tokens \cup {None} /\ request[r] \in RequestRows
    BY <1>r, <2>1 DEF SessionRows
  <2>3. CASE Start(r)
    <3>1. [request[r] EXCEPT !.step = "sent"] \in RequestRows
          /\ [request[r] EXCEPT !.step = "sent"].step # "waiting"
      BY <2>2 DEF RequestRows
    <3>2. request' = [request EXCEPT ![r] = [request[r] EXCEPT !.step = "sent"]]
      BY <2>3 DEF Start
    <3> QED
      BY <1>9, <2>1, <2>2, <3>1, <3>2
  <2>4. CASE Answered(r) \/ SignOut(r)
    BY <1>9, <2>1, <2>2, <2>4, NoRows DEF Answered, SignOut
  <2> QED
    BY <1>10, <2>3, <2>4
<1>11. ASSUME NEW r \in Requests, Refused(r)
       PROVE  SessionShape'
  <2> DEFINE x == TabOf[r]
  <2>1. /\ request[r].step = "sent" /\ UNCHANGED <<live, stored, excused>>
        /\ request' = [request EXCEPT ![r].step = "waiting", ![r].waitsFor = inFlight'[x]]
        /\ \/ /\ inFlight[x] = None
              /\ inFlight' = [inFlight EXCEPT ![x] = r]
              /\ flight' = [flight EXCEPT ![r].step = "reading"]
           \/ inFlight[x] # None /\ UNCHANGED <<inFlight, flight>>
    BY <1>11 DEF Refused, MustBeginFlight
  <2>2. x \in Tabs /\ \A o \in Requests : TabOf[o] \in Tabs
    BY TabOfAssumption
  <2> HIDE DEF x
  <2>3. inFlight'[x] \in Requests /\ inFlight' \in [Tabs -> Requests \cup {None}]
    BY <1>r, <2>1, <2>2 DEF SessionRows
  <2>4. /\ request' \in [Requests -> RequestRows]
        /\ request'[r].step = "waiting" /\ request'[r].waitsFor = inFlight'[x]
        /\ \A o \in Requests : o # r => request'[o] = request[o]
    <3>1. request[r] \in RequestRows
      BY <1>r DEF SessionRows
    <3>2. [request[r] EXCEPT !.step = "waiting", !.waitsFor = inFlight'[x]] \in RequestRows
          /\ [request[r] EXCEPT !.step = "waiting", !.waitsFor = inFlight'[x]].step = "waiting"
          /\ [request[r] EXCEPT !.step = "waiting", !.waitsFor = inFlight'[x]].waitsFor = inFlight'[x]
      BY <2>3, <3>1 DEF RequestRows
    <3> QED
      BY <1>r, <2>1, <3>2 DEF SessionRows
  <2>5. CASE /\ inFlight[x] = None
             /\ inFlight' = [inFlight EXCEPT ![x] = r]
             /\ flight' = [flight EXCEPT ![r].step = "reading"]
    <3>1. /\ inFlight'[x] = r /\ \A y \in Tabs : y # x => inFlight'[y] = inFlight[y]
          /\ flight' \in [Requests -> FlightRows] /\ flight'[r].step = "reading"
          /\ \A o \in Requests : o # r => flight'[o] = flight[o]
      BY <1>r, <2>2, <2>5 DEF SessionRows, FlightRows
    <3>2. SessionRows'
      BY <1>r, <2>1, <2>3, <2>4, <3>1 DEF SessionRows
    <3>3. \A o \in Requests : Waits(o)'
      BY <1>r, <2>2, <2>4, <2>5, <3>1 DEF Links, Waits, x
    <3>4. \A o \in Requests : KnownToTab(o)'
      BY <1>r, <2>2, <2>5, <3>1 DEF Links, KnownToTab, x
    <3>5. \A y \in Tabs : Knows(y)'
      BY <1>r, <2>2, <2>5, <3>1 DEF Links, Knows, x
    <3>6. \A o \in Requests : Holds(flight'[o])
      BY <1>r, <3>1 DEF Links, Holds, Active
    <3> QED
      BY <3>2, <3>3, <3>4, <3>5, <3>6 DEF SessionShape, Links, Holds
  <2>6. CASE inFlight[x] # None /\ UNCHANGED <<inFlight, flight>>
    <3>1. SessionRows'
      BY <1>r, <2>1, <2>4, <2>6 DEF SessionRows
    <3>2. \A o \in Requests : Waits(o)'
      BY <1>r, <2>2, <2>4, <2>6 DEF Links, Waits, x
    <3>3. \A o \in Requests : KnownToTab(o)' /\ Holds(flight[o])'
      BY <1>r, <2>6 DEF Links, KnownToTab, Holds
    <3>4. \A y \in Tabs : Knows(y)'
      BY <1>r, <2>6 DEF Links, Knows
    <3> QED
      BY <3>1, <3>2, <3>3, <3>4 DEF SessionShape, Links
  <2> QED
    BY <2>1, <2>5, <2>6
<1>12. ASSUME NEW x \in Tabs,
              request' \in [Requests -> RequestRows],
              \A o \in Requests : TabOf[o] = x => request'[o].step # "waiting",
              \A o \in Requests : TabOf[o] # x => request'[o] = request[o],
              flight' \in [Requests -> FlightRows],
              \A o \in Requests : TabOf[o] = x => flight'[o].step = "idle",
              \A o \in Requests : TabOf[o] # x => flight'[o] = flight[o],
              inFlight' = [inFlight EXCEPT ![x] = None], excused' \in BOOLEAN,
              UNCHANGED <<live, stored>>
       PROVE  SessionShape'
  <2>1. /\ inFlight' \in [Tabs -> Requests \cup {None}] /\ inFlight'[x] = None
        /\ \A y \in Tabs : y # x => inFlight'[y] = inFlight[y]
    BY <1>12, <1>r DEF SessionRows
  <2>2. SessionRows'
    BY <1>12, <1>r, <2>1 DEF SessionRows
  <2>3. \A o \in Requests : Waits(o)'
    BY <1>12, <1>r, <2>1, TabOfAssumption DEF Links, Waits
  <2>4. \A o \in Requests : KnownToTab(o)'
    BY <1>12, <1>r, <2>1, TabOfAssumption DEF Links, KnownToTab
  <2>5. \A y \in Tabs : Knows(y)'
    BY <1>12, <1>r, <2>1 DEF Links, Knows
  <2>6. \A o \in Requests : Holds(flight'[o])
    BY <1>12, <1>r DEF Links, Holds, Active
  <2> QED
    BY <2>2, <2>3, <2>4, <2>5, <2>6 DEF SessionShape, Links, Holds
<1>13. ASSUME NEW r \in Requests, Resume(r)
       PROVE  SessionShape'
  <2>1. /\ flight[r].step = "over" /\ UNCHANGED <<live, stored, excused>>
        /\ request' = [w \in Requests |->
              IF w \notin Waiters(r) THEN request[w]
              ELSE IF flight[r].new = None THEN [NoRequest EXCEPT !.step = "failing"]
              ELSE [NoRequest EXCEPT !.step = "sent", !.retry = TRUE]]
        /\ inFlight' = [inFlight EXCEPT ![TabOf[r]] = None]
        /\ flight' = [flight EXCEPT ![r] = NoFlight]
    BY <1>13 DEF Resume, ClearedPromise
  <2>2. /\ [NoRequest EXCEPT !.step = "failing"] \in RequestRows
        /\ [NoRequest EXCEPT !.step = "failing"].step # "waiting"
        /\ [NoRequest EXCEPT !.step = "sent", !.retry = TRUE] \in RequestRows
        /\ [NoRequest EXCEPT !.step = "sent", !.retry = TRUE].step # "waiting"
    BY DEF NoRequest, RequestRows
  <2>3. PICK x \in Tabs : x = TabOf[r]
    BY TabOfAssumption
  <2>4. inFlight[x] = r
    BY <1>r, <2>1, <2>3 DEF Links, KnownToTab
  <2>5. \A o \in Requests : TabOf[o] = x /\ request[o].step = "waiting" => o \in Waiters(r)
    BY <1>r, <2>4 DEF Links, Waits, Waiters
  <2>6. \A o \in Requests : TabOf[o] # x => o \notin Waiters(r)
    <3> SUFFICES ASSUME NEW o \in Requests, o \in Waiters(r)
                 PROVE  TabOf[o] = x
      OBVIOUS
    <3>1. inFlight[TabOf[o]] = r
      BY <1>r DEF Links, Waits, Waiters
    <3>2. TabOf[o] \in Tabs
      BY TabOfAssumption
    <3> QED
      BY <1>r, <2>3, <3>1, <3>2 DEF Links, Knows
  <2>7. request' \in [Requests -> RequestRows]
    BY <1>r, <2>1, <2>2 DEF SessionRows
  <2>8. /\ \A o \in Requests : TabOf[o] = x => request'[o].step # "waiting"
        /\ \A o \in Requests : TabOf[o] # x => request'[o] = request[o]
    BY <2>1, <2>2, <2>5, <2>6
  <2>9. /\ flight' \in [Requests -> FlightRows] /\ flight'[r].step = "idle"
        /\ \A o \in Requests : o # r => flight'[o] = flight[o]
    BY <1>r, <2>1, NoRows DEF SessionRows
  <2>10. \A o \in Requests : TabOf[o] = x => flight'[o].step = "idle"
    BY <1>r, <2>4, <2>9 DEF Links, KnownToTab
  <2>11. excused' \in BOOLEAN
    BY <1>r, <2>1 DEF SessionRows
  <2> QED
    BY <1>12, <2>1, <2>3, <2>7, <2>8, <2>9, <2>10, <2>11
<1>14. ASSUME NEW x \in Tabs, Reopen(x)
       PROVE  SessionShape'
  <2>1. /\ request' = [r \in Requests |-> IF TabOf[r] = x THEN NoRequest ELSE request[r]]
        /\ flight' = [r \in Requests |-> IF TabOf[r] = x THEN NoFlight ELSE flight[r]]
        /\ inFlight' = [inFlight EXCEPT ![x] = None]
        /\ excused' = TRUE /\ UNCHANGED <<live, stored>>
    BY <1>14 DEF Reopen
  <2>2. request' \in [Requests -> RequestRows] /\ flight' \in [Requests -> FlightRows]
    BY <1>r, <2>1, NoRows DEF SessionRows
  <2> QED
    BY <1>12, <2>1, <2>2, NoRows
<1> QED
  BY <1>3, <1>4, <1>5, <1>6, <1>8, <1>10, <1>11, <1>13, <1>14
  DEF SessionNext, RequestStep, FlightStep

LEMMA SessionShapeHolds == SessionSpec => []SessionShape
<1>1. SessionInit => SessionShape
  <2> SUFFICES ASSUME SessionInit
               PROVE  SessionShape
    OBVIOUS
  <2>1. 1 \in Tokens
    <3>1. MaxTokens \in Nat /\ MaxTokens # 0
      BY FS_CardinalityType, MaxTokensAssumption
    <3> QED
      BY <3>1 DEF Tokens
  <2>2. SessionRows
    BY <2>1, NoRows DEF SessionInit, SessionRows
  <2>3. Links
    BY NoRows, SessionNoneAssumption DEF SessionInit, Links, Holds, Waits, Knows, KnownToTab, Active
  <2> QED
    BY <2>2, <2>3 DEF SessionShape
<1> QED
  BY <1>1, SessionShapeStep, PTL DEF SessionSpec

(* Tokens, storage and requests keep their shape, and no request waits for *)
(* a refresh that its tab has forgotten.                                   *)
THEOREM SessionTypeCorrect == SessionSpec => []SessionTypeOK
BY SessionShapeHolds, ShapeIsType, PTL

(* "If five requests 401 at once, only one actual /auth/refresh call       *)
(* happens", in each tab.                                                  *)
THEOREM OneRefreshPerTabAlways == SessionSpec => []OneRefreshPerTab
<1>1. SessionShape => OneRefreshPerTab
  BY DEF SessionShape, Links, KnownToTab, OneRefreshPerTab, Flying
<1> QED
  BY <1>1, SessionShapeHolds, PTL

(* While nothing has happened that excuses it, no request is failing, no   *)
(* refresh has come back empty, one refresh at most holds a token, which   *)
(* is the stored one and still good until it is exchanged, and what it is  *)
(* exchanged for is good.                                                  *)
Asks(r) == flight[r].step \in Active
Untroubled ==
  /\ stored \in Tokens
  /\ \A r \in Requests : request[r].step # "failing"
  /\ \A r \in Requests : flight[r].step = "over" => flight[r].new # None
  /\ \A r, o \in Requests : Asks(r) /\ Asks(o) => r = o
  /\ \A r \in Requests : Asks(r) => flight[r].token = stored
  /\ \A r \in Requests : flight[r].step \in {"asking", "found"} => stored \in live
  /\ \A r \in Requests : flight[r].step \in {"issued", "storing"} => flight[r].new \in live
  /\ (\A r \in Requests : ~Asks(r)) => stored \in live
ReasonsInv == ~excused => Untroubled

LEMMA ReasonsStep ==
  SessionShape /\ ReasonsInv /\ [SessionNext]_sessionVars => ReasonsInv'
<1> SUFFICES ASSUME SessionShape, ReasonsInv, [SessionNext]_sessionVars, ~excused'
             PROVE  Untroubled'
  BY DEF ReasonsInv
<1> USE SessionNoneAssumption
<1>r. SessionRows /\ Links
  BY DEF SessionShape
<1>e. ~excused
  BY DEF SessionNext, sessionVars, RequestStep, FlightStep, EndSession, Start, Answered, Refused,
         SignOut, ReadRefreshToken, FindToken, Rotate, Issue, StoreAccess, StoreRefresh, Resume,
         LoseAnswer, Logout, Login, Reopen
<1>u. Untroubled
  BY <1>e DEF ReasonsInv
<1>n. None \notin Tokens
  BY MaxTokensAssumption DEF Tokens
<1>1. ASSUME UNCHANGED <<live, stored>>, \A r \in Requests : request'[r].step # "failing",
             \A r \in Requests : flight'[r] = flight[r] \/ (~Asks(r) /\ flight'[r].step \in {"idle", "reading"})
      PROVE  Untroubled'
  BY <1>1, <1>u DEF Untroubled, Asks, Active
<1>2. CASE EndSession \/ Logout \/ (\E x \in Tabs : Reopen(x)) \/ \E r \in Requests : LoseAnswer(r)
  BY <1>2 DEF EndSession, Logout, Reopen, LoseAnswer
<1>3. CASE Login \/ \E r \in Requests : SignOut(r)
  BY <1>3, <1>u, <1>n DEF Login, SignOut, Untroubled
<1>4. ASSUME NEW r \in Requests, Start(r) \/ Answered(r)
      PROVE  Untroubled'
  <2>1. UNCHANGED <<live, stored, flight>>
    BY <1>4 DEF Start, Answered
  <2>2. \A o \in Requests : request'[o].step # "failing"
    BY <1>4, <1>r, <1>u, NoRows DEF Start, Answered, Untroubled, SessionRows, RequestRows
  <2> QED
    BY <1>1, <2>1, <2>2
<1>5. ASSUME NEW r \in Requests, Refused(r)
      PROVE  Untroubled'
  <2>1. UNCHANGED <<live, stored>>
    BY <1>5 DEF Refused
  <2>2. \A o \in Requests : request'[o].step # "failing"
    BY <1>5, <1>r, <1>u DEF Refused, Untroubled, SessionRows, RequestRows
  <2>3. \A o \in Requests :
          flight'[o] = flight[o] \/ (~Asks(o) /\ flight'[o].step \in {"idle", "reading"})
    <3>1. CASE UNCHANGED flight
      BY <3>1
    <3>2. CASE flight' = [flight EXCEPT ![r].step = "reading"] /\ inFlight[TabOf[r]] = None
      <4>1. flight[r].step = "idle"
        BY <1>r, <3>2 DEF Links, KnownToTab
      <4>2. flight'[r].step = "reading" /\ \A o \in Requests : o # r => flight'[o] = flight[o]
        BY <1>r, <3>2 DEF SessionRows, FlightRows
      <4> QED
        BY <4>1, <4>2 DEF Asks, Active
    <3> QED
      BY <1>5, <3>1, <3>2 DEF Refused, MustBeginFlight
  <2> QED
    BY <1>1, <2>1, <2>2, <2>3
<1>6. ASSUME NEW r \in Requests, Resume(r)
      PROVE  Untroubled'
  <2>1. /\ flight[r].step = "over" /\ UNCHANGED <<live, stored>>
        /\ request' = [w \in Requests |->
              IF w \notin Waiters(r) THEN request[w]
              ELSE IF flight[r].new = None THEN [NoRequest EXCEPT !.step = "failing"]
              ELSE [NoRequest EXCEPT !.step = "sent", !.retry = TRUE]]
        /\ flight' = [flight EXCEPT ![r] = NoFlight]
    BY <1>6 DEF Resume
  <2>2. [NoRequest EXCEPT !.step = "sent", !.retry = TRUE].step # "failing"
    BY DEF NoRequest
  <2>3. \A o \in Requests : request'[o].step # "failing"
    BY <1>u, <2>1, <2>2 DEF Untroubled
  <2>4. /\ flight'[r].step = "idle" /\ ~Asks(r)
        /\ \A o \in Requests : o # r => flight'[o] = flight[o]
    BY <1>r, <2>1, NoRows DEF SessionRows, Asks, Active
  <2> QED
    BY <1>1, <2>1, <2>3, <2>4
<1>7. ASSUME NEW r \in Requests, NEW s, NEW t, NEW n, MovesTo(r, s, t, n)
      PROVE  /\ flight'[r].step = s /\ flight'[r].token = t /\ flight'[r].new = n
             /\ \A o \in Requests : o # r => flight'[o] = flight[o]
  BY <1>7, <1>r DEF MovesTo, SessionRows
<1>8. ASSUME NEW r \in Requests, ReadRefreshToken(r)
      PROVE  Untroubled'
  <2>1. /\ flight[r].step = "reading" /\ UNCHANGED <<live, stored, request>>
        /\ \A o \in Requests \ {r} : ~ (Flying(o) /\ flight[o].token = stored /\ TabOf[o] # TabOf[r])
    BY <1>8 DEF ReadRefreshToken
  <2>2. MovesTo(r, "asking", stored, flight[r].new)
    BY <1>8, <1>n, <1>u, FlightSteps DEF Untroubled
  <2>3. \A o \in Requests : ~Asks(o)
    <3> SUFFICES ASSUME NEW o \in Requests, Asks(o)
                 PROVE  FALSE
      OBVIOUS
    <3>1. o # r /\ Flying(o) /\ flight[o].token = stored
      BY <1>u, <2>1 DEF Asks, Active, Flying, Untroubled
    <3>2. TabOf[o] = TabOf[r]
      BY <2>1, <3>1
    <3> QED
      BY <1>r, <2>1, <3>1, <3>2 DEF Links, KnownToTab, Flying
  <2> QED
    BY <1>7, <1>u, <2>1, <2>2, <2>3 DEF Untroubled, Asks, Active
<1>9. ASSUME NEW r \in Requests, FindToken(r)
      PROVE  Untroubled'
  <2>1. flight[r].step = "asking" /\ UNCHANGED <<live, stored, request>>
    BY <1>9 DEF FindToken
  <2>2. MovesTo(r, "found", flight[r].token, flight[r].new)
    BY <1>9, <1>u, <2>1, FlightSteps DEF Untroubled, Asks, Active
  <2> QED
    BY <1>7, <1>u, <2>1, <2>2 DEF Untroubled, Asks, Active
<1>10. ASSUME NEW r \in Requests, Rotate(r)
       PROVE  Untroubled'
  <2>1. /\ flight[r].step = "found" /\ UNCHANGED <<stored, request>>
        /\ MovesTo(r, "rotated", flight[r].token, flight[r].new)
    BY <1>10, FlightSteps DEF Rotate
  <2>2. \A o \in Requests : o # r => ~Asks(o)
    BY <1>u, <2>1 DEF Untroubled, Asks, Active
  <2> QED
    BY <1>7, <1>u, <2>1, <2>2 DEF Untroubled, Asks, Active
<1>11. ASSUME NEW r \in Requests, Issue(r)
       PROVE  Untroubled'
  <2>1. /\ flight[r].step = "rotated" /\ UNCHANGED <<stored, request>>
        /\ live' = live \cup {Min(Unknown)}
        /\ MovesTo(r, "issued", flight[r].token, Min(Unknown))
    BY <1>11, FlightSteps DEF Issue
  <2>2. \A o \in Requests : o # r => ~Asks(o)
    BY <1>u, <2>1 DEF Untroubled, Asks, Active
  <2> QED
    BY <1>7, <1>u, <2>1, <2>2 DEF Untroubled, Asks, Active
<1>12. ASSUME NEW r \in Requests, StoreAccess(r)
       PROVE  Untroubled'
  <2>1. /\ flight[r].step = "issued" /\ UNCHANGED <<live, stored, request>>
        /\ MovesTo(r, "storing", flight[r].token, flight[r].new)
    BY <1>12, FlightSteps DEF StoreAccess
  <2> QED
    BY <1>7, <1>u, <2>1 DEF Untroubled, Asks, Active
<1>13. ASSUME NEW r \in Requests, StoreRefresh(r)
       PROVE  Untroubled'
  <2>1. /\ flight[r].step = "storing" /\ UNCHANGED <<live, request>> /\ stored' = flight[r].new
        /\ MovesTo(r, "over", None, flight[r].new)
    BY <1>13, FlightSteps DEF StoreRefresh
  <2>2. \A o \in Requests : o # r => ~Asks(o)
    BY <1>u, <2>1 DEF Untroubled, Asks, Active
  <2>3. flight[r].new \in Tokens /\ flight[r].new \in live
    BY <1>r, <1>u, <2>1 DEF Links, Holds, Untroubled
  <2> QED
    BY <1>7, <1>n, <1>u, <2>1, <2>2, <2>3 DEF Untroubled, Asks, Active
<1>14. CASE UNCHANGED sessionVars
  BY <1>14, <1>u DEF sessionVars, Untroubled, Asks
<1> QED
  BY <1>2, <1>3, <1>4, <1>5, <1>6, <1>8, <1>9, <1>10, <1>11, <1>12, <1>13, <1>14
  DEF SessionNext, RequestStep, FlightStep

(* Refreshing is silent: however requests, tabs and refreshes interleave,  *)
(* nobody is signed out but after one of the things that excuse it.        *)
THEOREM SignedOutForAReasonAlways == SessionSpec => []SignedOutForAReason
<1>1. SessionInit => ReasonsInv
  <2> SUFFICES ASSUME SessionInit
               PROVE  Untroubled
    BY DEF ReasonsInv
  <2>1. 1 \in Tokens
    BY FS_CardinalityType, MaxTokensAssumption DEF Tokens
  <2> QED
    BY <2>1, NoRows DEF SessionInit, Untroubled, Asks, Active
<1>2. ReasonsInv => SignedOutForAReason
  BY DEF ReasonsInv, Untroubled, SignedOutForAReason
<1> QED
  BY <1>1, <1>2, SessionShapeHolds, ReasonsStep, PTL DEF SessionSpec

=============================================================================
