------------------------------ MODULE Devices ------------------------------
(***************************************************************************)
(* One handset that several people sign in on, its push token, and the row *)
(* of DeviceToken that says whose notifications the token receives.  The   *)
(* phone registers its token at sign-in and detaches it at sign-out; a     *)
(* call may be answered, may fail while it is still on its way, or may be  *)
(* lost.  A push looks up the row, sends, and removes the token if the     *)
(* push service says that no app answers to it.                            *)
(***************************************************************************)
EXTENDS FiniteSets

CONSTANTS
    Users,   \* people who use the handset
    Calls,   \* register and unregister calls that can be under way
    Pushes,  \* notifications being sent
    Nobody   \* no user, no row

ASSUME NobodyAssumption == Nobody \notin Users \union Calls

VARIABLES
    owner,    \* userId of the token's row, or Nobody
    phone,    \* the app: who is signed in, what it is doing, the stored token
    call,     \* Calls -> a call on its way to the API
    push,     \* Pushes -> a notification under way
    strayed,  \* history: who left the handset without detaching it
    late      \* history: some call or clean-up outlived its occasion

deviceVars == <<owner, phone, call, push, strayed, late>>

NoCall == [kind |-> "NONE", user |-> Nobody]
NoPush == [user |-> Nobody, step |-> "NONE"]
SignedOut == [user |-> Nobody, step |-> "out", stored |-> FALSE, on |-> Nobody]

DeviceInit ==
    /\ owner = Nobody
    /\ phone = SignedOut
    /\ call = [c \in Calls |-> NoCall]
    /\ push = [p \in Pushes |-> NoPush]
    /\ strayed = {}
    /\ late = FALSE

-----------------------------------------------------------------------------
(* The phone.  phone.on is the call it waits for. *)

(* Login stores the session, then registers the token.  Push may be         *)
(* unavailable: permission denied, no project id.                          *)
SignIn(u) ==
    /\ phone.step = "out"
    /\ \/ phone' = [phone EXCEPT !.user = u, !.step = "in"] /\ UNCHANGED call
       \/ \E c \in Calls :
            /\ call[c] = NoCall
            /\ call' = [call EXCEPT ![c] = [kind |-> "register", user |-> u]]
            /\ phone' = [phone EXCEPT !.user = u, !.step = "registering", !.on = c]
    /\ UNCHANGED <<owner, push, strayed, late>>

(* Whether the call the phone waits for has reached the API. *)
Arrived == call[phone.on] = NoCall

(* clearSession *)
SessionCleared == SignedOut

Registered ==
    /\ phone.step = "registering"
    /\ Arrived
    /\ phone' = [phone EXCEPT !.step = "in", !.stored = TRUE, !.on = Nobody]
    /\ UNCHANGED <<owner, call, push, strayed, late>>

(* The call fails, or the app is killed and opened again: the session is    *)
(* stored, the push token is not.  A call under way stays under way.        *)
RegistrationFails ==
    /\ phone.step = "registering"
    /\ phone' = [phone EXCEPT !.step = "in", !.on = Nobody]
    /\ UNCHANGED <<owner, call, push, strayed, late>>

SignOut ==
    /\ phone.step = "in"
    /\ IF phone.stored
       THEN /\ \E c \in Calls :
                 /\ call[c] = NoCall
                 /\ call' = [call EXCEPT ![c] = [kind |-> "unregister", user |-> phone.user]]
                 /\ phone' = [phone EXCEPT !.step = "detaching", !.on = c]
            /\ UNCHANGED strayed
       ELSE /\ phone' = SessionCleared
            /\ strayed' = strayed \union {phone.user}
            /\ UNCHANGED call
    /\ UNCHANGED <<owner, push, late>>

Detached ==
    /\ phone.step = "detaching"
    /\ Arrived
    /\ phone' = SessionCleared
    /\ UNCHANGED <<owner, call, push, strayed, late>>

(* The app is killed while it detaches, and opens on the session and the    *)
(* push token it had; the row may be gone.                                 *)
Reopened ==
    /\ phone.step = "detaching"
    /\ phone' = [phone EXCEPT !.step = "in", !.on = Nobody]
    /\ late' = (late \/ Arrived)
    /\ UNCHANGED <<owner, call, push, strayed>>

(* Best-effort: the session is cleared whether or not the call got through. *)
DetachFails ==
    /\ phone.step = "detaching"
    /\ phone' = SessionCleared
    /\ strayed' = strayed \union {phone.user}
    /\ UNCHANGED <<owner, call, push, late>>

(* The session ends by itself (a 401 that survives a refresh), or the app   *)
(* is removed and installed again, under the same token.                   *)
SessionEnds ==
    /\ phone.step = "in"
    /\ phone' = SessionCleared
    /\ strayed' = strayed \union {phone.user}
    /\ UNCHANGED <<owner, call, push, late>>

-----------------------------------------------------------------------------
(* The API. *)

(* Upsert on the token: the row goes to whoever registers. *)
Register(c) ==
    /\ call[c].kind = "register"
    /\ owner' = call[c].user
    /\ call' = [call EXCEPT ![c] = NoCall]
    /\ late' = (late \/ phone.on # c)
    /\ strayed' = IF phone.on = c THEN strayed ELSE strayed \union {call[c].user}
    /\ UNCHANGED <<phone, push>>

(* Broken variant: deletes by token alone. *)
WhoeverOwnsIt(c) == TRUE

MayDetach(c) == owner = call[c].user

(* A deleteMany by user and token.  One that its sender no longer waits for *)
(* can only hit a row the same user has registered anew.                   *)
Unregister(c) ==
    /\ call[c].kind = "unregister"
    /\ owner' = IF MayDetach(c) THEN Nobody ELSE owner
    /\ call' = [call EXCEPT ![c] = NoCall]
    /\ late' = (late \/ (phone.on # c /\ phone.user = call[c].user))
    /\ UNCHANGED <<phone, push, strayed>>

LoseCall(c) ==
    /\ call[c] # NoCall
    /\ phone.on # c
    /\ call' = [call EXCEPT ![c] = NoCall]
    /\ UNCHANGED <<owner, phone, push, strayed, late>>

-----------------------------------------------------------------------------
(* A notification: look up, send, clean up. *)

LookUp(p, u) ==
    /\ push[p] = NoPush
    /\ owner = u
    /\ push' = [push EXCEPT ![p] = [user |-> u, step |-> "sending"]]
    /\ UNCHANGED <<owner, phone, call, strayed, late>>

(* Delivered to whoever holds the handset, or undeliverable: the app was    *)
(* not there at that moment.                                               *)
Send(p) ==
    /\ push[p].step = "sending"
    /\ \/ push' = [push EXCEPT ![p] = NoPush]
       \/ /\ phone.step = "out"
          /\ push' = [push EXCEPT ![p].step = "cleaning"]
    /\ UNCHANGED <<owner, phone, call, strayed, late>>

(* A deleteMany by token alone, whoever owns it by now. *)
DropInvalid(p) ==
    /\ push[p].step = "cleaning"
    /\ owner' = Nobody
    /\ push' = [push EXCEPT ![p] = NoPush]
    /\ late' = (late \/ phone.step # "out")
    /\ UNCHANGED <<phone, call, strayed>>

DeviceNext ==
    \/ Registered
    \/ RegistrationFails
    \/ SignOut
    \/ Detached
    \/ DetachFails
    \/ Reopened
    \/ SessionEnds
    \/ \E u \in Users : SignIn(u) \/ \E p \in Pushes : LookUp(p, u)
    \/ \E c \in Calls : Register(c) \/ Unregister(c) \/ LoseCall(c)
    \/ \E p \in Pushes : Send(p) \/ DropInvalid(p)

DeviceSpec == DeviceInit /\ [][DeviceNext]_deviceVars

-----------------------------------------------------------------------------
DeviceTypeOK ==
    /\ owner \in Users \union {Nobody}
    /\ phone \in [user : Users \union {Nobody}, step : {"out", "registering", "in", "detaching"},
                  stored : BOOLEAN, on : Calls \union {Nobody}]
    /\ phone.step = "out" <=> phone.user = Nobody
    /\ call \in [Calls -> {NoCall} \union [kind : {"register", "unregister"}, user : Users]]
    /\ push \in [Pushes -> {NoPush} \union [user : Users, step : {"sending", "cleaning"}]]
    /\ strayed \subseteq Users
    /\ late \in BOOLEAN

(* Somebody who is not signed in on the handset receives notifications      *)
(* there only if they left without detaching it, or registered it by a call *)
(* they had given up: a sign-out that was answered detaches for good        *)
(* (dashboard.tsx signOut, push.ts, DevicesService).                       *)
DetachedStaysDetached ==
    owner # Nobody /\ phone.user # owner => owner \in strayed

(* Who has stored the token is who receives on it, whatever calls of former *)
(* users are still on their way, unless a registration outlived its         *)
(* occasion, their own unregistration did (or its sign-out), or a clean-up  *)
(* hit the row of somebody who signed in since (registerPushToken,          *)
(* unregister, sendPush).                                                  *)
RegisteredIsReached ==
    phone.stored /\ phone.step = "in" => owner = phone.user \/ late

(* A handset's notifications go to whoever is signed in on it: the two      *)
(* together, of the row's owner and of the phone's user.                   *)
NotificationsFollowThePhone == DetachedStaysDetached /\ RegisteredIsReached
=============================================================================
