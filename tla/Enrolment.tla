----------------------------- MODULE Enrolment -----------------------------
(***************************************************************************)
(* Admitting students to a school whose plan caps how many it may have.    *)
(* An admission counts the students, hashes a password, which takes its    *)
(* time, and inserts the account, the profile and the family's links.      *)
(***************************************************************************)
EXTENDS Naturals, FiniteSets

CONSTANTS
    Profiles,    \* ids of student profiles
    Emails,      \* addresses accounts are opened under
    Guardians,   \* parent accounts of the school
    Clerks,      \* admission requests under way at once
    Cap,         \* maxStudents of the school's plan
    NoEmail      \* no account

ASSUME EnrolmentAssumption == Cap \in Nat /\ IsFiniteSet(Clerks) /\ NoEmail \notin Emails

VARIABLES
    profile,  \* Profiles -> the student's account and linked parents
    clerk     \* Clerks -> an admission under way

enrolmentVars == <<profile, clerk>>

NoProfile == [email |-> NoEmail, parents |-> {}]
NoAdmission == [step |-> "NONE", email |-> NoEmail, parents |-> {}]

EnrolmentInit ==
    /\ profile = [s \in Profiles |-> NoProfile]
    /\ clerk = [c \in Clerks |-> NoAdmission]

Enrolled == {s \in Profiles : profile[s] # NoProfile}

(* Broken variant: lets one in when the school is full. *)
NotYetOver == Cardinality(Enrolled) <= Cap

UnderStudentCap == Cardinality(Enrolled) < Cap

(* assertUnderStudentCap *)
CheckCap(c, e, family) ==
    /\ clerk[c] = NoAdmission
    /\ UnderStudentCap
    /\ clerk' = [clerk EXCEPT ![c] = [step |-> "hashing", email |-> e, parents |-> family]]
    /\ UNCHANGED profile

(* The unique index on school and email. *)
EmailFree(e) == \A s \in Enrolled : profile[s].email # e

(* The transaction: account, profile and links, or nothing. *)
Admit(c, s) ==
    /\ clerk[c].step = "hashing"
    /\ EmailFree(clerk[c].email)
    /\ profile[s] = NoProfile
    /\ profile' = [profile EXCEPT ![s] = [email |-> clerk[c].email, parents |-> clerk[c].parents]]
    /\ clerk' = [clerk EXCEPT ![c] = NoAdmission]

(* The address is taken, or the request dies. *)
DropAdmission(c) ==
    /\ clerk[c].step = "hashing"
    /\ clerk' = [clerk EXCEPT ![c] = NoAdmission]
    /\ UNCHANGED profile

(* linkParent upserts, unlinkParent deletes what is there. *)
LinkParent(s, p) ==
    /\ profile[s] # NoProfile
    /\ profile' = [profile EXCEPT ![s].parents = @ \union {p}]
    /\ UNCHANGED clerk

UnlinkParent(s, p) ==
    /\ profile[s] # NoProfile
    /\ profile' = [profile EXCEPT ![s].parents = @ \ {p}]
    /\ UNCHANGED clerk

EnrolmentNext ==
    \/ \E c \in Clerks :
         \/ \E e \in Emails : \E family \in SUBSET Guardians : CheckCap(c, e, family)
         \/ \E s \in Profiles : Admit(c, s)
         \/ DropAdmission(c)
    \/ \E s \in Profiles, p \in Guardians : LinkParent(s, p) \/ UnlinkParent(s, p)

EnrolmentSpec == EnrolmentInit /\ [][EnrolmentNext]_enrolmentVars

-----------------------------------------------------------------------------
EnrolmentTypeOK ==
    /\ profile \in [Profiles -> {NoProfile} \union [email : Emails, parents : SUBSET Guardians]]
    /\ clerk \in [Clerks -> {NoAdmission} \union
                  [step : {"hashing"}, email : Emails, parents : SUBSET Guardians]]
    /\ \A s, t \in Enrolled : profile[s].email = profile[t].email => s = t

(* The cap is looked at before the password is hashed and not again, so a   *)
(* school can end up with more students than its plan covers; but only with *)
(* those who were being admitted at the same moment, all but one of them    *)
(* (StudentsService.admit).                                                *)
OverCapByRacersOnly ==
    Clerks # {} => Cardinality(Enrolled) + 1 <= Cap + Cardinality(Clerks)
=============================================================================
