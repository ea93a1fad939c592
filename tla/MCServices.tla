----------------------------- MODULE MCServices -----------------------------
(***************************************************************************)
(* Small instances of the services of Services.  One of them runs in each  *)
(* behaviour: they have nothing in common, so whatever holds of each alone *)
(* holds of all together.                                                  *)
(***************************************************************************)
EXTENDS Services, TLC

CONSTANTS
    t1, t2, t3,  \* ids of rows or of requests.  As one service runs in a
    u1, u2,      \* behaviour, its ids need not differ from those of another,
    v1, v2,      \* and few values make symmetry cheap
    ali, r1, k1, k2

VARIABLE service  \* the service that runs in this behaviour

(* Two registers of one sheet and one of the other. *)
MCSheetOf == [r \in {1, 2, 3} |-> IF r = 3 THEN k2 ELSE k1]

MCInit ==
    /\ ServicesInit
    /\ service \in {"inventory", "library", "hostel", "meetings", "registers", "queue"}

MCNext ==
    /\ UNCHANGED service
    /\ \/ service = "inventory" /\ InventoryTurn
       \/ service = "library" /\ LibraryTurn
       \/ service = "hostel" /\ HostelTurn
       \/ service = "meetings" /\ MeetingTurn
       \/ service = "registers" /\ RegisterTurn
       \/ service = "queue" /\ QueueTurn

MCSpec == MCInit /\ [][MCNext]_<<servicesVars, service>>

MCSymmetry ==
    UNION {Permutations({t1, t2, t3}), Permutations({u1, u2}), Permutations({v1, v2})}
==============================================================================
