----------------------------- MODULE MCSessions -----------------------------
(***************************************************************************)
(* Small instances of Sessions: three requests of one tab, or two tabs of  *)
(* a browser that share what is stored.                                    *)
(***************************************************************************)
EXTENDS Sessions

CONSTANTS a, b, a1, a2, a3, b1

VARIABLE used  \* the requests that are made in this behaviour

MCTabOf == [r \in {a1, a2, a3, b1} |-> IF r = b1 THEN b ELSE a]

MCInit ==
    /\ SessionInit
    /\ used \in {{a1, a2, a3}, {a1, b1}}

MCNext ==
    /\ SessionNext
    /\ \A r \in Requests \ used : request'[r] = NoRequest
    /\ UNCHANGED used

mcVars == <<sessionVars, used>>

MCSpec == MCInit /\ [][MCNext]_mcVars /\ SessionFairness
==============================================================================
