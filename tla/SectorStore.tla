---------------------------- MODULE SectorStore ----------------------------
(***************************************************************************)
(* What the firmware promises the card about the mounted image: one value  *)
(* per sector, which changes when a write is accepted.  The medium may     *)
(* still refuse an accepted sector later, and then an older value of that  *)
(* sector returns, but every such loss is counted; only a power cut takes  *)
(* sectors back without a trace.  No sector ever holds anything that was   *)
(* not written to it.                                                      *)
(***************************************************************************)
EXTENDS Naturals

CONSTANTS LBA, Val,
          PowerFails   \* the power may be cut

VARIABLES store,       \* what a read of each sector returns
          past,        \* the values each sector ever had
          count,       \* accepted writes
          lost         \* accepted sectors the medium refused

Init ==
    /\ store \in [LBA -> Val]
    /\ past = [l \in LBA |-> {store[l]}]
    /\ count = 0 /\ lost = 0

Remember(l, v) ==
    /\ count' = count + 1
    /\ past' = [past EXCEPT ![l] = @ \cup {v}]

Accept(l, v) ==
    /\ lost' = lost /\ Remember(l, v)
    /\ store' = [store EXCEPT ![l] = v]

Lose(l, v) ==
    /\ v \in past[l]
    /\ lost' = lost + 1 /\ UNCHANGED <<past, count>>
    /\ store' = [store EXCEPT ![l] = v]

\* A full queue gives up its oldest sector in the step that accepts the next.
LoseAndAccept(k, u, l, v) ==
    /\ k # l /\ u \in past[k]
    /\ lost' = lost + 1 /\ Remember(l, v)
    /\ store' = [store EXCEPT ![k] = u, ![l] = v]

PowerCut ==
    /\ PowerFails
    /\ UNCHANGED <<past, count, lost>>
    /\ store' \in [LBA -> Val] /\ \A l \in LBA : store'[l] \in past[l]

Next ==
    \/ \E l \in LBA, v \in Val :
           \/ Accept(l, v)
           \/ Lose(l, v)
           \/ \E k \in LBA, u \in Val : LoseAndAccept(k, u, l, v)
    \/ PowerCut

Spec == Init /\ [][Next]_<<store, past, count, lost>>
=============================================================================
