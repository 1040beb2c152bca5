----------------------------- MODULE MCStateStore -----------------------------
(* StateStore on a small instance: bounded queues (a broken table lets them grow
   without limit) and the actions that tell two rows apart.                    *)
EXTENDS StateStore

CONSTANTS MaxPending,       \* bound on each queue
          RecordedActions   \* the last_action values recorded

Bounded ==
    /\ Len(pending') <= MaxPending
    /\ Len(pendingId') <= MaxPending
    /\ \A k \in Keys : cache'[k] # NoRow => cache'[k].action \in RecordedActions

MCNext == StoreNext /\ Bounded

MCSpec == StoreInit /\ [][MCNext]_storeVars
===============================================================================
