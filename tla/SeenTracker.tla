---------------------------- MODULE SeenTracker ----------------------------
(***************************************************************************)
(* The live service's memory of the articles it has been through: a set    *)
(* and the order of insertion, from which the oldest are evicted.          *)
(***************************************************************************)
EXTENDS Integers, Sequences

CONSTANTS
    Articles,   \* article ids
    MaxSeen     \* seenTracker.max; no bound when it is not positive

ASSUME MaxSeenAssumption == MaxSeen \in Int

VARIABLES
    order,   \* ids in order of insertion
    items    \* the ids remembered

tracker == <<order, items>>

TrackerInit == order = <<>> /\ items = {}

Has(id) == id \in items

Excess(ids) == IF MaxSeen > 0 /\ Len(ids) > MaxSeen THEN Len(ids) - MaxSeen ELSE 0

\* Fault: eviction leaves the set alone.
AddKeepingItems(id) ==
    IF Has(id)
    THEN UNCHANGED tracker
    ELSE LET longer  == Append(order, id)
             evicted == Excess(longer)
         IN  /\ order' = SubSeq(longer, evicted + 1, Len(longer))
             /\ items' = items \cup {id}

Add(id) ==
    IF Has(id)
    THEN UNCHANGED tracker
    ELSE LET longer  == Append(order, id)
             evicted == Excess(longer)
         IN  /\ order' = SubSeq(longer, evicted + 1, Len(longer))
             /\ items' = (items \cup {id}) \ {longer[k] : k \in 1..evicted}

TrackerSpec == TrackerInit /\ [][\E id \in Articles : Add(id)]_tracker

-----------------------------------------------------------------------------
(* The two structures agree: every remembered id is in the order once, so  *)
(* that an eviction forgets exactly one id and none is kept for ever.      *)
TrackerOK ==
    /\ order \in Seq(Articles)
    /\ items = {order[k] : k \in 1..Len(order)}
    /\ \A j, k \in 1..Len(order) : order[j] = order[k] => j = k

(* Never more than MaxSeen ids are remembered.                             *)
TrackerBounded == MaxSeen > 0 => Len(order) <= MaxSeen

(* Evicting spares the younger ids: what was forgotten was inserted before *)
(* everything that is kept.                                                *)
EvictsOldest ==
    [][\A j, k \in 1..Len(order) :
          (j < k /\ order[j] \in items') => order[k] \in items']_tracker
=============================================================================
