---------------------------- MODULE TradeLedger ----------------------------
(***************************************************************************)
(* What the paper book promises, whatever threads work on it: a position   *)
(* opens at most once and only below the configured limit, closes at most  *)
(* once, and its profit or loss is written to at most one trade row, after *)
(* it closed.  PaperTrading is shown to implement this specification when  *)
(* one live thread owns the store.                                         *)
(***************************************************************************)
EXTENDS Naturals, FiniteSets

CONSTANTS
    Ids,                   \* identities of the positions that may be opened
    MaxTotalOpenPositions  \* config.MaxTotalOpenPositions

VARIABLES
    status,  \* status[i]: the life of position i
    booked   \* booked[i]: trade rows that hold position i's realised PnL

vars == <<status, booked>>

Statuses == {"absent", "open", "closed"}

OpenIds == {i \in Ids : status[i] = "open"}

Init ==
    /\ status = [i \in Ids |-> "absent"]
    /\ booked = [i \in Ids |-> 0]

OpenPosition(i) ==
    /\ status[i] = "absent"
    /\ Cardinality(OpenIds) < MaxTotalOpenPositions
    /\ status' = [status EXCEPT ![i] = "open"]
    /\ UNCHANGED booked

ClosePosition(i) ==
    /\ status[i] = "open"
    /\ status' = [status EXCEPT ![i] = "closed"]
    /\ UNCHANGED booked

BookPnL(i) ==
    /\ status[i] = "closed"
    /\ booked[i] = 0
    /\ booked' = [booked EXCEPT ![i] = 1]
    /\ UNCHANGED status

Next == \E i \in Ids : OpenPosition(i) \/ ClosePosition(i) \/ BookPnL(i)

Spec == Init /\ [][Next]_vars
=============================================================================
