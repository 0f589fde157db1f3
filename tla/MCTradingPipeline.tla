------------------------- MODULE MCTradingPipeline -------------------------
(* Instances of TradingPipeline for TLC.                                   *)
EXTENDS TradingPipeline, TLC

CONSTANTS a1, a2, m1, m2

\* One article that is about two markets, or one that is about a single
\* one, which leaves room for a second fault on Postgres, and on the memory
\* store for a restart that brings back events of several groups.
MCFeeds == {<<a1>>, <<a2>>}
MCMatches == [a \in Articles |-> IF a = a1 THEN {m1, m2} ELSE {m1}]
MCMaxFaults == "postgres" :> (<<a1>> :> 1 @@ <<a2>> :> 2)
            @@ "memory"   :> (<<a1>> :> 0 @@ <<a2>> :> 1)

\* One article and nothing that goes wrong.
MCOneFeed == {<<a1>>}
MCNoFaults == "postgres" :> (<<a1>> :> 0)
=============================================================================
