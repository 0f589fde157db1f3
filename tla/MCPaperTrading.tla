--------------------------- MODULE MCPaperTrading ---------------------------
(* Instances of PaperTrading for TLC.                                      *)
EXTENDS PaperTrading, TLC

CONSTANTS i1, i2, i3, m1, m2

MCIds == {i1, i2, i3}
MCTwoIds == {i1, i2}
MCSymmetry == Permutations(MCIds)

Fill(m, q, s) == [market |-> m, quantity |-> q, size |-> s]

\* Two markets, equal and different fills, for any order.
MCFills ==
    [i \in MCIds |-> {Fill(m1, 1, 1), Fill(m1, 1, 2), Fill(m2, 1, 1)}]

\* The same, and a fill that differs from the first in both.
MCMoreFills == [i \in MCIds |-> MCFills[i] \cup {Fill(m1, 2, 2)}]

\* Equal fills in one market, and the same in another.
MCEqualFills == [i \in MCIds |-> {Fill(m1, 1, 1), Fill(m2, 1, 1)}]

\* Two orders of one market that no rule can confuse.
MCDistinctFills == (i1 :> {Fill(m1, 1, 1)}) @@ (i2 :> {Fill(m1, 2, 2)})
=============================================================================
