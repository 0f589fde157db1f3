----------------------------- MODULE MCLiveLoop -----------------------------
(* Instances of LiveLoop for TLC.                                          *)
EXTENDS LiveLoop

MCArticles == 1..4
=============================================================================
