--------------------------- MODULE MCLevelPermits ---------------------------
(* Levels of a few tasks; which of them are LLM nodes is set per run. *)
EXTENDS LevelPermits

HeavyFits == {2, 7, 8}
HeavyTooMany == {3, 4}
=============================================================================
