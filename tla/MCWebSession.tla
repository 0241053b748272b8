---------------------------- MODULE MCWebSession ----------------------------
(* Small instances of WebSession.                                          *)
EXTENDS WebSession, TLC

\* Interchangeable values: no action and no property names one of them.
Symmetry == Permutations(Tabs) \cup Permutations(Tokens) \cup Permutations(Clicks)

============================================================================
