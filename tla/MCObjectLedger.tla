--------------------------- MODULE MCObjectLedger ---------------------------
(***************************************************************************)
(* Instances of ObjectLedger for TLC.                                      *)
(***************************************************************************)
EXTENDS ObjectLedger, TLC

\* Requests, types and tags are interchangeable; objects are not, since one of
\* them has the id 1.
Interchangeable ==
  Permutations(Requests) \cup Permutations(Types) \cup Permutations(Tags)

=============================================================================
