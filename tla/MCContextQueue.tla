---------------------------- MODULE MCContextQueue ----------------------------
(* Instances of ContextQueue and TwoProducers for TLC. *)
EXTENDS TwoProducers, TLC

\* Addresses are interchangeable: no property names one.
Symmetry == Permutations(Node)
=============================================================================
