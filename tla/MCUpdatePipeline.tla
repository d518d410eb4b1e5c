-------------------------- MODULE MCUpdatePipeline --------------------------
(* UpdatePipeline for TLC.  Two records play the same part, so the runs of *)
(* safety properties may identify states that differ by which is which.    *)
EXTENDS UpdatePipeline, TLC

Symmetry == Permutations(Clients)
=============================================================================
