---------------------------- MODULE MCQuarantine ----------------------------
(* Instances of Quarantine for TLC.                                        *)
EXTENDS Quarantine, TLC

Symmetry == Permutations(Files) \cup Permutations(Paths)
              \cup Permutations(Ids) \cup Permutations(Threats)
=============================================================================
