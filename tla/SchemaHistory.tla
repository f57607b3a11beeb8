--------------------------- MODULE SchemaHistory ---------------------------
(***************************************************************************)
(* What schema migration promises its users: migrations are applied one at *)
(* a time in the order of their versions, and taken back one at a time in  *)
(* the opposite order; "effects" says how often each migration's changes   *)
(* are in the schema.                                                      *)
(***************************************************************************)
EXTENDS Integers

CONSTANT Versions
VARIABLES applied, effects

shVars == <<applied, effects>>

SHInit == applied = {} /\ effects = [v \in Versions |-> 0]

StepUp(v) ==
  /\ v \notin applied
  /\ \A u \in Versions : u < v => u \in applied
  /\ applied' = applied \cup {v}
  /\ effects' = [effects EXCEPT ![v] = 1]

StepDown(v) ==
  /\ v \in applied
  /\ \A u \in applied : u <= v
  /\ applied' = applied \ {v}
  /\ effects' = [effects EXCEPT ![v] = 0]

SHNext == \E v \in Versions : StepUp(v) \/ StepDown(v)

SHSpec == SHInit /\ [][SHNext]_shVars
=============================================================================
