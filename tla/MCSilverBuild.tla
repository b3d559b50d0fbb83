--------------------------- MODULE MCSilverBuild ----------------------------
(* Small instances of SilverBuild: two files of one version, and two        *)
(* configurations that differ in the engine release.                       *)
EXTENDS SilverBuild, TLC

CONSTANTS f1, f2

MCVersionOf == [f \in Files |-> "2024-01"]
MCOneConfig == {[contract |-> 1, engine |-> 1, processing |-> 1, quality |-> 1]}
MCTwoConfigs == {[contract |-> 1, engine |-> e, processing |-> 1, quality |-> 1] : e \in 1..2}
Symmetric == Permutations(Builds) \cup Permutations(Workers)
SymmetricBuilds == Permutations(Builds)
=============================================================================
