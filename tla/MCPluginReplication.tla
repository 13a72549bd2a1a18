------------------------ MODULE MCPluginReplication ------------------------
(* Small instances of PluginReplication for TLC. *)
EXTENDS PluginReplication, TLC

PluginSymmetry == Permutations(Plugins)

\* The pods are alike, and so are the slots of a pod.
TaskSymmetry == Permutations(Pods) \cup Permutations(Slots)

=============================================================================
