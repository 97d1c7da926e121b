-------------------------- MODULE MCInstallations ---------------------------
(* Instances of Installations for TLC. Trackers and vehicles are            *)
(* interchangeable: no action and no property tells them apart.             *)
EXTENDS Installations, TLC

Symmetry == Permutations(Trackers) \cup Permutations(Vehicles)
=============================================================================
