------------------------- MODULE MCRuntimeInstaller -------------------------
(* RuntimeInstaller for TLC: the versions a setup may carry are            *)
(* interchangeable.                                                        *)
EXTENDS RuntimeInstaller, TLC

VersionSymmetry == Permutations(Version)
=============================================================================
