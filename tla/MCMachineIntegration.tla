------------------------ MODULE MCMachineIntegration ------------------------
(* MachineIntegration with interchangeable profiles, for TLC. *)
EXTENDS MachineIntegration, TLC

ProfileSymmetry == Permutations(Profile)

=============================================================================
