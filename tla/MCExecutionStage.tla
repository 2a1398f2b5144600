-------------------------- MODULE MCExecutionStage --------------------------
EXTENDS ExecutionStage, TLC

DoorSymmetry == Permutations(Doors)
RaceSymmetry == Permutations(Doors) \cup Permutations(Policies)
PolicySymmetry == Permutations(Policies)
=============================================================================
