-------------------------- MODULE MCExecutionGate --------------------------
(* Small instances of ExecutionGate for TLC. *)
EXTENDS ExecutionGate, TLC

CONSTANTS r1, r2

\* All calls through one repository, or one call through another.
Together == {[c \in Calls |-> r1]}
Apart    == {[c \in Calls |-> IF c = d THEN r1 ELSE r2] : d \in Calls}
Either   == Together \cup Apart

CallSymmetry == Permutations(Calls)
=============================================================================
