---------------------- MODULE MCCapabilityBaseline ----------------------
(* Small instances of CapabilityBaseline for TLC. *)
EXTENDS CapabilityBaseline

CONSTANTS f1, f2, p1, p2, t1, t2, s1, s2

MCProjectOf == [f \in Findings |-> IF f = f1 THEN p1 ELSE p2]

\* A target that wants everything, and one that only wants one finding.
MCPolicies == {Findings, {f1}}
=============================================================================
