------------------------ MODULE MCFindingLifecycle ------------------------
EXTENDS FindingLifecycle, TLC
\* The feed sources of a non-npm ecosystem, in the order the worker runs them.
MCOrder == <<"osv", "gemnasium">>
\* The second source is the graver, so that its agreement moves the grade.
MCGrade == [s \in {"osv", "gemnasium"} |-> IF s = "osv" THEN 1 ELSE 2]
\* Nothing in the code tells one manifest from another.
MCSymmetry == Permutations(Manifests)
===========================================================================
