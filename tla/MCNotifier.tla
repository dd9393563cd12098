---------------------------- MODULE MCNotifier ----------------------------
(* Small instances of Notifier for TLC. *)
EXTENDS Notifier

CONSTANTS p1, p2, rootA, rootB, f1, f2, high, low, t1, t2, l1, l2

\* One project under a root of its own, and one finding in each.
MCProjectOf == [f \in Findings |-> IF f = f1 THEN p1 ELSE p2]
MCRootOf == [p \in Projects |-> IF p = p1 THEN rootA ELSE rootB]

\* A target that wants everything, and one that only wants the gravest.
MCFilters == {{high}, {high, low}}

\* Everything.
MCEverywhere == {NoScope}

\* One root, or one project outside it.
MCScoped == {[roots |-> {rootA}, projects |-> {}], [roots |-> {}, projects |-> {p1}]}
=============================================================================
