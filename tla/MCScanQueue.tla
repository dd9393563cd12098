----------------------------- MODULE MCScanQueue -----------------------------
(* Small instances of ScanQueue for TLC. *)
EXTENDS ScanQueue

CONSTANTS r1, r2, p1, rootA

MCRootOf == [p \in Projects |-> rootA]
=============================================================================
