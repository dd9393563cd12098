--------------------------- MODULE MCRegistryClient ---------------------------
EXTENDS RegistryClient
CONSTANTS p, g, c1, c2
MCScans == {1, 2}
MCNames == {p, g}
MCClientOf == [s \in MCScans |-> c1]
MCTwoClients == <<c1, c2>>
\* A package whose registry lists all it has, and a Go module.
MCStated == p :> {} @@ g :> {1, 2}
=============================================================================
