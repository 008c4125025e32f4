--------------------------- MODULE MCSessionTable ---------------------------
(* SessionTable on small instances.                                        *)
EXTENDS SessionTable, TLC

Symmetry == Permutations(Clients) \cup Permutations(Names)
=============================================================================
