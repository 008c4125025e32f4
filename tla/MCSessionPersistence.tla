------------------------ MODULE MCSessionPersistence ------------------------
(* SessionPersistence on small instances.                                  *)
EXTENDS SessionPersistence
=============================================================================
