--------------------------- MODULE MCGalaxyPlugin ---------------------------
(* GalaxyPlugin for TLC: which kinds of message a run lets the client send. *)
EXTENDS GalaxyPlugin

MCEveryKind == Kinds
MCTaskKinds == {"import", "shutdown", "init"}

=============================================================================
