---------------------------- MODULE MCPersistence ----------------------------
(* An instance of Persistence for TLC. *)
EXTENDS Persistence

OnePlayer == {1}
TwoRows == 1..2
=============================================================================
