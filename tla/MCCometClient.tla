---------------------------- MODULE MCCometClient ----------------------------
(* Small instances of CometClient for TLC. *)
EXTENDS CometClient

CONSTANT u1

\* All clients have the token of one user: his devices.
OneUser == [c \in Conns |-> {u1}]
=============================================================================
