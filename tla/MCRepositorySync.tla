-------------------------- MODULE MCRepositorySync --------------------------
(* A small instance of RepositorySync for TLC. *)
EXTENDS RepositorySync

CONSTANTS r1, w1, w2, c1, p1

\* Everything in one process.
OneProc == [a \in Actors |-> p1]
=============================================================================
