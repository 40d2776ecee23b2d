----------------------------- MODULE MCBlocking -----------------------------
(* A small instance of Blocking. *)
EXTENDS Blocking

CONSTANTS p1, p2

\* One command waits at one place, the other at both.
MCPops == {[keys |-> <<p1>>, min |-> TRUE], [keys |-> <<p2, p1>>, min |-> FALSE]}

=============================================================================
