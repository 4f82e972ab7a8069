------------------------------ MODULE MCSelect ------------------------------
(* Two processes that select among sockets. *)
EXTENDS Select
=============================================================================
