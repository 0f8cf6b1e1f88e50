--------------------------- MODULE MCClientCalls ---------------------------
(* A small instance of ClientCalls for TLC: two users, two calls.          *)
EXTENDS ClientCalls, TLC

Perms == Permutations(User) \cup Permutations(Call)
=============================================================================
