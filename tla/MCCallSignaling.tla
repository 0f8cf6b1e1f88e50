-------------------------- MODULE MCCallSignaling --------------------------
(* Small instances of CallSignaling for TLC.                               *)
EXTENDS CallSignaling, TLC

Perms == Permutations(Conn) \cup Permutations(Call) \cup Permutations(User)

\* every block between two users, in either direction or in both
BlockPairs == {p \in User \X User : p[1] # p[2]}
=============================================================================
