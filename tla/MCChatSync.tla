----------------------------- MODULE MCChatSync -----------------------------
(* Small instances of ChatSync for TLC.                                    *)
EXTENDS ChatSync, TLC

Perms == Permutations(Msg) \cup Permutations(Body)
=============================================================================
