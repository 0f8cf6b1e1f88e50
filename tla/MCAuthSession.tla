--------------------------- MODULE MCAuthSession ---------------------------
(* AuthSession for TLC: devices, websockets and requests are alike.        *)
EXTENDS AuthSession, TLC

Symmetry ==
  Permutations(Device) \cup Permutations(Conn) \cup Permutations(Req)
=============================================================================
