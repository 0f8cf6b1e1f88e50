------------------------------ MODULE UserIds ------------------------------
(***************************************************************************)
(* The identifiers the server components share.                            *)
(***************************************************************************)
CONSTANTS User,   \* user ids
          None    \* the code's None: no user, no call, no connection
=============================================================================
