----------------------------- MODULE MCIamAccess -----------------------------
(* One user for TLC, with the roles and calls the configuration names. *)
EXTENDS IamAccess

CONSTANTS r1, r2, u1

MCRole == {r1, r2}
MCUser == {u1}
=============================================================================
