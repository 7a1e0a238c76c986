------------------------------ MODULE MCService ------------------------------
(***************************************************************************)
(* One installation with two users, see Service.                           *)
(***************************************************************************)
EXTENDS Service

CONSTANTS u1, u2, r1, r2, d1, d2, h1, h2, i1

MCInstallationOf == [r \in Repos |-> i1]
=============================================================================
