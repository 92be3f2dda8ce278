---------------------------- MODULE MCRealmManager ----------------------------
(* An instance of RealmManager for TLC. *)
EXTENDS RealmManager, TLC

CONSTANTS r1, r2, r3, n1, n2

\* Two realms that claim one name, and one of another name.
SharedName == (r1 :> n1) @@ (r2 :> n1) @@ (r3 :> n2)
===============================================================================
