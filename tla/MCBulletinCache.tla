-------------------------- MODULE MCBulletinCache --------------------------
(* Small instances of BulletinCache. *)
EXTENDS BulletinCache

CONSTANTS c1, c2, c3
=============================================================================
