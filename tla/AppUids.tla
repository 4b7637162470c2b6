------------------------------ MODULE AppUids ------------------------------
(* Android uids as the daemon takes them apart (core/daemon.rs): an app of  *)
(* a user has uid  user * 100000 + app id.                                 *)
EXTENDS Integers

AID_ROOT == 0
AID_SHELL == 2000
AID_USER_OFFSET == 100000

\* Rust's % and / truncate towards zero, which matters for uid -1 only.
to_app_id(uid) == IF uid < 0 THEN uid ELSE uid % AID_USER_OFFSET
to_user_id(uid) == IF uid < 0 THEN 0 ELSE uid \div AID_USER_OFFSET
=============================================================================
