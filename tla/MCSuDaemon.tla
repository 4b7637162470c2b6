----------------------------- MODULE MCSuDaemon -----------------------------
(* SuDaemon for TLC: a device with su_restrict set, so that an app that is  *)
(* granted root is restricted, and the manager and root are allowed.       *)
EXTENDS SuDaemon

LiveRows == {[policy |-> p, talk |-> TRUE, live |-> TRUE] : p \in {"Deny", "Restrict"}}
OpenConfig == {[root_access |-> "AppsAndAdb", multiuser_mode |-> "User"]}
=============================================================================
