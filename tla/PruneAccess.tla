---------------------------- MODULE PruneAccess ----------------------------
(***************************************************************************)
(* prune_su_access (core/su/db.rs) with get_app_no_list (core/package.rs): *)
(* when zygote restarts, the daemon forgets the policies of apps that are  *)
(* gone.  It lists the uids of the policies, walks the data directories of *)
(* all users while the system may install and remove apps, and deletes.    *)
(***************************************************************************)
EXTENDS AppUids, FiniteSets

CONSTANTS
    DirUids,   \* uids that may own a data directory
    RowUids    \* uids that may have a policy

ASSUME PruneAssumption == DirUids \subseteq Nat /\ RowUids \subseteq Nat

VARIABLES
    dirs,   \* owners of the data directories there are now
    rows,   \* uids in table policies
    walk    \* the prune under way

pruneVars == <<dirs, rows, walk>>

\* Mutant: the upper end of the range is left out.
IsAppHalfOpen(uid) == to_app_id(uid) >= 10000 /\ to_app_id(uid) < 19999

\* (AID_APP_START..=AID_APP_END).contains(&app_id)
IsApp(uid) == 10000 <= to_app_id(uid) /\ to_app_id(uid) <= 19999

\* snap: the directories at the start; todo: entries not looked at yet; user:
\* whose directory is open; list: the app ids found; end: whether a `?` ended the walk.
NoWalk == [pc |-> "idle", uids |-> {}, snap |-> {}, todo |-> {}, user |-> 0,
           list |-> {}, end |-> "none"]

Walks == [pc : {"idle", "walk", "delete"}, uids : SUBSET RowUids, snap : SUBSET DirUids,
          todo : SUBSET DirUids, user : Nat, list : SUBSET Nat,
          end : {"none", "complete", "early"}]

TypeOKPrune ==
    /\ dirs \subseteq DirUids
    /\ rows \subseteq RowUids
    /\ walk \in Walks
    /\ \A n \in walk.list : 10000 <= n /\ n <= 19999

InitPrune ==
    /\ dirs = DirUids
    /\ rows = {}
    /\ walk = NoWalk

\* SELECT uid FROM policies, and the data directory is opened.
SelectUids ==
    /\ walk.pc = "idle"
    /\ walk' = [pc |-> "walk", uids |-> rows, snap |-> dirs, todo |-> dirs, user |-> 0,
                list |-> {}, end |-> "none"]
    /\ UNCHANGED <<dirs, rows>>

\* The next entry of the open user directory, or of the next one.
NextEntry(d) ==
    /\ d \in walk.todo
    /\ (\E e \in walk.todo : to_user_id(e) = walk.user) => to_user_id(d) = walk.user

\* Mutant: the list starts anew with each entry.
StatOverwrites(d) ==
    /\ walk.pc = "walk"
    /\ NextEntry(d)
    /\ d \in dirs
    /\ walk' = [walk EXCEPT !.todo = @ \ {d}, !.user = to_user_id(d),
                            !.list = IF IsApp(d) THEN {to_app_id(d)} ELSE @]
    /\ UNCHANGED <<dirs, rows>>

\* get_attr succeeds: the owner's app id is noted.
StatEntry(d) ==
    /\ walk.pc = "walk"
    /\ NextEntry(d)
    /\ d \in dirs
    /\ walk' = [walk EXCEPT !.todo = @ \ {d}, !.user = to_user_id(d),
                            !.list = @ \cup (IF IsApp(d) THEN {to_app_id(d)} ELSE {})]
    /\ UNCHANGED <<dirs, rows>>

\* The directory is gone since it was listed: get_attr()? leaves both loops,
\* and the list found so far is returned.
StatFails(d) ==
    /\ walk.pc = "walk"
    /\ NextEntry(d)
    /\ d \notin dirs
    /\ walk' = [walk EXCEPT !.pc = "delete", !.end = "early"]
    /\ UNCHANGED <<dirs, rows>>

WalkEnds ==
    /\ walk.pc = "walk"
    /\ walk.todo = {}
    /\ walk' = [walk EXCEPT !.pc = "delete", !.end = "complete"]
    /\ UNCHANGED <<dirs, rows>>

RmUids == {u \in walk.uids : IsApp(u) /\ to_app_id(u) \notin walk.list}

\* One DELETE per uid.
DeleteRow(u) ==
    /\ walk.pc = "delete"
    /\ u \in RmUids
    /\ rows' = rows \ {u}
    /\ walk' = [walk EXCEPT !.uids = @ \ {u}]
    /\ UNCHANGED dirs

PruneEnds ==
    /\ walk.pc = "delete"
    /\ RmUids = {}
    /\ walk' = NoWalk
    /\ UNCHANGED <<dirs, rows>>

\* The package manager, and policies given meanwhile.
Install(d) == d \notin dirs /\ dirs' = dirs \cup {d} /\ UNCHANGED <<rows, walk>>
Uninstall(d) == d \in dirs /\ dirs' = dirs \ {d} /\ UNCHANGED <<rows, walk>>
GivePolicy(u) == u \notin rows /\ rows' = rows \cup {u} /\ UNCHANGED <<dirs, walk>>

NextPrune ==
    \/ SelectUids \/ WalkEnds \/ PruneEnds
    \/ \E d \in DirUids : StatEntry(d) \/ StatFails(d) \/ Install(d) \/ Uninstall(d)
    \/ \E u \in RowUids : DeleteRow(u) \/ GivePolicy(u)

SpecPrune == InitPrune /\ [][NextPrune]_pruneVars

-----------------------------------------------------------------------------
(* Properties *)

Deleted == rows \ rows'

\* However the walk goes, a policy of the shell or of another uid outside the
\* app range is never pruned; a complete walk loses no policy of an app
\* installed for any user, also at the ends of the app range.
PruneSparesOthers ==
    [][\A u \in Deleted :
          /\ 10000 <= to_app_id(u) /\ to_app_id(u) <= 19999
          /\ walk.end = "complete" => \A d \in walk.snap : to_app_id(d) # to_app_id(u)]_pruneVars

\* A complete prune leaves no policy it has seen for an app without a data
\* directory at its start.
CompletePruneForgets ==
    [][walk.pc = "delete" /\ walk'.pc = "idle" /\ walk.end = "complete" =>
          \A u \in walk.uids : 10000 <= to_app_id(u) /\ to_app_id(u) <= 19999 =>
              \E d \in walk.snap : to_app_id(d) = to_app_id(u)]_pruneVars

\* su/db.rs says of the uid to delete "The app_id is no longer installed": so
\* an app that was installed all through the prune keeps its policy.
OnlyUninstalledPruned ==
    [][\A u \in Deleted : \A d \in walk.snap \cap dirs : to_app_id(d) # to_app_id(u)]_pruneVars
=============================================================================
