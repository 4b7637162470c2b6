------------------------------ MODULE DenyList ------------------------------
(***************************************************************************)
(* The deny list of magiskd (native/src/core/deny/utils.cpp): the list in  *)
(* memory, the index from app ids to its packages, the rows of the         *)
(* denylist table, the enforcement switch and the logcat monitor           *)
(* (logcat.cpp).  The memory is guarded by data_lock; the database is      *)
(* changed after the lock is released, and scan_deny_apps runs without it  *)
(* when zygote restarts.                                                   *)
(***************************************************************************)
EXTENDS Naturals, FiniteSets

CONSTANTS
    Threads,        \* pool threads that serve requests
    Packages, Procs,    \* package and process names
    Isolated,       \* ISOLATED_MAGIC, the package name of isolated services
    Ids,            \* app ids the package manager hands out
    ZygiskEnabled,
    DbMayFail,
    ScanAlone,      \* keep restart scans apart from the other requests
    MaxRequests,    \* bound on requests
    MaxInstalls     \* bound on installs and removals of apps

ASSUME DenyAssumption ==
    /\ Isolated \in Packages
    /\ Ids \subseteq Nat \ {0}
    /\ {ZygiskEnabled, DbMayFail, ScanAlone} \subseteq BOOLEAN
    /\ MaxRequests \in Nat /\ MaxInstalls \in Nat
    /\ "nobody" \notin Threads

VARIABLES
    loaded,             \* pkg_to_procs_ is not null
    pkg_to_procs,       \* set of <<package, process>>
    app_id_to_pkgs,     \* set of <<app id, package>>
    data_lock,          \* the holder, or Nobody
    denylist_enforced,
    logcats,            \* monitor threads in their loop
    leaving,            \* monitor threads that have seen the switch off
    denyRows,               \* the denylist table
    config,             \* DenylistConfig in the settings table
    appid,              \* package manager: app id of each package, 0: none
    denyPc, req,            \* what each thread is doing
    requests, installs, \* bounds
    unsure,             \* history: entries whose SQL failed or met another request
    configUnsure        \* history: the same for the switch

memoryVars == <<loaded, pkg_to_procs, app_id_to_pkgs>>
switchVars == <<denylist_enforced, logcats, leaving>>
boundVars == <<requests, installs>>
historyVars == <<unsure, configUnsure>>
denyVars == <<memoryVars, data_lock, switchVars, denyRows, config, appid, denyPc, req, boundVars, historyVars>>

Nobody == "nobody"
AllProcs == "all"       \* remove without a process name
ListEntries == Packages \X Procs
Kinds == {"add", "rm", "ls", "query", "enable", "disable", "scan"}
NoReq == [kind |-> "query", pkg |-> Isolated, proc |-> AllProcs]
Requests == [kind : Kinds, pkg : Packages, proc : Procs \cup {AllProcs}]

\* initialize_denylist in post-fs-data: switch on if the setting says so.
InitializeDenylist(boot) ==
    /\ denyPc = [t \in Threads |-> IF config /\ t = boot THEN "wait" ELSE "idle"]
    /\ req = [t \in Threads |-> IF config /\ t = boot THEN [NoReq EXCEPT !.kind = "enable"] ELSE NoReq]

InitDeny ==
    /\ loaded = FALSE /\ pkg_to_procs = {} /\ app_id_to_pkgs = {}
    /\ data_lock = Nobody
    /\ denylist_enforced = FALSE /\ logcats = 0 /\ leaving = 0
    /\ appid \in [Packages -> Ids \cup {0}]
    /\ appid[Isolated] = 0
    /\ \A p, q \in Packages : appid[p] = appid[q] /\ appid[p] # 0 => p = q
    /\ denyRows \in {{}} \cup {{e} : e \in ListEntries}
    /\ config \in BOOLEAN
    /\ \E boot \in Threads : InitializeDenylist(boot)
    /\ requests = 0 /\ installs = 0
    /\ unsure = {} /\ configUnsure = FALSE

-----------------------------------------------------------------------------
(* The data structures                                                     *)

Keys(entries) == {e[1] : e \in entries}

\* get_app_id: -1 for isolated services; update_app_id ignores it and 0.
Indexed(p) == p # Isolated /\ appid[p] # 0
IdOf(p) == {<<appid[p], p>>}

\* scan_deny_apps: packages without an app are dropped, the rest indexed anew.
Dropped(entries) == {e \in entries : e[1] # Isolated /\ appid[e[1]] = 0}
ScannedIndex(entries) == UNION {IdOf(p) : p \in {q \in Keys(entries) : Indexed(q)}}

\* ListEntries another thread's pending statement is about
About(r) == {e \in ListEntries : e[1] = r.pkg /\ r.proc \in {e[2], AllProcs}}
PendingOf(t) == IF denyPc[t] \in {"insert", "delete"} THEN About(req[t]) ELSE {}
PendingOthers(t) == UNION {PendingOf(u) : u \in Threads \ {t}}

-----------------------------------------------------------------------------
(* Requests                                                                *)

\* A scan on a zygote restart takes no lock (handle_request_async).
BeginRequest(t, r) ==
    /\ denyPc[t] = "idle" /\ requests < MaxRequests
    /\ r.kind \in {"add", "rm"} \/ (r.pkg = Isolated /\ r.proc = AllProcs)
    /\ r.kind = "add" => r.proc # AllProcs
    /\ r.kind = "scan" => loaded
    /\ requests' = requests + 1
    /\ req' = [req EXCEPT ![t] = r]
    /\ IF r.kind = "enable" /\ denylist_enforced
       THEN UNCHANGED denyPc
       ELSE denyPc' = [denyPc EXCEPT ![t] = IF r.kind = "disable" THEN "disable" ELSE "wait"]
    /\ UNCHANGED <<memoryVars, data_lock, switchVars, denyRows, config, appid, installs, historyVars>>

\* Threads inside the data structures
Inside == {t \in Threads : denyPc[t] = "inside"}

LockFree(t) == IF req[t].kind = "scan" THEN TRUE ELSE data_lock = Nobody

Enter(t) ==
    /\ denyPc[t] = "wait" /\ LockFree(t)
    /\ ScanAlone /\ (req[t].kind = "scan" \/ \E u \in Inside : req[u].kind = "scan") => Inside = {}
    /\ data_lock' = IF req[t].kind = "scan" THEN data_lock ELSE t
    /\ denyPc' = [denyPc EXCEPT ![t] = "inside"]
    /\ UNCHANGED <<memoryVars, switchVars, denyRows, config, appid, req, boundVars, historyVars>>

\* The lock is released at the end of its scope.
Unlock(t) == data_lock' = IF data_lock = t THEN Nobody ELSE data_lock
GotoStep(t, step) == denyPc' = [denyPc EXCEPT ![t] = step]

\* ensure_data: the table is loaded once, and scanned; a failing DELETE in the
\* scan is ignored.
EnsureData(t) ==
    /\ denyPc[t] = "inside" /\ ~loaded
    /\ loaded' = TRUE
    /\ pkg_to_procs' = denyRows \ Dropped(denyRows)
    /\ app_id_to_pkgs' = ScannedIndex(denyRows)
    /\ \/ denyRows' = denyRows \ Dropped(denyRows) /\ UNCHANGED unsure
       \/ DbMayFail /\ unsure' = unsure \cup Dropped(denyRows) /\ UNCHANGED denyRows
    /\ UNCHANGED <<data_lock, switchVars, config, appid, denyPc, req, boundVars, configUnsure>>

\* Nothing is found to do, or the table cannot be loaded.
LeaveUndone(t) ==
    LET r == req[t] IN
    /\ denyPc[t] = "inside" /\ Unlock(t) /\ GotoStep(t, "idle")
    /\ \/ DbMayFail /\ ~loaded
       \/ r.kind = "query" /\ loaded
       \/ r.kind = "add" /\ loaded /\ ( ~(Indexed(r.pkg) \/ r.pkg = Isolated)
                                       \/ <<r.pkg, r.proc>> \in pkg_to_procs )
       \/ r.kind = "rm" /\ loaded /\ pkg_to_procs \cap About(r) = {}
       \/ r.kind = "enable"        \* no mount namespaces, or no thread
    /\ configUnsure' = (configUnsure \/ r.kind = "enable")
    /\ UNCHANGED <<memoryVars, switchVars, denyRows, config, appid, req, boundVars, unsure>>

\* add_list: memory and index under the lock, then INSERT.
AddToList(t) ==
    LET r == req[t]
        e == <<r.pkg, r.proc>> IN
    /\ denyPc[t] = "inside" /\ r.kind = "add" /\ loaded
    /\ Indexed(r.pkg) \/ r.pkg = Isolated
    /\ e \notin pkg_to_procs
    /\ pkg_to_procs' = pkg_to_procs \cup {e}
    /\ app_id_to_pkgs' = app_id_to_pkgs \cup (IF Indexed(r.pkg) THEN IdOf(r.pkg) ELSE {})
    /\ unsure' = unsure \cup ({e} \cap PendingOthers(t))
    /\ Unlock(t) /\ GotoStep(t, "insert")
    /\ UNCHANGED <<loaded, switchVars, denyRows, config, appid, req, boundVars, configUnsure>>

\* rm_list: the index loses the package under the app id it has now, if any.
RmFromIndex(t, left) ==
    LET p == req[t].pkg IN
    IF p \notin Keys(left) /\ Indexed(p) THEN app_id_to_pkgs \ IdOf(p) ELSE app_id_to_pkgs

RmFromList(t) ==
    LET r == req[t]
        left == pkg_to_procs \ About(r) IN
    /\ denyPc[t] = "inside" /\ r.kind = "rm" /\ loaded
    /\ left # pkg_to_procs
    /\ pkg_to_procs' = left
    /\ app_id_to_pkgs' = RmFromIndex(t, left)
    /\ unsure' = unsure \cup (About(r) \cap PendingOthers(t))
    /\ Unlock(t) /\ GotoStep(t, "delete")
    /\ UNCHANGED <<loaded, switchVars, denyRows, config, appid, req, boundVars, configUnsure>>

\* Mutant: dropped packages stay in the table.
ScanForgetsTable(t) ==
    /\ denyPc[t] = "inside" /\ req[t].kind \in {"ls", "scan"} /\ loaded
    /\ pkg_to_procs' = pkg_to_procs \ Dropped(pkg_to_procs)
    /\ app_id_to_pkgs' = ScannedIndex(pkg_to_procs)
    /\ Unlock(t) /\ GotoStep(t, "idle")
    /\ UNCHANGED <<loaded, switchVars, denyRows, config, appid, req, boundVars, historyVars>>

\* scan_deny_apps, from ls_list under the lock or from a zygote restart; each
\* dropped package is deleted from the table on the way.
Scan(t) ==
    LET gone == Keys(Dropped(pkg_to_procs)) IN
    /\ denyPc[t] = "inside" /\ req[t].kind \in {"ls", "scan"} /\ loaded
    /\ pkg_to_procs' = pkg_to_procs \ Dropped(pkg_to_procs)
    /\ app_id_to_pkgs' = ScannedIndex(pkg_to_procs)
    /\ \/ /\ denyRows' = {e \in denyRows : e[1] \notin gone}
          /\ unsure' = unsure \cup {e \in PendingOthers(t) : e[1] \in gone}
       \/ /\ DbMayFail
          /\ UNCHANGED denyRows
          /\ unsure' = unsure \cup {e \in ListEntries : e[1] \in gone}
    /\ Unlock(t) /\ GotoStep(t, "idle")
    /\ UNCHANGED <<loaded, switchVars, config, appid, req, boundVars, configUnsure>>

\* The INSERT or DELETE after the lock is released.
SqlInsert(t) == denyRows \cup About(req[t])
SqlDelete(t) == denyRows \ About(req[t])
ExecSql(t) ==
    /\ denyPc[t] \in {"insert", "delete"}
    /\ \/ /\ denyRows' = IF denyPc[t] = "insert" THEN SqlInsert(t) ELSE SqlDelete(t)
          /\ UNCHANGED unsure
       \/ /\ DbMayFail
          /\ UNCHANGED denyRows
          /\ unsure' = unsure \cup About(req[t])
    /\ GotoStep(t, "idle")
    /\ UNCHANGED <<memoryVars, data_lock, switchVars, config, appid, req, boundVars, configUnsure>>

-----------------------------------------------------------------------------
(* The enforcement switch                                                  *)

SwitchingNow(u) ==
    denyPc[u] \in {"setOn", "setOff"} \/ (denyPc[u] \in {"wait", "inside"} /\ req[u].kind = "enable")
Switching(t) == \E u \in Threads \ {t} : SwitchingNow(u)

\* Mutant: no new monitor while the old one has not returned.
StartLogcatIfNone == IF logcats + leaving = 0 THEN 1 ELSE logcats

StartLogcat == logcats + 1

EnableDeny(t) ==
    /\ denyPc[t] = "inside" /\ req[t].kind = "enable" /\ loaded
    /\ denylist_enforced' = TRUE
    /\ logcats' = IF ZygiskEnabled THEN logcats ELSE StartLogcat
    /\ configUnsure' = (configUnsure \/ Switching(t))
    /\ Unlock(t) /\ GotoStep(t, "setOn")
    /\ UNCHANGED <<memoryVars, leaving, denyRows, config, appid, req, boundVars, unsure>>

DisableDeny(t) ==
    /\ denyPc[t] = "disable"
    /\ denylist_enforced' = FALSE
    /\ configUnsure' = (configUnsure \/ Switching(t))
    /\ GotoStep(t, "setOff")
    /\ UNCHANGED <<memoryVars, data_lock, logcats, leaving, denyRows, config, appid, req, boundVars,
                   unsure>>

ConfigValue(t) == denyPc[t] = "setOn"

SetDenyConfig(t) ==
    /\ denyPc[t] \in {"setOn", "setOff"}
    /\ \/ config' = ConfigValue(t) /\ UNCHANGED configUnsure
       \/ DbMayFail /\ configUnsure' = TRUE /\ UNCHANGED config
    /\ GotoStep(t, "idle")
    /\ UNCHANGED <<memoryVars, data_lock, switchVars, denyRows, appid, req, boundVars, unsure>>

\* A monitor thread sees the switch off between two log messages and ends.
LogcatSeesOff ==
    /\ ~denylist_enforced /\ logcats > 0
    /\ logcats' = logcats - 1 /\ leaving' = leaving + 1
    /\ UNCHANGED <<memoryVars, data_lock, denylist_enforced, denyRows, config, appid, denyPc, req,
                   boundVars, historyVars>>

LogcatEnds ==
    /\ leaving > 0
    /\ leaving' = leaving - 1
    /\ UNCHANGED <<memoryVars, data_lock, denylist_enforced, logcats, denyRows, config, appid, denyPc,
                   req, boundVars, historyVars>>

-----------------------------------------------------------------------------
\* The package manager installs an app under a free id or removes one.
ChangeApp(p) ==
    /\ p # Isolated /\ installs < MaxInstalls
    /\ \E i \in Ids \cup {0} :
         /\ (i = 0) # (appid[p] = 0)
         /\ i # 0 => \A q \in Packages : appid[q] # i
         /\ appid' = [appid EXCEPT ![p] = i]
    /\ installs' = installs + 1
    /\ UNCHANGED <<memoryVars, data_lock, switchVars, denyRows, config, denyPc, req, requests, historyVars>>

ThreadStep(t) ==
    \/ Enter(t) \/ EnsureData(t) \/ LeaveUndone(t) \/ AddToList(t) \/ RmFromList(t) \/ Scan(t) \/ ExecSql(t)
    \/ EnableDeny(t) \/ DisableDeny(t) \/ SetDenyConfig(t)

NextDeny ==
    \/ \E t \in Threads : (\E r \in Requests : BeginRequest(t, r)) \/ ThreadStep(t)
    \/ LogcatSeesOff \/ LogcatEnds
    \/ \E p \in Packages : ChangeApp(p)

SpecDeny == InitDeny /\ [][NextDeny]_denyVars

-----------------------------------------------------------------------------
(* Properties                                                              *)

Quiet == \A t \in Threads : denyPc[t] \notin {"insert", "delete"}

\* With no statement pending the list in memory and the denylist table agree,
\* though the table is changed after the lock is released: only an entry that
\* two requests changed at once, or whose statement failed, may differ.
ListMatchesTable ==
    loaded /\ Quiet => \A e \in ListEntries \ unsure : e \in pkg_to_procs <=> e \in denyRows

\* Once no switch request is under way the stored setting is the one in force,
\* unless switch requests overlapped or failed (enable_deny, disable_deny).
SwitchMatchesConfig ==
    ~configUnsure /\ (\A t \in Threads : ~SwitchingNow(t))
        => denylist_enforced = config

\* Without Zygisk, some monitor thread watches the log whenever the list is
\* enforced, however quickly it is switched off and on again (enable_deny, run).
MonitoredWhileEnforced == denylist_enforced /\ ~ZygiskEnabled => logcats > 0

\* The switch is what the setting says, and while it is on somebody watches.
SwitchInForce == SwitchMatchesConfig /\ MonitoredWhileEnforced

\* As long as apps keep their ids, the index is exact: a listed package of an
\* installed app is found through its app id, so is_deny_target answers for it,
\* and a name in the index is a listed package (update_app_id and its callers).
IndexExact ==
    loaded /\ installs = 0 =>
        app_id_to_pkgs = UNION {IdOf(p) : p \in {q \in Keys(pkg_to_procs) : Indexed(q)}}

\* The list, its index and its table say the same.
ListExact == ListMatchesTable /\ IndexExact

\* What the comment on data_lock says: it locks the data structures, so two
\* threads are never inside them at once.
DataLocked == Cardinality(Inside) <= 1
=============================================================================
