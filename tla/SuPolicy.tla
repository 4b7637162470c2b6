------------------------------ MODULE SuPolicy ------------------------------
(***************************************************************************)
(* Who gets root: the settings and policies in the database, and the two   *)
(* decisions taken from them.  build_su_info (core/su/daemon.rs) answers   *)
(* a su request, uid_granted_root (core/su/db.rs) tells zygisk modules     *)
(* whether a process is allowed root.  They are written separately and     *)
(* have to agree.                                                          *)
(***************************************************************************)
EXTENDS AppUids

CONSTANTS
    Uids,        \* uids that ask for root, AID_ROOT aside
    SuUsers,       \* Android users
    ManagerApp,  \* app id of the manager, where it is installed
    Rows,        \* rows the manager app may write into table policies
    Configs      \* values of the settings the decisions read

RootAccess == {"Disabled", "AppsOnly", "AdbOnly", "AppsAndAdb"}
MultiuserMode == {"OwnerOnly", "OwnerManaged", "User"}

ASSUME PolicyAssumption ==
    /\ Uids \subseteq Nat \ {0}
    /\ SuUsers \subseteq Nat /\ 0 \in SuUsers
    /\ ManagerApp \in 10000..19999
    /\ Rows \subseteq [policy : {"Deny", "Allow", "Restrict"}, talk : BOOLEAN, live : BOOLEAN]
    /\ Configs \subseteq [root_access : RootAccess, multiuser_mode : MultiuserMode]

VARIABLES
    cfg,       \* table settings: root_access and multiuser_mode
    policies,  \* table policies by uid
    mgrUsers,  \* users for whom get_manager finds a manager
    dbOk       \* FALSE: the database cannot be opened or read

policyVars == <<cfg, policies, mgrUsers, dbOk>>

NoRow == [policy |-> "none", talk |-> FALSE, live |-> FALSE]

-----------------------------------------------------------------------------
(* Reading the database *)

\* get_root_settings: an outdated or missing row leaves RootSettings::default.
\* talk stands for log || notify.
get_root_settings(uid) ==
    IF uid \in Uids /\ policies[uid].live
    THEN [policy |-> policies[uid].policy, talk |-> policies[uid].talk]
    ELSE [policy |-> "Query", talk |-> FALSE]

\* get_manager(user, true).0
get_manager(user) ==
    IF user \in mgrUsers THEN user * AID_USER_OFFSET + ManagerApp ELSE -1

\* The match on root_access, the same in both decisions.
AccessAllows(access, uid) ==
    CASE access = "Disabled" -> FALSE
      [] access = "AdbOnly"  -> uid = AID_SHELL
      [] access = "AppsOnly" -> uid # AID_SHELL
      [] OTHER               -> TRUE

\* The match on multiuser_mode; -1 for a uid that is refused.
EvalUid(mode, uid) ==
    CASE mode = "OwnerOnly"    -> IF to_user_id(uid) # 0 THEN -1 ELSE uid
      [] mode = "OwnerManaged" -> to_app_id(uid)
      [] OTHER                 -> uid

-----------------------------------------------------------------------------
(* build_su_info *)

SuInfo(uid, eval_uid, policy, mgr_uid) ==
    [uid |-> uid, eval_uid |-> eval_uid, policy |-> policy, mgr_uid |-> mgr_uid]
deny(uid) == SuInfo(uid, -1, "Deny", -1)
allow(uid) == SuInfo(uid, -1, "Allow", -1)

\* get_manager is asked only when the manager has to be talked to.
MgrUidFor(eval_uid) ==
    IF get_root_settings(eval_uid).policy = "Query" \/ get_root_settings(eval_uid).talk
    THEN get_manager(to_user_id(eval_uid)) ELSE -1

\* From the settings c, read first, and the row, read after them.
SuInfoFrom(c, uid) ==
    LET eval_uid == EvalUid(c.multiuser_mode, uid)
        policy == get_root_settings(eval_uid).policy
        mgr_uid == MgrUidFor(eval_uid)
    IN  IF ~dbOk \/ eval_uid < 0 THEN deny(uid)
        ELSE IF to_app_id(uid) = to_app_id(mgr_uid) THEN allow(uid)
        ELSE IF ~AccessAllows(c.root_access, uid) THEN deny(uid)
        ELSE IF policy = "Query" /\ mgr_uid < 0 THEN deny(uid)
        ELSE SuInfo(uid, eval_uid, policy, mgr_uid)

build_su_info(uid) == SuInfoFrom(cfg, uid)

\* Mutant: the row of the asking uid is read, not that of the owner's app.
GrantedByOwnRow(uid) ==
    /\ dbOk
    /\ AccessAllows(cfg.root_access, uid)
    /\ EvalUid(cfg.multiuser_mode, uid) >= 0
    /\ get_root_settings(uid).policy = "Allow"

\* uid_granted_root
uid_granted_root(uid) ==
    \/ uid = AID_ROOT
    \/ /\ dbOk
       /\ AccessAllows(cfg.root_access, uid)
       /\ EvalUid(cfg.multiuser_mode, uid) >= 0
       /\ get_root_settings(EvalUid(cfg.multiuser_mode, uid)).policy = "Allow"

-----------------------------------------------------------------------------
(* What changes the tables: the manager app, through the daemon *)

InitPolicy ==
    /\ cfg \in Configs
    /\ policies = [u \in Uids |-> NoRow]
    /\ mgrUsers = {0}
    /\ dbOk = TRUE

\* REPLACE INTO policies
UpdatePolicy(u) ==
    /\ \E row \in Rows : policies' = [policies EXCEPT ![u] = row]
    /\ UNCHANGED <<cfg, mgrUsers, dbOk>>

\* DELETE FROM policies WHERE uid=?
DeletePolicy(u) ==
    /\ policies' = [policies EXCEPT ![u] = NoRow]
    /\ UNCHANGED <<cfg, mgrUsers, dbOk>>

\* The clock passes the until of a row: the queries skip it from now on.
ExpirePolicy(u) ==
    /\ policies[u].live
    /\ policies' = [policies EXCEPT ![u].live = FALSE]
    /\ UNCHANGED <<cfg, mgrUsers, dbOk>>

SetConfig ==
    /\ cfg' \in Configs
    /\ UNCHANGED <<policies, mgrUsers, dbOk>>

ManagerComesOrGoes(user) ==
    /\ mgrUsers' \in {mgrUsers \cup {user}, mgrUsers \ {user}}
    /\ UNCHANGED <<cfg, policies, dbOk>>

DatabaseFails ==
    /\ dbOk' = ~dbOk
    /\ UNCHANGED <<cfg, policies, mgrUsers>>

NextPolicy ==
    \/ \E u \in Uids : UpdatePolicy(u) \/ DeletePolicy(u) \/ ExpirePolicy(u)
    \/ SetConfig
    \/ \E user \in SuUsers : ManagerComesOrGoes(user)
    \/ DatabaseFails

SpecPolicy == InitPolicy /\ [][NextPolicy]_policyVars

-----------------------------------------------------------------------------
(* Properties *)

IsManager(uid) == \E user \in mgrUsers : to_app_id(uid) = to_app_id(get_manager(user))

\* What zygisk modules are told of a process is what su would do: a uid that
\* "is granted root" is let in without a prompt, and a uid let in without one
\* is granted root or is the manager.
DecisionsAgree ==
    \A u \in Uids :
        /\ uid_granted_root(u) => build_su_info(u).policy = "Allow"
        /\ build_su_info(u).policy = "Allow" => uid_granted_root(u) \/ IsManager(u)

\* Root access disabled, or limited to ADB, shuts every app but the manager
\* out, whatever the tables say.
DisabledShutsOut ==
    \A u \in Uids :
        /\ cfg.root_access = "Disabled" /\ build_su_info(u).policy # "Deny" => IsManager(u)
        /\ cfg.root_access = "AdbOnly" /\ build_su_info(u).policy # "Deny"
              => u = AID_SHELL \/ IsManager(u)

\* Owner only: no secondary user, its manager included.  Owner managed: an
\* app has one policy for all users.
MultiuserRespected ==
    /\ cfg.multiuser_mode = "OwnerOnly" =>
          \A u \in Uids : to_user_id(u) # 0 => build_su_info(u).policy = "Deny"
    /\ cfg.multiuser_mode = "OwnerManaged" =>
          \A u, v \in Uids : to_app_id(u) = to_app_id(v) /\ u # AID_SHELL /\ v # AID_SHELL
              => build_su_info(u).policy = build_su_info(v).policy

\* A prompt is only asked for when somebody can show it, and it is the
\* manager of the user whose policy is evaluated.
PromptHasManager ==
    \A u \in Uids : build_su_info(u).policy = "Query" =>
        build_su_info(u).mgr_uid = get_manager(to_user_id(EvalUid(cfg.multiuser_mode, u)))
        /\ build_su_info(u).mgr_uid > 0

\* su and what zygisk modules are told come to one decision, and it obeys the settings
\* whatever the tables say: who may have root at all, which users may, and that somebody is
\* there to be asked (build_su_info, uid_granted_root).
DecisionsSound == DecisionsAgree /\ DisabledShutsOut /\ MultiuserRespected /\ PromptHasManager

=============================================================================
