------------------------------ MODULE SuProofs ------------------------------
(***************************************************************************)
(* Proofs about su: the two decisions taken from the database (SuPolicy),  *)
(* the requests that share a cached one (SuDaemon), the pruning of the     *)
(* policies (PruneAccess) and the look-up of the manager (ManagerLookup),  *)
(* for every set of uids, users, rows, packages and requests.              *)
(***************************************************************************)
EXTENDS SuDaemon, PruneAccess, ManagerLookup, TLAPS

-----------------------------------------------------------------------------
(* The decisions *)

Granting == {"Allow", "Restrict"}

PolicyRow == {row \in [policy : {"none", "Deny"} \cup Granting, talk : BOOLEAN, live : BOOLEAN] :
                row.live => row.policy # "none"}

PolicyType ==
    /\ cfg \in Configs
    /\ policies \in [Uids -> PolicyRow]
    /\ mgrUsers \subseteq SuUsers

\* A uid comes apart into two numbers, and the manager's is put together from its own.
LEMMA UidParts ==
    /\ \A u \in Nat : to_app_id(u) \in Nat /\ to_user_id(u) \in Nat
    /\ to_app_id(-1) = -1
    /\ \A user \in Nat : user * AID_USER_OFFSET + ManagerApp \in Nat \ {0}
    /\ \A user \in Nat : to_app_id(user * AID_USER_OFFSET + ManagerApp) = ManagerApp
  <1>1. \A u \in Nat : u % 100000 \in Nat /\ u \div 100000 \in Nat
    OBVIOUS
  <1>2. ManagerApp \in Nat /\ ManagerApp > 0 /\ ManagerApp < 100000
    BY PolicyAssumption
  <1>3. \A user \in Nat : (user * 100000 + ManagerApp) % 100000 = ManagerApp
    BY <1>2
  <1> QED BY <1>1, <1>2, <1>3 DEF to_app_id, to_user_id, AID_USER_OFFSET

\* The manager asked, if any, and what its uid says of an app.
LEMMA ManagerAsked ==
    ASSUME PolicyType, NEW e
    PROVE  /\ MgrUidFor(e) = -1 \/ (MgrUidFor(e) > 0 /\ to_app_id(MgrUidFor(e)) = ManagerApp)
           /\ MgrUidFor(e) \in Int
           /\ MgrUidFor(e) # -1 => to_user_id(e) \in mgrUsers
           /\ get_root_settings(e).policy = "Query" => MgrUidFor(e) = get_manager(to_user_id(e))
  <1> DEFINE user == to_user_id(e)
  <1>1. mgrUsers \subseteq Nat
    BY PolicyAssumption DEF PolicyType
  <1>2. /\ user \in mgrUsers => /\ get_manager(user) \in Nat \ {0}
                                /\ to_app_id(get_manager(user)) = ManagerApp
        /\ user \notin mgrUsers => get_manager(user) = -1
    BY <1>1, UidParts DEF get_manager
  <1>3. MgrUidFor(e) \in {get_manager(user), -1}
    BY DEF MgrUidFor
  <1>4. get_root_settings(e).policy = "Query" => MgrUidFor(e) = get_manager(user)
    BY DEF MgrUidFor
  <1> HIDE DEF user
  <1>5. MgrUidFor(e) # -1 => user \in mgrUsers
    BY <1>2, <1>3
  <1>6. MgrUidFor(e) = -1 \/ (MgrUidFor(e) > 0 /\ to_app_id(MgrUidFor(e)) = ManagerApp)
    BY <1>2, <1>3
  <1> QED BY <1>2, <1>3, <1>4, <1>5, <1>6 DEF user

\* What build_su_info comes to, by cases.
LEMMA InfoCases ==
    ASSUME PolicyType, NEW c \in Configs, NEW u \in Uids,
           NEW e, e = EvalUid(c.multiuser_mode, u), NEW i, i = SuInfoFrom(c, u)
    PROVE  /\ e \in Nat \cup {-1}
           /\ \/ /\ i = deny(u)
                 /\ ~dbOk \/ e < 0 \/ ~AccessAllows(c.root_access, u) \/ get_root_settings(e).policy = "Query"
              \/ i = allow(u) /\ dbOk /\ e >= 0 /\ to_app_id(u) = ManagerApp /\ to_user_id(e) \in mgrUsers
              \/ /\ i = SuInfo(u, e, get_root_settings(e).policy, MgrUidFor(e))
                 /\ dbOk /\ e >= 0 /\ AccessAllows(c.root_access, u)
                 /\ i.policy = "Query" => MgrUidFor(e) = get_manager(to_user_id(e)) /\ MgrUidFor(e) > 0
  <1>1. u \in Nat /\ to_app_id(u) \in Nat
    BY UidParts, PolicyAssumption
  <1>2. e \in Nat \cup {-1}
    BY <1>1 DEF EvalUid
  <1>3. /\ MgrUidFor(e) = -1 \/ (MgrUidFor(e) > 0 /\ to_app_id(MgrUidFor(e)) = ManagerApp)
        /\ MgrUidFor(e) \in Int
        /\ MgrUidFor(e) # -1 => to_user_id(e) \in mgrUsers
        /\ get_root_settings(e).policy = "Query" => MgrUidFor(e) = get_manager(to_user_id(e))
    BY ManagerAsked
  <1>4. to_app_id(u) = to_app_id(MgrUidFor(e)) => to_app_id(u) = ManagerApp /\ to_user_id(e) \in mgrUsers
    BY <1>1, <1>3, UidParts
  <1>5. i = IF ~dbOk \/ e < 0 THEN deny(u)
            ELSE IF to_app_id(u) = to_app_id(MgrUidFor(e)) THEN allow(u)
            ELSE IF ~AccessAllows(c.root_access, u) THEN deny(u)
            ELSE IF get_root_settings(e).policy = "Query" /\ MgrUidFor(e) < 0 THEN deny(u)
            ELSE SuInfo(u, e, get_root_settings(e).policy, MgrUidFor(e))
    BY DEF SuInfoFrom
  <1>6. SuInfo(u, e, get_root_settings(e).policy, MgrUidFor(e)).policy = get_root_settings(e).policy
    BY DEF SuInfo
  <1> QED BY <1>2, <1>3, <1>4, <1>5, <1>6

LEMMA DecisionsFromTables == PolicyType => DecisionsSound
  <1> SUFFICES ASSUME PolicyType PROVE DecisionsSound
    OBVIOUS
  <1> DEFINE e(u) == EvalUid(cfg.multiuser_mode, u)
             i(u) == build_su_info(u)
  <1>1. cfg \in Configs /\ cfg.root_access \in RootAccess /\ cfg.multiuser_mode \in MultiuserMode
    BY PolicyAssumption DEF PolicyType
  <1>2. ASSUME NEW u \in Uids
        PROVE  /\ e(u) \in Nat \cup {-1}
               /\ \/ /\ i(u) = deny(u)
                     /\ \/ ~dbOk \/ e(u) < 0 \/ ~AccessAllows(cfg.root_access, u)
                        \/ get_root_settings(e(u)).policy = "Query"
                  \/ /\ i(u) = allow(u) /\ dbOk /\ e(u) >= 0
                     /\ to_app_id(u) = ManagerApp /\ to_user_id(e(u)) \in mgrUsers
                  \/ /\ i(u) = SuInfo(u, e(u), get_root_settings(e(u)).policy, MgrUidFor(e(u)))
                     /\ dbOk /\ e(u) >= 0 /\ AccessAllows(cfg.root_access, u)
                     /\ i(u).policy = "Query" =>
                          MgrUidFor(e(u)) = get_manager(to_user_id(e(u))) /\ MgrUidFor(e(u)) > 0
    BY <1>1, <1>2, InfoCases DEF build_su_info
  <1>3. \A u \in Uids : allow(u).policy = "Allow" /\ deny(u).policy = "Deny"
    BY DEF allow, deny, SuInfo
  <1>4. ASSUME NEW u \in Uids, to_app_id(u) = ManagerApp, to_user_id(e(u)) \in mgrUsers
        PROVE  IsManager(u)
    <2>1. mgrUsers \subseteq Nat
      BY PolicyAssumption DEF PolicyType
    <2>2. to_app_id(get_manager(to_user_id(e(u)))) = ManagerApp
      BY <1>4, <2>1, UidParts DEF get_manager
    <2> QED BY <1>4, <2>2 DEF IsManager
  <1> HIDE DEF e, i
  <1>5. DecisionsAgree
    <2>1. \A u \in Uids : uid_granted_root(u) <=> /\ dbOk /\ AccessAllows(cfg.root_access, u) /\ e(u) >= 0
                                                 /\ get_root_settings(e(u)).policy = "Allow"
      BY PolicyAssumption DEF uid_granted_root, AID_ROOT, e
    <2>2. ASSUME NEW u \in Uids, uid_granted_root(u) PROVE i(u).policy = "Allow"
      BY <1>2, <1>3, <2>1, <2>2 DEF SuInfo
    <2>3. ASSUME NEW u \in Uids, i(u).policy = "Allow" PROVE uid_granted_root(u) \/ IsManager(u)
      BY <1>2, <1>3, <1>4, <2>1, <2>3 DEF SuInfo
    <2> QED BY <2>2, <2>3 DEF DecisionsAgree, i
  <1>6. DisabledShutsOut
    <2>1. \A u \in Uids : AccessAllows(cfg.root_access, u) =>
                            /\ cfg.root_access # "Disabled"
                            /\ cfg.root_access = "AdbOnly" => u = AID_SHELL
      BY DEF AccessAllows
    <2>2. ASSUME NEW u \in Uids, i(u).policy # "Deny"
          PROVE  AccessAllows(cfg.root_access, u) \/ IsManager(u)
      BY <1>2, <1>3, <1>4, <2>2
    <2> QED BY <2>1, <2>2 DEF DisabledShutsOut, i
  <1>7. MultiuserRespected
    <2>1. ASSUME cfg.multiuser_mode = "OwnerOnly", NEW u \in Uids, to_user_id(u) # 0
          PROVE  i(u).policy = "Deny"
      <3>1. e(u) = -1
        BY <2>1 DEF e, EvalUid
      <3> QED BY <1>2, <1>3, <3>1
    <2>2. ASSUME cfg.multiuser_mode = "OwnerManaged", NEW u \in Uids, NEW v \in Uids,
                 to_app_id(u) = to_app_id(v), u # AID_SHELL, v # AID_SHELL
          PROVE  i(u).policy = i(v).policy
      <3>1. e(u) = to_app_id(u) /\ e(v) = e(u)
        BY <2>2 DEF e, EvalUid
      <3>2. AccessAllows(cfg.root_access, u) <=> AccessAllows(cfg.root_access, v)
        BY <1>1, <2>2 DEF AccessAllows, RootAccess
      <3> QED BY <2>2, <3>1, <3>2 DEF i, e, build_su_info, SuInfoFrom, deny, allow, SuInfo
    <2> QED BY <2>1, <2>2 DEF MultiuserRespected, i
  <1>8. PromptHasManager
    BY <1>2, <1>3 DEF PromptHasManager, SuInfo, i, e
  <1> QED BY <1>5, <1>6, <1>7, <1>8 DEF DecisionsSound

\* What the manager app writes is a row, and so is what is left of one.
LEMMA RowsTyped ==
    /\ Rows \subseteq PolicyRow /\ NoRow \in PolicyRow
    /\ \A row \in PolicyRow : [row EXCEPT !.live = FALSE] \in PolicyRow
  <1>1. Rows \subseteq PolicyRow
    BY PolicyAssumption DEF PolicyRow, Granting
  <1>2. NoRow \in PolicyRow
    BY DEF NoRow, PolicyRow, Granting
  <1>3. \A row \in PolicyRow : [row EXCEPT !.live = FALSE] \in PolicyRow
    BY DEF PolicyRow, Granting
  <1> QED BY <1>1, <1>2, <1>3

LEMMA NextPolicyType ==
    ASSUME PolicyType, [NextPolicy]_policyVars
    PROVE  PolicyType'
  <1> USE DEF PolicyType
  <1>1. ASSUME NEW u \in Uids, UpdatePolicy(u) \/ DeletePolicy(u) PROVE PolicyType'
    BY <1>1, RowsTyped DEF UpdatePolicy, DeletePolicy
  <1>2. ASSUME NEW u \in Uids, ExpirePolicy(u) PROVE PolicyType'
    BY <1>2, RowsTyped DEF ExpirePolicy
  <1>3. ASSUME NEW user \in SuUsers, ManagerComesOrGoes(user) PROVE PolicyType'
    BY <1>3 DEF ManagerComesOrGoes
  <1>4. CASE SetConfig \/ DatabaseFails \/ UNCHANGED policyVars
    BY <1>4 DEF SetConfig, DatabaseFails, policyVars
  <1> QED BY <1>1, <1>2, <1>3, <1>4 DEF NextPolicy

\* su and what zygisk modules are told come to one decision, and it obeys the settings
\* whatever the tables say (build_su_info, uid_granted_root): for every set of uids, users
\* and rows, and whatever edits, expiries and failures of the database came before.
THEOREM DecisionsSafe == SpecPolicy => []DecisionsSound
  <1>1. InitPolicy => PolicyType
    BY RowsTyped, PolicyAssumption DEF InitPolicy, PolicyType
  <1>2. PolicyType /\ [NextPolicy]_policyVars => PolicyType'
    BY NextPolicyType
  <1>3. PolicyType => DecisionsSound
    BY DecisionsFromTables
  <1> QED BY <1>1, <1>2, <1>3, PTL DEF SpecPolicy

-----------------------------------------------------------------------------
(* The requests *)

Locked == {"mkfifo", "poll", "read", "decide"}
WithEntry == {"check", "store", "access", "granted"} \cup Locked
Unbuilt == {"idle", "load", "check", "settings", "row"}
RequestPcs == Unbuilt \cup WithEntry \cup {"denied"}
Verdicts == {"Deny"} \cup Granting

InfoEntry == [uid : Int, eval_uid : Int, policy : {"Query"} \cup Verdicts,
              fresh : BOOLEAN, owner : Requests \cup {None}]
RequestState == [pc : RequestPcs, uid : Int, ref : Requests \cup {None}, cfg : Configs \cup {"none"},
                 drop_cap : BOOLEAN, calm : BOOLEAN]

FifoState == [path : BOOLEAN, data : {"none"} \cup Verdicts]
PromptState == [at : {"none", "intent", "dialog", "held", "open", "write", "save", "gone"},
                answer : {"none"} \cup Verdicts]

RequestType ==
    /\ PolicyType
    /\ infos \in [Requests -> InfoEntry]
    /\ cached \in Requests \cup {None}
    /\ req \in [Requests -> RequestState]
    /\ fifo \in [Requests -> FifoState]
    /\ app \in [Requests -> PromptState]

\* An entry is built before anybody else can see it, and is about the uid of whoever uses
\* it; a request with the settings in hand has read them.
EntriesBuilt ==
    /\ \A r \in Requests :
         /\ req[r].pc \in WithEntry => req[r].ref \in Requests /\ Mine(r).uid = req[r].uid
         /\ req[r].pc = "row" => req[r].cfg \in Configs
         /\ req[r].pc \in {"load", "check", "settings", "row"} => req[r].uid \in Uids
         /\ req[r].pc = "idle" => req[r].uid = -1 /\ ~req[r].calm
    /\ \A i \in Requests : req[i].pc \in Unbuilt =>
         cached # i /\ \A r \in Requests : req[r].ref # i
    /\ \A i \in Requests : req[i].pc = "store" =>
         cached # i /\ req[i].ref = i /\ \A r \in Requests \ {i} : req[r].ref # i

\* The access lock: one request at a time holds an entry, and only the prompt of the one
\* that found it undecided decides it.
LockHeld ==
    \A r \in Requests :
        /\ req[r].pc \in Locked => Mine(r).owner = r
        /\ req[r].pc \in {"mkfifo", "poll", "read"} => Mine(r).policy = "Query"
        /\ req[r].pc = "decide" => Mine(r).policy # "Query"

\* The app asks once there is a prompt, and answers once it has decided.
PromptsAnswered ==
    \A r \in Requests :
        /\ app[r].at # "none" => req[r].pc \in {"poll", "read", "decide", "granted", "denied"}
                                 /\ req[r].ref \in Requests
        /\ app[r].at \in {"open", "write", "save"} => app[r].answer # "none"
        /\ fifo[r].data # "none" => app[r].at # "none"
        /\ fifo[r].data \in Granting => Mine(r).eval_uid \in authorised

\* Whatever grants was authorised: a row, or an entry.
Justified(i) ==
    infos[i].policy \in Granting =>
        \/ infos[i].uid = AID_ROOT
        \/ to_app_id(infos[i].uid) = ManagerApp
        \/ infos[i].eval_uid \in authorised

AllAuthorised ==
    /\ \A u \in Uids : policies[u].policy \in Granting => u \in authorised
    /\ \A r \in Requests : req[r].pc \in WithEntry => Justified(req[r].ref)
    /\ cached # None => Justified(cached)

\* After a quiet revocation nothing that grants is left to be used for the uid.
Quiet(uid) == \E r \in Requests : req[r].calm /\ req[r].uid = uid

Stays(i) == infos[i].fresh => infos[i].policy = "Deny"

RevokedStays ==
    \A uid \in Uids : Quiet(uid) =>
        /\ to_app_id(uid) # ManagerApp
        /\ get_root_settings(EvalUid(cfg.multiuser_mode, uid)).policy = "Deny"
        /\ cached # None /\ infos[cached].uid = uid => Stays(cached)
        /\ \A s \in Requests : req[s].uid = uid =>
             /\ req[s].pc = "check" => Stays(req[s].ref)
             /\ req[s].pc = "row" => req[s].cfg = cfg
             /\ req[s].pc \in {"store", "access"} \cup Locked => Mine(s).policy = "Deny"

CalmIsQuiet ==
    \A r \in Requests : req[r].calm => req[r].uid \in Uids

RequestInv ==
    /\ RequestType /\ EntriesBuilt /\ LockHeld /\ PromptsAnswered /\ AllAuthorised
    /\ RevokedStays /\ CalmIsQuiet
    /\ GrantsSound

\* A step of the manager app changes nothing the daemon goes by.
LEMMA AppSteps ==
    ASSUME RequestInv, UNCHANGED <<policyVars, infos, cached, req, authorised>>
    PROVE  /\ PolicyType' /\ EntriesBuilt' /\ LockHeld' /\ AllAuthorised' /\ RevokedStays' /\ CalmIsQuiet'
           /\ GrantsSound'
           /\ infos' \in [Requests -> InfoEntry] /\ cached' \in Requests \cup {None}
           /\ req' \in [Requests -> RequestState]
  <1>1. UNCHANGED <<cfg, policies, mgrUsers, dbOk>>
    BY DEF policyVars
  <1>2. \A u : get_root_settings(u)' = get_root_settings(u)
    BY <1>1 DEF get_root_settings
  <1>3. PolicyType' /\ EntriesBuilt' /\ LockHeld' /\ AllAuthorised' /\ CalmIsQuiet'
    BY <1>1 DEF RequestInv, RequestType, PolicyType, EntriesBuilt, LockHeld, AllAuthorised, CalmIsQuiet, Mine, Justified
  <1>4. RevokedStays'
    BY <1>1, <1>2 DEF RequestInv, RevokedStays, Quiet, Stays, Mine
  <1>5. GrantsSound'
    BY DEF RequestInv, GrantsSound, GrantJustified, GrantMatchesPolicy, NoGrantAfterQuietRevoke, RequestAt, Mine
  <1> QED BY <1>3, <1>4, <1>5 DEF RequestInv, RequestType

\* A request that moves on keeps all else, and so do the others.
LEMMA GotoFacts ==
    ASSUME req \in [Requests -> RequestState], NEW r \in Requests, NEW l \in RequestPcs, RequestGoto(r, l)
    PROVE  /\ req' \in [Requests -> RequestState]
           /\ req'[r].pc = l /\ req'[r].uid = req[r].uid /\ req'[r].ref = req[r].ref
           /\ req'[r].cfg = req[r].cfg /\ req'[r].calm = req[r].calm /\ req'[r].drop_cap = req[r].drop_cap
           /\ \A s \in Requests \ {r} : req'[s] = req[s]
  <1>1. req[r] \in RequestState /\ req' = [req EXCEPT ![r] = [req[r] EXCEPT !.pc = l]]
    BY DEF RequestGoto
  <1>2. [req[r] EXCEPT !.pc = l] \in RequestState
    BY <1>1 DEF RequestState
  <1> QED BY <1>1, <1>2 DEF RequestState

\* The fields of a request and of an entry.
LEMMA FieldTypes ==
    ASSUME RequestType, NEW r \in Requests
    PROVE  /\ req[r].pc \in RequestPcs /\ req[r].uid \in Int /\ req[r].ref \in Requests \cup {None}
           /\ req[r].calm \in BOOLEAN /\ req[r].drop_cap \in BOOLEAN
           /\ infos[r].uid \in Int /\ infos[r].eval_uid \in Int /\ infos[r].fresh \in BOOLEAN
           /\ infos[r].policy \in {"Query", "Deny", "Allow", "Restrict"}
           /\ infos[r].owner \in Requests \cup {None}
           /\ app[r].answer \in {"none", "Deny", "Allow", "Restrict"}
           /\ fifo[r].data \in {"none", "Deny", "Allow", "Restrict"}
  <1>1. req[r] \in RequestState /\ infos[r] \in InfoEntry /\ app[r] \in PromptState /\ fifo[r] \in FifoState
    BY DEF RequestType
  <1> QED BY <1>1 DEF RequestState, InfoEntry, PromptState, FifoState, Verdicts, Granting


\* One entry with another policy, lock holder or freshness: all else of it, and of the
\* others, is kept.
LEMMA EntryFacts ==
    ASSUME infos \in [Requests -> InfoEntry], NEW i \in Requests,
           NEW p \in {"Query", "Deny", "Allow", "Restrict"}, NEW f \in BOOLEAN, NEW o \in Requests \cup {None},
           infos' = [infos EXCEPT ![i] = [infos[i] EXCEPT !.policy = p, !.fresh = f, !.owner = o]]
    PROVE  /\ infos' \in [Requests -> InfoEntry]
           /\ infos'[i].policy = p /\ infos'[i].fresh = f /\ infos'[i].owner = o
           /\ infos'[i].uid = infos[i].uid /\ infos'[i].eval_uid = infos[i].eval_uid
           /\ \A j \in Requests \ {i} : infos'[j] = infos[j]
  <1>1. infos[i] \in InfoEntry
    OBVIOUS
  <1>2. [infos[i] EXCEPT !.policy = p, !.fresh = f, !.owner = o] \in InfoEntry
    BY <1>1 DEF InfoEntry, Verdicts, Granting
  <1> QED BY <1>1, <1>2 DEF InfoEntry

\* A request that has the lock comes to the policy p of its entry, "Deny" where the prompt
\* fails, and goes on to decide.
LEMMA PolicySet ==
    ASSUME RequestInv, NEW r \in Requests, NEW p \in {"Deny", "Allow", "Restrict"},
           req[r].pc \in {"mkfifo", "poll", "read"}, SetPolicy(r, p), RequestGoto(r, "decide"),
           p \in Granting => Mine(r).eval_uid \in authorised,
           fifo' \in [Requests -> FifoState], \A s \in Requests : fifo'[s].data = fifo[s].data,
           UNCHANGED <<policyVars, cached, app, authorised>>
    PROVE  RequestInv'
  <1> USE RequestAssumption DEF RequestInv
  <1>1. UNCHANGED <<cfg, policies, mgrUsers, dbOk>> /\ PolicyType'
    BY DEF policyVars, PolicyType, RequestType
  <1>2. /\ req' \in [Requests -> RequestState]
        /\ req'[r].pc = "decide" /\ req'[r].uid = req[r].uid /\ req'[r].ref = req[r].ref
        /\ req'[r].cfg = req[r].cfg /\ req'[r].calm = req[r].calm /\ req'[r].drop_cap = req[r].drop_cap
        /\ \A s \in Requests \ {r} : req'[s] = req[s]
    BY GotoFacts DEF RequestType, RequestPcs, WithEntry, Locked
  <1>3. req[r].ref \in Requests /\ Mine(r).uid = req[r].uid /\ Mine(r).policy = "Query" /\ Mine(r).owner = r
    BY DEF EntriesBuilt, WithEntry, Locked, LockHeld
  <1> DEFINE i == req[r].ref
  <1>4. /\ infos' \in [Requests -> InfoEntry]
        /\ infos'[i].policy = p /\ infos'[i].fresh = infos[i].fresh /\ infos'[i].owner = r
        /\ infos'[i].uid = infos[i].uid /\ infos'[i].eval_uid = infos[i].eval_uid
        /\ \A j \in Requests \ {i} : infos'[j] = infos[j]
    <2>1. infos[i] \in InfoEntry /\ infos' = [infos EXCEPT ![i] = [infos[i] EXCEPT !.policy = p]]
      BY <1>3 DEF SetPolicy, RequestType
    <2>2. [infos[i] EXCEPT !.policy = p] \in InfoEntry
      BY <2>1 DEF InfoEntry, Verdicts, Granting
    <2> QED BY <1>3, <2>1, <2>2 DEF InfoEntry, RequestType, Mine
  <1>5. \A u : get_root_settings(u)' = get_root_settings(u)
    BY <1>1 DEF get_root_settings
  <1>6. RequestType'
    BY <1>1, <1>2, <1>4 DEF RequestType
  <1>7. EntriesBuilt' /\ LockHeld'
    BY <1>2, <1>3, <1>4 DEF EntriesBuilt, WithEntry, Locked, Unbuilt, Mine, LockHeld, Granting
  <1>8. PromptsAnswered'
    <2>1. \A s \in Requests : req[s].ref \in Requests =>
              infos'[req'[s].ref].eval_uid = infos[req[s].ref].eval_uid
      BY <1>2, <1>4
    <2>2. \A s \in Requests : req'[s].ref = req[s].ref /\ (s = r \/ req'[s].pc = req[s].pc)
      BY <1>2
    <2>3. app' = app /\ authorised' = authorised
      OBVIOUS
    <2> QED BY <1>2, <2>1, <2>2, <2>3 DEF PromptsAnswered, Mine, Granting
  <1>9. AllAuthorised'
    <2>1. \A j \in Requests : Justified(j) => Justified(j)'
      BY <1>3, <1>4 DEF Justified, Mine
    <2> QED
      BY <1>1, <1>2, <1>3, <2>1 DEF AllAuthorised, EntriesBuilt, WithEntry, Locked, RequestType
  <1>10. RevokedStays' /\ CalmIsQuiet'
    <2>1. \A u : Quiet(u)' <=> Quiet(u)
      BY <1>2 DEF Quiet
    <2>2. \A u \in Uids : Quiet(u) => u # req[r].uid
      BY <1>3 DEF RevokedStays, Locked
    <2>3. \A j \in Requests : infos[j].uid # req[r].uid => infos'[j] = infos[j]
      BY <1>3, <1>4 DEF Mine
    <2>4. CalmIsQuiet'
      BY <1>2 DEF CalmIsQuiet
    <2>5. ASSUME NEW u \in Uids, Quiet(u)
          PROVE  /\ cached # None /\ infos'[cached].uid = u => Stays(cached)'
                 /\ \A s \in Requests : req[s].uid = u =>
                      /\ req[s].pc = "check" => Stays(req[s].ref)'
                      /\ req[s].pc \in {"store", "access"} \cup Locked => Mine(s)'.policy = "Deny"
      <3>1. u # req[r].uid
        BY <2>2, <2>5
      <3>2. \A s \in Requests : req[s].uid = u /\ req[s].pc \in WithEntry =>
                req[s].ref \in Requests /\ infos'[req[s].ref] = infos[req[s].ref] /\ s # r
        BY <2>3, <3>1 DEF EntriesBuilt, Mine
      <3>3. cached # None /\ infos'[cached].uid = u => infos'[cached] = infos[cached]
        BY <1>3, <1>4, <3>1 DEF RequestType, Mine
      <3> QED BY <1>1, <1>2, <2>5, <3>1, <3>2, <3>3 DEF RevokedStays, Stays, Mine, WithEntry, Locked
    <2> QED
      BY <1>1, <1>2, <1>5, <2>1, <2>2, <2>4, <2>5 DEF RevokedStays, Locked
  <1>11. GrantsSound'
    BY <1>2, <1>3, <1>4
    DEF GrantsSound, GrantJustified, GrantMatchesPolicy, NoGrantAfterQuietRevoke, RequestAt, Mine,
        EntriesBuilt, WithEntry
  <1> QED BY <1>6, <1>7, <1>8, <1>9, <1>10, <1>11

\* get_su_info, step by step.
LEMMA InfoSteps ==
    ASSUME RequestInv, NEW r \in Requests,
           LoadCached(r) \/ CheckFresh(r) \/ ReadSettings(r) \/ ReadRow(r) \/ StoreCached(r)
    PROVE  RequestInv'
  <1> USE RequestAssumption
      DEF RequestInv, WithEntry, Locked, Unbuilt, Mine, EntriesBuilt, LockHeld, PromptsAnswered, Justified,
          AllAuthorised, RevokedStays, CalmIsQuiet, Quiet, Stays, GrantsSound, GrantJustified,
          GrantMatchesPolicy, NoGrantAfterQuietRevoke, RequestAt
  <1>1. /\ infos \in [Requests -> InfoEntry] /\ req \in [Requests -> RequestState] /\ PolicyType
        /\ cached \in Requests \cup {None}
    BY DEF RequestType
  <1>2. UNCHANGED <<cfg, policies, mgrUsers, dbOk>> /\ UNCHANGED <<fifo, app, authorised>>
    BY DEF LoadCached, CheckFresh, ReadSettings, ReadRow, StoreCached, policyVars
  <1>3. PolicyType' /\ \A u : get_root_settings(u)' = get_root_settings(u)
    BY <1>1, <1>2 DEF PolicyType, get_root_settings
  <1>4. req[r] \in RequestState /\ req[r].uid \in Int
    BY <1>1 DEF RequestState
  <1>5. CASE LoadCached(r)
    <2>1. req[r].pc = "load" /\ UNCHANGED <<infos, cached>>
      BY <1>5 DEF LoadCached
    <2>2. PICK l \in {"check", "settings"} :
              /\ req' = [req EXCEPT ![r] = [req[r] EXCEPT !.ref = cached, !.pc = l]]
              /\ l = "check" => cached # None /\ infos[cached].uid = req[r].uid
      BY <1>1, <1>4, <1>5 DEF LoadCached
    <2>3. [req[r] EXCEPT !.ref = cached, !.pc = l] \in RequestState
      BY <1>1, <1>4 DEF RequestState, RequestPcs
    <2>4. /\ req' \in [Requests -> RequestState]
          /\ req'[r].pc = l /\ req'[r].uid = req[r].uid /\ req'[r].ref = cached
          /\ req'[r].cfg = req[r].cfg /\ req'[r].calm = req[r].calm
          /\ \A s \in Requests \ {r} : req'[s] = req[s]
      BY <1>1, <1>4, <2>2, <2>3 DEF RequestState
    <2>5. RequestType'
      BY <1>1, <1>2, <1>3, <2>1, <2>4 DEF RequestType
    <2> QED BY <1>1, <1>2, <1>3, <2>1, <2>2, <2>4, <2>5 DEF Granting
  <1>6. CASE CheckFresh(r)
    <2>1. req[r].pc = "check" /\ UNCHANGED <<infos, cached>>
      BY <1>6 DEF CheckFresh
    <2>2. PICK l \in {"access", "settings"} : RequestGoto(r, l) /\ (l = "access" => Mine(r).fresh)
      BY <1>6 DEF CheckFresh
    <2>3. /\ req' \in [Requests -> RequestState]
          /\ req'[r].pc = l /\ req'[r].uid = req[r].uid /\ req'[r].ref = req[r].ref
          /\ req'[r].cfg = req[r].cfg /\ req'[r].calm = req[r].calm
          /\ req'[r].drop_cap = req[r].drop_cap
          /\ \A s \in Requests \ {r} : req'[s] = req[s]
      BY <1>1, <2>2, GotoFacts DEF RequestPcs
    <2>4. RequestType'
      BY <1>1, <1>2, <1>3, <2>1, <2>3 DEF RequestType
    <2> QED BY <1>1, <1>2, <1>3, <2>1, <2>2, <2>3, <2>4
  <1>7. CASE ReadSettings(r)
    <2>1. req[r].pc = "settings" /\ UNCHANGED <<infos, cached>>
      BY <1>7 DEF ReadSettings
    <2>2. req' = [req EXCEPT ![r] = [req[r] EXCEPT !.pc = "row", !.cfg = cfg]] /\ cfg \in Configs
      BY <1>1, <1>4, <1>7 DEF ReadSettings, PolicyType
    <2>3. [req[r] EXCEPT !.pc = "row", !.cfg = cfg] \in RequestState
      BY <1>4, <2>2 DEF RequestState, RequestPcs
    <2>4. /\ req' \in [Requests -> RequestState]
          /\ req'[r].pc = "row" /\ req'[r].uid = req[r].uid /\ req'[r].ref = req[r].ref
          /\ req'[r].cfg = cfg /\ req'[r].calm = req[r].calm
          /\ \A s \in Requests \ {r} : req'[s] = req[s]
      BY <1>1, <1>4, <2>2, <2>3 DEF RequestState
    <2>5. RequestType'
      BY <1>1, <1>2, <1>3, <2>1, <2>4 DEF RequestType
    <2>6. EntriesBuilt' /\ LockHeld' /\ PromptsAnswered' /\ AllAuthorised' /\ CalmIsQuiet' /\ GrantsSound'
      BY <1>1, <1>2, <2>1, <2>2, <2>4
    <2>7. RevokedStays'
      BY <1>1, <1>2, <1>3, <2>1, <2>4
    <2> QED BY <2>5, <2>6, <2>7
  <1>8. CASE ReadRow(r)
    <2>1. req[r].pc = "row" /\ UNCHANGED cached /\ req[r].cfg \in Configs /\ req[r].uid \in Uids
      BY <1>8 DEF ReadRow
    <2> DEFINE u == req[r].uid
               e == EvalUid(req[r].cfg.multiuser_mode, u)
               i == SuInfoFrom(req[r].cfg, u)
    <2>2. /\ e \in Int
          /\ \/ i = deny(u)
             \/ i = allow(u) /\ to_app_id(u) = ManagerApp
             \/ i = SuInfo(u, e, get_root_settings(e).policy, MgrUidFor(e))
      BY <1>1, <2>1, InfoCases
    <2>3. \A v \in Uids : policies[v].live => policies[v].policy \in {"Deny", "Allow", "Restrict"}
      BY <1>1 DEF PolicyType, PolicyRow, NoRow, Granting
    <2>4. /\ get_root_settings(e).policy \in {"Query", "Deny", "Allow", "Restrict"}
          /\ get_root_settings(e).policy \in Granting => e \in authorised
      BY <2>3 DEF get_root_settings, Granting
    <2>5. /\ i.uid = u /\ i.eval_uid \in Int /\ i.policy \in {"Query", "Deny", "Allow", "Restrict"}
          /\ i.policy \in Granting => to_app_id(u) = ManagerApp \/ i.eval_uid \in authorised
          /\ get_root_settings(e).policy = "Deny" /\ to_app_id(u) # ManagerApp => i.policy = "Deny"
      BY <2>2, <2>4 DEF deny, allow, SuInfo, Granting
    <2>6. /\ infos' = [infos EXCEPT ![r] = Entry(i)]
          /\ req' = [req EXCEPT ![r] = [req[r] EXCEPT !.pc = "store", !.ref = r]]
      BY <1>8 DEF ReadRow
    <2> HIDE DEF i
    <2>7. /\ Entry(i) \in InfoEntry
          /\ Entry(i).uid = u /\ Entry(i).eval_uid = i.eval_uid /\ Entry(i).policy = i.policy
      <3>1. i.uid \in Int
        BY <1>4, <2>5
      <3>2. i.policy \in {"Query"} \cup Verdicts
        BY <2>5 DEF Verdicts, Granting
      <3> QED BY <2>5, <3>1, <3>2 DEF Entry, InfoEntry
    <2>8. [req[r] EXCEPT !.pc = "store", !.ref = r] \in RequestState
      BY <1>4 DEF RequestState, RequestPcs
    <2>9. /\ req' \in [Requests -> RequestState]
          /\ req'[r].pc = "store" /\ req'[r].uid = req[r].uid /\ req'[r].ref = r
          /\ req'[r].cfg = req[r].cfg /\ req'[r].calm = req[r].calm
          /\ \A s \in Requests \ {r} : req'[s] = req[s]
      BY <1>1, <1>4, <2>6, <2>8 DEF RequestState
    <2>10. /\ infos' \in [Requests -> InfoEntry]
           /\ infos'[r].uid = u /\ infos'[r].eval_uid = i.eval_uid /\ infos'[r].policy = i.policy
           /\ \A s \in Requests \ {r} : infos'[s] = infos[s]
      BY <1>1, <2>6, <2>7
    <2>11. RequestType'
      BY <1>1, <1>2, <1>3, <2>1, <2>9, <2>10 DEF RequestType
    <2> QED BY <1>1, <1>2, <1>3, <2>1, <2>5, <2>9, <2>10, <2>11, SMTT(30) DEF Granting
  <1>9. CASE StoreCached(r)
    <2>1. req[r].pc = "store" /\ UNCHANGED infos /\ cached' = r /\ RequestGoto(r, "access")
      BY <1>9 DEF StoreCached
    <2>2. /\ req' \in [Requests -> RequestState]
          /\ req'[r].pc = "access" /\ req'[r].uid = req[r].uid /\ req'[r].ref = req[r].ref
          /\ req'[r].cfg = req[r].cfg /\ req'[r].calm = req[r].calm
          /\ req'[r].drop_cap = req[r].drop_cap
          /\ \A s \in Requests \ {r} : req'[s] = req[s]
      BY <1>1, <2>1, GotoFacts DEF RequestPcs
    <2>3. RequestType'
      BY <1>1, <1>2, <1>3, <2>1, <2>2 DEF RequestType
    <2> QED BY <1>1, <1>2, <1>3, <2>1, <2>2, <2>3
  <1> QED BY <1>5, <1>6, <1>7, <1>8, <1>9

\* su_daemon_handler under the access lock, step by step.
LEMMA AccessSteps ==
    ASSUME RequestInv, NEW r \in Requests,
           \/ LockAccess(r) \/ MakeFifo(r) \/ FifoFails(r) \/ PollAnswer(r)
           \/ PollTimeout(r) \/ ReadLateAnswer(r) \/ Decide(r)
    PROVE  RequestInv'
  <1> USE RequestAssumption
      DEF RequestInv, WithEntry, Locked, Unbuilt, Mine, EntriesBuilt, LockHeld, PromptsAnswered, Justified,
          AllAuthorised, RevokedStays, CalmIsQuiet, Quiet, Stays, GrantsSound, GrantJustified,
          GrantMatchesPolicy, NoGrantAfterQuietRevoke, RequestAt
  <1>1. /\ infos \in [Requests -> InfoEntry] /\ req \in [Requests -> RequestState] /\ PolicyType
        /\ fifo \in [Requests -> FifoState] /\ app \in [Requests -> PromptState]
        /\ cached \in Requests \cup {None}
    BY DEF RequestType
  <1>2. UNCHANGED <<cfg, policies, mgrUsers, dbOk>> /\ UNCHANGED <<cached, authorised>>
    BY DEF LockAccess, MakeFifo, FifoFails, PollAnswer, PollTimeout, ReadLateAnswer, Decide, policyVars
  <1>3. PolicyType' /\ \A u : get_root_settings(u)' = get_root_settings(u)
    BY <1>1, <1>2 DEF PolicyType, get_root_settings
  <1>4. /\ req[r].pc \in {"access"} \cup Locked /\ req[r].ref \in Requests
        /\ infos[req[r].ref].uid = req[r].uid
    BY DEF LockAccess, MakeFifo, FifoFails, PollAnswer, PollTimeout, ReadLateAnswer, Decide
  <1>5. /\ req[r] \in RequestState /\ infos[req[r].ref] \in InfoEntry
        /\ fifo[r] \in FifoState /\ app[r] \in PromptState
    BY <1>1, <1>4
  <1>6. /\ infos[req[r].ref].policy \in {"Query", "Deny", "Allow", "Restrict"}
        /\ fifo[r].data \in {"none", "Deny", "Allow", "Restrict"}
    BY <1>5 DEF InfoEntry, FifoState, Verdicts, Granting
  <1> DEFINE i == req[r].ref
  <1>7. CASE LockAccess(r)
    <2>1. req[r].pc = "access" /\ infos[i].owner = None /\ UNCHANGED <<fifo, app>>
      BY <1>7 DEF LockAccess
    <2>2. PICK l \in {"mkfifo", "decide"} : RequestGoto(r, l) /\ (l = "mkfifo" <=> infos[i].policy = "Query")
      BY <1>7 DEF LockAccess
    <2>3. /\ req' \in [Requests -> RequestState]
          /\ req'[r].pc = l /\ req'[r].uid = req[r].uid /\ req'[r].ref = req[r].ref
          /\ req'[r].cfg = req[r].cfg /\ req'[r].calm = req[r].calm
          /\ req'[r].drop_cap = req[r].drop_cap
          /\ \A s \in Requests \ {r} : req'[s] = req[s]
      BY <1>1, <2>2, GotoFacts DEF RequestPcs
    <2>4. infos' = [infos EXCEPT ![i] = [infos[i] EXCEPT !.owner = r]]
      BY <1>1, <1>4, <1>7 DEF LockAccess
    <2>5. [infos[i] EXCEPT !.owner = r] \in InfoEntry
      BY <1>5 DEF InfoEntry
    <2>6. /\ infos' \in [Requests -> InfoEntry]
          /\ infos'[i].owner = r /\ infos'[i].uid = infos[i].uid /\ infos'[i].eval_uid = infos[i].eval_uid
          /\ infos'[i].policy = infos[i].policy /\ infos'[i].fresh = infos[i].fresh
          /\ \A j \in Requests \ {i} : infos'[j] = infos[j]
      BY <1>1, <1>4, <1>5, <2>4, <2>5 DEF InfoEntry
    <2>7. RequestType'
      BY <1>1, <1>2, <1>3, <2>1, <2>3, <2>6 DEF RequestType
    <2>8. EntriesBuilt' /\ LockHeld' /\ AllAuthorised' /\ CalmIsQuiet'
      BY <1>1, <1>2, <1>4, <2>1, <2>2, <2>3, <2>6, SMTT(30)
    <2>9. PromptsAnswered'
      BY <1>1, <1>2, <1>4, <2>1, <2>2, <2>3, <2>6 DEF Granting
    <2>10. GrantsSound'
      <3>1. \A j \in Requests : /\ infos'[j].policy = infos[j].policy /\ infos'[j].uid = infos[j].uid
                                /\ infos'[j].eval_uid = infos[j].eval_uid
        BY <2>6
      <3>2. \A s \in Requests : req'[s].pc = "granted" => s # r /\ req[s].ref \in Requests
        BY <2>2, <2>3
      <3> QED BY <1>2, <2>2, <2>3, <3>1, <3>2
    <2>11. RevokedStays'
      BY <1>1, <1>2, <1>3, <1>4, <2>1, <2>2, <2>3, <2>6
    <2> QED BY <2>7, <2>8, <2>9, <2>10, <2>11
  <1>8. CASE MakeFifo(r)
    <2>1. req[r].pc = "mkfifo" /\ UNCHANGED infos /\ RequestGoto(r, "poll")
      BY <1>8 DEF MakeFifo
    <2>2. /\ req' \in [Requests -> RequestState]
          /\ req'[r].pc = "poll" /\ req'[r].uid = req[r].uid /\ req'[r].ref = req[r].ref
          /\ req'[r].cfg = req[r].cfg /\ req'[r].calm = req[r].calm
          /\ req'[r].drop_cap = req[r].drop_cap
          /\ \A s \in Requests \ {r} : req'[s] = req[s]
      BY <1>1, <2>1, GotoFacts DEF RequestPcs
    <2>3. /\ fifo' \in [Requests -> FifoState] /\ \A s \in Requests : fifo'[s].data = fifo[s].data
          /\ app' \in [Requests -> PromptState]
          /\ app'[r].at = "intent" /\ app'[r].answer = app[r].answer
          /\ \A s \in Requests \ {r} : app'[s] = app[s]
      <3>1. /\ fifo' = [fifo EXCEPT ![r] = [fifo[r] EXCEPT !.path = TRUE]]
            /\ app' = [app EXCEPT ![r] = [app[r] EXCEPT !.at = "intent"]]
        BY <1>8 DEF MakeFifo
      <3>2. [fifo[r] EXCEPT !.path = TRUE] \in FifoState /\ [fifo[r] EXCEPT !.path = TRUE].data = fifo[r].data
        BY <1>5 DEF FifoState
      <3>3. [app[r] EXCEPT !.at = "intent"] \in PromptState
        BY <1>5 DEF PromptState
      <3> QED BY <1>1, <1>5, <3>1, <3>2, <3>3 DEF PromptState
    <2>4. RequestType'
      BY <1>1, <1>2, <1>3, <2>1, <2>2, <2>3 DEF RequestType
    <2>5. EntriesBuilt' /\ LockHeld' /\ AllAuthorised' /\ CalmIsQuiet' /\ GrantsSound'
      BY <1>1, <1>2, <1>4, <2>1, <2>2, SMTT(30)
    <2>6. PromptsAnswered'
      BY <1>1, <1>2, <1>4, <2>1, <2>2, <2>3
    <2>7. RevokedStays'
      BY <1>1, <1>2, <1>3, <1>4, <2>1, <2>2
    <2> QED BY <2>4, <2>5, <2>6, <2>7
  <1>9. CASE FifoFails(r)
    <2> HIDE DEF RequestInv
    <2>1. req[r].pc = "mkfifo" /\ SetPolicy(r, "Deny") /\ RequestGoto(r, "decide") /\ UNCHANGED <<fifo, app>>
      BY <1>9 DEF FifoFails
    <2>2. UNCHANGED <<policyVars, cached, app, authorised>> /\ "Deny" \notin Granting
      BY <1>9 DEF FifoFails, Granting
    <2> QED BY <1>1, <2>1, <2>2, PolicySet
  <1>10. CASE PollAnswer(r) \/ ReadLateAnswer(r)
    <2> HIDE DEF RequestInv
    <2>1. /\ req[r].pc \in {"poll", "read"} /\ fifo[r].data # "none"
          /\ SetPolicy(r, fifo[r].data) /\ RequestGoto(r, "decide")
          /\ UNCHANGED <<policyVars, cached, app, authorised>>
      BY <1>10 DEF PollAnswer, ReadLateAnswer
    <2>2. fifo' \in [Requests -> FifoState] /\ \A s \in Requests : fifo'[s].data = fifo[s].data
      <3>1. fifo' = fifo \/ fifo' = [fifo EXCEPT ![r] = [fifo[r] EXCEPT !.path = FALSE]]
        BY <1>10 DEF PollAnswer, ReadLateAnswer
      <3>2. [fifo[r] EXCEPT !.path = FALSE] \in FifoState /\ [fifo[r] EXCEPT !.path = FALSE].data = fifo[r].data
        BY <1>5 DEF FifoState
      <3> QED BY <1>1, <3>1, <3>2
    <2>3. fifo[r].data \in {"Deny", "Allow", "Restrict"}
      BY <1>6, <2>1
    <2>4. fifo[r].data \in Granting => Mine(r).eval_uid \in authorised
      BY DEF RequestInv
    <2> QED BY <1>1, <2>1, <2>2, <2>3, <2>4, PolicySet
  <1>11. CASE PollTimeout(r)
    <2>1. req[r].pc = "poll" /\ UNCHANGED <<infos, app>> /\ RequestGoto(r, "read")
      BY <1>11 DEF PollTimeout
    <2>2. /\ req' \in [Requests -> RequestState]
          /\ req'[r].pc = "read" /\ req'[r].uid = req[r].uid /\ req'[r].ref = req[r].ref
          /\ req'[r].cfg = req[r].cfg /\ req'[r].calm = req[r].calm
          /\ req'[r].drop_cap = req[r].drop_cap
          /\ \A s \in Requests \ {r} : req'[s] = req[s]
      BY <1>1, <2>1, GotoFacts DEF RequestPcs
    <2>3. fifo' \in [Requests -> FifoState] /\ \A s \in Requests : fifo'[s].data = fifo[s].data
      <3>1. fifo' = [fifo EXCEPT ![r] = [fifo[r] EXCEPT !.path = FALSE]]
        BY <1>11 DEF PollTimeout
      <3>2. [fifo[r] EXCEPT !.path = FALSE] \in FifoState /\ [fifo[r] EXCEPT !.path = FALSE].data = fifo[r].data
        BY <1>5 DEF FifoState
      <3> QED BY <1>1, <3>1, <3>2
    <2>4. RequestType'
      BY <1>1, <1>2, <1>3, <2>1, <2>2, <2>3 DEF RequestType
    <2>5. EntriesBuilt' /\ LockHeld' /\ CalmIsQuiet'
      BY <1>1, <1>2, <1>4, <2>1, <2>2, SMTT(30)
    <2>6. PromptsAnswered'
      BY <1>1, <1>2, <1>4, <2>1, <2>2, <2>3
    <2>7. RevokedStays'
      BY <1>1, <1>2, <1>3, <1>4, <2>1, <2>2
    <2>8. AllAuthorised' /\ GrantsSound'
      BY <1>1, <1>2, <1>4, <2>1, <2>2, SMTT(30)
    <2> QED BY <2>4, <2>5, <2>6, <2>7, <2>8
  <1>12. CASE Decide(r)
    <2>1. req[r].pc = "decide" /\ UNCHANGED <<fifo, app>> /\ infos[i].owner = r /\ infos[i].policy # "Query"
      BY <1>12 DEF Decide
    <2>2. PICK l \in {"denied", "granted"}, d \in BOOLEAN :
              /\ l = "denied" <=> infos[i].policy = "Deny"
              /\ d <=> infos[i].policy = "Restrict"
              /\ req' = [req EXCEPT ![r] = [req[r] EXCEPT !.pc = l, !.drop_cap = d]]
      BY <1>1, <1>5, <1>12, ZenonT(40) DEF Decide
    <2>3. [req[r] EXCEPT !.pc = l, !.drop_cap = d] \in RequestState
      BY <1>5 DEF RequestState, RequestPcs
    <2>4. /\ req' \in [Requests -> RequestState]
          /\ req'[r].pc = l /\ req'[r].uid = req[r].uid /\ req'[r].ref = req[r].ref
          /\ req'[r].cfg = req[r].cfg /\ req'[r].calm = req[r].calm /\ req'[r].drop_cap = d
          /\ \A s \in Requests \ {r} : req'[s] = req[s]
      BY <1>1, <1>5, <2>2, <2>3 DEF RequestState
    <2>5. infos' = [infos EXCEPT ![i] = [infos[i] EXCEPT !.fresh = TRUE, !.owner = None]]
      BY <1>1, <1>4, <1>5, <1>12 DEF Decide
    <2>6. [infos[i] EXCEPT !.fresh = TRUE, !.owner = None] \in InfoEntry
      BY <1>5 DEF InfoEntry
    <2>7. /\ infos' \in [Requests -> InfoEntry]
          /\ infos'[i].owner = None /\ infos'[i].uid = infos[i].uid /\ infos'[i].eval_uid = infos[i].eval_uid
          /\ infos'[i].policy = infos[i].policy /\ infos'[i].fresh = TRUE
          /\ \A j \in Requests \ {i} : infos'[j] = infos[j]
      BY <1>1, <1>4, <1>5, <2>5, <2>6 DEF InfoEntry
    <2>8. l \in {"denied", "granted"} /\ (l = "denied" <=> infos[i].policy = "Deny") /\ (d <=> infos[i].policy = "Restrict")
      BY <2>2
    <2>9. RequestType'
      BY <1>1, <1>2, <1>3, <2>1, <2>4, <2>7 DEF RequestType
    <2>10. EntriesBuilt' /\ LockHeld' /\ CalmIsQuiet'
      BY <1>1, <1>2, <1>4, <2>1, <2>8, <2>4, <2>7, SMTT(60)
    <2>11. PromptsAnswered'
      BY <1>1, <1>2, <1>4, <2>1, <2>8, <2>4, <2>7 DEF Granting
    <2>12. GrantsSound'
      BY <1>1, <1>2, <1>4, <1>6, <2>1, <2>8, <2>4, <2>7, SMTT(60) DEF Granting
    <2>13. RevokedStays'
      BY <1>1, <1>2, <1>3, <1>4, <2>1, <2>8, <2>4, <2>7, SMTT(60)
    <2>14. AllAuthorised'
      BY <1>1, <1>2, <1>4, <2>1, <2>8, <2>4, <2>7, SMTT(60)
    <2> QED BY <2>9, <2>10, <2>11, <2>12, <2>13, <2>14
  <1> QED BY <1>7, <1>8, <1>9, <1>10, <1>11, <1>12

\* What asks for root has a uid, and it is not that of root.
LEMMA UidsAreNumbers == Uids \subseteq Int /\ AID_ROOT \notin Uids /\ AID_ROOT \in Int /\ -1 \notin Uids
  BY PolicyAssumption DEF AID_ROOT

\* A client comes, or dies before its request is read.
LEMMA ArrivalSteps ==
    ASSUME RequestInv, NEW r \in Requests, Arrive(r) \/ ReadRequestFails(r)
    PROVE  RequestInv'
  <1> USE RequestAssumption
      DEF RequestInv, WithEntry, Locked, Unbuilt, Mine, EntriesBuilt, LockHeld, PromptsAnswered, Justified,
          AllAuthorised, RevokedStays, CalmIsQuiet, Quiet, Stays, GrantsSound, GrantJustified,
          GrantMatchesPolicy, NoGrantAfterQuietRevoke, RequestAt
  <1>1. /\ infos \in [Requests -> InfoEntry] /\ req \in [Requests -> RequestState] /\ PolicyType
        /\ cached \in Requests \cup {None}
    BY DEF RequestType
  <1>2. UNCHANGED <<cfg, policies, mgrUsers, dbOk>> /\ UNCHANGED <<cached, fifo, app, authorised>>
    BY DEF Arrive, ReadRequestFails, policyVars
  <1>3. PolicyType' /\ \A u : get_root_settings(u)' = get_root_settings(u)
    BY <1>1, <1>2 DEF PolicyType, get_root_settings
  <1>4. req[r].pc = "idle" /\ ~req[r].calm /\ req[r].uid = -1 /\ app[r].at = "none" /\ fifo[r].data = "none"
    BY DEF Arrive, ReadRequestFails
  <1>5. Uids \subseteq Int /\ AID_ROOT \notin Uids /\ AID_ROOT \in Int /\ -1 \notin Uids
    BY UidsAreNumbers
  <1>6. CASE ReadRequestFails(r)
    <2>1. UNCHANGED infos /\ RequestGoto(r, "denied")
      BY <1>6 DEF ReadRequestFails
    <2>2. /\ req' \in [Requests -> RequestState]
          /\ req'[r].pc = "denied" /\ req'[r].uid = req[r].uid /\ req'[r].ref = req[r].ref
          /\ req'[r].cfg = req[r].cfg /\ req'[r].calm = req[r].calm
          /\ req'[r].drop_cap = req[r].drop_cap
          /\ \A s \in Requests \ {r} : req'[s] = req[s]
      BY <1>1, <2>1, GotoFacts DEF RequestPcs
    <2>3. RequestType'
      BY <1>1, <1>2, <1>3, <2>1, <2>2 DEF RequestType
    <2>4. EntriesBuilt' /\ LockHeld' /\ PromptsAnswered' /\ AllAuthorised' /\ CalmIsQuiet' /\ GrantsSound'
      BY <1>1, <1>2, <1>4, <2>1, <2>2
    <2>5. RevokedStays'
      BY <1>1, <1>2, <1>3, <1>4, <1>5, <2>1, <2>2
    <2> QED BY <2>3, <2>4, <2>5
  <1>7. ASSUME req' = [req EXCEPT ![r] = [Idle EXCEPT !.pc = "access", !.uid = AID_ROOT, !.ref = r]],
               infos' = [infos EXCEPT ![r] = Entry(allow(AID_ROOT))]
        PROVE  RequestInv'
    <2>1. /\ [Idle EXCEPT !.pc = "access", !.uid = AID_ROOT, !.ref = r] \in RequestState
          /\ Entry(allow(AID_ROOT)) \in InfoEntry
      <3>1. [Idle EXCEPT !.pc = "access", !.uid = AID_ROOT, !.ref = r] \in RequestState
        BY <1>5 DEF Idle, RequestState, RequestPcs
      <3>2. "Allow" \in {"Query"} \cup Verdicts
        BY DEF Verdicts, Granting
      <3>3. Entry(allow(AID_ROOT)) = [uid |-> AID_ROOT, eval_uid |-> -1, policy |-> "Allow",
                                      fresh |-> TRUE, owner |-> None]
        BY DEF Entry, allow, SuInfo
      <3> QED BY <1>5, <3>1, <3>2, <3>3 DEF InfoEntry
    <2>2. /\ req' \in [Requests -> RequestState]
          /\ req'[r].pc = "access" /\ req'[r].uid = AID_ROOT /\ req'[r].ref = r /\ ~req'[r].calm
          /\ \A s \in Requests \ {r} : req'[s] = req[s]
      BY <1>1, <1>7, <2>1 DEF Idle
    <2>3. /\ infos' \in [Requests -> InfoEntry]
          /\ infos'[r].uid = AID_ROOT
          /\ \A s \in Requests \ {r} : infos'[s] = infos[s]
      BY <1>1, <1>7, <2>1 DEF Entry, allow, SuInfo
    <2>4. RequestType'
      BY <1>1, <1>2, <1>3, <2>2, <2>3 DEF RequestType
    <2>5. EntriesBuilt' /\ LockHeld' /\ AllAuthorised' /\ CalmIsQuiet'
      BY <1>1, <1>2, <1>4, <1>5, <2>2, <2>3
    <2>6. PromptsAnswered' /\ GrantsSound'
      BY <1>1, <1>2, <1>4, <2>2, <2>3 DEF Granting
    <2>7. RevokedStays'
      BY <1>1, <1>2, <1>3, <1>4, <1>5, <2>2, <2>3
    <2> QED BY <2>4, <2>5, <2>6, <2>7
  <1>8. ASSUME NEW u \in Uids, UNCHANGED infos,
               req' = [req EXCEPT ![r] = [Idle EXCEPT !.pc = "load", !.uid = u, !.calm = Calm(u)]]
        PROVE  RequestInv'
    <2>1. PICK b \in BOOLEAN : (b <=> Calm(u)) /\ b = Calm(u)
      BY Zenon DEF Calm
    <2>2. [Idle EXCEPT !.pc = "load", !.uid = u, !.calm = b] \in RequestState
      BY <1>5 DEF Idle, RequestState, RequestPcs
    <2>3. req' = [req EXCEPT ![r] = [Idle EXCEPT !.pc = "load", !.uid = u, !.calm = b]]
      BY <1>8, <2>1
    <2>4. /\ req' \in [Requests -> RequestState]
          /\ req'[r].pc = "load" /\ req'[r].uid = u /\ req'[r].ref = None /\ req'[r].calm = b
          /\ \A s \in Requests \ {r} : req'[s] = req[s]
      BY <1>1, <2>2, <2>3 DEF Idle
    <2>5. RequestType'
      BY <1>1, <1>2, <1>3, <1>8, <2>4 DEF RequestType
    <2>6. EntriesBuilt' /\ LockHeld' /\ AllAuthorised' /\ CalmIsQuiet' /\ PromptsAnswered' /\ GrantsSound'
      BY <1>1, <1>2, <1>4, <1>8, <2>4 DEF Granting
    <2>7. RevokedStays'
      <3>1. \A v \in Uids : Quiet(v)' => Quiet(v) \/ (v = u /\ Calm(u))
        BY <1>4, <2>1, <2>4
      <3>2. ASSUME NEW v \in Uids, Quiet(v)
            PROVE  /\ to_app_id(v) # ManagerApp
                   /\ get_root_settings(EvalUid(cfg.multiuser_mode, v)).policy = "Deny"
                   /\ cached # None /\ infos[cached].uid = v => Stays(cached)
                   /\ \A s \in Requests : req'[s].uid = v =>
                        /\ req'[s].pc = "check" => Stays(req'[s].ref)
                        /\ req'[s].pc = "row" => req'[s].cfg = cfg
                        /\ req'[s].pc \in {"store", "access"} \cup Locked => infos[req'[s].ref].policy = "Deny"
        BY <2>4, <3>2
      <3>3. ASSUME Calm(u)
            PROVE  /\ to_app_id(u) # ManagerApp
                   /\ get_root_settings(EvalUid(cfg.multiuser_mode, u)).policy = "Deny"
                   /\ cached # None /\ infos[cached].uid = u => Stays(cached)
                   /\ \A s \in Requests : req'[s].uid = u => req'[s].pc \in {"load", "granted", "denied"}
        BY <2>4, <3>3 DEF Calm
      <3> QED BY <1>2, <1>3, <1>8, <3>1, <3>2, <3>3
    <2> QED BY <2>5, <2>6, <2>7
  <1> QED BY <1>6, <1>7, <1>8 DEF Arrive

\* Three seconds pass.
LEMMA StaleSteps ==
    ASSUME RequestInv, NEW i \in Requests, GrowStale(i)
    PROVE  RequestInv'
  <1> USE RequestAssumption
      DEF RequestInv, WithEntry, Locked, Unbuilt, Mine, EntriesBuilt, LockHeld, PromptsAnswered, Justified,
          AllAuthorised, RevokedStays, CalmIsQuiet, Quiet, Stays, GrantsSound, GrantJustified,
          GrantMatchesPolicy, NoGrantAfterQuietRevoke, RequestAt
  <1>1. /\ infos \in [Requests -> InfoEntry] /\ PolicyType /\ cached \in Requests \cup {None}
        /\ infos[i] \in InfoEntry
    BY DEF RequestType
  <1>2. /\ UNCHANGED <<cfg, policies, mgrUsers, dbOk>> /\ UNCHANGED <<cached, req, fifo, app, authorised>>
        /\ infos' = [infos EXCEPT ![i] = [infos[i] EXCEPT !.fresh = FALSE]]
    BY DEF GrowStale, policyVars
  <1>3. PolicyType' /\ \A u : get_root_settings(u)' = get_root_settings(u)
    BY <1>1, <1>2 DEF PolicyType, get_root_settings
  <1>4. [infos[i] EXCEPT !.fresh = FALSE] \in InfoEntry
    BY <1>1 DEF InfoEntry
  <1>5. /\ infos' \in [Requests -> InfoEntry] /\ ~infos'[i].fresh
        /\ \A j \in Requests : /\ infos'[j].policy = infos[j].policy /\ infos'[j].uid = infos[j].uid
                               /\ infos'[j].eval_uid = infos[j].eval_uid /\ infos'[j].owner = infos[j].owner
                               /\ j = i \/ infos'[j] = infos[j]
    BY <1>1, <1>2, <1>4 DEF InfoEntry
  <1>6. RequestType'
    BY <1>1, <1>2, <1>3, <1>5 DEF RequestType
  <1>7. EntriesBuilt' /\ LockHeld' /\ AllAuthorised' /\ CalmIsQuiet'
    BY <1>1, <1>2, <1>5
  <1>8. PromptsAnswered' /\ GrantsSound'
    BY <1>1, <1>2, <1>5 DEF Granting
  <1>9. RevokedStays'
    BY <1>1, <1>2, <1>3, <1>5
  <1> QED BY <1>6, <1>7, <1>8, <1>9

\* What a step of the app does to its prompt.
LEMMA PromptFacts ==
    ASSUME app \in [Requests -> PromptState], NEW r \in Requests, NEW from,
           NEW to \in {"dialog", "held", "open", "write", "save", "gone"},
           NEW said \in {"none", "Deny", "Allow", "Restrict"}, AppStep(r, from, to, said)
    PROVE  /\ app' \in [Requests -> PromptState] /\ app[r].at \in from
           /\ app'[r].at = to /\ app'[r].answer = said
           /\ \A s \in Requests \ {r} : app'[s] = app[s]
  <1>1. [at |-> to, answer |-> said] \in PromptState
    BY DEF PromptState, Verdicts, Granting
  <1> QED BY <1>1 DEF AppStep, PromptState

\* The steps of the app that write nothing.
LEMMA DialogSteps ==
    ASSUME RequestInv, NEW r \in Requests,
           AppSilent(r) \/ ShowDialog(r) \/ CancelTimer(r) \/ Respond(r) \/ TimerFinishes(r) \/ OpenFifo(r)
    PROVE  RequestInv'
  <1>1. /\ UNCHANGED <<policyVars, infos, cached, req, authorised>> /\ UNCHANGED fifo
        /\ RequestType /\ PromptsAnswered
    BY DEF AppSilent, ShowDialog, CancelTimer, Respond, TimerFinishes, OpenFifo, RequestInv
  <1>2. /\ PolicyType' /\ EntriesBuilt' /\ LockHeld' /\ AllAuthorised' /\ RevokedStays' /\ CalmIsQuiet'
        /\ GrantsSound'
        /\ infos' \in [Requests -> InfoEntry] /\ cached' \in Requests \cup {None}
        /\ req' \in [Requests -> RequestState]
    BY <1>1, AppSteps
  <1>3. \E from \in SUBSET {"intent", "dialog", "held", "open", "write"},
           to \in {"dialog", "held", "open", "write", "save", "gone"},
           said \in {"none", "Deny", "Allow", "Restrict"} :
              /\ AppStep(r, from, to, said)
              /\ to \in {"open", "write", "save"} => said # "none"
    <2>1. Answers \subseteq {"Deny", "Allow", "Restrict"}
      BY PolicyAssumption DEF Answers
    <2>2. app[r].answer \in {"none", "Deny", "Allow", "Restrict"}
      BY <1>1, FieldTypes
    <2>3. app[r].at \in {"open"} => app[r].answer # "none"
      BY <1>1 DEF PromptsAnswered
    <2>4. CASE AppSilent(r)
      BY <2>4 DEF AppSilent
    <2>5. CASE ShowDialog(r)
      BY <2>5 DEF ShowDialog
    <2>6. CASE CancelTimer(r)
      BY <2>6 DEF CancelTimer
    <2>7. CASE Respond(r)
      BY <2>1, <2>7 DEF Respond
    <2>8. CASE TimerFinishes(r)
      BY <2>8 DEF TimerFinishes
    <2>9. CASE OpenFifo(r)
      <3>1. PICK to \in {"write", "save"} : AppStep(r, {"open"}, to, app[r].answer)
        BY <2>9 DEF OpenFifo
      <3>2. app[r].answer # "none"
        BY <2>3, <3>1 DEF AppStep
      <3> QED BY <2>2, <3>1, <3>2
    <2> QED BY <2>4, <2>5, <2>6, <2>7, <2>8, <2>9
  <1>4. PICK from \in SUBSET {"intent", "dialog", "held", "open", "write"},
             to \in {"dialog", "held", "open", "write", "save", "gone"},
             said \in {"none", "Deny", "Allow", "Restrict"} :
                /\ AppStep(r, from, to, said)
                /\ to \in {"open", "write", "save"} => said # "none"
    BY <1>3
  <1>5. /\ app' \in [Requests -> PromptState] /\ app[r].at \in from
        /\ app'[r].at = to /\ app'[r].answer = said
        /\ \A s \in Requests \ {r} : app'[s] = app[s]
    BY <1>1, <1>4, PromptFacts DEF RequestType
  <1>6. RequestType'
    BY <1>1, <1>2, <1>5 DEF RequestType
  <1>7. PromptsAnswered'
    <2>1. app[r].at # "none" /\ to # "none"
      BY <1>5
    <2> QED BY <1>1, <1>4, <1>5, <2>1 DEF PromptsAnswered, Mine
  <1> QED BY <1>2, <1>6, <1>7 DEF RequestInv

\* The answer is written into the FIFO.
LEMMA AnswerSteps ==
    ASSUME RequestInv, NEW r \in Requests, WriteAnswer(r)
    PROVE  RequestInv'
  <1> USE RequestAssumption
      DEF RequestInv, WithEntry, Locked, Unbuilt, Mine, EntriesBuilt, LockHeld, PromptsAnswered, Justified,
          AllAuthorised, RevokedStays, CalmIsQuiet, Quiet, Stays, GrantsSound, GrantJustified,
          GrantMatchesPolicy, NoGrantAfterQuietRevoke, RequestAt
  <1>1. /\ infos \in [Requests -> InfoEntry] /\ PolicyType /\ cached \in Requests \cup {None}
        /\ fifo \in [Requests -> FifoState] /\ app \in [Requests -> PromptState] /\ fifo[r] \in FifoState
        /\ RequestType
    BY DEF RequestType
  <1>2. /\ UNCHANGED <<cfg, policies, mgrUsers, dbOk>> /\ UNCHANGED <<infos, cached, req>>
        /\ fifo' = [fifo EXCEPT ![r] = [fifo[r] EXCEPT !.data = app[r].answer]]
        /\ authorised \subseteq authorised'
        /\ app[r].answer # "Deny" => Mine(r).eval_uid \in authorised'
        /\ AppStep(r, {"write"}, "save", app[r].answer)
    BY DEF WriteAnswer, policyVars
  <1>3. PolicyType' /\ \A u : get_root_settings(u)' = get_root_settings(u)
    BY <1>1, <1>2 DEF PolicyType, get_root_settings
  <1>4. /\ app' \in [Requests -> PromptState] /\ app[r].at = "write"
        /\ app'[r].at = "save" /\ app'[r].answer = app[r].answer
        /\ \A s \in Requests \ {r} : app'[s] = app[s]
    <2>1. app[r].answer \in {"none", "Deny", "Allow", "Restrict"}
      BY <1>1, FieldTypes
    <2> HIDE DEF RequestInv
    <2> QED BY <1>1, <1>2, <2>1, PromptFacts
  <1>5. app[r].answer \in {"Deny", "Allow", "Restrict"}
    <2>1. app[r].answer \in {"none", "Deny", "Allow", "Restrict"}
      BY <1>1, FieldTypes
    <2> QED BY <1>4, <2>1
  <1>6. /\ fifo' \in [Requests -> FifoState] /\ fifo'[r].data = app[r].answer
        /\ \A s \in Requests \ {r} : fifo'[s] = fifo[s]
    <2>1. [fifo[r] EXCEPT !.data = app[r].answer] \in FifoState
      BY <1>1, <1>5 DEF FifoState, Verdicts, Granting
    <2> QED BY <1>1, <1>2, <2>1 DEF FifoState
  <1>7. RequestType'
    BY <1>1, <1>2, <1>3, <1>4, <1>6 DEF RequestType
  <1>8. EntriesBuilt' /\ LockHeld' /\ AllAuthorised' /\ CalmIsQuiet' /\ GrantsSound'
    BY <1>1, <1>2
  <1>9. PromptsAnswered'
    BY <1>1, <1>2, <1>4, <1>5, <1>6 DEF Granting
  <1>10. RevokedStays'
    BY <1>1, <1>2, <1>3
  <1> QED BY <1>7, <1>8, <1>9, <1>10

\* The tables are edited: nobody counts on a quiet revocation any more, and what grants is
\* authorised.
LEMMA EditSteps ==
    ASSUME RequestInv, PolicyType', authorised \subseteq authorised',
           \A u \in Uids : policies'[u].policy \in Granting => u \in authorised',
           req' = [s \in Requests |-> [req[s] EXCEPT !.calm = FALSE]],
           UNCHANGED <<infos, cached, fifo>>, app' \in [Requests -> PromptState],
           \A s \in Requests : app'[s] = app[s] \/ (app[s].at # "none" /\ app'[s].at = "gone")
    PROVE  RequestInv'
  <1> USE RequestAssumption
      DEF RequestInv, WithEntry, Locked, Unbuilt, Mine, EntriesBuilt, LockHeld, PromptsAnswered, Justified,
          AllAuthorised, RevokedStays, CalmIsQuiet, Quiet, Stays, GrantsSound, GrantJustified,
          GrantMatchesPolicy, NoGrantAfterQuietRevoke, RequestAt
  <1>1. /\ infos \in [Requests -> InfoEntry] /\ cached \in Requests \cup {None}
        /\ fifo \in [Requests -> FifoState] /\ req \in [Requests -> RequestState]
    BY DEF RequestType
  <1>2. \A q \in RequestState : [q EXCEPT !.calm = FALSE] \in RequestState
    BY DEF RequestState
  <1>3. /\ req' \in [Requests -> RequestState]
        /\ \A s \in Requests : /\ req'[s].pc = req[s].pc /\ req'[s].uid = req[s].uid /\ req'[s].ref = req[s].ref
                               /\ req'[s].cfg = req[s].cfg /\ req'[s].drop_cap = req[s].drop_cap
                               /\ ~req'[s].calm
    BY <1>1, <1>2 DEF RequestState
  <1>4. RequestType'
    BY <1>1, <1>3 DEF RequestType
  <1>5. EntriesBuilt' /\ LockHeld'
    BY <1>1, <1>3
  <1>6. AllAuthorised'
    BY <1>1, <1>3
  <1>7. PromptsAnswered'
    BY <1>1, <1>3 DEF Granting
  <1>8. GrantsSound'
    BY <1>1, <1>3
  <1>9. CalmIsQuiet' /\ RevokedStays'
    BY <1>3
  <1> QED BY <1>4, <1>5, <1>6, <1>7, <1>8, <1>9

\* The answer is kept for the next time.
LEMMA SaveSteps ==
    ASSUME RequestInv, NEW r \in Requests, SaveAnswer(r)
    PROVE  RequestInv'
  <1>1. RequestType /\ PromptsAnswered /\ AllAuthorised
    BY DEF RequestInv
  <1> DEFINE a == app[r].answer
             u == infos[req[r].ref].eval_uid
  <1>2. AppStep(r, {"save"}, "gone", "none") /\ UNCHANGED <<cfg, mgrUsers, dbOk>>
    BY DEF SaveAnswer
  <1>3. /\ app' \in [Requests -> PromptState] /\ app[r].at = "save" /\ app'[r].at = "gone"
        /\ \A s \in Requests \ {r} : app'[s] = app[s]
    BY <1>1, <1>2, PromptFacts DEF RequestType
  <1>4. a \in {"Deny", "Allow", "Restrict"}
    BY <1>1, <1>3, FieldTypes DEF PromptsAnswered
  <1>5. \/ UNCHANGED <<policies, authorised>>
        \/ /\ policies' = [policies EXCEPT ![u] = [policy |-> a, talk |-> TRUE, live |-> TRUE]]
           /\ authorised' = IF a = "Deny" THEN authorised ELSE authorised \cup {u}
    BY DEF SaveAnswer
  <1>6. [policy |-> a, talk |-> TRUE, live |-> TRUE] \in PolicyRow
    BY <1>4 DEF PolicyRow, Granting
  <1>7. policies \in [Uids -> PolicyRow]
    BY <1>1 DEF RequestType, PolicyType
  <1>8. policies' \in [Uids -> PolicyRow]
    BY <1>5, <1>6, <1>7
  <1>9. PolicyType'
    BY <1>1, <1>2, <1>8 DEF PolicyType, RequestType
  <1>10. authorised \subseteq authorised'
    BY <1>5
  <1>11. ASSUME NEW v \in Uids, policies'[v].policy \in Granting PROVE v \in authorised'
    <2>1. policies[v].policy \in Granting => v \in authorised
      BY <1>1 DEF AllAuthorised
    <2>2. "Deny" \notin Granting
      BY DEF Granting
    <2>3. CASE policies' = policies
      BY <1>10, <1>11, <2>1, <2>3
    <2>4. CASE /\ policies' = [policies EXCEPT ![u] = [policy |-> a, talk |-> TRUE, live |-> TRUE]]
               /\ authorised' = IF a = "Deny" THEN authorised ELSE authorised \cup {u}
      <3>1. CASE v = u
        <4>1. policies'[v].policy = a
          BY <1>7, <2>4, <3>1
        <4> QED BY <1>11, <2>2, <2>4, <3>1, <4>1
      <3>2. CASE v # u
        BY <1>7, <1>10, <1>11, <2>1, <2>4, <3>2
      <3> QED BY <3>1, <3>2
    <2> QED BY <1>5, <2>3, <2>4
  <1>12. /\ req' = [s \in Requests |-> [req[s] EXCEPT !.calm = FALSE]]
         /\ UNCHANGED <<infos, cached, fifo>>
    BY DEF SaveAnswer
  <1>13. \A s \in Requests : app'[s] = app[s] \/ (app[s].at # "none" /\ app'[s].at = "gone")
    BY <1>3
  <1> QED BY <1>3, <1>9, <1>10, <1>11, <1>12, <1>13, EditSteps

\* Every step of a request, of the app, of the clock and of the user keeps the invariant.
LEMMA NextRequestInv ==
    ASSUME RequestInv, [NextRequests]_requestVars
    PROVE  RequestInv'
  <1>1. ASSUME NEW r \in Requests, RequestStep(r) PROVE RequestInv'
    BY <1>1, InfoSteps, AccessSteps DEF RequestStep
  <1>2. ASSUME NEW r \in Requests, Arrive(r) \/ ReadRequestFails(r) \/ GrowStale(r) PROVE RequestInv'
    BY <1>2, ArrivalSteps, StaleSteps
  <1>3. ASSUME NEW r \in Requests, AppSilent(r) \/ CancelTimer(r) \/ Respond(r) \/ AppWork(r) PROVE RequestInv'
    BY <1>3, DialogSteps, AnswerSteps, SaveSteps DEF AppWork
  <1>4. CASE EditPolicies
    <2>1. PolicyType
      BY DEF RequestInv, RequestType
    <2>2. /\ req' = [s \in Requests |-> [req[s] EXCEPT !.calm = FALSE]]
          /\ UNCHANGED <<infos, cached, fifo>> /\ UNCHANGED app
          /\ authorised' = authorised \cup {u \in Uids : policies'[u].policy \in {"Allow", "Restrict"}}
      BY <1>4 DEF EditPolicies
    <2>3. NextPolicy
      BY <1>4 DEF EditPolicies, NextPolicy
    <2>4. PolicyType'
      BY <2>1, <2>3, NextPolicyType
    <2>5. /\ authorised \subseteq authorised'
          /\ \A u \in Uids : policies'[u].policy \in Granting => u \in authorised'
      BY <2>2 DEF Granting
    <2>6. app' \in [Requests -> PromptState]
      BY <2>2 DEF RequestInv, RequestType
    <2> QED BY <2>2, <2>4, <2>5, <2>6, EditSteps
  <1>5. CASE UNCHANGED requestVars
    <2>1. UNCHANGED <<policyVars, infos, cached, req, authorised>> /\ UNCHANGED <<fifo, app>>
      BY <1>5 DEF requestVars, suVars
    <2>2. /\ PolicyType' /\ EntriesBuilt' /\ LockHeld' /\ AllAuthorised' /\ RevokedStays' /\ CalmIsQuiet'
          /\ GrantsSound'
          /\ infos' \in [Requests -> InfoEntry] /\ cached' \in Requests \cup {None}
          /\ req' \in [Requests -> RequestState]
      BY <2>1, AppSteps
    <2>3. RequestType' /\ PromptsAnswered'
      BY <2>1, <2>2 DEF RequestInv, RequestType, PromptsAnswered, Mine
    <2> QED BY <2>2, <2>3 DEF RequestInv
  <1> QED BY <1>1, <1>2, <1>3, <1>4, <1>5 DEF NextRequests

\* At the start nobody asks, nothing is cached and nothing is granted.
LEMMA InitRequestInv == InitRequests => RequestInv
  <1> SUFFICES ASSUME InitRequests PROVE RequestInv
    OBVIOUS
  <1>1. PolicyType /\ \A u \in Uids : policies[u].policy = "none"
    BY RowsTyped, PolicyAssumption DEF InitRequests, InitPolicy, PolicyType, NoRow
  <1>2. /\ infos = [r \in Requests |-> NoEntry] /\ cached = None /\ req = [r \in Requests |-> Idle]
        /\ fifo = [r \in Requests |-> [path |-> FALSE, data |-> "none"]]
        /\ app = [r \in Requests |-> [at |-> "none", answer |-> "none"]]
    BY DEF InitRequests
  <1>3. NoEntry \in InfoEntry
    BY DEF NoEntry, InfoEntry, Verdicts
  <1>4. Idle \in RequestState
    BY DEF Idle, RequestState, RequestPcs, Unbuilt
  <1>5. [path |-> FALSE, data |-> "none"] \in FifoState /\ [at |-> "none", answer |-> "none"] \in PromptState
    BY DEF FifoState, PromptState
  <1>6. RequestType
    BY <1>1, <1>2, <1>3, <1>4, <1>5 DEF RequestType
  <1>7. \A r \in Requests : /\ req[r].pc = "idle" /\ req[r].uid = -1 /\ req[r].ref = None /\ ~req[r].calm
                            /\ app[r].at = "none" /\ fifo[r].data = "none"
    BY <1>2 DEF Idle
  <1>8. EntriesBuilt /\ LockHeld /\ CalmIsQuiet /\ RevokedStays
    BY <1>2, <1>7, RequestAssumption
    DEF EntriesBuilt, WithEntry, Locked, Unbuilt, LockHeld, CalmIsQuiet, RevokedStays, Quiet
  <1>9. AllAuthorised /\ PromptsAnswered
    BY <1>1, <1>2, <1>7 DEF AllAuthorised, PromptsAnswered, WithEntry, Locked, Granting
  <1>10. GrantsSound
    BY <1>7 DEF GrantsSound, GrantJustified, GrantMatchesPolicy, NoGrantAfterQuietRevoke, RequestAt
  <1> QED BY <1>6, <1>8, <1>9, <1>10 DEF RequestInv

\* A granted request was granted by somebody entitled to, with the policy that was decided,
\* and not on the strength of what was revoked before it came (su_daemon_handler): for any
\* number of requests, uids and rows, however requests, the shared entry, prompts, late
\* answers and edits of the tables interleave.
THEOREM GrantsSafe == SpecRequests => []GrantsSound
  <1>1. InitRequests => RequestInv
    BY InitRequestInv
  <1>2. RequestInv /\ [NextRequests]_requestVars => RequestInv'
    BY NextRequestInv
  <1>3. RequestInv => GrantsSound
    BY DEF RequestInv
  <1> QED BY <1>1, <1>2, <1>3, PTL DEF SpecRequests

-----------------------------------------------------------------------------
(* Pruning the policies of removed apps.  What a prune deletes depends on  *)
(* the list the walk has built, so the invariant follows the walk: each    *)
(* app of the snapshot is still to be looked at or in the list, and a      *)
(* complete walk has nothing left.                                         *)

\* Each app of the snapshot is ahead of the walk or in its list.
Covered ==
    \A d \in walk.snap : IsApp(d) => d \in walk.todo \/ to_app_id(d) \in walk.list

\* The list holds nothing but apps of the snapshot.
ListFromSnapshot ==
    \A n \in walk.list : \E d \in walk.snap : to_app_id(d) = n

TodoFromSnapshot == walk.todo \subseteq walk.snap

\* Deleting after a walk that was not cut short, all entries were looked at.
CompleteMeansAll == walk.pc = "delete" /\ walk.end = "complete" => walk.todo = {}

PruneInv == TypeOKPrune /\ Covered /\ ListFromSnapshot /\ TodoFromSnapshot /\ CompleteMeansAll

-----------------------------------------------------------------------------
\* An app id is a natural number, as is a user id.
LEMMA IdsAreNat == ASSUME NEW uid \in Nat PROVE to_app_id(uid) \in Nat /\ to_user_id(uid) \in Nat
BY DEF to_app_id, to_user_id, AID_USER_OFFSET

\* Ending the walk, and looking at an entry, gives a walk.
LEMMA EndsType ==
    ASSUME NEW w \in Walks, NEW e \in {"complete", "early"}
    PROVE  [w EXCEPT !.pc = "delete", !.end = e] \in Walks
BY DEF Walks

LEMMA LooksType ==
    ASSUME NEW w \in Walks, NEW t \in SUBSET DirUids, NEW u \in Nat, NEW l \in SUBSET Nat
    PROVE  [w EXCEPT !.todo = t, !.user = u, !.list = l] \in Walks
BY DEF Walks

\* No prune is under way at the start.
LEMMA InitPruneInv == InitPrune => PruneInv
BY DEF InitPrune, PruneInv, TypeOKPrune, Walks, Covered, ListFromSnapshot, TodoFromSnapshot, CompleteMeansAll, NoWalk

\* Looking at one entry keeps the invariant.
LEMMA StatKeeps ==
    ASSUME PruneInv, NEW d \in DirUids, StatEntry(d)
    PROVE  PruneInv'
<1> USE PruneAssumption DEF PruneInv
<1>1. /\ walk.pc = "walk" /\ d \in walk.todo
      /\ walk' = [walk EXCEPT !.todo = @ \ {d}, !.user = to_user_id(d),
                              !.list = @ \cup (IF IsApp(d) THEN {to_app_id(d)} ELSE {})]
      /\ UNCHANGED <<dirs, rows>>
  BY DEF StatEntry, NextEntry
<1>2. TypeOKPrune'
  <2>1. d \in Nat /\ to_user_id(d) \in Nat
    BY IdsAreNat
  <2>2. /\ walk.list \cup (IF IsApp(d) THEN {to_app_id(d)} ELSE {}) \in SUBSET Nat
        /\ \A n \in walk.list \cup (IF IsApp(d) THEN {to_app_id(d)} ELSE {}) :
              10000 <= n /\ n <= 19999
    <3>1. /\ to_app_id(d) \in Nat /\ walk.list \in SUBSET Nat
          /\ \A n \in walk.list : 10000 <= n /\ n <= 19999
      BY <2>1, IdsAreNat DEF TypeOKPrune, Walks
    <3> QED BY <3>1 DEF IsApp
  <2>3. walk' \in Walks
    <3>1. walk \in Walks /\ walk.todo \ {d} \in SUBSET DirUids
      BY DEF TypeOKPrune, Walks
    <3> DEFINE t == walk.todo \ {d}
               l == walk.list \cup (IF IsApp(d) THEN {to_app_id(d)} ELSE {})
    <3>2. walk' = [walk EXCEPT !.todo = t, !.user = to_user_id(d), !.list = l]
      BY <1>1, Zenon
    <3>3. t \in SUBSET DirUids /\ l \in SUBSET Nat
      BY <2>2, <3>1
    <3> HIDE DEF t, l, PruneInv
    <3> QED BY <2>1, <3>1, <3>2, <3>3, LooksType, Zenon
  <2>4. walk'.list = walk.list \cup (IF IsApp(d) THEN {to_app_id(d)} ELSE {})
    BY <1>1 DEF TypeOKPrune, Walks
  <2> QED BY <1>1, <2>2, <2>3, <2>4 DEF TypeOKPrune
<1>3. /\ walk'.snap = walk.snap /\ walk'.todo = walk.todo \ {d}
      /\ walk'.list = walk.list \cup (IF IsApp(d) THEN {to_app_id(d)} ELSE {})
      /\ walk'.pc = "walk"
  BY <1>1 DEF TypeOKPrune, Walks
<1>4. Covered'
  <2> SUFFICES ASSUME NEW e \in walk.snap, IsApp(e)
               PROVE  e \in walk.todo \ {d} \/ to_app_id(e) \in walk'.list
    BY <1>3 DEF Covered, IsApp, to_app_id
  <2>1. CASE e = d
    BY <2>1, <1>3
  <2>2. CASE e # d
    BY <2>2, <1>3 DEF Covered
  <2> QED BY <2>1, <2>2
<1>5. ListFromSnapshot'
  BY <1>1, <1>3 DEF ListFromSnapshot, TodoFromSnapshot, to_app_id
<1>6. TodoFromSnapshot' /\ CompleteMeansAll'
  BY <1>3 DEF TodoFromSnapshot, CompleteMeansAll
<1> QED BY <1>2, <1>4, <1>5, <1>6

\* Every step keeps the invariant.
LEMMA NextPruneInv == PruneInv /\ [NextPrune]_pruneVars => PruneInv'
<1> SUFFICES ASSUME PruneInv, [NextPrune]_pruneVars PROVE PruneInv'
  OBVIOUS
<1>1. ASSUME TypeOKPrune',
             \/ walk'.snap = walk.snap /\ walk'.todo = walk.todo /\ walk'.list = walk.list
             \/ walk'.snap = walk'.todo /\ walk'.list = {}
      PROVE  Covered' /\ ListFromSnapshot' /\ TodoFromSnapshot'
  BY <1>1 DEF PruneInv, Covered, ListFromSnapshot, TodoFromSnapshot, IsApp, to_app_id
<1>5. CASE \E d \in DirUids : StatEntry(d)
  <2>1. PICK d \in DirUids : StatEntry(d)
    BY <1>5
  <2> QED BY <2>1, StatKeeps
<1> USE PruneAssumption
<1>2. CASE SelectUids
  <2>1. TypeOKPrune'
    BY <1>2 DEF SelectUids, PruneInv, TypeOKPrune, Walks
  <2>2. /\ walk'.snap = walk'.todo /\ walk'.list = {}
        /\ CompleteMeansAll'
    BY <1>2 DEF SelectUids, PruneInv, TypeOKPrune, Walks, CompleteMeansAll
  <2> QED BY <1>1, <2>1, <2>2 DEF PruneInv
<1>3. CASE WalkEnds
  <2>1. TypeOKPrune'
    <3>1. walk' \in Walks
      <4>1. walk \in Walks /\ walk' = [walk EXCEPT !.pc = "delete", !.end = "complete"]
        BY <1>3 DEF WalkEnds, PruneInv, TypeOKPrune
      <4> QED BY <4>1, EndsType, Zenon
    <3> QED BY <1>3, <3>1 DEF WalkEnds, PruneInv, TypeOKPrune, Walks
  <2>2. /\ walk'.snap = walk.snap /\ walk'.todo = walk.todo /\ walk'.list = walk.list
        /\ CompleteMeansAll'
    BY <1>3 DEF WalkEnds, PruneInv, TypeOKPrune, Walks, CompleteMeansAll
  <2> QED BY <1>1, <2>1, <2>2 DEF PruneInv
<1>4. CASE PruneEnds
  <2>1. TypeOKPrune'
    BY <1>4 DEF PruneEnds, NoWalk, PruneInv, TypeOKPrune, Walks
  <2>2. /\ walk'.snap = walk'.todo /\ walk'.list = {}
        /\ CompleteMeansAll'
    BY <1>4 DEF PruneEnds, NoWalk, PruneInv, TypeOKPrune, Walks, CompleteMeansAll
  <2> QED BY <1>1, <2>1, <2>2 DEF PruneInv
<1>6. CASE \E d \in DirUids : StatFails(d)
  <2>1. TypeOKPrune'
    <3>1. walk' \in Walks
      <4>1. walk \in Walks /\ walk' = [walk EXCEPT !.pc = "delete", !.end = "early"]
        BY <1>6 DEF StatFails, PruneInv, TypeOKPrune
      <4> QED BY <4>1, EndsType, Zenon
    <3> QED BY <1>6, <3>1 DEF StatFails, PruneInv, TypeOKPrune, Walks
  <2>2. /\ walk'.snap = walk.snap /\ walk'.todo = walk.todo /\ walk'.list = walk.list
        /\ CompleteMeansAll'
    BY <1>6 DEF StatFails, PruneInv, TypeOKPrune, Walks, CompleteMeansAll
  <2> QED BY <1>1, <2>1, <2>2 DEF PruneInv
<1>7. CASE \/ \E d \in DirUids : Install(d) \/ Uninstall(d)
           \/ \E u \in RowUids : GivePolicy(u)
           \/ UNCHANGED pruneVars
  <2>1. UNCHANGED walk /\ dirs' \subseteq DirUids /\ rows' \subseteq RowUids
    <3>1. dirs \subseteq DirUids /\ rows \subseteq RowUids
      BY DEF PruneInv, TypeOKPrune
    <3> QED BY <1>7, <3>1 DEF Install, Uninstall, GivePolicy, pruneVars
  <2> QED BY <1>1, <2>1 DEF PruneInv, TypeOKPrune, CompleteMeansAll
<1>8. CASE \E u \in RowUids : DeleteRow(u)
  <2>1. TypeOKPrune'
    BY <1>8 DEF DeleteRow, PruneInv, TypeOKPrune, Walks
  <2>2. /\ walk'.snap = walk.snap /\ walk'.todo = walk.todo /\ walk'.list = walk.list
        /\ CompleteMeansAll'
    BY <1>8 DEF DeleteRow, PruneInv, TypeOKPrune, Walks, CompleteMeansAll
  <2> QED BY <1>1, <2>1, <2>2 DEF PruneInv
<1> QED BY <1>2, <1>3, <1>4, <1>5, <1>6, <1>7, <1>8 DEF NextPrune

\* The invariant holds throughout.
THEOREM PruneInvariance == SpecPrune => []PruneInv
BY InitPruneInv, NextPruneInv, PTL DEF SpecPrune

\* The tables and the walk keep their types: only app ids get into the list.
THEOREM PruneTypeCorrect == SpecPrune => []TypeOKPrune
BY PruneInvariance, PTL DEF PruneInv

-----------------------------------------------------------------------------
\* A step that deletes a policy is a DELETE of prune_su_access.
LEMMA OnlyPruneDeletes ==
    ASSUME NextPrune, NEW u \in rows \ rows'
    PROVE  walk.pc = "delete" /\ u \in RmUids
<1>1. ASSUME ~ \E v \in RowUids : DeleteRow(v)
      PROVE  rows \subseteq rows'
  BY <1>1 DEF NextPrune, SelectUids, WalkEnds, PruneEnds, StatEntry, StatFails, Install, Uninstall,
              GivePolicy
<1>2. PICK v \in RowUids : DeleteRow(v)
  BY <1>1
<1> QED BY <1>2 DEF DeleteRow

\* A prune takes no policy of a system uid, and if its walk was complete none
\* of an app that was installed when it began.
THEOREM SparesCorrect == SpecPrune => PruneSparesOthers
<1> DEFINE Spares == \A u \in Deleted :
                        /\ 10000 <= to_app_id(u) /\ to_app_id(u) <= 19999
                        /\ walk.end = "complete" =>
                              \A d \in walk.snap : to_app_id(d) # to_app_id(u)
<1>1. PruneInv /\ [NextPrune]_pruneVars => [Spares]_pruneVars
  <2> SUFFICES ASSUME PruneInv, NextPrune, NEW u \in Deleted
               PROVE  /\ 10000 <= to_app_id(u) /\ to_app_id(u) <= 19999
                      /\ walk.end = "complete" =>
                            \A d \in walk.snap : to_app_id(d) # to_app_id(u)
    BY DEF pruneVars
  <2>1. walk.pc = "delete" /\ IsApp(u) /\ to_app_id(u) \notin walk.list
    BY OnlyPruneDeletes DEF Deleted, RmUids
  <2>2. ASSUME walk.end = "complete", NEW d \in walk.snap, to_app_id(d) = to_app_id(u)
        PROVE  FALSE
    <3>1. IsApp(d)
      BY <2>1, <2>2 DEF IsApp
    <3>2. to_app_id(d) \in walk.list
      BY <3>1, <2>1, <2>2 DEF PruneInv, Covered, CompleteMeansAll
    <3> QED BY <3>2, <2>1, <2>2
  <2>3. 10000 <= to_app_id(u) /\ to_app_id(u) <= 19999
    BY <2>1 DEF IsApp
  <2> QED BY <2>2, <2>3
<1>2. SpecPrune => [][Spares]_pruneVars
  BY <1>1, PruneInvariance, PTL DEF SpecPrune
<1> QED BY <1>2 DEF PruneSparesOthers

\* A prune whose walk was complete leaves no policy it has seen for an app
\* without a data directory at its start.
THEOREM ForgetsCorrect == SpecPrune => CompletePruneForgets
<1> DEFINE Forgets == walk.pc = "delete" /\ walk'.pc = "idle" /\ walk.end = "complete" =>
                         \A u \in walk.uids : 10000 <= to_app_id(u) /\ to_app_id(u) <= 19999 =>
                             \E d \in walk.snap : to_app_id(d) = to_app_id(u)
<1>1. PruneInv /\ [NextPrune]_pruneVars => [Forgets]_pruneVars
  <2> SUFFICES ASSUME PruneInv, NextPrune, walk.pc = "delete", walk'.pc = "idle",
                      NEW u \in walk.uids, 10000 <= to_app_id(u) /\ to_app_id(u) <= 19999
               PROVE  \E d \in walk.snap : to_app_id(d) = to_app_id(u)
    BY DEF pruneVars
  <2>1. RmUids = {}
    BY DEF NextPrune, SelectUids, WalkEnds, PruneEnds, StatEntry, StatFails, Install, Uninstall,
           GivePolicy, DeleteRow, PruneInv, TypeOKPrune, Walks
  <2>2. to_app_id(u) \in walk.list
    BY <2>1 DEF RmUids, IsApp
  <2> QED BY <2>2 DEF PruneInv, ListFromSnapshot
<1>2. SpecPrune => [][Forgets]_pruneVars
  BY <1>1, PruneInvariance, PTL DEF SpecPrune
<1> QED BY <1>2 DEF CompletePruneForgets

-----------------------------------------------------------------------------
(* The look-up of the manager.  AnswerFollowsDatabase speaks of the name   *)
(* read at the start of a look-up and of what its last step returns,       *)
(* several steps later: the invariant has to say at each step in between   *)
(* that what is remembered agrees with the name read.                      *)

\* A tracked file that still is the same is trusted only under the name read.
TrackedUnderName ==
    At("tracked") /\ look.user \in same => look.db_pkg = repackaged.pkg

\* A stub is looked for under a name; the certificate in hand is the one seen
\* before if the name is.
StubInHand ==
    /\ look.pc \in {"stub", "trackStub"} => look.db_pkg \in Pkgs
    /\ At("trackStub") =>
          /\ look.cert # "none"
          /\ look.db_pkg = repackaged.pkg => look.cert = repackaged.cert

\* The dyn APK looked for is the one of the name read.
DynUnderName ==
    look.pc \in {"dyn", "trackDyn"} => look.db_pkg \in Pkgs /\ look.db_pkg = repackaged.pkg

\* A look-up under way has a user.
LookHasUser == look.pc # "idle" => look.user \in Users

LookupInv == TypeOK /\ TrackedUnderName /\ StubInHand /\ DynUnderName /\ LookHasUser

-----------------------------------------------------------------------------
\* The initial state satisfies the invariant.
LEMMA InitLookupInv == Init => LookupInv
<1> SUFFICES ASSUME Init PROVE LookupInv
  OBVIOUS
<1> USE ManagerAssumption DEF Init, Names, AllPkgs, Orig, Trusted, Steps
<1>1. /\ apk \in [AllPkgs -> Certs \cup {Trusted, "unsigned", "none"}]
      /\ dyn \in [Users -> [Pkgs -> Certs \cup {Trusted, "none"}]]
      /\ data \subseteq Users /\ db \in Names
      /\ repackaged \in [pkg : Names, cert : Certs \cup {Trusted, "none"}, app : Names]
      /\ repackaged.pkg = "none" <=> repackaged.cert = "none"
  OBVIOUS
<1>2. /\ tracked \in [Users -> [kind : {"none", "xml", "stub", "orig", "dyn"},
                               pkg : AllPkgs \cup {"none"}]]
      /\ same \subseteq Users
      /\ answer \in [app : AllPkgs \cup {"none"}, pkg : AllPkgs \cup {"none"}]
      /\ commands \subseteq {"install", "uninstall"} /\ changes \in 0..MaxChanges
  BY DEF NoFile, NoManager
<1>3. /\ look \in [pc : Steps, user : Users \cup {"none"}, db_pkg : Names, want : {{}, {"install"}},
                   cert : Certs \cup {Trusted, "none"}]
      /\ look.pc = "idle"
  BY DEF NoLook
<1> QED
  BY <1>1, <1>2, <1>3 DEF LookupInv, TypeOK, TrackedUnderName, StubInHand, DynUnderName, LookHasUser, At

\* What happens to packages and files between the steps of a look-up.
Environment ==
    \/ \E p \in AllPkgs : InstallPkg(p) \/ UninstallPkg(p)
    \/ \E u \in Users, p \in Pkgs : WriteDyn(u, p)
    \/ PmInstall \/ PmUninstall
    \/ \E p \in Pkgs \cup {"none"} : SetSuManager(p)

\* The environment leaves the look-up and what it remembers alone; tracked
\* files can only stop being the same.
LEMMA EnvironmentStep ==
    ASSUME TypeOK, Environment
    PROVE  /\ TypeOK'
           /\ UNCHANGED <<repackaged, look, answer>>
           /\ same' \subseteq same
<1> USE ManagerAssumption DEF TypeOK, Names, AllPkgs, Orig, Trusted, Steps
<1>2. CASE \E p \in AllPkgs : InstallPkg(p)
  BY <1>2 DEF InstallPkg, Stale, Touched, Change
<1>3. CASE \E p \in AllPkgs : UninstallPkg(p)
  BY <1>3 DEF UninstallPkg, Touched, Change
<1>4. CASE \E u \in Users, p \in Pkgs : WriteDyn(u, p)
  BY <1>4 DEF WriteDyn, Touched, Change
<1>5. CASE PmInstall
  BY <1>5 DEF PmInstall, trackedVars, Stale, Touched
<1>6. CASE PmUninstall
  BY <1>6 DEF PmUninstall, Stale, Touched
<1>7. CASE \E p \in Pkgs \cup {"none"} : SetSuManager(p)
  BY <1>7 DEF SetSuManager, Change, trackedVars
<1> QED BY <1>2, <1>3, <1>4, <1>5, <1>6, <1>7 DEF Environment

\* Every step of a look-up, and every change meanwhile, keeps the invariant.
LEMMA NextLookupInv == LookupInv /\ [Next]_vars => LookupInv'
<1> SUFFICES ASSUME LookupInv, [Next]_vars PROVE LookupInv'
  OBVIOUS
<1> USE ManagerAssumption
    DEF LookupInv, TypeOK, TrackedUnderName, StubInHand, DynUnderName, LookHasUser, At, Goto, Names,
        AllPkgs, Orig, Trusted, Steps, files, trackedVars
<1>1. CASE \E u \in Users, want \in {{}, {"install"}} : Begin(u, want)
  BY <1>1 DEF Begin, NoFile, DatabaseChanged
<1>2. CASE UseTracked
  BY <1>2 DEF UseTracked, NothingFound, Return, NoManager, NoLook, OrigManager
<1>3. CASE LookAgain
  <2>1. CASE look.db_pkg = "none"
    <3>1. /\ look' = [look EXCEPT !.pc = "orig"]
          /\ repackaged' = [repackaged EXCEPT !.pkg = "none", !.cert = "none"]
      BY <1>3, <2>1 DEF LookAgain, Forget
    <3> QED BY <1>3, <3>1 DEF LookAgain
  <2>2. CASE look.db_pkg # "none"
    <3>1. look' = [look EXCEPT !.pc = "stub"] /\ UNCHANGED repackaged
      BY <1>3, <2>2 DEF LookAgain
    <3> QED BY <1>3, <2>2, <3>1 DEF LookAgain
  <2> QED BY <2>1, <2>2
<1>4. CASE CheckStub
  BY <1>4, ZenonT(40) DEF CheckStub, RefusesStub
<1>5. CASE NoStub
  BY <1>5, ZenonT(40) DEF NoStub, Forget
<1>6. CASE TrackStub
  BY <1>6 DEF TrackStub, Track, NoFile
<1>7. CASE CheckDyn
  <2>1. CASE dyn[look.user][repackaged.pkg] = Trusted
    <3>1. /\ At("dyn") /\ look' = [look EXCEPT !.pc = "trackDyn"]
          /\ UNCHANGED <<files, repackaged, trackedVars, answer, commands, changes>>
      BY <1>7, <2>1 DEF CheckDyn
    <3> QED BY <3>1, ZenonT(40)
  <2>2. CASE dyn[look.user][repackaged.pkg] # Trusted
    BY <1>7, <2>2 DEF CheckDyn, Return, NoManager, NoLook
  <2> QED BY <2>1, <2>2
<1>8. CASE TrackDyn
  BY <1>8 DEF TrackDyn, Track, NoFile, Return, NoLook
<1>9. CASE CheckOrig
  BY <1>9 DEF CheckOrig
<1>10. CASE TrackOrig
  BY <1>10 DEF TrackOrig, Track, NoFile, Return, NoLook, OrigManager, NoManager
<1>11. CASE NoOrig
  BY <1>11 DEF NoOrig, Track, NothingFound, Return, NoLook, NoManager
<1>12. CASE Environment
  BY <1>12, EnvironmentStep
<1>13. CASE UNCHANGED vars
  BY <1>13 DEF vars
<1> QED
  BY <1>1, <1>2, <1>3, <1>4, <1>5, <1>6, <1>7, <1>8, <1>9, <1>10, <1>11, <1>12, <1>13
  DEF Next, Environment

\* The invariant holds throughout.
THEOREM LookupInvariance == Spec => []LookupInv
BY InitLookupInv, NextLookupInv, PTL DEF Spec

\* Packages, what is remembered and the look-up keep their types: a package
\* name is remembered exactly when a certificate is.
THEOREM LookupTypeCorrect == Spec => []TypeOK
BY LookupInvariance, PTL DEF LookupInv

-----------------------------------------------------------------------------
\* get_manager reports a repackaged manager only under the name the database
\* gave it, whatever other users' look-ups have remembered.
THEOREM AnswerCorrect == Spec => AnswerFollowsDatabase
<1> DEFINE Agrees == Returns => /\ answer'.pkg \in Pkgs => answer'.pkg = look.db_pkg
                                /\ answer'.pkg = Orig => look.db_pkg = "none" \/ At("trackOrig")
<1>1. LookupInv /\ [Next]_vars => [Agrees]_vars
  <2> SUFFICES ASSUME LookupInv, Next, Returns PROVE Agrees
    BY DEF vars
  <2> USE ManagerAssumption
      DEF LookupInv, TypeOK, TrackedUnderName, DynUnderName, LookHasUser, At, Goto, Returns, Names,
          AllPkgs, Orig, NoManager
  <2>1. CASE UseTracked
    BY <2>1 DEF UseTracked, NothingFound, Return, OrigManager
  <2>2. CASE CheckDyn
    BY <2>2 DEF CheckDyn, Return
  <2>3. CASE TrackDyn
    BY <2>3 DEF TrackDyn, Return
  <2>4. CASE TrackOrig
    BY <2>4 DEF TrackOrig, Return, OrigManager
  <2>5. CASE NoOrig
    BY <2>5 DEF NoOrig, NothingFound, Return
  <2>6. ASSUME \/ LookAgain \/ CheckStub \/ NoStub \/ TrackStub \/ CheckOrig
               \/ \E u \in Users, want \in {{}, {"install"}} : Begin(u, want)
        PROVE  look.pc = "idle" \/ look'.pc # "idle"
    BY <2>6, ZenonT(40) DEF LookAgain, CheckStub, NoStub, TrackStub, CheckOrig, Begin
  <2>7. Environment => UNCHANGED look
    BY EnvironmentStep
  <2> QED BY <2>1, <2>2, <2>3, <2>4, <2>5, <2>6, <2>7 DEF Next, Environment
<1>2. Spec => [][Agrees]_vars
  BY <1>1, LookupInvariance, PTL DEF Spec
<1> QED BY <1>2 DEF AnswerFollowsDatabase

\* check_stub never takes another certificate for the name it remembers.
THEOREM PinnedCorrect == Spec => CertificatePinned
<1> DEFINE Pinned == repackaged.pkg # "none" /\ repackaged'.pkg = repackaged.pkg
                        => repackaged'.cert = repackaged.cert
<1>1. LookupInv /\ [Next]_vars => [Pinned]_vars
  <2> SUFFICES ASSUME LookupInv, Next PROVE Pinned
    BY DEF vars
  <2> USE DEF LookupInv, TypeOK, StubInHand, At
  <2>1. CASE LookAgain
    BY <2>1 DEF LookAgain, Forget
  <2>2. CASE NoStub
    BY <2>2 DEF NoStub, Forget
  <2>3. CASE TrackStub
    BY <2>3 DEF TrackStub
  <2>4. CASE TrackDyn
    BY <2>4 DEF TrackDyn
  <2>5. ASSUME \/ UseTracked \/ CheckStub \/ CheckDyn \/ CheckOrig \/ TrackOrig \/ NoOrig
               \/ \E u \in Users, want \in {{}, {"install"}} : Begin(u, want)
        PROVE  UNCHANGED repackaged
    BY <2>5 DEF UseTracked, CheckStub, CheckDyn, CheckOrig, TrackOrig, NoOrig, Begin
  <2>6. Environment => UNCHANGED repackaged
    BY EnvironmentStep
  <2> QED BY <2>1, <2>2, <2>3, <2>4, <2>5, <2>6 DEF Next, Environment
<1>2. Spec => [][Pinned]_vars
  BY <1>1, LookupInvariance, PTL DEF Spec
<1> QED BY <1>2 DEF CertificatePinned
=============================================================================
