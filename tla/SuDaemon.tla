------------------------------ MODULE SuDaemon ------------------------------
(***************************************************************************)
(* A su request from its arrival to the daemon's answer                    *)
(* (core/su/daemon.rs, core/su/connect.rs), with the prompt the manager    *)
(* app shows for it (SuRequestHandler.kt, SuRequestViewModel.kt).          *)
(*                                                                         *)
(* Requests run in pool threads.  They share cached_su_info, one entry     *)
(* with a lock and three seconds of freshness, and the database of         *)
(* SuPolicy.  Each request builds at most one SuInfo, so entries are named *)
(* by the request that built them.                                         *)
(***************************************************************************)
EXTENDS SuPolicy

CONSTANTS
    Requests,  \* su clients
    None       \* no entry, no lock holder

ASSUME RequestAssumption == None \notin Requests

VARIABLES
    infos,       \* SuInfo by builder, with the access lock and its freshness
    cached,      \* cached_su_info; None is the default entry with uid -1
    req,         \* where each request is
    fifo,        \* the FIFO of a prompt: its path, and what was written to it
    app,         \* the prompt of a request in the manager app
    authorised   \* history: eval uids with a granting row or a granting answer

suVars == <<infos, cached, req, fifo, app, authorised>>
requestVars == <<policyVars, suVars>>

\* What the dialog can answer, of what the policies table can hold.
Answers == {row.policy : row \in Rows}
Entry(i) == [uid |-> i.uid, eval_uid |-> i.eval_uid, policy |-> i.policy,
             fresh |-> TRUE, owner |-> None]
NoEntry == [uid |-> -1, eval_uid |-> -1, policy |-> "Deny", fresh |-> FALSE, owner |-> None]
Idle == [pc |-> "idle", uid |-> -1, ref |-> None, cfg |-> "none",
         drop_cap |-> FALSE, calm |-> FALSE]

InitRequests ==
    /\ InitPolicy
    /\ infos = [r \in Requests |-> NoEntry]
    /\ cached = None
    /\ req = [r \in Requests |-> Idle]
    /\ fifo = [r \in Requests |-> [path |-> FALSE, data |-> "none"]]
    /\ app = [r \in Requests |-> [at |-> "none", answer |-> "none"]]
    /\ authorised = {}

RequestAt(r, l) == req[r].pc = l
RequestGoto(r, l) == req' = [req EXCEPT ![r].pc = l]
Mine(r) == infos[req[r].ref]

-----------------------------------------------------------------------------
(* get_su_info *)

\* No granting information about an app is around: its row denies, no fresh
\* entry is cached for it and no other request of it is under way.
Calm(uid) ==
    /\ to_app_id(uid) # ManagerApp
    /\ get_root_settings(EvalUid(cfg.multiuser_mode, uid)).policy = "Deny"
    /\ cached # None /\ infos[cached].uid = uid => ~infos[cached].fresh
    /\ \A s \in Requests : req[s].uid = uid => req[s].pc \in {"granted", "denied"}

\* A client connects.  Root is allowed without the cache or the database.
Arrive(r) ==
    /\ RequestAt(r, "idle")
    /\ \E uid \in Uids \cup {AID_ROOT} :
          IF uid = AID_ROOT
          THEN /\ req' = [req EXCEPT ![r] = [Idle EXCEPT !.pc = "access", !.uid = uid, !.ref = r]]
               /\ infos' = [infos EXCEPT ![r] = Entry(allow(AID_ROOT))]
          ELSE /\ req' = [req EXCEPT ![r] = [Idle EXCEPT !.pc = "load", !.uid = uid,
                                                         !.calm = Calm(uid)]]
               /\ UNCHANGED infos
    /\ UNCHANGED <<policyVars, cached, fifo, app, authorised>>

\* The client dies before its request is read: it is refused.
ReadRequestFails(r) ==
    /\ RequestAt(r, "idle")
    /\ RequestGoto(r, "denied")
    /\ UNCHANGED <<policyVars, infos, cached, fifo, app, authorised>>

\* Mutant: the uid of the cached entry is not compared.
LoadAnyCached(r) ==
    /\ RequestAt(r, "load")
    /\ req' = [req EXCEPT ![r].ref = cached, ![r].pc = IF cached # None THEN "check" ELSE "settings"]
    /\ UNCHANGED <<policyVars, infos, cached, fifo, app, authorised>>

\* cached_su_info.load() and the comparison of uids.
LoadCached(r) ==
    /\ RequestAt(r, "load")
    /\ req' = [req EXCEPT ![r].ref = cached,
                          ![r].pc = IF cached # None /\ infos[cached].uid = req[r].uid
                                    THEN "check" ELSE "settings"]
    /\ UNCHANGED <<policyVars, infos, cached, fifo, app, authorised>>

\* access.lock().is_fresh(): waits for the lock of the entry.
CheckFresh(r) ==
    /\ RequestAt(r, "check")
    /\ Mine(r).owner = None
    /\ RequestGoto(r, IF Mine(r).fresh THEN "access" ELSE "settings")
    /\ UNCHANGED <<policyVars, infos, cached, fifo, app, authorised>>

\* build_su_info reads the settings, then the row, in two queries.
ReadSettings(r) ==
    /\ RequestAt(r, "settings")
    /\ req' = [req EXCEPT ![r].pc = "row", ![r].cfg = cfg]
    /\ UNCHANGED <<policyVars, infos, cached, fifo, app, authorised>>

ReadRow(r) ==
    /\ RequestAt(r, "row")
    /\ infos' = [infos EXCEPT ![r] = Entry(SuInfoFrom(req[r].cfg, req[r].uid))]
    /\ req' = [req EXCEPT ![r].pc = "store", ![r].ref = r]
    /\ UNCHANGED <<policyVars, cached, fifo, app, authorised>>

StoreCached(r) ==
    /\ RequestAt(r, "store")
    /\ cached' = r
    /\ RequestGoto(r, "access")
    /\ UNCHANGED <<policyVars, infos, fifo, app, authorised>>

\* Three seconds pass since the entry was built or refreshed.
GrowStale(i) ==
    /\ infos[i].fresh
    /\ infos' = [infos EXCEPT ![i].fresh = FALSE]
    /\ UNCHANGED <<policyVars, cached, req, fifo, app, authorised>>

-----------------------------------------------------------------------------
(* su_daemon_handler with the access lock, and app_request *)

LockAccess(r) ==
    /\ RequestAt(r, "access")
    /\ Mine(r).owner = None
    /\ infos' = [infos EXCEPT ![req[r].ref].owner = r]
    /\ RequestGoto(r, IF Mine(r).policy = "Query" THEN "mkfifo" ELSE "decide")
    /\ UNCHANGED <<policyVars, cached, fifo, app, authorised>>

\* The FIFO is made and `am start` delivers the intent (retried until it does).
MakeFifo(r) ==
    /\ RequestAt(r, "mkfifo")
    /\ fifo' = [fifo EXCEPT ![r].path = TRUE]
    /\ app' = [app EXCEPT ![r].at = "intent"]
    /\ RequestGoto(r, "poll")
    /\ UNCHANGED <<policyVars, infos, cached, authorised>>

SetPolicy(r, p) == infos' = [infos EXCEPT ![req[r].ref].policy = p]

FifoFails(r) ==
    /\ RequestAt(r, "mkfifo")
    /\ SetPolicy(r, "Deny")
    /\ RequestGoto(r, "decide")
    /\ UNCHANGED <<policyVars, cached, fifo, app, authorised>>

\* poll reports input; the FIFO is removed and the answer read.
PollAnswer(r) ==
    /\ RequestAt(r, "poll")
    /\ fifo[r].data # "none"
    /\ fifo' = [fifo EXCEPT ![r].path = FALSE]
    /\ SetPolicy(r, fifo[r].data)
    /\ RequestGoto(r, "decide")
    /\ UNCHANGED <<policyVars, cached, app, authorised>>

\* poll returns 0 after 70 seconds, which is no error: the FIFO is removed and
\* the daemon reads from it all the same, without a timeout.
PollTimeout(r) ==
    /\ RequestAt(r, "poll")
    /\ fifo[r].data = "none"
    /\ fifo' = [fifo EXCEPT ![r].path = FALSE]
    /\ RequestGoto(r, "read")
    /\ UNCHANGED <<policyVars, infos, cached, app, authorised>>

ReadLateAnswer(r) ==
    /\ RequestAt(r, "read")
    /\ fifo[r].data # "none"
    /\ SetPolicy(r, fifo[r].data)
    /\ RequestGoto(r, "decide")
    /\ UNCHANGED <<policyVars, cached, fifo, app, authorised>>

\* Mutant: the lock of the entry is not released.
DecideKeepsLock(r) ==
    /\ RequestAt(r, "decide")
    /\ infos' = [infos EXCEPT ![req[r].ref].fresh = TRUE]
    /\ req' = [req EXCEPT ![r].pc = IF Mine(r).policy = "Deny" THEN "denied" ELSE "granted",
                          ![r].drop_cap = Mine(r).policy = "Restrict"]
    /\ UNCHANGED <<policyVars, cached, fifo, app, authorised>>

\* refresh(), the tests on the policy, and the end of the locked block.
Decide(r) ==
    /\ RequestAt(r, "decide")
    /\ infos' = [infos EXCEPT ![req[r].ref].fresh = TRUE, ![req[r].ref].owner = None]
    /\ req' = [req EXCEPT ![r].pc = IF Mine(r).policy = "Deny" THEN "denied" ELSE "granted",
                          ![r].drop_cap = Mine(r).policy = "Restrict"]
    /\ UNCHANGED <<policyVars, cached, fifo, app, authorised>>

-----------------------------------------------------------------------------
(* The manager app's side of a prompt *)

AppStep(r, from, to, answer) ==
    /\ app[r].at \in from
    /\ app' = [app EXCEPT ![r] = [at |-> to, answer |-> answer]]

\* start() returns false with no answer (unknown extras, an unwritable FIFO,
\* the original package name), or the app is killed.
AppSilent(r) ==
    /\ AppStep(r, {"intent", "dialog", "held", "open", "write"}, "gone", "none")
    /\ UNCHANGED <<policyVars, infos, cached, req, fifo, authorised>>

\* showDialog starts the timer.
ShowDialog(r) ==
    /\ AppStep(r, {"intent"}, "dialog", "none")
    /\ UNCHANGED <<policyVars, infos, cached, req, fifo, authorised>>

\* The spinner is touched, or grant waits for authentication: timer cancelled.
CancelTimer(r) ==
    /\ AppStep(r, {"dialog"}, "held", "none")
    /\ UNCHANGED <<policyVars, infos, cached, req, fifo, authorised>>

\* grant, deny, back, or an automatic response (suRestrict turns Allow into
\* Restrict).
Respond(r) ==
    /\ \E a \in Answers : AppStep(r, {"intent", "dialog", "held"}, "open", a)
    /\ UNCHANGED <<policyVars, infos, cached, req, fifo, authorised>>

TimerFinishes(r) ==
    /\ AppStep(r, {"dialog"}, "open", "Deny")
    /\ UNCHANGED <<policyVars, infos, cached, req, fifo, authorised>>

\* FileOutputStream(output): an IOException if the FIFO is gone already.
OpenFifo(r) ==
    /\ AppStep(r, {"open"}, IF fifo[r].path THEN "write" ELSE "save", app[r].answer)
    /\ UNCHANGED <<policyVars, infos, cached, req, fifo, authorised>>

WriteAnswer(r) ==
    /\ AppStep(r, {"write"}, "save", app[r].answer)
    /\ fifo' = [fifo EXCEPT ![r].data = app[r].answer]
    /\ authorised' = IF app[r].answer = "Deny" THEN authorised
                     ELSE authorised \cup {infos[req[r].ref].eval_uid}
    /\ UNCHANGED <<policyVars, infos, cached, req>>

\* policyDB.update unless the answer is for this once.
SaveAnswer(r) ==
    /\ AppStep(r, {"save"}, "gone", "none")
    /\ LET u == infos[req[r].ref].eval_uid
       IN  \/ UNCHANGED <<policies, authorised>>
           \/ /\ policies' = [policies EXCEPT ![u] = [policy |-> app[r].answer,
                                                      talk |-> TRUE, live |-> TRUE]]
              /\ authorised' = IF app[r].answer = "Deny" THEN authorised
                               ELSE authorised \cup {u}
    /\ UNCHANGED <<cfg, mgrUsers, dbOk, infos, cached, fifo>>
    /\ req' = [s \in Requests |-> [req[s] EXCEPT !.calm = FALSE]]

-----------------------------------------------------------------------------
\* The user edits policies and settings in the manager app meanwhile; the
\* app's list leaves its own uid out.
EditPolicies ==
    /\ \/ \E u \in Uids : to_app_id(u) # ManagerApp /\ (UpdatePolicy(u) \/ DeletePolicy(u))
       \/ SetConfig
       \/ DatabaseFails
    /\ authorised' = authorised \cup {u \in Uids : policies'[u].policy \in {"Allow", "Restrict"}}
    /\ req' = [s \in Requests |-> [req[s] EXCEPT !.calm = FALSE]]
    /\ UNCHANGED <<infos, cached, fifo, app>>

RequestStep(r) ==
    \/ LoadCached(r) \/ CheckFresh(r) \/ ReadSettings(r) \/ ReadRow(r) \/ StoreCached(r)
    \/ LockAccess(r) \/ MakeFifo(r) \/ FifoFails(r) \/ PollAnswer(r) \/ PollTimeout(r)
    \/ ReadLateAnswer(r) \/ Decide(r)

AppWork(r) == ShowDialog(r) \/ OpenFifo(r) \/ WriteAnswer(r) \/ SaveAnswer(r) \/ TimerFinishes(r)

NextRequests ==
    \/ \E r \in Requests :
          \/ Arrive(r) \/ ReadRequestFails(r) \/ RequestStep(r) \/ GrowStale(r)
          \/ AppSilent(r) \/ CancelTimer(r) \/ Respond(r) \/ AppWork(r)
    \/ EditPolicies

SpecRequests == InitRequests /\ [][NextRequests]_requestVars

\* Daemon threads and the app's coroutines run; poll's timeout and the
\* dialog's timer expire.  Nothing is assumed of the user.
FairSpecRequests ==
    /\ SpecRequests
    /\ \A r \in Requests : WF_requestVars(RequestStep(r)) /\ WF_requestVars(AppWork(r))

-----------------------------------------------------------------------------
(* Properties *)

\* No root out of nothing: a request is granted for root, for the manager, or
\* for a uid that had a granting row or a granting answer, never from the
\* entry of another uid.
GrantJustified ==
    \A r \in Requests : RequestAt(r, "granted") =>
        \/ req[r].uid = AID_ROOT
        \/ /\ Mine(r).uid = req[r].uid
           /\ \/ to_app_id(req[r].uid) = ManagerApp
              \/ Mine(r).eval_uid \in authorised

\* The answer a client gets is the policy of its entry: a grant never rests on
\* an undetermined or denying policy, and a restricted one drops capabilities.
GrantMatchesPolicy ==
    \A r \in Requests : RequestAt(r, "granted") =>
        Mine(r).policy = (IF req[r].drop_cap THEN "Restrict" ELSE "Allow")

\* Revocation works: a request that arrives when the row denies, with no fresh
\* cache and no other request of the uid, is refused while the tables stay.
NoGrantAfterQuietRevoke ==
    \A r \in Requests : req[r].calm => ~RequestAt(r, "granted")

\* Unless a poll times out, every request is answered: lock, cache and prompt
\* do not deadlock.
RepliedUnlessTimeout ==
    [](\A r \in Requests : ~RequestAt(r, "read"))
        => \A r \in Requests : RequestAt(r, "load") ~> req[r].pc \in {"granted", "denied"}

\* connect.rs says it waits "for data input for at most 70 seconds": so every
\* request is answered, whatever the app does.
EveryRequestReplied ==
    \A r \in Requests : RequestAt(r, "load") ~> req[r].pc \in {"granted", "denied"}

\* A granted request was granted by somebody entitled to, with the policy that was decided,
\* and not on the strength of what was revoked before it came (su_daemon_handler).
GrantsSound == GrantJustified /\ GrantMatchesPolicy /\ NoGrantAfterQuietRevoke

=============================================================================
