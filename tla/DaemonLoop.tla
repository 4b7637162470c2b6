----------------------------- MODULE DaemonLoop -----------------------------
(***************************************************************************)
(* The daemon's life and its requests (native/src/core/daemon.rs) as its   *)
(* clients meet them (the commands of magisk.rs, su, zygisk): a client     *)
(* connects, or forks a daemon and tries again; the daemon takes clients   *)
(* one at a time, checks them, serves the short requests itself and gives  *)
(* the others to the worker threads.  What a handler does is modelled with *)
(* the component it belongs to.                                            *)
(***************************************************************************)
EXTENDS Naturals, Sequences, FiniteSets

CONSTANTS
    Requests,    \* clients: [uid, zygote, valid, command]; valid: passes is_client
    InitOrder,   \* the clients init starts, each when the one before it has come back
    MaxDaemons   \* bound: daemons ever started

VARIABLES
    dmState,     \* daemons: "unborn", "starting", "listening", "gone"
    dmSocket,    \* the daemon the socket's file belongs to, 0: no such file
    dmQueue,     \* connections a daemon has not accepted
    dmNow,       \* the client whose request a daemon is reading, or NoClient
    dmTasks,     \* clients of a daemon given to the worker threads
    dmClient,    \* clients: "idle", "retry", "waiting", or how they came back
    dmSent,      \* clients whose request code is on its way
    dmAlive      \* clients that still run

daemonVars == <<dmState, dmSocket, dmQueue, dmNow, dmTasks, dmClient, dmSent, dmAlive>>

Clients == DOMAIN Requests
Daemons == 1..MaxDaemons
NoClient == "nobody"

RootOnly == {"POST_FS_DATA", "LATE_START", "BOOT_COMPLETE", "ZYGOTE_RESTART", "SQLITE_CMD",
             "DENYLIST", "STOP_DAEMON"}
Sync == {"CHECK_VERSION", "CHECK_VERSION_CODE", "START_DAEMON", "STOP_DAEMON"}

\* What the commands of magisk, and su and the zygisk loader, ask of the daemon: the code,
\* whether a daemon is made if there is none, and whether the client waits for more than
\* the daemon's consent.
Ask(code, create, waits) == [code |-> code, create |-> create, waits |-> waits]
CommandRequest == [
    version       |-> Ask("CHECK_VERSION", FALSE, TRUE),
    versionCode   |-> Ask("CHECK_VERSION_CODE", FALSE, TRUE),
    removeModules |-> Ask("REMOVE_MODULES", FALSE, TRUE),
    daemon        |-> Ask("START_DAEMON", TRUE, FALSE),
    stop          |-> Ask("STOP_DAEMON", FALSE, TRUE),
    postFsData    |-> Ask("POST_FS_DATA", TRUE, TRUE),
    service       |-> Ask("LATE_START", TRUE, FALSE),
    bootComplete  |-> Ask("BOOT_COMPLETE", FALSE, FALSE),
    zygoteRestart |-> Ask("ZYGOTE_RESTART", FALSE, FALSE),
    sqlite        |-> Ask("SQLITE_CMD", FALSE, TRUE),
    denylist      |-> Ask("DENYLIST", FALSE, TRUE),
    su            |-> Ask("SUPERUSER", FALSE, TRUE),
    zygisk        |-> Ask("ZYGISK", FALSE, TRUE)]
Asks(c) == CommandRequest[Requests[c].command]

\* How a client comes back: served, refused, or with the connection closed on it.
Back == {"served", "ROOT_REQUIRED", "ACCESS_DENIED", "error", "no daemon"}

\* init's exec waits for a command before it starts the next.
Started(c) ==
    \A i \in DOMAIN InitOrder : InitOrder[i] = c =>
        \A j \in 1..(i - 1) : dmClient[InitOrder[j]] \in Back

Listening == {d \in Daemons : dmState[d] = "listening" /\ dmSocket = d}

-----------------------------------------------------------------------------
(* connect_daemon *)

Enqueue(c, d) ==
    /\ dmQueue' = [dmQueue EXCEPT ![d] = Append(@, c)]
    /\ dmClient' = [dmClient EXCEPT ![c] = "waiting"]

Connect(c) ==
    /\ dmClient[c] = "idle" /\ c \in dmAlive /\ Started(c)
    /\ \/ \E d \in Listening : Enqueue(c, d) /\ UNCHANGED dmState
       \/ /\ Listening = {}
          /\ Asks(c).create /\ Requests[c].uid = 0
          /\ \E d \in Daemons :
                /\ dmState[d] = "unborn" /\ \A e \in 1..(d - 1) : dmState[e] # "unborn"
                /\ dmState' = [dmState EXCEPT ![d] = "starting"]
          /\ dmClient' = [dmClient EXCEPT ![c] = "retry"]
          /\ UNCHANGED dmQueue
       \/ /\ Listening = {}
          /\ ~(Asks(c).create /\ Requests[c].uid = 0)
          /\ dmClient' = [dmClient EXCEPT ![c] = "no daemon"]
          /\ UNCHANGED <<dmQueue, dmState>>
    /\ UNCHANGED <<dmSocket, dmNow, dmTasks, dmSent, dmAlive>>

\* Every 100 ms, until a daemon listens.
Retry(c) ==
    /\ dmClient[c] = "retry" /\ c \in dmAlive
    /\ \E d \in Listening : Enqueue(c, d)
    /\ UNCHANGED <<dmState, dmSocket, dmNow, dmTasks, dmSent, dmAlive>>

\* send_request: the code goes out as soon as the connection is there.
SendRequest(c) ==
    /\ dmClient[c] = "waiting" /\ c \in dmAlive \ dmSent
    /\ dmSent' = dmSent \cup {c}
    /\ UNCHANGED <<dmState, dmSocket, dmQueue, dmNow, dmTasks, dmClient, dmAlive>>

\* A client can be killed at any time; init kills none of its own.
Killed(c) ==
    /\ c \in dmAlive /\ dmClient[c] \notin Back
    /\ \A i \in DOMAIN InitOrder : InitOrder[i] # c
    /\ dmAlive' = dmAlive \ {c}
    /\ UNCHANGED <<dmState, dmSocket, dmQueue, dmNow, dmTasks, dmClient, dmSent>>

-----------------------------------------------------------------------------
(* daemon_entry *)

\* The old socket is removed and a new one bound; if that fails the daemon ends.
Bind(d, ok) ==
    /\ dmState[d] = "starting"
    /\ dmState' = [dmState EXCEPT ![d] = IF ok THEN "listening" ELSE "gone"]
    /\ dmSocket' = IF ok THEN d ELSE 0
    /\ UNCHANGED <<dmQueue, dmNow, dmTasks, dmClient, dmSent, dmAlive>>

Come(cs, how) ==
    [c \in Clients |-> IF c \in cs \cap dmAlive /\ dmClient[c] \notin Back THEN how ELSE dmClient[c]]

\* handle_requests up to the read of the code; a client that is gone has no credentials.
Accept(d) ==
    LET c == Head(dmQueue[d])
        r == Requests[c]
    IN /\ dmState[d] = "listening" /\ dmNow[d] = NoClient /\ dmQueue[d] # <<>>
       /\ dmQueue' = [dmQueue EXCEPT ![d] = Tail(@)]
       /\ IF r.uid # 0 /\ ~r.zygote /\ ~r.valid
          THEN dmClient' = Come({c}, "ACCESS_DENIED") /\ UNCHANGED dmNow
          ELSE dmNow' = [dmNow EXCEPT ![d] = c] /\ UNCHANGED dmClient
       /\ UNCHANGED <<dmState, dmSocket, dmTasks, dmSent, dmAlive>>

\* The permission checks.
Refusal(c) ==
    LET code == Asks(c).code
        r == Requests[c]
    IN CASE code \in RootOnly /\ r.uid # 0 -> "ROOT_REQUIRED"
         [] code = "REMOVE_MODULES" /\ r.uid \notin {0, 2000} -> "ACCESS_DENIED"
         [] code = "ZYGISK" /\ ~r.zygote -> "ACCESS_DENIED"
         [] OTHER -> "OK"

\* exit: every connection the daemon has is closed.
Connections(d) == {dmQueue[d][i] : i \in DOMAIN dmQueue[d]} \cup dmTasks[d]

Exit(d) ==
    /\ dmState' = [dmState EXCEPT ![d] = "gone"]
    /\ dmQueue' = [dmQueue EXCEPT ![d] = <<>>]
    /\ dmTasks' = [dmTasks EXCEPT ![d] = {}]
    /\ dmNow' = [dmNow EXCEPT ![d] = NoClient]

\* Mutant: the end of a client that sent nothing is not noticed.
HandleRequestDeaf(d) ==
    LET c == dmNow[d] IN
    /\ c # NoClient /\ c \in dmSent
    /\ dmNow' = [dmNow EXCEPT ![d] = NoClient]
    /\ dmClient' = Come({c}, IF Refusal(c) # "OK" THEN Refusal(c) ELSE "served")
    /\ UNCHANGED <<dmState, dmSocket, dmQueue, dmTasks, dmSent, dmAlive>>

\* A request that came, or the end of a client that sent none: its code is read as -1.  The
\* short requests are served here, the others in a worker thread.
HandleRequest(d) ==
    LET c == dmNow[d]
        a == Asks(c)
        accepted == c \in dmSent \cap dmAlive /\ Refusal(c) = "OK"
    IN /\ c # NoClient
       /\ c \in dmSent \/ c \notin dmAlive
       /\ \/ /\ ~accepted        \* refused, or gone: the answer cannot be written
             /\ dmClient' = Come({c}, Refusal(c))
             /\ dmNow' = [dmNow EXCEPT ![d] = NoClient]
             /\ UNCHANGED <<dmState, dmQueue, dmTasks>>
          \/ /\ accepted /\ a.code = "STOP_DAEMON"
             /\ dmClient' = [Come(Connections(d), "error") EXCEPT ![c] = "served"]
             /\ Exit(d)
          \/ /\ accepted /\ a.code \in Sync \ {"STOP_DAEMON"}
             /\ dmClient' = Come({c}, "served")
             /\ dmNow' = [dmNow EXCEPT ![d] = NoClient]
             /\ UNCHANGED <<dmState, dmQueue, dmTasks>>
          \/ /\ accepted /\ a.code \notin Sync
             /\ dmTasks' = [dmTasks EXCEPT ![d] = @ \cup {c}]
             /\ dmClient' = IF a.waits THEN dmClient ELSE Come({c}, "served")
             /\ dmNow' = [dmNow EXCEPT ![d] = NoClient]
             /\ UNCHANGED <<dmState, dmQueue>>
       /\ UNCHANGED <<dmSocket, dmSent, dmAlive>>

\* magisk --post-fs-data waits POST_FS_DATA_WAIT_TIME and no longer.
WaitTimesOut(c) ==
    /\ Asks(c).code = "POST_FS_DATA" /\ c \in dmAlive
    /\ dmClient[c] = "waiting" /\ \E d \in Daemons : c \in dmTasks[d]
    /\ dmClient' = Come({c}, "served")
    /\ UNCHANGED <<dmState, dmSocket, dmQueue, dmNow, dmTasks, dmSent, dmAlive>>

\* handle_request_async and boot_stage_handler, in a worker thread.
RunTask(d) ==
    \E c \in dmTasks[d] :
        /\ dmState[d] = "listening"
        /\ dmTasks' = [dmTasks EXCEPT ![d] = @ \ {c}]
        /\ dmClient' = Come({c}, "served")
        /\ UNCHANGED <<dmState, dmSocket, dmQueue, dmNow, dmSent, dmAlive>>

\* accept fails: exit(1).
AcceptFails(d) ==
    /\ dmState[d] = "listening" /\ dmNow[d] = NoClient
    /\ dmClient' = Come(Connections(d), "error")
    /\ Exit(d)
    /\ UNCHANGED <<dmSocket, dmSent, dmAlive>>

-----------------------------------------------------------------------------

InitDaemon ==
    /\ dmState = [d \in Daemons |-> "unborn"]
    /\ dmSocket = 0
    /\ dmQueue = [d \in Daemons |-> <<>>]
    /\ dmNow = [d \in Daemons |-> NoClient]
    /\ dmTasks = [d \in Daemons |-> {}]
    /\ dmClient = [c \in Clients |-> "idle"]
    /\ dmSent = {}
    /\ dmAlive = Clients

NextDaemon ==
    \/ \E c \in Clients : Connect(c) \/ Retry(c) \/ SendRequest(c) \/ WaitTimesOut(c) \/ Killed(c)
    \/ \E d \in Daemons : \/ \E ok \in BOOLEAN : Bind(d, ok)
                          \/ Accept(d) \/ HandleRequest(d) \/ RunTask(d) \/ AcceptFails(d)

\* Clients and the daemon are scheduled; a handler comes to its end; a client's code is
\* written right after it has connected.
DaemonFairness ==
    /\ \A c \in Clients : WF_daemonVars(Retry(c)) /\ WF_daemonVars(SendRequest(c))
    /\ \A d \in Daemons : /\ WF_daemonVars(Bind(d, TRUE))
                          /\ WF_daemonVars(Accept(d)) /\ WF_daemonVars(HandleRequest(d))
                          /\ WF_daemonVars(RunTask(d))

SpecDaemon == InitDaemon /\ [][NextDaemon]_daemonVars /\ DaemonFairness

-----------------------------------------------------------------------------
(* Properties *)

\* However clients are killed, refused and queued behind each other, and whenever the
\* daemon stops, a client that has connected comes back, with its answer or with an error:
\* as each connects once, in the end none is left waiting (connect_daemon, handle_requests).
EveryClientComesBack == <>[](\A c \in dmAlive : dmClient[c] # "waiting")
=============================================================================
