------------------------- MODULE DaemonStateProofs -------------------------
(***************************************************************************)
(* Proofs about what magiskd keeps in memory beside a copy outside of it:  *)
(* the loader in the native bridge property (ZygiskState) and the deny     *)
(* list with its table and its switch (DenyList), for any number of        *)
(* clients, threads, packages and restarts.                                *)
(***************************************************************************)
EXTENDS ZygiskState, DenyList, SequenceTheorems, TLAPS

-----------------------------------------------------------------------------
(* The native bridge property *)

\* The values of the property without the loader and with it.
PlainProps == {<<>>, <<"0">>, <<"nb.so">>}
LoaderProps == {<<"libzygisk.so">>, <<"libzygisk.so", "nb.so">>}

\* The name in memory is the property's whenever a loader is in it, and there is none once
\* the starts have been too many; zygisk starts counting at one.
LoaderInv ==
    /\ \/ lib_name = <<>> /\ nbprop \in PlainProps
       \/ lib_name = nbprop /\ nbprop \in LoaderProps
    /\ start_count \in Nat
    /\ start_count > 3 => lib_name = <<>>
    /\ daemon = "new" => start_count = 1

\* The loader's name put before the device's own bridge.
LEMMA TwoParts == <<"libzygisk.so">> \o <<"nb.so">> = <<"libzygisk.so", "nb.so">>
  <1> DEFINE s == <<"libzygisk.so">>  t == <<"nb.so">>  both == <<"libzygisk.so", "nb.so">>
         S == {"libzygisk.so", "nb.so"}
  <1>1. s \in Seq(S) /\ t \in Seq(S) /\ both \in Seq(S)
    OBVIOUS
  <1>2. Len(s) = 1 /\ Len(t) = 1 /\ Len(both) = 2 /\ s[1] = both[1] /\ t[1] = both[2]
    OBVIOUS
  <1> HIDE DEF s, t, both, S
  <1>3. /\ s \o t \in Seq(S) /\ Len(s \o t) = 2
        /\ \A i \in 1..2 : (s \o t)[i] = both[i]
    <2>1. /\ s \o t \in Seq(S) /\ Len(s \o t) = Len(s) + Len(t)
          /\ \A i \in 1 .. Len(s) + Len(t) : (s \o t)[i] = IF i <= Len(s) THEN s[i] ELSE t[i - Len(s)]
      BY <1>1, ConcatProperties
    <2>2. (s \o t)[1] = s[1] /\ (s \o t)[2] = t[1]
      BY <1>2, <2>1
    <2>3. \A i \in 1..2 : i = 1 \/ i = 2
      OBVIOUS
    <2> QED BY <1>2, <2>1, <2>2, <2>3
  <1>4. s \o t = both
    BY <1>1, <1>2, <1>3, SeqEqual
  <1> QED BY <1>4 DEF s, t, both

\* What setting the property does.
LEMMA PropSet ==
    ASSUME LoaderInv, SetProp
    PROVE  lib_name' = nbprop' /\ nbprop' \in LoaderProps
  <1>1. CASE lib_name # <<>>
    BY <1>1 DEF LoaderInv, SetProp
  <1>2. CASE lib_name = <<>>
    <2>1. nbprop \in PlainProps
      <3>1. <<>> \notin LoaderProps
        BY DEF LoaderProps
      <3> QED BY <1>2, <3>1 DEF LoaderInv
    <2>2. nbprop' = lib_name'
      BY <1>2 DEF SetProp
    <2>3. lib_name' = IF nbprop = <<>> \/ nbprop = Zero THEN <<"libzygisk.so">> ELSE <<"libzygisk.so">> \o nbprop
      BY <1>2 DEF SetProp, ZYGISKLDR
    <2>4. CASE nbprop \in {<<>>, <<"0">>}
      BY <2>2, <2>3, <2>4 DEF Zero, LoaderProps
    <2>5. CASE nbprop = <<"nb.so">>
      <3>1. <<"nb.so">> # <<>> /\ <<"nb.so">> # <<"0">>
        OBVIOUS
      <3>2. <<"libzygisk.so">> \o <<"nb.so">> = <<"libzygisk.so", "nb.so">>
        BY TwoParts
      <3> QED BY <2>2, <2>3, <2>5, <3>1, <3>2 DEF Zero, LoaderProps
    <2> QED BY <2>1, <2>2, <2>4, <2>5 DEF PlainProps
  <1> QED BY <1>1, <1>2

\* What taking it back does.
LEMMA PropRestored ==
    ASSUME LoaderInv, RestoreProp
    PROVE  lib_name' = <<>> /\ nbprop' \in PlainProps
  <1>1. lib_name' = <<>> /\ nbprop' = IF Len(lib_name) > 1 THEN Tail(lib_name) ELSE Zero
    BY DEF RestoreProp
  <1>2. lib_name \in {<<>>, <<"libzygisk.so">>, <<"libzygisk.so", "nb.so">>}
    BY DEF LoaderInv, LoaderProps
  <1>3. CASE lib_name = <<"libzygisk.so", "nb.so">>
    <2>1. Tail(lib_name) = <<"nb.so">>
      BY <1>3
    <2> QED BY <1>1, <2>1 DEF PlainProps, Zero
  <1>4. CASE lib_name \in {<<>>, <<"libzygisk.so">>}
    <2>1. ~(Len(lib_name) > 1)
      <3>1. Len(<<>>) = 0 /\ Len(<<"libzygisk.so">>) = 1
        OBVIOUS
      <3>2. CASE lib_name = <<>>
        BY <3>1, <3>2
      <3>3. CASE lib_name = <<"libzygisk.so">>
        BY <3>1, <3>3
      <3> QED BY <1>4, <3>2, <3>3
    <2> QED BY <1>1, <2>1 DEF PlainProps, Zero
  <1> QED BY <1>1, <1>2, <1>3, <1>4

LEMMA NextLoaderInv ==
    ASSUME LoaderInv, [NextZygisk]_zygiskVars
    PROVE  LoaderInv'
  <1>1. CASE ZygiskPostFsData
    <2>1. start_count' = start_count /\ start_count = 1 /\ daemon' = "up"
      BY <1>1 DEF ZygiskPostFsData, LoaderInv
    <2>2. SetProp \/ UNCHANGED <<lib_name, nbprop>>
      BY <1>1 DEF ZygiskPostFsData
    <2> QED BY <2>1, <2>2, PropSet DEF LoaderInv
  <1>2. CASE ZygoteRestartRequest
    <2>1. daemon' = daemon /\ daemon # "new"
      BY <1>2 DEF ZygoteRestartRequest
    <2>2. CASE ResetAfterRestart
      <3>1. start_count' = start_count + 1 /\ start_count' \in Nat
        BY <2>2 DEF ResetAfterRestart, LoaderInv
      <3>2. CASE start_count' > 3
        <4>1. RestoreProp
          BY <2>2, <3>2 DEF ResetAfterRestart, TooMany
        <4> QED BY <2>1, <3>1, <4>1, PropRestored DEF LoaderInv
      <3>3. CASE ~(start_count' > 3)
        <4>1. SetProp
          BY <2>2, <3>3 DEF ResetAfterRestart, TooMany
        <4> QED BY <2>1, <3>1, <3>3, <4>1, PropSet DEF LoaderInv
      <3> QED BY <3>2, <3>3
    <2>3. CASE UNCHANGED <<stateVars, nbprop, zygiskd>>
      BY <2>1, <2>3 DEF LoaderInv, stateVars
    <2> QED BY <1>2, <2>2, <2>3 DEF ZygoteRestartRequest
  <1>3. CASE BootCompleteRequest
    <2>1. daemon' = daemon /\ daemon # "new"
      BY <1>3 DEF BootCompleteRequest
    <2>2. CASE ResetAfterBoot
      BY <2>1, <2>2, PropRestored DEF ResetAfterBoot, LoaderInv
    <2>3. CASE UNCHANGED <<stateVars, nbprop, zygiskd>>
      BY <2>1, <2>3 DEF LoaderInv, stateVars
    <2> QED BY <1>3, <2>2, <2>3 DEF BootCompleteRequest
  <1>4. CASE StopDaemon
    BY <1>4, PropRestored DEF StopDaemon, LoaderInv
  <1>5. CASE StopRequest
    BY <1>5 DEF StopRequest, stateVars, LoaderInv
  <1>6. ASSUME UNCHANGED <<nbprop, lib_name, start_count, daemon>> PROVE LoaderInv'
    BY <1>6 DEF LoaderInv
  <1>7. CASE \E c \in Clients : Connect(c) \/ Acquire(c)
    BY <1>6, <1>7 DEF Connect, Acquire, stateVars
  <1>8. CASE HolderStep
    BY <1>6, <1>8 DEF HolderStep, ReadFails, UseSocket, ForkZygiskd, AckReceived, AckFails, stateVars
  <1>9. CASE \E b \in BOOLEAN : ZygiskdReady(b) \/ ZygiskdDies(b)
    BY <1>6, <1>9 DEF ZygiskdReady, ZygiskdDies, stateVars
  <1>10. CASE ZygoteStarts \/ ZygoteDies \/ InjectionDies \/ SystemBoots
    BY <1>6, <1>10 DEF ZygoteStarts, ZygoteDies, InjectionDies, ZygoteGone, SystemBoots, stateVars
  <1>11. CASE UNCHANGED zygiskVars
    BY <1>6, <1>11 DEF zygiskVars, stateVars
  <1> QED
    BY <1>1, <1>2, <1>3, <1>4, <1>5, <1>7, <1>8, <1>9, <1>10, <1>11 DEF NextZygisk

\* The loader in the native bridge property is never out of hand, whatever the order in
\* which zygote dies, boots complete, companions come and go and the daemon stops (set_prop,
\* restore_prop, reset).
THEOREM LoaderSafe == SpecZygisk => []LoaderInHand
  <1>1. InitZygisk => LoaderInv
    <2>1. 1 \in Nat /\ ~(1 > 3)
      OBVIOUS
    <2> QED BY <2>1, ZygiskAssumption DEF InitZygisk, LoaderInv, PlainProps, Zero
  <1>2. LoaderInv /\ [NextZygisk]_zygiskVars => LoaderInv'
    BY NextLoaderInv
  <1>3. LoaderInv => LoaderInHand
    <2> SUFFICES ASSUME LoaderInv PROVE LoaderInHand
      OBVIOUS
    <2>1. \A p \in PlainProps : ~Loads(p)
      BY DEF PlainProps, Loads, ZYGISKLDR
    <2>2. \A p \in LoaderProps : Loads(p) /\ p # <<>>
      BY DEF LoaderProps, Loads, ZYGISKLDR
    <2> QED BY <2>1, <2>2 DEF LoaderInv, LoaderInHand, LoaderAccountedFor, RolledBackAfterCrashes
  <1> QED BY <1>1, <1>2, <1>3, PTL DEF SpecZygisk

-----------------------------------------------------------------------------
(* The deny list *)

DenySteps == {"idle", "wait", "inside", "insert", "delete", "disable", "setOn", "setOff"}

\* Only an add is inserted, it names its process, and only a loaded list is changed.
DenyType ==
    /\ denyPc \in [Threads -> DenySteps] /\ req \in [Threads -> Requests]
    /\ \A t \in Threads : req[t].kind = "add" => req[t].proc # AllProcs
    /\ \A t \in Threads : denyPc[t] = "insert" => req[t].kind = "add"
    /\ \A t \in Threads : denyPc[t] \in {"insert", "delete"} => loaded
    /\ logcats \in Nat /\ leaving \in Nat /\ installs \in Nat

\* A pending statement is about to bring the table to where the list is, and no other one
\* about the same entry is pending; without one they agree.
TableFollows ==
    loaded => \A e \in ListEntries \ unsure :
        /\ \A t \in Threads : e \in PendingOf(t) => (denyPc[t] = "insert" <=> e \in pkg_to_procs)
        /\ \A t, u \in Threads : e \in PendingOf(t) /\ e \in PendingOf(u) => t = u
        /\ (\A t \in Threads : e \notin PendingOf(t)) => (e \in pkg_to_procs <=> e \in denyRows)

\* The types of requests, kept by every step.
LEMMA NextDenyType ==
    ASSUME DenyType, [NextDeny]_denyVars
    PROVE  DenyType'
  <1> USE DEF DenyType, DenySteps
  <1>1. ASSUME NEW t \in Threads, NEW r \in Requests, BeginRequest(t, r) PROVE DenyType'
    BY <1>1 DEF BeginRequest, memoryVars, switchVars
  <1>2. ASSUME NEW t \in Threads, Enter(t) \/ LeaveUndone(t) \/ ExecSql(t) \/ DisableDeny(t) \/ SetDenyConfig(t)
        PROVE  DenyType'
    BY <1>2 DEF Enter, LeaveUndone, ExecSql, DisableDeny, SetDenyConfig, GotoStep, memoryVars, switchVars, boundVars
  <1>3. ASSUME NEW t \in Threads, EnsureData(t) \/ AddToList(t) \/ RmFromList(t) \/ Scan(t) PROVE DenyType'
    BY <1>3 DEF EnsureData, AddToList, RmFromList, Scan, GotoStep, switchVars, boundVars
  <1>4. ASSUME NEW t \in Threads, EnableDeny(t) PROVE DenyType'
    BY <1>4 DEF EnableDeny, StartLogcat, GotoStep, memoryVars, boundVars
  <1>5. CASE LogcatSeesOff \/ LogcatEnds
    BY <1>5 DEF LogcatSeesOff, LogcatEnds, memoryVars, boundVars
  <1>6. ASSUME NEW p \in Packages, ChangeApp(p) PROVE DenyType'
    BY <1>6 DEF ChangeApp, memoryVars, switchVars
  <1>7. CASE UNCHANGED denyVars
    BY <1>7 DEF denyVars, memoryVars, switchVars, boundVars
  <1> QED BY <1>1, <1>2, <1>3, <1>4, <1>5, <1>6, <1>7 DEF NextDeny, ThreadStep

\* A step that touches neither list nor table, and no pending statement.
LEMMA NothingListed ==
    ASSUME TableFollows, UNCHANGED <<loaded, pkg_to_procs, denyRows>>, unsure \subseteq unsure',
           \A u \in Threads : /\ PendingOf(u)' = PendingOf(u)
                              /\ (denyPc'[u] = "insert" <=> denyPc[u] = "insert")
    PROVE  TableFollows'
  BY DEF TableFollows, ListEntries

\* The same, for a step of one thread that is not at a statement before or after.
LEMMA NoStatement ==
    ASSUME TableFollows, DenyType, UNCHANGED <<loaded, pkg_to_procs, denyRows>>, unsure \subseteq unsure',
           NEW t \in Threads, denyPc[t] \notin {"insert", "delete"}, denyPc'[t] \notin {"insert", "delete"},
           \A u \in Threads \ {t} : denyPc'[u] = denyPc[u] /\ req'[u] = req[u]
    PROVE  TableFollows'
  <1>1. \A u \in Threads : PendingOf(u)' = PendingOf(u) /\ (denyPc'[u] = "insert" <=> denyPc[u] = "insert")
    BY DEF PendingOf, About
  <1> QED BY <1>1, NothingListed

\* What is pending when one thread comes to a statement, or is through with it.
LEMMA PendingFacts ==
    ASSUME DenyType, NEW t \in Threads, NEW l \in DenySteps, GotoStep(t, l), UNCHANGED req
    PROVE  /\ denyPc'[t] = l
           /\ \A u \in Threads \ {t} : denyPc'[u] = denyPc[u] /\ PendingOf(u)' = PendingOf(u)
           /\ PendingOf(t)' = IF l \in {"insert", "delete"} THEN About(req[t]) ELSE {}
  BY DEF DenyType, GotoStep, PendingOf, About

\* The list and its table, step by step.
LEMMA NextTableFollows ==
    ASSUME DenyType, TableFollows, [NextDeny]_denyVars
    PROVE  TableFollows'
  <1>1. ASSUME NEW t \in Threads, NEW r \in Requests, BeginRequest(t, r) PROVE TableFollows'
    BY <1>1, NoStatement DEF BeginRequest, memoryVars, historyVars, DenyType
  <1>2. ASSUME NEW t \in Threads, Enter(t) \/ LeaveUndone(t) PROVE TableFollows'
    BY <1>2, NoStatement DEF Enter, LeaveUndone, GotoStep, memoryVars, historyVars, DenyType
  <1>3. ASSUME NEW t \in Threads, EnableDeny(t) \/ DisableDeny(t) \/ SetDenyConfig(t) PROVE TableFollows'
    BY <1>3, NoStatement DEF EnableDeny, DisableDeny, SetDenyConfig, GotoStep, memoryVars, DenyType
  <1>4. ASSUME NEW t \in Threads, EnsureData(t) PROVE TableFollows'
    <2>1. /\ ~loaded /\ UNCHANGED <<denyPc, req>> /\ pkg_to_procs' = denyRows \ Dropped(denyRows)
          /\ \/ denyRows' = denyRows \ Dropped(denyRows)
             \/ unsure' = unsure \cup Dropped(denyRows) /\ denyRows' = denyRows
      BY <1>4 DEF EnsureData
    <2>2. \A u \in Threads : PendingOf(u)' = {}
      BY <2>1 DEF DenyType, PendingOf
    <2> QED BY <2>1, <2>2 DEF TableFollows, ListEntries
  <1>5. ASSUME NEW t \in Threads, AddToList(t) PROVE TableFollows'
    <2> DEFINE e == <<req[t].pkg, req[t].proc>>
    <2>1. /\ pkg_to_procs' = pkg_to_procs \cup {e} /\ UNCHANGED <<loaded, denyRows, req>> /\ loaded
          /\ unsure' = unsure \cup ({e} \cap PendingOthers(t)) /\ GotoStep(t, "insert") /\ denyPc[t] = "inside"
          /\ req[t].kind = "add"
      BY <1>5 DEF AddToList
    <2>2. About(req[t]) \subseteq {e}
      <3>1. req[t].proc # AllProcs
        BY <2>1 DEF DenyType
      <3>2. \A x \in ListEntries : x = <<x[1], x[2]>>
        BY DEF ListEntries
      <3> QED BY <3>1, <3>2 DEF About
    <2>3. /\ denyPc'[t] = "insert"
          /\ \A u \in Threads \ {t} : denyPc'[u] = denyPc[u] /\ PendingOf(u)' = PendingOf(u)
          /\ PendingOf(t)' = About(req[t])
      BY <2>1, PendingFacts DEF DenySteps
    <2>4. \A u \in Threads \ {t} : e \in PendingOf(u) => e \in unsure'
      BY <2>1 DEF PendingOthers
    <2>5. e \in ListEntries => e \in About(req[t])
      BY DEF About
    <2>6. PendingOf(t) = {}
      BY <2>1 DEF PendingOf
    <2> HIDE DEF e
    <2> QED BY <2>1, <2>2, <2>3, <2>4, <2>5, <2>6 DEF TableFollows, ListEntries
  <1>6. ASSUME NEW t \in Threads, RmFromList(t) PROVE TableFollows'
    <2> DEFINE a == About(req[t])
    <2>1. /\ pkg_to_procs' = pkg_to_procs \ a /\ UNCHANGED <<loaded, denyRows, req>> /\ loaded
          /\ unsure' = unsure \cup (a \cap PendingOthers(t)) /\ GotoStep(t, "delete") /\ denyPc[t] = "inside"
      BY <1>6 DEF RmFromList
    <2>2. /\ denyPc'[t] = "delete"
          /\ \A u \in Threads \ {t} : denyPc'[u] = denyPc[u] /\ PendingOf(u)' = PendingOf(u)
          /\ PendingOf(t)' = a
      BY <2>1, PendingFacts DEF DenySteps
    <2>3. \A x \in a : \A u \in Threads \ {t} : x \in PendingOf(u) => x \in unsure'
      BY <2>1 DEF PendingOthers
    <2>4. PendingOf(t) = {}
      BY <2>1 DEF PendingOf
    <2> HIDE DEF a
    <2> QED BY <2>1, <2>2, <2>3, <2>4 DEF TableFollows, ListEntries
  <1>7. ASSUME NEW t \in Threads, Scan(t) PROVE TableFollows'
    <2> DEFINE gone == Keys(Dropped(pkg_to_procs))
    <2>1. /\ pkg_to_procs' = pkg_to_procs \ Dropped(pkg_to_procs) /\ UNCHANGED <<loaded, req>> /\ loaded
          /\ GotoStep(t, "idle") /\ denyPc[t] = "inside"
          /\ \/ /\ denyRows' = {e \in denyRows : e[1] \notin gone}
                /\ unsure' = unsure \cup {e \in PendingOthers(t) : e[1] \in gone}
             \/ denyRows' = denyRows /\ unsure' = unsure \cup {e \in ListEntries : e[1] \in gone}
      BY <1>7 DEF Scan
    <2>2. /\ denyPc'[t] = "idle"
          /\ \A u \in Threads \ {t} : denyPc'[u] = denyPc[u] /\ PendingOf(u)' = PendingOf(u)
          /\ PendingOf(t)' = {}
      BY <2>1, PendingFacts DEF DenySteps
    <2>3. PendingOf(t) = {}
      BY <2>1 DEF PendingOf
    <2>4. \A e \in pkg_to_procs : e \in Dropped(pkg_to_procs) <=> e[1] \in gone
      BY DEF Dropped, Keys
    <2>5. \A u \in Threads \ {t} : PendingOf(u) \subseteq PendingOthers(t)
      BY DEF PendingOthers
    <2> HIDE DEF gone
    <2>6. \A e \in ListEntries \ unsure' : e[1] \in gone =>
              e \notin pkg_to_procs' /\ e \notin denyRows' /\ \A u \in Threads : e \notin PendingOf(u)'
      BY <2>1, <2>2, <2>4, <2>5
    <2>7. \A e \in ListEntries : e[1] \notin gone =>
              (e \in pkg_to_procs' <=> e \in pkg_to_procs) /\ (e \in denyRows' <=> e \in denyRows)
      BY <2>1, <2>4
    <2>8. unsure \subseteq unsure' /\ loaded
      BY <2>1
    <2> QED BY <2>2, <2>3, <2>6, <2>7, <2>8 DEF TableFollows
  <1>8. ASSUME NEW t \in Threads, ExecSql(t) PROVE TableFollows'
    <2> DEFINE a == About(req[t])
    <2>1. /\ UNCHANGED <<loaded, pkg_to_procs, req>> /\ GotoStep(t, "idle") /\ denyPc[t] \in {"insert", "delete"}
          /\ \/ denyRows' = (IF denyPc[t] = "insert" THEN denyRows \cup a ELSE denyRows \ a) /\ unsure' = unsure
             \/ denyRows' = denyRows /\ unsure' = unsure \cup a
      BY <1>8 DEF ExecSql, SqlInsert, SqlDelete, memoryVars
    <2>2. /\ denyPc'[t] = "idle"
          /\ \A u \in Threads \ {t} : denyPc'[u] = denyPc[u] /\ PendingOf(u)' = PendingOf(u)
          /\ PendingOf(t)' = {}
      BY <2>1, PendingFacts DEF DenySteps
    <2>3. PendingOf(t) = a
      BY <2>1 DEF PendingOf
    <2> HIDE DEF a
    <2> QED BY <2>1, <2>2, <2>3 DEF TableFollows
  <1>9. CASE LogcatSeesOff \/ LogcatEnds \/ (\E p \in Packages : ChangeApp(p)) \/ UNCHANGED denyVars
    <2>1. UNCHANGED <<loaded, pkg_to_procs, denyRows, denyPc, req, unsure>>
      BY <1>9 DEF LogcatSeesOff, LogcatEnds, ChangeApp, denyVars, memoryVars, historyVars
    <2>2. \A u \in Threads : PendingOf(u)' = PendingOf(u)
      BY <2>1 DEF PendingOf, About
    <2> QED BY <2>1, <2>2, NothingListed
  <1> QED BY <1>1, <1>2, <1>3, <1>4, <1>5, <1>6, <1>7, <1>8, <1>9 DEF NextDeny, ThreadStep

\* What is in the index of a list.
LEMMA ScannedMembers ==
    ASSUME NEW E, NEW x
    PROVE  x \in ScannedIndex(E) <=> \E e \in E : Indexed(e[1]) /\ x = <<appid[e[1]], e[1]>>
  BY DEF ScannedIndex, IdOf, Keys

\* The index follows the list, step by step.
LEMMA NextIndexExact ==
    ASSUME DenyType, IndexExact, [NextDeny]_denyVars
    PROVE  IndexExact'
  <1>1. IndexExact <=> (loaded /\ installs = 0 => app_id_to_pkgs = ScannedIndex(pkg_to_procs))
    BY DEF IndexExact, ScannedIndex
  <1>2. IndexExact' <=> (loaded' /\ installs' = 0 => app_id_to_pkgs' = ScannedIndex(pkg_to_procs)')
    BY DEF IndexExact, ScannedIndex
  <1>3. ASSUME UNCHANGED <<loaded, pkg_to_procs, app_id_to_pkgs, appid, installs>> PROVE IndexExact'
    BY <1>3 DEF IndexExact, IdOf, Indexed
  <1>4. ASSUME appid' = appid, NEW E PROVE ScannedIndex(E)' = ScannedIndex(E')
    BY <1>4 DEF ScannedIndex, IdOf, Indexed, Keys
  <1>5. ASSUME NEW p \in Packages, ChangeApp(p) PROVE IndexExact'
    <2>1. installs' = installs + 1 /\ installs \in Nat
      BY <1>5 DEF ChangeApp, DenyType
    <2>2. installs' # 0
      BY <2>1
    <2> QED BY <1>2, <2>2
  <1>6. ASSUME NEW E PROVE ScannedIndex(E \ Dropped(E)) = ScannedIndex(E)
    <2>1. \A x : x \in ScannedIndex(E \ Dropped(E)) <=> x \in ScannedIndex(E)
      BY ScannedMembers DEF Dropped, Indexed
    <2> QED BY <2>1
  <1>7. ASSUME NEW t \in Threads, EnsureData(t) PROVE IndexExact'
    <2>1. /\ appid' = appid /\ pkg_to_procs' = denyRows \ Dropped(denyRows)
          /\ app_id_to_pkgs' = ScannedIndex(denyRows)
      BY <1>7 DEF EnsureData
    <2> QED BY <1>2, <1>4, <1>6, <2>1
  <1>8. ASSUME NEW t \in Threads, Scan(t) PROVE IndexExact'
    <2>1. /\ appid' = appid /\ pkg_to_procs' = pkg_to_procs \ Dropped(pkg_to_procs)
          /\ app_id_to_pkgs' = ScannedIndex(pkg_to_procs)
      BY <1>8 DEF Scan
    <2> QED BY <1>2, <1>4, <1>6, <2>1
  <1>9. ASSUME NEW t \in Threads, AddToList(t) PROVE IndexExact'
    <2> DEFINE p == req[t].pkg
               e == <<p, req[t].proc>>
    <2>1. /\ appid' = appid /\ installs' = installs /\ loaded /\ pkg_to_procs' = pkg_to_procs \cup {e}
          /\ app_id_to_pkgs' = app_id_to_pkgs \cup (IF Indexed(p) THEN {<<appid[p], p>>} ELSE {})
      BY <1>9 DEF AddToList, boundVars, IdOf
    <2>2. e[1] = p
      OBVIOUS
    <2> HIDE DEF e
    <2>3. \A x : x \in ScannedIndex(pkg_to_procs \cup {e})
                   <=> x \in ScannedIndex(pkg_to_procs) \cup (IF Indexed(p) THEN {<<appid[p], p>>} ELSE {})
      BY <2>2, ScannedMembers
    <2>4. ScannedIndex(pkg_to_procs \cup {e})
            = ScannedIndex(pkg_to_procs) \cup (IF Indexed(p) THEN {<<appid[p], p>>} ELSE {})
      BY <2>3
    <2> QED BY <1>1, <1>2, <1>4, <2>1, <2>4
  <1>10. ASSUME NEW t \in Threads, RmFromList(t) PROVE IndexExact'
    <2> DEFINE p == req[t].pkg
               left == pkg_to_procs \ About(req[t])
    <2>1. /\ appid' = appid /\ installs' = installs /\ loaded /\ pkg_to_procs' = left
          /\ app_id_to_pkgs' = IF p \notin Keys(left) /\ Indexed(p) THEN app_id_to_pkgs \ {<<appid[p], p>>}
                               ELSE app_id_to_pkgs
      BY <1>10 DEF RmFromList, RmFromIndex, boundVars, IdOf
    <2>2. \A e \in pkg_to_procs \ left : e[1] = p
      BY DEF About
    <2>3. p \in Keys(left) <=> \E e \in left : e[1] = p
      BY DEF Keys
    <2>4. left \subseteq pkg_to_procs
      OBVIOUS
    <2> HIDE DEF left
    <2>5. \A x : x \in ScannedIndex(left) <=>
                   x \in IF p \notin Keys(left) /\ Indexed(p) THEN ScannedIndex(pkg_to_procs) \ {<<appid[p], p>>}
                         ELSE ScannedIndex(pkg_to_procs)
      BY <2>2, <2>3, <2>4, ScannedMembers
    <2>6. ScannedIndex(left) = IF p \notin Keys(left) /\ Indexed(p)
                               THEN ScannedIndex(pkg_to_procs) \ {<<appid[p], p>>} ELSE ScannedIndex(pkg_to_procs)
      BY <2>5
    <2> QED BY <1>1, <1>2, <1>4, <2>1, <2>6
  <1>11. ASSUME NEW t \in Threads, \/ (\E r \in Requests : BeginRequest(t, r)) \/ Enter(t) \/ LeaveUndone(t)
                                   \/ ExecSql(t) \/ EnableDeny(t) \/ DisableDeny(t) \/ SetDenyConfig(t)
         PROVE  IndexExact'
    BY <1>3, <1>11 DEF BeginRequest, Enter, LeaveUndone, ExecSql, EnableDeny, DisableDeny, SetDenyConfig,
                       memoryVars, boundVars
  <1>12. CASE LogcatSeesOff \/ LogcatEnds \/ UNCHANGED denyVars
    BY <1>3, <1>12 DEF LogcatSeesOff, LogcatEnds, denyVars, memoryVars, boundVars
  <1> QED BY <1>5, <1>7, <1>8, <1>9, <1>10, <1>11, <1>12 DEF NextDeny, ThreadStep

LEMMA InitDenyType == InitDeny => DenyType
  <1> SUFFICES ASSUME InitDeny PROVE DenyType
    OBVIOUS
  <1>1. logcats = 0 /\ leaving = 0 /\ installs = 0
    BY DEF InitDeny
  <1>2. PICK boot \in Threads : InitializeDenylist(boot)
    BY DEF InitDeny
  <1>3. NoReq \in Requests /\ [NoReq EXCEPT !.kind = "enable"] \in Requests
    BY DenyAssumption DEF NoReq, Requests, Kinds
  <1>4. NoReq.kind # "add" /\ [NoReq EXCEPT !.kind = "enable"].kind # "add"
    BY DEF NoReq
  <1>5. /\ denyPc \in [Threads -> DenySteps] /\ req \in [Threads -> Requests]
        /\ \A t \in Threads : denyPc[t] \in {"idle", "wait"} /\ req[t].kind # "add"
    BY <1>2, <1>3, <1>4 DEF InitializeDenylist, DenySteps
  <1> QED BY <1>1, <1>5 DEF DenyType

\* The list, its index and its table say the same, but for an entry that two requests
\* changed at once or whose statement failed (add_list, rm_list, scan_deny_apps): for any
\* number of threads, packages and requests, with scans that run beside them.
THEOREM ListSafe == SpecDeny => []ListExact
  <1> DEFINE Inv == DenyType /\ TableFollows /\ IndexExact
  <1>1. InitDeny => Inv
    <2> SUFFICES ASSUME InitDeny PROVE Inv
      OBVIOUS
    <2>1. ~loaded /\ DenyType
      BY InitDenyType DEF InitDeny
    <2> QED BY <2>1 DEF TableFollows, IndexExact
  <1>2. Inv /\ [NextDeny]_denyVars => Inv'
    BY NextDenyType, NextTableFollows, NextIndexExact
  <1>3. Inv => ListExact
    <2> SUFFICES ASSUME Inv, loaded, Quiet
                 PROVE  \A e \in ListEntries \ unsure : e \in pkg_to_procs <=> e \in denyRows
      BY DEF ListExact, ListMatchesTable
    <2>1. \A t \in Threads : PendingOf(t) = {}
      BY DEF Quiet, PendingOf
    <2> QED BY <2>1 DEF TableFollows
  <1> QED BY <1>1, <1>2, <1>3, PTL DEF SpecDeny

\* A thread that has switched is the only one to have, and one that has switched on is the
\* only one to want to; the switch is as it left it.
SettingFollows ==
    ~configUnsure =>
        /\ \A t \in Threads : denyPc[t] = "setOn" =>
              denylist_enforced /\ \A u \in Threads \ {t} : ~SwitchingNow(u)
        /\ \A t \in Threads : denyPc[t] = "setOff" =>
              ~denylist_enforced /\ \A u \in Threads \ {t} : denyPc[u] \notin {"setOn", "setOff"}

SwitchInv ==
    /\ {denylist_enforced, config, configUnsure} \subseteq BOOLEAN
    /\ DenyType /\ SettingFollows /\ SwitchInForce

\* A step that leaves the switch alone and takes no thread to it or from it.
LEMMA NothingSwitched ==
    ASSUME SwitchInv, DenyType', UNCHANGED <<denylist_enforced, config, configUnsure>>,
           logcats' >= logcats,
           \A u \in Threads : /\ SwitchingNow(u)' <=> SwitchingNow(u)
                              /\ denyPc'[u] = "setOn" <=> denyPc[u] = "setOn"
                              /\ denyPc'[u] = "setOff" <=> denyPc[u] = "setOff"
    PROVE  SwitchInv'
  <1>1. logcats \in Nat /\ logcats' \in Nat
    BY DEF SwitchInv, DenyType
  <1>2. SettingFollows'
    BY DEF SwitchInv, SettingFollows
  <1>3. SwitchMatchesConfig'
    BY DEF SwitchInv, SwitchInForce, SwitchMatchesConfig
  <1>4. MonitoredWhileEnforced'
    BY <1>1 DEF SwitchInv, SwitchInForce, MonitoredWhileEnforced
  <1> QED BY <1>2, <1>3, <1>4 DEF SwitchInv, SwitchInForce

\* The switch, step by step.
LEMMA NextSwitchInv ==
    ASSUME SwitchInv, [NextDeny]_denyVars
    PROVE  SwitchInv'
  <1>1. DenyType /\ DenyType' /\ logcats \in Nat /\ logcats' \in Nat
    BY NextDenyType DEF SwitchInv, DenyType
  <1>2. \A n \in Nat : n >= n
    OBVIOUS
  <1>3. ASSUME NEW t \in Threads, NEW r \in Requests, BeginRequest(t, r) PROVE SwitchInv'
    <2>1. /\ UNCHANGED <<denylist_enforced, config, configUnsure, logcats>> /\ denyPc[t] = "idle"
          /\ \A u \in Threads \ {t} : denyPc'[u] = denyPc[u] /\ req'[u] = req[u]
          /\ denyPc'[t] \in {"idle", "wait", "disable"}
          /\ denyPc'[t] = "wait" /\ req'[t].kind = "enable" => ~denylist_enforced
      BY <1>1, <1>3 DEF BeginRequest, switchVars, historyVars, DenyType
    <2>2. \A u \in Threads \ {t} : SwitchingNow(u)' <=> SwitchingNow(u)
      BY <2>1 DEF SwitchingNow
    <2>3. SwitchingNow(t)' => ~denylist_enforced
      BY <2>1 DEF SwitchingNow
    <2>4. SettingFollows'
      BY <2>1, <2>2, <2>3 DEF SwitchInv, SettingFollows
    <2>5. ~SwitchingNow(t)
      BY <2>1 DEF SwitchingNow
    <2>6. SwitchMatchesConfig'
      BY <2>1, <2>2, <2>5 DEF SwitchInv, SwitchInForce, SwitchMatchesConfig
    <2>7. MonitoredWhileEnforced'
      BY <2>1 DEF SwitchInv, SwitchInForce, MonitoredWhileEnforced
    <2> QED BY <1>1, <2>1, <2>4, <2>6, <2>7 DEF SwitchInv, SwitchInForce
  <1>4. ASSUME NEW t \in Threads, \/ Enter(t) \/ EnsureData(t) \/ AddToList(t) \/ RmFromList(t) \/ Scan(t)
                                  \/ ExecSql(t)
        PROVE  SwitchInv'
    <2>1. /\ UNCHANGED <<denylist_enforced, config, configUnsure, logcats, req>>
          /\ \A u \in Threads \ {t} : denyPc'[u] = denyPc[u]
          /\ \/ denyPc[t] = "wait" /\ denyPc'[t] = "inside"
             \/ denyPc'[t] = denyPc[t]
             \/ /\ denyPc[t] = "inside" /\ req[t].kind # "enable"
                /\ denyPc'[t] \in {"insert", "delete", "idle"}
             \/ denyPc[t] \in {"insert", "delete"} /\ denyPc'[t] = "idle"
      BY <1>1, <1>4 DEF Enter, EnsureData, AddToList, RmFromList, Scan, ExecSql, GotoStep, switchVars, historyVars,
                        DenyType
    <2>2. \A u \in Threads : /\ SwitchingNow(u)' <=> SwitchingNow(u)
                             /\ denyPc'[u] = "setOn" <=> denyPc[u] = "setOn"
                             /\ denyPc'[u] = "setOff" <=> denyPc[u] = "setOff"
      BY <2>1 DEF SwitchingNow
    <2> QED BY <1>1, <1>2, <2>1, <2>2, NothingSwitched
  <1>5. ASSUME NEW t \in Threads, LeaveUndone(t) PROVE SwitchInv'
    <2>1. /\ UNCHANGED <<denylist_enforced, config, logcats, req>>
          /\ \A u \in Threads \ {t} : denyPc'[u] = denyPc[u]
          /\ denyPc[t] = "inside" /\ denyPc'[t] = "idle"
          /\ configUnsure' = (configUnsure \/ req[t].kind = "enable")
      BY <1>1, <1>5 DEF LeaveUndone, GotoStep, switchVars, DenyType
    <2>2. CASE req[t].kind = "enable"
      <3>1. configUnsure' = TRUE
        BY <2>1, <2>2
      <3> QED BY <1>1, <2>1, <3>1 DEF SwitchInv, SettingFollows, SwitchInForce, SwitchMatchesConfig,
                                      MonitoredWhileEnforced
    <2>3. CASE req[t].kind # "enable"
      <3>1. configUnsure' = configUnsure
        BY <2>1, <2>3, Zenon DEF SwitchInv
      <3>2. \A u \in Threads : /\ SwitchingNow(u)' <=> SwitchingNow(u)
                               /\ denyPc'[u] = "setOn" <=> denyPc[u] = "setOn"
                               /\ denyPc'[u] = "setOff" <=> denyPc[u] = "setOff"
        BY <2>1, <2>3 DEF SwitchingNow
      <3> QED BY <1>1, <1>2, <2>1, <3>1, <3>2, NothingSwitched
    <2> QED BY <2>2, <2>3
  <1>6. ASSUME NEW t \in Threads, EnableDeny(t) PROVE SwitchInv'
    <2>1. /\ denylist_enforced' = TRUE /\ UNCHANGED <<config, req>>
          /\ logcats' = IF ZygiskEnabled THEN logcats ELSE logcats + 1
          /\ configUnsure' = (configUnsure \/ Switching(t))
          /\ \A u \in Threads \ {t} : denyPc'[u] = denyPc[u]
          /\ denyPc'[t] = "setOn"
      BY <1>1, <1>6 DEF EnableDeny, StartLogcat, GotoStep, DenyType
    <2>2. configUnsure' \in BOOLEAN
      BY <2>1, Zenon
    <2>3. ~configUnsure' => ~configUnsure /\ \A u \in Threads \ {t} : ~SwitchingNow(u)
      BY <2>1 DEF Switching
    <2>4. \A u \in Threads \ {t} : SwitchingNow(u)' <=> SwitchingNow(u)
      BY <2>1 DEF SwitchingNow
    <2>5. SwitchingNow(t)' /\ \A u \in Threads : denyPc'[u] = "setOff" => SwitchingNow(u)'
      BY <2>1 DEF SwitchingNow
    <2>6. SettingFollows'
      <3>1. ASSUME ~configUnsure', NEW u \in Threads, denyPc'[u] \in {"setOn", "setOff"} PROVE u = t
        BY <2>1, <2>3, <3>1 DEF SwitchingNow
      <3> QED BY <2>1, <2>3, <2>4, <3>1 DEF SettingFollows
    <2>7. SwitchMatchesConfig'
      BY <2>5 DEF SwitchMatchesConfig
    <2>8. MonitoredWhileEnforced'
      BY <1>1, <2>1 DEF MonitoredWhileEnforced
    <2> QED BY <1>1, <2>1, <2>2, <2>6, <2>7, <2>8 DEF SwitchInv, SwitchInForce
  <1>7. ASSUME NEW t \in Threads, DisableDeny(t) PROVE SwitchInv'
    <2>1. /\ denylist_enforced' = FALSE /\ UNCHANGED <<config, req, logcats>>
          /\ configUnsure' = (configUnsure \/ Switching(t))
          /\ \A u \in Threads \ {t} : denyPc'[u] = denyPc[u]
          /\ denyPc'[t] = "setOff"
      BY <1>1, <1>7 DEF DisableDeny, GotoStep, DenyType
    <2>2. configUnsure' \in BOOLEAN
      BY <2>1, Zenon
    <2>3. ~configUnsure' => ~configUnsure /\ \A u \in Threads \ {t} : ~SwitchingNow(u)
      BY <2>1 DEF Switching
    <2>4. SwitchingNow(t)'
      BY <2>1 DEF SwitchingNow
    <2>5. SettingFollows'
      <3>1. ASSUME ~configUnsure', NEW u \in Threads, denyPc'[u] \in {"setOn", "setOff"} PROVE u = t
        BY <2>1, <2>3, <3>1 DEF SwitchingNow
      <3> QED BY <2>1, <2>3, <3>1 DEF SettingFollows
    <2>6. SwitchMatchesConfig'
      BY <2>4 DEF SwitchMatchesConfig
    <2>7. MonitoredWhileEnforced'
      BY <2>1 DEF MonitoredWhileEnforced
    <2> QED BY <1>1, <2>1, <2>2, <2>5, <2>6, <2>7 DEF SwitchInv, SwitchInForce
  <1>8. ASSUME NEW t \in Threads, SetDenyConfig(t) PROVE SwitchInv'
    <2>1. /\ UNCHANGED <<denylist_enforced, req, logcats>>
          /\ \A u \in Threads \ {t} : denyPc'[u] = denyPc[u]
          /\ denyPc[t] \in {"setOn", "setOff"} /\ denyPc'[t] = "idle"
          /\ \/ config' = (denyPc[t] = "setOn") /\ configUnsure' = configUnsure
             \/ config' = config /\ configUnsure' = TRUE
      BY <1>1, <1>8 DEF SetDenyConfig, ConfigValue, GotoStep, switchVars, DenyType
    <2>2. MonitoredWhileEnforced'
      BY <2>1 DEF SwitchInv, SwitchInForce, MonitoredWhileEnforced
    <2>3. CASE config' = config /\ configUnsure' = TRUE
      BY <1>1, <2>1, <2>2, <2>3 DEF SwitchInv, SettingFollows, SwitchInForce, SwitchMatchesConfig
    <2>4. CASE config' = (denyPc[t] = "setOn") /\ configUnsure' = configUnsure
      <3>1. ~configUnsure => \A u \in Threads \ {t} : denyPc[u] \notin {"setOn", "setOff"}
        BY <2>1 DEF SwitchInv, SettingFollows, SwitchingNow
      <3>2. SettingFollows'
        BY <2>1, <2>4, <3>1 DEF SettingFollows
      <3>3. ~configUnsure => denylist_enforced = (denyPc[t] = "setOn")
        <4>1. CASE denyPc[t] = "setOn"
          BY <4>1 DEF SwitchInv, SettingFollows
        <4>2. CASE denyPc[t] = "setOff"
          BY <4>2 DEF SwitchInv, SettingFollows
        <4> QED BY <2>1, <4>1, <4>2
      <3>4. SwitchMatchesConfig'
        BY <2>1, <2>4, <3>3 DEF SwitchMatchesConfig
      <3>5. config' \in BOOLEAN
        BY <2>4, Zenon
      <3> QED BY <1>1, <2>1, <2>2, <2>4, <3>2, <3>4, <3>5 DEF SwitchInv, SwitchInForce
    <2> QED BY <2>1, <2>3, <2>4
  <1>9. CASE LogcatSeesOff
    <2>1. UNCHANGED <<denylist_enforced, config, configUnsure, denyPc, req>> /\ ~denylist_enforced
      BY <1>9 DEF LogcatSeesOff, historyVars
    <2>2. SettingFollows' /\ SwitchMatchesConfig' /\ MonitoredWhileEnforced'
      BY <2>1 DEF SwitchInv, SettingFollows, SwitchInForce, SwitchMatchesConfig, MonitoredWhileEnforced, SwitchingNow
    <2> QED BY <1>1, <2>1, <2>2 DEF SwitchInv, SwitchInForce
  <1>10. CASE LogcatEnds \/ (\E p \in Packages : ChangeApp(p)) \/ UNCHANGED denyVars
    <2>1. UNCHANGED <<denylist_enforced, config, configUnsure, denyPc, req, logcats>>
      BY <1>10 DEF LogcatEnds, ChangeApp, denyVars, switchVars, historyVars
    <2>2. \A u \in Threads : SwitchingNow(u)' <=> SwitchingNow(u)
      BY <2>1 DEF SwitchingNow
    <2> QED BY <1>1, <1>2, <2>1, <2>2, NothingSwitched
  <1> QED BY <1>3, <1>4, <1>5, <1>6, <1>7, <1>8, <1>9, <1>10 DEF NextDeny, ThreadStep

\* The switch is what the setting says, and while it is on somebody watches (enable_deny,
\* disable_deny, the logcat monitor): for any number of threads, unless switch requests
\* overlapped or failed.
THEOREM SwitchSafe == SpecDeny => []SwitchInForce
  <1>1. InitDeny => SwitchInv
    <2> SUFFICES ASSUME InitDeny PROVE SwitchInv
      OBVIOUS
    <2>1. /\ denylist_enforced = FALSE /\ configUnsure = FALSE /\ config \in BOOLEAN
          /\ logcats = 0 /\ leaving = 0 /\ installs = 0
      BY DEF InitDeny
    <2>2. PICK boot \in Threads : InitializeDenylist(boot)
      BY DEF InitDeny
    <2>3. DenyType
      BY InitDenyType
    <2>4. \A t \in Threads : denyPc[t] \in {"idle", "wait"}
      BY <2>2 DEF InitializeDenylist
    <2>5. SettingFollows /\ MonitoredWhileEnforced
      BY <2>1, <2>4 DEF SettingFollows, MonitoredWhileEnforced
    <2>6. config => SwitchingNow(boot)
      BY <2>2 DEF InitializeDenylist, SwitchingNow, NoReq
    <2>7. SwitchMatchesConfig
      BY <2>1, <2>6 DEF SwitchMatchesConfig
    <2> QED BY <2>1, <2>3, <2>5, <2>7 DEF SwitchInv, SwitchInForce
  <1>2. SwitchInv /\ [NextDeny]_denyVars => SwitchInv'
    BY NextSwitchInv
  <1>3. SwitchInv => SwitchInForce
    BY DEF SwitchInv
  <1> QED BY <1>1, <1>2, <1>3, PTL DEF SpecDeny
=============================================================================
