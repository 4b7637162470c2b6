----------------------------- MODULE ZygiskState -----------------------------
(***************************************************************************)
(* magiskd's ZygiskState (native/src/core/zygisk/daemon.rs): the native    *)
(* bridge property that makes zygote load Zygisk, its roll-back when       *)
(* zygote keeps crashing, and the companion processes zygiskd.  All of it  *)
(* is behind one mutex, which connect_zygiskd holds while it waits for     *)
(* the client and for zygiskd, and which boot-complete, zygote restarts    *)
(* and the daemon's main thread (STOP_DAEMON) take too.                    *)
(*                                                                         *)
(* A property value is a sequence of name parts: <<>> unset, <<"0">>,      *)
(* <<bridge>>, <<ZYGISKLDR>>, or <<ZYGISKLDR, bridge>> for the two names   *)
(* joined.                                                                 *)
(***************************************************************************)
EXTENDS Naturals, Sequences

CONSTANTS
    Original,       \* the device's own NBPROP
    Clients,        \* processes that ask for a companion
    MaxDeaths,      \* bound on zygote deaths nothing in Magisk causes
    MaxPending,     \* bound on restart tasks waiting at a time
    Stops           \* whether STOP_DAEMON may come

ZYGISKLDR == "libzygisk.so"
Zero == <<"0">>

ASSUME ZygiskAssumption ==
    /\ Original \in {<<>>, Zero, <<"nb.so">>}
    /\ MaxDeaths \in Nat /\ MaxPending \in Nat \ {0}
    /\ Stops \in BOOLEAN
    /\ "nobody" \notin Clients

VARIABLES
    enabled,
    nbprop,         \* ro.dalvik.vm.native.bridge
    lib_name, start_count, sockets,     \* ZygiskState
    lock,           \* the client whose connect_zygiskd holds the mutex, or Unheld
    zygiskd,        \* companion process of each bitness
    cli,            \* where each client's request is
    is_64_bit,      \* what each client asks for
    restarts,       \* ZYGOTE_RESTART tasks not yet run
    completes,      \* BOOT_COMPLETE tasks not yet run
    daemon,         \* "new", "up", "stopping" (main thread at the mutex), "gone"
    zygote,         \* "down", "injected", "plain"
    booted,         \* this zygote's boot-complete was sent
    fatal,          \* whether zygote dies of Zygisk on this device; never changes
    deaths          \* bound

stateVars == <<lib_name, start_count, sockets>>
zygoteVars == <<zygote, booted, fatal, deaths>>
companionVars == <<lock, zygiskd, cli, is_64_bit>>
zygiskVars == <<enabled, nbprop, stateVars, companionVars, restarts, completes, daemon, zygoteVars>>

Unheld == "nobody"
Loads(prop) == prop # <<>> /\ Head(prop) = ZYGISKLDR

InitZygisk ==
    /\ enabled = FALSE /\ nbprop = Original
    /\ lib_name = <<>> /\ start_count = 1 /\ sockets = [b \in BOOLEAN |-> "none"]
    /\ lock = Unheld
    /\ zygiskd = [b \in BOOLEAN |-> "none"]
    /\ cli = [c \in Clients |-> "idle"]
    /\ is_64_bit = [c \in Clients |-> FALSE]
    /\ restarts = 0 /\ completes = 0 /\ daemon = "new"
    /\ zygote = "down" /\ booted = FALSE /\ fatal \in BOOLEAN /\ deaths = 0

-----------------------------------------------------------------------------
(* ZygiskState's own operations, on the mutex's data                       *)

\* Mutant: the name is built but the property is not written.
SetPropAgain ==
    /\ lib_name' = IF nbprop = <<>> \/ nbprop = Zero
                   THEN <<ZYGISKLDR>> ELSE <<ZYGISKLDR>> \o nbprop
    /\ UNCHANGED nbprop

SetProp ==
    IF lib_name # <<>>
    THEN UNCHANGED <<lib_name, nbprop>>
    ELSE /\ lib_name' = IF nbprop = <<>> \/ nbprop = Zero
                        THEN <<ZYGISKLDR>> ELSE <<ZYGISKLDR>> \o nbprop
         /\ nbprop' = lib_name'

RestoreProp ==
    /\ nbprop' = IF Len(lib_name) > 1 THEN Tail(lib_name) ELSE Zero
    /\ lib_name' = <<>>

TooMany(count) == count > 3

ResetAfterBoot ==
    /\ start_count' = 1
    /\ RestoreProp
    /\ UNCHANGED <<sockets, zygiskd>>

\* Mutant: a restart is not counted.
ResetUncounted ==
    /\ sockets' = [b \in BOOLEAN |-> "none"]
    /\ zygiskd' = [b \in BOOLEAN |-> "none"]
    /\ UNCHANGED start_count
    /\ SetProp

\* Closing its socket makes a zygiskd exit.
ResetAfterRestart ==
    /\ sockets' = [b \in BOOLEAN |-> "none"]
    /\ zygiskd' = [b \in BOOLEAN |-> "none"]
    /\ start_count' = start_count + 1
    /\ IF TooMany(start_count') THEN RestoreProp ELSE SetProp

-----------------------------------------------------------------------------
(* The daemon's requests                                                   *)

\* apply_modules in post-fs-data, before zygote starts
ZygiskPostFsData ==
    /\ daemon = "new"
    /\ daemon' = "up"
    /\ enabled' \in BOOLEAN
    /\ IF enabled' THEN SetProp ELSE UNCHANGED <<lib_name, nbprop>>
    /\ UNCHANGED <<start_count, sockets, companionVars, restarts, completes, zygoteVars>>

ZygoteRestartRequest ==
    /\ daemon \in {"up", "stopping"} /\ restarts > 0 /\ lock = Unheld
    /\ restarts' = restarts - 1
    /\ IF enabled
       THEN ResetAfterRestart
       ELSE UNCHANGED <<stateVars, nbprop, zygiskd>>
    /\ UNCHANGED <<enabled, lock, cli, is_64_bit, completes, daemon, zygoteVars>>

BootCompleteRequest ==
    /\ daemon \in {"up", "stopping"} /\ completes > 0 /\ lock = Unheld
    /\ completes' = completes - 1
    /\ IF enabled
       THEN ResetAfterBoot
       ELSE UNCHANGED <<stateVars, nbprop, zygiskd>>
    /\ UNCHANGED <<enabled, lock, cli, is_64_bit, restarts, daemon, zygoteVars>>

\* The main thread runs STOP_DAEMON itself; no request is accepted meanwhile.
StopRequest ==
    /\ Stops /\ daemon = "up"
    /\ daemon' = "stopping"
    /\ UNCHANGED <<enabled, nbprop, stateVars, companionVars, restarts, completes, zygoteVars>>

StopDaemon ==
    /\ daemon = "stopping" /\ lock = Unheld
    /\ RestoreProp
    /\ daemon' = "gone"
    /\ restarts' = 0 /\ completes' = 0
    /\ UNCHANGED <<enabled, start_count, sockets, companionVars, zygoteVars>>

-----------------------------------------------------------------------------
(* connect_zygiskd                                                         *)

\* A process forked by an injected zygote asks; the main thread queues a task.
Connect(c) ==
    /\ daemon = "up" /\ zygote = "injected" /\ cli[c] = "idle"
    /\ cli' = [cli EXCEPT ![c] = "waiting"]
    /\ \E b \in BOOLEAN : is_64_bit' = [is_64_bit EXCEPT ![c] = b]
    /\ UNCHANGED <<enabled, nbprop, stateVars, lock, zygiskd, restarts, completes, daemon,
                   zygoteVars>>

Acquire(c) ==
    /\ daemon # "gone" /\ cli[c] = "waiting" /\ lock = Unheld
    /\ lock' = c
    /\ cli' = [cli EXCEPT ![c] = "reading"]
    /\ UNCHANGED <<enabled, nbprop, stateVars, zygiskd, is_64_bit, restarts, completes,
                   daemon, zygoteVars>>

\* Mutant: the mutex is not released.
ReturnLocked(c, result) ==
    /\ cli' = [cli EXCEPT ![c] = result]
    /\ UNCHANGED lock

Return(c, result) ==
    /\ cli' = [cli EXCEPT ![c] = result]
    /\ lock' = Unheld

\* The client died before it said what it wants.
ReadFails(c) ==
    /\ daemon # "gone" /\ cli[c] = "reading"
    /\ Return(c, "failed")
    /\ UNCHANGED <<enabled, nbprop, stateVars, zygiskd, is_64_bit, restarts, completes,
                   daemon, zygoteVars>>

\* A zygiskd whose socket polls clean is sent the client.
UseSocket(c) ==
    LET b == is_64_bit[c] IN
    /\ daemon # "gone" /\ cli[c] = "reading"
    /\ sockets[b] = "open"
    /\ \/ zygiskd[b] = "serving" /\ Return(c, "served")
       \/ zygiskd[b] = "dying" /\ Return(c, "failed")     \* gone since the poll
    /\ UNCHANGED <<enabled, nbprop, stateVars, zygiskd, is_64_bit, restarts, completes,
                   daemon, zygoteVars>>

\* The poll finds the old socket broken, or there is none: fork a zygiskd.
ForkZygiskd(c) ==
    LET b == is_64_bit[c] IN
    /\ daemon # "gone" /\ cli[c] = "reading"
    /\ sockets[b] = "none" \/ zygiskd[b] = "none"
    /\ sockets' = [sockets EXCEPT ![b] = "none"]
    /\ zygiskd' = [zygiskd EXCEPT ![b] = "loading"]
    /\ cli' = [cli EXCEPT ![c] = "ack"]
    /\ UNCHANGED <<enabled, nbprop, lib_name, start_count, lock, is_64_bit, restarts,
                   completes, daemon, zygoteVars>>

AckReceived(c) ==
    LET b == is_64_bit[c] IN
    /\ daemon # "gone" /\ cli[c] = "ack" /\ zygiskd[b] = "serving"
    /\ sockets' = [sockets EXCEPT ![b] = "open"]
    /\ Return(c, "served")
    /\ UNCHANGED <<enabled, nbprop, lib_name, start_count, zygiskd, is_64_bit, restarts,
                   completes, daemon, zygoteVars>>

AckFails(c) ==
    LET b == is_64_bit[c] IN
    /\ daemon # "gone" /\ cli[c] = "ack" /\ zygiskd[b] \in {"none", "dying"}
    /\ Return(c, "failed")
    /\ UNCHANGED <<enabled, nbprop, stateVars, zygiskd, is_64_bit, restarts, completes,
                   daemon, zygoteVars>>

\* zygiskd loads its modules and acknowledges, or dies of them.
ZygiskdReady(b) ==
    /\ zygiskd[b] = "loading"
    /\ zygiskd' = [zygiskd EXCEPT ![b] = "serving"]
    /\ UNCHANGED <<enabled, nbprop, stateVars, lock, cli, is_64_bit, restarts, completes,
                   daemon, zygoteVars>>

ZygiskdDies(b) ==
    /\ zygiskd[b] \in {"loading", "serving", "dying"}
    /\ zygiskd' = [zygiskd EXCEPT ![b] = IF @ = "dying" THEN "none" ELSE "dying"]
    /\ UNCHANGED <<enabled, nbprop, stateVars, lock, cli, is_64_bit, restarts, completes,
                   daemon, zygoteVars>>

-----------------------------------------------------------------------------
(* Zygote.  init waits until magiskd has accepted the restart request, not *)
(* until the task has run, before it starts zygote again.                  *)

ZygoteStarts ==
    /\ zygote = "down" /\ daemon # "new"
    /\ zygote' = IF Loads(nbprop) THEN "injected" ELSE "plain"
    /\ booted' = FALSE
    /\ UNCHANGED <<enabled, nbprop, stateVars, companionVars, restarts, completes, daemon,
                   fatal, deaths>>

ZygoteGone ==
    /\ restarts < MaxPending
    /\ zygote' = "down"
    /\ restarts' = IF daemon = "up" THEN restarts + 1 ELSE restarts
    /\ UNCHANGED <<enabled, nbprop, stateVars, companionVars, completes, daemon, booted, fatal>>

\* STOP_DAEMON blocks the accept loop, so a restart request waits for its end.
ZygoteDies ==
    /\ zygote # "down" /\ daemon # "stopping" /\ deaths < MaxDeaths
    /\ deaths' = deaths + 1
    /\ ZygoteGone

InjectionDies ==
    /\ fatal /\ zygote = "injected" /\ daemon # "stopping"
    /\ ZygoteGone
    /\ UNCHANGED deaths

SystemBoots ==
    /\ zygote # "down" /\ ~booted
    /\ fatal => zygote = "plain"
    /\ booted' = TRUE
    /\ completes' = IF daemon = "up" THEN completes + 1 ELSE completes
    /\ UNCHANGED <<enabled, nbprop, stateVars, companionVars, restarts, daemon, zygote,
                   fatal, deaths>>

-----------------------------------------------------------------------------
HolderStep ==
    \E c \in Clients : ReadFails(c) \/ UseSocket(c) \/ ForkZygiskd(c) \/ AckReceived(c) \/ AckFails(c)

NextZygisk ==
    \/ ZygiskPostFsData \/ ZygoteRestartRequest \/ BootCompleteRequest \/ StopRequest \/ StopDaemon
    \/ \E c \in Clients : Connect(c) \/ Acquire(c)
    \/ HolderStep
    \/ \E b \in BOOLEAN : ZygiskdReady(b) \/ ZygiskdDies(b)
    \/ ZygoteStarts \/ ZygoteDies \/ InjectionDies \/ SystemBoots

SpecZygisk == InitZygisk /\ [][NextZygisk]_zygiskVars

(* Pool threads run, the mutex is eventually granted, init restarts        *)
(* zygote; a zygiskd that loads its modules ends in an answer or dies.     *)
LiveZygisk ==
    /\ SpecZygisk
    /\ WF_zygiskVars(ZygiskPostFsData) /\ WF_zygiskVars(HolderStep)
    /\ \A b \in BOOLEAN : WF_zygiskVars(zygiskd[b] # "serving" /\ (ZygiskdReady(b) \/ ZygiskdDies(b)))
    /\ SF_zygiskVars(ZygoteRestartRequest) /\ SF_zygiskVars(BootCompleteRequest) /\ SF_zygiskVars(StopDaemon)
    /\ WF_zygiskVars(ZygoteStarts) /\ WF_zygiskVars(InjectionDies) /\ WF_zygiskVars(SystemBoots)

-----------------------------------------------------------------------------
(* Properties                                                              *)

\* While the daemon lives it remembers a loader name exactly when the property
\* holds it: through restarts, roll-backs and boots in any order the property
\* never keeps a loader nobody will take out (set_prop, restore_prop).
LoaderAccountedFor ==
    daemon # "gone" => (lib_name # <<>> <=> Loads(nbprop)) /\ (lib_name # <<>> => nbprop = lib_name)

\* Once the fourth start has been counted zygote is not given the loader again
\* until a boot completes (ZygiskState::reset).
RolledBackAfterCrashes == start_count > 3 => ~Loads(nbprop)

\* The loader in the native bridge property is never out of hand: the daemon knows of it,
\* and takes it out when zygote keeps crashing.
LoaderInHand == LoaderAccountedFor /\ RolledBackAfterCrashes

\* If Zygisk keeps killing zygote, zygote in the end runs without it and stays.
ZygoteSettles == <>[](daemon # "new" => zygote # "down")

\* STOP_DAEMON, run by the main thread, gets the mutex in spite of the
\* connections that hold it while waiting.
StopTakesEffect == daemon = "stopping" ~> daemon = "gone"
=============================================================================
