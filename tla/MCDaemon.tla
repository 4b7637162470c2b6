------------------------------ MODULE MCDaemon ------------------------------
(***************************************************************************)
(* The daemon process for TLC: its worker threads, the loop that takes     *)
(* requests, and the pump of a root shell's terminal, in the client.  They *)
(* share no state, so each is explored while the others rest in their      *)
(* initial state: `part' says which one moves.                             *)
(***************************************************************************)
EXTENDS ThreadPool, DaemonLoop, PumpTty

VARIABLE part

(* The clients: init's two commands, `magisk --stop' and an adb shell that *)
(* asks for what only root may.                                            *)
Client(uid, command) == [uid |-> uid, zygote |-> FALSE, valid |-> TRUE, command |-> command]
MCRequests == [boot |-> Client(0, "postFsData"), late |-> Client(0, "service"),
               stop |-> Client(0, "stop"), adb |-> Client(2000, "denylist")]
MCInitOrder == <<"boot", "late">>

MCTyped == <<"i1", "i2">>
MCPrinted == <<"o1", "o2", "o3">>

-----------------------------------------------------------------------------
Parts == {"pool", "requests", "shell"}
allVars == <<part, vars, daemonVars, pumpVars>>

InitParts ==
    /\ part \in Parts
    /\ Init /\ InitDaemon /\ InitPump

Pool == part = "pool" /\ Next /\ UNCHANGED <<part, daemonVars, pumpVars>>
Loop == part = "requests" /\ NextDaemon /\ UNCHANGED <<part, vars, pumpVars>>
Shell == part = "shell" /\ NextPump /\ UNCHANGED <<part, vars, daemonVars>>

(* All but the pool may come to an end: the clients are served, the shell  *)
(* is gone, the bounds are reached.                                        *)
Rests == part # "pool" /\ UNCHANGED allVars

(* The fairness of each module, for the component that moves.              *)
PartFairness ==
    /\ WF_vars(part = "pool" /\ Submit)
    /\ \A t \in Threads : WF_vars(part = "pool" /\ ThreadStep(t))
    /\ DaemonFairness
    /\ WF_pumpVars(part = "shell" /\ PumpStep)

SpecParts ==
    InitParts /\ [][Pool \/ Loop \/ Shell \/ Rests]_allVars /\ PartFairness
=============================================================================
