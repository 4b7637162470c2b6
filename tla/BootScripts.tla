----------------------------- MODULE BootScripts ----------------------------
(***************************************************************************)
(* The scripts of a boot (core/scripting.cpp): exec_common_scripts and     *)
(* exec_module_scripts in the thread that serves the boot stages.  The     *)
(* scripts of post-fs-data run one after the other in a forked runner,     *)
(* which has a timer process beside them and waits for whichever child     *)
(* ends first; when the time is up, and in the service stage, scripts are  *)
(* started and left alone.  The deadline is set by the first of the calls  *)
(* and kept for the second.                                                *)
(*                                                                         *)
(* A script may run for ever, and each fork may fail.                      *)
(***************************************************************************)
EXTENDS Naturals, Sequences, FiniteSets

CONSTANTS ScriptCalls,   \* the calls of a boot: [who, pfs, scripts]
          MaxForkFails   \* bound: forks that fail

ScriptsOf(i) == {ScriptCalls[i].scripts[n] : n \in DOMAIN ScriptCalls[i].scripts}

ASSUME ScriptsOnce ==
  \A i, j \in DOMAIN ScriptCalls : \A m \in DOMAIN ScriptCalls[i].scripts, n \in DOMAIN ScriptCalls[j].scripts :
    ScriptCalls[i].scripts[m] = ScriptCalls[j].scripts[n] => (i = j /\ m = n)

(* A sequence of calls, in which the one that sets the deadline is the first. *)
ASSUME CallsInOrder ==
  /\ Len(ScriptCalls) \in Nat /\ DOMAIN ScriptCalls = 1..Len(ScriptCalls)
  /\ \A i \in DOMAIN ScriptCalls :
       /\ ScriptCalls[i] \in [who : {"common", "modules"}, pfs : BOOLEAN, scripts : Seq(ScriptsOf(i))]
       /\ ScriptCalls[i].who = "common" /\ ScriptCalls[i].pfs => i = 1

VARIABLES scCall,      \* number of the call the thread is in
          scPc,        \* "enter", "fork", "service" in the thread; "timer", "next", "wait" in the runner
          scLeft,      \* the scripts of the call not yet started
          scDeadline,  \* pfs_timeout: "unset", "ahead", "past"
          scTimer,     \* timer_pid: "none", "counting", or "fired" and not yet waited for
          scRun,       \* scripts: "todo", "running", "ended", "reaped", "failed"
          scFails,     \* forks that failed
          scFreed      \* history: "untimed", "skipped": what a failure cost the blocking calls

scriptVars == <<scCall, scPc, scLeft, scDeadline, scTimer, scRun, scFails, scFreed>>

BootScripts == UNION {ScriptsOf(i) : i \in DOMAIN ScriptCalls}
Blocking == UNION {ScriptsOf(i) : i \in {j \in DOMAIN ScriptCalls : ScriptCalls[j].pfs}}
Call == ScriptCalls[scCall]
InCalls == scCall <= Len(ScriptCalls)

InitScripts ==
  /\ scCall = 1 /\ scPc = "enter" /\ scLeft = <<>>
  /\ scDeadline = "unset" /\ scTimer = "none"
  /\ scRun = [s \in BootScripts |-> "todo"]
  /\ scFails = 0 /\ scFreed = {}

ScriptTo(pc) == scPc' = pc
ReturnFromCall == scCall' = scCall + 1 /\ scPc' = "enter"

(* A fork with its outcome. *)
Forks(ok) == IF ok THEN UNCHANGED scFails ELSE scFails < MaxForkFails /\ scFails' = scFails + 1

(* exec_common_scripts: the directory cannot be opened, or the time starts. *)
EnterCommon ==
  /\ InCalls /\ scPc = "enter" /\ Call.who = "common"
  /\ \/ /\ ReturnFromCall      \* no such directory
        /\ scFreed' = IF Call.pfs THEN scFreed \cup {"skipped"} ELSE scFreed
        /\ UNCHANGED <<scLeft, scDeadline>>
     \/ /\ scDeadline' = IF Call.pfs THEN "ahead" ELSE scDeadline
        /\ ScriptTo(IF Call.pfs THEN "fork" ELSE "service")
        /\ scLeft' = Call.scripts
        /\ UNCHANGED <<scCall, scFreed>>
  /\ UNCHANGED <<scTimer, scRun, scFails>>

(* exec_module_scripts: after the deadline the scripts are not waited for. *)
EnterModules ==
  /\ InCalls /\ scPc = "enter" /\ Call.who = "modules"
  /\ IF Call.scripts = <<>>
     THEN ReturnFromCall
     ELSE ScriptTo(IF Call.pfs /\ scDeadline = "ahead" THEN "fork" ELSE "service") /\ UNCHANGED scCall
  /\ scLeft' = Call.scripts
  /\ UNCHANGED <<scDeadline, scTimer, scRun, scFails, scFreed>>

(* PFS_SETUP in the thread: without a runner the call is over. *)
ForkRunner ==
  /\ scPc = "fork"
  /\ \E ok \in BOOLEAN :
       /\ Forks(ok)
       /\ IF ok THEN ScriptTo("timer") /\ UNCHANGED <<scCall, scFreed>>
                ELSE ReturnFromCall /\ scFreed' = scFreed \cup {"skipped"}
  /\ UNCHANGED <<scLeft, scDeadline, scTimer, scRun>>

(* PFS_SETUP in the runner. *)
ForkTimer ==
  /\ scPc = "timer"
  /\ \E ok \in BOOLEAN :
       /\ Forks(ok)
       /\ scTimer' = IF ok THEN "counting" ELSE "none"
       /\ scFreed' = IF ok THEN scFreed ELSE scFreed \cup {"untimed"}
  /\ ScriptTo("next")
  /\ UNCHANGED <<scCall, scLeft, scDeadline, scRun>>

(* exec_command of the next script, and the head of PFS_WAIT. *)
StartScript ==
  /\ scPc = "next" /\ scLeft # <<>>
  /\ \E ok \in BOOLEAN :
       /\ Forks(ok)
       /\ scRun' = [scRun EXCEPT ![Head(scLeft)] = IF ok THEN "running" ELSE "failed"]
  /\ scLeft' = Tail(scLeft)
  /\ ScriptTo(IF scTimer = "none" THEN "next" ELSE "wait")
  /\ UNCHANGED <<scCall, scDeadline, scTimer, scFreed>>

(* Mutant: waitpid does not hang. *)
WaitAnyNoHang ==
  /\ scPc = "wait"
  /\ ScriptTo("next")
  /\ UNCHANGED <<scCall, scLeft, scDeadline, scTimer, scRun, scFails, scFreed>>

(* Mutant: waitpid is given the script's own pid. *)
WaitForScript ==
  /\ scPc = "wait"
  /\ \E s \in ScriptsOf(scCall) : scRun[s] = "ended" /\ scRun' = [scRun EXCEPT ![s] = "reaped"]
  /\ ScriptTo("next")
  /\ UNCHANGED <<scCall, scLeft, scDeadline, scTimer, scFails, scFreed>>

(* PFS_WAIT: waitpid(-1) takes a child that has ended, whichever it is. *)
WaitAny ==
  /\ scPc = "wait"
  /\ \/ \E s \in ScriptsOf(scCall) :
          scRun[s] = "ended" /\ scRun' = [scRun EXCEPT ![s] = "reaped"] /\ UNCHANGED scTimer
     \/ scTimer = "fired" /\ scTimer' = "none" /\ UNCHANGED scRun
  /\ ScriptTo("next")
  /\ UNCHANGED <<scCall, scLeft, scDeadline, scFails, scFreed>>

(* PFS_DONE: the timer is killed, the runner exits and the thread goes on. *)
RunnerDone ==
  /\ scPc = "next" /\ scLeft = <<>>
  /\ scTimer' = "none"
  /\ ReturnFromCall
  /\ UNCHANGED <<scLeft, scDeadline, scRun, scFails, scFreed>>

(* The loop of the service stage, with fork_dont_care. *)
StartDetached ==
  /\ scPc = "service"
  /\ IF scLeft = <<>>
     THEN ReturnFromCall /\ UNCHANGED <<scLeft, scRun, scFails>>
     ELSE /\ \E ok \in BOOLEAN :
               Forks(ok) /\ scRun' = [scRun EXCEPT ![Head(scLeft)] = IF ok THEN "running" ELSE "failed"]
          /\ scLeft' = Tail(scLeft)
          /\ UNCHANGED <<scCall, scPc>>
  /\ UNCHANGED <<scDeadline, scTimer, scFreed>>

-----------------------------------------------------------------------------
TimeIsUp ==
  /\ scDeadline = "ahead" /\ scDeadline' = "past"
  /\ UNCHANGED <<scCall, scPc, scLeft, scTimer, scRun, scFails, scFreed>>

(* The timer process: clock_nanosleep to the deadline, then exit. *)
TimerExits ==
  /\ scTimer = "counting" /\ scDeadline = "past"
  /\ scTimer' = "fired"
  /\ UNCHANGED <<scCall, scPc, scLeft, scDeadline, scRun, scFails, scFreed>>

ScriptEnds ==
  /\ \E s \in BootScripts : scRun[s] = "running" /\ scRun' = [scRun EXCEPT ![s] = "ended"]
  /\ UNCHANGED <<scCall, scPc, scLeft, scDeadline, scTimer, scFails, scFreed>>

RunnerStep ==
  \/ EnterCommon \/ EnterModules \/ ForkRunner \/ ForkTimer
  \/ StartScript \/ WaitAny \/ RunnerDone \/ StartDetached

NextScripts == RunnerStep \/ TimeIsUp \/ TimerExits \/ ScriptEnds

(* The processes are scheduled and the clock goes on; of the scripts        *)
(* nothing is assumed.                                                      *)
ScriptFairness == WF_scriptVars(RunnerStep) /\ WF_scriptVars(TimeIsUp) /\ WF_scriptVars(TimerExits)

SpecScripts == InitScripts /\ [][NextScripts]_scriptVars /\ ScriptFairness

-----------------------------------------------------------------------------
Running == {s \in Blocking : scRun[s] = "running"}
Behind == UNION {ScriptsOf(i) : i \in {j \in DOMAIN ScriptCalls : j < scCall /\ ScriptCalls[j].pfs}}

(* Until the time is up the scripts of post-fs-data run one at a time, over *)
(* both calls, and the boot is not past a call with one of its scripts      *)
(* still running, even when the start of some of them failed: only a timer  *)
(* that could not be started, or a missing directory, lets them overlap.    *)
(* And a script that took too long costs no other script its run.           *)
ScriptsInTurn ==
  /\ (scDeadline = "ahead" /\ "untimed" \notin scFreed) => Cardinality(Running) <= 1 /\ Running \cap Behind = {}
  /\ (~InCalls /\ "skipped" \notin scFreed) => \A s \in Blocking : scRun[s] # "todo"

(* However long scripts run, a call the thread has entered comes back: the *)
(* boot goes on when the time is up.                                       *)
BootNotHeldUp == (scPc # "enter") ~> (scPc = "enter")
=============================================================================
