----------------------------- MODULE BootProofs -----------------------------
(***************************************************************************)
(* Proofs about the boot: magiskinit's hand-over of the SELinux policy     *)
(* (SepolicyHandoff) and its stages (InitStages), the scripts of a boot    *)
(* (BootScripts) and the boot stages of the daemon (BootStages), for every *)
(* set of strategies, overlays and devices, list of calls, set of modules  *)
(* and choice of failures.                                                 *)
(***************************************************************************)
EXTENDS SepolicyHandoff, InitStages, BootScripts, BootStages, FiniteSetTheorems, TLAPS

-----------------------------------------------------------------------------
(* The hand-over of the policy *)

HelperStates == {"none", "wait_selinuxfs", "mock", "open_version", "size", "open_ack",
                 "open_enforce", "load", "answer", "exit", "stray"}

HandoffType ==
    /\ shStrat \in Strategies
    /\ shParent \in {"setup", "forked", "overlaid", "exec"}
    /\ shInit \in {"none", "mount", "version", "load", "wait", "blocked", "go"}
    /\ shHelper \in HelperStates
    /\ shCopy \in 0..AllWritten /\ shSize \in 0..AllWritten
    /\ shKernel \in {"none", "stock", "patched", "broken"}

\* init runs once magiskinit has become it, and the helper once it was forked.
StartedInOrder ==
    /\ shParent # "exec" => shInit = "none"
    /\ shParent = "setup" => shHelper = "none"

\* Without a helper nothing is in the way of init, and nobody answers it.
NoHelper ==
    shHelper = "none" =>
        /\ shMocks = {} /\ shCopy = 0 /\ shInit \notin {"wait", "blocked"}
        /\ shKernel # "patched" /\ ~IsOpen("version", "helper")

\* Each strategy has its own way through the helper.
WayOfStrategy ==
    /\ shHelper = "open_ack" => shStrat = "LdPreload"
    /\ shHelper = "open_enforce" => shStrat = "SelinuxFs"
    /\ shHelper \in {"wait_selinuxfs", "mock", "open_version", "size"} => shStrat = "Legacy"

\* Who waits has written all; who has opened the node to wait at is waiting.
WaitsWithAll ==
    /\ shInit = "load" => shCopy < AllWritten
    /\ shInit \in {"none", "mount", "version"} => shCopy = 0
    /\ shInit \in {"wait", "blocked"} => shCopy = AllWritten
    /\ IsOpen(WaitNode, "init") => shInit \in {"blocked", "go"} /\ shCopy = AllWritten

\* The policy that is loaded is the whole one, and init has come to wait by then.
LoadsAll ==
    /\ shHelper \in {"load", "answer", "exit"} \/ shKernel = "patched" =>
           shCopy = AllWritten /\ shInit \in {"blocked", "go"}
    /\ shHelper \in {"answer", "exit"} \/ IsOpen(WaitNode, "answered") => shKernel = "patched"
    /\ shKernel # "broken"

\* Until the patched policy is loaded, what makes init write its policy for Magisk and
\* wait is in place: from the start or, for the legacy init, before it may go on from the
\* version file.
InTheWay ==
    shHelper # "none" =>
        /\ shStrat = "LdPreload" => "security_load_policy" \in shMocks
        /\ shStrat = "SelinuxFs" /\ shKernel # "patched" => {"load", "enforce"} \subseteq shMocks
        /\ shStrat = "Legacy" =>
             /\ "version" \in shMocks \/ IsOpen("version", "helper")
             /\ shInit \in {"load", "wait", "blocked", "go"} => IsOpen("version", "helper")
             /\ shHelper \in {"wait_selinuxfs", "mock"} => ~IsOpen("version", "helper")
             /\ shHelper \in {"size", "load", "answer", "exit"} => IsOpen("version", "helper")
             /\ IsOpen("version", "helper") \/ shHelper = "open_version" =>
                    {"load", "checkreqprot"} \subseteq shMocks \/ shKernel = "patched"

HandoffInv ==
    /\ HandoffType /\ StartedInOrder /\ NoHelper /\ WayOfStrategy
    /\ WaitsWithAll /\ LoadsAll /\ InTheWay
    /\ PatchedBeforeInitGoesOn

\* What init waits at, by strategy.
LEMMA WaitNodes ==
    ASSUME shStrat \in Strategies
    PROVE  /\ shStrat \in {"LdPreload", "SelinuxFs", "Legacy"}
           /\ shStrat = "LdPreload" => WaitNode = "ack"
           /\ shStrat = "SelinuxFs" => WaitNode = "enforce"
           /\ shStrat = "Legacy" => WaitNode = "checkreqprot"
  BY HandoffAssumption DEF WaitNode

LEMMA InitHandoffInv == InitHandoff => HandoffInv
  BY HandoffAssumption
  DEF InitHandoff, HandoffInv, HandoffType, StartedInOrder, NoHelper, WayOfStrategy, WaitsWithAll,
      LoadsAll, InTheWay, PatchedBeforeInitGoesOn, IsOpen, AllWritten, HelperStates

\* Every step keeps HandoffInv, given that init gets on promptly or that there is no
\* legacy init, whose helper can only guess from the size that all is written.
LEMMA NextHandoffInv ==
    ASSUME PromptInit \/ "Legacy" \notin Strategies,
           HandoffInv, [NextHandoff]_handoffVars
    PROVE  HandoffInv'
  <1> USE DEF HandoffInv, HandoffType, StartedInOrder, NoHelper, WayOfStrategy, WaitsWithAll,
              LoadsAll, InTheWay, PatchedBeforeInitGoesOn, IsOpen, AllWritten, HelperStates,
              InitTo, HelperTo, Opened, Meets, InitUnchanged, HelperUnchanged
  <1>1. /\ shStrat \in {"LdPreload", "SelinuxFs", "Legacy"}
        /\ shStrat = "LdPreload" => WaitNode = "ack"
        /\ shStrat = "SelinuxFs" => WaitNode = "enforce"
        /\ shStrat = "Legacy" => WaitNode = "checkreqprot"
    BY WaitNodes
  <1>2. shStrat' = shStrat /\ WaitNode' = WaitNode
    BY DEF NextHandoff, SetupHijack, MountOverlay, ExecInit, InitStep, InitMount, InitVersion,
           InitLoad, InitWait, InitUnblocked, HelperStep, HelperWaitFs, HelperMock, HelperVersion,
           HelperSize, HelperOpen, HelperLoad, HelperAnswer, HelperFails, WaitNode, handoffVars
  <1>3. ASSUME NEW ok \in BOOLEAN, SetupHijack(ok) PROVE HandoffInv'
    <2>1. CASE ~ok
      BY <1>1, <1>2, <1>3, <2>1 DEF SetupHijack
    <2>2. CASE ok /\ shStrat = "LdPreload"
      BY <1>1, <1>2, <1>3, <2>2 DEF SetupHijack
    <2>3. CASE ok /\ shStrat = "SelinuxFs"
      BY <1>1, <1>2, <1>3, <2>3 DEF SetupHijack
    <2>4. CASE ok /\ shStrat = "Legacy"
      BY <1>1, <1>2, <1>3, <2>4 DEF SetupHijack
    <2> QED BY <1>1, <2>1, <2>2, <2>3, <2>4
  <1>4. CASE MountOverlay
    BY <1>1, <1>2, <1>4 DEF MountOverlay
  <1>5. CASE ExecInit
    BY <1>1, <1>2, <1>5 DEF ExecInit
  <1>6. CASE InitMount
    BY <1>1, <1>2, <1>6 DEF InitMount
  <1>7. CASE InitVersion
    BY <1>1, <1>2, <1>7 DEF InitVersion
  <1>8. CASE InitLoad
    BY <1>1, <1>2, <1>8 DEF InitLoad
  <1>9. CASE InitWait
    BY <1>1, <1>2, <1>9 DEF InitWait, IsPipe
  <1>10. CASE InitUnblocked
    BY <1>1, <1>2, <1>10 DEF InitUnblocked
  <1>11. CASE HelperWaitFs
    BY <1>1, <1>2, <1>11 DEF HelperWaitFs
  <1>12. CASE HelperMock
    BY <1>1, <1>2, <1>12 DEF HelperMock
  <1>13. CASE HelperVersion
    BY <1>1, <1>2, <1>13 DEF HelperVersion
  <1>14. CASE HelperSize
    BY <1>1, <1>2, <1>14 DEF HelperSize
  <1>15. CASE HelperOpen
    BY <1>1, <1>2, <1>15 DEF HelperOpen
  <1>16. CASE HelperLoad
    BY <1>1, <1>2, <1>16 DEF HelperLoad
  <1>17. CASE HelperAnswer
    BY <1>1, <1>2, <1>17 DEF HelperAnswer
  <1>18. CASE HelperFails
    BY <1>1, <1>2, <1>18 DEF HelperFails
  <1>19. CASE UNCHANGED handoffVars
    BY <1>1, <1>2, <1>19 DEF handoffVars
  <1> QED
    BY <1>3, <1>4, <1>5, <1>6, <1>7, <1>8, <1>9, <1>10, <1>11, <1>12, <1>13, <1>14, <1>15,
       <1>16, <1>17, <1>18, <1>19
    DEF NextHandoff, InitStep, HelperStep

\* init goes on only with the whole policy, patched, in the kernel, unless Magisk has given
\* up, and half a policy is never loaded (handle_sepolicy_impl): for every strategy whose
\* helper is told by init that the policy is complete, and for the legacy one, whose helper
\* looks at the size of a growing file, if init gets on within the 100 ms it is given.
THEOREM HandoffSafe ==
    ASSUME PromptInit \/ "Legacy" \notin Strategies
    PROVE  SpecHandoff => []PatchedBeforeInitGoesOn
  <1>1. InitHandoff => HandoffInv
    BY InitHandoffInv
  <1>2. HandoffInv /\ [NextHandoff]_handoffVars => HandoffInv'
    BY NextHandoffInv
  <1>3. HandoffInv => PatchedBeforeInitGoesOn
    BY DEF HandoffInv
  <1> QED BY <1>1, <1>2, <1>3, PTL DEF SpecHandoff

-----------------------------------------------------------------------------
(* The stages of the boot *)

Places == {"/proc", "/sys", "/dev", "/data"}
Mounted(s) == {s[i] : i \in DOMAIN s}

Stages == {"first_stage", "second_stage", "legacy_system_as_root", "rootfs", "recovery"}

StageType ==
    /\ inDev \in BootDevices
    /\ inPc \in Stages \cup {"kernel", "selinux_setup", "exec", "init", "system", "panic"}
    /\ inInit \in {"magiskinit", "device", "patched", "link"}
    /\ inSecond \in {"device", "magiskinit"}
    /\ inMounts \in Seq(Places)
    /\ inPatched \in 0..1

\* What is mounted is on the list, and the list is empty whenever process 1 is not
\* magiskinit or has only just become it.
MountsListed ==
    /\ inLeft \subseteq Mounted(inMounts)
    /\ inPc \in {"kernel", "selinux_setup", "second_stage", "init", "system"} => inMounts = <<>>
    /\ inPc # "exec" \/ (inPatched = 0 /\ inInit = "patched") => "/data" \notin Mounted(inMounts)

\* Until the first stage has run, everything is as the kernel found it; a stage is chosen
\* for the devices it is for.
StageFits ==
    /\ inPc \in {"kernel", "first_stage", "legacy_system_as_root", "rootfs", "recovery"} =>
           /\ inInit = "magiskinit" /\ inSecond = "device"
           /\ inPatched = 0
    /\ inPc = "first_stage" => HasSecondStage /\ ~inDev.skip_initramfs
    /\ inPc = "legacy_system_as_root" => inDev.skip_initramfs
    /\ inPc = "rootfs" => ~inDev.two_stage /\ ~IntoRecovery
    /\ inPc = "recovery" => IntoRecovery
    /\ inPc \in {"selinux_setup", "second_stage"} => HasSecondStage /\ inPatched = 0

\* The second stage will be magiskinit's: the path /init holds, or what is at /sdcard.
TakenOver ==
    \/ inInit = "patched" /\ inData
    \/ ~inDev.sdcard /\ inSdcard = "magiskinit"

\* When the device's init is about to run, or runs, it is the device's own; the root is
\* patched, or it is a recovery, or the second stage is taken over where it can be.
HandedOver ==
    inPc \in {"exec", "init"} =>
        /\ inInit \in {"device", "patched", "link"} /\ inSecond = "device"
        /\ inPatched = 1 => ~IntoRecovery
        /\ inPatched = 0 => HasSecondStage \/ IntoRecovery
        /\ inPatched = 0 /\ HasSecondStage /\ Reachable => TakenOver

StageInv == StageType /\ MountsListed /\ StageFits /\ HandedOver /\ SystemTakesOver

\* What is on a list of mounts, an empty one and one more mount added.
LEMMA MountedNone == <<>> \in Seq(Places) /\ Mounted(<<>>) = {}
  BY DEF Mounted

LEMMA MountedAdd ==
    ASSUME NEW s \in Seq(Places), NEW m \in Places
    PROVE  /\ Append(s, m) \in Seq(Places)
           /\ Mounted(Append(s, m)) = Mounted(s) \cup {m}
  <1>1. /\ Append(s, m) \in Seq(Places)
        /\ DOMAIN Append(s, m) = 1..(Len(s) + 1) /\ DOMAIN s = 1..Len(s) /\ Len(s) \in Nat
        /\ \A i \in DOMAIN s : Append(s, m)[i] = s[i]
        /\ Append(s, m)[Len(s) + 1] = m
    OBVIOUS
  <1>2. \A x : x \in Mounted(Append(s, m)) <=> x \in Mounted(s) \/ x = m
    <2> TAKE x
    <2>1. ASSUME x \in Mounted(Append(s, m)) PROVE x \in Mounted(s) \/ x = m
      <3>1. PICK i \in 1..(Len(s) + 1) : Append(s, m)[i] = x
        BY <1>1, <2>1 DEF Mounted
      <3>2. CASE i = Len(s) + 1
        BY <1>1, <3>1, <3>2
      <3>3. CASE i \in 1..Len(s)
        BY <1>1, <3>1, <3>3 DEF Mounted
      <3> QED BY <1>1, <3>2, <3>3
    <2>2. ASSUME x \in Mounted(s) PROVE x \in Mounted(Append(s, m))
      <3>1. PICK i \in DOMAIN s : s[i] = x
        BY <2>2 DEF Mounted
      <3>2. i \in DOMAIN Append(s, m) /\ Append(s, m)[i] = x
        BY <1>1, <3>1
      <3> QED BY <3>2 DEF Mounted
    <2>3. m \in Mounted(Append(s, m))
      <3>1. Len(s) + 1 \in DOMAIN Append(s, m)
        BY <1>1
      <3> QED BY <1>1, <3>1 DEF Mounted
    <2> QED BY <2>1, <2>2, <2>3
  <1> QED BY <1>1, <1>2

\* The list of legacy_system_as_root, and those that Start and second_stage make.
LEMMA MountedTwo ==
    ASSUME NEW s \in Seq(Places), NEW m \in Places, NEW n \in Places
    PROVE  /\ s \o <<m, n>> \in Seq(Places)
           /\ Mounted(s \o <<m, n>>) = Mounted(s) \cup {m, n}
  <1>1. s \o <<m, n>> = Append(Append(s, m), n)
    OBVIOUS
  <1>2. Append(s, m) \in Seq(Places) /\ Mounted(Append(s, m)) = Mounted(s) \cup {m}
    BY MountedAdd
  <1>3. /\ Append(Append(s, m), n) \in Seq(Places)
        /\ Mounted(Append(Append(s, m), n)) = Mounted(Append(s, m)) \cup {n}
    BY <1>2, MountedAdd
  <1> QED BY <1>1, <1>2, <1>3

LEMMA MountedShort ==
    /\ <<"/proc", "/sys">> \in Seq(Places) /\ Mounted(<<"/proc", "/sys">>) = {"/proc", "/sys"}
    /\ <<"/data">> \in Seq(Places) /\ Mounted(<<"/data">>) = {"/data"}
  <1>1. Mounted(<<"/proc", "/sys">>) = {"/proc", "/sys"}
    BY DEF Mounted
  <1>2. Mounted(<<"/data">>) = {"/data"}
    BY DEF Mounted
  <1> QED BY <1>1, <1>2 DEF Places

LEMMA InitStageInv == InitStart => StageInv
  <1> SUFFICES ASSUME InitStart PROVE StageInv
    OBVIOUS
  <1>1. StageType
    BY MountedNone DEF InitStart, StageType, Stages
  <1>2. MountsListed
    BY MountedNone DEF InitStart, MountsListed
  <1>3. StageFits /\ HandedOver /\ SystemTakesOver
    BY DEF InitStart, StageFits, HandedOver, SystemTakesOver
  <1> QED BY <1>1, <1>2, <1>3 DEF StageInv

\* Every step of magiskinit and of the device's init keeps StageInv.
LEMMA NextStageInv ==
    ASSUME StageInv, [NextStart]_initVars
    PROVE  StageInv'
  <1> USE DEF StageInv, StageType, MountsListed, StageFits, HandedOver, SystemTakesOver, TakenOver,
              HasSecondStage, IntoRecovery, Reachable, Stages
  <1>1. /\ inDev \in [skip_initramfs : BOOLEAN, force_normal_boot : BOOLEAN, recovery : BOOLEAN,
                      two_stage : BOOLEAN, backup : BOOLEAN, sdcard : BOOLEAN, names_init : BOOLEAN,
                      mounted : BOOLEAN]
        /\ (inDev.force_normal_boot \/ ~inDev.backup) => inDev.two_stage
        /\ (inDev.sdcard \/ inDev.names_init) => inDev.two_stage
    BY DeviceAssumption
  <1>2. "/proc" \in Places /\ "/sys" \in Places /\ "/dev" \in Places /\ "/data" \in Places
    BY DEF Places
  <1>3. CASE Start(TRUE)
    BY <1>1, <1>3 DEF Start, StartStage
  <1>4. CASE Start(FALSE)
    <2>1. /\ inMounts' \in Seq(Places) /\ inLeft' \subseteq Mounted(inMounts')
          /\ "/data" \notin Mounted(inMounts')
      <3>1. inMounts = <<>> /\ inLeft = {}
        BY <1>4, MountedNone DEF Start
      <3>2. CASE inDev.mounted
        BY <1>4, <3>1, <3>2, MountedNone DEF Start
      <3>3. CASE ~inDev.mounted
        BY <1>4, <3>1, <3>3, MountedShort DEF Start
      <3> QED BY <3>2, <3>3
    <2>2. /\ UNCHANGED <<inDev, inInit, inSecond, inSdcard, inData, inPatched>>
          /\ inPc' \in Stages /\ inPc' # "second_stage"
          /\ inPc' = "first_stage" => HasSecondStage /\ ~inDev.skip_initramfs
          /\ inPc' = "legacy_system_as_root" => inDev.skip_initramfs
          /\ inPc' = "rootfs" => ~inDev.two_stage /\ ~IntoRecovery
          /\ inPc' = "recovery" => IntoRecovery
      BY <1>1, <1>4 DEF Start, StartStage, TwoStage
    <2>3. inPc = "kernel"
      BY <1>4 DEF Start
    <2> QED BY <2>1, <2>2, <2>3
  <1>5. CASE first_stage
    BY <1>1, <1>5 DEF first_stage, PrepareData, Hijack, Hexpatched, RestoredInit
  <1>6. CASE second_stage
    BY <1>1, <1>6, MountedShort, MountedNone DEF second_stage
  <1>7. CASE legacy_system_as_root
    <2>1. /\ Append(inMounts, "/dev") \in Seq(Places)
          /\ Mounted(Append(inMounts, "/dev")) = Mounted(inMounts) \cup {"/dev"}
      BY <1>2, MountedAdd
    <2>2. /\ inMounts \o <<"/dev", "/data">> \in Seq(Places)
          /\ Mounted(inMounts \o <<"/dev", "/data">>) = Mounted(inMounts) \cup {"/dev", "/data"}
      BY <1>2, MountedTwo
    <2>3. CASE inDev.two_stage
      BY <1>1, <1>7, <2>1, <2>3 DEF legacy_system_as_root, PrepareData, Hexpatched, Add
    <2>4. CASE ~inDev.two_stage
      <3>1. /\ inInit' = "device" /\ inPatched' = 1 /\ inPc' = "exec"
            /\ inMounts' = inMounts \o <<"/dev", "/data">> /\ inLeft' = inLeft \cup {"/dev", "/data"}
            /\ inDev.skip_initramfs /\ inSecond = "device" /\ UNCHANGED <<inDev, inSecond>>
        BY <1>7, <2>4 DEF legacy_system_as_root
      <3>2. StageType' /\ MountsListed'
        BY <2>2, <3>1
      <3> QED BY <1>1, <3>1, <3>2
    <2> QED BY <2>3, <2>4
  <1>8. CASE NoRootPartition
    BY <1>1, <1>8 DEF NoRootPartition
  <1>9. CASE rootfs
    BY <1>1, <1>2, <1>9, MountedAdd DEF rootfs, PrepareData, RestoredInit, Add
  <1>10. CASE recovery
    BY <1>1, <1>10 DEF recovery, RestoredInit
  <1>11. CASE exec_init
    BY <1>1, <1>11, MountedNone DEF exec_init, Mounted
  <1>12. CASE DeviceInit
    <2>1. CASE HasSecondStage /\ inPatched = 0
      BY <1>1, <1>12, <2>1, MountedNone DEF DeviceInit
    <2>2. CASE ~(HasSecondStage /\ inPatched = 0)
      BY <1>1, <1>12, <2>2, MountedNone DEF DeviceInit
    <2> QED BY <2>1, <2>2
  <1>13. CASE UNCHANGED initVars
    BY <1>13 DEF initVars
  <1> QED
    BY <1>3, <1>4, <1>5, <1>6, <1>7, <1>8, <1>9, <1>10, <1>11, <1>12, <1>13 DEF NextStart

\* On every device DeviceAssumption allows, the system that comes up was patched exactly
\* once (a recovery never) wherever magiskinit can get at the second stage, process 1 is
\* the device's own init, and no stand-in for /system/bin/init and no early mount is left
\* behind (start, exec_init).
THEOREM StagesSafe == SpecStart => []SystemTakesOver
  <1>1. InitStart => StageInv
    BY InitStageInv
  <1>2. StageInv /\ [NextStart]_initVars => StageInv'
    BY NextStageInv
  <1>3. StageInv => SystemTakesOver
    BY DEF StageInv
  <1> QED BY <1>1, <1>2, <1>3, PTL DEF SpecStart

-----------------------------------------------------------------------------
(* The scripts of a boot *)

ScriptType ==
    /\ scCall \in Nat \ {0}
    /\ scPc \in {"enter", "fork", "service", "timer", "next", "wait"}
    /\ scPc # "enter" => InCalls /\ scLeft \in Seq(ScriptsOf(scCall))
    /\ scDeadline \in {"unset", "ahead", "past"}
    /\ scTimer \in {"none", "counting", "fired"}
    /\ scRun \in [BootScripts -> {"todo", "running", "ended", "reaped", "failed"}]
    /\ scPc = "enter" /\ scCall = 1 => scRun = [s \in BootScripts |-> "todo"]

\* Scripts of post-fs-data that are the runner's children still.
Children == {s \in Blocking : scRun[s] \in {"running", "ended"}}

\* Until the time is up the runner has its timer, and at most one other child: the
\* script of the current call it is waiting for.
OneChild ==
    (scDeadline = "ahead" /\ "untimed" \notin scFreed) =>
        /\ scPc \in {"next", "wait"} => scTimer = "counting"
        /\ scPc = "service" => ~Call.pfs
        /\ \A s \in Children : scPc = "wait" /\ s \in ScriptsOf(scCall)
        /\ \A s, t \in Children : s = t

TimerKeepsTime ==
    /\ scTimer = "fired" => scDeadline = "past"
    /\ scPc \notin {"next", "wait"} => scTimer = "none"

\* A script of the call that was not started is still on the list; no call that is over
\* has one.
NoneForgotten ==
    "skipped" \notin scFreed =>
        /\ scPc # "enter" =>
             \A s \in ScriptsOf(scCall) : scRun[s] = "todo" => \E n \in DOMAIN scLeft : scLeft[n] = s
        /\ \A s \in Behind : scRun[s] # "todo"

ScriptInv == ScriptType /\ OneChild /\ TimerKeepsTime /\ NoneForgotten

\* No script belongs to two calls.
LEMMA CallsDisjoint ==
    ASSUME NEW i \in DOMAIN ScriptCalls, NEW j \in DOMAIN ScriptCalls,
           NEW s \in ScriptsOf(i), s \in ScriptsOf(j)
    PROVE  i = j
  BY ScriptsOnce DEF ScriptsOf

LEMMA CallTyped ==
    ASSUME NEW i \in DOMAIN ScriptCalls
    PROVE  /\ ScriptCalls[i].who \in {"common", "modules"} /\ ScriptCalls[i].pfs \in BOOLEAN
           /\ ScriptCalls[i].scripts \in Seq(ScriptsOf(i))
           /\ ScriptsOf(i) \subseteq BootScripts
           /\ ScriptCalls[i].pfs => ScriptsOf(i) \subseteq Blocking
           /\ \A s \in ScriptsOf(i) : s \in Blocking => ScriptCalls[i].pfs
           /\ ScriptCalls[i].pfs /\ ScriptCalls[i].who = "common" => i = 1
  <1>1. \A s \in ScriptsOf(i) : s \in Blocking => ScriptCalls[i].pfs
    BY CallsDisjoint DEF Blocking
  <1> QED BY <1>1, CallsInOrder DEF BootScripts, Blocking

\* What a script on the list is, and what is left when the first is taken from it.
LEMMA TakeScript ==
    ASSUME NEW S, NEW q \in Seq(S), q # <<>>
    PROVE  /\ Head(q) \in S /\ Tail(q) \in Seq(S)
           /\ \A n \in DOMAIN q : q[n] = Head(q) \/ \E k \in DOMAIN Tail(q) : Tail(q)[k] = q[n]
  <1>1. Head(q) \in S /\ Tail(q) \in Seq(S) /\ Len(q) \in Nat /\ Len(q) > 0 /\ DOMAIN q = 1..Len(q)
        /\ DOMAIN Tail(q) = 1..(Len(q) - 1) /\ \A k \in 1..(Len(q) - 1) : Tail(q)[k] = q[k + 1]
    OBVIOUS
  <1>2. ASSUME NEW n \in DOMAIN q, n # 1 PROVE \E k \in DOMAIN Tail(q) : Tail(q)[k] = q[n]
    <2>1. n - 1 \in 1..(Len(q) - 1) /\ (n - 1) + 1 = n
      BY <1>1, <1>2
    <2> QED BY <1>1, <2>1
  <1> QED BY <1>1, <1>2

LEMMA InitScriptInv == InitScripts => ScriptInv
  <1> SUFFICES ASSUME InitScripts PROVE ScriptInv
    OBVIOUS
  <1>1. \A s \in Blocking : s \in BootScripts
    BY DEF Blocking, BootScripts
  <1>2. Children = {} /\ Behind = {}
    BY <1>1, CallsInOrder DEF InitScripts, Children, Behind
  <1> QED
    BY <1>2 DEF InitScripts, ScriptInv, ScriptType, OneChild, TimerKeepsTime, NoneForgotten

\* The next call begins: what was true of the call holds of the ones behind.
LEMMA ReturnKeeps ==
    ASSUME ScriptInv, InCalls, ReturnFromCall, Children = {} \/ scDeadline # "ahead" \/ "untimed" \in scFreed,
           UNCHANGED <<scDeadline, scRun>>, scTimer' = "none", scFreed \subseteq scFreed',
           (Call.pfs /\ "skipped" \notin scFreed') => \A s \in ScriptsOf(scCall) : scRun[s] # "todo"
    PROVE  ScriptInv'
  <1>1. ScriptType'
    BY DEF ScriptInv, ScriptType, ReturnFromCall
  <1>2. Children' = Children
    BY DEF Children
  <1>3. OneChild'
    BY <1>2 DEF ScriptInv, OneChild, ReturnFromCall
  <1>4. TimerKeepsTime'
    BY DEF ScriptInv, TimerKeepsTime
  <1>5. Behind' \subseteq Behind \cup (IF Call.pfs THEN ScriptsOf(scCall) ELSE {})
    BY CallsInOrder DEF Behind, ReturnFromCall, Call, ScriptInv, ScriptType
  <1>6. NoneForgotten'
    BY <1>5 DEF ScriptInv, NoneForgotten, ReturnFromCall
  <1> QED BY <1>1, <1>3, <1>4, <1>6 DEF ScriptInv

\* Every step of the runner, the scripts and the clock keeps ScriptInv.
LEMMA NextScriptInv ==
    ASSUME ScriptInv, [NextScripts]_scriptVars
    PROVE  ScriptInv'
  <1> USE DEF ScriptInv
  <1>1. InCalls => /\ scCall \in DOMAIN ScriptCalls
                   /\ Call.scripts \in Seq(ScriptsOf(scCall)) /\ ScriptsOf(scCall) \subseteq BootScripts
                   /\ Call.pfs \in BOOLEAN
                   /\ \A s \in ScriptsOf(scCall) : s \in Blocking <=> Call.pfs
                   /\ Call.pfs /\ Call.who = "common" => scCall = 1
    <2>1. InCalls => scCall \in DOMAIN ScriptCalls
      BY CallsInOrder DEF InCalls, ScriptType
    <2> QED BY <2>1, CallTyped DEF Call
  <1>2. ASSUME NEW l \in Seq(ScriptsOf(scCall)), InCalls, l = Call.scripts
        PROVE  \A s \in ScriptsOf(scCall) : \E n \in DOMAIN l : l[n] = s
    BY <1>2 DEF ScriptsOf, Call
  \* With the first call still to be entered no script was started.
  <1>3. scPc = "enter" /\ scCall = 1 => Children = {}
    <2>1. \A s \in Blocking : s \in BootScripts
      BY DEF Blocking, BootScripts
    <2> QED BY <2>1 DEF ScriptType, Children
  <1>4. CASE EnterCommon
    <2>1. CASE ReturnFromCall /\ UNCHANGED <<scLeft, scDeadline>>
               /\ scFreed' = IF Call.pfs THEN scFreed \cup {"skipped"} ELSE scFreed
      <3>1. Children = {} \/ scDeadline # "ahead" \/ "untimed" \in scFreed
        BY <1>4 DEF EnterCommon, OneChild
      <3> QED BY <1>4, <2>1, <3>1, ReturnKeeps DEF EnterCommon, TimerKeepsTime
    <2>2. CASE /\ scDeadline' = IF Call.pfs THEN "ahead" ELSE scDeadline
               /\ ScriptTo(IF Call.pfs THEN "fork" ELSE "service")
               /\ scLeft' = Call.scripts
               /\ UNCHANGED <<scCall, scFreed>>
      <3>1. UNCHANGED <<scTimer, scRun, scFreed, scCall, Behind, Children, Call>> /\ InCalls /\ scPc = "enter"
            /\ Call.who = "common"
        BY <1>4, <2>2 DEF EnterCommon, Behind, Children, Call
      <3>2. ScriptType' /\ TimerKeepsTime' /\ NoneForgotten'
        BY <1>1, <1>2, <2>2, <3>1 DEF ScriptType, TimerKeepsTime, NoneForgotten, ScriptTo, InCalls
      <3>3. OneChild'
        BY <1>1, <1>3, <2>2, <3>1 DEF OneChild, ScriptTo
      <3> QED BY <3>2, <3>3
    <2> QED BY <1>4, <2>1, <2>2 DEF EnterCommon
  <1>5. CASE EnterModules
    <2>1. Children = {} \/ scDeadline # "ahead" \/ "untimed" \in scFreed
      BY <1>5 DEF EnterModules, OneChild
    <2>2. CASE Call.scripts = <<>>
      <3>1. ScriptsOf(scCall) = {}
        BY <2>2 DEF ScriptsOf, Call
      <3> QED BY <1>5, <2>1, <2>2, <3>1, ReturnKeeps DEF EnterModules, TimerKeepsTime
    <2>3. CASE Call.scripts # <<>>
      <3>1. /\ UNCHANGED <<scTimer, scRun, scFreed, scCall, scDeadline, Behind, Children, Call>>
            /\ InCalls /\ scPc = "enter"
        BY <1>5, <2>3 DEF EnterModules, Behind, Children, Call
      <3>2. ScriptType' /\ TimerKeepsTime' /\ NoneForgotten'
        BY <1>1, <1>2, <1>5, <2>3, <3>1
        DEF EnterModules, ScriptType, TimerKeepsTime, NoneForgotten, ScriptTo, InCalls
      <3>3. OneChild'
        BY <1>1, <1>5, <2>1, <2>3, <3>1 DEF EnterModules, OneChild, ScriptTo
      <3> QED BY <3>2, <3>3
    <2> QED BY <2>2, <2>3
  <1>6. CASE ForkRunner
    <2>1. InCalls /\ scPc = "fork" /\ UNCHANGED <<scLeft, scDeadline, scTimer, scRun>>
      BY <1>6 DEF ForkRunner, ScriptType
    <2>2. CASE ReturnFromCall /\ scFreed' = scFreed \cup {"skipped"}
      <3>1. Children = {} \/ scDeadline # "ahead" \/ "untimed" \in scFreed
        BY <2>1 DEF OneChild
      <3> QED BY <2>1, <2>2, <3>1, ReturnKeeps DEF TimerKeepsTime
    <2>3. CASE ScriptTo("timer") /\ UNCHANGED <<scCall, scFreed>>
      <3>1. UNCHANGED <<Behind, Children, Call>>
        BY <2>1, <2>3 DEF Behind, Children, Call
      <3> QED
        BY <2>1, <2>3, <3>1 DEF ScriptType, OneChild, TimerKeepsTime, NoneForgotten, ScriptTo, InCalls
    <2> QED BY <1>6, <2>2, <2>3 DEF ForkRunner
  <1>7. CASE ForkTimer
    <2>1. InCalls /\ scPc = "timer" /\ scPc' = "next" /\ UNCHANGED <<scCall, scLeft, scDeadline, scRun>>
          /\ \/ scTimer' = "counting" /\ scFreed' = scFreed
             \/ scTimer' = "none" /\ scFreed' = scFreed \cup {"untimed"}
      BY <1>7 DEF ForkTimer, ScriptType, ScriptTo
    <2>2. UNCHANGED <<Behind, Children, Call>>
      BY <2>1 DEF Behind, Children, Call
    <2> QED BY <2>1, <2>2 DEF ScriptType, OneChild, TimerKeepsTime, NoneForgotten, InCalls
  <1>8. CASE StartScript
    <2>1. PICK r \in {"running", "failed"} :
            /\ scRun' = [scRun EXCEPT ![Head(scLeft)] = r]
            /\ InCalls /\ scPc = "next" /\ scLeft # <<>> /\ scLeft \in Seq(ScriptsOf(scCall))
            /\ scLeft' = Tail(scLeft) /\ scPc' = (IF scTimer = "none" THEN "next" ELSE "wait")
            /\ UNCHANGED <<scCall, scDeadline, scTimer, scFreed, Call>>
      BY <1>8 DEF StartScript, ScriptType, ScriptTo, Call
    <2>2. /\ Head(scLeft) \in ScriptsOf(scCall) /\ Tail(scLeft) \in Seq(ScriptsOf(scCall))
          /\ \A n \in DOMAIN scLeft : \/ scLeft[n] = Head(scLeft)
                                      \/ \E k \in DOMAIN Tail(scLeft) : Tail(scLeft)[k] = scLeft[n]
      BY <2>1, TakeScript
    <2>3. Head(scLeft) \in BootScripts
      BY <1>1, <2>1, <2>2
    <2>4. /\ scRun' \in [BootScripts -> {"todo", "running", "ended", "reaped", "failed"}]
          /\ scRun'[Head(scLeft)] = r
          /\ \A s \in BootScripts \ {Head(scLeft)} : scRun'[s] = scRun[s]
      BY <2>1, <2>3 DEF ScriptType
    <2>5. ScriptType' /\ TimerKeepsTime'
      BY <2>1, <2>2, <2>4 DEF ScriptType, TimerKeepsTime, InCalls
    <2>6. OneChild'
      <3>1. \A s \in Blocking : s \in BootScripts
        BY DEF Blocking, BootScripts
      <3>2. Children' \subseteq Children \cup {Head(scLeft)}
        BY <2>4, <3>1 DEF Children
      <3> QED BY <2>1, <2>2, <3>2 DEF OneChild
    <2>7. NoneForgotten'
      <3>1. Behind' = Behind /\ Behind \subseteq BootScripts
        BY <2>1 DEF Behind, BootScripts
      <3> QED BY <1>1, <2>1, <2>2, <2>4, <3>1 DEF NoneForgotten
    <2> QED BY <2>5, <2>6, <2>7
  <1>9. CASE WaitAny
    <2>1. InCalls /\ scPc = "wait" /\ scPc' = "next"
          /\ UNCHANGED <<scCall, scLeft, scDeadline, scFreed, Call, Behind>>
      BY <1>9 DEF WaitAny, ScriptType, ScriptTo, Call, Behind
    <2>2. ASSUME NEW s \in ScriptsOf(scCall), scRun[s] = "ended", scRun' = [scRun EXCEPT ![s] = "reaped"],
                 UNCHANGED scTimer
          PROVE  ScriptInv'
      <3>1. s \in BootScripts
        BY <1>1, <2>1
      <3>2. /\ scRun' \in [BootScripts -> {"todo", "running", "ended", "reaped", "failed"}]
            /\ scRun'[s] = "reaped" /\ \A t \in BootScripts \ {s} : scRun'[t] = scRun[t]
        BY <2>2, <3>1 DEF ScriptType
      <3>3. \A t \in Blocking : t \in BootScripts
        BY DEF Blocking, BootScripts
      <3>4. Children' = Children \ {s}
        BY <3>2, <3>3 DEF Children
      <3>5. s \in Children \/ ~Call.pfs
        BY <1>1, <2>1, <2>2 DEF Children
      <3>6. OneChild'
        BY <1>1, <2>1, <2>2, <3>4, <3>5 DEF OneChild, Children
      <3>7. NoneForgotten'
        <4>1. Behind \subseteq BootScripts
          BY DEF Behind, BootScripts
        <4> QED BY <1>1, <2>1, <3>2, <4>1 DEF NoneForgotten
      <3> QED BY <2>1, <2>2, <3>2, <3>6, <3>7 DEF ScriptType, TimerKeepsTime, InCalls
    <2>3. CASE scTimer = "fired" /\ scTimer' = "none" /\ UNCHANGED scRun
      <3>1. Children' = Children
        BY <2>3 DEF Children
      <3> QED BY <2>1, <2>3, <3>1 DEF ScriptType, OneChild, TimerKeepsTime, NoneForgotten, InCalls
    <2> QED BY <1>9, <2>2, <2>3 DEF WaitAny
  <1>10. CASE RunnerDone
    <2>1. InCalls /\ scPc = "next" /\ scLeft = <<>>
      BY <1>10 DEF RunnerDone, ScriptType
    <2>2. Children = {} \/ scDeadline # "ahead" \/ "untimed" \in scFreed
      BY <2>1 DEF OneChild
    <2>3. "skipped" \notin scFreed => \A s \in ScriptsOf(scCall) : scRun[s] # "todo"
      BY <2>1 DEF NoneForgotten
    <2> QED BY <1>10, <2>1, <2>2, <2>3, ReturnKeeps DEF RunnerDone
  <1>11. CASE StartDetached
    <2>1. InCalls /\ scPc = "service" /\ scLeft \in Seq(ScriptsOf(scCall))
          /\ UNCHANGED <<scDeadline, scTimer, scFreed>>
      BY <1>11 DEF StartDetached, ScriptType
    <2>2. CASE scLeft = <<>>
      <3>1. Children = {} \/ scDeadline # "ahead" \/ "untimed" \in scFreed
        BY <2>1 DEF OneChild
      <3>2. "skipped" \notin scFreed => \A s \in ScriptsOf(scCall) : scRun[s] # "todo"
        BY <2>1, <2>2 DEF NoneForgotten
      <3> QED BY <1>11, <2>1, <2>2, <3>1, <3>2, ReturnKeeps DEF StartDetached, TimerKeepsTime
    <2>3. CASE scLeft # <<>>
      <3>1. PICK r \in {"running", "failed"} :
              /\ scRun' = [scRun EXCEPT ![Head(scLeft)] = r]
              /\ scLeft' = Tail(scLeft)
              /\ UNCHANGED <<scCall, scPc, Call>>
        BY <1>11, <2>3 DEF StartDetached, Call
      <3>2. /\ Head(scLeft) \in ScriptsOf(scCall) /\ Tail(scLeft) \in Seq(ScriptsOf(scCall))
            /\ \A n \in DOMAIN scLeft : \/ scLeft[n] = Head(scLeft)
                                        \/ \E k \in DOMAIN Tail(scLeft) : Tail(scLeft)[k] = scLeft[n]
        BY <2>1, <2>3, TakeScript
      <3>3. Head(scLeft) \in BootScripts
        BY <1>1, <2>1, <3>2
      <3>4. /\ scRun' \in [BootScripts -> {"todo", "running", "ended", "reaped", "failed"}]
            /\ scRun'[Head(scLeft)] = r
            /\ \A s \in BootScripts \ {Head(scLeft)} : scRun'[s] = scRun[s]
        BY <3>1, <3>3 DEF ScriptType
      <3>5. ScriptType' /\ TimerKeepsTime'
        BY <2>1, <3>1, <3>2, <3>4 DEF ScriptType, TimerKeepsTime, InCalls
      <3>6. OneChild'
        <4>1. \A s \in Blocking : s \in BootScripts
          BY DEF Blocking, BootScripts
        <4>2. ASSUME ~Call.pfs PROVE Children' = Children
          BY <1>1, <2>1, <3>2, <3>4, <4>1, <4>2 DEF Children
        <4> QED BY <2>1, <3>1, <4>2 DEF OneChild
      <3>7. NoneForgotten'
        <4>1. Behind' = Behind /\ Behind \subseteq BootScripts
          BY <3>1 DEF Behind, BootScripts
        <4> QED BY <1>1, <2>1, <3>1, <3>2, <3>4, <4>1 DEF NoneForgotten
      <3> QED BY <3>5, <3>6, <3>7
    <2> QED BY <2>2, <2>3
  <1>12. CASE TimeIsUp \/ TimerExits
    <2>1. /\ UNCHANGED <<scCall, scPc, scLeft, scRun, scFails, scFreed, Children, Behind, Call>>
          /\ \/ scDeadline' = "past" /\ UNCHANGED scTimer
             \/ scTimer = "counting" /\ scTimer' = "fired" /\ scDeadline = "past" /\ UNCHANGED scDeadline
      BY <1>12 DEF TimeIsUp, TimerExits, Children, Behind, Call
    <2> QED BY <2>1 DEF ScriptType, OneChild, TimerKeepsTime, NoneForgotten, InCalls
  <1>13. CASE ScriptEnds
    <2>1. PICK s \in BootScripts : scRun[s] = "running" /\ scRun' = [scRun EXCEPT ![s] = "ended"]
      BY <1>13 DEF ScriptEnds
    <2>2. UNCHANGED <<scCall, scPc, scLeft, scDeadline, scTimer, scFails, scFreed, Behind, Call>>
      BY <1>13 DEF ScriptEnds, Behind, Call
    <2>3. /\ scRun' \in [BootScripts -> {"todo", "running", "ended", "reaped", "failed"}]
          /\ scRun'[s] = "ended" /\ \A t \in BootScripts \ {s} : scRun'[t] = scRun[t]
      BY <2>1 DEF ScriptType
    <2>4. /\ \A t \in Blocking : t \in BootScripts
          /\ Behind \subseteq BootScripts
          /\ InCalls => ScriptsOf(scCall) \subseteq BootScripts
      BY <1>1 DEF Blocking, BootScripts, Behind
    <2>5. Children' = Children
      BY <2>1, <2>3, <2>4 DEF Children
    <2>6. NoneForgotten'
      BY <2>1, <2>2, <2>3, <2>4 DEF NoneForgotten, ScriptType
    <2>7. ScriptType'
      BY <2>1, <2>2, <2>3 DEF ScriptType, InCalls
    <2> QED BY <2>2, <2>5, <2>6, <2>7 DEF OneChild, TimerKeepsTime
  <1>14. CASE UNCHANGED scriptVars
    <2>1. UNCHANGED <<scCall, scPc, scLeft, scDeadline, scTimer, scRun, scFreed, Children, Behind, Call>>
      BY <1>14 DEF scriptVars, Children, Behind, Call
    <2> QED BY <2>1 DEF ScriptType, OneChild, TimerKeepsTime, NoneForgotten, InCalls
  <1> QED
    BY <1>4, <1>5, <1>6, <1>7, <1>8, <1>9, <1>10, <1>11, <1>12, <1>13, <1>14
    DEF NextScripts, RunnerStep

LEMMA ScriptInvSuffices == ScriptInv => ScriptsInTurn
  <1> SUFFICES ASSUME ScriptInv PROVE ScriptsInTurn
    OBVIOUS
  <1>1. ASSUME scDeadline = "ahead", "untimed" \notin scFreed
        PROVE  Cardinality(Running) <= 1 /\ Running \cap Behind = {}
    <2>1. Running \subseteq Children
      BY DEF Running, Children
    <2>2. \A s \in Running : scPc = "wait" /\ s \in ScriptsOf(scCall)
      BY <1>1, <2>1 DEF ScriptInv, OneChild
    <2>3. Cardinality(Running) <= 1
      <3>1. CASE Running = {}
        BY <3>1, FS_EmptySet
      <3>2. CASE Running # {}
        <4>1. PICK s : s \in Running
          BY <3>2
        <4>2. Running = {s}
          BY <1>1, <2>1, <4>1 DEF ScriptInv, OneChild
        <4> QED BY <4>2, FS_Singleton
      <3> QED BY <3>1, <3>2
    <2>4. ASSUME NEW s \in Running, s \in Behind PROVE FALSE
      <3>1. PICK j \in DOMAIN ScriptCalls : j < scCall /\ s \in ScriptsOf(j)
        BY <2>4 DEF Behind
      <3>2. scCall \in DOMAIN ScriptCalls
        BY <2>2, CallsInOrder DEF ScriptInv, ScriptType, InCalls
      <3>3. j = scCall
        BY <2>2, <3>1, <3>2, CallsDisjoint
      <3> QED BY <3>1, <3>3 DEF ScriptInv, ScriptType
    <2> QED BY <2>3, <2>4
  <1>2. ASSUME ~InCalls, "skipped" \notin scFreed, NEW s \in Blocking
        PROVE  scRun[s] # "todo"
    <2>1. s \in Behind
      BY <1>2, CallsInOrder DEF Blocking, Behind, InCalls, ScriptInv, ScriptType
    <2> QED BY <1>2, <2>1 DEF ScriptInv, NoneForgotten
  <1> QED BY <1>1, <1>2 DEF ScriptsInTurn

\* Until the time is up the scripts of post-fs-data run one at a time and the boot is not
\* past a call with one of its scripts still running; no script costs another its run
\* (exec_common_scripts, exec_module_scripts): for every list of calls that sets the
\* deadline first, and however many forks fail.
THEOREM ScriptsSafe == SpecScripts => []ScriptsInTurn
  <1>1. InitScripts => ScriptInv
    BY InitScriptInv
  <1>2. ScriptInv /\ [NextScripts]_scriptVars => ScriptInv'
    BY NextScriptInv
  <1>3. ScriptInv => ScriptsInTurn
    BY ScriptInvSuffices
  <1> QED BY <1>1, <1>2, <1>3, PTL DEF SpecScripts

-----------------------------------------------------------------------------
(* The boot stages *)

Preparing == {"env", "count", "disable", "zygiskOff"}
Upgrading == {"wipeOld", "rename", "markDisable"}
LoadSteps == {"scripts", "upgrade", "moduleScripts"} \cup Upgrading \cup Collecting \cup Wiping
Marks == {"disable", "remove", "update"}

StagesType ==
    /\ bootCnt \in Nat /\ fails \in Nat /\ counted \in 0..1
    /\ installed \subseteq Modules /\ upgrade \subseteq Modules
    /\ marks \in [Modules -> SUBSET Marks]
    /\ pc \in {"idle"} \cup Preparing \cup LoadSteps
    /\ cur \in Modules \cup {NoModule} /\ installing \in Modules \cup {NoModule}
    /\ pc \in Upgrading \cup Wiping => cur \in Modules

\* A boot begins with nothing counted, run or loaded; post_fs_data runs once, and neither
\* the module list nor a stage other than post_fs_data is touched before it is done.
StagesInOrder ==
    /\ pc # "idle" => "PostFsDataDone" \notin flags
    /\ "PostFsDataDone" \notin flags =>
           "SafeMode" \notin flags /\ module_list = Unset /\ installing = NoModule
    /\ "PostFsDataDone" \notin flags /\ pc \in {"idle"} \cup Preparing => ~served /\ ~zygisk_enabled
    /\ "PostFsDataDone" \notin flags /\ pc \in {"idle", "env", "count"} => counted = 0
    /\ SafeBootIsClean

\* The count in the database is never behind the boots that failed, and only a boot that
\* found less than two of them comes to load modules.
CountKept ==
    /\ fails <= bootCnt
    /\ pc \in LoadSteps \/ module_list # Unset => fails <= 2

\* What is in hand, and what a reboot or an error left half done, may have lost its marks.
Excused(m) == m \in cut \/ (pc \in Upgrading \cup Wiping /\ cur = m)

\* What is to stay off says so on disk; after safe mode that is everything.
MarksKept ==
    \A m \in installed :
        \/ Excused(m)
        \/ /\ m \in off \/ clean => "disable" \in marks[m]
           /\ m \in gone => "remove" \in marks[m]

\* A module waiting for its upgrade has left its placeholder in the module list, marked,
\* and nobody has removed it; after the upgrades only interrupted ones wait.
UpgradesKept ==
    /\ \A m \in upgrade \ cut :
           /\ m \notin gone \/ m = installing
           /\ m = installing \/ (pc \in Upgrading /\ cur = m)
                \/ (m \in installed /\ "update" \in marks[m])
    /\ pc \in {"moduleScripts"} \cup Collecting \cup Wiping => upgrade \subseteq cut
    /\ pc = "markDisable" => cur \notin upgrade
    /\ pc \in Upgrading => cur \in cut \/ (cur \notin gone /\ (disable \/ (cur \notin off /\ ~clean)))

\* The walk that disables: who is behind it is marked.
WalkMarks ==
    /\ pc \in {"disable"} \cup Collecting \cup Wiping => todo \subseteq installed
    /\ pc \in Wiping => cur \notin todo
    /\ pc = "disable" => \A m \in installed \ cut : m \in todo \/ "disable" \in marks[m]
    /\ pc = "zygiskOff" => \A m \in installed \ cut : "disable" \in marks[m]

\* The passes that collect find nothing that is to stay off.
FoundMayLoad ==
    pc \in Collecting \cup Wiping =>
        found \subseteq Modules /\ \A m \in found \ cut : m \notin off /\ m \notin gone /\ ~clean

\* After safe mode zygisk is off, and what is loaded was interrupted.
CleanKept ==
    clean => /\ ~zygiskCfg /\ ~zygisk_enabled /\ installing = NoModule
             /\ (module_list = Unset \/ module_list \subseteq cut)

StagesInv ==
    /\ StagesType /\ StagesInOrder /\ CountKept /\ MarksKept /\ UpgradesKept
    /\ WalkMarks /\ FoundMayLoad /\ CleanKept

\* A device as it is before its first boot.
LEMMA InitStagesInv == InitBoot => StagesInv
  BY BootAssumption
  DEF InitBoot, StagesInv, StagesType, StagesInOrder, CountKept, MarksKept, UpgradesKept, WalkMarks,
      FoundMayLoad, CleanKept, Preparing, Upgrading, LoadSteps, Marks, SafeBootIsClean, Excused,
      Collecting, Wiping, Unset, NoModule

\* Every step of a stage, every edit of the module list and every reboot keeps StagesInv.
LEMMA NextStagesInv ==
    ASSUME StagesInv, [NextBoot]_bootVars
    PROVE  StagesInv'
  <1> USE BootAssumption DEF StagesInv, StagesType, StagesInOrder, CountKept, MarksKept, UpgradesKept, WalkMarks,
      FoundMayLoad, CleanKept, Preparing, Upgrading, LoadSteps, Marks, SafeBootIsClean, Excused,
      diskVars, walkVars, listVars, boundVars, historyVars, Collecting, Wiping, Unset, NoModule
  <1>1. CASE PostFsData
    BY <1>1 DEF PostFsData, BeginPostFsData
  <1>2. CASE LateStart
    BY <1>2 DEF LateStart, LateStartRuns
  <1>3. CASE BootComplete
    BY <1>3 DEF BootComplete
  <1>4. CASE EnvIncomplete
    BY <1>4 DEF EnvIncomplete, Finish
  <1>5. CASE EnvReady
    BY <1>5 DEF EnvReady
  <1>6. CASE CountBoot
    BY <1>6 DEF CountBoot, CountUp, SafeModeNeeded, OneMoreFail
  <1>7. ASSUME NEW m \in Modules, DisableModule(m) PROVE StagesInv'
    BY <1>7 DEF DisableModule
  <1>8. CASE DisableFails
    BY <1>8 DEF DisableFails
  <1>9. CASE DisableDone
    BY <1>9 DEF DisableDone
  <1>10. CASE ZygiskOff
    BY <1>10 DEF ZygiskOff, Finish
  <1>11. CASE CommonScripts
    BY <1>11 DEF CommonScripts
  <1>12. ASSUME NEW m \in Modules, UpgradeModule(m) PROVE StagesInv'
    <2>1. m \in upgrade /\ installing = NoModule /\ m # installing
      BY <1>12 DEF UpgradeModule
    <2>2. m \in cut \/ (m \notin gone /\ m \in installed)
      BY <1>12, <2>1 DEF UpgradeModule
    <2>3. CASE "disable" \in marks[m]
      BY <1>12, <2>1, <2>2, <2>3 DEF UpgradeModule, OldIsDisabled
    <2>4. CASE "disable" \notin marks[m]
      BY <1>12, <2>1, <2>2, <2>4 DEF UpgradeModule, OldIsDisabled
    <2> QED BY <2>3, <2>4
  <1>13. ASSUME NEW step \in {"wipeOld", "wipe", "rewipe"}, WipeSome(step) PROVE StagesInv'
    BY <1>13 DEF WipeSome
  <1>14. CASE WipeOldDone
    BY <1>14 DEF WipeOldDone
  <1>15. CASE RenameUpgrade
    BY <1>15 DEF RenameUpgrade
  <1>16. CASE MarkDisable
    BY <1>16 DEF MarkDisable
  <1>17. CASE UpgradeFails
    BY <1>17 DEF UpgradeFails, StartCollect
  <1>18. CASE UpgradeDone
    BY <1>18 DEF UpgradeDone, StartCollect
  <1>19. ASSUME NEW m \in Modules, CollectModule(m) PROVE StagesInv'
    BY <1>19 DEF CollectModule, IsLoadable
  <1>20. ASSUME NEW m \in Modules, CollectRemove(m) PROVE StagesInv'
    BY <1>20 DEF CollectRemove, WipeStep
  <1>21. CASE WipeDone
    BY <1>21 DEF WipeDone
  <1>22. CASE CollectFails
    BY <1>22 DEF CollectFails
  <1>23. CASE CollectDone
    BY <1>23 DEF CollectDone
  <1>24. CASE Recollect
    BY <1>24 DEF Recollect, StartCollect
  <1>25. CASE ApplyModules
    BY <1>25 DEF ApplyModules, Finish
  <1>26. ASSUME NEW c \in Codes, Send(c) PROVE StagesInv'
    BY <1>26 DEF Send, Codes
  <1>27. ASSUME NEW m \in Modules, ScriptEdits(m) PROVE StagesInv'
    BY <1>27 DEF ScriptEdits
  <1>28. ASSUME NEW m \in Modules, NEW b \in BOOLEAN, SetEnable(m, b) PROVE StagesInv'
    BY <1>28 DEF SetEnable, CanEdit, Edit
  <1>29. ASSUME NEW m \in Modules, NEW b \in BOOLEAN, SetRemove(m, b) PROVE StagesInv'
    BY <1>29 DEF SetRemove, CanEdit, Edit
  <1>30. ASSUME NEW m \in Modules, InstallModule(m) PROVE StagesInv'
    BY <1>30 DEF InstallModule, CanEdit, Edit
  <1>31. CASE SetZygisk
    BY <1>31 DEF SetZygisk, CanEdit, Edit
  <1>32. CASE InstallDone
    BY <1>32 DEF InstallDone
  <1>33. CASE Crash
    BY <1>33 DEF Crash, Reboot, InHand
  <1>34. CASE Bootloop
    BY <1>34 DEF Bootloop, Reboot, InHand
  <1>35. CASE UNCHANGED bootVars
    BY <1>35 DEF bootVars
  <1> QED
    BY <1>1, <1>2, <1>3, <1>4, <1>5, <1>6, <1>7, <1>8, <1>9, <1>10, <1>11, <1>12, <1>13,
       <1>14, <1>15, <1>16, <1>17, <1>18, <1>19, <1>20, <1>21, <1>22, <1>23, <1>24,
       <1>25, <1>26, <1>27, <1>28, <1>29, <1>30, <1>31, <1>32, <1>33, <1>34, <1>35, ZenonT(40)
    DEF NextBoot, StageStep, UserStep

\* What every state of the boot stages satisfies.
THEOREM StagesInvariant == SpecBoot => []StagesInv
  <1>1. InitBoot => StagesInv
    BY InitStagesInv
  <1>2. StagesInv /\ [NextBoot]_bootVars => StagesInv'
    BY NextStagesInv
  <1> QED BY <1>1, <1>2, PTL DEF SpecBoot

\* However often stages are requested and wherever the device goes down, a boot is counted
\* at most once, and once two boots in a row have failed no boot loads a module until one
\* completes (post_fs_data, boot_complete): for every set of modules and of failing steps.
THEOREM CountSafe == SpecBoot => []BootsCounted
  <1>1. StagesInv => BootsCounted
    BY DEF StagesInv, StagesType, CountKept, BootsCounted, CountedAtMostOnce, ThirdBootIsSafe
  <1> QED BY <1>1, StagesInvariant, PTL

\* A safe boot runs no script and loads nothing, and the boots after it load nothing until
\* the user edits the module list, but what was interrupted (disable_modules,
\* upgrade_modules, install_module): over any number of reboots.
THEOREM SafeModeSafe == SpecBoot => []SafeModeHolds
  <1>1. StagesInv => SafeModeHolds
    BY DEF StagesInv, StagesInOrder, CleanKept, SafeModeHolds, SafeBootIsClean, SafeModeCleansNextBoot
  <1> QED BY <1>1, StagesInvariant, PTL

\* A step that loads modules is the one at the end of post_fs_data.
LEMMA LoadingApplies ==
    ASSUME StagesInv, [NextBoot]_bootVars, Loading
    PROVE  ApplyModules
  <1> USE DEF Loading, diskVars, walkVars, listVars, boundVars, historyVars
  <1>1. CASE StageStep
    BY <1>1
    DEF StageStep, PostFsData, LateStart, BootComplete, EnvIncomplete, EnvReady, CountBoot,
        DisableModule, DisableFails, DisableDone, ZygiskOff, CommonScripts, UpgradeModule,
        WipeSome, WipeOldDone, RenameUpgrade, MarkDisable, UpgradeFails, UpgradeDone,
        CollectModule, CollectRemove, WipeDone, CollectFails, CollectDone, Recollect
  <1>2. CASE UserStep \/ SetZygisk \/ InstallDone
    BY <1>2 DEF UserStep, SetEnable, SetRemove, InstallModule, SetZygisk, InstallDone, Edit
  <1>3. CASE Crash \/ Bootloop
    BY <1>3 DEF Crash, Bootloop, Reboot
  <1>4. CASE (\E c \in Codes : Send(c)) \/ (\E m \in Modules : ScriptEdits(m)) \/ UNCHANGED bootVars
    BY <1>4 DEF Send, ScriptEdits, bootVars
  <1> QED BY <1>1, <1>2, <1>3, <1>4 DEF NextBoot

\* A module disabled or removed by the user, its own script or safe mode is not loaded
\* until it is enabled again, across upgrades and reboots, but for one whose handling a
\* reboot or an error interrupted (collect_modules, upgrade_modules).
THEOREM DisabledSafe == SpecBoot => DisabledStaysOff
  <1>1. StagesInv /\ [NextBoot]_bootVars
          => [Loading => module_list' \cap (off \cup gone) \subseteq cut]_bootVars
    <2> SUFFICES ASSUME StagesInv, [NextBoot]_bootVars, Loading
                 PROVE  module_list' \cap (off \cup gone) \subseteq cut
      OBVIOUS
    <2>1. ApplyModules
      BY LoadingApplies
    <2>2. module_list' = found /\ pc = "recollect"
      BY <2>1 DEF ApplyModules, Loading
    <2> QED BY <2>2 DEF StagesInv, FoundMayLoad, Collecting
  <1> QED BY <1>1, StagesInvariant, PTL DEF SpecBoot, DisabledStaysOff
=============================================================================
