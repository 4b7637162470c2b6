--------------------------- MODULE SepolicyHandoff ---------------------------
(***************************************************************************)
(* handle_sepolicy (native/src/init/selinux.rs, preload.c): the device's   *)
(* init loads the SELinux policy of the device; Magisk's helper, a child   *)
(* forked before init goes on, has to get hold of it, patch it and load it *)
(* itself while init waits.  Three strategies make init wait: a preloaded  *)
(* library that waits for an acknowledgement, a named pipe in place of the *)
(* "enforce" node, and, before Android 8, pipes in place of the policy's   *)
(* version file and of the "checkreqprot" node.                            *)
(*                                                                         *)
(* Opening a named pipe waits until its other end is opened.  What init    *)
(* and the kernel do is external.                                          *)
(***************************************************************************)
EXTENDS Naturals, FiniteSets

CONSTANTS
    Strategies,   \* "LdPreload", "SelinuxFs", "Legacy"
    Overlays,     \* files mounted over those of the root directory
    PromptInit    \* while init is not waiting it gets on within 100 ms

ASSUME HandoffAssumption ==
    /\ Strategies \subseteq {"LdPreload", "SelinuxFs", "Legacy"}
    /\ PromptInit \in BOOLEAN

VARIABLES
    shStrat,      \* SePatchStrategy
    shParent,     \* magiskinit: "setup", "forked", "overlaid", then init, "exec"
    shInit,       \* where the device's init is
    shHelper,     \* where the helper is
    shSelinuxFs,  \* selinuxfs is mounted
    shMocks,      \* nodes with something of Magisk's mounted over them
    shOpen,       \* ends of pipes that are opened: <<node, who>>
    shCopy,       \* how much of the policy init has written for Magisk: 0, 1 or 2 (all)
    shSize,       \* the size the helper saw last
    shKernel,     \* the policy in the kernel: "none", "stock", "patched", "broken"
    shOverlay,    \* overlay_con: of magiskinit, and the copy the helper has
    shRestored    \* files whose context was restored after the policy was loaded

handoffVars == <<shStrat, shParent, shInit, shHelper, shSelinuxFs, shMocks, shOpen, shCopy,
                 shSize, shKernel, shOverlay, shRestored>>

AllWritten == 2

HelperTo(s) == shHelper' = s
InitTo(s) == shInit' = s
Opened(node, who) == shOpen' = shOpen \cup {<<node, who>>}
IsOpen(node, who) == <<node, who>> \in shOpen

\* A pipe: both ends must have been opened for either open to return.
Meets(node, who, other) == IsOpen(node, who) /\ IsOpen(node, other)

-----------------------------------------------------------------------------
(* magiskinit *)

\* Step 1 up to the fork; a failure there leaves the device's init to itself.
SetupHijack(ok) ==
    /\ shParent = "setup"
    /\ shMocks' = CASE ~ok -> {}
                    [] ok /\ shStrat = "LdPreload" -> {"security_load_policy"}
                    [] ok /\ shStrat = "SelinuxFs" -> {"load", "enforce"}
                    [] ok /\ shStrat = "Legacy" -> {"version"}
    /\ shSelinuxFs' = (shSelinuxFs \/ (ok /\ shStrat = "SelinuxFs"))
    /\ shHelper' = CASE ~ok -> "none"
                     [] ok /\ shStrat = "LdPreload" -> "open_ack"
                     [] ok /\ shStrat = "SelinuxFs" -> "open_enforce"
                     [] ok /\ shStrat = "Legacy" -> "wait_selinuxfs"
    /\ shOverlay' = [shOverlay EXCEPT !.helper = shOverlay.parent]
    /\ shParent' = "forked"
    /\ UNCHANGED <<shStrat, shInit, shOpen, shCopy, shSize, shKernel, shRestored>>

\* mount_overlay("/"), after handle_sepolicy.
MountOverlay ==
    /\ shParent = "forked"
    /\ shOverlay' = [shOverlay EXCEPT !.parent = @ \cup Overlays]
    /\ shParent' = "overlaid"
    /\ UNCHANGED <<shStrat, shInit, shHelper, shSelinuxFs, shMocks, shOpen, shCopy, shSize, shKernel, shRestored>>

ExecInit ==
    /\ shParent = "overlaid"
    /\ shParent' = "exec"
    /\ InitTo("mount")
    /\ UNCHANGED <<shStrat, shHelper, shSelinuxFs, shMocks, shOpen, shCopy, shSize, shKernel, shOverlay, shRestored>>

-----------------------------------------------------------------------------
(* The device's init *)

InitUnchanged == UNCHANGED <<shStrat, shParent, shHelper, shMocks, shSize, shOverlay, shRestored>>

\* selinuxfs is mounted; the legacy one opens the version file before it loads.
InitMount ==
    /\ shInit = "mount"
    /\ shSelinuxFs' = TRUE
    /\ IF shStrat = "Legacy" THEN InitTo("version") ELSE InitTo("load")
    /\ InitUnchanged /\ UNCHANGED <<shOpen, shCopy, shKernel>>

InitVersion ==
    /\ shInit = "version"
    /\ IF "version" \in shMocks /\ ~IsOpen("version", "init")
       THEN Opened("version", "init") /\ UNCHANGED shInit
       ELSE /\ ("version" \in shMocks) => Meets("version", "init", "helper")
            /\ InitTo("load") /\ UNCHANGED shOpen
    /\ InitUnchanged /\ UNCHANGED <<shSelinuxFs, shCopy, shKernel>>

\* security_load_policy: the write goes to the kernel, or where Magisk wants it.
InitLoad ==
    /\ shInit = "load"
    /\ IF shMocks \cap {"load", "security_load_policy"} # {} \/ shCopy > 0
       THEN /\ shCopy' = shCopy + 1
            /\ IF shCopy' = AllWritten THEN InitTo("wait") ELSE UNCHANGED shInit
            /\ UNCHANGED shKernel
       ELSE shKernel' = "stock" /\ InitTo("go") /\ UNCHANGED shCopy
    /\ InitUnchanged /\ UNCHANGED <<shSelinuxFs, shOpen>>

\* Where init waits next: the acknowledgement, enforce or checkreqprot.
WaitNode == CASE shStrat = "LdPreload" -> "ack"
              [] shStrat = "SelinuxFs" -> "enforce"
              [] shStrat = "Legacy" -> "checkreqprot"

IsPipe == shStrat = "LdPreload" \/ WaitNode \in shMocks \/ IsOpen(WaitNode, "init")

\* It opens its end; the node itself, if nothing is mounted over it, lets init pass.
InitWait ==
    /\ shInit = "wait"
    /\ IF IsPipe THEN Opened(WaitNode, "init") /\ InitTo("blocked")
       ELSE UNCHANGED shOpen /\ InitTo("go")
    /\ InitUnchanged /\ UNCHANGED <<shSelinuxFs, shCopy, shKernel>>

\* What it waits for arrives, or the helper's end is closed.
InitUnblocked ==
    /\ shInit = "blocked"
    /\ \/ IsOpen(WaitNode, "answered")
       \/ IsOpen(WaitNode, "helper") /\ shHelper \in {"stray"}
    /\ InitTo("go")
    /\ InitUnchanged /\ UNCHANGED <<shSelinuxFs, shOpen, shCopy, shKernel>>

-----------------------------------------------------------------------------
(* The helper *)

HelperUnchanged == UNCHANGED <<shStrat, shParent, shInit, shSelinuxFs, shCopy>>

HelperWaitFs ==
    /\ shHelper = "wait_selinuxfs" /\ shSelinuxFs
    /\ HelperTo("mock")
    /\ HelperUnchanged /\ UNCHANGED <<shMocks, shOpen, shSize, shKernel, shOverlay, shRestored>>

HelperMock ==
    /\ shHelper = "mock"
    /\ shMocks' = shMocks \cup {"load", "checkreqprot"}
    /\ HelperTo("open_version")
    /\ HelperUnchanged /\ UNCHANGED <<shOpen, shSize, shKernel, shOverlay, shRestored>>

\* Mutant: init is let through before the nodes are replaced.
HelperVersionFirst ==
    /\ shHelper \in {"mock", "open_version"}
    /\ IF ~IsOpen("version", "helper") THEN Opened("version", "helper") /\ UNCHANGED <<shHelper, shMocks>>
       ELSE /\ Meets("version", "helper", "init")
            /\ shMocks' = (shMocks \ {"version"}) \cup {"load", "checkreqprot"}
            /\ HelperTo("size") /\ UNCHANGED shOpen
    /\ HelperUnchanged /\ UNCHANGED <<shSize, shKernel, shOverlay, shRestored>>

\* Mutant: the version file comes back before the pipe that replaced it is opened.
HelperVersionUnmounted ==
    /\ shHelper = "open_version"
    /\ shMocks' = shMocks \ {"version"}
    /\ IF ~IsOpen("version", "helper") THEN Opened("version", "helper") /\ UNCHANGED shHelper
       ELSE Meets("version", "helper", "init") /\ HelperTo("size") /\ UNCHANGED shOpen
    /\ HelperUnchanged /\ UNCHANGED <<shSize, shKernel, shOverlay, shRestored>>

HelperVersion ==
    /\ shHelper = "open_version"
    /\ IF ~IsOpen("version", "helper") THEN Opened("version", "helper") /\ UNCHANGED <<shHelper, shMocks>>
       ELSE /\ Meets("version", "helper", "init")
            /\ shMocks' = shMocks \ {"version"}
            /\ HelperTo("size") /\ UNCHANGED shOpen
    /\ HelperUnchanged /\ UNCHANGED <<shSize, shKernel, shOverlay, shRestored>>

\* Legacy: until the size is not zero and was the same 100 ms ago.
HelperSize ==
    /\ shHelper = "size"
    /\ (PromptInit /\ shCopy > 0 /\ shCopy = shSize) => shInit \in {"blocked", "go"}
    /\ IF shSize # 0 /\ shSize = shCopy THEN HelperTo("load") /\ UNCHANGED shSize
       ELSE shSize' = shCopy /\ UNCHANGED shHelper
    /\ HelperUnchanged /\ UNCHANGED <<shMocks, shOpen, shKernel, shOverlay, shRestored>>

\* The other strategies: the open returns when init has come to wait.
HelperOpen ==
    /\ shHelper \in {"open_ack", "open_enforce"}
    /\ IF ~IsOpen(WaitNode, "helper") THEN Opened(WaitNode, "helper") /\ UNCHANGED shHelper
       ELSE Meets(WaitNode, "helper", "init") /\ HelperTo("load") /\ UNCHANGED shOpen
    /\ HelperUnchanged /\ UNCHANGED <<shMocks, shSize, shKernel, shOverlay, shRestored>>

\* cleanup_and_load, and the same for LD_PRELOAD: mocks go, the policy is patched and
\* loaded, contexts are restored.
HelperLoad ==
    /\ shHelper = "load"
    /\ shMocks' = shMocks \ {"load", "enforce", "checkreqprot"}
    /\ shKernel' = IF shCopy = AllWritten THEN "patched" ELSE "broken"
    /\ shRestored' = shOverlay.helper
    /\ HelperTo("answer")
    /\ HelperUnchanged /\ UNCHANGED <<shOpen, shSize, shOverlay>>

\* The answer lets init go on; the legacy helper opens its end of checkreqprot for that.
HelperAnswer ==
    /\ shHelper = "answer"
    /\ shStrat = "Legacy" => IsOpen(WaitNode, "init")
    /\ Opened(WaitNode, "answered")
    /\ HelperTo("exit")
    /\ HelperUnchanged /\ UNCHANGED <<shMocks, shSize, shKernel, shOverlay, shRestored>>

\* Any failing step makes the child return from handle_sepolicy and go on as magiskinit.
HelperFails ==
    /\ \/ shHelper \in {"mock", "open_version", "size", "open_ack", "open_enforce", "answer"}
       \/ shHelper = "load" /\ shStrat = "LdPreload"
    /\ shHelper \in {"open_ack", "open_enforce"} => ~IsOpen(WaitNode, "helper")
    /\ HelperTo("stray")
    /\ HelperUnchanged /\ UNCHANGED <<shMocks, shOpen, shSize, shKernel, shOverlay, shRestored>>

-----------------------------------------------------------------------------

InitHandoff ==
    /\ shStrat \in Strategies
    /\ shParent = "setup" /\ shInit = "none" /\ shHelper = "none"
    /\ shSelinuxFs = (shStrat = "LdPreload")
    /\ shMocks = {} /\ shOpen = {} /\ shCopy = 0 /\ shSize = 0
    /\ shKernel = "none"
    /\ shOverlay = [parent |-> {}, helper |-> {}]
    /\ shRestored = {}

InitStep == InitMount \/ InitVersion \/ InitLoad \/ InitWait \/ InitUnblocked

HelperStep == HelperWaitFs \/ HelperMock \/ HelperVersion \/ HelperSize \/ HelperOpen
              \/ HelperLoad \/ HelperAnswer

NextHandoff ==
    \/ \E ok \in BOOLEAN : SetupHijack(ok)
    \/ MountOverlay \/ ExecInit
    \/ InitStep \/ HelperStep \/ HelperFails

\* Both processes run.
HandoffFairness ==
    /\ WF_handoffVars((\E ok \in BOOLEAN : SetupHijack(ok)) \/ MountOverlay \/ ExecInit)
    /\ WF_handoffVars(InitStep)
    /\ WF_handoffVars(HelperStep)

SpecHandoff == InitHandoff /\ [][NextHandoff]_handoffVars /\ HandoffFairness

-----------------------------------------------------------------------------
(* Properties *)

\* "We need to make sure the actual init process is blocked until sepolicy is loaded": init
\* goes on only with the whole policy, patched, in the kernel, unless Magisk has given up;
\* and never does the kernel get half a policy (handle_sepolicy_impl).
PatchedBeforeInitGoesOn ==
    /\ shKernel # "broken"
    /\ shInit = "go" =>
         \/ shKernel = "patched"
         \/ shHelper = "stray"
         \/ shMocks = {} /\ shHelper = "none"

\* Nobody waits for a pipe that nobody opens: init goes on in the end, unless the helper
\* fails (handle_sepolicy_impl).
InitGetsOn == shInit = "mount" ~> shInit = "go" \/ shHelper = "stray"

=============================================================================
