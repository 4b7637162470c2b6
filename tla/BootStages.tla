----------------------------- MODULE BootStages -----------------------------
(***************************************************************************)
(* The boot stages of magiskd (native/src/core/bootstages.rs) and what     *)
(* they do with the modules on disk (native/src/core/module.rs): the boot  *)
(* counter, safe mode, the upgrade of modules waiting in modules_update,   *)
(* the two passes that collect the modules to load, and the edits of the   *)
(* module list by the app and the install script.  The device may reboot   *)
(* between any two steps; what is under /data survives, the daemon's       *)
(* memory does not.                                                        *)
(*                                                                         *)
(* A module is a name; its directory under /data/adb/modules is a member   *)
(* of `installed', the marker files in it a set, and its directory under   *)
(* /data/adb/modules_update a member of `upgrade'.                         *)
(***************************************************************************)
EXTENDS Naturals, FiniteSets

CONSTANTS
    Modules,        \* module names
    ZygiskModules,  \* those with a zygisk directory
    BadModules,     \* those that keep Android from booting once loaded
    Preinstalled,   \* those on disk at the first boot
    Failing,        \* steps that may fail: subset of FailureKinds
    MaxCrashes,     \* bound on reboots nobody asked for
    MaxEdits        \* bound on edits of the module list

FailureKinds == {"db", "disable", "upgrade", "collect"}

ASSUME BootAssumption ==
    /\ "no_module" \notin Modules
    /\ ZygiskModules \subseteq Modules
    /\ BadModules \subseteq Modules
    /\ Preinstalled \subseteq Modules
    /\ Failing \subseteq FailureKinds
    /\ MaxCrashes \in Nat
    /\ MaxEdits \in Nat

VARIABLES
    bootCnt,        \* settings table: bootloop counter
    zygiskCfg,      \* settings table: zygisk
    installed,      \* directories in /data/adb/modules
    marks,          \* their marker files
    upgrade,        \* directories in /data/adb/modules_update
    flags,          \* BootState, guarded by boot_stage_lock
    queue,          \* stage requests waiting for boot_stage_lock
    pc,             \* where the stage that holds the lock is; "idle": lock free
    todo,           \* entries the current walk has not reached
    found,          \* modules the current collect pass has pushed
    cur,            \* module the current walk is working on, or NoModule
    disable,        \* upgrade_modules: the old module was disabled
    zygisk_enabled,
    module_list,    \* OnceLock: the loaded modules, or Unset
    installing,     \* module whose install script is running, or NoModule
    crashes, edits, \* bounds
    fails,          \* history: boots counted since boot-complete last reset the count
    counted,        \* history: times this boot was counted
    served,         \* history: a stage ran scripts or loaded modules in this boot
    off,            \* history: modules disabled since last enabled
    gone,           \* history: modules removed since last installed
    cut,            \* history: modules a reboot or an error interrupted the handling of
    clean           \* history: safe mode has run and no edit since

diskVars == <<bootCnt, zygiskCfg, installed, marks, upgrade>>
walkVars == <<todo, found, cur, disable>>
listVars == <<zygisk_enabled, module_list>>
boundVars == <<crashes, edits>>
historyVars == <<fails, counted, served, off, gone, cut, clean>>
bootVars == <<diskVars, flags, queue, pc, walkVars, listVars, installing, boundVars, historyVars>>

NoModule == "no_module"
Unset == {NoModule}     \* no set of modules
Codes == {"POST_FS_DATA", "LATE_START", "BOOT_COMPLETE"}

InitBoot ==
    /\ bootCnt = 0
    /\ zygiskCfg \in BOOLEAN
    /\ installed = Preinstalled
    /\ marks = [m \in Modules |-> {}]
    /\ upgrade = {}
    /\ flags = {} /\ queue = {} /\ pc = "idle"
    /\ todo = {} /\ found = {} /\ cur = NoModule /\ disable = FALSE
    /\ zygisk_enabled = FALSE /\ module_list = Unset
    /\ installing = NoModule
    /\ crashes = 0 /\ edits = 0
    /\ fails = 0 /\ counted = 0 /\ served = FALSE
    /\ off = {} /\ gone = {} /\ cut = {} /\ clean = FALSE

-----------------------------------------------------------------------------
(* Requests.  init runs "magisk --post-fs-data", "--service" and           *)
(* "--boot-complete"; each is a task that waits for boot_stage_lock.       *)

Loaded == IF module_list = Unset THEN {} ELSE module_list

Send(c) ==
    /\ c \in Codes \ queue
    /\ c = "BOOT_COMPLETE" => /\ Loaded \cap BadModules = {}
                              /\ pc = "idle"
                              /\ "BootComplete" \notin flags
    /\ c = "LATE_START" => "LateStartDone" \notin flags
    /\ queue' = queue \cup {c}
    /\ UNCHANGED <<diskVars, flags, pc, walkVars, listVars, installing, boundVars, historyVars>>

\* Mutant: the stage may be requested again in the same boot.
BeginPostFsDataAgain(ready) == ready

\* boot_stage_handler takes the lock for POST_FS_DATA; ready: check_data().
BeginPostFsData(ready) == ready /\ "PostFsDataDone" \notin flags

PostFsData ==
    /\ pc = "idle" /\ "POST_FS_DATA" \in queue
    /\ queue' = queue \ {"POST_FS_DATA"}
    /\ \E ready \in BOOLEAN : pc' = IF BeginPostFsData(ready) THEN "env" ELSE "idle"
    /\ UNCHANGED <<diskVars, flags, walkVars, listVars, installing, boundVars, historyVars>>

\* Mutant: late_start does not look at the safe mode flag.
LateStartRunsAlways == "PostFsDataDone" \in flags

LateStartRuns == "PostFsDataDone" \in flags /\ "SafeMode" \notin flags

LateStart ==
    /\ pc = "idle" /\ "LATE_START" \in queue
    /\ queue' = queue \ {"LATE_START"}
    /\ IF LateStartRuns
       THEN flags' = flags \cup {"LateStartDone"} /\ served' = TRUE
       ELSE UNCHANGED <<flags, served>>
    /\ UNCHANGED <<diskVars, pc, walkVars, listVars, installing, boundVars,
                   fails, counted, off, gone, cut, clean>>

\* boot_complete: the counter is reset; its write may fail.
BootComplete ==
    /\ pc = "idle" /\ "BOOT_COMPLETE" \in queue
    /\ queue' = queue \ {"BOOT_COMPLETE"}
    /\ \/ /\ "PostFsDataDone" \in flags
          /\ flags' = flags \cup {"BootComplete"}
          /\ \/ bootCnt' = 0 /\ fails' = 0
             \/ "db" \in Failing /\ UNCHANGED <<bootCnt, fails>>
       \/ /\ "PostFsDataDone" \notin flags
          /\ UNCHANGED <<flags, bootCnt, fails>>
    /\ UNCHANGED <<zygiskCfg, installed, marks, upgrade, pc, walkVars, listVars, installing,
                   boundVars, counted, served, off, gone, cut, clean>>

-----------------------------------------------------------------------------
(* post_fs_data                                                            *)

\* post_fs_data returns; safe: what it returns.
Finish(safe) ==
    /\ flags' = flags \cup {"PostFsDataDone"} \cup (IF safe THEN {"SafeMode"} ELSE {})
    /\ pc' = "idle"

\* The secure directory is missing, or busybox is: abort without counting.
EnvIncomplete ==
    /\ pc = "env"
    /\ Finish(TRUE)
    /\ UNCHANGED <<diskVars, queue, walkVars, listVars, installing, boundVars, historyVars>>

EnvReady ==
    /\ pc = "env"
    /\ pc' = "count"
    /\ UNCHANGED <<diskVars, flags, queue, walkVars, listVars, installing, boundVars, historyVars>>

\* Mutant: the boot counter is not raised.
CountSame(cnt) == cnt

CountUp(cnt) == cnt + 1

SafeModeNeeded(cnt, asked) == cnt >= 2 \/ asked

\* History saturates above the limit of two.
OneMoreFail == IF fails < 3 THEN fails + 1 ELSE fails

\* The count is read (0 when the query fails), written back plus one, and
\* safe mode follows from it, the properties or the keys held (asked).
CountBoot ==
    /\ pc = "count"
    /\ \E cnt \in {bootCnt} \cup (IF "db" \in Failing THEN {0} ELSE {}),
          written \in {TRUE} \cup (IF "db" \in Failing THEN {FALSE} ELSE {}),
          asked \in BOOLEAN :
         /\ bootCnt' = IF written THEN CountUp(cnt) ELSE bootCnt
         /\ fails' = IF written /\ cnt = bootCnt THEN OneMoreFail ELSE 0
         /\ IF SafeModeNeeded(cnt, asked)
            THEN pc' = "disable" /\ todo' = installed
            ELSE pc' = "scripts" /\ UNCHANGED todo
    /\ counted' = counted + 1
    /\ UNCHANGED <<zygiskCfg, installed, marks, upgrade, flags, queue, found, cur, disable,
                   listVars, installing, boundVars, served, off, gone, cut, clean>>

\* disable_modules, one directory entry
DisableModule(m) ==
    /\ pc = "disable" /\ m \in todo
    /\ marks' = [marks EXCEPT ![m] = @ \cup {"disable"}]
    /\ off' = off \cup {m}
    /\ todo' = todo \ {m}
    /\ UNCHANGED <<bootCnt, zygiskCfg, installed, upgrade, flags, queue, pc, found, cur, disable,
                   listVars, installing, boundVars, fails, counted, served, gone, cut, clean>>

\* An error on one entry ends the walk.
DisableFails ==
    /\ pc = "disable" /\ todo # {} /\ "disable" \in Failing
    /\ todo' = {} /\ cut' = cut \cup todo
    /\ UNCHANGED <<diskVars, flags, queue, pc, found, cur, disable, listVars, installing,
                   boundVars, fails, counted, served, off, gone, clean>>

DisableDone ==
    /\ pc = "disable" /\ todo = {}
    /\ pc' = "zygiskOff"
    /\ UNCHANGED <<diskVars, flags, queue, walkVars, listVars, installing, boundVars, historyVars>>

ZygiskOff ==
    /\ pc = "zygiskOff"
    /\ \/ zygiskCfg' = FALSE /\ clean' = TRUE
       \/ "db" \in Failing /\ UNCHANGED <<zygiskCfg, clean>>
    /\ Finish(TRUE)
    /\ UNCHANGED <<bootCnt, installed, marks, upgrade, queue, walkVars, listVars, installing,
                   boundVars, fails, counted, served, off, gone, cut>>

\* exec_common_scripts, zygisk_enabled, initialize_denylist, then
\* handle_modules opens modules_update.
CommonScripts ==
    /\ pc = "scripts"
    /\ served' = TRUE
    /\ \/ zygisk_enabled' = zygiskCfg
       \/ "db" \in Failing /\ zygisk_enabled' = FALSE
    /\ pc' = "upgrade"
    /\ UNCHANGED <<diskVars, flags, queue, walkVars, module_list, installing, boundVars,
                   fails, counted, off, gone, cut, clean>>

-----------------------------------------------------------------------------
(* upgrade_modules                                                         *)

\* Mutant: an upgrade does not look for the old disable file.
OldIsForgotten(m) == FALSE

OldIsDisabled(m) == "disable" \in marks[m]

UpgradeModule(m) ==
    /\ pc = "upgrade" /\ m \in upgrade
    /\ cur' = m
    /\ disable' = OldIsDisabled(m)
    /\ pc' = IF m \in installed THEN "wipeOld" ELSE "rename"
    /\ UNCHANGED <<diskVars, flags, queue, todo, found, listVars, installing, boundVars,
                   historyVars>>

\* remove_all unlinks the files of a directory in some order.
WipeSome(step) ==
    /\ pc = step
    /\ \E kept \in SUBSET marks[cur] :
         /\ kept # marks[cur]
         /\ marks' = [marks EXCEPT ![cur] = kept]
    /\ UNCHANGED <<bootCnt, zygiskCfg, installed, upgrade, flags, queue, pc, walkVars, listVars,
                   installing, boundVars, historyVars>>

WipeOldDone ==
    /\ pc = "wipeOld"
    /\ installed' = installed \ {cur}
    /\ marks' = [marks EXCEPT ![cur] = {}]
    /\ pc' = "rename"
    /\ UNCHANGED <<bootCnt, zygiskCfg, upgrade, flags, queue, walkVars, listVars, installing,
                   boundVars, historyVars>>

RenameUpgrade ==
    /\ pc = "rename"
    /\ installed' = installed \cup {cur}
    /\ upgrade' = upgrade \ {cur}
    /\ pc' = IF disable THEN "markDisable" ELSE "upgrade"
    /\ UNCHANGED <<bootCnt, zygiskCfg, marks, flags, queue, walkVars, listVars, installing,
                   boundVars, historyVars>>

MarkDisable ==
    /\ pc = "markDisable"
    /\ marks' = [marks EXCEPT ![cur] = @ \cup {"disable"}]
    /\ pc' = "upgrade"
    /\ UNCHANGED <<bootCnt, zygiskCfg, installed, upgrade, flags, queue, walkVars, listVars,
                   installing, boundVars, historyVars>>

StartCollect(step) ==
    /\ pc' = step
    /\ todo' = installed' /\ found' = {} /\ cur' = NoModule /\ disable' = FALSE

\* An error anywhere in upgrade_modules is dropped by handle_modules.
UpgradeFails ==
    /\ pc \in {"upgrade", "wipeOld", "rename", "markDisable"} /\ "upgrade" \in Failing
    /\ cut' = cut \cup upgrade \cup (IF pc = "upgrade" THEN {} ELSE {cur})
    /\ UNCHANGED <<diskVars, flags, queue, listVars, installing, boundVars,
                   fails, counted, served, off, gone, clean>>
    /\ StartCollect("collect")

UpgradeDone ==
    /\ pc = "upgrade" /\ upgrade = {}
    /\ UNCHANGED <<diskVars, flags, queue, listVars, installing, boundVars, historyVars>>
    /\ StartCollect("collect")

-----------------------------------------------------------------------------
(* collect_modules runs twice: the module scripts in between may change    *)
(* the modules.                                                            *)

Collecting == {"collect", "recollect"}
Wiping == {"wipe", "rewipe"}
WipeStep == IF pc = "collect" THEN "wipe" ELSE "rewipe"

IsLoadable(m) ==
    /\ "disable" \notin marks[m]
    /\ zygisk_enabled \/ m \notin ZygiskModules
CollectModule(m) ==
    /\ pc \in Collecting /\ m \in todo /\ "remove" \notin marks[m]
    /\ marks' = [marks EXCEPT ![m] = @ \ {"update"}]
    /\ found' = IF IsLoadable(m) THEN found \cup {m} ELSE found
    /\ todo' = todo \ {m}
    /\ UNCHANGED <<bootCnt, zygiskCfg, installed, upgrade, flags, queue, pc, cur, disable,
                   listVars, installing, boundVars, historyVars>>

CollectRemove(m) ==
    /\ pc \in Collecting /\ m \in todo /\ "remove" \in marks[m]
    /\ cur' = m
    /\ todo' = todo \ {m}
    /\ pc' = WipeStep
    /\ UNCHANGED <<diskVars, flags, queue, found, disable, listVars, installing, boundVars,
                   historyVars>>

WipeDone ==
    /\ pc \in Wiping
    /\ installed' = installed \ {cur}
    /\ marks' = [marks EXCEPT ![cur] = {}]
    /\ pc' = IF pc = "wipe" THEN "collect" ELSE "recollect"
    /\ UNCHANGED <<bootCnt, zygiskCfg, upgrade, flags, queue, walkVars, listVars, installing,
                   boundVars, historyVars>>

\* An error on one entry ends the pass with what it has found.
CollectFails ==
    /\ pc \in Collecting \cup Wiping /\ "collect" \in Failing
    /\ pc \in Collecting => todo # {}
    /\ todo' = {}
    /\ pc' = IF pc \in {"collect", "wipe"} THEN "collect" ELSE "recollect"
    /\ cut' = IF pc \in Wiping THEN cut \cup {cur} ELSE cut
    /\ UNCHANGED <<diskVars, flags, queue, found, cur, disable, listVars, installing, boundVars,
                   fails, counted, served, off, gone, clean>>

CollectDone ==
    /\ pc = "collect" /\ todo = {}
    /\ pc' = "moduleScripts"
    /\ UNCHANGED <<diskVars, flags, queue, walkVars, listVars, installing, boundVars, historyVars>>

\* A module's post-fs-data script disables or removes the module.
ScriptEdits(m) ==
    /\ pc = "moduleScripts" /\ m \in found \cap installed /\ edits < MaxEdits
    /\ edits' = edits + 1
    /\ \/ /\ marks' = [marks EXCEPT ![m] = @ \cup {"disable"}]
          /\ off' = off \cup {m}
          /\ UNCHANGED <<installed, gone>>
       \/ /\ marks' = [marks EXCEPT ![m] = @ \cup {"remove"}]
          /\ gone' = gone \cup {m}
          /\ UNCHANGED <<installed, off>>
       \/ /\ marks' = [marks EXCEPT ![m] = {}]
          /\ installed' = installed \ {m}
          /\ gone' = gone \cup {m}
          /\ UNCHANGED off
    /\ UNCHANGED <<bootCnt, zygiskCfg, upgrade, flags, queue, pc, walkVars, listVars, installing,
                   crashes, fails, counted, served, cut, clean>>

Recollect ==
    /\ pc = "moduleScripts"
    /\ UNCHANGED <<diskVars, flags, queue, listVars, installing, boundVars, historyVars>>
    /\ StartCollect("recollect")

\* apply_modules mounts the modules, clean_mounts follows.
ApplyModules ==
    /\ pc = "recollect" /\ todo = {}
    /\ module_list' = IF module_list = Unset THEN found ELSE module_list
    /\ Finish(FALSE)
    /\ UNCHANGED <<diskVars, queue, walkVars, zygisk_enabled, installing, boundVars, historyVars>>

-----------------------------------------------------------------------------
(* Edits of the module list by the app (LocalModule.kt) and by the install *)
(* script (util_functions.sh), once Android is up.                         *)

CanEdit ==
    /\ pc = "idle" /\ "PostFsDataDone" \in flags /\ queue = {}
    /\ installing = NoModule /\ edits < MaxEdits

Edit ==
    /\ edits' = edits + 1
    /\ clean' = FALSE
    /\ UNCHANGED <<bootCnt, flags, queue, pc, walkVars, listVars, crashes,
                   fails, counted, served>>

SetEnable(m, enable) ==
    /\ CanEdit /\ m \in installed /\ enable = ("disable" \in marks[m])
    /\ marks' = [marks EXCEPT ![m] = IF enable THEN @ \ {"disable"} ELSE @ \cup {"disable"}]
    /\ off' = IF enable THEN off \ {m} ELSE off \cup {m}
    /\ Edit /\ UNCHANGED <<zygiskCfg, installed, upgrade, installing, gone, cut>>

\* A module waiting for an upgrade cannot be removed.
SetRemove(m, remove) ==
    /\ CanEdit /\ m \in installed
    /\ IF remove THEN "update" \notin marks[m] ELSE "remove" \in marks[m]
    /\ marks' = [marks EXCEPT ![m] = IF remove THEN @ \cup {"remove"} ELSE @ \ {"remove"}]
    /\ gone' = IF remove THEN gone \cup {m} ELSE gone \ {m}
    /\ Edit /\ UNCHANGED <<zygiskCfg, installed, upgrade, installing, off, cut>>

SetZygisk ==
    /\ CanEdit
    /\ zygiskCfg' = ~zygiskCfg
    /\ Edit /\ UNCHANGED <<installed, marks, upgrade, installing, off, gone, cut>>

\* install_module writes the new files under modules_update ...
InstallModule(m) ==
    /\ CanEdit
    /\ upgrade' = upgrade \cup {m}
    /\ installing' = m
    /\ Edit /\ UNCHANGED <<zygiskCfg, installed, marks, off, gone, cut>>

\* ... then leaves a marked placeholder under modules.
InstallDone ==
    /\ installing # NoModule
    /\ installed' = installed \cup {installing}
    /\ marks' = [marks EXCEPT ![installing] = {"update"}]
    /\ off' = off \ {installing} /\ gone' = gone \ {installing}
    /\ cut' = cut \ {installing}
    /\ installing' = NoModule
    /\ UNCHANGED <<bootCnt, zygiskCfg, upgrade, flags, queue, pc, walkVars, listVars, boundVars,
                   fails, counted, served, clean>>

-----------------------------------------------------------------------------
(* The device goes down: on its own, or because a bad module keeps it from *)
(* booting.                                                                *)

InHand ==
    (IF pc \in {"wipeOld", "rename", "markDisable"} \cup Wiping THEN {cur} ELSE {})
      \cup (IF installing = NoModule THEN {} ELSE {installing})

Reboot ==
    /\ cut' = cut \cup InHand
    /\ flags' = {} /\ queue' = {} /\ pc' = "idle"
    /\ todo' = {} /\ found' = {} /\ cur' = NoModule /\ disable' = FALSE
    /\ zygisk_enabled' = FALSE /\ module_list' = Unset
    /\ installing' = NoModule
    /\ counted' = 0 /\ served' = FALSE
    /\ UNCHANGED <<diskVars, edits, fails, off, gone, clean>>

Crash ==
    /\ crashes < MaxCrashes
    /\ crashes' = crashes + 1
    /\ Reboot

Bootloop ==
    /\ \/ module_list # Unset /\ module_list \cap BadModules # {}
       \/ pc = "moduleScripts" /\ found \cap BadModules # {}
    /\ "BootComplete" \notin flags
    /\ Reboot
    /\ UNCHANGED crashes

-----------------------------------------------------------------------------
StageStep ==
    \/ PostFsData \/ LateStart \/ BootComplete
    \/ EnvIncomplete \/ EnvReady \/ CountBoot
    \/ \E m \in Modules : DisableModule(m)
    \/ DisableFails \/ DisableDone \/ ZygiskOff \/ CommonScripts
    \/ \E m \in Modules : UpgradeModule(m)
    \/ \E step \in {"wipeOld", "wipe", "rewipe"} : WipeSome(step)
    \/ WipeOldDone \/ RenameUpgrade \/ MarkDisable \/ UpgradeFails \/ UpgradeDone
    \/ \E m \in Modules : CollectModule(m) \/ CollectRemove(m)
    \/ WipeDone \/ CollectFails \/ CollectDone \/ Recollect \/ ApplyModules

UserStep ==
    \E m \in Modules :
        \/ \E b \in BOOLEAN : SetEnable(m, b) \/ SetRemove(m, b)
        \/ InstallModule(m)

NextBoot ==
    \/ StageStep
    \/ \E c \in Codes : Send(c)
    \/ \E m \in Modules : ScriptEdits(m)
    \/ UserStep \/ SetZygisk \/ InstallDone
    \/ Crash \/ Bootloop

SpecBoot == InitBoot /\ [][NextBoot]_bootVars

(* A stage that has the lock goes on, init fires its triggers, the         *)
(* post-fs-data one at some time with /data mounted, a boot-complete       *)
(* request is not kept from the lock for ever by other requests, and a     *)
(* device that hangs in a boot loop is restarted.                          *)
DataMounted == PostFsData /\ pc' = "env"
LiveBoot ==
    /\ SpecBoot
    /\ WF_bootVars(StageStep) /\ SF_bootVars(DataMounted) /\ SF_bootVars(BootComplete)
    /\ WF_bootVars(InstallDone) /\ WF_bootVars(Bootloop)
    /\ \A c \in Codes : WF_bootVars(Send(c))

-----------------------------------------------------------------------------
(* Properties                                                              *)

\* However often init repeats the post-fs-data request, a boot is counted at
\* most once (post_fs_data), so a single boot cannot reach the safe mode limit.
CountedAtMostOnce == counted <= 1

\* Once two boots in a row have been counted and not completed, the next ones
\* load no module until a boot completes (post_fs_data, boot_complete).
ThirdBootIsSafe == module_list # Unset => fails <= 2

\* In a boot that post_fs_data ended early, for safe mode or for want of an
\* environment, no script runs, no module is loaded and zygisk stays off,
\* whatever stage requests arrive before or after (boot_stage_handler).
SafeBootIsClean ==
    "SafeMode" \in flags => ~served /\ ~zygisk_enabled /\ module_list = Unset

Loading == module_list = Unset /\ module_list' # Unset

\* A module disabled or removed by the user, its own script or safe mode is not
\* loaded until enabled again, across upgrades and reboots, but for one whose
\* removal, upgrade or installation a reboot or an error interrupted.
DisabledStaysOff == [][Loading => module_list' \cap (off \cup gone) \subseteq cut]_bootVars

\* After safe mode nothing is loaded in later boots until the user edits the
\* module list, new modules waiting in modules_update included, but for a
\* module whose handling was interrupted (disable_modules, upgrade_modules,
\* install_module).
SafeModeCleansNextBoot ==
    clean /\ module_list # Unset => module_list \subseteq cut /\ ~zygisk_enabled

CountFails == CountBoot /\ bootCnt' # CountUp(bootCnt)

\* A module that keeps Android from booting cannot do so for ever: once edits,
\* power cuts and failing writes of the count end, whenever init asks for a stage
\* some boot completes in the end (boot counter and safe mode).
RecoversFromBootloop ==
    <>[][~CountFails]_bootVars => (queue # {} ~> "BootComplete" \in flags)

\* The boot counter is exact enough for safe mode: one boot never counts twice, and two
\* boots that failed make the next one safe.
BootsCounted == CountedAtMostOnce /\ ThirdBootIsSafe

\* Safe mode is clean, in the boot it is entered and in those after it.
SafeModeHolds == SafeBootIsClean /\ SafeModeCleansNextBoot

=============================================================================
