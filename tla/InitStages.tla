----------------------------- MODULE InitStages -----------------------------
(***************************************************************************)
(* magiskinit (native/src/init): the kernel starts it in place of the      *)
(* device's init.  It prepares the root file system, hands over to the     *)
(* device's own init and, where that one starts a second stage, arranges   *)
(* to be started once more in its place.                                   *)
(*                                                                         *)
(* What the device's own init does (switching the root, starting the       *)
(* second stage) is external.                                              *)
(***************************************************************************)
EXTENDS Naturals, Sequences

\* Devices: skip_initramfs, force_normal_boot (the boot configuration), recovery (the
\* ramdisk is one), two_stage (the device's init starts a second stage), backup (the
\* ramdisk keeps the init it came with), sdcard (the ramdisk has /sdcard), names_init (the
\* device's /init holds the path of the second stage), mounted (/proc and /sys are there).
CONSTANT BootDevices

\* A device without a second stage has no /sdcard to mount over and no init that names it;
\* one that boots normally from a recovery ramdisk, or has no init of its own in the
\* ramdisk, has two stages.
ASSUME DeviceAssumption ==
    \A d \in BootDevices :
        /\ d \in [skip_initramfs : BOOLEAN, force_normal_boot : BOOLEAN, recovery : BOOLEAN,
                  two_stage : BOOLEAN, backup : BOOLEAN, sdcard : BOOLEAN, names_init : BOOLEAN,
                  mounted : BOOLEAN]
        /\ (d.force_normal_boot \/ ~d.backup) => d.two_stage
        /\ (d.sdcard \/ d.names_init) => d.two_stage

VARIABLES
    inDev,     \* the device
    inPc,      \* what process 1 does
    inInit,    \* /init: "magiskinit", "device", "patched" (leads to magiskinit), "link", "none"
    inSecond,  \* /system/bin/init: "device" or "magiskinit"
    inSdcard,  \* what is mounted at /sdcard
    inData,    \* tmpfs at /data with magiskinit in it
    inMounts,  \* mount_list
    inLeft,    \* what is still mounted of what magiskinit mounted
    inPatched  \* how often the root was patched

initVars == <<inDev, inPc, inInit, inSecond, inSdcard, inData, inMounts, inLeft, inPatched>>

\* "/init" as it was put back: from the backup, or a link to the second stage's.
RestoredInit == IF inDev.backup THEN "device" ELSE "link"

\* check_two_stage: by what the ramdisk has, or by what the init it came with says.
TwoStage == inDev.two_stage

Add(m) == inMounts' = Append(inMounts, m) /\ inLeft' = inLeft \cup {m}

-----------------------------------------------------------------------------

\* MagiskInit::start up to the choice of the stage.
StartStage(stage) == inPc' = stage /\ UNCHANGED <<inDev, inInit, inSecond, inSdcard, inData, inPatched>>

Start(setup) ==
    /\ inPc = IF setup THEN "selinux_setup" ELSE "kernel"
    /\ IF inDev.mounted \/ setup THEN UNCHANGED <<inMounts, inLeft>>
       ELSE inMounts' = <<"/proc", "/sys">> /\ inLeft' = inLeft \cup {"/proc", "/sys"}
    /\ StartStage(CASE setup -> "second_stage"
                    [] ~setup /\ inDev.skip_initramfs -> "legacy_system_as_root"
                    [] ~setup /\ ~inDev.skip_initramfs /\ inDev.force_normal_boot -> "first_stage"
                    [] ~setup /\ ~inDev.skip_initramfs /\ ~inDev.force_normal_boot /\ inDev.recovery -> "recovery"
                    [] ~setup /\ ~inDev.skip_initramfs /\ ~inDev.force_normal_boot /\ ~inDev.recovery /\ TwoStage -> "first_stage"
                    [] OTHER -> "rootfs")

\* hexpatch_init_for_second_stage: /init, or a copy bound over it, starts /data/magiskinit.
Hexpatched(init) == IF init \in {"device", "link"} /\ inDev.names_init THEN "patched" ELSE init

\* prepare_data: a tmpfs at /data with magiskinit, the backup and the overlay in it.
PrepareData == inData' = TRUE

\* hijack_init_with_switch_root: magiskinit is moved to /sdcard and mounted there for the
\* device's switch of the root to carry it over /system/bin/init.
Hijack == inSdcard' = inInit

\* Mutant: /init is put back before it is moved to /sdcard.
FirstStageSwapped ==
    /\ inPc = "first_stage"
    /\ inData' = TRUE
    /\ IF inDev.sdcard THEN inInit' = Hexpatched(RestoredInit) /\ UNCHANGED inSdcard
       ELSE inSdcard' = RestoredInit /\ inInit' = "none"
    /\ inPc' = "exec"
    /\ UNCHANGED <<inDev, inSecond, inMounts, inLeft, inPatched>>

\* With an /sdcard in the way, the path in /init is patched instead.
first_stage ==
    /\ inPc = "first_stage"
    /\ PrepareData
    /\ IF inDev.sdcard THEN inInit' = Hexpatched(RestoredInit) /\ UNCHANGED inSdcard
       ELSE Hijack /\ inInit' = RestoredInit
    /\ inPc' = "exec"
    /\ UNCHANGED <<inDev, inSecond, inMounts, inLeft, inPatched>>

recovery ==
    /\ inPc = "recovery"
    /\ inInit' = RestoredInit
    /\ inPc' = "exec"
    /\ UNCHANGED <<inDev, inSecond, inSdcard, inData, inMounts, inLeft, inPatched>>

\* patch_ro_root and patch_rw_root: the scripts, Magisk's files, the policy (SepolicyHandoff),
\* the overlay; /data goes when init is started.
rootfs ==
    /\ inPc = "rootfs"
    /\ PrepareData
    /\ inInit' = RestoredInit
    /\ inPatched' = inPatched + 1
    /\ Add("/data")
    /\ inPc' = "exec"
    /\ UNCHANGED <<inDev, inSecond, inSdcard>>

\* mount_system_root: the new root has the device's own /init; it may have a second stage.
legacy_system_as_root ==
    /\ inPc = "legacy_system_as_root"
    /\ PrepareData
    /\ IF inDev.two_stage
       THEN /\ inInit' = Hexpatched("device")
            /\ Add("/dev")
            /\ UNCHANGED inPatched
       ELSE /\ inInit' = "device"
            /\ inMounts' = inMounts \o <<"/dev", "/data">>
            /\ inLeft' = inLeft \cup {"/dev", "/data"}
            /\ inPatched' = inPatched + 1
    /\ inPc' = "exec"
    /\ UNCHANGED <<inDev, inSecond, inSdcard>>

\* No root partition: exit, and the kernel panics; with rootwait it is looked for again.
NoRootPartition ==
    /\ inPc = "legacy_system_as_root"
    /\ inPc' = "panic"
    /\ UNCHANGED <<inDev, inInit, inSecond, inSdcard, inData, inMounts, inLeft, inPatched>>

\* What the first stage put in place is taken away again, then the root is patched.
second_stage ==
    /\ inPc = "second_stage"
    /\ inSecond' = "device"
    /\ inInit' = "link"
    /\ inPatched' = inPatched + 1
    /\ inMounts' = <<"/data">> /\ inLeft' = inLeft \cup {"/data"}
    /\ inPc' = "exec"
    /\ UNCHANGED <<inDev, inSdcard, inData>>

\* exec_init: the mounts go in reverse, and process 1 becomes /init.
exec_init ==
    LET from == IF inInit = "link" THEN inSecond ELSE inInit
    IN /\ inPc = "exec"
       /\ inLeft' = inLeft \ {inMounts[i] : i \in DOMAIN inMounts}
       /\ inMounts' = <<>>
       /\ inData' = (inData /\ "/data" \notin {inMounts[i] : i \in DOMAIN inMounts})
       /\ inPc' = CASE from = "magiskinit" -> "loop"
                    [] from = "none" -> "panic"
                    [] from \in {"device", "patched"} -> "init"
       /\ UNCHANGED <<inDev, inInit, inSecond, inSdcard, inPatched>>

-----------------------------------------------------------------------------
(* The device's own init *)

IntoRecovery == inDev.recovery /\ ~inDev.force_normal_boot /\ ~inDev.skip_initramfs

HasSecondStage == inDev.two_stage /\ ~IntoRecovery

\* The first stage starts the second: /system/bin/init after a switch of the root, which
\* moves what is mounted at /sdcard to what will be /system/bin/init; or the path it holds.
\* A ramdisk that has /sdcard is one whose init does not switch the root.
DeviceInit ==
    LET second == IF ~inDev.sdcard /\ inSdcard = "magiskinit" THEN "magiskinit" ELSE inSecond
    IN /\ inPc = "init"
       /\ IF HasSecondStage /\ inPatched = 0
          THEN /\ inSecond' = second
               /\ inPc' = IF (inInit = "patched" /\ inData) \/ second = "magiskinit"
                          THEN "selinux_setup" ELSE "system"
          ELSE inPc' = "system" /\ UNCHANGED inSecond
       /\ UNCHANGED <<inDev, inInit, inSdcard, inData, inMounts, inLeft, inPatched>>

-----------------------------------------------------------------------------

InitStart ==
    /\ inDev \in BootDevices
    /\ inPc = "kernel" /\ inInit = "magiskinit" /\ inSecond = "device" /\ inSdcard = "none"
    /\ inData = FALSE /\ inMounts = <<>> /\ inLeft = {} /\ inPatched = 0

NextStart ==
    \/ \E setup \in BOOLEAN : Start(setup)
    \/ first_stage \/ second_stage \/ legacy_system_as_root \/ NoRootPartition
    \/ rootfs \/ recovery \/ exec_init \/ DeviceInit

SpecStart == InitStart /\ [][NextStart]_initVars

-----------------------------------------------------------------------------
(* Properties *)

\* Can the second stage be taken over at all?
Reachable == \/ ~HasSecondStage \/ inDev.names_init
             \/ (~inDev.sdcard /\ ~inDev.skip_initramfs)

\* Whatever the kind of device, the system that comes up was patched exactly once (a
\* recovery never), process 1 is the device's own init and never magiskinit over and over,
\* no stand-in for /system/bin/init and no early mount is left behind (start, exec_init).
SystemTakesOver ==
    /\ inPc # "loop"
    /\ inPc = "panic" => inDev.skip_initramfs
    /\ inPc = "system" =>
         /\ Reachable => inPatched = (IF IntoRecovery THEN 0 ELSE 1)
         /\ inPatched <= 1
         /\ inSecond = "device"
         /\ inLeft = {}
=============================================================================
