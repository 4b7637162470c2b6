------------------------------- MODULE Mounts -------------------------------
(***************************************************************************)
(* native/src/core/mount.rs: the partition that carries what is needed     *)
(* before init (chosen by find_preinit_device when Magisk is installed,    *)
(* found again by setup_preinit_dir at boot-complete), the mounts the      *)
(* daemon keeps for itself, and revert_unmount, which takes Magisk's       *)
(* mounts out of the namespace of a process on the deny list.              *)
(*                                                                         *)
(* A path is a sequence of names.  A mount over another one hides it, and  *)
(* the mounts on the hidden one stay where they are.                       *)
(***************************************************************************)
EXTENDS Naturals, Sequences, FiniteSets, SequencesExt

CONSTANTS
    MountTables,  \* /proc/self/mountinfo of a device: [part, fs, rw, root, source, dev]
    Crypto,       \* its encryption: [state, type, metadata], the three properties
    RomMounts,    \* where a device has mounts under the root, sets of paths
    Targets,      \* where Magisk mounts something of a module
    PathOrder,    \* the paths in the order of their strings
    MaxMounts     \* bound: mounts made for modules

\* Magisk's own places.
MagiskTmp == <<"tmp">>
ModuleMnt == <<"tmp", "modules">>
WorkerDir == <<"tmp", "worker">>

\* The paths, each once, and what lies in a path after it.
ASSUME PathsOrdered ==
    /\ PathOrder \in Seq(Seq(STRING))
    /\ \A i, j \in DOMAIN PathOrder : IsPrefix(PathOrder[i], PathOrder[j]) => i <= j
    /\ {MagiskTmp, ModuleMnt, WorkerDir} \cup Targets \subseteq Range(PathOrder)
    /\ \A s \in RomMounts : s \subseteq Range(PathOrder)

\* No name sorts between a path and what lies under it.  "/a.b" does, between "/a" and
\* "/a/x": both loops that compare a mount with the last one before it then miss that "/a/x"
\* lies in "/a", and revert_unmount goes on to unmount what the device has at "/a/x".
ASSUME SubtreesTogether ==
    \A i, j, k \in DOMAIN PathOrder :
        i < j /\ j < k /\ IsPrefix(PathOrder[i], PathOrder[k]) => IsPrefix(PathOrder[i], PathOrder[j])

\* Modules have nothing for the place Magisk has for itself.
ASSUME TargetsOutside ==
    \A p \in Targets : ~IsPrefix(p, MagiskTmp) /\ ~IsPrefix(MagiskTmp, p)

\* A table is a list of mounts.
ASSUME TablesAreLists == \A t \in MountTables : t \in Seq(Range(t))

\* A device has one metadata partition, with one file system.  The comparison finds two of
\* different file systems equal, and what it chooses then depends on their order.
ASSUME OneMetadata ==
    \A t \in MountTables : \A i, j \in Range(t) :
        i.part = "metadata" /\ j.part = "metadata" => i.fs = j.fs

VARIABLES
    mtTable, mtCrypto,  \* the device
    mtDev,        \* the node PREINITDEV: the device number it stands for, or NoDevice
    mtChosen,     \* the mount find_preinit_device chose, NoMount before
    mtMirror,     \* where PREINITMIRR leads: the mount, or NoMount
    mtNs,         \* the mounts of the namespace
    mtMade,       \* the id of the last one made
    mtRom,        \* those the device had before Magisk
    mtStage       \* how far the daemon is

preinitVars == <<mtTable, mtCrypto, mtDev, mtChosen, mtMirror>>
nsVars == <<mtNs, mtMade, mtRom, mtStage>>
mountsVars == <<preinitVars, nsVars>>

NoMount == [part |-> "none"]
NoDevice == 0

-----------------------------------------------------------------------------
(* The preinit partition *)

PartRank == [data |-> 0, cache |-> 1, metadata |-> 2, persist |-> 3]

EncryptType(c) ==
    CASE c.state # "encrypted" -> "None"
      [] c.state = "encrypted" /\ c.type = "block" -> "Block"
      [] c.state = "encrypted" /\ c.type # "block" /\ c.metadata -> "Metadata"
      [] OTHER -> "File"

\* source: "block" for a file of a by-name or block directory that is not a dm device.
IsMatch(info, encrypt) ==
    /\ info.root = "/" /\ info.source = "block"
    /\ info.fs \in {"ext4", "f2fs"} /\ info.rw
    /\ info.part \in DOMAIN PartRank
    /\ info.part = "data" => encrypt \in {"None", "File"}

\* Mutant: the kind of file system alone decides.
IsLessByFs(a, b) == a.fs = "ext4" /\ b.fs = "f2fs"

\* The comparison: is a taken before b?
IsLess(a, b) ==
    LET byPart == PartRank[a.part] < PartRank[b.part]
        aExt == a.fs = "ext4"
        bExt == b.fs = "ext4"
    IN IF (a.part = "metadata" /\ bExt) \/ (b.part = "metadata" /\ aExt) THEN byPart
       ELSE IF aExt # bExt THEN aExt
       ELSE byPart

\* The mounts that can be taken.
Matched(table, c) == {i \in Range(table) : IsMatch(i, EncryptType(c))}

\* select_nth_unstable_by(0) over the mounts that match, in the order of the table: the
\* first one no later one was found to be less than; NoMount when none matches.
Lesser(acc, i, c) ==
    IF IsMatch(i, EncryptType(c)) /\ (acc = NoMount \/ IsLess(i, acc)) THEN i ELSE acc
SelectedTo(table, c) ==
    LET best[k \in 0..Len(table)] == IF k = 0 THEN NoMount ELSE Lesser(best[k - 1], table[k], c)
    IN best
Selected(table, c) == SelectedTo(table, c)[Len(table)]

\* makedev: MAKEDEV is set, as the installer of the app does.
FindPreinitDevice(makedev) ==
    LET info == Selected(mtTable, mtCrypto)
    IN /\ mtChosen = NoMount
       /\ info # NoMount
       /\ mtChosen' = info
       /\ mtMirror' = info
       /\ mtDev' = IF makedev THEN info.dev ELSE mtDev
       /\ UNCHANGED <<mtTable, mtCrypto, nsVars>>

\* After a reboot the node is made by magiskinit (mount_preinit_dir) and the mounts are
\* listed in another order.
Reboot(table) ==
    /\ mtChosen # NoMount
    /\ Range(table) = Range(mtTable)
    /\ mtTable' = table
    /\ mtDev' = mtChosen.dev
    /\ mtMirror' = NoMount
    /\ UNCHANGED <<mtCrypto, mtChosen, nsVars>>

\* The first writable mount of the whole device whose directory can be made.
SetupPreinitDir(fails) ==
    LET found == SelectSeq(mtTable, LAMBDA i : i.root = "/" /\ i.dev = mtDev /\ i.rw /\ i \notin fails)
    IN /\ mtDev # NoDevice
       /\ mtMirror' = IF found = <<>> THEN mtMirror ELSE Head(found)
       /\ UNCHANGED <<mtTable, mtCrypto, mtDev, mtChosen, nsVars>>

-----------------------------------------------------------------------------
(* The mount namespace *)

\* A mount: when it was made (id), where (at), whether revert_unmount knows it for Magisk's
\* (mine), and the mounts it lies on, down to the root (on, their ids).
Root == [id |-> 0, at |-> <<>>, mine |-> FALSE, on |-> {}]

\* The mounts of the device, made in the order of their paths.
RomMount(k, s) ==
    [id |-> k, at |-> PathOrder[k], mine |-> FALSE,
     on |-> {0} \cup {j \in 1..(k - 1) : PathOrder[j] \in s /\ IsPrefix(PathOrder[j], PathOrder[k])}]
RomNs(s) == {Root} \cup {RomMount(k, s) : k \in {i \in DOMAIN PathOrder : PathOrder[i] \in s}}

\* The mount a path leads to: a mount hides what was at its target and under it, so it is
\* the last one made of those the path lies in.
Containing(ns, p) == {m \in ns : IsPrefix(m.at, p)}
Walk(ns, p) == CHOOSE m \in Containing(ns, p) : \A c \in Containing(ns, p) : c.id <= m.id

Mount(ns, p, mine) ==
    [id |-> mtMade + 1, at |-> p, mine |-> mine, on |-> Walk(ns, p).on \cup {Walk(ns, p).id}]

\* umount2 with MNT_DETACH takes the mounts on it along; no mount there: an error.
Above(m, ns) == {c \in ns : c = m \/ m.id \in c.on}
Unmounted(ns, p) ==
    LET m == Walk(ns, p) IN IF m # Root /\ m.at = p THEN ns \ Above(m, ns) ELSE ns

\* In the order of the strings.
Precedes(p, q) == \E i, j \in DOMAIN PathOrder : i < j /\ PathOrder[i] = p /\ PathOrder[j] = q

-----------------------------------------------------------------------------
(* What Magisk mounts *)

\* switch_root of magiskinit (init/mount.rs), where the system partition becomes the root:
\* each mount is moved to the new root unless the last one moved that sorts before it
\* contains it, and it went there with that one.  A mount that has gone cannot be moved:
\* the first error ends the loop.
GoesAlong(moved, t) ==
    LET before == {p \in moved : Precedes(p, t)}
    IN \E last \in before : IsPrefix(last, t) /\ \A p \in before : p = last \/ Precedes(p, last)
MoveMount(acc, t) ==
    IF acc.failed \/ GoesAlong(acc.moved, t) THEN acc
    ELSE IF \E p \in acc.moved : IsPrefix(p, t) THEN [acc EXCEPT !.failed = TRUE]
    ELSE [acc EXCEPT !.moved = @ \cup {t}]
MovedTo(order) ==
    LET acc[k \in 0..Len(order)] ==
          IF k = 0 THEN [moved |-> {}, failed |-> FALSE] ELSE MoveMount(acc[k - 1], order[k])
    IN acc

SwitchRoot(order) ==
    LET end == MovedTo(order)[Len(order)]
    IN /\ mtStage = "rom"
       /\ mtNs' = {m \in mtNs : m = Root \/ \E p \in end.moved : IsPrefix(p, m.at)}
       /\ mtStage' = IF end.failed THEN "stranded" ELSE "switched"
       /\ UNCHANGED <<mtRom, mtMade, preinitVars>>

\* The orders mountinfo may list the device's mounts in: a mount after what it lies in.
MountOrders ==
    LET S == {m.at : m \in mtNs \ {Root}}
    IN {o \in [1..Cardinality(S) -> S] :
          Range(o) = S /\ \A i, j \in DOMAIN o : IsPrefix(o[i], o[j]) => i <= j}

SetupTmp ==
    /\ mtStage \in {"rom", "switched"}
    /\ mtNs' = mtNs \cup {Mount(mtNs, MagiskTmp, TRUE)}
    /\ mtMade' = mtMade + 1
    /\ mtStage' = "tmp"
    /\ UNCHANGED <<mtRom, preinitVars>>

\* handle_modules; the remount can fail after the bind.
SetupModuleMount(mkdirOk) ==
    /\ mtStage = "tmp"
    /\ IF mkdirOk THEN mtNs' = mtNs \cup {Mount(mtNs, ModuleMnt, TRUE)} /\ mtMade' = mtMade + 1
       ELSE UNCHANGED <<mtNs, mtMade>>
    /\ mtStage' = "modules"
    /\ UNCHANGED <<mtRom, preinitVars>>

\* The worker directory (magic mount): a tmpfs of its own.
SetupWorker ==
    /\ mtStage = "modules"
    /\ mtNs' = mtNs \cup {Mount(mtNs, WorkerDir, TRUE)}
    /\ mtMade' = mtMade + 1
    /\ mtStage' = "worker"
    /\ UNCHANGED <<mtRom, preinitVars>>

MadeForModules == {m \in mtNs \ mtRom : ~IsPrefix(MagiskTmp, m.at) /\ m # Root}

\* A module's file or Magisk's tmpfs over a path of the device, or inside Magisk's tmpfs;
\* there a mirror of the device's own file as well.
MountForModule(p, mirror) ==
    /\ mtStage = "worker" /\ Cardinality(MadeForModules) < MaxMounts
    /\ \A m \in mtNs : m.mine => m.at # p
    /\ \A m \in MadeForModules : m.at # p /\ ~IsPrefix(p, m.at)
    /\ mirror => Walk(mtNs, p).mine
    /\ mtNs' = mtNs \cup {Mount(mtNs, p, ~mirror)}
    /\ mtMade' = mtMade + 1
    /\ UNCHANGED <<mtRom, mtStage, preinitVars>>

CleanMounts(privateOk) ==
    /\ mtStage = "worker"
    /\ mtNs' = LET ns == Unmounted(mtNs, ModuleMnt) IN IF privateOk THEN Unmounted(ns, WorkerDir) ELSE ns
    /\ mtStage' = "clean"
    /\ UNCHANGED <<mtRom, mtMade, preinitVars>>

-----------------------------------------------------------------------------
(* revert_unmount *)

\* Mutant: every target is unmounted.
RetainedAll(kept, t) == Append(kept, t)

\* A target is kept unless it lies in the last one kept.
Retained(kept, t) ==
    IF kept # <<>> /\ IsPrefix(kept[Len(kept)], t) THEN kept ELSE Append(kept, t)

\* The targets sorted, and those kept of the first k paths.
RetainedTo(targets) ==
    LET kept[k \in 0..Len(PathOrder)] ==
          IF k = 0 THEN <<>>
          ELSE IF PathOrder[k] \in targets THEN Retained(kept[k - 1], PathOrder[k])
          ELSE kept[k - 1]
    IN kept

UnmountedTo(ns, targets) ==
    LET left[k \in 0..Len(targets)] == IF k = 0 THEN ns ELSE Unmounted(left[k - 1], targets[k])
    IN left

RevertUnmount ==
    LET targets == {m.at : m \in {n \in mtNs : n.mine}}
        kept == RetainedTo(targets)[Len(PathOrder)]
    IN /\ mtStage \in {"worker", "clean"}
       /\ targets # {}
       /\ mtNs' = UnmountedTo(mtNs, kept)[Len(kept)]
       /\ mtStage' = "reverted"
       /\ UNCHANGED <<mtRom, mtMade, preinitVars>>

-----------------------------------------------------------------------------

InitMounts ==
    /\ mtTable \in MountTables /\ mtCrypto \in Crypto
    /\ mtDev = NoDevice /\ mtChosen = NoMount /\ mtMirror = NoMount
    /\ mtRom \in {RomNs(s) : s \in RomMounts}
    /\ mtNs = mtRom /\ mtMade = Len(PathOrder)
    /\ mtStage = "rom"

NextPreinit ==
    \/ \E d \in BOOLEAN : FindPreinitDevice(d)
    \/ \E t \in MountTables : Reboot(t)
    \/ \E s \in SUBSET Range(mtTable) : SetupPreinitDir(s)

NextNs ==
    \/ mtStage = "rom" /\ \E o \in MountOrders : SwitchRoot(o)
    \/ SetupTmp
    \/ \E ok \in BOOLEAN : SetupModuleMount(ok)
    \/ SetupWorker
    \/ \E p \in Targets, mirror \in BOOLEAN : MountForModule(p, mirror)
    \/ \E ok \in BOOLEAN : CleanMounts(ok)
    \/ RevertUnmount

SpecMounts == InitMounts /\ [][NextPreinit \/ NextNs]_mountsVars

-----------------------------------------------------------------------------
(* Properties *)

\* The comparison goes round in a circle on some devices: one of f2fs with an f2fs metadata
\* partition and an ext4 persist partition.  What is chosen then depends on the order of the
\* mounts, and can be the data partition with f2fs though there is one with ext4.
Circular(S) == \E a, b, c \in S : IsLess(a, b) /\ IsLess(b, c) /\ IsLess(c, a)

\* The partition chosen is the one the comments promise, in whatever order the kernel
\* lists the mounts: among those with its file system it is the first in the order data,
\* cache, metadata, persist, and f2fs, which some kernels crash on, is taken over an ext4
\* partition for metadata only, unless the order is circular (find_preinit_device).
ChoiceAsDocumented ==
    LET m == Matched(mtTable, mtCrypto)
    IN mtChosen # NoMount /\ ~Circular(m) =>
         /\ \A i \in m : i.fs = mtChosen.fs => PartRank[mtChosen.part] <= PartRank[i.part]
         /\ (mtChosen.fs = "f2fs" /\ mtChosen.part # "metadata") => \A i \in m : i.fs = "f2fs"

\* A process on the deny list is left with exactly the mounts of the device: nothing of
\* Magisk's is left, mirrors included, and no mount of the device is lost, one hidden under
\* Magisk's included, nor was one left behind when the root was switched, nor did the
\* switch stop half-way (revert_unmount, switch_root).
RevertExact == mtStage # "stranded" /\ (mtStage = "reverted" => mtNs = mtRom)
=============================================================================
