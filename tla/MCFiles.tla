------------------------------ MODULE MCFiles ------------------------------
(***************************************************************************)
(* Files and mounts for TLC: the tree of the modules mounted over the      *)
(* system, the mounts of the daemon and of magiskinit, and the tools that  *)
(* work on files (the cpio, compression and policy tools, the tree         *)
(* operations of the base library, the log).  They share no state here, so *)
(* each is explored while the others rest: `part' says which one moves.    *)
(***************************************************************************)
EXTENDS MCMountTree, MCMounts, MCCpio, MCSePolicy, MCFileTree, Compress, LogPipe

VARIABLE part

AnyLength == {[i \in 1..n |-> i] : n \in 0..8}

-----------------------------------------------------------------------------
Parts == {"modules", "preinit", "namespace", "cpio", "sepolicy", "tree", "compress", "log"}
allVars == <<part, mountVars, mountsVars, cpioVars, sepolVars, treeVars, compressVars, logVars>>

InitParts ==
    /\ part \in Parts
    /\ part = "modules" \/ (device = RestingDevice /\ modules = RestingModules /\ path_env = RestingPathEnv)
    /\ InitMount
    /\ path_env = RestingPathEnv \/ Len(modules) = 1
    /\ part = "preinit" \/ (mtTable = RestingTable /\ mtCrypto = RestingCrypto)
    /\ part = "namespace" \/ mtRom = {Root}
    /\ InitMounts
    /\ part = "cpio" \/ cpFile = RestingStock
    /\ InitCpio
    /\ part = "sepolicy" \/ spOpt = RestingOptions
    /\ InitSepol
    /\ part = "tree" \/ (ftFs = RestingTree /\ ftCall = RestingCall)
    /\ InitTree
    /\ part = "compress" \/ (czFile = <<>> /\ czLg = FALSE /\ czBeside = FALSE)
    /\ InitCompress
    /\ InitLog

Modules == part = "modules" /\ NextMount
           /\ UNCHANGED <<part, mountsVars, cpioVars, sepolVars, treeVars, compressVars, logVars>>
Preinit == part = "preinit" /\ NextPreinit
           /\ UNCHANGED <<part, mountVars, cpioVars, sepolVars, treeVars, compressVars, logVars>>
Namespace == part = "namespace" /\ NextNs
           /\ UNCHANGED <<part, mountVars, cpioVars, sepolVars, treeVars, compressVars, logVars>>
Ramdisks == part = "cpio" /\ NextCpio
           /\ UNCHANGED <<part, mountVars, mountsVars, sepolVars, treeVars, compressVars, logVars>>
Sepolicy == part = "sepolicy" /\ NextSepol
           /\ UNCHANGED <<part, mountVars, mountsVars, cpioVars, treeVars, compressVars, logVars>>
TreeCalls == part = "tree" /\ NextTree
           /\ UNCHANGED <<part, mountVars, mountsVars, cpioVars, sepolVars, compressVars, logVars>>
Archives == part = "compress" /\ NextCompress
           /\ UNCHANGED <<part, mountVars, mountsVars, cpioVars, sepolVars, treeVars, logVars>>
Logging == part = "log" /\ NextLog
           /\ UNCHANGED <<part, mountVars, mountsVars, cpioVars, sepolVars, treeVars, compressVars>>

(* All come to an end: a command is done, a bound is reached. *)
Rests == UNCHANGED allVars

SpecParts ==
    InitParts
    /\ [][Modules \/ Preinit \/ Namespace \/ Ramdisks \/ Sepolicy \/ TreeCalls \/ Archives \/ Logging \/ Rests]_allVars
=============================================================================
