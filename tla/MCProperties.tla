---------------------------- MODULE MCProperties ----------------------------
(***************************************************************************)
(* System properties for TLC: the native bridge property that zygisk sets  *)
(* and takes back, with the companions and zygote it is about, and the     *)
(* resetprop processes.  Each is explored while the other rests in its     *)
(* initial state: `part' says which one moves.                             *)
(***************************************************************************)
EXTENDS ZygiskState, ResetProp, TLC

VARIABLE part

(* A native bridge of the device's own. *)
OwnBridge == <<"nb.so">>

(* Three processes write properties, one reads one and one waits.          *)
Command(mode, list, skip, persist) ==
    [mode |-> mode, list |-> list, skip_svc |-> skip, persist |-> persist]
MCCommands ==
    [w1 |-> Command("set", <<<<"persist.a", "v2">>, <<"ro.x", "long">>>>, TRUE, TRUE),
     w2 |-> Command("delete", <<<<"persist.b", NoProp>>>>, FALSE, TRUE),
     w3 |-> Command("set", <<<<"persist.a", "v1">>>>, FALSE, FALSE),
     get |-> Command("get", <<<<"persist.c", NoProp>>>>, FALSE, TRUE),
     wait |-> Command("wait", <<<<"persist.a", "v1">>>>, FALSE, FALSE)]
MCStores == {[proto |-> b, props |-> ("persist.a" :> a @@ "persist.b" :> "v1" @@ "persist.c" :> "v1")]
             : b \in BOOLEAN, a \in {NoProp, "v1"}}
RestingStore == CHOOSE s \in MCStores : TRUE

-----------------------------------------------------------------------------
allVars == <<part, zygiskVars, propVars>>

InitParts ==
    /\ part \in {"zygisk", "resetprop"}
    /\ InitZygisk /\ InitProp
    /\ part # "resetprop" => rpStore = RestingStore /\ \A k \in PropNames \ PersistProps : rpProps[k] = NoProp

Zygisk == part = "zygisk" /\ NextZygisk /\ UNCHANGED <<part, propVars>>
Resetprop == part = "resetprop" /\ NextProp /\ UNCHANGED <<part, zygiskVars>>

(* A stopped daemon does nothing more, and a process that is done neither. *)
Rests == UNCHANGED allVars

(* The fairness of each module, for the component that moves.              *)
PartFairness ==
    /\ WF_zygiskVars(part = "zygisk" /\ ZygiskPostFsData) /\ WF_zygiskVars(HolderStep)
    /\ \A b \in BOOLEAN : WF_zygiskVars(zygiskd[b] # "serving" /\ (ZygiskdReady(b) \/ ZygiskdDies(b)))
    /\ SF_zygiskVars(ZygoteRestartRequest) /\ SF_zygiskVars(BootCompleteRequest) /\ SF_zygiskVars(StopDaemon)
    /\ WF_zygiskVars(part = "zygisk" /\ ZygoteStarts) /\ WF_zygiskVars(InjectionDies) /\ WF_zygiskVars(SystemBoots)
    /\ \A p \in Procs : WF_propVars(part = "resetprop" /\ WaitStep(p))
    /\ WF_propVars(part = "resetprop" /\ OtherChanges)

SpecParts == InitParts /\ [][Zygisk \/ Resetprop \/ Rests]_allVars /\ PartFairness
=============================================================================
