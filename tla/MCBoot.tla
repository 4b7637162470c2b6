------------------------------- MODULE MCBoot -------------------------------
(***************************************************************************)
(* The way to a running system for TLC: the stages of magiskinit, its      *)
(* helper that patches the policy init loads, the boot stages of the       *)
(* daemon and the scripts they run.  Each is explored while the others     *)
(* rest in their initial state: `part' says which one moves.               *)
(***************************************************************************)
EXTENDS InitStages, SepolicyHandoff, BootStages, BootScripts

VARIABLE part

(* Every device that DeviceAssumption allows.                              *)
MCDevices ==
    {d \in [skip_initramfs : BOOLEAN, force_normal_boot : BOOLEAN, recovery : BOOLEAN,
            two_stage : BOOLEAN, backup : BOOLEAN, sdcard : BOOLEAN, names_init : BOOLEAN,
            mounted : BOOLEAN] :
        /\ (d.force_normal_boot \/ ~d.backup) => d.two_stage
        /\ (d.sdcard \/ d.names_init) => d.two_stage}
RestingDevice == CHOOSE d \in MCDevices : TRUE

(* The calls of post_fs_data, handle_modules and late_start. *)
ScriptCall(who, pfs, scripts) == [who |-> who, pfs |-> pfs, scripts |-> scripts]
MCScriptCalls == <<ScriptCall("common", TRUE, <<"c1", "c2">>), ScriptCall("modules", TRUE, <<"m1", "m2">>),
                   ScriptCall("common", FALSE, <<"s1">>), ScriptCall("modules", FALSE, <<"v1">>)>>

-----------------------------------------------------------------------------
Parts == {"magiskinit", "sepolicy", "stages", "scripts"}
allVars == <<part, initVars, handoffVars, bootVars, scriptVars>>

InitParts ==
    /\ part \in Parts
    /\ InitStart /\ InitHandoff /\ InitBoot /\ InitScripts
    /\ part # "magiskinit" => inDev = RestingDevice
    /\ part # "sepolicy" => shStrat = "Legacy"
    /\ part # "stages" => zygiskCfg

Magiskinit == part = "magiskinit" /\ NextStart /\ UNCHANGED <<part, handoffVars, bootVars, scriptVars>>
Sepolicy == part = "sepolicy" /\ NextHandoff /\ UNCHANGED <<part, initVars, bootVars, scriptVars>>
Stages == part = "stages" /\ NextBoot /\ UNCHANGED <<part, initVars, handoffVars, scriptVars>>
Scripts == part = "scripts" /\ NextScripts /\ UNCHANGED <<part, initVars, handoffVars, bootVars>>

(* All but the boot stages are done at some point.                         *)
Rests == part # "stages" /\ UNCHANGED allVars

(* The fairness of each module, for the component that moves.              *)
PartFairness ==
    /\ WF_handoffVars(part = "sepolicy" /\ ((\E ok \in BOOLEAN : SetupHijack(ok)) \/ MountOverlay \/ ExecInit))
    /\ WF_handoffVars(InitStep) /\ WF_handoffVars(HelperStep)
    /\ WF_bootVars(StageStep) /\ SF_bootVars(DataMounted) /\ SF_bootVars(BootComplete)
    /\ WF_bootVars(InstallDone) /\ WF_bootVars(Bootloop)
    /\ \A c \in Codes : WF_bootVars(part = "stages" /\ Send(c))
    /\ WF_scriptVars(part = "scripts" /\ RunnerStep) /\ WF_scriptVars(TimeIsUp) /\ WF_scriptVars(TimerExits)

SpecParts == InitParts /\ [][Magiskinit \/ Sepolicy \/ Stages \/ Scripts \/ Rests]_allVars /\ PartFairness
=============================================================================
