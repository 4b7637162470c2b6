------------------------------ MODULE MCTables ------------------------------
(***************************************************************************)
(* The tables of the database for TLC: the decisions taken from the        *)
(* policies (for the shell, an app of two users and the manager), their    *)
(* pruning, the look-up of the manager and the deny list.  A decision      *)
(* reads the tables at one moment and each of the others looks at a table  *)
(* of its own, so each is explored while the others rest: `part' says      *)
(* which one moves.                                                        *)
(***************************************************************************)
EXTENDS SuPolicy, PruneAccess, ManagerLookup, MCDenyList

VARIABLE part

AskingUids == {AID_SHELL, 10001, 110001, 10002}

Row(p, t) == [policy |-> p, talk |-> t, live |-> TRUE]
AppRows == {Row("Deny", TRUE), Row("Allow", FALSE), Row("Restrict", TRUE)}

AllConfigs == [root_access : RootAccess, multiuser_mode : MultiuserMode]
RestingConfig == [root_access |-> "AppsAndAdb", multiuser_mode |-> "OwnerOnly"]

-----------------------------------------------------------------------------
Parts == {"policy", "prune", "manager", "deny"}
allVars == <<part, policyVars, pruneVars, vars, denyVars>>

InitParts ==
    /\ part \in Parts
    /\ part = "policy" \/ cfg = RestingConfig
    /\ InitPolicy /\ InitPrune /\ Init /\ InitDeny
    /\ part = "deny" \/ (denyRows = {} /\ config = FALSE /\ \A p \in Packages : appid[p] = 0)

Decisions == part = "policy" /\ NextPolicy /\ UNCHANGED <<part, pruneVars, vars, denyVars>>
Pruning == part = "prune" /\ NextPrune /\ UNCHANGED <<part, policyVars, vars, denyVars>>
LookUps == part = "manager" /\ Next /\ UNCHANGED <<part, policyVars, pruneVars, denyVars>>
Denying == part = "deny" /\ NextDeny /\ UNCHANGED <<part, policyVars, pruneVars, vars>>

(* The requests on the deny list are bounded. *)
Rests == part = "deny" /\ UNCHANGED allVars

SpecParts == InitParts /\ [][Decisions \/ Pruning \/ LookUps \/ Denying \/ Rests]_allVars
=============================================================================
