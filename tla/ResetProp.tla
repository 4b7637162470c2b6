----------------------------- MODULE ResetProp -----------------------------
(***************************************************************************)
(* native/src/core/resetprop: processes that read, change, delete and wait *)
(* for system properties, going through the property service or around it, *)
(* and the persistent properties on the disk, one file for all of them or  *)
(* (before Android 9) one file for each.                                   *)
(*                                                                         *)
(* The property area (find, update, add, delete, wait and the serial       *)
(* numbers) is a library: every change of a property gives it and the area *)
(* a new serial, and a waiter is woken when the serial it knows is old.    *)
(* Only that is kept of the serials: whether the one a process knows is.   *)
(***************************************************************************)
EXTENDS Naturals, Sequences, FiniteSets

CONSTANTS
    PropNames, RoProps, PersistProps,  \* names; those with "ro." and "persist."
    PropValues, LongValues,            \* values; those with PROP_VALUE_MAX bytes or more
    PropCommands,  \* processes: [mode, list, skip_svc, persist]; list: <<name, value>> to
                   \* set, <<name, NoProp>> to delete, <<name, old>> to wait for
    Stores,        \* persistent storage at the start: [proto, props]
    Unset          \* stored properties deleted earlier without touching the storage

NoProp == "none"
NoOld == "any"

PropCommand == [mode : {"set", "delete", "get", "wait"}, skip_svc : BOOLEAN, persist : BOOLEAN,
                list : Seq(PropNames \X (PropValues \cup {NoProp, NoOld}))]
PropStore == [proto : BOOLEAN, props : [PersistProps -> PropValues \cup {NoProp}]]

\* What is set gets a value and what is deleted none.
ASSUME PropAssumption ==
    /\ NoProp \notin PropValues
    /\ PropCommands \in [DOMAIN PropCommands -> PropCommand]
    /\ \A p \in DOMAIN PropCommands : \A i \in DOMAIN PropCommands[p].list :
          /\ PropCommands[p].mode = "set" => PropCommands[p].list[i][2] \in PropValues
          /\ PropCommands[p].mode = "delete" => PropCommands[p].list[i][2] = NoProp
    /\ Stores \subseteq PropStore

VARIABLES
    rpProps,    \* the properties: value, NoProp where there is none
    rpNew,      \* what has a new serial since a waiter looked: "area", "prop"
    rpStore,    \* persistent storage
    rpPc,       \* where a process is
    rpTodo,     \* what it still has to do
    rpSeen,     \* the storage it has read
    rpGot       \* what a reading process has got, "unread" before

propVars == <<rpProps, rpNew, rpStore, rpPc, rpTodo, rpSeen, rpGot>>

Procs == DOMAIN PropCommands
Waiters == {p \in Procs : PropCommands[p].mode = "wait"}
Name(p) == Head(rpTodo[p])[1]
Value(p) == Head(rpTodo[p])[2]

\* A change through the area: value, serials.
ChangeProp(k, v) ==
    /\ rpProps' = [rpProps EXCEPT ![k] = v]
    /\ rpNew' = [p \in Waiters |-> rpNew[p] \cup {"area"}
                                  \cup IF PropCommands[p].list[1][1] = k THEN {"prop"} ELSE {}]

NoChange == UNCHANGED <<rpProps, rpNew>>

\* The property service refuses another value for a read-only property that has one, and
\* values too long for the others; it stores what is persistent.
SvcAccepts(k, v) == IF k \in RoProps THEN rpProps[k] = NoProp ELSE v \notin LongValues
SvcStored(k, v) == IF k \in PersistProps THEN [rpStore EXCEPT !.props[k] = v] ELSE rpStore

Goto(p, s) == rpPc' = [rpPc EXCEPT ![p] = s]
Advance(p) == rpTodo' = [rpTodo EXCEPT ![p] = Tail(@)] /\ Goto(p, "run")

-----------------------------------------------------------------------------
(* set and delete *)

SkipSvc(p) == PropCommands[p].skip_svc \/ Name(p) \in RoProps
Persists(p) == SkipSvc(p) /\ PropCommands[p].persist /\ Name(p) \in PersistProps

Writing(p) == rpPc[p] = "run" /\ rpTodo[p] # <<>> /\ PropCommands[p].mode = "set"

\* A read-only property that is or becomes long is deleted and added again.
IsReadded(p) ==
    /\ Name(p) \in RoProps /\ rpProps[Name(p)] # NoProp
    /\ rpProps[Name(p)] \in LongValues \/ Value(p) \in LongValues

SetDelete(p) ==
    /\ Writing(p) /\ IsReadded(p)
    /\ ChangeProp(Name(p), NoProp)
    /\ Goto(p, "add")
    /\ UNCHANGED <<rpStore, rpTodo, rpSeen, rpGot>>

\* update, add or set; a value the service refuses is not noticed.
SetValue(p) ==
    /\ (Writing(p) /\ ~IsReadded(p)) \/ rpPc[p] = "add"
    /\ IF SkipSvc(p) \/ SvcAccepts(Name(p), Value(p))
       THEN ChangeProp(Name(p), Value(p)) ELSE NoChange
    /\ rpStore' = IF ~SkipSvc(p) /\ SvcAccepts(Name(p), Value(p))
                  THEN SvcStored(Name(p), Value(p)) ELSE rpStore
    /\ IF Persists(p) THEN Goto(p, "persist") /\ UNCHANGED rpTodo ELSE Advance(p)
    /\ UNCHANGED <<rpSeen, rpGot>>

DeleteValue(p) ==
    /\ rpPc[p] = "run" /\ rpTodo[p] # <<>> /\ PropCommands[p].mode = "delete"
    /\ IF rpProps[Name(p)] # NoProp THEN ChangeProp(Name(p), NoProp) ELSE NoChange
    /\ IF PropCommands[p].persist /\ Name(p) \in PersistProps
       THEN Goto(p, "persist") /\ UNCHANGED rpTodo ELSE Advance(p)
    /\ UNCHANGED <<rpStore, rpSeen, rpGot>>

\* persist_set_prop, persist_delete_prop: the whole file is read...
PersistRead(p) ==
    /\ rpPc[p] = "persist"
    /\ rpSeen' = [rpSeen EXCEPT ![p] = rpStore]
    /\ IF ~rpStore.proto THEN Goto(p, "replace") /\ UNCHANGED rpTodo
       ELSE IF PropCommands[p].mode = "delete" /\ rpStore.props[Name(p)] = NoProp THEN Advance(p)
       ELSE Goto(p, "replace") /\ UNCHANGED rpTodo
    /\ NoChange /\ UNCHANGED <<rpStore, rpGot>>

Target(p) == IF PropCommands[p].mode = "delete" THEN NoProp ELSE Value(p)

\* Mutant: the file is written in place, truncated first.
PersistReplaceInPlace(p) ==
    /\ rpPc[p] \in {"replace", "fill"}
    /\ IF rpPc[p] = "replace"
       THEN /\ rpStore' = [rpStore EXCEPT !.props = [k \in PersistProps |-> NoProp]]
            /\ Goto(p, "fill") /\ UNCHANGED rpTodo
       ELSE /\ rpStore' = [rpSeen[p] EXCEPT !.props[Name(p)] = Target(p)]
            /\ Advance(p)
    /\ NoChange /\ UNCHANGED <<rpSeen, rpGot>>

\* A property's own file, before there was one for all.
StoreFile(k, v) == [rpStore EXCEPT !.props[k] = v]

\* ...and replaced by a new one with the change made, put in its place by a rename; with a
\* file for each property only that one is touched.
PersistReplace(p) ==
    /\ rpPc[p] = "replace"
    /\ rpStore' = IF rpStore.proto THEN [rpSeen[p] EXCEPT !.props[Name(p)] = Target(p)]
                  ELSE StoreFile(Name(p), Target(p))
    /\ Advance(p)
    /\ NoChange /\ UNCHANGED <<rpSeen, rpGot>>

\* One of the steps of the write fails, or the process is killed.
PersistFails(p) ==
    /\ rpPc[p] \in {"persist", "replace", "fill"}
    /\ Advance(p)
    /\ NoChange /\ UNCHANGED <<rpStore, rpSeen, rpGot>>

-----------------------------------------------------------------------------
(* get *)

\* With -p what the area does not have is looked for in the storage...
GetProp(p) ==
    /\ rpPc[p] = "run" /\ rpTodo[p] # <<>> /\ PropCommands[p].mode = "get"
    /\ IF rpProps[Name(p)] = NoProp /\ PropCommands[p].persist /\ Name(p) \in PersistProps
       THEN Goto(p, "get") /\ UNCHANGED <<rpTodo, rpGot>>
       ELSE Advance(p) /\ rpGot' = [rpGot EXCEPT ![p] = rpProps[Name(p)]]
    /\ NoChange /\ UNCHANGED <<rpStore, rpSeen>>

\* ...in the file of all properties or in its own.
GetPersist(p) ==
    /\ rpPc[p] = "get"
    /\ rpGot' = [rpGot EXCEPT ![p] = rpStore.props[Name(p)]]
    /\ Advance(p)
    /\ NoChange /\ UNCHANGED <<rpStore, rpSeen>>

-----------------------------------------------------------------------------
(* wait *)

Waiting(p) == PropCommands[p].mode = "wait" /\ rpTodo[p] # <<>>

Look(p, what) == rpNew' = [rpNew EXCEPT ![p] = @ \ {what}] /\ UNCHANGED rpProps

WaitStart(p) ==
    /\ Waiting(p) /\ rpPc[p] = "run"
    /\ Goto(p, "find")
    /\ NoChange
    /\ UNCHANGED <<rpStore, rpTodo, rpSeen, rpGot>>

\* Found: done, if there is no old value to compare with.
WaitFind(p) ==
    /\ Waiting(p) /\ rpPc[p] = "find"
    /\ IF rpProps[Name(p)] = NoProp THEN Goto(p, "serial") /\ UNCHANGED rpTodo
       ELSE IF Value(p) = NoOld THEN Advance(p)
       ELSE Goto(p, "read") /\ UNCHANGED rpTodo
    /\ NoChange /\ UNCHANGED <<rpStore, rpSeen, rpGot>>

WaitSerial(p) ==
    /\ rpPc[p] = "serial"
    /\ Look(p, "area")
    /\ Goto(p, "area")
    /\ UNCHANGED <<rpStore, rpTodo, rpSeen, rpGot>>

WaitArea(p) ==
    /\ rpPc[p] = "area" /\ "area" \in rpNew[p]
    /\ Goto(p, "find")
    /\ NoChange /\ UNCHANGED <<rpStore, rpTodo, rpSeen, rpGot>>

\* Mutant: the serial is asked for after the value was compared.
WaitReadLate(p) ==
    /\ rpPc[p] \in {"read", "late"}
    /\ IF rpPc[p] = "late" THEN Look(p, "prop") /\ Goto(p, "prop") /\ UNCHANGED rpTodo
       ELSE IF rpProps[Name(p)] # Value(p) THEN Advance(p) /\ NoChange
       ELSE Goto(p, "late") /\ UNCHANGED rpTodo /\ NoChange
    /\ UNCHANGED <<rpStore, rpSeen, rpGot>>

\* The value and its serial are read together.
WaitRead(p) ==
    /\ rpPc[p] = "read"
    /\ Look(p, "prop")
    /\ IF rpProps[Name(p)] # Value(p) THEN Advance(p)
       ELSE Goto(p, "prop") /\ UNCHANGED rpTodo
    /\ UNCHANGED <<rpStore, rpSeen, rpGot>>

WaitProp(p) ==
    /\ rpPc[p] = "prop" /\ "prop" \in rpNew[p]
    /\ Goto(p, "read")
    /\ NoChange /\ UNCHANGED <<rpStore, rpTodo, rpSeen, rpGot>>

\* Another property of the device changes.
OtherChanges ==
    /\ \E p \in Waiters : rpPc[p] = "area" /\ "area" \notin rpNew[p]
    /\ rpNew' = [p \in Waiters |-> rpNew[p] \cup {"area"}]
    /\ UNCHANGED <<rpProps, rpStore, rpPc, rpTodo, rpSeen, rpGot>>

-----------------------------------------------------------------------------

InitProp ==
    /\ rpStore \in Stores
    /\ rpProps \in [PropNames -> {NoProp, CHOOSE v \in PropValues \ LongValues : TRUE}]
    /\ \A k \in PersistProps : rpProps[k] = IF k \in Unset THEN NoProp ELSE rpStore.props[k]
    /\ rpNew = [p \in Waiters |-> {}]
    /\ rpPc = [p \in Procs |-> "run"]
    /\ rpTodo = [p \in Procs |-> PropCommands[p].list]
    /\ rpSeen = [p \in Procs |-> rpStore]
    /\ rpGot = [p \in Procs |-> "unread"]

WaitStep(p) == WaitStart(p) \/ WaitFind(p) \/ WaitSerial(p) \/ WaitArea(p) \/ WaitRead(p) \/ WaitProp(p)

NextProp ==
    \/ \E p \in Procs : \/ SetDelete(p) \/ SetValue(p) \/ DeleteValue(p)
                        \/ PersistRead(p) \/ PersistReplace(p) \/ PersistFails(p)
                        \/ WaitStep(p) \/ GetProp(p) \/ GetPersist(p)
    \/ OtherChanges

\* Waiters run; the properties of a device never stop changing.
PropFairness == (\A p \in Procs : WF_propVars(WaitStep(p))) /\ WF_propVars(OtherChanges)

SpecProp == InitProp /\ [][NextProp]_propVars /\ PropFairness

-----------------------------------------------------------------------------
(* Properties *)

\* What the processes that change properties are asked for: <<name, value>>.
Asked(p) == {PropCommands[p].list[i] : i \in DOMAIN PropCommands[p].list}
Changes == UNION {Asked(p) : p \in {q \in Procs : PropCommands[q].mode \in {"set", "delete"}}}

Touched == {c[1] : c \in Changes}
Written(k) == {c[2] : c \in {d \in Changes : d[1] = k}}
Deleted == {c[1] : c \in UNION {Asked(p) : p \in {q \in Procs : /\ PropCommands[q].mode = "delete"
                                                                /\ PropCommands[q].persist}}}

\* Whichever processes write persistent properties at once, and whichever is killed half
\* way, the stored properties nobody writes keep their values and the others hold the old
\* value or one that was asked for; and a reader never misses a stored property that nobody
\* takes out of the storage (persist_set_prop, proto_write_props, persist_get_prop).
PersistIntact ==
    [][/\ \A k \in PersistProps : rpStore.props[k] # rpStore'.props[k] =>
            k \in Touched /\ rpStore'.props[k] \in Written(k) \cup {s.props[k] : s \in Stores}
       /\ \A p \in Procs : GetPersist(p) /\ Name(p) \notin Deleted
                            /\ (\A s \in Stores : s.props[Name(p)] # NoProp) => rpGot'[p] # NoProp]_propVars

\* A process that waits for a property to lose its old value comes back if it does for
\* good: no change is missed between looking and waiting (wait).
WaitEnds ==
    \A p \in {q \in Procs : PropCommands[q].mode = "wait" /\ PropCommands[q].list[1][2] # NoOld} :
        LET k == PropCommands[p].list[1][1]
        IN <>[](rpProps[k] \notin {NoProp, PropCommands[p].list[1][2]}) => <>(rpTodo[p] = <<>>)
=============================================================================
