------------------------------ MODULE SePolicy ------------------------------
(***************************************************************************)
(* magiskpolicy: a SELinux policy is loaded, patched with Magisk's own     *)
(* rules (sepolicy/rules.rs) and with policy statements (statement.rs, one *)
(* a line), and written to the kernel or to a file (cli.rs).  The policy   *)
(* database is libsepol's; what the statements do to it is sepolicy.cpp.   *)
(*                                                                         *)
(* A statement is the sequence of its tokens.  A rule is a tuple <<effect, *)
(* source, target, class, permission>> whose source and target are types   *)
(* or attributes, and an empty set of names is the match-all operator.     *)
(***************************************************************************)
EXTENDS Naturals, Sequences, FiniteSets, SequencesExt, FiniteSetsExt, Functions

CONSTANTS
    Permissions,    \* [class -> its permissions]
    Policies,       \* the policies a device may boot with
    OptionSets,     \* the command lines magiskpolicy is given
    Probes          \* the ioctl commands the properties ask about

VARIABLES
    spStep,         \* what main() does next
    spPol,          \* the policy in memory
    spTodo,         \* statements of the current source still to be parsed
    spOpt,          \* the command line
    spKernel,       \* the policy /sys/fs/selinux/load was given, or the device's
    spAsked         \* history: a statement asked for a policy others may load

sepolVars == <<spStep, spPol, spTodo, spOpt, spKernel, spAsked>>

PROC == "magisk"            \* SEPOL_PROC_DOMAIN
FILE == "magisk_file"       \* SEPOL_FILE_TYPE
LOG == "magisk_log_file"    \* SEPOL_LOG_TYPE

(* What a device boots with is a policy that libsepol could read: its      *)
(* rules are of its own types and attributes, classes and permissions, and *)
(* a type has attributes of the policy.  No stock policy names Magisk's    *)
(* domain.  The target of a rule on loading policies is kernel itself, the *)
(* type of the kernel's security object.                                   *)
ASSUME StockPolicies ==
    \A pol \in Policies :
      /\ pol = [f \in {"types", "attrs", "av", "xp", "permissive", "te", "genfs"} |-> pol[f]]
      /\ \A r \in pol.av :
           /\ r[2] \in DOMAIN pol.types \cup pol.attrs /\ r[3] \in DOMAIN pol.types \cup pol.attrs
           /\ r[4] \in DOMAIN Permissions /\ r[5] \in Permissions[r[4]]
           /\ r[4] = "security" /\ r[5] = "load_policy" => r[3] = "kernel"
      /\ \A t \in DOMAIN pol.types : pol.types[t] \subseteq pol.attrs
      /\ PROC \notin DOMAIN pol.types \cup pol.attrs

\* A command line says of each option what was given.
ASSUME CommandLines ==
    \A opt \in OptionSets :
      opt = [o \in {"load", "print", "magisk", "files", "stmts", "live", "save"} |-> opt[o]]

-----------------------------------------------------------------------------
(* Tokens.                                                                 *)
Tok(kind) == [kind |-> kind, name |-> "", digits |-> <<>>]
ID(name) == [kind |-> "ID", name |-> name, digits |-> <<>>]
HX(digits) == [kind |-> "HX", name |-> "", digits |-> digits]

U16 == 65536
Number(base, digits) ==
    LET upTo[i \in 0..Len(digits)] == IF i = 0 THEN 0 ELSE base * upTo[i - 1] + digits[i]
    IN upTo[Len(digits)]

(* The digits behind 0x go through str::parse::<u16>, which reads decimal  *)
(* digits only; what it does not accept is 0.                              *)
HxValue(digits) ==
    LET n == Number(10, digits)
    IN IF (\A i \in DOMAIN digits : digits[i] < 10) /\ n < U16 THEN n ELSE 0

-----------------------------------------------------------------------------
(* The parser: each operator takes the tokens that are left and says       *)
(* whether it matched, with what value, and what is left then.             *)
Parsed(v, rest) == [ok |-> TRUE, v |-> v, rest |-> rest]
Unparsed == [ok |-> FALSE, v |-> {}, rest |-> <<>>]
KindAt(ts, i) == IF i \in 1..Len(ts) THEN ts[i].kind ELSE "none"

(* A list in braces of tokens of the given kinds; it may be empty.         *)
BraceEnd(ts, kinds) ==
    Min({i \in 2..(Len(ts) + 1) : KindAt(ts, i) \notin kinds})
InBraces(ts, kinds) ==
    LET e == BraceEnd(ts, kinds)
        inside == SubSeq(ts, 2, e - 1)
    IN IF KindAt(ts, e) # "RB" THEN Unparsed
       ELSE Parsed(IF Tok("ST") \in Range(inside) THEN {}
                   ELSE {inside[i].name : i \in 1..Len(inside)},
                   SubSeq(ts, e + 1, Len(ts)))

ParseId(ts) == IF KindAt(ts, 1) = "ID" THEN Parsed({Head(ts).name}, Tail(ts)) ELSE Unparsed

ParseTerm(ts) ==
    IF KindAt(ts, 1) = "LB" THEN InBraces(ts, {"ID"}) ELSE ParseId(ts)

ParseSterm(ts) ==
    CASE KindAt(ts, 1) = "ST" -> Parsed({}, Tail(ts))
      [] KindAt(ts, 1) = "LB" -> InBraces(ts, {"ID", "ST"})
      [] OTHER -> ParseId(ts)

Xperm(low, high, reset) == [low |-> low, high |-> high, reset |-> reset]
AllXperms(reset) == Xperm(0, U16 - 1, reset)

(* Values and ranges in braces: a range has a value on either side, and    *)
(* neither is that of another range.                                       *)
XpermList(ts, reset) ==
    LET e == BraceEnd(ts, {"HX", "HP"})
        stray(i) == /\ KindAt(ts, i) = "HP"
                    /\ KindAt(ts, i - 1) # "HX" \/ KindAt(ts, i + 1) # "HX" \/ KindAt(ts, i - 2) = "HP"
        begins(i) == KindAt(ts, i) = "HX" /\ KindAt(ts, i - 1) # "HP"
        starts == SelectSeq([i \in 1..(e - 1) |-> i], begins)
        value(i) == HxValue(ts[i].digits)
        perm(i) == Xperm(value(i), value(IF KindAt(ts, i + 1) = "HP" THEN i + 2 ELSE i), reset)
    IN IF e = 2 \/ KindAt(ts, e) # "RB" \/ (\E i \in 2..(e - 1) : stray(i)) THEN Unparsed
       ELSE Parsed([n \in DOMAIN starts |-> perm(starts[n])], SubSeq(ts, e + 1, Len(ts)))

ParseXperms(ts) ==
    CASE KindAt(ts, 1) = "TL" -> IF KindAt(ts, 2) = "LB" THEN XpermList(Tail(ts), TRUE) ELSE Unparsed
      [] KindAt(ts, 1) = "LB" -> XpermList(ts, FALSE)
      [] KindAt(ts, 1) = "ST" -> Parsed(<<AllXperms(FALSE)>>, Tail(ts))
      [] KindAt(ts, 1) = "HX" ->
           LET value == HxValue(ts[1].digits)
           IN Parsed(<<IF value > 0 THEN Xperm(value, value, FALSE) ELSE AllXperms(FALSE)>>, Tail(ts))
      [] OTHER -> Unparsed

MatchIoctl(ts) ==
    IF KindAt(ts, 1) = "ID" /\ Head(ts).name = "ioctl" THEN Parsed({}, Tail(ts)) ELSE Unparsed

-----------------------------------------------------------------------------
(* What the statements do (sepolicy.cpp).                                  *)

TypeNames(pol) == DOMAIN pol.types
Known(pol, names) == names \cap (TypeNames(pol) \cup pol.attrs)

(* Mutant: removing goes through the attributes only, as adding does.      *)
MatchAllByAttribute(pol, names, strip) == IF names # {} THEN Known(pol, names) ELSE pol.attrs

(* Removing a permission goes through every type and attribute, adding one *)
(* through the attributes only.                                            *)
MatchAll(pol, names, strip) ==
    CASE names # {} -> Known(pol, names)
      [] strip -> TypeNames(pol) \cup pol.attrs
      [] OTHER -> pol.attrs

(* A permission needs its class named, and is skipped where there is none. *)
PermissionsNamed(c, classes, perms) ==
    CASE perms = {} -> Permissions[c]
      [] classes = {} -> {}
      [] OTHER -> perms \cap Permissions[c]

Named(pol, effect, s, t, c, p, strip) ==
    UNION {{effect} \X MatchAll(pol, s, strip) \X MatchAll(pol, t, strip) \X {cls}
             \X PermissionsNamed(cls, c, p) :
           cls \in IF c = {} THEN DOMAIN Permissions ELSE c \cap DOMAIN Permissions}

AddRule(pol, effect, s, t, c, p) == [pol EXCEPT !.av = @ \cup Named(pol, effect, s, t, c, p, FALSE)]
Deny(pol, s, t, c, p) == [pol EXCEPT !.av = @ \ Named(pol, "allow", s, t, c, p, TRUE)]

(* Extended permissions of a key: one node with the drivers that are       *)
(* granted whole, and one node a driver with the functions granted.        *)
Driver(x) == x \div 256
Func(x) == x % 256
NoXperms == [drivers |-> {}, funcs |-> <<>>]

AddXperm(old, p) ==
    LET same == Driver(p.low) = Driver(p.high)
        d == Driver(p.low)
        range == IF same THEN Func(p.low)..Func(p.high) ELSE d..Driver(p.high)
        funcsOf(n) == IF d \in DOMAIN n.funcs THEN n.funcs[d] ELSE {}
        withFuncs(n, fs) == [x \in DOMAIN n.funcs \cup {d} |-> IF x = d THEN fs ELSE n.funcs[x]]
    IN CASE ~p.reset /\ ~same -> [old EXCEPT !.drivers = @ \cup range]
         [] ~p.reset /\ same -> [old EXCEPT !.funcs = withFuncs(old, funcsOf(old) \cup range)]
         [] p.reset /\ ~same -> [drivers |-> (0..255) \ range, funcs |-> <<>>]
         [] OTHER -> [drivers |-> (0..255) \ {d}, funcs |-> [x \in {d} |-> (0..255) \ range]]

XpermsOf(pol, key) == IF key \in DOMAIN pol.xp THEN pol.xp[key] ELSE NoXperms

AddXpermRules(pol, effect, s, t, c, perms) ==
    LET keys == {effect} \X MatchAll(pol, s, FALSE) \X MatchAll(pol, t, FALSE)
                  \X (IF c = {} THEN DOMAIN Permissions ELSE c \cap DOMAIN Permissions)
    IN [pol EXCEPT !.xp = [k \in keys \cup DOMAIN pol.xp |->
          IF k \in keys THEN FoldLeft(AddXperm, XpermsOf(pol, k), perms) ELSE pol.xp[k]]]

AddType(pol, name) ==
    IF name \in TypeNames(pol) \cup pol.attrs THEN pol
    ELSE [pol EXCEPT !.types = [t \in TypeNames(pol) \cup {name} |->
                                  IF t = name THEN {} ELSE pol.types[t]]]
AddAttribute(pol, name) ==
    IF name \in TypeNames(pol) THEN pol ELSE [pol EXCEPT !.attrs = @ \cup {name}]
AddTypeAttribute(pol, types, attrs) ==
    [pol EXCEPT !.types = [t \in TypeNames(pol) |->
        IF t \in types THEN pol.types[t] \cup (attrs \cap pol.attrs) ELSE pol.types[t]]]
SetTypeState(pol, types, permissive) ==
    LET named == IF types = {} THEN TypeNames(pol) \cup pol.attrs ELSE Known(pol, types)
    IN [pol EXCEPT !.permissive = IF permissive THEN @ \cup named ELSE @ \ named]
AddTypeRule(pol, effect, s, t, c, d) ==
    IF Known(pol, s \cup t \cup d) = s \cup t \cup d /\ c \subseteq DOMAIN Permissions
    THEN [pol EXCEPT !.te = {r \in @ : <<r[1], r[2], r[3], r[4]>> # <<effect, s, t, c>>}
                              \cup {<<effect, s, t, c, d>>}]
    ELSE pol

-----------------------------------------------------------------------------
(* exec_statement: the arguments the action takes are parsed one after the *)
(* other, nothing may be left over, and only then is the policy changed.   *)

(* The arguments, each parsed by the operator its letter stands for.       *)
ParseArgs(ts, kinds) ==
    LET one(kind, rest) == CASE kind = "s" -> ParseSterm(rest)
                             [] kind = "t" -> ParseTerm(rest)
                             [] kind = "i" -> ParseId(rest)
                             [] kind = "x" -> ParseXperms(rest)
                             [] kind = "ioctl" -> MatchIoctl(rest)
                             [] kind = "i?" -> IF rest = <<>> THEN Parsed({}, <<>>)
                                               ELSE ParseId(rest)
                             [] kind = "t?" -> IF rest = <<>> THEN Parsed({}, <<>>)
                                               ELSE ParseTerm(rest)
        upTo[i \in 0..Len(kinds)] ==
            IF i = 0 THEN Parsed(<<>>, ts)
            ELSE LET acc == upTo[i - 1]
                     r == one(kinds[i], acc.rest)
                 IN IF acc.ok /\ r.ok THEN Parsed(Append(acc.v, r.v), r.rest) ELSE Unparsed
        all == upTo[Len(kinds)]
    IN IF all.ok /\ all.rest = <<>> THEN all ELSE Unparsed

ArgsOf(action) ==
    CASE action \in {"allow", "deny", "auditallow", "dontaudit"} -> <<"s", "s", "s", "s">>
      [] action \in {"allowxperm", "auditallowxperm", "dontauditxperm"} ->
           <<"s", "s", "s", "ioctl", "x">>
      [] action \in {"permissive", "enforce"} -> <<"s">>
      [] action = "typeattribute" -> <<"t", "t">>
      [] action = "type" -> <<"i", "t?">>
      [] action = "attribute" -> <<"i">>
      [] action \in {"type_change", "type_member"} -> <<"i", "i", "i", "i">>
      [] action = "type_transition" -> <<"i", "i", "i", "i", "i?">>
      [] action = "genfscon" -> <<"i", "i", "i">>

Actions == {"allow", "deny", "auditallow", "dontaudit", "allowxperm", "auditallowxperm",
            "dontauditxperm", "permissive", "enforce", "typeattribute", "type", "attribute",
            "type_change", "type_member", "type_transition", "genfscon"}

The(set) == CHOOSE x \in set : TRUE

Perform(pol, action, a) ==
    CASE action = "deny" -> Deny(pol, a[1], a[2], a[3], a[4])
      [] action \in {"allow", "auditallow", "dontaudit"} ->
           AddRule(pol, action, a[1], a[2], a[3], a[4])
      [] action \in {"allowxperm", "auditallowxperm", "dontauditxperm"} ->
           AddXpermRules(pol, action, a[1], a[2], a[3], a[5])
      [] action = "permissive" -> SetTypeState(pol, a[1], TRUE)
      [] action = "enforce" -> SetTypeState(pol, a[1], FALSE)
      [] action = "typeattribute" -> AddTypeAttribute(pol, a[1], a[2])
      [] action = "type" -> AddTypeAttribute(AddType(pol, The(a[1])), a[1], a[2])
      [] action = "attribute" -> AddAttribute(pol, The(a[1]))
      [] action \in {"type_change", "type_member"} ->
           AddTypeRule(pol, <<action>>, a[1], a[2], a[3], a[4])
      [] action = "type_transition" ->
           AddTypeRule(pol, <<action>> \o SetToSeq(a[5]), a[1], a[2], a[3], a[4])
      [] action = "genfscon" -> [pol EXCEPT !.genfs = {g \in @ : <<g[1], g[2]>> # <<a[1], a[2]>>}
                                                        \cup {<<a[1], a[2], a[3]>>}]

ActionOf(ts) == KindAt(ts, 1)
Arguments(ts) == ParseArgs(Tail(ts), ArgsOf(ActionOf(ts)))
WellFormed(ts) == ActionOf(ts) \in Actions /\ Arguments(ts).ok
ExecStatement(pol, ts) ==
    IF WellFormed(ts) THEN Perform(pol, ActionOf(ts), Arguments(ts).v) ELSE pol

(* rules.rs: the calls it makes, and its rules in their order.             *)
Rule(action, args) == [action |-> action, args |-> args]
allow(s, t, c, p) == Rule("allow", <<s, t, c, p>>)
deny(s, t, c, p) == Rule("deny", <<s, t, c, p>>)
dontaudit(s, t, c, p) == Rule("dontaudit", <<s, t, c, p>>)
allowxperm(s, t, c) == Rule("allowxperm", <<s, t, c, {}, <<AllXperms(FALSE)>> >>)
permissive(t) == Rule("permissive", <<t>>)
type_(t, a) == Rule("type", <<t, a>>)
typeattribute(t, a) == Rule("typeattribute", <<t, a>>)

MagiskRules == <<
    deny({}, {"kernel"}, {"security"}, {"load_policy"}),
    type_({PROC}, {"domain"}),
    typeattribute({PROC}, {"mlstrustedsubject", "netdomain", "appdomain"}),
    type_({FILE}, {"file_type"}),
    typeattribute({FILE}, {"mlstrustedobject"}),
    type_({LOG}, {"file_type"}),
    typeattribute({LOG}, {"mlstrustedobject"}),
    allow({"domain"}, {FILE},
      {"file", "dir", "fifo_file", "chr_file", "lnk_file", "sock_file"}, {}),
    allow({"zygote"}, {LOG}, {"fifo_file"}, {"open", "read"}),
    allow({"domain"}, {LOG}, {"fifo_file"}, {"write"}),
    allow({PROC}, {"fs_type", "dev_type", "file_type", "domain", "service_manager_type",
        "hwservice_manager_type", "vndservice_manager_type", "port_type", "node_type",
        "property_type"}, {}, {}),
    permissive({PROC}),
    allowxperm({PROC}, {"fs_type", "dev_type", "file_type", "domain"},
      {"blk_file", "fifo_file", "chr_file"}),
    allowxperm({PROC}, {PROC}, {"tcp_socket", "udp_socket", "rawip_socket"}),
    allow({"servicemanager", "vndservicemanager", "hwservicemanager"}, {PROC},
      {"dir"}, {"search"}),
    allow({"servicemanager", "vndservicemanager", "hwservicemanager"}, {PROC},
      {"file"}, {"open", "read", "map"}),
    allow({"servicemanager", "vndservicemanager", "hwservicemanager"}, {PROC},
      {"process"}, {"getattr"}),
    allow({"domain"}, {PROC}, {"binder"}, {"call", "transfer"}),
    allow({"domain"}, {PROC}, {"process"}, {"sigchld"}),
    allow({"domain"}, {PROC}, {"fd"}, {"use"}),
    allow({"domain"}, {PROC}, {"fifo_file"}, {"write", "read", "open", "getattr"}),
    allow({"zygote", "shell", "platform_app", "system_app", "priv_app", "untrusted_app",
        "untrusted_app_all"}, {PROC}, {"unix_stream_socket"}, {"connectto", "getopt"}),
    allow({"init", "zygote", "shell"}, {"tmpfs"}, {"file"}, {}),
    allow({"kernel"}, {"rootfs", "tmpfs"}, {"chr_file"}, {"write"}),
    allow({"kernel"}, {"tmpfs"}, {"fifo_file"}, {"open", "read", "write"}),
    allow({"rootfs"}, {"labeledfs", "tmpfs"}, {"filesystem"}, {"associate"}),
    allow({FILE}, {"pipefs", "devpts"}, {"filesystem"}, {"associate"}),
    allow({"kernel"}, {}, {"file"}, {"relabelto"}),
    allow({"kernel"}, {"tmpfs"}, {"file"}, {"relabelfrom"}),
    allow({"kernel"}, {"kernel"}, {"process"}, {"setcurrent"}),
    allow({"kernel"}, {PROC}, {"process"}, {"dyntransition"}),
    allow({"init"}, {PROC}, {"process"}, {}),
    allow({"kernel"}, {"fs_type", "dev_type", "file_type"}, {"file"}, {"read", "write"}),
    allow({"zygote"}, {"zygote"}, {"process"}, {"execmem"}),
    allow({"zygote"}, {"fs_type"}, {"filesystem"}, {"unmount"}),
    allow({"system_server"}, {"system_server"}, {"process"}, {"execmem"}),
    dontaudit({"llkd"}, {PROC}, {"process"}, {"ptrace"}),
    deny({"init"}, {"adb_data_file"}, {"dir"}, {"search"}),
    deny({"vendor_init"}, {"adb_data_file"}, {"dir"}, {"search"}) >>

PatchWithMagiskRules(pol) ==
    LET patched[i \in 0..Len(MagiskRules)] ==
          IF i = 0 THEN pol
          ELSE Perform(patched[i - 1], MagiskRules[i].action, MagiskRules[i].args)
    IN patched[Len(MagiskRules)]

-----------------------------------------------------------------------------
(* main().                                                                 *)

(* History: whether a statement asks for someone to load policies, or for  *)
(* someone to be exempt from the policy.                                   *)
AsksForLoad(ts) ==
    LET a == Arguments(ts).v
    IN /\ WellFormed(ts)
       /\ \/ ActionOf(ts) = "permissive"
          \/ ActionOf(ts) = "allow" /\ (a[3] = {} \/ "security" \in a[3])

InitSepol ==
    /\ spOpt \in OptionSets
    /\ spPol \in Policies
    /\ spKernel = spPol
    /\ spStep = "load"
    /\ spTodo = <<>>
    /\ spAsked = FALSE

Step(from, to) == spStep = from /\ spStep' = to

Load ==
    /\ IF Cardinality(spOpt.load) > 1 THEN Step("load", "error")
       ELSE \/ Step("load", "error")
            \/ Step("load", IF spOpt.print THEN "print" ELSE "magisk")
    /\ UNCHANGED <<spPol, spTodo, spOpt, spKernel, spAsked>>

PrintRules ==
    /\ Step("print", IF spOpt.magisk \/ spOpt.files # <<>> \/ spOpt.stmts # <<>>
                        \/ spOpt.live \/ spOpt.save
                     THEN "error" ELSE "printed")
    /\ UNCHANGED <<spPol, spTodo, spOpt, spKernel, spAsked>>

MagiskRulesStep ==
    /\ Step("magisk", "apply")
    /\ spPol' = IF spOpt.magisk THEN PatchWithMagiskRules(spPol) ELSE spPol
    /\ UNCHANGED <<spTodo, spOpt, spKernel, spAsked>>

(* --apply: a file that cannot be opened is passed over.                   *)
NextFile ==
    /\ spStep = "apply" /\ spTodo = <<>> /\ spOpt.files # <<>>
    /\ spOpt' = [spOpt EXCEPT !.files = Tail(@)]
    /\ spTodo' \in {Head(spOpt.files), <<>>}
    /\ UNCHANGED <<spStep, spPol, spKernel, spAsked>>

FilesDone ==
    /\ Step("apply", "statements") /\ spTodo = <<>> /\ spOpt.files = <<>>
    /\ spTodo' = spOpt.stmts
    /\ UNCHANGED <<spPol, spOpt, spKernel, spAsked>>

ParseStatement ==
    /\ spStep \in {"apply", "statements"} /\ spTodo # <<>>
    /\ spPol' = ExecStatement(spPol, Head(spTodo))
    /\ spTodo' = Tail(spTodo)
    /\ spAsked' = (spAsked \/ AsksForLoad(Head(spTodo)))
    /\ UNCHANGED <<spStep, spOpt, spKernel>>

LoadIntoKernel ==
    /\ spTodo = <<>>
    /\ \/ /\ Step("statements", "save")
          /\ spKernel' = IF spOpt.live THEN spPol ELSE spKernel
       \/ Step("statements", "error") /\ spOpt.live /\ UNCHANGED spKernel
    /\ UNCHANGED <<spPol, spTodo, spOpt, spAsked>>

SaveFile ==
    /\ Step("save", "done") \/ (spOpt.save /\ Step("save", "error"))
    /\ UNCHANGED <<spPol, spTodo, spOpt, spKernel, spAsked>>

NextSepol ==
    \/ Load \/ PrintRules \/ MagiskRulesStep \/ NextFile \/ FilesDone \/ ParseStatement
    \/ LoadIntoKernel \/ SaveFile

SpecSepol == InitSepol /\ [][NextSepol]_sepolVars

-----------------------------------------------------------------------------
(* Properties.                                                             *)

Having(pol, type) == {type} \cup pol.types[type]
Allowed(pol, s, t, c, p) ==
    \E a \in Having(pol, s), b \in Having(pol, t) : <<"allow", a, b, c, p>> \in pol.av

(* Once Magisk's rules are in, no other domain can load a policy, whatever *)
(* statements follow, unless one of them asks for it (rules.rs: "Prevent   *)
(* anything to change sepolicy except ourselves").                         *)
OnlyMagiskLoadsPolicy ==
    spOpt.magisk /\ spStep \in {"apply", "statements", "save", "done"} /\ ~spAsked =>
        \A s \in TypeNames(spPol) \ {PROC} :
            ~Allowed(spPol, s, "kernel", "security", "load_policy")

XpermGranted(pol, key, x) ==
    LET n == XpermsOf(pol, key)
    IN Driver(x) \in n.drivers \/ (Driver(x) \in DOMAIN n.funcs /\ Func(x) \in n.funcs[Driver(x)])

(* The help: values are hexadecimal, ranges and lists are unions.          *)
Listed(ts, x) ==
    \E i \in 1..Len(ts) :
        /\ ts[i].kind = "HX" /\ KindAt(ts, i - 1) # "HP"
        /\ LET low == Number(16, ts[i].digits)
           IN IF KindAt(ts, i + 1) = "HP" THEN x \in low..Number(16, ts[i + 2].digits)
              ELSE x = low

(* An allowxperm statement without a `~` grants the ioctls whose values it *)
(* lists and keeps those granted before: "xperm_set is one or multiple     *)
(* hexadecimal numeric values" (format_statement_help of statement.rs).    *)
XpermsAsDocumented ==
    [][spTodo # <<>> /\ spTodo' = Tail(spTodo) /\ WellFormed(Head(spTodo))
         /\ Head(Head(spTodo)).kind = "allowxperm" /\ Head(spTodo)[6].kind # "TL" =>
       LET ts == Head(spTodo)
           key == <<"allowxperm", ts[2].name, ts[3].name, ts[4].name>>
       IN \A x \in Probes :
            XpermGranted(spPol', key, x) =
                (Listed(SubSeq(ts, 6, Len(ts)), x) \/ XpermGranted(spPol, key, x))
      ]_sepolVars
=============================================================================
