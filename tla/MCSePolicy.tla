---------------------------- MODULE MCSePolicy ----------------------------
(***************************************************************************)
(* SePolicy for TLC: a small policy in which init and an attribute's types *)
(* may load a policy, and one statement of every kind, with match-alls,    *)
(* lists, names the policy does not have and nonsense among them.          *)
(***************************************************************************)
EXTENDS SePolicy, TLC

MCPermissions ==
    "security" :> {"load_policy", "setenforce"} @@ "file" :> {"read", "write"} @@ "dir" :> {"search"}
    @@ "process" :> {"execmem"} @@ "chr_file" :> {"write", "ioctl"}

DevicePolicy ==
    [types |-> "kernel" :> {"domain"} @@ "init" :> {"domain"} @@ "shell" :> {"domain"}
               @@ "tmpfs" :> {"file_type"} @@ "adb_data_file" :> {"file_type"},
     attrs |-> {"domain", "file_type", "coredomain"},
     av |-> {<<"allow", "init", "kernel", "security", "load_policy">>,
             <<"allow", "coredomain", "kernel", "security", "load_policy">>,
             <<"allow", "init", "adb_data_file", "dir", "search">>},
     xp |-> <<>>, permissive |-> {}, te |-> {}, genfs |-> {}]
MCPolicies == {DevicePolicy}

LB == Tok("LB")
RB == Tok("RB")
ST == Tok("ST")

Statements == {
    <<Tok("typeattribute"), ID("shell"), LB, ID("coredomain"), ID("domain"), RB>>,
    <<Tok("typeattribute"), LB, ID("shell"), RB, ID("nosuch"), ID("more")>>,
    <<Tok("allow"), ST, ID("kernel"), LB, ID("process"), ID("file"), RB, ST>>,
    <<Tok("allow"), LB, ID("shell"), ST, RB, ST, ST, ID("load_policy")>>,
    <<Tok("deny"), ID("domain"), LB, RB, ID("file"), ID("read")>>,
    <<Tok("auditallow"), ID("shell"), ID("tmpfs"), ID("file"), ID("read")>>,
    <<Tok("permissive"), ST>>, <<Tok("enforce"), ID("shell")>>,
    <<Tok("type"), ID("newtype")>>, <<Tok("type"), ID("other"), ID("coredomain")>>,
    <<Tok("attribute"), ID("newattr")>>,
    <<Tok("type_transition"), ID("init"), ID("tmpfs"), ID("file"), ID("adb_data_file")>>,
    <<Tok("type_transition"), ID("init"), ID("tmpfs"), ID("file"), ID("adb_data_file"), ID("name")>>,
    <<Tok("type_change"), ID("init"), ID("tmpfs"), ID("file"), ID("adb_data_file")>>,
    <<Tok("genfscon"), ID("proc"), ID("/x"), ID("ctx")>>,
    <<Tok("allowxperm"), ID("shell"), ID("tmpfs"), ID("chr_file"), ID("ioctl"),
      LB, HX(<<8>>), HX(<<3>>), Tok("HP"), HX(<<5>>), RB>>,
    <<Tok("allowxperm"), ID("shell"), ID("tmpfs"), ID("chr_file"), ID("ioctl"), Tok("TL"), LB, HX(<<8>>), RB>>,
    <<Tok("dontauditxperm"), ST, ID("tmpfs"), ID("chr_file"), ID("ioctl"), ST>>,
    <<ID("nonsense")>> }

Options(l, p, m, f, s, v, w) ==
    [load |-> l, print |-> p, magisk |-> m, files |-> f, stmts |-> s, live |-> v, save |-> w]

\* magiskpolicy with a rule file and a statement, and with every combination of the others.
MCOptions ==
    {Options({"load"}, FALSE, TRUE, <<<<a>>>>, <<b>>, TRUE, TRUE) : a, b \in Statements}
    \cup {Options(l, p, m, <<>>, <<>>, FALSE, v) : l \in {{}, {"split", "load"}}, p, m, v \in BOOLEAN}
RestingOptions == Options({}, FALSE, FALSE, <<>>, <<>>, FALSE, FALSE)

\* The first example of the help.
ExampleOptions ==
    {Options({}, FALSE, FALSE, <<>>,
             << <<Tok("allowxperm"), ID("shell"), ID("tmpfs"), ID("chr_file"), ID("ioctl"),
                  HX(<<8, 9, 1, 0>>)>> >>, FALSE, FALSE)}
=============================================================================
