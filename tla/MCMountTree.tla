---------------------------- MODULE MCMountTree ----------------------------
(* MountTree for TLC: a bin and a lib64 directory, a link out of the        *)
(* partition, /vendor as a partition or as a directory of /system, and     *)
(* modules that bring up to two entries.                                   *)
EXTENDS MountTree, TLC

F(kind) == [kind |-> kind, to |-> <<>>]
DirsFor(S) == UNION {StrictPrefixes(p) : p \in S}

\* A device tree with the given leaves; directories are implied.
Device(leaves, separate, sbin, zygisk) ==
    [files |-> [p \in DOMAIN leaves \cup (DirsFor(DOMAIN leaves) \ {<<>>}) |->
                   IF p \in DOMAIN leaves THEN leaves[p] ELSE F("dir")],
     separate |-> separate, sbin |-> sbin, zygisk |-> zygisk]

Base == (<<"system", "bin", "f">> :> F("file")) @@ (<<"system", "bin", "d", "g">> :> F("file"))
        @@ (<<"system", "bin", "l">> :> [kind |-> "link", to |-> <<"apex">>])
        @@ (<<"system", "lib64", "f">> :> F("file")) @@ (<<"apex", "g">> :> F("file"))

MCDevices ==
    {Device(Base @@ (<<"vendor", "bin", "su">> :> F("file")), {"vendor"}, FALSE, TRUE),
     Device(Base @@ (<<"system", "vendor", "bin", "f">> :> F("file")), {}, FALSE, FALSE),
     Device(Base @@ (<<"vendor", "bin", "f">> :> F("file")), {"vendor"}, TRUE, FALSE)}

Leaves ==
    {<<<<"bin", "f">>, k>> : k \in {"file", "whiteout", "dir"}}
    \cup {<<<<"bin", "n">>, k>> : k \in {"file", "link"}}
    \cup {<<<<"bin", "d">>, k>> : k \in {"file", "dir"}}
    \cup {<<<<"bin", "d", "n">>, "file">>, <<<<"bin", "d", "g">>, "file">>,
          <<<<"bin", "d", Replace>>, "file">>, <<<<"bin", Replace>>, "file">>,
          <<<<"bin", "l", "n">>, "file">>, <<<<"n">>, "file">>, <<<<"bin">>, "link">>,
          <<<<"vendor", "bin", "f">>, "file">>, <<<<"vendor", "bin", "su">>, "file">>,
          <<<<"vendor", "bin", "d", "n">>, "file">>, <<<<"vendor", "bin", Replace>>, "file">>,
          <<<<"vendor", "n">>, "file">>, <<<<"vendor", Replace>>, "file">>}

Tree(S) ==
    [p \in {x[1] : x \in S} \cup DirsFor({x[1] : x \in S}) \cup {<<>>} |->
        IF \E x \in S : x[1] = p THEN (CHOOSE x \in S : x[1] = p)[2] ELSE "dir"]

\* Leaves that can be in one tree; a second module matters where the first one is.
Fit(S) == \A x, y \in S : x # y => ~IsPrefix(x[1], y[1])
Pairs == {S \in {{x, y} : x, y \in Leaves} : Fit(S)}

Others == {x \in Leaves : x[1] \in {<<"bin", "f">>, <<"bin", "d">>, <<"bin", "d", "n">>, <<"bin", Replace>>}}

Module(n, S, skip) == [name |-> n, skip |-> skip, tree |-> Tree(S)]
InBin(S) == \A x \in S : x[1][1] = "bin"
MCModuleLists ==
    {<<Module("m1", S, FALSE), Module("m2", {x}, FALSE)>> : S \in {T \in Pairs : InBin(T)}, x \in Others}
    \cup {<<Module("m1", S, FALSE)>> : S \in {T \in Pairs : ~InBin(T)}}
    \cup {<<Module("m1", S, TRUE)>> : S \in {{x} : x \in Leaves}}

RestingDevice == CHOOSE d \in MCDevices : TRUE
RestingModules == <<Module("m1", {<<<<"n">>, "file">>}, TRUE)>>

PathItem(d, o, c) == [dir |-> d, ok |-> d[1] # "apex", open |-> o, count |-> c]
RestingPathEnv == <<PathItem(<<"apex">>, TRUE, 0), PathItem(<<"bin">>, TRUE, 2), PathItem(<<"vendor", "bin">>, TRUE, 1)>>
MCPathEnvs == {RestingPathEnv,
               <<PathItem(<<"vendor", "bin">>, FALSE, 3), PathItem(<<"bin">>, TRUE, 2)>>}
MCNameOrder == <<Replace, "apex", "bin", "d", "f", "g", "l", "lib64", "magisk", "n", "su", "vendor", "zygisk">>
=============================================================================
