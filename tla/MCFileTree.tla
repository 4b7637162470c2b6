---------------------------- MODULE MCFileTree ----------------------------
(***************************************************************************)
(* FileTree for TLC: an overlay with two directories that are in the root  *)
(* too, one of them perhaps as a link, files under equal names, a link and *)
(* a fifo, and calls on all of it, on a file and on what is not there.     *)
(***************************************************************************)
EXTENDS FileTree, TLC

FileOf(x) == FsNode("file", x, "own")
OwnDir == FsNode("dir", "none", "own")
LinkTo(p) == FsNode("link", p, "own")

Ramdisk(sbin) ==
    <<>> :> OwnDir @@ <<"overlay">> :> OwnDir @@ <<"overlay", "rc">> :> FileOf("r1")
    @@ <<"overlay", "sbin">> :> OwnDir @@ <<"overlay", "sbin", "tool">> :> FileOf("t1")
    @@ <<"overlay", "res">> :> OwnDir @@ <<"overlay", "res", "png">> :> FileOf("p1")
    @@ <<"sys">> :> OwnDir @@ <<"sys", "bin">> :> FileOf("b1")
    @@ <<"root">> :> OwnDir @@ <<"root", "sbin">> :> sbin
    @@ <<"root", "res">> :> OwnDir @@ <<"root", "res", "png">> :> FileOf("p2") @@ <<"root", "res", "gif">> :> FileOf("g2")

Extras == {<<>>,
           <<"overlay", "ln">> :> LinkTo(<<"sys">>) @@ <<"overlay", "pipe">> :> FsNode("fifo", "none", "own"),
           <<"root", "rc">> :> LinkTo(<<"sys", "bin">>)}

RestingTree == <<>> :> OwnDir @@ <<"sys">> :> OwnDir
RestingCall == [op |-> "mkdirs", src |-> <<"sys">>, dst |-> <<"sys">>]

MCTrees ==
    {x @@ Ramdisk(s) : x \in Extras, s \in {OwnDir, LinkTo(<<"sys">>)}}
    \cup {RestingTree,
          Unlinked(Ramdisk(OwnDir), {<<"root", "res", "png">>, <<"root", "res", "gif">>}),
          With(Unlinked(Ramdisk(OwnDir), Below(Ramdisk(OwnDir), <<"root", "res">>)), <<"root", "res">>, FileOf("f2"))}

MCCalls ==
    [op : {"remove", "copy", "move", "link"},
     src : {<<"overlay">>, <<"overlay", "rc">>, <<"gone">>},
     dst : {<<>>, <<"root">>, <<"new">>, <<"root", "res">>, <<"root", "rc">>}]
    \cup [op : {"mkdirs"}, src : {<<"root", "res", "png", "x">>, <<"root", "a", "b">>, <<"new">>},
          dst : {<<"new">>}]
    \cup {RestingCall}

\* mv_path("/overlay.d", "/")
OverlayMove == {[op |-> "move", src |-> <<"overlay">>, dst |-> <<"root">>]}
=============================================================================
