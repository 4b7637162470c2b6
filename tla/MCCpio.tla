------------------------------- MODULE MCCpio -------------------------------
(***************************************************************************)
(* Cpio for TLC: a ramdisk with an fstab and a verity key, one of two      *)
(* archives in a row with a link, a fifo and an entry that is compressed   *)
(* already, and one without entries.                                       *)
(***************************************************************************)
EXTENDS Cpio

Fstab == <<"wait", ",", "verify", "=value", ",", "fileencryption">>

\* The names in the order of their bytes.
MCByteOrder == <<
    <<".backup">>, <<".backup", ".magisk">>, <<".backup", ".rmlist">>, <<".backup", "fstab">>,
    <<".backup", "fstab", ".xz">>, <<".backup", "fw">>, <<".backup", "fw", ".xz">>,
    <<".backup", "fw", ".xz", ".xz">>, <<".backup", "init">>, <<".backup", "init", ".xz">>,
    <<".backup", "sbin">>, <<".backup", "sbin", ".xz">>, <<".backup", "verity_key">>,
    <<".backup", "verity_key", ".xz">>, <<"fstab">>, <<"fstab", ".xz">>, <<"fw">>, <<"fw", ".xz">>,
    <<"fw", ".xz", ".xz">>, <<"init">>, <<"init", ".xz">>, <<"sbin">>, <<"sbin", ".xz">>, <<"verity_key">>,
    <<"verity_key", ".xz">> >>

RestingStock == <<Junk, Trailer>>
MCStocks ==
    { <<Item(<<".">>, "dir", Plain(<<>>)), Item(<<"init">>, "reg", Plain(<<"stock">>)),
        Item(<<"fstab">>, "reg", Plain(Fstab)), Item(<<"verity_key">>, "reg", Plain(<<"key">>)), Trailer>>,
      <<Item(<<"init">>, "reg", Plain(<<"old">>)), Trailer, Junk, Item(<<"init">>, "lnk", Plain(<<"stock">>)),
        Item(<<"fw", ".xz">>, "reg", [xz |-> 1, body |-> <<"fw">>, list |-> {}]),
        Item(<<"verity_key">>, "fifo", Plain(<<>>)), Trailer>>,
      RestingStock }

\* What the patch script adds.
MCFiles == {<<<<"init">>, "reg", Plain(<<"magiskinit">>)>>, <<MagiskName, "reg", Plain(<<"config">>)>>,
            <<<<"sbin">>, "dir", Plain(<<>>)>>}
MCEdited == {<<"init">>, <<"sbin">>}
=============================================================================
