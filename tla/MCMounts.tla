------------------------------ MODULE MCMounts ------------------------------
(***************************************************************************)
(* Mounts for TLC: three of the four partitions with either file system in *)
(* every order, and module mounts over and under those of the device.      *)
(***************************************************************************)
EXTENDS Mounts

Partition(p, f) ==
    [part |-> p, fs |-> f, rw |-> TRUE, root |-> "/", source |-> "block", dev |-> PartRank[p] + 1]

PartitionSets ==
    {S \in {{Partition(p, f[p]) : p \in P} : P \in SUBSET DOMAIN PartRank, f \in [DOMAIN PartRank -> {"ext4", "f2fs"}]} :
        Cardinality(S) = 3}
ReadOnlyCache == {[Partition("cache", "ext4") EXCEPT !.rw = FALSE], Partition("data", "f2fs")}
RestingTable == <<Partition("data", "ext4")>>
MCTables == {RestingTable} \cup UNION {SetToSeqs(S) : S \in PartitionSets \cup {ReadOnlyCache}}
MCCrypto == {[state |-> "encrypted", type |-> "file", metadata |-> m] : m \in BOOLEAN}
RestingCrypto == CHOOSE c \in MCCrypto : TRUE

MCTargets == {<<"a">>, <<"a", "x">>, <<"a", "x", "y">>, <<"ab">>, <<"ab", "z">>}
MCRomMounts == SUBSET {<<"a">>, <<"a", "x">>, <<"ab", "z">>}
MCPathOrder == << <<"a">>, <<"a", "x">>, <<"a", "x", "y">>, <<"ab">>, <<"ab", "z">>,
                  <<"tmp">>, <<"tmp", "modules">>, <<"tmp", "worker">> >>
=============================================================================
