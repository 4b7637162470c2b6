-------------------------------- MODULE Cpio --------------------------------
(***************************************************************************)
(* `magiskboot cpio <incpio> [commands...]` (boot/cpio.rs): the ramdisk is *)
(* loaded, edited in memory by the commands and dumped in place.  The      *)
(* installer edits it, records in .backup what the edits destroyed and     *)
(* what they added, and relies on `restore` to bring the stock ramdisk     *)
(* back when it patches again and when Magisk is removed.                  *)
(*                                                                         *)
(* A name is the sequence of its components; a suffix ".xz" is an element  *)
(* of its own.  The bytes of a file are a sequence of tokens, `xz` counts  *)
(* the times they have been compressed and `list` is what a removal list   *)
(* names.  Permissions, owners and device numbers travel with an entry and *)
(* no command looks at them.                                               *)
(***************************************************************************)
EXTENDS Naturals, Sequences, SequencesExt, Functions

CONSTANTS
    ByteOrder,      \* every name, in the order the map of entries keeps
    Stocks,         \* the ramdisks a device may come with, as archive files
    Files,          \* the files a command may add: <<name, kind, data>>
    Edited,         \* the names the other editing commands are given
    Keep,           \* {"verity", "encrypt"}: the KEEP... variables that are set
    MaxEdits,       \* bound on the edits of a behaviour
    MaxSaves        \* bound on its backups and restores

\* A name is not empty and none of those the format uses itself.  What lies in .backup goes
\* back to a name of the ramdisk.
Special == {<<>>, <<".">>, <<"..">>, <<"TRAILER!!!">>}
InBackup(n) == Len(n) > 1 /\ n[1] = ".backup"
ASSUME Names ==
    /\ ByteOrder \in Seq(Seq(STRING))
    /\ \A i, j \in DOMAIN ByteOrder : ByteOrder[i] = ByteOrder[j] => i = j
    /\ Range(ByteOrder) \cap Special = {}
    /\ {<<".backup">>, <<".backup", ".rmlist">>, <<".backup", ".magisk">>} \cup Edited \subseteq Range(ByteOrder)
    /\ \A n \in Range(ByteOrder) :
         InBackup(n) /\ n \notin {<<".backup", ".rmlist">>, <<".backup", ".magisk">>} =>
           Tail(n) \in Range(ByteOrder) /\ (n[Len(n)] = ".xz" => SubSeq(n, 2, Len(n) - 1) \in Range(ByteOrder))

IsData(d) == d = [xz |-> d.xz, body |-> d.body, list |-> d.list] /\ d.xz \in Nat

\* The files the commands are given.
ASSUME FilesNamed == \A f \in Files : f[1] \in Range(ByteOrder) /\ IsData(f[3])

\* A stock ramdisk has no file that Magisk's own records would be taken for, and there are
\* names for the backups of its files.
ASSUME StockItems ==
    \A s \in Stocks :
      /\ s \in Seq(Range(s))
      /\ \A it \in Range(s) :
           /\ it = [name |-> it.name, kind |-> it.kind, data |-> it.data] /\ IsData(it.data)
           /\ it.name = <<>> => it.kind = "junk" /\ it.data = [xz |-> 0, body |-> <<>>, list |-> {}]
           /\ it.name \notin Special =>
                /\ it.name \in Range(ByteOrder) /\ it.name[1] \notin {".rmlist", ".magisk"}
                /\ it.name[1] # ".backup" =>
                     {<<".backup">> \o it.name, <<".backup">> \o it.name \o <<".xz">>} \subseteq Range(ByteOrder)

VARIABLES
    cpFile,         \* the archive <incpio>, a sequence of items
    cpOrig,         \* the copy the installer keeps for `backup`
    cpOpen,         \* the program runs, between two commands
    cpMem,          \* the entries in memory
    cpOut,          \* what the last command printed, returned or extracted
    cpEdits,        \* edits made
    cpSaves,        \* backups and restores made
    cpStock,        \* history: the entries of the stock ramdisk
    cpIs,           \* history: what the file is, see the properties
    cpMemIs         \* history: what the entries in memory are

cpioVars == <<cpFile, cpOrig, cpOpen, cpMem, cpOut, cpEdits, cpSaves, cpStock, cpIs, cpMemIs>>

Plain(body) == [xz |-> 0, body |-> body, list |-> {}]
RmList(names) == [xz |-> 0, body |-> <<>>, list |-> names]
CpioEntry(kind, data) == [kind |-> kind, data |-> data]
CpioDir == CpioEntry("dir", Plain(<<>>))
NoEntries == <<>>
BackupDir == <<".backup">>
RmListName == <<".backup", ".rmlist">>
MagiskName == <<".backup", ".magisk">>

Item(name, kind, data) == [name |-> name, kind |-> kind, data |-> data]
Trailer == Item(<<"TRAILER!!!">>, "none", Plain(<<>>))
Junk == Item(<<>>, "junk", Plain(<<>>))     \* padding or a foreign magic

-----------------------------------------------------------------------------
(* The archive format.                                                     *)

(* One header: what is not a header ends the load, unless it follows a     *)
(* trailer, where the next header is searched for.  The data of "." is not *)
(* skipped, so the next header is looked for inside it.                    *)
InsertEntry(e, path, entry) ==
    [n \in DOMAIN e \cup {path} |-> IF n = path THEN entry ELSE e[n]]

LoadItem(acc, it) ==
    IF ~acc.ok \/ (acc.search /\ it = Junk) THEN acc
    ELSE CASE it = Junk -> [acc EXCEPT !.ok = FALSE]
           [] it.name \in {<<".">>, <<"..">>} ->
                [acc EXCEPT !.search = FALSE, !.ok = it.data = Plain(<<>>)]
           [] it.name = Trailer.name -> [acc EXCEPT !.search = TRUE]
           [] OTHER -> [acc EXCEPT !.search = FALSE,
                          !.entries = InsertEntry(@, it.name, CpioEntry(it.kind, it.data))]

LoadedTo(items) ==
    LET acc[k \in 0..Len(items)] ==
          IF k = 0 THEN [ok |-> TRUE, search |-> FALSE, entries |-> NoEntries]
          ELSE LoadItem(acc[k - 1], items[k])
    IN acc
LoadFromData(items) == LoadedTo(items)[Len(items)]

(* The order of the map: names in the order of their bytes.                *)
Earlier(a, b) == \E j \in DOMAIN ByteOrder : ByteOrder[j] = b /\ \E i \in 1..(j - 1) : ByteOrder[i] = a
Placed(names, s, n) == IF n \in names THEN Append(s, n) ELSE s
SortedTo(names) ==
    LET s[k \in 0..Len(ByteOrder)] == IF k = 0 THEN <<>> ELSE Placed(names, s[k - 1], ByteOrder[k])
    IN s
SortedNames(names) == SortedTo(names)[Len(ByteOrder)]

DumpItems(e) ==
    LET names == SortedNames(DOMAIN e)
    IN Append([i \in 1..Len(names) |-> Item(names[i], e[names[i]].kind, e[names[i]].data)],
              Trailer)

-----------------------------------------------------------------------------
(* The editing commands, on the entries in memory.                         *)

UnderName(dir, n) == Len(n) > Len(dir) /\ IsPrefix(dir, n)
WithoutEntries(e, names) == Restrict(e, DOMAIN e \ names)

Rm(e, path, recursive) ==
    WithoutEntries(e, {path} \cup {n \in DOMAIN e : recursive /\ UnderName(path, n)})

Mv(e, from, to) == InsertEntry(WithoutEntries(e, {from}), to, e[from])

(* ls: the entry itself and what is below it, one level unless recursive.  *)
Ls(e, path, recursive) ==
    {n \in DOMAIN e : /\ n = path \/ UnderName(path, n)
                      /\ recursive \/ Len(n) <= Len(path) + 1}

(* Extraction of everything goes in name order and ends at the first entry *)
(* it has no way to create.                                                *)
Extractable(entry) == entry.kind \in {"dir", "reg", "lnk", "blk", "chr"}
ExtractAll(e) ==
    LET names == SortedNames(DOMAIN e)
    IN {names[i] : i \in {j \in 1..Len(names) :
                            \A k \in 1..j : Extractable(e[names[k]])}}

(* remove_pattern: a flag is dropped with the comma before it and with the *)
(* value behind it; every other byte is kept.  Tokens: "," , a flag, a     *)
(* "=value" behind one, a blank.                                           *)
RemovePattern(body, flags) ==
    LET isMatch(i) == /\ i <= Len(body)
                      /\ body[i] \in flags \/ (/\ body[i] = "," /\ i < Len(body)
                                               /\ body[i + 1] \in flags)
        flagAt(i) == IF body[i] = "," THEN i + 1 ELSE i
        endOf(i) == IF flagAt(i) < Len(body) /\ body[flagAt(i) + 1] = "=value"
                    THEN flagAt(i) + 1 ELSE flagAt(i)
        Rest[i \in 1..(Len(body) + 1)] ==
            IF i > Len(body) THEN <<>>
            ELSE IF isMatch(i) THEN Rest[endOf(i) + 1]
            ELSE <<body[i]>> \o Rest[i + 1]
    IN Rest[1]

PatchVerity(body) == RemovePattern(body, {"verify", "avb"})
PatchEncryption(body) == RemovePattern(body, {"fileencryption"})

IsFstab(n, entry) == entry.kind = "reg" /\ n[1] = "fstab"

PatchEntry(n, entry) ==
    LET drop(flag, body) == IF flag \in Keep \/ ~IsFstab(n, entry) THEN body
                            ELSE IF flag = "verity" THEN PatchVerity(body)
                            ELSE PatchEncryption(body)
    IN [entry EXCEPT !.data.body = drop("encrypt", drop("verity", @))]

PatchRamdisk(e) ==
    [n \in DOMAIN e \ (IF "verity" \in Keep THEN {} ELSE {<<"verity_key">>})
        |-> PatchEntry(n, e[n])]

MAGISK_PATCHED == 1
UNSUPPORTED_CPIO == 2
TestCode(e) ==
    IF {<<"sbin", "launch_daemonsu.sh">>, <<"sbin", "su">>, <<"init.xposed.rc">>,
        <<"boot", "sbin", "launch_daemonsu.sh">>} \cap DOMAIN e # {} THEN UNSUPPORTED_CPIO
    ELSE IF {MagiskName, <<"init.magisk.rc">>, <<"overlay", "init.magisk.rc">>}
              \cap DOMAIN e # {} THEN MAGISK_PATCHED
    ELSE 0

-----------------------------------------------------------------------------
(* backup and restore.                                                     *)

CanCompress(entry) == entry.kind = "reg"
Compress(entry) == [entry EXCEPT !.data.xz = @ + 1]
CanDecompress(entry) == entry.kind = "reg" /\ entry.data.xz > 0
Decompress(entry) == [entry EXCEPT !.data.xz = @ - 1]

\* Mutant: an entry whose contents differ is not saved.
DifferencesIgnoreBytes(o, m) ==
    [backup |-> DOMAIN o \ DOMAIN m, record |-> DOMAIN m \ DOMAIN o]

(* The merge of the two sorted maps: what only the stock has or holds with *)
(* other bytes is to be backed up, what only the edited one has is to be   *)
(* recorded for removal.  i and j are the entries the iterators stand at.  *)
Compare(o, m, l, r, acc) ==
    LET n == l[acc.i]
        q == r[acc.j]
        left == acc.i <= Len(l)
        right == acc.j <= Len(r)
    IN CASE ~left /\ ~right -> acc
         [] left /\ (~right \/ Earlier(n, q)) ->
              [acc EXCEPT !.i = @ + 1, !.backup = @ \cup {n}]
         [] right /\ (~left \/ Earlier(q, n)) ->
              [acc EXCEPT !.j = @ + 1, !.record = @ \cup {q}]
         [] OTHER -> [acc EXCEPT !.i = @ + 1, !.j = @ + 1,
                                 !.backup = IF o[n].data # m[q].data THEN @ \cup {n} ELSE @]

MergedTo(o, m, l, r) ==
    LET acc[k \in 0..(Len(l) + Len(r))] ==
          IF k = 0 THEN [i |-> 1, j |-> 1, backup |-> {}, record |-> {}]
          ELSE Compare(o, m, l, r, acc[k - 1])
    IN acc
Differences(o, m) ==
    LET l == SortedNames(DOMAIN o)
        r == SortedNames(DOMAIN m)
    IN MergedTo(o, m, l, r)[Len(l) + Len(r)]

BackupName(n, entry, skipCompress) ==
    BackupDir \o n \o (IF ~skipCompress /\ CanCompress(entry) THEN <<".xz">> ELSE <<>>)
BackupOf(entry, skipCompress) ==
    IF ~skipCompress /\ CanCompress(entry) THEN Compress(entry) ELSE entry

BackupRamdisk(m0, o0, skipCompress) ==
    LET o == Rm(o0, BackupDir, TRUE)
        m == Rm(m0, BackupDir, TRUE)
        d == Differences(o, m)
        saved == {BackupName(n, o[n], skipCompress) : n \in d.backup}
        lists == IF d.record = {} THEN {} ELSE {RmListName}
    IN [b \in DOMAIN m \cup {BackupDir} \cup saved \cup lists |->
          IF b \in lists THEN CpioEntry("reg", RmList(d.record))
          ELSE IF b \in saved
          THEN LET n == CHOOSE x \in d.backup : BackupName(x, o[x], skipCompress) = b
               IN BackupOf(o[n], skipCompress)
          ELSE IF b = BackupDir THEN CpioDir
          ELSE m[b]]

RestoredName(n, entry) ==
    IF Last(n) = ".xz" /\ CanDecompress(entry) THEN SubSeq(n, 2, Len(n) - 1) ELSE Tail(n)
RestoredEntry(n, entry) ==
    IF Last(n) = ".xz" /\ CanDecompress(entry) THEN Decompress(entry) ELSE entry

RestoreRamdisk(m0) ==
    LET taken == {n \in DOMAIN m0 : UnderName(BackupDir, n)}
        kept == taken \ {RmListName, MagiskName}
        gone == IF RmListName \in taken THEN m0[RmListName].data.list ELSE {}
        backups == {RestoredName(n, m0[n]) : n \in kept}
    IN IF gone = {} /\ kept = {} THEN NoEntries
       ELSE [b \in (DOMAIN m0 \ (taken \cup {BackupDir} \cup gone)) \cup backups |->
               IF b \in backups
               THEN LET n == CHOOSE x \in kept : RestoredName(x, m0[x]) = b
                    IN RestoredEntry(n, m0[n])
               ELSE m0[b]]

-----------------------------------------------------------------------------
(* cpio_commands.                                                          *)

(* Whether `restore` can tell the backups of these stock entries apart: a  *)
(* name that ends in .xz without the backup having compressed it is taken  *)
(* for one that has been.                                                  *)
Reversible(o, skipCompress) ==
    \A n \in DOMAIN o : Last(n) = ".xz" => ~skipCompress /\ CanCompress(o[n])

InitCpio ==
    /\ cpFile \in Stocks
    /\ cpOrig = <<>>
    /\ cpOpen = FALSE
    /\ cpMem = NoEntries
    /\ cpOut = 0
    /\ cpEdits = 0
    /\ cpSaves = 0
    /\ cpStock = Rm(LoadFromData(cpFile).entries, BackupDir, TRUE)
    /\ cpIs = "stock"
    /\ cpMemIs = "stock"

OpenArchive ==
    /\ ~cpOpen
    /\ LET loaded == LoadFromData(cpFile)
       IN IF loaded.ok
          THEN cpOpen' = TRUE /\ cpMem' = loaded.entries /\ cpMemIs' = cpIs /\ cpOut' = 0
          ELSE cpOut' = "error" /\ UNCHANGED <<cpOpen, cpMem, cpMemIs>>
    /\ UNCHANGED <<cpFile, cpOrig, cpEdits, cpSaves, cpStock, cpIs>>

Apply(e, is) ==
    /\ cpOpen
    /\ cpMem' = e
    /\ cpMemIs' = is
    /\ cpOut' = 0
    /\ UNCHANGED <<cpOpen, cpFile, cpOrig, cpStock, cpIs>>

Edit(e, is) == cpEdits < MaxEdits /\ cpEdits' = cpEdits + 1 /\ Apply(e, is) /\ UNCHANGED cpSaves
Save(e, is) == cpSaves < MaxSaves /\ cpSaves' = cpSaves + 1 /\ Apply(e, is) /\ UNCHANGED cpEdits

(* A command that fails, and the ones that only look, end the program: the *)
(* edits of the commands before them are never written.                    *)
Leave(out) ==
    /\ cpOpen
    /\ cpOpen' = FALSE
    /\ cpMem' = NoEntries
    /\ cpOut' = out
    /\ cpMemIs' = cpIs
    /\ UNCHANGED <<cpFile, cpOrig, cpEdits, cpSaves, cpStock, cpIs>>

(* A command of the installer that leaves a backed-up ramdisk one.         *)
AfterEdit(path) ==
    IF cpMemIs = "patched" /\ path \in {BackupDir, MagiskName} THEN "patched" ELSE "edited"

RmCommand == \E n \in Edited, r \in BOOLEAN : Edit(Rm(cpMem, n, r), AfterEdit(<<>>))
MkdirCommand == \E n \in Edited : Edit(InsertEntry(cpMem, n, CpioDir), AfterEdit(n))
LnCommand == \E n, target \in Edited :
    /\ n # target
    /\ Edit(InsertEntry(cpMem, n, CpioEntry("lnk", Plain(target))), AfterEdit(n))
MvCommand == \E from, to \in Edited :
    IF from \in DOMAIN cpMem THEN Edit(Mv(cpMem, from, to), AfterEdit(<<>>))
    ELSE Leave("error")
AddCommand == \E f \in Files :
    IF f[2] \in {"reg", "lnk", "blk", "chr"}
    THEN Edit(InsertEntry(cpMem, f[1], CpioEntry(IF f[2] = "lnk" THEN "reg" ELSE f[2], f[3])),
              AfterEdit(f[1]))
    ELSE Leave("error")
PatchCommand == Edit(PatchRamdisk(cpMem), "edited")

BackupCommand == \E skipCompress \in BOOLEAN :
    LET o == LoadFromData(cpOrig)
        e == BackupRamdisk(cpMem, o.entries, skipCompress)
        found == \E n \in DOMAIN e : UnderName(BackupDir, n)
    IN IF cpOrig # <<>> /\ o.ok
       THEN Save(e, IF found /\ Reversible(o.entries, skipCompress) THEN "patched" ELSE "edited")
       ELSE Leave("error")

RestoreCommand ==
    Save(RestoreRamdisk(cpMem), IF cpMemIs = "patched" THEN "restored" ELSE "edited")

ExtractCommand ==
    LET all == ExtractAll(cpMem)
    IN \/ \E n \in Edited : (n \in DOMAIN cpMem => ~Extractable(cpMem[n])) /\ Leave("error")
       \/ /\ cpOpen
          /\ \/ \E n \in Edited : n \in DOMAIN cpMem /\ Extractable(cpMem[n]) /\ cpOut' = {n}
             \/ all = DOMAIN cpMem /\ cpOut' = all
          /\ UNCHANGED <<cpOpen, cpMem, cpFile, cpOrig, cpEdits, cpSaves, cpStock, cpIs, cpMemIs>>
       \/ all # DOMAIN cpMem /\ Leave(all)

TestCommand == Leave(TestCode(cpMem))
ExistsCommand == \E n \in Edited : Leave(IF n \in DOMAIN cpMem THEN 0 ELSE 1)
LsCommand == \E n \in Edited \cup {<<>>}, r \in BOOLEAN : Leave(Ls(cpMem, n, r))

Dump ==
    /\ cpOpen
    /\ cpFile' = DumpItems(cpMem)
    /\ cpIs' = cpMemIs
    /\ cpOpen' = FALSE
    /\ cpMem' = NoEntries
    /\ cpOut' = 0
    /\ UNCHANGED <<cpOrig, cpEdits, cpSaves, cpStock, cpMemIs>>

(* boot_patch.sh keeps a copy of a ramdisk that is stock or restored.      *)
KeepOrig ==
    /\ ~cpOpen /\ cpIs \in {"stock", "restored"}
    /\ cpOrig # cpFile /\ cpOrig' = cpFile
    /\ UNCHANGED <<cpFile, cpOpen, cpMem, cpOut, cpEdits, cpSaves, cpStock, cpIs, cpMemIs>>

NextCpio ==
    \/ OpenArchive \/ RmCommand \/ MkdirCommand \/ LnCommand \/ MvCommand \/ AddCommand
    \/ PatchCommand \/ BackupCommand \/ RestoreCommand \/ ExtractCommand
    \/ TestCommand \/ ExistsCommand \/ LsCommand \/ Dump \/ KeepOrig

SpecCpio == InitCpio /\ [][NextCpio]_cpioVars

-----------------------------------------------------------------------------
(* Properties.  An archive is "patched" when `backup` was the last command *)
(* that changed it, apart from the installer's own additions to .backup,   *)
(* and found a difference, and "restored" when `restore` was run on that.  *)

BytesOf(e) == [n \in DOMAIN e |-> e[n].data]

(* `restore` undoes whatever was done to the ramdisk before `backup`, be   *)
(* the ramdisk patched once or again and again, dumped and loaded between: *)
(* the names and the bytes of the stock ramdisk are back (cpio.rs          *)
(* `backup`, `restore`).                                                   *)
RestoreUndoes ==
    /\ cpOpen /\ cpMemIs = "restored" => BytesOf(cpMem) = BytesOf(cpStock)
    /\ cpIs = "restored" => BytesOf(LoadFromData(cpFile).entries) = BytesOf(cpStock)
=============================================================================
