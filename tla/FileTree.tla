------------------------------ MODULE FileTree ------------------------------
(***************************************************************************)
(* The tree operations of the base library (base/files.rs, base/dir.rs):   *)
(* remove_all, mkdirs, copy_to, move_to and link_to.  Each is a walk over  *)
(* directories that a system call may interrupt with an error at any       *)
(* entry, and the entries of a directory come in whatever order the kernel *)
(* keeps them.  The callers (rm_rf, cp_afc, mv_path and link_path of the   *)
(* C++ code, the boot stages, the module set) look at the result only.     *)
(*                                                                         *)
(* A path is a sequence of names and a symbolic link's data is the path it *)
(* leads to.  A file created by copying has the attributes "fresh" until   *)
(* they are set.                                                           *)
(***************************************************************************)
EXTENDS Naturals, SequencesExt

CONSTANTS Trees,     \* the file systems a call may start from: [path -> node]
          Calls      \* the calls: [op, src, dst]

VARIABLES ftFs,      \* the file system
          ftStart,   \* history: the file system when the call was made
          ftCall,    \* the call
          ftWalk,    \* the directories being walked, outermost first
          ftResult   \* "none", "walking", "ok" or "err"

treeVars == <<ftFs, ftStart, ftCall, ftWalk, ftResult>>

FsNode(k, d, a) == [kind |-> k, data |-> d, attr |-> a]
Has(fs, p) == p \in DOMAIN fs
Kind(fs, p) == IF Has(fs, p) THEN fs[p].kind ELSE "none"
Under(fs, p) == {q \in DOMAIN fs : IsPrefix(p, q)}
Below(fs, p) == Under(fs, p) \ {p}
Entries(fs, p) == {Last(q) : q \in {r \in Under(fs, p) : Len(r) = Len(p) + 1}}
Unlinked(fs, S) == [q \in DOMAIN fs \ S |-> fs[q]]
With(fs, p, n) == [q \in DOMAIN fs \cup {p} |-> IF q = p THEN n ELSE fs[q]]

(* What opening p reaches: one link is followed. *)
Follow(fs, p) == IF Kind(fs, p) = "link" THEN fs[p].data ELSE p

MakeDir(fs, p) == IF Has(fs, p) THEN fs ELSE With(fs, p, FsNode("dir", "none", "fresh"))
SetAttr(fs, p, a) == [fs EXCEPT ![p].attr = a]

(* rename(2): a whole subtree changes its place, and what was there goes. *)
Moved(r, p, q) == q \o SubSeq(r, Len(p) + 1, Len(r))
Renamed(fs, p, q) ==
  LET new  == {Moved(r, p, q) : r \in Under(fs, p)}
      kept == DOMAIN fs \ (Under(fs, p) \cup {q})
  IN  [r \in new \cup kept |-> IF r \in new THEN fs[Moved(r, q, p)] ELSE fs[r]]

CanRename(fs, p, q) ==
  \/ Kind(fs, p) # "dir" /\ Kind(fs, q) # "dir"
  \/ Kind(fs, p) = "dir" /\ (Kind(fs, q) = "none" \/ (Kind(fs, q) = "dir" /\ Below(fs, q) = {}))

-----------------------------------------------------------------------------
(* The places of a call c on the file system fs. *)

(* Where the entries of the directory p of the source go: links on the way *)
(* are followed.                                                           *)
InsideTo(fs, c, p) ==
  LET at[i \in 0..Len(p)] ==
        IF i <= Len(c.src) THEN (IF c.op = "move" THEN c.dst ELSE Follow(fs, c.dst))
                           ELSE Follow(fs, Append(at[i - 1], p[i]))
  IN  at
Inside(fs, c, p) == InsideTo(fs, c, p)[Len(p)]

(* Where a rename puts p, and where a copy does: it writes through a link. *)
Renaming(fs, c, p) == IF p = c.src THEN c.dst ELSE Append(Inside(fs, c, Front(p)), Last(p))
Landing(fs, c, p) ==
  IF p # c.src /\ fs[p].kind = "link" THEN Renaming(fs, c, p) ELSE Inside(fs, c, p)
Places(fs, c, p) == {Renaming(fs, c, p), Landing(fs, c, p)}

(* Everything is in a directory, and a link leads to a file or directory,  *)
(* or to where one could be.                                               *)
ASSUME TreesClosed ==
  \A fs \in Trees :
    /\ <<>> \in DOMAIN fs /\ DOMAIN fs \subseteq Seq(STRING)
    /\ \A p \in DOMAIN fs :
         /\ fs[p] = FsNode(fs[p].kind, fs[p].data, fs[p].attr) /\ fs[p].kind # "none"
         /\ \A n \in 0..(Len(p) - 1) : Kind(fs, SubSeq(p, 1, n)) = "dir"
         /\ fs[p].kind = "dir" => fs[p].data = "none"
         /\ fs[p].kind = "link" =>
              /\ fs[p].data \in Seq(STRING) /\ Kind(fs, fs[p].data) # "link"
              /\ fs[p].data = <<>> \/ Kind(fs, Front(fs[p].data)) = "dir"

(* No two parts of the source have one place, as they would with two links *)
(* to one directory on the way, and none has its place in the source.  The *)
(* destination is in a directory.  No link is moved into a directory, where *)
(* move_into would go on with what the link leads to.                      *)
ASSUME CallsApart ==
  \A fs \in Trees, c \in Calls :
    /\ c.src \in Seq(STRING) /\ c.dst \in Seq(STRING)
    /\ Has(fs, c.src) /\ c.op \in {"copy", "move", "link"} =>
         /\ c.dst = <<>> \/ Kind(fs, Front(c.dst)) = "dir"
         /\ c.op = "move" /\ Kind(fs, c.dst) = "dir" => Kind(fs, c.src) # "link"
         /\ \A p \in Under(fs, c.src) :
              /\ \A x \in Places(fs, c, p) : ~IsPrefix(c.src, x)
              /\ \A q \in Under(fs, c.src) \ {p} : Places(fs, c, p) \cap Places(fs, c, q) = {}

-----------------------------------------------------------------------------
Frame(fs, src, dst) == [src |-> src, dst |-> dst, left |-> Entries(fs, src)]

InitTree ==
  /\ ftFs \in Trees
  /\ ftStart = ftFs
  /\ ftCall \in Calls
  /\ ftWalk = <<>>
  /\ ftResult = "none"

Finish(fs, r) == ftFs' = fs /\ ftResult' = r /\ ftWalk' = <<>> /\ UNCHANGED <<ftStart, ftCall>>
Descend(fs, walk, src, dst) ==
  /\ ftFs' = fs
  /\ ftWalk' = Append(walk, Frame(fs, src, dst))
  /\ ftResult' = "walking"
  /\ UNCHANGED <<ftStart, ftCall>>
OnTo(fs, walk) == ftFs' = fs /\ ftWalk' = walk /\ UNCHANGED <<ftStart, ftCall, ftResult>>

Called(op) == ftResult = "none" /\ ftCall.op = op

(* Utf8CStr::remove_all: a path that is not there is not an error. *)
remove_all ==
  /\ Called("remove")
  /\ LET p == ftCall.src IN
     CASE Kind(ftFs, p) = "none" -> Finish(ftFs, "ok")
       [] Kind(ftFs, p) = "dir"  -> Descend(ftFs, <<>>, p, p)
       [] OTHER                  -> Finish(Unlinked(ftFs, {p}), "ok")

(* Utf8CStr::mkdirs: every prefix in turn, whatever is there already. *)
mkdirs ==
  /\ Called("mkdirs")
  /\ LET p == ftCall.src
         bad == {i \in 1..Len(p) - 1 : Kind(ftFs, Follow(ftFs, SubSeq(p, 1, i))) \notin {"dir", "none"}}
         upto == IF bad = {} THEN Len(p) ELSE (CHOOSE i \in bad : \A j \in bad : i <= j)
         new == {SubSeq(p, 1, i) : i \in 1..upto} \ DOMAIN ftFs
         made == [q \in DOMAIN ftFs \cup new |->
                    IF q \in new THEN FsNode("dir", "none", "fresh") ELSE ftFs[q]]
     IN  Finish(made, IF bad = {} THEN "ok" ELSE "err")

(* Utf8CStr::copy_to.  libc::remove takes an empty directory away as well. *)
copy_to ==
  /\ Called("copy")
  /\ LET p == ftCall.src
         q == ftCall.dst
         cleared == IF Below(ftFs, q) = {} THEN Unlinked(ftFs, {q}) ELSE ftFs
     IN  CASE Kind(ftFs, p) = "none" -> Finish(ftFs, "err")
           [] Kind(ftFs, p) = "dir" ->
                LET fs == MakeDir(ftFs, q) IN
                IF Kind(fs, Follow(fs, q)) = "dir" THEN Descend(fs, <<>>, p, Follow(fs, q))
                                                   ELSE Finish(fs, "err")
           [] Kind(ftFs, p) \in {"file", "link"} ->
                IF Has(cleared, q) THEN Finish(cleared, "err")
                                   ELSE Finish(With(cleared, q, ftFs[p]), "ok")
           [] OTHER -> Finish(cleared, IF Has(cleared, q) THEN "ok" ELSE "err")

(* Utf8CStr::move_to. *)
move_to ==
  /\ Called("move")
  /\ LET p == ftCall.src
         q == ftCall.dst
         cleared == Unlinked(ftFs, {q})
     IN  IF Kind(ftFs, q) = "dir"
         THEN IF Kind(ftFs, Follow(ftFs, p)) = "dir" THEN Descend(ftFs, <<>>, Follow(ftFs, p), q)
                                                     ELSE Finish(ftFs, "err")
         ELSE IF Has(cleared, p) THEN Finish(Renamed(cleared, p, q), "ok")
                                 ELSE Finish(cleared, "err")

(* Utf8CStr::link_to: a directory gets its attributes before its entries. *)
link_to ==
  /\ Called("link")
  /\ LET p == ftCall.src
         q == ftCall.dst
     IN  CASE Kind(ftFs, p) = "none" -> Finish(ftFs, "err")
           [] Kind(ftFs, p) = "dir" ->
                LET fs == SetAttr(MakeDir(ftFs, q), q, ftFs[p].attr) IN
                IF Kind(fs, Follow(fs, q)) = "dir" THEN Descend(fs, <<>>, p, Follow(fs, q))
                                                   ELSE Finish(fs, "err")
           [] OTHER -> IF Has(ftFs, q) THEN Finish(ftFs, "err")
                                       ELSE Finish(With(ftFs, q, ftFs[p]), "ok")

-----------------------------------------------------------------------------
(* The walks.  Directory::read hands out the entries in the order of the   *)
(* file system; what a walk itself adds or takes away is not read again.   *)

Top == Last(ftWalk)
Walking(op) == ftResult = "walking" /\ ftCall.op = op

(* The entry e of the innermost directory has been dealt with. *)
Rest(e) == [ftWalk EXCEPT ![Len(ftWalk)].left = @ \ {e}]

(* Mutant: removing follows the entry's link. *)
RemoveEntryFollows ==
  /\ Walking("remove")
  /\ \E e \in Top.left :
       LET p == Append(Top.src, e) IN
       IF Kind(ftFs, Follow(ftFs, p)) = "dir"
       THEN Descend(ftFs, Rest(e), Follow(ftFs, p), Follow(ftFs, p))
       ELSE OnTo(Unlinked(ftFs, {p}), Rest(e))

(* Directory::remove_all: post_order_walk with unlink. *)
RemoveEntry ==
  /\ Walking("remove")
  /\ \E e \in Top.left :
       LET p == Append(Top.src, e) IN
       IF Kind(ftFs, p) = "dir" THEN Descend(ftFs, Rest(e), p, p)
                                ELSE OnTo(Unlinked(ftFs, {p}), Rest(e))

(* Directory::copy_into_impl.  Opening the destination follows a link that *)
(* is in its place, and nothing is made for a device, a fifo or a socket.  *)
CopyEntry ==
  /\ Walking("copy")
  /\ \E e \in Top.left :
       LET p == Append(Top.src, e)
           q == Append(Top.dst, e)
           to == Follow(ftFs, q)
           made == MakeDir(ftFs, q)
       IN  CASE Kind(ftFs, p) = "dir" ->
                  IF Kind(made, Follow(made, q)) = "dir" THEN Descend(made, Rest(e), p, Follow(made, q))
                                                         ELSE Finish(made, "err")
             [] Kind(ftFs, p) = "file" ->
                  IF Kind(ftFs, to) = "dir" THEN Finish(ftFs, "err")
                                            ELSE OnTo(With(ftFs, to, ftFs[p]), Rest(e))
             [] Kind(ftFs, p) = "link" ->
                  IF Has(ftFs, q) THEN Finish(ftFs, "err") ELSE OnTo(With(ftFs, q, ftFs[p]), Rest(e))
             [] OTHER -> OnTo(ftFs, Rest(e))

(* Directory::move_into *)
MoveEntry ==
  /\ Walking("move")
  /\ \E e \in Top.left :
       LET p == Append(Top.src, e)
           q == Append(Top.dst, e)
       IN  IF Kind(ftFs, p) = "dir" /\ Has(ftFs, q)
           THEN IF Kind(ftFs, Follow(ftFs, q)) = "dir" THEN Descend(ftFs, Rest(e), p, Follow(ftFs, q))
                                                       ELSE Finish(ftFs, "err")
           ELSE IF CanRename(ftFs, p, q) THEN OnTo(Renamed(ftFs, p, q), Rest(e))
                                         ELSE Finish(ftFs, "err")

(* Directory::link_into_impl *)
LinkEntry ==
  /\ Walking("link")
  /\ \E e \in Top.left :
       LET p == Append(Top.src, e)
           q == Append(Top.dst, e)
           made == MakeDir(ftFs, q)
       IN  IF Kind(ftFs, p) = "dir"
           THEN IF Kind(made, Follow(made, q)) = "dir" THEN Descend(made, Rest(e), p, Follow(made, q))
                                                       ELSE Finish(made, "err")
           ELSE IF Has(ftFs, q) THEN Finish(ftFs, "err") ELSE OnTo(With(ftFs, q, ftFs[p]), Rest(e))

ReturnFrom(fs, walk) == IF walk = <<>> THEN Finish(fs, "ok") ELSE OnTo(fs, walk)

(* An emptied directory is removed by the walk around it or, the outermost, *)
(* by remove_all itself.                                                    *)
RemoveReturns ==
  /\ Walking("remove") /\ Top.left = {}
  /\ IF Below(ftFs, Top.src) = {} THEN ReturnFrom(Unlinked(ftFs, {Top.src}), Front(ftWalk))
                                  ELSE Finish(ftFs, "err")

(* A copied directory gets its attributes when all of it has been copied. *)
CopyReturns ==
  /\ Walking("copy") /\ Top.left = {}
  /\ ReturnFrom(SetAttr(ftFs, Top.dst, ftFs[Top.src].attr), Front(ftWalk))

LinkReturns ==
  /\ Walking("link") /\ Top.left = {}
  /\ ReturnFrom(IF Len(ftWalk) = 1 THEN ftFs ELSE SetAttr(ftFs, Top.dst, ftFs[Top.src].attr), Front(ftWalk))

(* The caller of a recursive move unlinks the emptied directory and        *)
(* returns: it does not go on with the entries it has not read yet.        *)
MoveReturns ==
  /\ Walking("move") /\ Top.left = {}
  /\ LET up == Front(ftWalk) IN
     IF up = <<>> THEN Finish(ftFs, "ok")
     ELSE IF Below(ftFs, Top.src) = {}
          THEN OnTo(Unlinked(ftFs, {Top.src}), [up EXCEPT ![Len(up)].left = {}])
          ELSE Finish(ftFs, "err")

(* A system call fails: the walk ends, a copy perhaps half-way in a file. *)
TreeFails ==
  /\ ftResult = "walking"
  /\ \/ Finish(ftFs, "err")
     \/ /\ ftCall.op = "copy"
        /\ \E e \in Top.left :
             /\ Kind(ftFs, Append(Top.src, e)) = "file"
             /\ LET to == Follow(ftFs, Append(Top.dst, e)) IN
                /\ Kind(ftFs, to) # "dir"
                /\ Finish(With(ftFs, to, FsNode("file", "partial", "fresh")), "err")

NextTree ==
  \/ remove_all \/ mkdirs \/ copy_to \/ move_to \/ link_to
  \/ RemoveEntry \/ CopyEntry \/ MoveEntry \/ LinkEntry
  \/ RemoveReturns \/ CopyReturns \/ MoveReturns \/ LinkReturns
  \/ TreeFails

SpecTree == InitTree /\ [][NextTree]_treeVars

-----------------------------------------------------------------------------
Sources == Below(ftStart, ftCall.src)

(* Untouched, whatever the order of the entries and wherever a system call  *)
(* fails: what is outside a removed path (links are not followed), what     *)
(* mkdirs finds, the source of a copy, and what the destination holds under *)
(* names the source does not have.  A moved file is in one of its places.   *)
Bystanders ==
  LET op == ftCall.op
      kept(S) == \A p \in S : Has(ftFs, p) /\ ftFs[p] = ftStart[p]
      leaves == {p \in Under(ftStart, ftCall.src) : ftStart[p].kind # "dir"}
      named == UNION {Places(ftStart, ftCall, p) : p \in Sources}
      unnamed == {q \in Below(ftStart, ftCall.dst) \ (Under(ftStart, ftCall.src) \cup named) :
                    ftStart[q].kind # "dir"}
  IN  /\ op = "remove" => kept(DOMAIN ftStart \ Under(ftStart, ftCall.src))
      /\ op = "mkdirs" => kept(DOMAIN ftStart)
      /\ op \in {"copy", "link"} => kept(Under(ftStart, ftCall.src))
      /\ op = "move" => \A p \in leaves :
                          \E q \in {p, Renaming(ftStart, ftCall, p)} : Has(ftFs, q) /\ ftFs[q] = ftStart[p]
      /\ (op \in {"copy", "move", "link"} /\ Kind(ftStart, ftCall.src) = "dir") => kept(unnamed)

(* remove_all, mkdirs, copy_to, move_to and link_to touch nothing but what *)
(* they are about, even when they fail half-way; a successful remove_all   *)
(* leaves nothing, and a successful copy_to or link_to has put every       *)
(* directory, file and link of the source with its contents and attributes *)
(* in its place.                                                           *)
TreesHandled ==
  /\ Bystanders
  /\ ftResult = "ok" =>
       CASE ftCall.op = "remove" -> Under(ftFs, ftCall.src) = {}
         [] ftCall.op \in {"copy", "link"} ->
              \A p \in Sources : ftStart[p].kind \in {"dir", "file", "link"} =>
                LET q == Landing(ftStart, ftCall, p) IN Has(ftFs, q) /\ ftFs[q] = ftStart[p]
         [] OTHER -> TRUE

(* mv_path has moved everything when it reports success, as the files of   *)
(* overlay.d are documented to replace those at the same relative path.    *)
MovedWhole ==
  (ftResult = "ok" /\ ftCall.op = "move") =>
    \A p \in Sources : ftStart[p].kind = "file" =>
      LET q == Renaming(ftStart, ftCall, p) IN Has(ftFs, q) /\ ftFs[q] = ftStart[p]

=============================================================================
