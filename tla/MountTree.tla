----------------------------- MODULE MountTree -----------------------------
(***************************************************************************)
(* apply_modules (native/src/core/module.rs): how the files of modules     *)
(* come into the read-only partitions.  The module trees are united into   *)
(* one virtual tree, Magisk's own files are injected, the subtrees of      *)
(* other partitions are taken out, and each partition's tree is committed: *)
(* files are bound over files, and a directory that needs more is rebuilt  *)
(* in a worker directory, with mirrors of its other entries, and bound as  *)
(* a whole.                                                                *)
(*                                                                         *)
(* A tree is a function from the paths in it (sequences of names, closed   *)
(* under prefixes) to nodes.  Where a node's file lies is given by its     *)
(* path and by whose it is.  Symbolic links of the device lead out of the  *)
(* partitions.  Attributes are not modelled.                               *)
(***************************************************************************)
EXTENDS Naturals, SequencesExt

CONSTANTS
    Devices,    \* devices: files, a tree of [kind, to]; separate, the secondary
                \* partitions that are directories of the root directory; sbin, whether
                \* PATH has Magisk's own directory; zygisk, whether it is enabled
    ModuleLists,\* lists of modules: [name, skip, tree]
    PathEnvs,   \* values of PATH: lists of [dir, ok, open, count]; ok: in a partition and
                \* not ruled out, open: can be searched, count: files in it
    NameOrder   \* the names, in the order of a BTreeMap

VARIABLES
    device,     \* the device's own files
    modules,    \* module_list
    path_env,
    fault,      \* the step that fails, if any
    pc,         \* the phase
    todo,       \* modules not collected yet
    system,     \* the virtual tree
    injected,   \* Magisk's own nodes in it
    roots,      \* partition trees still to be committed
    bound       \* what was bound over each partition

mountVars == <<device, modules, path_env, fault, pc, todo, system, injected, roots, bound>>

Partitions == {"system", "vendor"}
Node(kind, from) == [kind |-> kind, from |-> from]
Dir == Node("dir", "none")
Absent == Node("none", "none")
Replace == ".replace"
NoFault == [what |-> "none", at |-> <<>>]

StrictPrefixes(p) == {SubSeq(p, 1, i) : i \in 0..(Len(p) - 1)}
SubTree(T, p) == {q \in DOMAIN T : IsPrefix(p, q)}
Without(T, S) == [q \in DOMAIN T \ S |-> T[q]]
Overlay(T, U) == [q \in DOMAIN T \cup DOMAIN U |-> IF q \in DOMAIN U THEN U[q] ELSE T[q]]
ChildNames(T, p) == {Last(q) : q \in {r \in DOMAIN T : Len(r) = Len(p) + 1 /\ IsPrefix(p, r)}}

\* Files lie in directories; the partitions besides /system are the secondary ones.
ASSUME DevicesClosed ==
    \A d \in Devices :
        /\ DOMAIN d.files \subseteq Seq(STRING) \ {<<>>}
        /\ d.separate \subseteq Partitions \ {"system"}
        /\ \A f \in DOMAIN d.files :
              /\ d.files[f].kind \in {"dir", "file", "link"}
              /\ \A q \in StrictPrefixes(f) \ {<<>>} : q \in DOMAIN d.files /\ d.files[q].kind = "dir"

\* The trees of modules are trees.
ASSUME ModulesClosed ==
    \A list \in ModuleLists :
        /\ list \in Seq(Range(list))
        /\ \A i \in DOMAIN list :
              LET tree == list[i].tree
              IN  /\ <<>> \in DOMAIN tree /\ DOMAIN tree \subseteq Seq(STRING)
                  /\ \A p \in DOMAIN tree : \A q \in StrictPrefixes(p) : q \in DOMAIN tree /\ tree[q] = "dir"
                  /\ tree[<<>>] = "dir"

ASSUME PathEnvsNamed ==
    \A env \in PathEnvs : \A i \in DOMAIN env :
        i \in Nat /\ env[i].count \in Nat /\ env[i].dir \in Seq(STRING) \ {<<>>}

-----------------------------------------------------------------------------
(* The device's files, seen through its symbolic links *)

files == device.files

\* The last component is not followed.
Resolve(fs, path) ==
    LET links == {q \in StrictPrefixes(path) \cap DOMAIN fs : fs[q].kind = "link"}
    IN  IF links = {} THEN path
        ELSE LET q == CHOOSE l \in links : TRUE
             IN  fs[q].to \o SubSeq(path, Len(q) + 1, Len(path))

KindOf(fs, p) == IF p \in DOMAIN fs THEN fs[p].kind ELSE "none"
Lstat(path) == KindOf(files, Resolve(files, path))

Fails(what, path) == fault = [what |-> what, at |-> path]

\* The directory that opening path leads to.
Opened(path) ==
    LET q == Resolve(files, path) IN IF KindOf(files, q) = "link" THEN files[q].to ELSE q

\* Directory::open and read; no entries if it is no directory or cannot be read.
ReadDir(path) == IF Fails("read", path) THEN {} ELSE ChildNames(files, Opened(path))

-----------------------------------------------------------------------------
(* Step 1: the union of the modules *)

\* What a module's collect has visited when it fails at path b: whole
\* directories, but for those that lead to b.
VisitedBefore(tree, b) ==
    {V \in SUBSET DOMAIN tree :
        /\ b \notin V /\ Front(b) \in V
        /\ \A q \in V : StrictPrefixes(q) \subseteq V
        /\ \A q \in V : ~IsPrefix(q, b) => SubTree(tree, q) \subseteq V}

\* Mutant: a later module's entry replaces an earlier one's.
CollectLastWins(T, m, tree, V) ==
    Overlay(T, [q \in V |-> IF tree[q] = "dir" THEN Dir ELSE Node(tree[q], m)])

\* collect: an entry is added unless there is one, and nothing is added below
\* an entry that is no directory.
Collect(T, m, tree, V) ==
    Overlay(T, [q \in {v \in V \ DOMAIN T :
                          \A r \in StrictPrefixes(v) \cap DOMAIN T : T[r] = Dir} |->
                   IF tree[q] = "dir" THEN Dir ELSE Node(tree[q], m)])

CollectModule ==
    /\ pc = "collect" /\ todo # <<>>
    /\ LET m == Head(todo)
           all == DOMAIN m.tree
       IN  IF m.skip THEN UNCHANGED <<system, fault>>
           ELSE \/ /\ system' = Collect(system, m.name, m.tree, all)
                   /\ UNCHANGED fault
                \/ /\ fault = NoFault
                   /\ \E b \in all \ {<<>>} : \E V \in VisitedBefore(m.tree, b) :
                        /\ system' = Collect(system, m.name, m.tree, V)
                        /\ fault' = [what |-> "collect", at |-> b]
    /\ todo' = Tail(todo)
    /\ UNCHANGED <<device, modules, path_env, pc, injected, roots, bound>>

-----------------------------------------------------------------------------
(* Step 2: Magisk's own files *)

PartitionPath(p) == IF p[1] \in device.separate THEN p ELSE <<"system">> \o p

HasSu(i) == path_env[i].ok /\ Lstat(PartitionPath(path_env[i].dir) \o <<"su">>) # "none"

\* Mutant: a su that is there makes no difference.
CandidatesByCount == {i \in DOMAIN path_env : path_env[i].ok /\ path_env[i].open}

\* The suitable directories of PATH up to the first that has a su.
Candidates ==
    {i \in DOMAIN path_env : /\ path_env[i].ok /\ (HasSu(i) \/ path_env[i].open)
                             /\ \A k \in 1..(i - 1) : ~HasSu(k)}

\* The emptier first; the one with a su counts as empty.
FilesIn(i) == IF HasSu(i) THEN 0 ELSE path_env[i].count
Sooner(i, k) == FilesIn(i) < FilesIn(k) \/ (FilesIn(i) = FilesIn(k) /\ i <= k)

\* Every node there is on the way to p is a directory.
UpTo(p) == StrictPrefixes(p) \cup {p}
CanReach(T, p) == \A q \in UpTo(p) \cap DOMAIN T : T[q] = Dir

\* The first candidate that can be reached; else /system/bin.
InjectDir(T) ==
    LET good == {i \in Candidates : CanReach(T, path_env[i].dir)}
    IN  IF good = {} THEN <<"bin">>
        ELSE path_env[CHOOSE i \in good : \A k \in good : Sooner(i, k)].dir

\* children.insert: the file nodes N, whose directories are made if need be,
\* take the place of whatever the modules have there.
Insert(T, N) ==
    LET dirs == [q \in UNION {StrictPrefixes(p) : p \in DOMAIN N} |-> Dir]
    IN  Overlay(Overlay(Without(T, UNION {SubTree(T, p) : p \in DOMAIN N}), dirs), N)

InjectMagiskBins ==
    /\ pc = "collect" /\ todo = <<>>
    /\ LET d == InjectDir(system)
           bins == [q \in {Append(d, n) : n \in {"magisk", "su"}} |->
                      Node(IF Last(q) = "su" THEN "link" ELSE "file", "magisk")]
       IN  IF device.sbin \/ ~CanReach(system, d)
           THEN UNCHANGED <<system, injected>>
           ELSE /\ system' = Insert(system, bins)
                /\ injected' = bins
    /\ pc' = "zygisk"
    /\ UNCHANGED <<device, modules, path_env, fault, todo, roots, bound>>

InjectZygiskBins ==
    /\ pc = "zygisk"
    /\ LET lib == [q \in {<<"lib64", "zygisk">>} |-> Node("file", "magisk")]
       IN  IF device.zygisk /\ CanReach(system, <<"lib64">>)
           THEN /\ system' = Insert(system, lib)
                /\ injected' = Overlay(injected, lib)
           ELSE UNCHANGED <<system, injected>>
    /\ pc' = "extract"
    /\ UNCHANGED <<device, modules, path_env, fault, todo, roots, bound>>

-----------------------------------------------------------------------------
(* Step 3: the trees of the partitions *)

TreeAt(T, p) ==
    [q \in {SubSeq(r, Len(p) + 1, Len(r)) : r \in SubTree(T, p)} |-> T[p \o q]]

Extract(T) ==
    [r \in {"system"} \cup {d \in device.separate : <<d>> \in DOMAIN T} |->
        IF r = "system" THEN Without(T, UNION {SubTree(T, <<d>>) : d \in device.separate})
        ELSE TreeAt(T, <<r>>)]

ExtractRoots ==
    /\ pc = "extract"
    /\ roots' = Extract(system)
    /\ pc' = "commit"
    /\ UNCHANGED <<device, modules, path_env, fault, todo, system, injected, bound>>

-----------------------------------------------------------------------------
(* Step 4: commit *)

\* parent_should_be_tmpfs, with the node's target
ParentShouldBeTmpfs(node, target) ==
    node.kind \in {"dir", "file"} => Lstat(target) \in {"none", "link"}

\* In the root directory of a partition nothing can be added or replaced.
Supported(T, root) ==
    LET bad == {n \in ChildNames(T, <<>>) :
                   n = Replace \/ ParentShouldBeTmpfs(T[<<n>>], <<root, n>>)}
    IN  Without(T, UNION {SubTree(T, <<n>>) : n \in bad})

IsTmpfs(T, root, p) ==
    \/ Replace \in ChildNames(T, p)
    \/ \E n \in ChildNames(T, p) : ParentShouldBeTmpfs(T[Append(p, n)], <<root>> \o Append(p, n))

\* A mirror of an entry the tree does not have.
Mirror(path) == IF Lstat(path) = "dir" THEN Dir ELSE Node(Lstat(path), "device")

\* The module that replaces directory p, "none" for none.
Replacer(T, p) ==
    IF Replace \in ChildNames(T, p) /\ T[Append(p, Replace)].kind = "file"
    THEN T[Append(p, Replace)].from ELSE "none"

\* The path of a partition's p in the module trees.
TreePath(root, p) == IF root = "system" THEN p ELSE <<root>> \o p

\* The directory of module m at p, as it is; empty if the module has none.
ModuleDir(m, root, p) ==
    LET tree == (CHOOSE i \in Range(modules) : i.name = m).tree
        t == TreePath(root, p)
        dir == IF t \in DOMAIN tree /\ tree[t] = "dir" THEN TreeAt(tree, t) ELSE << >>
    IN  {<<p, Dir>>} \cup
        {<<p \o q, IF dir[q] = "dir" THEN Dir ELSE Node(dir[q], m)>> : q \in DOMAIN dir \ {<<>>}}

-----------------------------------------------------------------------------
(* commit_tmpfs: what becomes of directory p in the worker directory *)

\* At q, the tree's node or a mirror.
NodeAt(T, root, q) == IF q \in DOMAIN T THEN T[q] ELSE Mirror(<<root>> \o q)

\* In a replaced directory, a directory is the module's as it is.
BoundWhole(T, q) == q # <<>> /\ q \in DOMAIN T /\ T[q] = Dir /\ Replacer(T, Front(q)) # "none"

\* The entries made in q.
EntryNames(T, root, q) ==
    (ChildNames(T, q) \ {Replace}) \cup (IF Replacer(T, q) # "none" THEN {} ELSE ReadDir(<<root>> \o q))

\* The paths there can be: the tree's, and what the device has in its directories.
Possible(T, root) ==
    DOMAIN T \cup
    UNION {LET d == Opened(<<root>> \o r)
           IN  {r \o SubSeq(f, Len(d) + 1, Len(f)) : f \in SubTree(files, d)} : r \in DOMAIN T}

\* Those that commit_tmpfs(p) comes to, from directory to entry.
Visited(T, root, p) ==
    {q \in Possible(T, root) :
        /\ IsPrefix(p, q)
        /\ \A r \in StrictPrefixes(q) : IsPrefix(p, r) =>
              /\ NodeAt(T, root, r) = Dir /\ ~BoundWhole(T, r) /\ ~Fails("create", <<root>> \o r)
              /\ q[Len(r) + 1] \in EntryNames(T, root, r)}

\* Nothing is made for a whiteout.  If the bind of mount_dummy fails an empty
\* file or directory remains.
Shown(T, root, q) ==
    LET path == <<root>> \o q
        node == NodeAt(T, root, q)
    IN  IF node.kind = "whiteout" \/ Fails("create", path) THEN {}
        ELSE IF Fails("bind", path) THEN {<<q, IF node.kind = "file" THEN Node("file", "empty") ELSE node>>}
        ELSE IF BoundWhole(T, q) THEN ModuleDir(Replacer(T, Front(q)), root, q)
        ELSE {<<q, node>>}

CommitTmpfs(T, root, p) == UNION {Shown(T, root, q) : q \in Visited(T, root, p)}

\* Mutant: an error in the worker directory does not end the commit.
CompleteAnyway(T, root, p) == TRUE

\* No error ended commit_tmpfs.
Complete(T, root, p) ==
    \A q \in Visited(T, root, p) :
        NodeAt(T, root, q).kind = "whiteout" \/ ~Fails("create", <<root>> \o q)

-----------------------------------------------------------------------------
(* commit: the mounts made over the partition *)

\* commit comes to p through directories that are not rebuilt,
Walked(T, root) ==
    {p \in DOMAIN T : \A r \in StrictPrefixes(p) : T[r] = Dir /\ ~IsTmpfs(T, root, r)}

\* unless an error at an entry before has ended it (ended).
Position(n) == CHOOSE i \in DOMAIN NameOrder : NameOrder[i] = n
Before(q, p) ==
    \E i \in DOMAIN p \cap DOMAIN q :
        Position(q[i]) < Position(p[i]) /\ \A k \in 1..(i - 1) : q[k] = p[k]
Rebuilt(T, root, p) == T[p] = Dir /\ IsTmpfs(T, root, p)

Commit(T, root) ==
    LET ended == {q \in Walked(T, root) : Rebuilt(T, root, q) /\ ~Complete(T, root, q)}
    IN  {[at |-> p, shown |-> IF T[p] = Dir THEN CommitTmpfs(T, root, p) ELSE {<<p, T[p]>>}] :
           p \in {q \in Walked(T, root) \ ended :
                    /\ \A e \in ended : ~Before(e, q)
                    /\ T[q].kind = "file" \/ Rebuilt(T, root, q)
                    /\ Lstat(<<root>> \o q) = T[q].kind /\ ~Fails("bind", <<root>> \o q)}}

Committed(r) ==
    Commit(IF roots[r][<<>>] = Dir THEN Supported(roots[r], r) ELSE roots[r], r)

\* One partition at a time, in the order of their names.
CommitRoot(r) ==
    /\ pc = "commit"
    /\ r \in DOMAIN roots
    /\ r # "system" => "system" \notin DOMAIN roots
    /\ bound' = [bound EXCEPT ![r] = Committed(r)]
    /\ roots' = Without(roots, {r})
    /\ pc' = IF DOMAIN roots = {r} THEN "done" ELSE "commit"
    /\ UNCHANGED <<device, modules, path_env, fault, todo, system, injected>>

\* A creation in the worker directory, a bind mount or the reading of a
\* directory is going to fail.
ChooseFault(r) ==
    /\ pc = "commit" /\ r \in DOMAIN roots /\ fault = NoFault
    /\ \E b \in Committed(r) : \E p \in {b.at} \cup {x[1] : x \in b.shown} :
          \E what \in {"create", "bind", "read"} : fault' = [what |-> what, at |-> <<r>> \o p]
    /\ UNCHANGED <<device, modules, path_env, pc, todo, system, injected, roots, bound>>

InitMount ==
    /\ device \in Devices
    /\ modules \in ModuleLists
    /\ path_env \in PathEnvs
    /\ fault = NoFault
    /\ pc = "collect" /\ todo = modules
    /\ system = [q \in {<<>>} |-> Dir]
    /\ injected = << >>
    /\ roots = << >>
    /\ bound = [r \in Partitions |-> {}]

NextMount ==
    \/ CollectModule \/ InjectMagiskBins \/ InjectZygiskBins \/ ExtractRoots
    \/ \E r \in Partitions : CommitRoot(r) \/ ChooseFault(r)

Done == pc = "done" /\ UNCHANGED mountVars

SpecMount == InitMount /\ [][NextMount \/ Done]_mountVars

-----------------------------------------------------------------------------
(* What the guide for module developers promises (docs/guides.md) *)

\* What the modules and Magisk have at p, the first of them,
First(p) ==
    LET having == {i \in DOMAIN modules : ~modules[i].skip /\ p \in DOMAIN modules[i].tree}
        first == modules[CHOOSE i \in having : \A k \in having : i <= k]
    IN  IF p \in DOMAIN injected THEN injected[p]
        ELSE IF \E q \in DOMAIN injected : IsStrictPrefix(p, q) THEN Dir
        ELSE IF having = {} THEN Absent
        ELSE IF first.tree[p] = "dir" THEN Dir ELSE Node(first.tree[p], first.name)

\* where p is not below a file of another one.
Owner(p) ==
    IF (\A q \in StrictPrefixes(p) : First(q).kind = "dir") THEN First(p) ELSE Absent

Wanted(root, p) ==
    IF root = "system" /\ p # <<>> /\ p[1] \in device.separate THEN Absent
    ELSE Owner(TreePath(root, p))
ReplacedAt(root, q) == q # <<>> /\ Wanted(root, Append(q, Replace)).kind = "file"

DeviceHas(root, p) ==
    LET kind == Lstat(<<root>> \o p) IN IF kind \in {"dir", "none"} THEN Node(kind, "none") ELSE Node(kind, "device")

Own(node) == IF node.kind = "whiteout" THEN Absent ELSE node

\* A partition's root directory can neither get entries nor lose them.
AtRoot(root, p) ==
    p = <<>> \/ p[1] = Replace
    \/ ParentShouldBeTmpfs(Wanted(root, <<p[1]>>), <<root, p[1]>>)

\* Files are merged; a directory with a .replace is the module's.
Promised(root, p) ==
    LET replaced == {q \in StrictPrefixes(p) : ReplacedAt(root, q)}
        top == CHOOSE q \in replaced : \A r \in replaced : Len(q) <= Len(r)
        m == Wanted(root, Append(top, Replace)).from
        sub == SubSeq(p, 1, Len(top) + 1)
        raw == {x \in ModuleDir(m, root, sub) : x[1] = p}
        hidden == \E q \in StrictPrefixes(p) : Wanted(root, q).kind \in {"file", "link", "whiteout"}
    IN  IF AtRoot(root, p) THEN DeviceHas(root, p)
        ELSE IF replaced # {}
        THEN IF Last(p) = Replace /\ Len(p) = Len(top) + 1 THEN Absent
             ELSE IF Wanted(root, sub) # Dir THEN IF p = sub THEN Own(Wanted(root, p)) ELSE Absent
             ELSE IF raw = {} THEN Absent ELSE (CHOOSE x \in raw : TRUE)[2]
        ELSE IF Last(p) # Replace /\ Wanted(root, p) # Absent THEN Own(Wanted(root, p))
        ELSE IF hidden THEN Absent ELSE DeviceHas(root, p)

\* What a process sees.
Seen(root, p) ==
    LET over == {b \in bound[root] : IsPrefix(b.at, p)}
        b == CHOOSE c \in over : TRUE
        here == {x \in b.shown : x[1] = p}
    IN  IF over = {} THEN DeviceHas(root, p)
        ELSE IF here = {} THEN Absent ELSE (CHOOSE x \in here : TRUE)[2]

PathsIn(root) == {SubSeq(q, 2, Len(q)) : q \in {f \in DOMAIN files : f[1] = root}}
DeviceFiles(root) == {p \in PathsIn(root) : DeviceHas(root, p).kind \in {"file", "link"}}
PathsOf(root) ==
    PathsIn(root)
    \cup {IF root = "system" THEN q ELSE Tail(q) :
             q \in {t \in UNION {DOMAIN modules[i].tree : i \in DOMAIN modules} \cup DOMAIN injected :
                       root = "system" \/ (t # <<>> /\ t[1] = root)}}

\* A module brings a file where the device has a directory, or the reverse.
Clash(root, p) ==
    \E q \in UpTo(p) \ {<<>>} :
        {Wanted(root, q).kind, Lstat(<<root>> \o q)} = {"dir", "file"}

\* Without failures the partitions look as the guide says: files of modules
\* replace and add, the first module wins, a replaced directory is the module's,
\* a whiteout is gone, and everything else is mirrored.
MergedView ==
    pc = "done" /\ fault = NoFault =>
        \A root \in {"system"} \cup device.separate : \A p \in PathsOf(root) :
            ~Clash(root, p) => Seen(root, p) = Promised(root, p)

\* No module, nor Magisk, has anything at p, p's directories or their .replace.
Untouched(root, p) ==
    LET t == TreePath(root, p)
        trees == {modules[i].tree : i \in {k \in DOMAIN modules : ~modules[k].skip}}
    IN  /\ \A q \in DOMAIN injected : ~IsPrefix(q, t) /\ ~IsPrefix(t, q)
        /\ \A T \in trees :
              /\ t \notin DOMAIN T
              /\ \A q \in StrictPrefixes(t) : q \in DOMAIN T =>
                    T[q] = "dir" /\ Append(q, Replace) \notin DOMAIN T

\* Whatever step fails, a file of the device that no module touches stays in
\* sight: a directory is bound only when complete.  There are two exceptions:
\* a mirror that could not be bound shows an empty file, and a directory of the
\* device that could not be read is taken for an empty one.
NothingLost ==
    \A root \in Partitions : \A b \in bound[root] :
        \A p \in {q \in DeviceFiles(root) : IsPrefix(b.at, q)} :
            /\ Untouched(root, p)
            /\ ~Fails("bind", <<root>> \o p)
            /\ \A q \in StrictPrefixes(p) : ~Fails("read", <<root>> \o q)
            => Seen(root, p) = DeviceHas(root, p)

SeenInPath(i, n) ==
    LET p == Append(path_env[i].dir, n)
    IN  IF p[1] \in device.separate THEN Seen(p[1], Tail(p)) ELSE Seen("system", p)

\* Magisk's directory is itself below a directory a module replaces.
BelowReplaced ==
    \E p \in DOMAIN injected : \E q \in StrictPrefixes(p) \ {<<>>} :
        Len(q) + 1 < Len(p) /\ Owner(Append(q, Replace)).kind = "file"

\* Unless modules have a file in place of each directory Magisk could use, the
\* su that a shell finds first is Magisk's, or one a module brings
\* (inject_magisk_bins).
MagiskSuFirst ==
    pc = "done" /\ fault = NoFault /\ (\E p \in DOMAIN injected : Last(p) = "su") /\ ~BelowReplaced =>
        \E i \in DOMAIN path_env :
            /\ SeenInPath(i, "su").from \notin {"device", "none"}
            /\ \A k \in 1..(i - 1) : SeenInPath(k, "su") = Absent
=============================================================================
