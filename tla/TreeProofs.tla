----------------------------- MODULE TreeProofs -----------------------------
(***************************************************************************)
(* The tree operations of the base library (FileTree) leave what they are  *)
(* not about alone and have done their work when they report success, for  *)
(* every file system, call, order of the entries and failing system call.  *)
(*                                                                         *)
(* The argument: the walk is a branch of the source, each directory on it  *)
(* with the entries it has yet to come to.  Whatever differs from the file *)
(* system of the start is a place of a part of the source the walk has     *)
(* been to; since the places lie apart, from each other and from the       *)
(* source, what is still to be read is as it was, and what has been put in *)
(* its place stays there.                                                  *)
(*                                                                         *)
(* And mounting modules (MountTree) loses no file of the device, whichever *)
(* step fails: the tree that is rebuilt has, on the way to a file nobody   *)
(* touches, directories only, so the worker directory comes to the file or *)
(* is never bound.                                                         *)
(***************************************************************************)
EXTENDS FileTree, MountTree, Inductions

-----------------------------------------------------------------------------
(* Paths *)

\* Names.  (The provers do not know that a string is in STRING.)
Names == STRING \cup Partitions \cup {Replace, "bin", "lib64", "magisk", "su", "zygisk"}
TreePaths == Seq(Names)

LEMMA StringPaths == Seq(STRING) \subseteq TreePaths
  <1>1. STRING \subseteq Names
    BY DEF Names
  <1> QED BY <1>1, SeqMonotonic DEF TreePaths

\* A path lies in another when it starts with it.
LEMMA PrefixIs ==
    \A p, q \in TreePaths :
        /\ Len(p) \in Nat
        /\ IsPrefix(p, q) <=> Len(p) <= Len(q) /\ \A i \in 1..Len(p) : p[i] = q[i]
  BY DEF IsPrefix, TreePaths

\* The order of paths.
LEMMA PrefixOrder ==
    /\ \A p \in TreePaths : IsPrefix(p, p)
    /\ \A p, q, r \in TreePaths : IsPrefix(p, q) /\ IsPrefix(q, r) => IsPrefix(p, r)
    /\ \A p, q \in TreePaths : IsPrefix(p, q) => Len(p) <= Len(q)
    /\ \A p, q \in TreePaths : IsPrefix(p, q) /\ Len(q) <= Len(p) => p = q
  <1>1. \A p \in TreePaths : IsPrefix(p, p)
    BY PrefixIs
  <1>2. \A p, q, r \in TreePaths : IsPrefix(p, q) /\ IsPrefix(q, r) => IsPrefix(p, r)
    BY PrefixIs
  <1>3. \A p, q \in TreePaths : IsPrefix(p, q) => Len(p) <= Len(q)
    BY PrefixIs
  <1>4. ASSUME NEW p \in TreePaths, NEW q \in TreePaths, IsPrefix(p, q), Len(q) <= Len(p)
        PROVE  p = q
    <2>1. Len(p) = Len(q) /\ \A i \in 1..Len(p) : p[i] = q[i]
      BY <1>4, PrefixIs
    <2> QED BY <2>1, SeqEqual DEF TreePaths
  <1> QED BY <1>1, <1>2, <1>3, <1>4

\* A path put together with a name.
LEMMA AppendIs ==
    \A p \in TreePaths, e \in Names :
        /\ Append(p, e) \in TreePaths /\ Len(Append(p, e)) = Len(p) + 1 /\ Len(p) \in Nat
        /\ \A i \in 1..Len(p) : Append(p, e)[i] = p[i]
        /\ Append(p, e)[Len(p) + 1] = e
  <1> SUFFICES ASSUME NEW p \in Seq(Names), NEW e \in Names
               PROVE  /\ Append(p, e) \in Seq(Names) /\ Len(Append(p, e)) = Len(p) + 1
                      /\ Len(p) \in Nat
                      /\ \A i \in 1..Len(p) : Append(p, e)[i] = p[i]
                      /\ Append(p, e)[Len(p) + 1] = e
    BY DEF TreePaths
  <1>1. Append(p, e) \in Seq(Names) /\ Len(Append(p, e)) = Len(p) + 1
        /\ Append(p, e)[Len(p) + 1] = e
    BY AppendProperties
  <1>2. \A i \in 1..Len(p) : Append(p, e)[i] = p[i]
    BY AppendProperties
  <1>3. Len(p) \in Nat
    BY LenProperties
  <1> QED BY <1>1, <1>2, <1>3

\* Of two beginnings of a path one lies in the other.
LEMMA PrefixChain ==
    ASSUME NEW a \in TreePaths, NEW b \in TreePaths, NEW x \in TreePaths,
           IsPrefix(a, x), IsPrefix(b, x), Len(a) <= Len(b)
    PROVE  IsPrefix(a, b)
  BY PrefixIs

\* An entry of a directory.
LEMMA EntryPath ==
    ASSUME NEW p \in TreePaths, NEW e \in Names
    PROVE  /\ Append(p, e) \in TreePaths /\ Len(Append(p, e)) = Len(p) + 1
           /\ Front(Append(p, e)) = p /\ Last(Append(p, e)) = e
           /\ IsPrefix(p, Append(p, e)) /\ Append(p, e) # p
           /\ \A q \in TreePaths : IsPrefix(q, Append(p, e)) <=> IsPrefix(q, p) \/ q = Append(p, e)
           /\ \A q \in TreePaths, f \in Names : Append(p, e) = Append(q, f) => p = q /\ e = f
  <1> DEFINE a == Append(p, e)
  <1>1. /\ a \in TreePaths /\ Len(a) = Len(p) + 1 /\ Len(p) \in Nat
        /\ \A i \in 1..Len(p) : a[i] = p[i]
        /\ a[Len(p) + 1] = e
    BY AppendIs
  <1>2. Front(a) = p
    <2>1. Front(a) = SubSeq(a, 1, Len(p))
      BY <1>1 DEF Front
    <2>2. SubSeq(a, 1, Len(p)) \in Seq(Names) /\ Len(SubSeq(a, 1, Len(p))) = Len(p)
      BY <1>1 DEF TreePaths
    <2>3. \A i \in 1..Len(p) : SubSeq(a, 1, Len(p))[i] = p[i]
      BY <1>1 DEF TreePaths
    <2> QED BY <2>1, <2>2, <2>3, SeqEqual DEF TreePaths
  <1>3. Last(a) = e
    BY <1>1 DEF Last
  <1> HIDE DEF a
  <1>4. IsPrefix(p, a)
    BY <1>1, PrefixIs
  <1>5. ASSUME NEW q \in TreePaths
        PROVE  IsPrefix(q, a) <=> IsPrefix(q, p) \/ q = a
    <2>1. CASE IsPrefix(q, a) /\ Len(q) <= Len(p)
      BY <1>1, <2>1, PrefixIs
    <2>2. CASE IsPrefix(q, a) /\ Len(q) > Len(p)
      <3>1. Len(a) <= Len(q)
        BY <1>1, <2>2, PrefixIs
      <3> QED BY <1>1, <2>2, <3>1, PrefixOrder
    <2>3. CASE ~IsPrefix(q, a)
      BY <1>1, <1>4, <2>3, PrefixOrder
    <2>4. Len(q) <= Len(p) \/ Len(q) > Len(p)
      BY <1>1, PrefixIs
    <2> QED BY <2>1, <2>2, <2>3, <2>4
  <1>6. ASSUME NEW q \in TreePaths, NEW f \in Names, a = Append(q, f)
        PROVE  p = q /\ e = f
    <2>1. Len(Append(q, f)) = Len(q) + 1 /\ Len(q) \in Nat /\ Append(q, f)[Len(q) + 1] = f
          /\ \A i \in 1..Len(q) : Append(q, f)[i] = q[i]
      BY AppendIs
    <2>2. Len(p) = Len(q) /\ e = f /\ \A i \in 1..Len(p) : p[i] = q[i]
      <3>1. Len(p) = Len(q)
        BY <1>1, <1>6, <2>1
      <3>2. e = f
        BY <1>1, <1>6, <2>1, <3>1
      <3>3. \A i \in 1..Len(p) : p[i] = q[i]
        BY <1>1, <1>6, <2>1, <3>1
      <3> QED BY <3>1, <3>2, <3>3
    <2> QED BY <2>2, SeqEqual DEF TreePaths
  <1>7. a # p
    BY <1>1
  <1>8. \A q \in TreePaths : IsPrefix(q, a) <=> IsPrefix(q, p) \/ q = a
    BY <1>5
  <1>9. \A q \in TreePaths, f \in Names : a = Append(q, f) => p = q /\ e = f
    BY <1>6
  <1> QED BY <1>1, <1>2, <1>3, <1>4, <1>7, <1>8, <1>9 DEF a

\* What lies in a directory is one of its entries or lies in one.
LEMMA NextEntry ==
    ASSUME NEW p \in TreePaths, NEW q \in TreePaths, IsPrefix(p, q), p # q
    PROVE  /\ q[Len(p) + 1] \in Names
           /\ IsPrefix(Append(p, q[Len(p) + 1]), q)
           /\ Append(p, q[Len(p) + 1]) = SubSeq(q, 1, Len(p) + 1)
           /\ \A e \in Names : IsPrefix(Append(p, e), q) => e = q[Len(p) + 1]
  <1> DEFINE n == Len(p) e == q[n + 1] a == Append(p, e)
  <1>1. n \in Nat /\ Len(q) \in Nat /\ n <= Len(q) /\ \A i \in 1..n : p[i] = q[i]
    BY PrefixIs
  <1>2. n < Len(q)
    <2>1. ~(Len(q) <= n)
      BY PrefixOrder
    <2> QED BY <1>1, <2>1
  <1>3. n + 1 \in 1..Len(q) /\ e \in Names
    BY <1>1, <1>2 DEF TreePaths
  <1>4. a \in TreePaths /\ Len(a) = n + 1 /\ (\A i \in 1..n : a[i] = p[i]) /\ a[n + 1] = e
    BY <1>1, <1>3, AppendIs
  <1> HIDE DEF a
  <1>5. \A i \in 1..(n + 1) : a[i] = q[i]
    <2>1. \A i \in 1..(n + 1) : i \in 1..n \/ i = n + 1
      BY <1>1
    <2> QED BY <1>1, <1>4, <2>1
  <1>6. IsPrefix(a, q)
    BY <1>3, <1>4, <1>5, PrefixIs
  <1>7. a = SubSeq(q, 1, n + 1)
    <2>1. SubSeq(q, 1, n + 1) \in Seq(Names) /\ Len(SubSeq(q, 1, n + 1)) = n + 1
          /\ \A i \in 1..(n + 1) : SubSeq(q, 1, n + 1)[i] = q[i]
      BY <1>1, <1>2 DEF TreePaths
    <2> QED BY <1>4, <1>5, <2>1, SeqEqual DEF TreePaths
  <1>8. ASSUME NEW f \in Names, IsPrefix(Append(p, f), q)
        PROVE  f = e
    <2>1. Append(p, f) \in TreePaths /\ Len(Append(p, f)) = n + 1 /\ Append(p, f)[n + 1] = f
      BY <1>1, AppendIs
    <2>2. n + 1 \in 1..Len(Append(p, f))
      BY <1>1, <2>1
    <2> QED BY <1>8, <2>1, <2>2, PrefixIs
  <1> QED BY <1>3, <1>6, <1>7, <1>8 DEF a

-----------------------------------------------------------------------------
(* Trees, and where a call puts the parts of its source *)

\* Everything in a tree is in directories only.
LEMMA TreeShape ==
    ASSUME NEW S \in Trees
    PROVE  /\ DOMAIN S \subseteq TreePaths
           /\ \A p \in DOMAIN S :
                /\ S[p].kind # "none"
                /\ S[p] = FsNode(S[p].kind, S[p].data, S[p].attr)
                /\ S[p].kind = "link" => S[p].data \in TreePaths
                /\ S[p].kind = "dir" => S[p] = FsNode("dir", "none", S[p].attr)
           /\ \A p \in DOMAIN S, q \in TreePaths :
                IsPrefix(q, p) /\ q # p => q \in DOMAIN S /\ S[q].kind = "dir"
  <1>1. DOMAIN S \subseteq TreePaths
    BY TreesClosed, StringPaths
  <1>2. ASSUME NEW p \in DOMAIN S
        PROVE  /\ S[p].kind # "none"
               /\ S[p] = FsNode(S[p].kind, S[p].data, S[p].attr)
               /\ S[p].kind = "link" => S[p].data \in TreePaths
               /\ S[p].kind = "dir" => S[p].data = "none"
               /\ \A n \in 0..(Len(p) - 1) : Kind(S, SubSeq(p, 1, n)) = "dir"
    BY TreesClosed, StringPaths
  <1>3. \A p \in DOMAIN S : S[p].kind = "dir" => S[p] = FsNode("dir", "none", S[p].attr)
    BY <1>2
  <1>4. ASSUME NEW p \in DOMAIN S, NEW q \in TreePaths, IsPrefix(q, p), q # p
        PROVE  q \in DOMAIN S /\ S[q].kind = "dir"
    <2>1. p \in TreePaths
      BY <1>1
    <2>2. /\ Len(q) \in Nat /\ Len(p) \in Nat /\ Len(q) <= Len(p)
          /\ \A i \in 1..Len(q) : q[i] = p[i]
      BY <1>4, <2>1, PrefixIs
    <2>3. Len(q) \in 0..(Len(p) - 1)
      <3>1. ~(Len(p) <= Len(q))
        BY <1>4, <2>1, PrefixOrder
      <3> QED BY <2>2, <3>1
    <2>4. SubSeq(p, 1, Len(q)) = q
      <3>1. SubSeq(p, 1, Len(q)) \in Seq(Names) /\ Len(SubSeq(p, 1, Len(q))) = Len(q)
            /\ \A i \in 1..Len(q) : SubSeq(p, 1, Len(q))[i] = p[i]
        BY <2>1, <2>2 DEF TreePaths
      <3> QED BY <2>2, <3>1, SeqEqual DEF TreePaths
    <2>5. Kind(S, q) = "dir"
      BY <1>2, <2>3, <2>4
    <2> QED BY <2>5 DEF Kind, Has
  <1>5. \A p \in DOMAIN S, q \in TreePaths :
          IsPrefix(q, p) /\ q # p => q \in DOMAIN S /\ S[q].kind = "dir"
    BY <1>4
  <1> QED BY <1>1, <1>2, <1>3, <1>5

\* A link leads to a path.
LEMMA FollowPath ==
    ASSUME NEW S \in Trees, NEW p \in TreePaths
    PROVE  Follow(S, p) \in TreePaths
  BY TreeShape DEF Follow, Kind, Has

\* The entries of a directory are the names of what is directly in it.
LEMMA EntriesAre ==
    ASSUME NEW fs, DOMAIN fs \subseteq TreePaths, NEW p \in TreePaths
    PROVE  /\ Entries(fs, p) \subseteq Names
           /\ \A e \in Names : e \in Entries(fs, p) <=> Append(p, e) \in DOMAIN fs
  <1>1. ASSUME NEW q \in Under(fs, p), Len(q) = Len(p) + 1
        PROVE  Last(q) \in Names /\ Append(p, Last(q)) = q
    <2>1. q \in TreePaths /\ IsPrefix(p, q) /\ Len(p) \in Nat
      BY PrefixIs DEF Under
    <2>2. p # q
      BY <1>1, <2>1
    <2>3. q[Len(p) + 1] \in Names /\ IsPrefix(Append(p, q[Len(p) + 1]), q)
      BY <2>1, <2>2, NextEntry
    <2>4. Last(q) = q[Len(p) + 1]
      BY <1>1 DEF Last
    <2>5. Append(p, Last(q)) \in TreePaths /\ Len(Append(p, Last(q))) = Len(p) + 1
      BY <2>3, <2>4, AppendIs
    <2>6. Len(q) <= Len(Append(p, Last(q)))
      BY <1>1, <2>1, <2>5
    <2> QED BY <2>1, <2>3, <2>4, <2>5, <2>6, PrefixOrder
  <1>2. ASSUME NEW e \in Names, Append(p, e) \in DOMAIN fs
        PROVE  e \in Entries(fs, p)
    <2>1. Append(p, e) \in Under(fs, p) /\ Len(Append(p, e)) = Len(p) + 1 /\ Last(Append(p, e)) = e
      BY <1>2, EntryPath DEF Under
    <2> QED BY <2>1 DEF Entries
  <1>3. ASSUME NEW e \in Entries(fs, p)
        PROVE  e \in Names /\ Append(p, e) \in DOMAIN fs
    <2>1. PICK q \in Under(fs, p) : Len(q) = Len(p) + 1 /\ e = Last(q)
      BY DEF Entries
    <2>2. q \in DOMAIN fs
      BY DEF Under
    <2> QED BY <1>1, <2>1, <2>2
  <1> QED BY <1>2, <1>3

\* Where the call's own entries go, and those of the directory at depth i on the way to p.
Base(S, c) == IF c.op = "move" THEN c.dst ELSE Follow(S, c.dst)
Going(S, c, p, i, x) == IF i <= Len(c.src) THEN Base(S, c) ELSE Follow(S, Append(x, p[i]))

\* The call is about paths.
LEMMA CallPaths ==
    ASSUME NEW S \in Trees, NEW c \in Calls
    PROVE  c.src \in TreePaths /\ c.dst \in TreePaths /\ Base(S, c) \in TreePaths
  <1>1. c.src \in TreePaths /\ c.dst \in TreePaths
    BY CallsApart, StringPaths
  <1> QED BY <1>1, FollowPath DEF Base

\* The recursive function is there and is what its definition says.
LEMMA InsideToDef ==
    ASSUME NEW S \in Trees, NEW c \in Calls, NEW p \in TreePaths
    PROVE  /\ InsideTo(S, c, p)[0] = Base(S, c)
           /\ \A i \in 1..Len(p) :
                InsideTo(S, c, p)[i] = Going(S, c, p, i, InsideTo(S, c, p)[i - 1])
           /\ \A i \in 0..Len(p) : InsideTo(S, c, p)[i] \in TreePaths
  <1> DEFINE n == Len(p)
             F == [i \in 1..n |-> [x \in TreePaths |-> Going(S, c, p, i, x)]]
             Body(h) == [i \in 0..n |-> IF i <= Len(c.src) THEN Base(S, c)
                                        ELSE Follow(S, Append(h[i - 1], p[i]))]
             base == Base(S, c)
             J == InsideTo(S, c, p)
  <1>1. n \in Nat /\ Len(c.src) \in Nat /\ base \in TreePaths
    BY CallPaths, PrefixIs
  <1>2. ASSUME NEW i \in 1..n, NEW x \in TreePaths
        PROVE  Going(S, c, p, i, x) \in TreePaths
    <2>1. p[i] \in Names
      BY DEF TreePaths
    <2>2. Append(x, p[i]) \in TreePaths
      BY <2>1, AppendIs
    <2> QED BY <1>1, <2>2, FollowPath DEF Going
  <1> HIDE DEF n
  <1>3. F \in [1..n -> [TreePaths -> TreePaths]]
    BY <1>2
  <1>4. PICK f : f \in [0..n -> TreePaths] /\ f[0] = base /\ \A i \in 1..n : f[i] = F[i][f[i - 1]]
    <2>1. StepsOn(F, n, TreePaths)
      BY <1>3 DEF StepsOn
    <2> HIDE DEF F, base
    <2>2. \E f : IsFold(f, F, n, TreePaths, base)
      BY <1>1, <2>1, FoldExists
    <2> QED BY <2>2 DEF IsFold
  <1>5. \A i \in 1..n : f[i] = Going(S, c, p, i, f[i - 1])
    <2>1. \A i \in 1..n : i - 1 \in 0..n
      BY <1>1
    <2> QED BY <1>4, <2>1
  <1>6. f = Body(f)
    <2>1. f = [i \in 0..n |-> f[i]]
      BY <1>4
    <2>2. \A i \in 0..n : f[i] = IF i <= Len(c.src) THEN Base(S, c) ELSE Follow(S, Append(f[i - 1], p[i]))
      <3>1. ASSUME NEW i \in 0..n
            PROVE  f[i] = IF i <= Len(c.src) THEN Base(S, c) ELSE Follow(S, Append(f[i - 1], p[i]))
        <4>1. CASE i = 0
          BY <1>1, <1>4, <4>1
        <4>2. CASE i # 0
          <5>1. i \in 1..n
            BY <1>1, <4>2
          <5> QED BY <1>5, <5>1 DEF Going
        <4> QED BY <4>1, <4>2
      <3> QED BY <3>1
    <2> QED BY <2>1, <2>2
  <1>7. J = Body(J)
    <2>1. J = CHOOSE h : h = Body(h)
      BY DEF InsideTo, Base, n
    <2> HIDE DEF Body, J
    <2>2. (CHOOSE h : h = Body(h)) = Body(CHOOSE h : h = Body(h))
      BY <1>6, Zenon
    <2> QED BY <2>1, <2>2, Zenon
  <1> HIDE DEF J
  <1>8. J[0] = base /\ \A i \in 1..n : J[i] = Going(S, c, p, i, J[i - 1])
    BY <1>1, <1>7 DEF Going
  <1>9. \A i \in 0..n : J[i] \in TreePaths
    <2>1. \A i \in 1..n : J[i - 1] \in TreePaths => J[i] \in TreePaths
      BY <1>2, <1>8
    <2>2. J[0] \in TreePaths
      BY <1>1, <1>8
    <2> QED BY <1>1, <2>1, <2>2, FoldKeeps
  <1> QED BY <1>8, <1>9 DEF J, n

\* The source's entries go to the call's destination, and each directory's to where a link
\* in its place leads.
LEMMA InsideStep ==
    ASSUME NEW S \in Trees, NEW c \in Calls, NEW p \in TreePaths, IsPrefix(c.src, p), NEW e \in Names
    PROVE  Inside(S, c, Append(p, e)) = Follow(S, Append(Inside(S, c, p), e))
  <1> DEFINE a == Append(p, e)
             n == Len(p)
             X == InsideTo(S, c, a)
             Y == InsideTo(S, c, p)
  <1>1. /\ a \in TreePaths /\ Len(a) = n + 1 /\ n \in Nat /\ a[n + 1] = e
        /\ \A i \in 1..n : a[i] = p[i]
    BY AppendIs
  <1>2. Len(c.src) \in Nat /\ Len(c.src) <= n
    BY CallPaths, PrefixIs, PrefixOrder
  <1> HIDE DEF a
  <1>3. X[0] = Base(S, c) /\ \A i \in 1..(n + 1) : X[i] = Going(S, c, a, i, X[i - 1])
    BY <1>1, InsideToDef
  <1>4. Y[0] = Base(S, c) /\ \A i \in 1..n : Y[i] = Going(S, c, p, i, Y[i - 1])
    BY <1>1, InsideToDef
  <1> HIDE DEF n, X, Y
  <1> DEFINE T == {i \in 0..n : X[i] = Y[i]}
  <1>5. 0 \in T
    BY <1>1, <1>3, <1>4
  <1>6. ASSUME NEW i \in T, i \in 0..n /\ i < n
        PROVE  i + 1 \in T
    <2>1. i + 1 \in 1..n /\ i + 1 \in 1..(n + 1) /\ (i + 1) - 1 = i /\ i + 1 \in 0..n
      BY <1>1, <1>6
    <2>2. X[i + 1] = Going(S, c, a, i + 1, X[i])
      BY <1>3, <2>1
    <2>3. Y[i + 1] = Going(S, c, p, i + 1, Y[i])
      BY <1>4, <2>1
    <2>4. a[i + 1] = p[i + 1] /\ X[i] = Y[i]
      BY <1>1, <2>1
    <2>5. X[i + 1] = Y[i + 1]
      BY <2>2, <2>3, <2>4 DEF Going
    <2> QED BY <2>1, <2>5
  <1>7. n \in T
    <2>1. \A i \in T : i \in 0..n /\ i < n => i + 1 \in T
      BY <1>6
    <2> HIDE DEF T
    <2>2. 0..n \subseteq T
      BY <1>1, <1>5, <2>1, Numbers
    <2> QED BY <1>1, <2>2
  <1>8. X[n + 1] = Follow(S, Append(Y[n], e))
    <2>1. n + 1 \in 1..(n + 1) /\ (n + 1) - 1 = n /\ ~(n + 1 <= Len(c.src))
      BY <1>1, <1>2
    <2>2. X[n + 1] = Going(S, c, a, n + 1, X[n])
      BY <1>3, <2>1
    <2> QED BY <1>1, <1>7, <2>1, <2>2 DEF Going
  <1> QED BY <1>1, <1>8 DEF Inside, X, Y, n, a

\* A part of the source has its place in the place of the directory around it.
LEMMA InsidePlaces ==
    ASSUME NEW S \in Trees, NEW c \in Calls
    PROVE  /\ Inside(S, c, c.src) = Base(S, c)
           /\ \A p \in TreePaths : Inside(S, c, p) \in TreePaths
           /\ Renaming(S, c, c.src) = c.dst
           /\ \A p \in TreePaths, e \in Names : IsPrefix(c.src, p) =>
                /\ Renaming(S, c, Append(p, e)) = Append(Inside(S, c, p), e)
                /\ Inside(S, c, Append(p, e)) = Follow(S, Renaming(S, c, Append(p, e)))
  <1>1. c.src \in TreePaths /\ Len(c.src) \in Nat
    BY CallPaths, PrefixIs
  <1>2. Inside(S, c, c.src) = Base(S, c)
    <2>1. CASE Len(c.src) = 0
      BY <1>1, <2>1, InsideToDef DEF Inside
    <2>2. CASE Len(c.src) # 0
      <3>1. Len(c.src) \in 1..Len(c.src)
        BY <1>1, <2>2
      <3>2. InsideTo(S, c, c.src)[Len(c.src)]
              = Going(S, c, c.src, Len(c.src), InsideTo(S, c, c.src)[Len(c.src) - 1])
        BY <1>1, <3>1, InsideToDef
      <3> QED BY <1>1, <3>2 DEF Inside, Going
    <2> QED BY <2>1, <2>2
  <1>3. ASSUME NEW p \in TreePaths
        PROVE  Inside(S, c, p) \in TreePaths
    <2>1. Len(p) \in 0..Len(p)
      BY PrefixIs
    <2> QED BY <2>1, InsideToDef DEF Inside
  <1>4. ASSUME NEW p \in TreePaths, NEW e \in Names, IsPrefix(c.src, p)
        PROVE  /\ Renaming(S, c, Append(p, e)) = Append(Inside(S, c, p), e)
               /\ Inside(S, c, Append(p, e)) = Follow(S, Renaming(S, c, Append(p, e)))
    <2>1. /\ Append(p, e) \in TreePaths /\ Len(Append(p, e)) = Len(p) + 1 /\ Len(p) \in Nat
          /\ Front(Append(p, e)) = p /\ Last(Append(p, e)) = e
      BY EntryPath, AppendIs
    <2>2. Len(c.src) <= Len(p)
      BY <1>1, <1>4, PrefixOrder
    <2>3. Append(p, e) # c.src
      BY <2>1, <2>2
    <2>4. Renaming(S, c, Append(p, e)) = Append(Inside(S, c, p), e)
      BY <2>1, <2>3 DEF Renaming
    <2> QED BY <1>4, <2>4, InsideStep
  <1>5. Renaming(S, c, c.src) = c.dst
    BY DEF Renaming
  <1>6. \A p \in TreePaths, e \in Names : IsPrefix(c.src, p) =>
          /\ Renaming(S, c, Append(p, e)) = Append(Inside(S, c, p), e)
          /\ Inside(S, c, Append(p, e)) = Follow(S, Renaming(S, c, Append(p, e)))
    BY <1>4
  <1> QED BY <1>2, <1>3, <1>5, <1>6

\* What lies in the source is the source or an entry of a directory in it.
LEMMA SourceEntry ==
    ASSUME NEW S \in Trees, NEW c \in Calls, NEW p \in Under(S, c.src)
    PROVE  /\ p \in TreePaths /\ p \in DOMAIN S /\ IsPrefix(c.src, p)
           /\ p # c.src => \E d \in Under(S, c.src), e \in Names : p = Append(d, e) /\ S[d].kind = "dir"
  <1>1. p \in TreePaths /\ p \in DOMAIN S /\ IsPrefix(c.src, p) /\ c.src \in TreePaths
    BY CallPaths, TreeShape DEF Under
  <1>2. ASSUME p # c.src
        PROVE  \E d \in Under(S, c.src), e \in Names : p = Append(d, e) /\ S[d].kind = "dir"
    <2>1. Len(p) \in Nat /\ Len(c.src) \in Nat /\ Len(c.src) < Len(p)
      <3>1. ~(Len(p) <= Len(c.src))
        BY <1>1, <1>2, PrefixOrder
      <3> QED BY <1>1, <3>1, PrefixIs
    <2> DEFINE d == SubSeq(p, 1, Len(p) - 1)
               e == p[Len(p)]
    <2>2. /\ d \in TreePaths /\ Len(d) = Len(p) - 1 /\ e \in Names
          /\ \A i \in 1..(Len(p) - 1) : d[i] = p[i]
      <3>1. p \in Seq(Names) /\ Len(p) \in 1..Len(p) /\ Len(p) - 1 \in 0..Len(p)
        BY <1>1, <2>1 DEF TreePaths
      <3>2. d \in Seq(Names)
        BY <2>1, <3>1
      <3>3. Len(d) = Len(p) - 1
        <4> DEFINE m == Len(p) - 1
        <4>1. m \in Int /\ 1 \in Int /\ (\A i \in 1..m : p[i] \in Names) /\ m \in Nat
          BY <2>1, <3>1
        <4> HIDE DEF m
        <4>2. Len(SubSeq(p, 1, m)) = IF 1 <= m THEN m - 1 + 1 ELSE 0
          BY <4>1, SubSeqProperties
        <4>3. Len(SubSeq(p, 1, m)) = m
          BY <4>1, <4>2
        <4> QED BY <4>3 DEF m
      <3>4. \A i \in 1..(Len(p) - 1) : d[i] = p[i]
        BY <2>1, <3>1
      <3>5. e \in Names
        BY <3>1
      <3> QED BY <3>2, <3>3, <3>4, <3>5 DEF TreePaths
    <2> HIDE DEF d, e
    <2>3. p = Append(d, e)
      <3>1. /\ Append(d, e) \in TreePaths /\ Len(Append(d, e)) = Len(p)
            /\ Append(d, e)[Len(p)] = e /\ \A i \in 1..(Len(p) - 1) : Append(d, e)[i] = d[i]
        BY <2>1, <2>2, AppendIs
      <3>2. \A i \in 1..Len(p) : Append(d, e)[i] = p[i]
        <4>1. \A i \in 1..Len(p) : i \in 1..(Len(p) - 1) \/ i = Len(p)
          BY <2>1
        <4> QED BY <2>2, <3>1, <4>1 DEF e
      <3> QED BY <1>1, <3>1, <3>2, SeqEqual DEF TreePaths
    <2>4. IsPrefix(c.src, d)
      BY <1>1, <1>2, <2>2, <2>3, EntryPath
    <2>5. IsPrefix(d, p) /\ d # p
      BY <2>2, <2>3, EntryPath
    <2>6. d \in DOMAIN S /\ S[d].kind = "dir"
      BY <1>1, <2>2, <2>5, TreeShape
    <2> QED BY <2>2, <2>3, <2>4, <2>6 DEF Under
  <1> QED BY <1>1, <1>2

\* The places of the parts of the source are paths, outside the source and apart.
LEMMA PlacesApart ==
    ASSUME NEW S \in Trees, NEW c \in Calls, c.op \in {"copy", "move", "link"}, Has(S, c.src)
    PROVE  /\ \A p \in Under(S, c.src) : \A x \in Places(S, c, p) : x \in TreePaths /\ ~IsPrefix(c.src, x)
           /\ \A p, q \in Under(S, c.src) : \A x \in Places(S, c, p) : x \in Places(S, c, q) => p = q
  <1>1. ASSUME NEW p \in Under(S, c.src), NEW x \in Places(S, c, p)
        PROVE  x \in TreePaths
    <2>1. Renaming(S, c, p) \in TreePaths
      <3>1. CASE p = c.src
        BY <3>1, InsidePlaces, CallPaths
      <3>2. CASE p # c.src
        <4>1. PICK d \in Under(S, c.src), e \in Names : p = Append(d, e)
          BY <3>2, SourceEntry
        <4>2. d \in TreePaths /\ IsPrefix(c.src, d)
          BY SourceEntry
        <4>3. Renaming(S, c, p) = Append(Inside(S, c, d), e) /\ Inside(S, c, d) \in TreePaths
          BY <4>1, <4>2, InsidePlaces
        <4> QED BY <4>3, AppendIs
      <3> QED BY <3>1, <3>2
    <2>2. Inside(S, c, p) \in TreePaths
      BY SourceEntry, InsidePlaces
    <2> QED BY <2>1, <2>2 DEF Places, Landing
  <1>2. \A p \in Under(S, c.src) :
          /\ \A x \in Places(S, c, p) : ~IsPrefix(c.src, x)
          /\ \A q \in Under(S, c.src) \ {p} : Places(S, c, p) \cap Places(S, c, q) = {}
    BY CallsApart
  <1>3. ASSUME NEW p \in Under(S, c.src), NEW q \in Under(S, c.src), NEW x \in Places(S, c, p),
               x \in Places(S, c, q)
        PROVE  p = q
    BY <1>2, <1>3
  <1> QED BY <1>1, <1>2, <1>3

-----------------------------------------------------------------------------
(* Walks *)

\* A directory of the walk.
Frames == [src : TreePaths, dst : TreePaths, left : SUBSET Names]

\* The walk has yet to come to x, or is in it.
Ahead(w, x) == \E i \in 1..Len(w) : \E e \in w[i].left : IsPrefix(Append(w[i].src, e), x)
InWalk(w, x) == \E i \in 1..Len(w) : x = w[i].src

\* The walk goes down from the source, directory in directory, and what it has yet to come
\* to at one of them is not around another.
WalkDown(S, c, w) ==
    /\ w \in Seq(Frames)
    /\ w # <<>> => w[1].src = c.src
    /\ \A i \in 1..Len(w) :
         /\ w[i].src \in Under(S, c.src) /\ S[w[i].src].kind = "dir"
         /\ w[i].dst = Inside(S, c, w[i].src)
         /\ \A e \in w[i].left : Append(w[i].src, e) \in DOMAIN S
    /\ \A i, j \in 1..Len(w) : i < j =>
         /\ Len(w[i].src) < Len(w[j].src)
         /\ \A e \in w[i].left : ~IsPrefix(Append(w[i].src, e), w[j].src)

\* The entry e is done with; all that is left is given up.
RestOf(w, e) == [w EXCEPT ![Len(w)].left = @ \ {e}]
CutOff(w) == [w EXCEPT ![Len(w)].left = {}]

\* The path of an entry ahead in the innermost directory.
IsEntry(w, e, p) == e \in Last(w).left /\ p = Append(Last(w).src, e)

\* The innermost directory.
LEMMA WalkTop ==
    ASSUME NEW S \in Trees, NEW c \in Calls, NEW w, WalkDown(S, c, w), w # <<>>
    PROVE  /\ Len(w) \in Nat /\ Len(w) \in 1..Len(w) /\ 1 \in 1..Len(w) /\ Last(w) = w[Len(w)]
           /\ Last(w) \in Frames
           /\ Last(w).src \in Under(S, c.src) /\ S[Last(w).src].kind = "dir"
           /\ Last(w).dst = Inside(S, c, Last(w).src)
           /\ InWalk(w, Last(w).src)
  <1>1. w \in Seq(Frames)
    BY DEF WalkDown
  <1>2. Len(w) \in Nat /\ Len(w) \in 1..Len(w) /\ 1 \in 1..Len(w)
    BY <1>1
  <1>3. Last(w) = w[Len(w)]
    BY DEF Last
  <1>4. Last(w) \in Frames
    BY <1>1, <1>2, <1>3
  <1> QED BY <1>2, <1>3, <1>4 DEF WalkDown, InWalk

\* What the frames of a walk are.
LEMMA WalkFrames ==
    ASSUME NEW S \in Trees, NEW c \in Calls, NEW w, WalkDown(S, c, w)
    PROVE  /\ Len(w) \in Nat
           /\ \A i \in 1..Len(w) : /\ w[i] \in Frames /\ w[i].src \in TreePaths
                                   /\ w[i].left \subseteq Names /\ Len(w[i].src) \in Nat
           /\ \A i \in 1..Len(w) : \A e \in w[i].left :
                /\ Append(w[i].src, e) \in TreePaths
                /\ Len(Append(w[i].src, e)) = Len(w[i].src) + 1
  <1>1. w \in Seq(Frames) /\ Len(w) \in Nat
    BY DEF WalkDown
  <1>2. \A i \in 1..Len(w) : w[i] \in Frames
    BY <1>1
  <1>3. \A i \in 1..Len(w) : w[i].src \in TreePaths /\ w[i].left \subseteq Names
    BY <1>2 DEF Frames
  <1>4. \A i \in 1..Len(w) : Len(w[i].src) \in Nat
    BY <1>3, PrefixIs
  <1>5. ASSUME NEW i \in 1..Len(w), NEW e \in w[i].left
        PROVE  /\ Append(w[i].src, e) \in TreePaths
               /\ Len(Append(w[i].src, e)) = Len(w[i].src) + 1
    <2>1. w[i].src \in TreePaths /\ e \in Names
      BY <1>3
    <2> QED BY <2>1, AppendIs
  <1> QED BY <1>1, <1>2, <1>3, <1>4, <1>5

\* What the walk is in is not ahead of it.
LEMMA InOrAhead ==
    ASSUME NEW S \in Trees, NEW c \in Calls, NEW w, WalkDown(S, c, w), NEW x, InWalk(w, x)
    PROVE  x \in TreePaths /\ x \in Under(S, c.src) /\ S[x].kind = "dir" /\ ~Ahead(w, x)
  <1>1. PICK j \in 1..Len(w) : x = w[j].src
    BY DEF InWalk
  <1>2. x \in TreePaths /\ x \in Under(S, c.src) /\ S[x].kind = "dir"
    BY <1>1, WalkFrames DEF WalkDown
  <1>3. ASSUME NEW i \in 1..Len(w), NEW e \in w[i].left, IsPrefix(Append(w[i].src, e), x)
        PROVE  FALSE
    <2>1. /\ Append(w[i].src, e) \in TreePaths /\ Len(w[i].src) \in Nat
          /\ Len(Append(w[i].src, e)) = Len(w[i].src) + 1 /\ i \in Nat /\ j \in Nat
      BY WalkFrames
    <2>2. Len(w[i].src) + 1 <= Len(w[j].src) /\ Len(w[j].src) \in Nat
      <3>1. \A a, b \in TreePaths : IsPrefix(a, b) => Len(a) <= Len(b)
        BY PrefixOrder
      <3>2. Len(Append(w[i].src, e)) <= Len(x)
        BY <1>2, <1>3, <2>1, <3>1
      <3> QED BY <1>1, <2>1, <3>2, WalkFrames
    <2>3. i < j
      <3>1. CASE j < i
        <4>1. Len(w[j].src) < Len(w[i].src)
          BY <3>1 DEF WalkDown
        <4> QED BY <2>1, <2>2, <4>1
      <3>2. CASE j = i
        BY <2>1, <2>2, <3>2
      <3> QED BY <2>1, <3>1, <3>2
    <2> QED BY <1>1, <1>3, <2>3 DEF WalkDown
  <1> QED BY <1>2, <1>3 DEF Ahead

\* An entry ahead of the walk in its innermost directory, and where it goes.
LEMMA EntryAhead ==
    ASSUME NEW S \in Trees, NEW c \in Calls, NEW w, WalkDown(S, c, w), w # <<>>,
           NEW e, NEW p, IsEntry(w, e, p)
    PROVE  /\ e \in Names /\ p \in Under(S, c.src) /\ p \in DOMAIN S /\ p \in TreePaths
           /\ p # c.src /\ ~InWalk(w, p)
           /\ Renaming(S, c, p) = Append(Last(w).dst, e)
           /\ Inside(S, c, p) = Follow(S, Append(Last(w).dst, e))
           /\ \A x : IsPrefix(p, x) => Ahead(w, x)
           /\ Ahead(w, p)
  <1> USE DEF IsEntry
  <1>1. /\ Len(w) \in 1..Len(w) /\ Last(w) = w[Len(w)] /\ Last(w).src \in Under(S, c.src)
        /\ Last(w).dst = Inside(S, c, Last(w).src)
    BY WalkTop
  <1>2. e \in Names /\ Last(w).src \in TreePaths
    BY <1>1, WalkFrames
  <1>3. p \in TreePaths /\ IsPrefix(Last(w).src, p) /\ IsPrefix(p, p)
    BY <1>2, EntryPath, PrefixOrder
  <1>4. p \in DOMAIN S
    BY <1>1 DEF WalkDown
  <1>5. c.src \in TreePaths /\ IsPrefix(c.src, Last(w).src)
    BY <1>1, CallPaths, SourceEntry
  <1>6. p \in Under(S, c.src)
    BY <1>2, <1>3, <1>4, <1>5, PrefixOrder DEF Under
  <1>7. \A x : IsPrefix(p, x) => Ahead(w, x)
    BY <1>1 DEF Ahead
  <1>8. Ahead(w, p)
    BY <1>3, <1>7
  <1>9. ~InWalk(w, p)
    BY <1>8, InOrAhead
  <1>10. InWalk(w, c.src)
    BY WalkTop DEF WalkDown, InWalk
  <1>11. p # c.src
    BY <1>9, <1>10
  <1>12. Renaming(S, c, p) = Append(Last(w).dst, e) /\ Inside(S, c, p) = Follow(S, Append(Last(w).dst, e))
    <2> DEFINE d == Last(w).src
    <2>1. d \in TreePaths /\ IsPrefix(c.src, d) /\ p = Append(d, e) /\ Last(w).dst = Inside(S, c, d)
      BY <1>1, <1>2, <1>5
    <2> HIDE DEF d
    <2>2. Renaming(S, c, Append(d, e)) = Append(Inside(S, c, d), e)
      BY <1>2, <2>1, InsidePlaces
    <2>3. Inside(S, c, Append(d, e)) = Follow(S, Renaming(S, c, Append(d, e)))
      BY <1>2, <2>1, InsidePlaces
    <2> QED BY <2>1, <2>2, <2>3
  <1> QED BY <1>2, <1>3, <1>4, <1>6, <1>7, <1>8, <1>9, <1>11, <1>12

\* The entry has been dealt with.
LEMMA WalkRest ==
    ASSUME NEW S \in Trees, NEW c \in Calls, NEW w, WalkDown(S, c, w), w # <<>>,
           NEW e, NEW p, IsEntry(w, e, p)
    PROVE  /\ WalkDown(S, c, RestOf(w, e)) /\ RestOf(w, e) # <<>> /\ Len(RestOf(w, e)) = Len(w)
           /\ \A x \in TreePaths : Ahead(RestOf(w, e), x) <=> Ahead(w, x) /\ ~IsPrefix(p, x)
           /\ \A x : InWalk(RestOf(w, e), x) <=> InWalk(w, x)
  <1> USE DEF IsEntry
  <1> DEFINE n == Len(w)
             r == RestOf(w, e)
  <1>1. n \in Nat /\ n \in 1..n /\ 1 \in 1..n /\ Last(w) = w[n] /\ w[n] \in Frames /\ w \in Seq(Frames)
    BY WalkTop DEF WalkDown
  <1>2. [w[n] EXCEPT !.left = @ \ {e}] \in Frames
    BY <1>1 DEF Frames
  <1>3. r = [w EXCEPT ![n] = [w[n] EXCEPT !.left = @ \ {e}]]
    BY DEF RestOf
  <1> HIDE DEF r, n
  <1>4. /\ r \in Seq(Frames) /\ Len(r) = n
        /\ \A i \in 1..n : r[i] = IF i = n THEN [w[n] EXCEPT !.left = @ \ {e}] ELSE w[i]
    <2>1. \A g \in Frames :
             /\ [w EXCEPT ![n] = g] \in Seq(Frames) /\ Len([w EXCEPT ![n] = g]) = n
             /\ \A i \in 1..n : [w EXCEPT ![n] = g][i] = IF i = n THEN g ELSE w[i]
      BY <1>1, ExceptSeq DEF n
    <2> QED BY <1>2, <1>3, <2>1
  <1>5. \A i \in 1..n :
          /\ r[i].src = w[i].src /\ r[i].dst = w[i].dst
          /\ \A f : f \in r[i].left <=> f \in w[i].left /\ (i = n => f # e)
    <2>1. ASSUME NEW i \in 1..n
          PROVE  /\ r[i].src = w[i].src /\ r[i].dst = w[i].dst
                 /\ \A f : f \in r[i].left <=> f \in w[i].left /\ (i = n => f # e)
      <3>1. CASE i = n
        BY <1>1, <1>4, <3>1 DEF Frames
      <3>2. CASE i # n
        BY <1>4, <3>2
      <3> QED BY <3>1, <3>2
    <2> QED BY <2>1
  <1>6. /\ \A i \in 1..n : w[i].src \in TreePaths /\ w[i].left \subseteq Names /\ Len(w[i].src) \in Nat
        /\ \A i \in 1..n : \A f \in w[i].left : Append(w[i].src, f) \in TreePaths
                                                /\ Len(Append(w[i].src, f)) = Len(w[i].src) + 1
    BY WalkFrames DEF n
  <1>7. WalkDown(S, c, r)
    BY <1>1, <1>4, <1>5 DEF WalkDown, n
  <1>8. ASSUME NEW x \in TreePaths, Ahead(r, x)
        PROVE  Ahead(w, x) /\ ~IsPrefix(p, x)
    <2>1. PICK i \in 1..n : \E f \in r[i].left : IsPrefix(Append(r[i].src, f), x)
      BY <1>4, <1>8 DEF Ahead
    <2>2. PICK f \in w[i].left : IsPrefix(Append(w[i].src, f), x) /\ (i = n => f # e)
      BY <1>5, <2>1
    <2>3. Ahead(w, x)
      BY <2>2 DEF Ahead, n
    <2>4. ASSUME IsPrefix(p, x)
          PROVE  FALSE
      <3>1. /\ p \in TreePaths /\ Len(p) = Len(w[n].src) + 1 /\ Len(w[n].src) \in Nat
            /\ Append(w[i].src, f) \in TreePaths /\ Len(Append(w[i].src, f)) = Len(w[i].src) + 1
            /\ Len(w[i].src) \in Nat /\ w[n].src \in TreePaths /\ e \in Names /\ f \in Names
        BY <1>1, <1>6, <2>2
      <3> DEFINE q == Append(w[i].src, f)
      <3>4. q \in TreePaths /\ Len(q) = Len(w[i].src) + 1 /\ IsPrefix(q, x)
        BY <2>2, <3>1
      <3> HIDE DEF q
      <3>2. CASE i = n
        <4>1. Len(q) <= Len(p) /\ Len(p) <= Len(q)
          BY <3>1, <3>2, <3>4
        <4>2. q = p
          <5>1. IsPrefix(q, p)
            BY <2>4, <3>1, <3>4, <4>1, PrefixChain
          <5> QED BY <3>1, <3>4, <4>1, <5>1, PrefixOrder
        <4>3. f = e
          <5>1. Append(w[n].src, e) = Append(w[n].src, f)
            BY <1>1, <3>2, <4>2 DEF q
          <5> QED BY <3>1, <5>1, EntryPath, SMTT(30)
        <4> QED BY <2>2, <3>2, <4>3
      <3>3. CASE i # n
        <4>1. i < n
          BY <1>1, <3>3
        <4>2. Len(w[i].src) < Len(w[n].src) /\ ~IsPrefix(Append(w[i].src, f), w[n].src)
          BY <1>1, <2>2, <4>1 DEF WalkDown, n
        <4>3. IsPrefix(w[n].src, p)
          BY <1>1, <3>1, EntryPath
        <4>4. IsPrefix(w[n].src, x)
          BY <2>4, <3>1, <4>3, PrefixOrder
        <4>5. IsPrefix(Append(w[i].src, f), w[n].src)
          <5>1. Len(q) <= Len(w[n].src)
            BY <3>1, <3>4, <4>2
          <5>2. IsPrefix(q, w[n].src)
            BY <3>1, <3>4, <4>4, <5>1, PrefixChain
          <5> QED BY <5>2 DEF q
        <4> QED BY <4>2, <4>5
      <3> QED BY <3>2, <3>3
    <2> QED BY <2>3, <2>4
  <1>9. ASSUME NEW x \in TreePaths, Ahead(w, x), ~IsPrefix(p, x)
        PROVE  Ahead(r, x)
    <2>1. PICK i \in 1..n : \E f \in w[i].left : IsPrefix(Append(w[i].src, f), x)
      BY <1>9 DEF Ahead, n
    <2>2. PICK f \in w[i].left : IsPrefix(Append(w[i].src, f), x)
      BY <2>1
    <2>3. i = n => f # e
      BY <1>1, <1>9, <2>2
    <2>4. f \in r[i].left /\ IsPrefix(Append(r[i].src, f), x)
      BY <1>5, <2>2, <2>3
    <2> QED BY <1>4, <2>4 DEF Ahead
  <1>10. \A x : InWalk(r, x) <=> InWalk(w, x)
    BY <1>4, <1>5 DEF InWalk, n
  <1>11. r # <<>> /\ Len(r) = Len(w)
    BY <1>1, <1>4 DEF n
  <1> QED BY <1>7, <1>8, <1>9, <1>10, <1>11 DEF r

\* One directory more.
LEMMA WalkLonger ==
    ASSUME NEW S \in Trees, NEW c \in Calls, NEW w, WalkDown(S, c, w), NEW f \in Frames,
           f.src \in Under(S, c.src), S[f.src].kind = "dir", f.dst = Inside(S, c, f.src),
           \A e \in f.left : Append(f.src, e) \in DOMAIN S,
           w = <<>> => f.src = c.src,
           \A i \in 1..Len(w) : Len(w[i].src) < Len(f.src),
           ~Ahead(w, f.src)
    PROVE  /\ WalkDown(S, c, Append(w, f)) /\ Append(w, f) # <<>>
           /\ \A x : Ahead(Append(w, f), x) <=>
                       Ahead(w, x) \/ \E e \in f.left : IsPrefix(Append(f.src, e), x)
           /\ \A x : InWalk(Append(w, f), x) <=> InWalk(w, x) \/ x = f.src
  <1> DEFINE n == Len(w)
             r == Append(w, f)
  <1>1. w \in Seq(Frames) /\ n \in Nat
    BY DEF WalkDown
  <1>2. /\ r \in Seq(Frames) /\ Len(r) = n + 1 /\ r[n + 1] = f /\ r # <<>>
    BY <1>1, AppendProperties
  <1>3. \A i \in 1..n : r[i] = w[i]
    BY <1>1, AppendProperties
  <1> HIDE DEF r
  <1>4. \A i \in 1..(n + 1) : i \in 1..n \/ i = n + 1
    BY <1>1
  <1>5. 1..n \subseteq 1..(n + 1) /\ n + 1 \in 1..(n + 1) /\ n + 1 \notin 1..n
    BY <1>1
  <1>6. r[1].src = c.src
    <2>1. CASE w = <<>>
      BY <1>2, <2>1
    <2>2. CASE w # <<>>
      <3>1. 1 \in 1..n
        BY <1>1, <2>2
      <3> QED BY <1>3, <2>2, <3>1 DEF WalkDown
    <2> QED BY <2>1, <2>2
  <1>7. ASSUME NEW i \in 1..(n + 1)
        PROVE  /\ r[i].src \in Under(S, c.src) /\ S[r[i].src].kind = "dir"
               /\ r[i].dst = Inside(S, c, r[i].src)
               /\ \A e \in r[i].left : Append(r[i].src, e) \in DOMAIN S
    <2>1. CASE i \in 1..n
      BY <1>3, <2>1 DEF WalkDown
    <2>2. CASE i = n + 1
      BY <1>2, <2>2
    <2> QED BY <1>4, <2>1, <2>2
  <1>8. ASSUME NEW i \in 1..(n + 1), NEW j \in 1..(n + 1), i < j
        PROVE  /\ Len(r[i].src) < Len(r[j].src)
               /\ \A e \in r[i].left : ~IsPrefix(Append(r[i].src, e), r[j].src)
    <2>1. i \in 1..n
      BY <1>1, <1>8
    <2>2. CASE j \in 1..n
      BY <1>3, <1>8, <2>1, <2>2 DEF WalkDown
    <2>3. CASE j = n + 1
      BY <1>2, <1>3, <2>1, <2>3 DEF Ahead
    <2> QED BY <1>4, <2>2, <2>3
  <1>9. WalkDown(S, c, r)
    BY <1>2, <1>6, <1>7, <1>8 DEF WalkDown
  <1>10. ASSUME NEW x
         PROVE  Ahead(r, x) <=> Ahead(w, x) \/ \E e \in f.left : IsPrefix(Append(f.src, e), x)
    <2>1. ASSUME Ahead(r, x) PROVE Ahead(w, x) \/ \E e \in f.left : IsPrefix(Append(f.src, e), x)
      BY <1>2, <1>3, <1>4, <2>1 DEF Ahead
    <2>2. ASSUME Ahead(w, x) PROVE Ahead(r, x)
      BY <1>2, <1>3, <1>5, <2>2 DEF Ahead
    <2>3. ASSUME \E e \in f.left : IsPrefix(Append(f.src, e), x) PROVE Ahead(r, x)
      BY <1>2, <1>5, <2>3 DEF Ahead
    <2> QED BY <2>1, <2>2, <2>3
  <1>11. ASSUME NEW x
         PROVE  InWalk(r, x) <=> InWalk(w, x) \/ x = f.src
    BY <1>2, <1>3, <1>4, <1>5 DEF InWalk
  <1> QED BY <1>2, <1>9, <1>10, <1>11 DEF r

\* The entries of a directory of the source as the walk reads them.
ReadsAll(S, p, L) == L \subseteq Names /\ \A e \in Names : e \in L <=> Append(p, e) \in DOMAIN S

\* What lies in a directory lies in one of its entries.
LEMMA EntriesCover ==
    ASSUME NEW S \in Trees, NEW p \in TreePaths, NEW L, ReadsAll(S, p, L), NEW x \in DOMAIN S
    PROVE  (\E e \in L : IsPrefix(Append(p, e), x)) <=> IsPrefix(p, x) /\ x # p
  <1>1. x \in TreePaths
    BY TreeShape
  <1>2. ASSUME NEW e \in L, IsPrefix(Append(p, e), x)
        PROVE  IsPrefix(p, x) /\ x # p
    <2>1. e \in Names
      BY DEF ReadsAll
    <2>2. /\ Append(p, e) \in TreePaths /\ Len(Append(p, e)) = Len(p) + 1 /\ Len(p) \in Nat
          /\ IsPrefix(p, Append(p, e))
      BY <2>1, EntryPath, AppendIs
    <2> DEFINE a == Append(p, e)
    <2>3. a \in TreePaths /\ Len(a) = Len(p) + 1 /\ IsPrefix(p, a) /\ IsPrefix(a, x)
      BY <1>2, <2>2
    <2> HIDE DEF a
    <2>4. IsPrefix(p, x) /\ Len(a) <= Len(x)
      BY <1>1, <2>3, PrefixOrder
    <2> QED BY <2>2, <2>3, <2>4
  <1>3. ASSUME IsPrefix(p, x), x # p
        PROVE  \E e \in L : IsPrefix(Append(p, e), x)
    <2> DEFINE e == x[Len(p) + 1]
    <2>1. e \in Names /\ IsPrefix(Append(p, e), x)
      BY <1>1, <1>3, NextEntry
    <2> HIDE DEF e
    <2>2. Append(p, e) \in TreePaths
      BY <2>1, AppendIs
    <2>3. Append(p, e) \in DOMAIN S
      BY <2>1, <2>2, TreeShape
    <2>4. e \in L
      BY <2>1, <2>3 DEF ReadsAll
    <2> QED BY <2>1, <2>4
  <1> QED BY <1>2, <1>3

\* The walk begins with the source.
LEMMA WalkStart ==
    ASSUME NEW S \in Trees, NEW c \in Calls, c.src \in DOMAIN S, S[c.src].kind = "dir",
           NEW L, ReadsAll(S, c.src, L),
           NEW r, r = Append(<<>>, [src |-> c.src, dst |-> Base(S, c), left |-> L])
    PROVE  /\ WalkDown(S, c, r) /\ r # <<>>
           /\ \A x \in Under(S, c.src) : Ahead(r, x) <=> x # c.src
           /\ \A x : InWalk(r, x) <=> x = c.src
  <1> DEFINE f == [src |-> c.src, dst |-> Base(S, c), left |-> L]
             w == <<>>
  <1>1. c.src \in TreePaths /\ Base(S, c) \in TreePaths /\ IsPrefix(c.src, c.src)
    BY CallPaths, PrefixOrder
  <1>2. f \in Frames
    BY <1>1 DEF Frames, ReadsAll
  <1>3. /\ f.src \in Under(S, c.src) /\ S[f.src].kind = "dir" /\ f.dst = Inside(S, c, f.src)
        /\ \A e \in f.left : Append(f.src, e) \in DOMAIN S
    BY <1>1, InsidePlaces DEF Under, ReadsAll
  <1>4. WalkDown(S, c, w) /\ ~Ahead(w, f.src) /\ (\A x : ~Ahead(w, x) /\ ~InWalk(w, x)) /\ 1..Len(w) = {}
    BY DEF WalkDown, Ahead, InWalk
  <1>5. f.src = c.src /\ f.left = L
    OBVIOUS
  <1> HIDE DEF f, w
  <1>6. /\ WalkDown(S, c, Append(w, f)) /\ Append(w, f) # <<>>
        /\ \A x : Ahead(Append(w, f), x) <=>
                    Ahead(w, x) \/ \E e \in f.left : IsPrefix(Append(f.src, e), x)
        /\ \A x : InWalk(Append(w, f), x) <=> InWalk(w, x) \/ x = f.src
    BY <1>2, <1>3, <1>4, <1>5, WalkLonger
  <1>7. r = Append(w, f)
    BY DEF f, w
  <1>8. ASSUME NEW x \in Under(S, c.src)
        PROVE  Ahead(r, x) <=> x # c.src
    <2>1. x \in DOMAIN S /\ IsPrefix(c.src, x)
      BY DEF Under
    <2>2. (\E e \in L : IsPrefix(Append(c.src, e), x)) <=> x # c.src
      BY <1>1, <2>1, EntriesCover
    <2> QED BY <1>4, <1>5, <1>6, <1>7, <2>2
  <1> QED BY <1>4, <1>5, <1>6, <1>7, <1>8

\* The walk enters an entry.
Deeper(r, w, e, p, d, L) == r = Append(RestOf(w, e), [src |-> p, dst |-> d, left |-> L])

\* Entering a directory, the walk stays a branch, and only the directory is no longer ahead.
LEMMA WalkEnter ==
    ASSUME NEW S \in Trees, NEW c \in Calls, NEW w, WalkDown(S, c, w), w # <<>>,
           NEW e, NEW p, IsEntry(w, e, p), S[p].kind = "dir",
           NEW L, ReadsAll(S, p, L),
           NEW r, Deeper(r, w, e, p, Inside(S, c, p), L)
    PROVE  /\ WalkDown(S, c, r) /\ r # <<>>
           /\ \A x \in Under(S, c.src) : Ahead(r, x) <=> Ahead(w, x) /\ x # p
           /\ \A x \in TreePaths : Ahead(r, x) => Ahead(w, x)
           /\ \A x : InWalk(r, x) <=> InWalk(w, x) \/ x = p
  <1> DEFINE f == [src |-> p, dst |-> Inside(S, c, p), left |-> L]
             v == RestOf(w, e)
  <1>1. /\ WalkDown(S, c, v) /\ v # <<>> /\ Len(v) = Len(w)
        /\ \A x \in TreePaths : Ahead(v, x) <=> Ahead(w, x) /\ ~IsPrefix(p, x)
        /\ \A x : InWalk(v, x) <=> InWalk(w, x)
    BY WalkRest
  <1>2. /\ p \in Under(S, c.src) /\ p \in TreePaths /\ e \in Names
        /\ \A x : IsPrefix(p, x) => Ahead(w, x)
    BY EntryAhead
  <1>3. Inside(S, c, p) \in TreePaths /\ IsPrefix(p, p)
    BY <1>2, InsidePlaces, PrefixOrder
  <1>4. f \in Frames
    BY <1>2, <1>3 DEF Frames, ReadsAll
  <1>5. f.src = p /\ f.left = L /\ f.dst = Inside(S, c, f.src) /\ \A g \in f.left : Append(f.src, g) \in DOMAIN S
    BY DEF ReadsAll
  <1>6. \A i \in 1..Len(v) : Len(v[i].src) < Len(p)
    <2>1. /\ Last(w).src \in TreePaths /\ Len(Last(w).src) \in Nat /\ Len(p) = Len(Last(w).src) + 1
      <3>1. Last(w).src \in TreePaths
        BY WalkTop, SourceEntry
      <3> QED BY <1>2, <3>1, AppendIs DEF IsEntry
    <2>2. Len(v) \in Nat /\ \A i \in 1..Len(v) : v[i].src \in TreePaths /\ Len(v[i].src) \in Nat
      BY <1>1, WalkFrames
    <2>3. ASSUME NEW i \in 1..Len(v)
          PROVE  Len(v[i].src) <= Len(Last(w).src)
      <3>1. InWalk(v, Last(w).src)
        BY <1>1, WalkTop
      <3>2. InWalk(w, v[i].src)
        BY <1>1 DEF InWalk
      <3>3. PICK j \in 1..Len(w) : v[i].src = w[j].src
        BY <3>2 DEF InWalk
      <3>4. Len(w) \in Nat /\ Len(w) \in 1..Len(w) /\ Last(w) = w[Len(w)]
        BY WalkTop
      <3>5. CASE j = Len(w)
        BY <2>1, <3>3, <3>4, <3>5
      <3>6. CASE j # Len(w)
        <4>1. j < Len(w)
          BY <3>4, <3>6
        <4>2. Len(w[j].src) < Len(w[Len(w)].src)
          BY <3>4, <4>1 DEF WalkDown
        <4> QED BY <2>1, <2>2, <3>3, <3>4, <4>2
      <3> QED BY <3>5, <3>6
    <2> QED BY <2>1, <2>2, <2>3
  <1>7. ~Ahead(v, p)
    BY <1>1, <1>2, <1>3
  <1> HIDE DEF f, v
  <1>8. /\ WalkDown(S, c, Append(v, f)) /\ Append(v, f) # <<>>
        /\ \A x : Ahead(Append(v, f), x) <=>
                    Ahead(v, x) \/ \E g \in f.left : IsPrefix(Append(f.src, g), x)
        /\ \A x : InWalk(Append(v, f), x) <=> InWalk(v, x) \/ x = f.src
    <2>1. /\ f.src \in Under(S, c.src) /\ S[f.src].kind = "dir" /\ f.dst = Inside(S, c, f.src)
          /\ (v = <<>> => f.src = c.src) /\ ~Ahead(v, f.src)
          /\ \A i \in 1..Len(v) : Len(v[i].src) < Len(f.src)
      BY <1>1, <1>2, <1>5, <1>6, <1>7
    <2> QED BY <1>1, <1>4, <1>5, <2>1, WalkLonger
  <1>9. r = Append(v, f)
    BY DEF f, v, Deeper
  <1>10. ASSUME NEW x \in Under(S, c.src)
         PROVE  Ahead(r, x) <=> Ahead(w, x) /\ x # p
    <2>1. x \in DOMAIN S /\ x \in TreePaths
      BY SourceEntry
    <2>2. (\E g \in L : IsPrefix(Append(p, g), x)) <=> IsPrefix(p, x) /\ x # p
      BY <1>2, <2>1, EntriesCover
    <2>3. Ahead(r, x) <=> Ahead(v, x) \/ (IsPrefix(p, x) /\ x # p)
      BY <1>5, <1>8, <1>9, <2>2
    <2> QED BY <1>1, <1>2, <1>3, <2>1, <2>3
  <1>11. ASSUME NEW x \in TreePaths, Ahead(r, x)
         PROVE  Ahead(w, x)
    <2>1. CASE Ahead(v, x)
      BY <1>1, <2>1
    <2>2. CASE \E g \in L : IsPrefix(Append(p, g), x)
      <3>1. PICK g \in L : IsPrefix(Append(p, g), x)
        BY <2>2
      <3> DEFINE a == Append(p, g)
      <3>2. a \in TreePaths /\ IsPrefix(p, a) /\ IsPrefix(a, x)
        BY <1>2, <3>1, EntryPath DEF ReadsAll
      <3> HIDE DEF a
      <3>3. IsPrefix(p, x)
        BY <1>2, <3>2, PrefixOrder
      <3> QED BY <1>2, <3>3
    <2> QED BY <1>5, <1>8, <1>9, <1>11, <2>1, <2>2
  <1> QED BY <1>1, <1>5, <1>8, <1>9, <1>10, <1>11

\* The walk returns from its innermost directory.
LEMMA WalkLeave ==
    ASSUME NEW S \in Trees, NEW c \in Calls, NEW w, WalkDown(S, c, w), w # <<>>, Last(w).left = {}
    PROVE  /\ WalkDown(S, c, Front(w))
           /\ \A x : Ahead(Front(w), x) <=> Ahead(w, x)
           /\ \A x : InWalk(Front(w), x) <=> InWalk(w, x) /\ x # Last(w).src
           /\ Front(w) = <<>> => Last(w).src = c.src
           /\ Len(w) # 1 => Last(w).src # c.src /\ Front(w) # <<>>
  <1> DEFINE n == Len(w)
             v == Front(w)
  <1>1. n \in Nat /\ n \in 1..n /\ 1 \in 1..n /\ Last(w) = w[n] /\ w \in Seq(Frames) /\ n - 1 \in Nat
    BY WalkTop DEF WalkDown
  <1>2. v = SubSeq(w, 1, n - 1)
    BY DEF Front
  <1>3. v \in Seq(Frames) /\ Len(v) = n - 1 /\ \A i \in 1..(n - 1) : v[i] = w[i]
    <2> DEFINE m == n - 1
    <2>1. m \in Nat /\ \A i \in 1..m : w[i] \in Frames
      BY <1>1
    <2> HIDE DEF m, n, v
    <2>2. /\ SubSeq(w, 1, m) \in Seq(Frames)
          /\ Len(SubSeq(w, 1, m)) = IF 1 <= m THEN m - 1 + 1 ELSE 0
          /\ \A i \in 1..(m - 1 + 1) : SubSeq(w, 1, m)[i] = w[1 + i - 1]
      BY <2>1, SubSeqProperties
    <2>3. v = SubSeq(w, 1, m)
      BY <1>2 DEF m
    <2>4. Len(v) = m /\ \A i \in 1..m : v[i] = w[i]
      BY <2>1, <2>2, <2>3
    <2> QED BY <2>2, <2>3, <2>4 DEF m
  <1> HIDE DEF v, n
  <1>4. \A i \in 1..n : i \in 1..(n - 1) \/ i = n
    BY <1>1
  <1>5. 1..(n - 1) \subseteq 1..n /\ \A i \in 1..(n - 1) : i < n
    BY <1>1
  <1>6. v # <<>> => 1 \in 1..(n - 1)
    BY <1>1, <1>3
  <1>7. WalkDown(S, c, v)
    <2>1. v # <<>> => v[1].src = c.src
      BY <1>3, <1>6, <1>5 DEF WalkDown, n
    <2> QED BY <1>3, <1>5, <2>1 DEF WalkDown, n
  <1>8. \A x : Ahead(v, x) <=> Ahead(w, x)
    BY <1>1, <1>3, <1>4, <1>5 DEF Ahead, n
  <1>9. \A i \in 1..(n - 1) : w[i].src # w[n].src
    <2>1. ASSUME NEW i \in 1..(n - 1)
          PROVE  w[i].src # w[n].src
      <3>1. Len(w[i].src) < Len(w[n].src)
        BY <1>1, <1>5 DEF WalkDown, n
      <3>2. Len(w[i].src) \in Nat
        BY <1>5, WalkFrames DEF n
      <3> QED BY <3>1, <3>2
    <2> QED BY <2>1
  <1>10. \A x : InWalk(v, x) <=> InWalk(w, x) /\ x # Last(w).src
    <2>1. ASSUME NEW x, InWalk(v, x) PROVE InWalk(w, x) /\ x # Last(w).src
      BY <1>1, <1>3, <1>5, <1>9, <2>1 DEF InWalk, n
    <2>2. ASSUME NEW x, InWalk(w, x), x # Last(w).src PROVE InWalk(v, x)
      BY <1>1, <1>3, <1>4, <2>2 DEF InWalk, n
    <2> QED BY <2>1, <2>2
  <1>11. w[1].src = c.src
    BY DEF WalkDown
  <1>12. v = <<>> => Last(w).src = c.src
    <2>1. v = <<>> => n = 1
      BY <1>1, <1>3
    <2> QED BY <1>1, <1>11, <2>1
  <1>13. n # 1 => Last(w).src # c.src /\ v # <<>>
    <2>1. ASSUME n # 1 PROVE 1 \in 1..(n - 1) /\ v # <<>>
      BY <1>1, <1>3, <2>1
    <2> QED BY <1>1, <1>9, <1>11, <2>1
  <1> QED BY <1>7, <1>8, <1>10, <1>12, <1>13 DEF v, n

\* The walk returns and gives the rest of the directory around it up.
LEMMA WalkCut ==
    ASSUME NEW S \in Trees, NEW c \in Calls, NEW w, WalkDown(S, c, w), w # <<>>
    PROVE  /\ WalkDown(S, c, CutOff(w)) /\ CutOff(w) # <<>>
           /\ \A x : Ahead(CutOff(w), x) => Ahead(w, x)
  <1> DEFINE n == Len(w)
             r == CutOff(w)
  <1>1. n \in Nat /\ n \in 1..n /\ 1 \in 1..n /\ w[n] \in Frames /\ w \in Seq(Frames)
    BY WalkTop DEF WalkDown
  <1>2. [w[n] EXCEPT !.left = {}] \in Frames
    BY <1>1 DEF Frames
  <1>3. r = [w EXCEPT ![n] = [w[n] EXCEPT !.left = {}]]
    BY DEF CutOff
  <1> HIDE DEF r, n
  <1>4. /\ r \in Seq(Frames) /\ Len(r) = n
        /\ \A i \in 1..n : r[i] = IF i = n THEN [w[n] EXCEPT !.left = {}] ELSE w[i]
    <2>1. \A g \in Frames :
             /\ [w EXCEPT ![n] = g] \in Seq(Frames) /\ Len([w EXCEPT ![n] = g]) = n
             /\ \A i \in 1..n : [w EXCEPT ![n] = g][i] = IF i = n THEN g ELSE w[i]
      BY <1>1, ExceptSeq DEF n
    <2> QED BY <1>2, <1>3, <2>1
  <1>5. \A i \in 1..n : r[i].src = w[i].src /\ r[i].dst = w[i].dst /\ r[i].left \subseteq w[i].left
    <2>1. ASSUME NEW i \in 1..n
          PROVE  r[i].src = w[i].src /\ r[i].dst = w[i].dst /\ r[i].left \subseteq w[i].left
      <3>1. CASE i = n
        BY <1>1, <1>4, <3>1 DEF Frames
      <3>2. CASE i # n
        BY <1>4, <3>2
      <3> QED BY <3>1, <3>2
    <2> QED BY <2>1
  <1>6. WalkDown(S, c, r)
    BY <1>1, <1>4, <1>5 DEF WalkDown, n
  <1>7. \A x : Ahead(r, x) => Ahead(w, x)
    BY <1>4, <1>5 DEF Ahead, n
  <1>8. r # <<>>
    BY <1>1, <1>4
  <1> QED BY <1>6, <1>7, <1>8 DEF r

-----------------------------------------------------------------------------
(* Changes of a file system *)

\* Two file systems agree at x; they differ at y only; x holds n; x is a directory.
SameAt(fs, S, x) ==
    /\ x \in DOMAIN fs <=> x \in DOMAIN S
    /\ x \in DOMAIN S => fs[x] = S[x]
OnlyAt(fs, g, y) == y \in TreePaths /\ \A x : x # y => SameAt(g, fs, x)
Holds(fs, x, n) == x \in DOMAIN fs /\ fs[x] = n
IsDir(fs, x) == x \in DOMAIN fs /\ fs[x] = FsNode("dir", "none", fs[x].attr)

\* Each of the changes the operations make is at one path.
LEMMA Changes ==
    ASSUME NEW fs, NEW y \in TreePaths
    PROVE  /\ OnlyAt(fs, fs, y)
           /\ \A n : OnlyAt(fs, With(fs, y, n), y) /\ Holds(With(fs, y, n), y, n)
           /\ OnlyAt(fs, Unlinked(fs, {y}), y) /\ y \notin DOMAIN Unlinked(fs, {y})
           /\ OnlyAt(fs, MakeDir(fs, y), y) /\ y \in DOMAIN MakeDir(fs, y)
           /\ Has(fs, y) => MakeDir(fs, y) = fs
           /\ ~Has(fs, y) => Holds(MakeDir(fs, y), y, FsNode("dir", "none", "fresh"))
  <1>1. OnlyAt(fs, fs, y)
    BY DEF OnlyAt, SameAt
  <1>2. ASSUME NEW n
        PROVE  OnlyAt(fs, With(fs, y, n), y) /\ Holds(With(fs, y, n), y, n)
    BY DEF OnlyAt, SameAt, With, Holds
  <1>3. OnlyAt(fs, Unlinked(fs, {y}), y) /\ y \notin DOMAIN Unlinked(fs, {y})
    BY DEF OnlyAt, SameAt, Unlinked
  <1>4. OnlyAt(fs, MakeDir(fs, y), y) /\ y \in DOMAIN MakeDir(fs, y)
    BY <1>1, <1>2 DEF MakeDir, Has, Holds
  <1> QED BY <1>1, <1>2, <1>3, <1>4 DEF MakeDir

\* Setting the attributes of a node keeps the rest of it.
LEMMA AttrChange ==
    ASSUME NEW fs, NEW y \in TreePaths, y \in DOMAIN fs, NEW a
    PROVE  /\ OnlyAt(fs, SetAttr(fs, y, a), y) /\ y \in DOMAIN SetAttr(fs, y, a)
           /\ \A k, d, b : fs[y] = FsNode(k, d, b) => SetAttr(fs, y, a)[y] = FsNode(k, d, a)
  BY DEF OnlyAt, SameAt, SetAttr, FsNode

\* Two changes at one path are one.
LEMMA ChangeTwice ==
    ASSUME NEW fs, NEW g, NEW h, NEW y, OnlyAt(fs, g, y), OnlyAt(g, h, y)
    PROVE  OnlyAt(fs, h, y)
  BY DEF OnlyAt, SameAt

-----------------------------------------------------------------------------
(* Copying and linking *)

\* Changed are only places of what is not ahead of the walk.
Touched(fs, S, c, w) ==
    /\ DOMAIN fs \subseteq TreePaths
    /\ \A x : SameAt(fs, S, x) \/ \E p \in Under(S, c.src) : ~Ahead(w, p) /\ x \in Places(S, c, p)

\* The walk writes into directories.
MadeDirs(fs, S, c, w) == \A d : InWalk(w, d) => IsDir(fs, Inside(S, c, d))

\* What the walk has left behind is in its place.
Copied(S, p) == S[p].kind \in {"dir", "file", "link"}
Landed(fs, S, c, w) ==
    \A p \in Under(S, c.src) \ {c.src} :
        ~Ahead(w, p) /\ ~InWalk(w, p) /\ Copied(S, p) => Holds(fs, Landing(S, c, p), S[p])

\* What a copy keeps to.
CopyInv(fs, S, c, w, r) ==
    /\ Touched(fs, S, c, w)
    /\ WalkDown(S, c, w)
    /\ MadeDirs(fs, S, c, w)
    /\ r \in {"walking", "ok"} => Landed(fs, S, c, w)

\* The calls that read a source.
Treated(S, c) == c.op \in {"copy", "move", "link"} /\ Has(S, c.src)

\* The parts of the source have the places Renaming and Inside give; a link is never written
\* through.
LEMMA PlacesOf ==
    ASSUME NEW S, NEW c, NEW p
    PROVE  /\ Renaming(S, c, p) \in Places(S, c, p) /\ Landing(S, c, p) \in Places(S, c, p)
           /\ p = c.src \/ S[p].kind # "link" => Inside(S, c, p) = Landing(S, c, p)
           /\ p # c.src /\ S[p].kind = "link" => Renaming(S, c, p) = Landing(S, c, p)
  BY DEF Places, Landing

\* The source keeps what it is while its parts are copied, and is read as it is.
LEMMA SourceKept ==
    ASSUME NEW S \in Trees, NEW c \in Calls, Treated(S, c), NEW fs, NEW w, Touched(fs, S, c, w)
    PROVE  /\ \A x \in TreePaths : IsPrefix(c.src, x) => SameAt(fs, S, x)
           /\ \A p \in Under(S, c.src) : p \in DOMAIN fs /\ fs[p] = S[p] /\ Kind(fs, p) = S[p].kind
           /\ \A p \in Under(S, c.src) : ReadsAll(S, p, Entries(fs, p))
  <1>1. ASSUME NEW x \in TreePaths, IsPrefix(c.src, x)
        PROVE  SameAt(fs, S, x)
    BY <1>1, PlacesApart DEF Touched, Treated
  <1>2. ASSUME NEW p \in Under(S, c.src)
        PROVE  p \in DOMAIN fs /\ fs[p] = S[p] /\ Kind(fs, p) = S[p].kind
    <2>1. p \in TreePaths /\ IsPrefix(c.src, p) /\ p \in DOMAIN S
      BY SourceEntry
    <2> QED BY <1>1, <2>1 DEF SameAt, Kind, Has
  <1>3. ASSUME NEW p \in Under(S, c.src)
        PROVE  ReadsAll(S, p, Entries(fs, p))
    <2>1. p \in TreePaths /\ IsPrefix(c.src, p) /\ c.src \in TreePaths
      BY SourceEntry, CallPaths
    <2>2. /\ Entries(fs, p) \subseteq Names
          /\ \A e \in Names : e \in Entries(fs, p) <=> Append(p, e) \in DOMAIN fs
      BY <2>1, EntriesAre DEF Touched
    <2>3. ASSUME NEW e \in Names
          PROVE  Append(p, e) \in DOMAIN fs <=> Append(p, e) \in DOMAIN S
      <3> DEFINE a == Append(p, e)
      <3>1. a \in TreePaths /\ IsPrefix(p, a)
        BY <2>1, EntryPath
      <3> HIDE DEF a
      <3>2. IsPrefix(c.src, a)
        BY <2>1, <3>1, PrefixOrder
      <3>3. SameAt(fs, S, a)
        BY <1>1, <3>1, <3>2
      <3> QED BY <3>3 DEF SameAt, a
    <2> QED BY <2>2, <2>3 DEF ReadsAll
  <1> QED BY <1>1, <1>2, <1>3

\* What is ahead of the walk finds its places as they were.
LEMMA PlacesFound ==
    ASSUME NEW S \in Trees, NEW c \in Calls, Treated(S, c), NEW fs, NEW w, Touched(fs, S, c, w),
           NEW p \in Under(S, c.src), Ahead(w, p), NEW x \in Places(S, c, p)
    PROVE  SameAt(fs, S, x) /\ Kind(fs, x) = Kind(S, x) /\ Follow(fs, x) = Follow(S, x)
  <1>1. SameAt(fs, S, x)
    <2> SUFFICES ASSUME NEW q \in Under(S, c.src), ~Ahead(w, q), x \in Places(S, c, q)
                 PROVE  FALSE
      BY DEF Touched
    <2>1. p = q
      BY PlacesApart DEF Treated
    <2> QED BY <2>1
  <1> QED BY <1>1 DEF SameAt, Kind, Follow, Has

\* On from w to v the walk has dealt with p, or entered it.
Dealt(g, S, c, p, w, v) ==
    /\ \A x \in Under(S, c.src) : Ahead(v, x) => Ahead(w, x) /\ x # p
    /\ \A d : InWalk(v, d) => (InWalk(w, d) /\ d # p) \/ (d = p /\ IsDir(g, Inside(S, c, p)))
    /\ \A x \in Under(S, c.src) \ {c.src} : ~Ahead(v, x) /\ ~InWalk(v, x) =>
         \/ x = p /\ (Copied(S, p) => Holds(g, Landing(S, c, p), S[p]))
         \/ x # p /\ ~Ahead(w, x) /\ ~InWalk(w, x)

\* A part of the source is dealt with and the walk goes on.
LEMMA CopyStep ==
    ASSUME NEW S \in Trees, NEW c \in Calls, Treated(S, c), NEW fs, NEW w, CopyInv(fs, S, c, w, "walking"),
           NEW g, NEW p \in Under(S, c.src), NEW y \in Places(S, c, p), OnlyAt(fs, g, y),
           NEW v, WalkDown(S, c, v), NEW r, Dealt(g, S, c, p, w, v)
    PROVE  CopyInv(g, S, c, v, r)
  <1> USE DEF Dealt
  <1>1. Touched(fs, S, c, w) /\ MadeDirs(fs, S, c, w) /\ Landed(fs, S, c, w) /\ WalkDown(S, c, w)
    BY DEF CopyInv
  <1>2. \A x : x # y => SameAt(g, fs, x)
    BY DEF OnlyAt
  <1>3. y \in TreePaths
    BY DEF OnlyAt
  <1>4. Touched(g, S, c, v)
    <2>1. DOMAIN g \subseteq TreePaths
      BY <1>1, <1>2, <1>3 DEF Touched, SameAt
    <2>2. ASSUME NEW x, x # y
          PROVE  SameAt(g, S, x) \/ \E q \in Under(S, c.src) : ~Ahead(v, q) /\ x \in Places(S, c, q)
      <3>1. CASE SameAt(fs, S, x)
        BY <1>2, <2>2, <3>1 DEF SameAt
      <3>2. CASE \E q \in Under(S, c.src) : ~Ahead(w, q) /\ x \in Places(S, c, q)
        BY <3>2
      <3> QED BY <1>1, <3>1, <3>2 DEF Touched
    <2>3. ~Ahead(v, p)
      OBVIOUS
    <2> QED BY <2>1, <2>2, <2>3 DEF Touched
  <1>5. MadeDirs(g, S, c, v)
    <2> SUFFICES ASSUME NEW d, InWalk(v, d) PROVE IsDir(g, Inside(S, c, d))
      BY DEF MadeDirs
    <2>1. CASE d = p /\ IsDir(g, Inside(S, c, p))
      BY <2>1
    <2>2. CASE InWalk(w, d) /\ d # p
      <3>1. d \in Under(S, c.src) /\ S[d].kind = "dir"
        BY <1>1, <2>2, InOrAhead
      <3>2. Inside(S, c, d) \in Places(S, c, d)
        BY <3>1, PlacesOf
      <3>3. Inside(S, c, d) # y
        BY <2>2, <3>1, <3>2, PlacesApart DEF Treated
      <3>4. IsDir(fs, Inside(S, c, d))
        BY <1>1, <2>2 DEF MadeDirs
      <3> QED BY <1>2, <3>3, <3>4 DEF IsDir, SameAt
    <2> QED BY <2>1, <2>2
  <1>6. Landed(g, S, c, v)
    <2> SUFFICES ASSUME NEW x \in Under(S, c.src) \ {c.src}, ~Ahead(v, x), ~InWalk(v, x), Copied(S, x)
                 PROVE  Holds(g, Landing(S, c, x), S[x])
      BY DEF Landed
    <2>1. CASE x = p /\ (Copied(S, p) => Holds(g, Landing(S, c, p), S[p]))
      BY <2>1
    <2>2. CASE x # p /\ ~Ahead(w, x) /\ ~InWalk(w, x)
      <3>1. Holds(fs, Landing(S, c, x), S[x])
        BY <1>1, <2>2 DEF Landed
      <3>2. Landing(S, c, x) # y
        BY <2>2, PlacesApart, PlacesOf DEF Treated
      <3> QED BY <1>2, <3>1, <3>2 DEF Holds, SameAt
    <2> QED BY <2>1, <2>2
  <1> QED BY <1>4, <1>5, <1>6 DEF CopyInv

\* The call ends; that an error leaves something half-way is no harm.
LEMMA CopyEnds ==
    ASSUME NEW S \in Trees, NEW c \in Calls, Treated(S, c), NEW fs, NEW w, Touched(fs, S, c, w),
           NEW g, NEW p \in Under(S, c.src), NEW y \in Places(S, c, p), OnlyAt(fs, g, y),
           NEW r, r = "err" \/ Under(S, c.src) = {c.src}
    PROVE  CopyInv(g, S, c, <<>>, r)
  <1>1. /\ \A x : ~Ahead(<<>>, x) /\ ~InWalk(<<>>, x)
        /\ WalkDown(S, c, <<>>)
    BY DEF Ahead, InWalk, WalkDown
  <1>2. (\A x : x # y => SameAt(g, fs, x)) /\ y \in TreePaths
    BY DEF OnlyAt
  <1>3. DOMAIN g \subseteq TreePaths
    BY <1>2 DEF Touched, SameAt
  <1>4. ASSUME NEW x, x # y
        PROVE  SameAt(g, S, x) \/ \E q \in Under(S, c.src) : x \in Places(S, c, q)
    BY <1>2, <1>4 DEF Touched, SameAt
  <1>5. Touched(g, S, c, <<>>)
    BY <1>1, <1>3, <1>4 DEF Touched
  <1>6. r \in {"walking", "ok"} => Landed(g, S, c, <<>>)
    BY DEF Landed
  <1> QED BY <1>1, <1>5, <1>6 DEF CopyInv, MadeDirs

\* The walk begins in a directory that is there or has been made.
LEMMA CopyStart ==
    ASSUME NEW S \in Trees, NEW c \in Calls, Treated(S, c), S[c.src].kind = "dir",
           NEW g, NEW y \in Places(S, c, c.src), OnlyAt(S, g, y), IsDir(g, Base(S, c)),
           NEW v, v = Append(<<>>, Frame(g, c.src, Base(S, c)))
    PROVE  CopyInv(g, S, c, v, "walking") /\ v # <<>>
  <1>1. c.src \in DOMAIN S /\ c.src \in Under(S, c.src)
    BY CallPaths, PrefixOrder DEF Treated, Has, Under
  <1>2. (\A x : x # y => SameAt(g, S, x)) /\ y \in TreePaths
    BY DEF OnlyAt
  <1>3. DOMAIN g \subseteq TreePaths
    BY <1>2, TreeShape DEF SameAt
  <1>4. ASSUME NEW u, ~Ahead(u, c.src)
        PROVE  Touched(g, S, c, u)
    BY <1>1, <1>2, <1>3, <1>4 DEF Touched
  <1>5. Touched(g, S, c, <<>>)
    BY <1>4 DEF Ahead
  <1>6. ReadsAll(S, c.src, Entries(g, c.src))
    BY <1>1, <1>5, SourceKept
  <1>7. /\ WalkDown(S, c, v) /\ v # <<>>
        /\ \A x \in Under(S, c.src) : Ahead(v, x) <=> x # c.src
        /\ \A x : InWalk(v, x) <=> x = c.src
    <2>1. v = Append(<<>>, [src |-> c.src, dst |-> Base(S, c), left |-> Entries(g, c.src)])
      BY DEF Frame
    <2> QED BY <1>1, <1>6, <2>1, WalkStart
  <1>8. Touched(g, S, c, v)
    BY <1>1, <1>4, <1>7
  <1>9. MadeDirs(g, S, c, v)
    BY <1>7, InsidePlaces DEF MadeDirs
  <1>10. Landed(g, S, c, v)
    BY <1>7 DEF Landed
  <1> QED BY <1>7, <1>8, <1>9, <1>10 DEF CopyInv

\* A walk is in a source that is there.
LEMMA WalkTreated ==
    ASSUME NEW S \in Trees, NEW c \in Calls, NEW w, WalkDown(S, c, w), w # <<>>,
           c.op \in {"copy", "move", "link"}
    PROVE  Treated(S, c)
  <1>1. w[1].src \in Under(S, c.src) /\ w[1].src = c.src
    BY WalkTop DEF WalkDown
  <1> QED BY <1>1 DEF Treated, Has, Under

\* The place of an entry, and the walk that has entered it.
IsPlace(w, e, q) == q = Append(Last(w).dst, e)
Entered(v, w, e, g, p, d) == v = Append(RestOf(w, e), Frame(g, p, d))

\* What the next entry and its place are.
LEMMA CopyEntryFinds ==
    ASSUME NEW S \in Trees, NEW c \in Calls, Treated(S, c), NEW fs, NEW w, w # <<>>,
           CopyInv(fs, S, c, w, "walking"), NEW e, NEW p, IsEntry(w, e, p),
           NEW q, IsPlace(w, e, q)
    PROVE  /\ p \in Under(S, c.src) /\ p # c.src /\ p \in DOMAIN S
           /\ fs[p] = S[p] /\ Kind(fs, p) = S[p].kind
           /\ q = Renaming(S, c, p) /\ q \in Places(S, c, p) /\ q \in TreePaths
           /\ Kind(fs, q) = Kind(S, q) /\ (Has(fs, q) <=> Has(S, q))
           /\ Follow(fs, q) = Inside(S, c, p) /\ Follow(S, q) = Inside(S, c, p)
           /\ Inside(S, c, p) \in TreePaths
           /\ S[p].kind # "link" => /\ Kind(fs, Inside(S, c, p)) = Kind(S, Inside(S, c, p))
                                    /\ SameAt(fs, S, Inside(S, c, p))
  <1>1. WalkDown(S, c, w) /\ Touched(fs, S, c, w)
    BY DEF CopyInv
  <1>2. /\ p \in Under(S, c.src) /\ p # c.src /\ p \in DOMAIN S /\ Ahead(w, p) /\ p \in TreePaths
        /\ q = Renaming(S, c, p) /\ Inside(S, c, p) = Follow(S, q)
    BY <1>1, EntryAhead DEF IsPlace
  <1>3. fs[p] = S[p] /\ Kind(fs, p) = S[p].kind
    BY <1>1, <1>2, SourceKept
  <1>4. q \in Places(S, c, p) /\ q \in TreePaths
    BY <1>2, PlacesOf, PlacesApart DEF Treated
  <1>5. Kind(fs, q) = Kind(S, q) /\ SameAt(fs, S, q) /\ Follow(fs, q) = Follow(S, q)
    BY <1>1, <1>2, <1>4, PlacesFound
  <1>6. Inside(S, c, p) \in TreePaths
    BY <1>2, InsidePlaces
  <1>7. ASSUME S[p].kind # "link"
        PROVE  /\ Kind(fs, Inside(S, c, p)) = Kind(S, Inside(S, c, p))
               /\ SameAt(fs, S, Inside(S, c, p))
    BY <1>1, <1>2, <1>7, PlacesOf, PlacesFound
  <1> QED BY <1>2, <1>3, <1>4, <1>5, <1>6, <1>7 DEF SameAt, Has

\* The walk enters a directory it has made or found.
LEMMA CopyEnters ==
    ASSUME NEW S \in Trees, NEW c \in Calls, Treated(S, c), NEW fs, NEW w, w # <<>>,
           CopyInv(fs, S, c, w, "walking"), NEW e, NEW p, IsEntry(w, e, p),
           NEW q, IsPlace(w, e, q), S[p].kind = "dir",
           NEW g, g = MakeDir(fs, q), Kind(g, Follow(g, q)) = "dir",
           NEW v, Entered(v, w, e, g, p, Follow(g, q))
    PROVE  CopyInv(g, S, c, v, "walking") /\ v # <<>>
  <1> DEFINE z == Inside(S, c, p)
  <1>1. WalkDown(S, c, w) /\ Touched(fs, S, c, w)
    BY DEF CopyInv
  <1>2. /\ p \in Under(S, c.src) /\ q \in Places(S, c, p) /\ q \in TreePaths
        /\ (Has(fs, q) <=> Has(S, q)) /\ Follow(fs, q) = z /\ Follow(S, q) = z
        /\ Kind(fs, z) = Kind(S, z) /\ SameAt(fs, S, z)
    BY CopyEntryFinds
  <1> HIDE DEF z
  <1>3. OnlyAt(fs, g, q) /\ q \in DOMAIN g
    BY <1>2, Changes
  <1>4. Follow(g, q) = z /\ IsDir(g, z)
    <2>1. CASE Has(fs, q)
      <3>1. g = fs
        BY <1>2, <2>1, Changes
      <3>2. Follow(g, q) = z
        BY <1>2, <3>1
      <3>3. Kind(S, z) = "dir"
        BY <1>2, <3>1, <3>2
      <3>4. z \in DOMAIN S /\ S[z].kind = "dir"
        BY <3>3 DEF Kind, Has
      <3>5. S[z] = FsNode("dir", "none", S[z].attr)
        BY <3>4, TreeShape
      <3> QED BY <1>2, <3>1, <3>2, <3>4, <3>5 DEF IsDir, SameAt
    <2>2. CASE ~Has(fs, q)
      <3>1. g[q] = FsNode("dir", "none", "fresh")
        BY <1>2, <2>2, Changes DEF Holds
      <3>2. Follow(g, q) = q
        BY <1>3, <3>1 DEF Follow, Kind, Has, FsNode
      <3>3. z = q
        BY <1>2, <2>2 DEF Follow, Kind
      <3> QED BY <1>3, <3>1, <3>2, <3>3 DEF IsDir, FsNode
    <2> QED BY <2>1, <2>2
  <1>5. Touched(g, S, c, <<>>)
    BY <1>1, <1>2, <1>3, CopyEnds DEF CopyInv
  <1>6. ReadsAll(S, p, Entries(g, p))
    BY <1>2, <1>5, SourceKept
  <1>7. /\ WalkDown(S, c, v) /\ v # <<>>
        /\ \A x \in Under(S, c.src) : Ahead(v, x) <=> Ahead(w, x) /\ x # p
        /\ \A x : InWalk(v, x) <=> InWalk(w, x) \/ x = p
    <2> DEFINE L == Entries(g, p)
    <2>1. Deeper(v, w, e, p, Inside(S, c, p), L) /\ ReadsAll(S, p, L)
      BY <1>4, <1>6 DEF Frame, z, Entered, Deeper
    <2> HIDE DEF L
    <2> QED BY <1>1, <2>1, WalkEnter
  <1>8. ~InWalk(w, p)
    BY <1>1, EntryAhead
  <1>9. IsDir(g, Inside(S, c, p))
    BY <1>4 DEF z
  <1>10. \A d : InWalk(v, d) => (InWalk(w, d) /\ d # p) \/ (d = p /\ IsDir(g, Inside(S, c, p)))
    BY <1>7, <1>8, <1>9
  <1>11. \A x \in Under(S, c.src) \ {c.src} : ~Ahead(v, x) /\ ~InWalk(v, x) =>
           \/ x = p /\ (Copied(S, p) => Holds(g, Landing(S, c, p), S[p]))
           \/ x # p /\ ~Ahead(w, x) /\ ~InWalk(w, x)
    BY <1>7
  <1>12. Dealt(g, S, c, p, w, v)
    BY <1>7, <1>10, <1>11 DEF Dealt
  <1> QED BY <1>2, <1>3, <1>7, <1>12, CopyStep

\* Something that is no directory has been copied, or passed over.
LEMMA CopyWrites ==
    ASSUME NEW S \in Trees, NEW c \in Calls, Treated(S, c), NEW fs, NEW w, w # <<>>,
           CopyInv(fs, S, c, w, "walking"), NEW e, NEW p, IsEntry(w, e, p), S[p].kind # "dir",
           NEW g, NEW y \in Places(S, c, p), OnlyAt(fs, g, y),
           Copied(S, p) => Holds(g, Landing(S, c, p), S[p])
    PROVE  CopyInv(g, S, c, RestOf(w, e), "walking") /\ RestOf(w, e) # <<>>
  <1> DEFINE v == RestOf(w, e)
  <1>1. WalkDown(S, c, w)
    BY DEF CopyInv
  <1>2. /\ WalkDown(S, c, v) /\ v # <<>>
        /\ \A x \in TreePaths : Ahead(v, x) <=> Ahead(w, x) /\ ~IsPrefix(p, x)
        /\ \A x : InWalk(v, x) <=> InWalk(w, x)
    BY <1>1, WalkRest
  <1>3. p \in Under(S, c.src) /\ p \in TreePaths /\ ~InWalk(w, p) /\ IsPrefix(p, p)
    BY <1>1, EntryAhead, PrefixOrder
  <1> HIDE DEF v
  <1>4. \A x \in Under(S, c.src) : x \in TreePaths /\ x \in DOMAIN S
    BY SourceEntry
  <1>5. \A x \in Under(S, c.src) : IsPrefix(p, x) => x = p
    BY <1>3, <1>4, TreeShape
  <1>6. \A x \in Under(S, c.src) : Ahead(v, x) => Ahead(w, x) /\ x # p
    BY <1>2, <1>3, <1>4
  <1>7. \A d : InWalk(v, d) => (InWalk(w, d) /\ d # p) \/ (d = p /\ IsDir(g, Inside(S, c, p)))
    BY <1>2, <1>3
  <1>8. \A x \in Under(S, c.src) \ {c.src} : ~Ahead(v, x) /\ ~InWalk(v, x) =>
          \/ x = p /\ (Copied(S, p) => Holds(g, Landing(S, c, p), S[p]))
          \/ x # p /\ ~Ahead(w, x) /\ ~InWalk(w, x)
    BY <1>2, <1>4, <1>5
  <1>9. Dealt(g, S, c, p, w, v)
    BY <1>6, <1>7, <1>8 DEF Dealt
  <1>10. CopyInv(g, S, c, v, "walking")
    BY <1>2, <1>3, <1>9, CopyStep
  <1> QED BY <1>2, <1>10 DEF v

\* The walk returns from a directory.
LEMMA CopyLeaves ==
    ASSUME NEW S \in Trees, NEW c \in Calls, Treated(S, c), NEW fs, NEW w, w # <<>>,
           CopyInv(fs, S, c, w, "walking"), Last(w).left = {},
           NEW g, OnlyAt(fs, g, Last(w).dst),
           Len(w) = 1 \/ Holds(g, Last(w).dst, S[Last(w).src]), NEW r
    PROVE  CopyInv(g, S, c, Front(w), r)
  <1> DEFINE v == Front(w)
             p == Last(w).src
             y == Last(w).dst
  <1>1. WalkDown(S, c, w)
    BY DEF CopyInv
  <1>2. /\ WalkDown(S, c, v)
        /\ \A x : Ahead(v, x) <=> Ahead(w, x)
        /\ \A x : InWalk(v, x) <=> InWalk(w, x) /\ x # p
        /\ v = <<>> => p = c.src
        /\ Len(w) # 1 => v # <<>>
    BY <1>1, WalkLeave
  <1>3. p \in Under(S, c.src) /\ S[p].kind = "dir" /\ y = Inside(S, c, p) /\ InWalk(w, p)
    BY <1>1, WalkTop
  <1>4. ~Ahead(w, p)
    BY <1>1, <1>3, InOrAhead
  <1>5. y \in Places(S, c, p) /\ y = Landing(S, c, p)
    BY <1>3, PlacesOf
  <1>6. Len(w) = 1 => p = c.src
    BY <1>1, <1>3, WalkTop DEF WalkDown
  <1> HIDE DEF v, p, y
  <1>7. OnlyAt(fs, g, y) /\ (Len(w) = 1 \/ Holds(g, y, S[p]))
    BY DEF y, p
  <1>8. \A x \in Under(S, c.src) : Ahead(v, x) => Ahead(w, x) /\ x # p
    BY <1>2, <1>4
  <1>9. \A d : InWalk(v, d) => (InWalk(w, d) /\ d # p) \/ (d = p /\ IsDir(g, Inside(S, c, p)))
    BY <1>2
  <1>10. \A x \in Under(S, c.src) \ {c.src} : ~Ahead(v, x) /\ ~InWalk(v, x) =>
           \/ x = p /\ (Copied(S, p) => Holds(g, Landing(S, c, p), S[p]))
           \/ x # p /\ ~Ahead(w, x) /\ ~InWalk(w, x)
    BY <1>2, <1>5, <1>6, <1>7
  <1>11. Dealt(g, S, c, p, w, v)
    BY <1>8, <1>9, <1>10 DEF Dealt
  <1>12. CopyInv(g, S, c, v, r)
    BY <1>2, <1>3, <1>5, <1>7, <1>11, CopyStep
  <1> QED BY <1>12 DEF v

\* The attributes of a directory are set when it has been walked.
LEMMA CopyAttrs ==
    ASSUME NEW S \in Trees, NEW c \in Calls, Treated(S, c), NEW fs, NEW w, w # <<>>,
           CopyInv(fs, S, c, w, "walking"),
           NEW g, g = SetAttr(fs, Last(w).dst, fs[Last(w).src].attr)
    PROVE  OnlyAt(fs, g, Last(w).dst) /\ Holds(g, Last(w).dst, S[Last(w).src]) /\ OnlyAt(fs, fs, Last(w).dst)
  <1> DEFINE p == Last(w).src
             y == Last(w).dst
  <1>1. WalkDown(S, c, w) /\ Touched(fs, S, c, w) /\ MadeDirs(fs, S, c, w)
    BY DEF CopyInv
  <1>2. p \in Under(S, c.src) /\ S[p].kind = "dir" /\ y = Inside(S, c, p) /\ InWalk(w, p)
    BY <1>1, WalkTop
  <1>3. p \in TreePaths /\ p \in DOMAIN S /\ y \in TreePaths
    BY <1>2, SourceEntry, InsidePlaces
  <1>4. fs[p] = S[p]
    BY <1>1, <1>2, SourceKept
  <1>5. IsDir(fs, y)
    BY <1>1, <1>2 DEF MadeDirs
  <1>6. S[p] = FsNode("dir", "none", S[p].attr)
    BY <1>2, <1>3, TreeShape
  <1> HIDE DEF p, y
  <1>7. g = SetAttr(fs, y, fs[p].attr)
    BY DEF p, y
  <1>8. y \in DOMAIN fs /\ fs[y] = FsNode("dir", "none", fs[y].attr)
    BY <1>5 DEF IsDir
  <1>9. OnlyAt(fs, g, y) /\ y \in DOMAIN g /\ g[y] = FsNode("dir", "none", fs[p].attr)
    BY <1>3, <1>7, <1>8, AttrChange
  <1>10. OnlyAt(fs, fs, y)
    BY <1>3, Changes
  <1>11. Holds(g, y, S[p])
    BY <1>4, <1>6, <1>9 DEF Holds
  <1> QED BY <1>9, <1>10, <1>11 DEF p, y

-----------------------------------------------------------------------------
(* Renaming *)

\* A path that moves with the directory p to q.
LEMMA MovedIs ==
    ASSUME NEW p \in TreePaths, NEW q \in TreePaths, NEW r \in TreePaths, IsPrefix(p, r)
    PROVE  /\ Moved(r, p, q) \in TreePaths
           /\ Len(p) \in Nat /\ Len(q) \in Nat /\ Len(r) \in Nat /\ Len(p) <= Len(r)
           /\ Len(Moved(r, p, q)) = Len(q) + (Len(r) - Len(p))
           /\ \A i \in 1..Len(q) : Moved(r, p, q)[i] = q[i]
           /\ \A i \in 1..(Len(r) - Len(p)) : Moved(r, p, q)[Len(q) + i] = r[Len(p) + i]
           /\ IsPrefix(q, Moved(r, p, q))
  <1> DEFINE a == Len(p)
             b == Len(q)
             n == Len(r)
             t == SubSeq(r, a + 1, n)
  <1>1. a \in Nat /\ b \in Nat /\ n \in Nat /\ a <= n
    BY PrefixIs, PrefixOrder
  <1>2. q \in Seq(Names) /\ r \in Seq(Names)
    BY DEF TreePaths
  <1>3. t \in Seq(Names) /\ Len(t) = n - a /\ \A i \in 1..(n - a) : t[i] = r[a + i]
    <2> DEFINE m == a + 1
    <2>1. m \in Int /\ n \in Int /\ \A i \in m..n : r[i] \in Names
      BY <1>1, <1>2
    <2> HIDE DEF m, n, a
    <2>2. /\ SubSeq(r, m, n) \in Seq(Names)
          /\ Len(SubSeq(r, m, n)) = IF m <= n THEN n - m + 1 ELSE 0
          /\ \A i \in 1..(n - m + 1) : SubSeq(r, m, n)[i] = r[m + i - 1]
      BY <2>1, SubSeqProperties
    <2>3. Len(SubSeq(r, m, n)) = n - a /\ n - m + 1 = n - a
      BY <1>1, <2>1, <2>2 DEF m
    <2>4. \A i \in 1..(n - a) : SubSeq(r, m, n)[i] = r[m + i - 1] /\ m + i - 1 = a + i
      BY <1>1, <2>2, <2>3 DEF m
    <2> QED BY <2>2, <2>3, <2>4 DEF m
  <1> HIDE DEF t
  <1>4. /\ q \o t \in Seq(Names) /\ Len(q \o t) = b + (n - a)
        /\ \A i \in 1..(b + (n - a)) : (q \o t)[i] = IF i <= b THEN q[i] ELSE t[i - b]
    <2>1. /\ q \o t \in Seq(Names) /\ Len(q \o t) = Len(q) + Len(t)
          /\ \A i \in 1..(Len(q) + Len(t)) : (q \o t)[i] = IF i <= Len(q) THEN q[i] ELSE t[i - Len(q)]
      <3>1. t \in Seq(Names)
        BY <1>3
      <3> QED BY <1>2, <3>1, ConcatProperties
    <2>2. Len(t) = n - a
      BY <1>3
    <2> HIDE DEF n, a
    <2> QED BY <2>1, <2>2
  <1>5. Moved(r, p, q) = q \o t
    BY DEF Moved, t
  <1> DEFINE s == Moved(r, p, q)
  <1>6. /\ s \in TreePaths /\ Len(s) = b + (n - a)
        /\ \A i \in 1..(b + (n - a)) : s[i] = IF i <= b THEN q[i] ELSE t[i - b]
    BY <1>4, <1>5 DEF TreePaths
  <1> HIDE DEF s, a, b, n
  <1>7. \A i \in 1..b : s[i] = q[i]
    BY <1>1, <1>6
  <1>8. ASSUME NEW i \in 1..(n - a)
        PROVE  s[b + i] = r[a + i]
    <2>1. b + i \in 1..(b + (n - a)) /\ ~(b + i <= b) /\ (b + i) - b = i
      BY <1>1
    <2>2. s[b + i] = t[(b + i) - b]
      BY <1>6, <2>1
    <2> QED BY <1>3, <2>1, <2>2
  <1>9. IsPrefix(q, s)
    <2>1. Len(q) <= Len(s) /\ \A i \in 1..Len(q) : q[i] = s[i]
      BY <1>1, <1>6, <1>7 DEF b
    <2> QED BY <1>6, <2>1, PrefixIs
  <1> QED BY <1>1, <1>6, <1>7, <1>8, <1>9 DEF s, a, b, n

\* It moves back, and its entries move with it.
LEMMA MovedFacts ==
    ASSUME NEW p \in TreePaths, NEW q \in TreePaths, NEW r \in TreePaths, IsPrefix(p, r)
    PROVE  /\ Moved(Moved(r, p, q), q, p) = r
           /\ Moved(p, p, q) = q
           /\ \A e \in Names : Moved(Append(r, e), p, q) = Append(Moved(r, p, q), e)
  <1> DEFINE a == Len(p)
             b == Len(q)
             n == Len(r)
             s == Moved(r, p, q)
  <1>1. /\ s \in TreePaths /\ a \in Nat /\ b \in Nat /\ n \in Nat /\ a <= n /\ Len(s) = b + (n - a)
        /\ \A i \in 1..b : s[i] = q[i]
        /\ \A i \in 1..(n - a) : s[b + i] = r[a + i]
        /\ IsPrefix(q, s)
    BY MovedIs
  <1>2. \A i \in 1..a : p[i] = r[i]
    BY PrefixIs
  <1> HIDE DEF s
  <1>3. Moved(s, q, p) = r
    <2> DEFINE u == Moved(s, q, p)
    <2>1. /\ u \in TreePaths /\ Len(u) = a + (Len(s) - b)
          /\ \A i \in 1..a : u[i] = p[i]
          /\ \A i \in 1..(Len(s) - b) : u[a + i] = s[b + i]
      BY <1>1, MovedIs
    <2> HIDE DEF u, a, b, n
    <2>2. Len(u) = n /\ Len(s) - b = n - a
      BY <1>1, <2>1
    <2>3. ASSUME NEW i \in 1..n
          PROVE  u[i] = r[i]
      <3>1. CASE i <= a
        BY <1>1, <1>2, <2>1, <3>1
      <3>2. CASE ~(i <= a)
        <4>1. i - a \in 1..(n - a) /\ a + (i - a) = i
          BY <1>1, <3>2
        <4>2. u[a + (i - a)] = s[b + (i - a)] /\ s[b + (i - a)] = r[a + (i - a)]
          BY <1>1, <2>1, <2>2, <4>1
        <4> QED BY <4>1, <4>2
      <3> QED BY <3>1, <3>2
    <2> QED BY <2>1, <2>2, <2>3, SeqEqual DEF TreePaths, u, n
  <1>4. Moved(p, p, q) = q
    <2> DEFINE u == Moved(p, p, q)
    <2>1. u \in TreePaths /\ Len(u) = b + (a - a) /\ \A i \in 1..b : u[i] = q[i]
      <3>1. IsPrefix(p, p)
        BY PrefixOrder
      <3> QED BY <3>1, MovedIs
    <2> HIDE DEF u
    <2>2. Len(u) = Len(q) /\ \A i \in 1..Len(u) : u[i] = q[i]
      BY <1>1, <2>1
    <2> QED BY <2>1, <2>2, SeqEqual DEF TreePaths, u
  <1>5. ASSUME NEW e \in Names
        PROVE  Moved(Append(r, e), p, q) = Append(s, e)
    <2> DEFINE f == Append(r, e)
               u == Moved(f, p, q)
               g == Append(s, e)
    <2>1. /\ f \in TreePaths /\ Len(f) = n + 1 /\ f[n + 1] = e
          /\ \A i \in 1..n : f[i] = r[i]
      BY AppendIs
    <2>2. IsPrefix(p, f)
      BY EntryPath
    <2>3. /\ g \in TreePaths /\ Len(g) = Len(s) + 1 /\ g[Len(s) + 1] = e
          /\ \A i \in 1..Len(s) : g[i] = s[i]
      BY <1>1, AppendIs
    <2> HIDE DEF f, g
    <2>4. /\ u \in TreePaths /\ Len(u) = b + (Len(f) - a)
          /\ \A i \in 1..b : u[i] = q[i]
          /\ \A i \in 1..(Len(f) - a) : u[b + i] = f[a + i]
      BY <2>1, <2>2, MovedIs, ZenonT(40)
    <2> HIDE DEF u, a, b, n
    <2>5. Len(u) = (b + (n - a)) + 1 /\ Len(g) = Len(u) /\ Len(f) - a = (n - a) + 1
      BY <1>1, <2>1, <2>3, <2>4
    <2>6. ASSUME NEW i \in 1..Len(u)
          PROVE  u[i] = g[i]
      <3>1. CASE i <= b
        <4>1. i \in 1..b /\ i \in 1..Len(s)
          BY <1>1, <3>1
        <4> QED BY <1>1, <2>3, <2>4, <4>1
      <3>2. CASE b < i /\ i <= b + (n - a)
        <4>1. i - b \in 1..(n - a) /\ i - b \in 1..(Len(f) - a) /\ b + (i - b) = i
              /\ i \in 1..Len(s) /\ a + (i - b) \in 1..n
          BY <1>1, <2>5, <3>2
        <4>2. u[i] = f[a + (i - b)] /\ s[i] = r[a + (i - b)]
          BY <1>1, <2>4, <4>1
        <4> QED BY <2>1, <2>3, <4>1, <4>2
      <3>3. CASE i = (b + (n - a)) + 1
        <4>1. i - b \in 1..(Len(f) - a) /\ b + (i - b) = i /\ a + (i - b) = n + 1 /\ i = Len(s) + 1
          BY <1>1, <2>5, <3>3
        <4>2. u[i] = f[a + (i - b)]
          BY <2>4, <4>1
        <4> QED BY <2>1, <2>3, <4>1, <4>2
      <3> QED BY <1>1, <2>5, <3>1, <3>2, <3>3
    <2>7. u = g
      BY <2>3, <2>4, <2>5, <2>6, SeqEqual DEF TreePaths
    <2> QED BY <2>7 DEF u, f, g
  <1> QED BY <1>3, <1>4, <1>5 DEF s

\* Where nothing is below the place of a directory, its entries are renamed with it.
LEMMA RenamedWith ==
    ASSUME NEW S \in Trees, NEW c \in Calls, NEW p \in Under(S, c.src), NEW q \in TreePaths,
           q = Renaming(S, c, p), Inside(S, c, p) = q,
           \A x \in DOMAIN S : IsPrefix(q, x) => x = q
    PROVE  \A r \in Under(S, p) : Renaming(S, c, r) = Moved(r, p, q)
  <1>1. p \in TreePaths /\ IsPrefix(c.src, p) /\ c.src \in TreePaths /\ p \in DOMAIN S /\ Len(p) \in Nat
    BY SourceEntry, CallPaths, PrefixIs
  <1>2. \A x, y \in TreePaths : IsPrefix(c.src, x) /\ IsPrefix(x, y) => IsPrefix(c.src, y)
    BY <1>1, PrefixOrder
  <1> DEFINE Right(r) == Renaming(S, c, r) = Moved(r, p, q) /\ Inside(S, c, r) = Moved(r, p, q)
  <1>3. Right(p)
    BY <1>1, MovedFacts, PrefixOrder
  <1>4. ASSUME NEW d \in Under(S, p), Right(d), NEW e \in Names, Append(d, e) \in DOMAIN S
        PROVE  Right(Append(d, e))
    <2> DEFINE r == Append(d, e)
               y == Moved(d, p, q)
    <2>1. d \in TreePaths /\ IsPrefix(p, d)
      BY TreeShape DEF Under
    <2>2. IsPrefix(c.src, d)
      BY <1>1, <1>2, <2>1
    <2>3. Renaming(S, c, r) = Append(y, e) /\ Inside(S, c, r) = Follow(S, Renaming(S, c, r))
      BY <1>4, <2>1, <2>2, InsidePlaces
    <2>4. Moved(r, p, q) = Append(y, e)
      BY <1>1, <2>1, MovedFacts
    <2>5. y \in TreePaths /\ IsPrefix(q, y)
      BY <1>1, <2>1, MovedIs
    <2> HIDE DEF r, y
    <2> DEFINE x == Append(y, e)
    <2>6. /\ x \in TreePaths /\ Len(x) = Len(y) + 1 /\ Len(y) \in Nat
          /\ IsPrefix(q, x) /\ Len(q) <= Len(y) /\ Len(q) \in Nat
      BY <2>5, AppendIs, EntryPath, PrefixOrder, PrefixIs
    <2>7. x # q
      BY <2>6
    <2> HIDE DEF x
    <2>8. x \notin DOMAIN S
      BY <2>6, <2>7
    <2>9. Follow(S, x) = x
      BY <2>8 DEF Follow, Kind, Has
    <2> QED BY <2>3, <2>4, <2>9 DEF x, r
  <1> SUFFICES ASSUME NEW r \in Under(S, p) PROVE Right(r)
    OBVIOUS
  <1> HIDE DEF Right
  <1>5. r \in TreePaths /\ r \in DOMAIN S /\ IsPrefix(p, r) /\ Len(r) \in Nat /\ Len(p) <= Len(r)
    BY <1>1, TreeShape, PrefixIs, PrefixOrder DEF Under
  <1> DEFINE m == Len(r) - Len(p)
             At(i) == SubSeq(r, 1, Len(p) + i)
             T == {i \in 0..m : At(i) \in Under(S, p) /\ Right(At(i))}
  <1>6. m \in Nat
    BY <1>5, <1>1
  <1>7. At(0) = p
    <2>1. /\ SubSeq(r, 1, Len(p)) \in Seq(Names) /\ Len(SubSeq(r, 1, Len(p))) = Len(p)
          /\ \A i \in 1..Len(p) : SubSeq(r, 1, Len(p))[i] = r[i]
      BY <1>1, <1>5 DEF TreePaths
    <2>2. \A i \in 1..Len(p) : p[i] = r[i]
      BY <1>1, <1>5, PrefixIs
    <2>3. SubSeq(r, 1, Len(p)) = p
      BY <1>1, <2>1, <2>2, SeqEqual DEF TreePaths
    <2>4. Len(p) + 0 = Len(p)
      BY <1>1
    <2> QED BY <2>3, <2>4
  <1>8. At(m) = r
    <2>1. /\ SubSeq(r, 1, Len(r)) \in Seq(Names) /\ Len(SubSeq(r, 1, Len(r))) = Len(r)
          /\ \A i \in 1..Len(r) : SubSeq(r, 1, Len(r))[i] = r[i]
      BY <1>5 DEF TreePaths
    <2>2. SubSeq(r, 1, Len(r)) = r
      BY <1>5, <2>1, SeqEqual DEF TreePaths
    <2>3. Len(p) + m = Len(r)
      BY <1>1, <1>5
    <2> QED BY <2>2, <2>3
  <1>9. 0 \in T
    <2>1. p \in Under(S, p)
      BY <1>1, PrefixOrder DEF Under
    <2> HIDE DEF At, m
    <2> QED BY <1>3, <1>6, <1>7, <2>1
  <1>10. ASSUME NEW i \in T, i \in 0..m /\ i < m
         PROVE  i + 1 \in T
    <2> DEFINE d == At(i)
    <2>1. d \in Under(S, p) /\ Right(d)
      BY <1>10
    <2>2. d \in TreePaths /\ IsPrefix(p, d) /\ d \in DOMAIN S
      BY <2>1, TreeShape DEF Under
    <2>3. Len(d) = Len(p) + i /\ \A j \in 1..Len(d) : d[j] = r[j]
      <3> DEFINE k == Len(p) + i
      <3>1. k \in 0..Len(r)
        BY <1>1, <1>5, <1>10
      <3> HIDE DEF k
      <3>2. Len(SubSeq(r, 1, k)) = k /\ \A j \in 1..k : SubSeq(r, 1, k)[j] = r[j]
        BY <1>5, <3>1 DEF TreePaths
      <3> QED BY <3>2 DEF k
    <2> HIDE DEF d
    <2>4. i \in Nat /\ Len(d) <= Len(r) /\ Len(d) # Len(r) /\ Len(d) + 1 = Len(p) + (i + 1) /\ i + 1 \in 0..m
      BY <1>1, <1>5, <1>6, <1>10, <2>3
    <2>5. IsPrefix(d, r) /\ d # r
      BY <1>5, <2>2, <2>3, <2>4, PrefixIs
    <2> DEFINE e == r[Len(d) + 1]
    <2>6. e \in Names /\ IsPrefix(Append(d, e), r) /\ Append(d, e) = SubSeq(r, 1, Len(d) + 1)
      BY <1>5, <2>2, <2>5, NextEntry
    <2> HIDE DEF e
    <2>7. Append(d, e) = At(i + 1)
      BY <2>4, <2>6
    <2> HIDE DEF At
    <2> DEFINE y == Append(d, e)
    <2>8. y \in TreePaths /\ IsPrefix(d, y) /\ IsPrefix(y, r)
      BY <2>2, <2>6, EntryPath
    <2> HIDE DEF y
    <2>9. IsPrefix(p, y)
      BY <1>1, <2>2, <2>8, PrefixOrder
    <2>10. y \in DOMAIN S
      BY <1>5, <2>8, TreeShape
    <2>11. y \in Under(S, p) /\ Right(y)
      BY <1>4, <2>1, <2>6, <2>9, <2>10 DEF Under, y
    <2> QED BY <2>4, <2>7, <2>11 DEF y
  <1>11. m \in T
    <2>1. \A i \in T : i \in 0..m /\ i < m => i + 1 \in T
      BY <1>10
    <2> HIDE DEF T, m
    <2>2. 0..m \subseteq T
      BY <1>6, <1>9, <2>1, Numbers
    <2> QED BY <1>6, <2>2
  <1> QED BY <1>8, <1>11

\* A rename takes a subtree to its places and leaves the rest alone.
LEMMA RenameStep ==
    ASSUME NEW S \in Trees, NEW c \in Calls, Treated(S, c), NEW p \in Under(S, c.src), NEW q,
           q = Renaming(S, c, p), NEW fs, DOMAIN fs \subseteq TreePaths,
           \A x \in TreePaths : IsPrefix(p, x) => SameAt(fs, S, x),
           \A r \in Under(S, p) : Renaming(S, c, r) = Moved(r, p, q),
           NEW g, g = Renamed(fs, p, q)
    PROVE  /\ DOMAIN g \subseteq TreePaths
           /\ \A r \in Under(S, p) : Holds(g, Renaming(S, c, r), S[r])
           /\ \A x : ~IsPrefix(p, x) /\ (\A r \in Under(S, p) : x # Renaming(S, c, r)) => SameAt(g, fs, x)
  <1> DEFINE new == {Moved(r, p, q) : r \in Under(fs, p)}
             kept == DOMAIN fs \ (Under(fs, p) \cup {q})
  <1>1. p \in TreePaths /\ p \in DOMAIN S /\ q \in TreePaths
    <2>1. q \in Places(S, c, p)
      BY PlacesOf
    <2> QED BY <2>1, SourceEntry, PlacesApart DEF Treated
  <1>2. Under(fs, p) = Under(S, p)
    <2>1. DOMAIN S \subseteq TreePaths
      BY TreeShape
    <2> QED BY <2>1 DEF Under, SameAt
  <1>3. \A r \in Under(S, p) : r \in TreePaths /\ IsPrefix(p, r) /\ r \in DOMAIN S /\ fs[r] = S[r]
    BY TreeShape DEF Under, SameAt
  <1>4. DOMAIN g = new \cup kept /\ \A x \in new \cup kept : g[x] = IF x \in new THEN fs[Moved(x, q, p)] ELSE fs[x]
    BY DEF Renamed
  <1>5. \A x : x \in new <=> \E r \in Under(S, p) : x = Renaming(S, c, r)
    BY <1>2
  <1>6. \A r \in Under(S, p) : Moved(r, p, q) \in TreePaths /\ Moved(Moved(r, p, q), q, p) = r
    BY <1>1, <1>3, MovedIs, MovedFacts
  <1>7. DOMAIN g \subseteq TreePaths
    BY <1>2, <1>4, <1>6
  <1>8. ASSUME NEW r \in Under(S, p)
        PROVE  Holds(g, Renaming(S, c, r), S[r])
    <2>1. Renaming(S, c, r) \in new
      BY <1>5
    <2>2. g[Renaming(S, c, r)] = fs[Moved(Moved(r, p, q), q, p)]
      BY <1>4, <2>1
    <2> QED BY <1>3, <1>4, <1>6, <2>1, <2>2 DEF Holds
  <1>9. ASSUME NEW x, ~IsPrefix(p, x), \A r \in Under(S, p) : x # Renaming(S, c, r)
        PROVE  SameAt(g, fs, x)
    <2>1. x \notin new
      BY <1>5, <1>9
    <2>2. p \in Under(S, p)
      BY <1>1, PrefixOrder DEF Under
    <2>3. x # q
      BY <1>9, <2>2
    <2>4. x \notin Under(fs, p)
      BY <1>9 DEF Under
    <2> HIDE DEF new
    <2> QED BY <1>4, <2>1, <2>3, <2>4 DEF SameAt
  <1> QED BY <1>7, <1>8, <1>9

-----------------------------------------------------------------------------
(* Moving *)

\* Changed are the source, the destination and the places of what is not ahead of the walk.
Shifted(fs, S, c, w) ==
    /\ DOMAIN fs \subseteq TreePaths
    /\ \A x : \/ SameAt(fs, S, x) \/ IsPrefix(c.src, x) \/ x = c.dst
              \/ \E p \in Under(S, c.src) : ~Ahead(w, p) /\ x = Renaming(S, c, p)
AheadKept(fs, S, w) == \A x \in TreePaths : Ahead(w, x) => SameAt(fs, S, x)

\* Nothing is lost on the way.
LeafKept(fs, S, c) ==
    \A p \in Under(S, c.src) : S[p].kind # "dir" =>
        Holds(fs, p, S[p]) \/ Holds(fs, Renaming(S, c, p), S[p])

\* What a move keeps to.
MoveInv(fs, S, c, w) ==
    Shifted(fs, S, c, w) /\ WalkDown(S, c, w) /\ AheadKept(fs, S, w) /\ LeafKept(fs, S, c)

\* What is ahead lies in the source.
LEMMA AheadInside ==
    ASSUME NEW S \in Trees, NEW c \in Calls, NEW w, WalkDown(S, c, w), NEW x \in TreePaths, Ahead(w, x)
    PROVE  IsPrefix(c.src, x)
  <1>1. PICK i \in 1..Len(w) : \E e \in w[i].left : IsPrefix(Append(w[i].src, e), x)
    BY DEF Ahead
  <1>2. PICK e \in w[i].left : IsPrefix(Append(w[i].src, e), x)
    BY <1>1
  <1> DEFINE d == w[i].src
             a == Append(d, e)
  <1>3. d \in TreePaths /\ e \in Names /\ IsPrefix(c.src, d) /\ c.src \in TreePaths
    BY WalkFrames, SourceEntry, CallPaths DEF WalkDown
  <1>4. a \in TreePaths /\ IsPrefix(d, a) /\ IsPrefix(a, x)
    BY <1>2, <1>3, EntryPath
  <1> HIDE DEF a, d
  <1>5. IsPrefix(c.src, a)
    BY <1>3, <1>4, PrefixOrder
  <1> QED BY <1>3, <1>4, <1>5, PrefixOrder

\* The places of renamed parts.
LEMMA RenamesApart ==
    ASSUME NEW S \in Trees, NEW c \in Calls, Treated(S, c)
    PROVE  /\ \A p \in Under(S, c.src) : Renaming(S, c, p) \in TreePaths /\ ~IsPrefix(c.src, Renaming(S, c, p))
           /\ \A p, q \in Under(S, c.src) : Renaming(S, c, p) = Renaming(S, c, q) => p = q
           /\ c.src \in Under(S, c.src) /\ Renaming(S, c, c.src) = c.dst
  <1>1. \A p \in Under(S, c.src) : Renaming(S, c, p) \in Places(S, c, p)
    BY PlacesOf
  <1>2. c.src \in Under(S, c.src) /\ Renaming(S, c, c.src) = c.dst
    BY CallPaths, PrefixOrder, InsidePlaces DEF Treated, Has, Under
  <1> QED BY <1>1, <1>2, PlacesApart DEF Treated

\* What the next entry and its place are.
LEMMA MoveEntryFinds ==
    ASSUME NEW S \in Trees, NEW c \in Calls, Treated(S, c), NEW fs, NEW w, w # <<>>,
           MoveInv(fs, S, c, w), NEW e, NEW p, IsEntry(w, e, p), NEW q, IsPlace(w, e, q)
    PROVE  /\ p \in Under(S, c.src) /\ p \in DOMAIN S /\ p \in TreePaths /\ q = Renaming(S, c, p)
           /\ \A x \in TreePaths : IsPrefix(p, x) => SameAt(fs, S, x)
           /\ Kind(fs, p) = S[p].kind
           /\ (Has(fs, q) <=> Has(S, q)) /\ Follow(fs, q) = Inside(S, c, p) /\ Follow(S, q) = Inside(S, c, p)
           /\ ReadsAll(S, p, Entries(fs, p))
  <1>1. WalkDown(S, c, w) /\ Shifted(fs, S, c, w) /\ AheadKept(fs, S, w)
    BY DEF MoveInv
  <1>2. /\ p \in Under(S, c.src) /\ p # c.src /\ p \in DOMAIN S /\ Ahead(w, p) /\ p \in TreePaths
        /\ q = Renaming(S, c, p) /\ Inside(S, c, p) = Follow(S, q)
        /\ \A x : IsPrefix(p, x) => Ahead(w, x)
    BY <1>1, EntryAhead DEF IsPlace
  <1>3. \A x \in TreePaths : IsPrefix(p, x) => SameAt(fs, S, x)
    BY <1>1, <1>2 DEF AheadKept
  <1>4. SameAt(fs, S, p)
    BY <1>2, <1>3, PrefixOrder
  <1>5. SameAt(fs, S, q)
    <2>1. ~IsPrefix(c.src, q) /\ q # c.dst
      BY <1>2, RenamesApart
    <2>2. ASSUME NEW r \in Under(S, c.src), ~Ahead(w, r), q = Renaming(S, c, r)
          PROVE  FALSE
      BY <1>2, <2>2, RenamesApart
    <2> QED BY <1>1, <2>1, <2>2 DEF Shifted
  <1>6. ReadsAll(S, p, Entries(fs, p))
    <2>1. /\ Entries(fs, p) \subseteq Names
          /\ \A f \in Names : f \in Entries(fs, p) <=> Append(p, f) \in DOMAIN fs
      BY <1>1, <1>2, EntriesAre DEF Shifted
    <2>2. ASSUME NEW f \in Names
          PROVE  Append(p, f) \in DOMAIN fs <=> Append(p, f) \in DOMAIN S
      <3>1. SameAt(fs, S, Append(p, f))
        BY <1>2, <1>3, EntryPath
      <3> QED BY <3>1 DEF SameAt
    <2> QED BY <2>1, <2>2 DEF ReadsAll
  <1> QED BY <1>2, <1>3, <1>4, <1>5, <1>6 DEF SameAt, Kind, Has, Follow

\* The walk goes on with nothing changed.
LEMMA MoveOn ==
    ASSUME NEW S, NEW c, NEW fs, NEW w, MoveInv(fs, S, c, w), NEW v, WalkDown(S, c, v),
           \A x \in Under(S, c.src) : Ahead(v, x) => Ahead(w, x),
           \A x \in TreePaths : Ahead(v, x) => Ahead(w, x)
    PROVE  MoveInv(fs, S, c, v)
  BY DEF MoveInv, Shifted, AheadKept

\* The walk enters a directory that is in the destination too.
LEMMA MoveEnters ==
    ASSUME NEW S \in Trees, NEW c \in Calls, Treated(S, c), NEW fs, NEW w, w # <<>>,
           MoveInv(fs, S, c, w), NEW e, NEW p, IsEntry(w, e, p), NEW q, IsPlace(w, e, q),
           Kind(fs, p) = "dir", NEW v, Entered(v, w, e, fs, p, Follow(fs, q))
    PROVE  MoveInv(fs, S, c, v) /\ v # <<>>
  <1>1. WalkDown(S, c, w)
    BY DEF MoveInv
  <1>2. S[p].kind = "dir" /\ Follow(fs, q) = Inside(S, c, p) /\ ReadsAll(S, p, Entries(fs, p))
    BY MoveEntryFinds
  <1>3. /\ WalkDown(S, c, v) /\ v # <<>>
        /\ \A x \in Under(S, c.src) : Ahead(v, x) <=> Ahead(w, x) /\ x # p
        /\ \A x \in TreePaths : Ahead(v, x) => Ahead(w, x)
    <2> DEFINE L == Entries(fs, p)
    <2>1. Deeper(v, w, e, p, Inside(S, c, p), L) /\ ReadsAll(S, p, L)
      BY <1>2 DEF Frame, Entered, Deeper
    <2> HIDE DEF L
    <2> QED BY <1>1, <1>2, <2>1, WalkEnter
  <1>4. \A x \in TreePaths : Ahead(v, x) => Ahead(w, x)
    BY <1>3
  <1> QED BY <1>3, <1>4, MoveOn

\* An entry is renamed with all that is in it.
LEMMA MoveRenames ==
    ASSUME NEW S \in Trees, NEW c \in Calls, Treated(S, c), NEW fs, NEW w, w # <<>>,
           MoveInv(fs, S, c, w), NEW e, NEW p, IsEntry(w, e, p), NEW q, IsPlace(w, e, q),
           ~(Kind(fs, p) = "dir" /\ Has(fs, q)), NEW g, g = Renamed(fs, p, q)
    PROVE  MoveInv(g, S, c, RestOf(w, e)) /\ RestOf(w, e) # <<>>
  <1> DEFINE v == RestOf(w, e)
  <1>1. WalkDown(S, c, w) /\ Shifted(fs, S, c, w) /\ AheadKept(fs, S, w) /\ LeafKept(fs, S, c)
    BY DEF MoveInv
  <1>2. /\ p \in Under(S, c.src) /\ p \in DOMAIN S /\ p \in TreePaths /\ q = Renaming(S, c, p)
        /\ \A x \in TreePaths : IsPrefix(p, x) => SameAt(fs, S, x)
        /\ Kind(fs, p) = S[p].kind /\ (Has(fs, q) <=> Has(S, q)) /\ Follow(S, q) = Inside(S, c, p)
    BY MoveEntryFinds
  <1>3. /\ WalkDown(S, c, v) /\ v # <<>>
        /\ \A x \in TreePaths : Ahead(v, x) <=> Ahead(w, x) /\ ~IsPrefix(p, x)
    BY <1>1, WalkRest
  <1> HIDE DEF v
  <1>4. q \in TreePaths /\ ~IsPrefix(c.src, q)
    BY <1>2, RenamesApart
  <1>5. \A r \in Under(S, p) : Renaming(S, c, r) = Moved(r, p, q)
    <2>1. CASE S[p].kind # "dir"
      <3>1. \A r \in Under(S, p) : r = p
        BY <1>2, <2>1, TreeShape DEF Under
      <3>2. Moved(p, p, q) = q
        BY <1>2, <1>4, MovedFacts, PrefixOrder
      <3> QED BY <1>2, <3>1, <3>2
    <2>2. CASE S[p].kind = "dir"
      <3>1. ~Has(S, q)
        BY <1>2, <2>2
      <3>2. Inside(S, c, p) = q
        BY <1>2, <3>1 DEF Follow, Kind
      <3>3. \A x \in DOMAIN S : IsPrefix(q, x) => x = q
        BY <1>4, <3>1, TreeShape DEF Has
      <3> QED BY <1>2, <1>4, <3>2, <3>3, RenamedWith
    <2> QED BY <2>1, <2>2
  <1>6. /\ DOMAIN g \subseteq TreePaths
        /\ \A r \in Under(S, p) : Holds(g, Renaming(S, c, r), S[r])
        /\ \A x : ~IsPrefix(p, x) /\ (\A r \in Under(S, p) : x # Renaming(S, c, r)) => SameAt(g, fs, x)
    <2>1. DOMAIN fs \subseteq TreePaths
      BY <1>1 DEF Shifted
    <2> QED BY <1>2, <1>5, <2>1, RenameStep
  <1>7. \A x \in TreePaths : IsPrefix(p, x) => IsPrefix(c.src, x)
    BY <1>2, SourceEntry, CallPaths, PrefixOrder
  <1>8. \A r \in Under(S, p) : r \in Under(S, c.src) /\ IsPrefix(p, r) /\ r \in TreePaths
    BY <1>7, TreeShape DEF Under
  <1>9. \A r \in Under(S, p) : Renaming(S, c, r) \in TreePaths /\ ~IsPrefix(c.src, Renaming(S, c, r))
    BY <1>8, RenamesApart
  <1>10. Shifted(g, S, c, v)
    <2>1. ASSUME NEW x
          PROVE  \/ SameAt(g, S, x) \/ IsPrefix(c.src, x) \/ x = c.dst
                 \/ \E r \in Under(S, c.src) : ~Ahead(v, r) /\ x = Renaming(S, c, r)
      <3>1. CASE x \notin TreePaths
        BY <1>6, <3>1, TreeShape DEF SameAt
      <3>2. CASE x \in TreePaths /\ IsPrefix(p, x)
        BY <1>7, <3>2
      <3>3. CASE \E r \in Under(S, p) : x = Renaming(S, c, r)
        BY <1>3, <1>8, <3>3
      <3>4. CASE ~IsPrefix(p, x) /\ \A r \in Under(S, p) : x # Renaming(S, c, r)
        <4>1. SameAt(g, fs, x)
          BY <1>6, <3>4
        <4>2. CASE SameAt(fs, S, x)
          BY <4>1, <4>2 DEF SameAt
        <4>3. CASE \E r \in Under(S, c.src) : ~Ahead(w, r) /\ x = Renaming(S, c, r)
          <5>1. PICK r \in Under(S, c.src) : ~Ahead(w, r) /\ x = Renaming(S, c, r)
            BY <4>3
          <5>2. ~Ahead(v, r)
            BY <1>3, <5>1, SourceEntry
          <5> QED BY <5>1, <5>2
        <4> QED BY <1>1, <4>2, <4>3 DEF Shifted
      <3> QED BY <3>1, <3>2, <3>3, <3>4
    <2> QED BY <1>6, <2>1 DEF Shifted
  <1>11. AheadKept(g, S, v)
    <2> SUFFICES ASSUME NEW x \in TreePaths, Ahead(v, x) PROVE SameAt(g, S, x)
      BY DEF AheadKept
    <2>1. Ahead(w, x) /\ ~IsPrefix(p, x)
      BY <1>3
    <2>2. IsPrefix(c.src, x)
      BY <1>1, <2>1, AheadInside
    <2>3. SameAt(g, fs, x)
      BY <1>6, <1>9, <2>1, <2>2
    <2>4. SameAt(fs, S, x)
      BY <1>1, <2>1 DEF AheadKept
    <2> QED BY <2>3, <2>4 DEF SameAt
  <1>12. LeafKept(g, S, c)
    <2> SUFFICES ASSUME NEW r \in Under(S, c.src), S[r].kind # "dir"
                 PROVE  Holds(g, r, S[r]) \/ Holds(g, Renaming(S, c, r), S[r])
      BY DEF LeafKept
    <2>1. r \in TreePaths /\ r \in DOMAIN S /\ IsPrefix(c.src, r)
      BY SourceEntry
    <2>2. CASE IsPrefix(p, r)
      <3>1. r \in Under(S, p)
        BY <2>1, <2>2 DEF Under
      <3> QED BY <1>6, <3>1
    <2>3. CASE ~IsPrefix(p, r) /\ Holds(fs, r, S[r])
      <3>1. SameAt(g, fs, r)
        BY <1>6, <1>9, <2>1, <2>3
      <3> QED BY <2>3, <3>1 DEF Holds, SameAt
    <2>4. CASE ~IsPrefix(p, r) /\ Holds(fs, Renaming(S, c, r), S[r])
      <3>1. Renaming(S, c, r) \in TreePaths /\ ~IsPrefix(c.src, Renaming(S, c, r))
        BY RenamesApart
      <3>2. ~IsPrefix(p, Renaming(S, c, r))
        BY <1>7, <3>1
      <3>3. \A m \in Under(S, p) : Renaming(S, c, r) # Renaming(S, c, m)
        BY <1>8, <2>4, RenamesApart
      <3>4. SameAt(g, fs, Renaming(S, c, r))
        BY <1>6, <3>2, <3>3
      <3> QED BY <2>4, <3>4 DEF Holds, SameAt
    <2> QED BY <1>1, <2>2, <2>3, <2>4 DEF LeafKept
  <1>13. MoveInv(g, S, c, v)
    BY <1>3, <1>10, <1>11, <1>12 DEF MoveInv
  <1> QED BY <1>3, <1>13 DEF v

\* An emptied directory is removed, and the rest of the one around it given up.
LEMMA MoveLeaves ==
    ASSUME NEW S \in Trees, NEW c \in Calls, Treated(S, c), NEW fs, NEW w, w # <<>>,
           MoveInv(fs, S, c, w), Last(w).left = {}, Front(w) # <<>>,
           NEW g, g = Unlinked(fs, {Last(w).src})
    PROVE  MoveInv(g, S, c, CutOff(Front(w))) /\ CutOff(Front(w)) # <<>>
  <1> DEFINE u == Front(w)
             v == CutOff(u)
             p == Last(w).src
  <1>1. WalkDown(S, c, w) /\ Shifted(fs, S, c, w) /\ AheadKept(fs, S, w) /\ LeafKept(fs, S, c)
    BY DEF MoveInv
  <1>2. WalkDown(S, c, u) /\ u # <<>> /\ \A x : Ahead(u, x) <=> Ahead(w, x)
    BY <1>1, WalkLeave
  <1>3. p \in Under(S, c.src) /\ S[p].kind = "dir" /\ InWalk(w, p)
    BY <1>1, WalkTop
  <1>4. p \in TreePaths /\ ~Ahead(w, p) /\ IsPrefix(c.src, p)
    BY <1>1, <1>3, InOrAhead, SourceEntry
  <1> HIDE DEF p, u
  <1>5. WalkDown(S, c, v) /\ v # <<>> /\ \A x : Ahead(v, x) => Ahead(u, x)
    BY <1>2, WalkCut
  <1> HIDE DEF v
  <1>6. OnlyAt(fs, g, p)
    BY <1>4, Changes DEF p
  <1>7. \A x : x # p => SameAt(g, fs, x)
    BY <1>6 DEF OnlyAt
  <1>8. DOMAIN g \subseteq TreePaths
    BY <1>1, <1>4, <1>7 DEF Shifted, SameAt
  <1>9. Shifted(g, S, c, v)
    <2>1. ASSUME NEW x, x # p
          PROVE  \/ SameAt(g, S, x) \/ IsPrefix(c.src, x) \/ x = c.dst
                 \/ \E r \in Under(S, c.src) : ~Ahead(v, r) /\ x = Renaming(S, c, r)
      <3>1. SameAt(g, fs, x)
        BY <1>7, <2>1
      <3>2. CASE SameAt(fs, S, x)
        BY <3>1, <3>2 DEF SameAt
      <3>3. CASE \E r \in Under(S, c.src) : ~Ahead(w, r) /\ x = Renaming(S, c, r)
        BY <1>2, <1>5, <3>3
      <3> QED BY <1>1, <3>2, <3>3 DEF Shifted
    <2> QED BY <1>4, <1>8, <2>1 DEF Shifted
  <1>10. AheadKept(g, S, v)
    BY <1>1, <1>2, <1>4, <1>5, <1>7 DEF AheadKept, SameAt
  <1>11. LeafKept(g, S, c)
    <2> SUFFICES ASSUME NEW r \in Under(S, c.src), S[r].kind # "dir"
                 PROVE  Holds(g, r, S[r]) \/ Holds(g, Renaming(S, c, r), S[r])
      BY DEF LeafKept
    <2>1. r # p /\ Renaming(S, c, r) # p
      BY <1>3, <1>4, RenamesApart
    <2> QED BY <1>1, <1>7, <2>1 DEF LeafKept, Holds, SameAt
  <1> QED BY <1>5, <1>9, <1>10, <1>11 DEF MoveInv, v, u

\* The walk begins.
LEMMA MoveStart ==
    ASSUME NEW S \in Trees, NEW c \in Calls, Treated(S, c), c.op = "move", S[c.src].kind = "dir",
           NEW v, v = Append(<<>>, Frame(S, c.src, c.dst))
    PROVE  MoveInv(S, S, c, v) /\ v # <<>>
  <1>1. c.src \in DOMAIN S /\ c.src \in TreePaths /\ Base(S, c) = c.dst /\ DOMAIN S \subseteq TreePaths
    BY CallPaths, TreeShape DEF Treated, Has, Base
  <1>2. ReadsAll(S, c.src, Entries(S, c.src))
    BY <1>1, EntriesAre DEF ReadsAll
  <1>3. WalkDown(S, c, v) /\ v # <<>>
    <2>1. v = Append(<<>>, [src |-> c.src, dst |-> Base(S, c), left |-> Entries(S, c.src)])
      BY <1>1 DEF Frame
    <2> QED BY <1>1, <1>2, <2>1, WalkStart
  <1>4. \A p \in Under(S, c.src) : p \in DOMAIN S
    BY DEF Under
  <1> QED BY <1>1, <1>3, <1>4 DEF MoveInv, Shifted, AheadKept, LeafKept, SameAt, Holds

\* The whole source is renamed to where no directory is.
LEMMA MoveAtOnce ==
    ASSUME NEW S \in Trees, NEW c \in Calls, Treated(S, c), c.op = "move", Kind(S, c.dst) # "dir",
           NEW g, g = Renamed(Unlinked(S, {c.dst}), c.src, c.dst)
    PROVE  MoveInv(g, S, c, <<>>)
  <1> DEFINE p == c.src
             q == c.dst
             fs == Unlinked(S, {q})
  <1>1. /\ p \in TreePaths /\ q \in TreePaths /\ p \in Under(S, c.src) /\ p \in DOMAIN S
        /\ Renaming(S, c, p) = q /\ ~IsPrefix(p, q) /\ Inside(S, c, p) = q
    BY CallPaths, RenamesApart, InsidePlaces DEF Under, Base
  <1>2. \A x \in DOMAIN S : IsPrefix(q, x) => x = q
    BY <1>1, TreeShape DEF Kind, Has
  <1>3. \A x : x # q => SameAt(fs, S, x)
    BY <1>1, Changes DEF OnlyAt
  <1>4. \A x \in TreePaths : IsPrefix(p, x) => SameAt(fs, S, x)
    BY <1>1, <1>3
  <1>5. DOMAIN fs \subseteq TreePaths
    BY TreeShape DEF Unlinked
  <1>6. \A r \in Under(S, p) : Renaming(S, c, r) = Moved(r, p, q)
    BY <1>1, <1>2, RenamedWith
  <1> HIDE DEF fs
  <1>7. /\ DOMAIN g \subseteq TreePaths
        /\ \A r \in Under(S, p) : Holds(g, Renaming(S, c, r), S[r])
        /\ \A x : ~IsPrefix(p, x) /\ (\A r \in Under(S, p) : x # Renaming(S, c, r)) => SameAt(g, fs, x)
    <2>1. g = Renamed(fs, p, q)
      BY DEF fs
    <2> QED BY <1>1, <1>4, <1>5, <1>6, <2>1, RenameStep
  <1>8. \A x : ~Ahead(<<>>, x)
    BY DEF Ahead
  <1>9. WalkDown(S, c, <<>>)
    BY DEF WalkDown
  <1>10. Shifted(g, S, c, <<>>)
    <2>1. ASSUME NEW x
          PROVE  \/ SameAt(g, S, x) \/ IsPrefix(c.src, x) \/ x = c.dst
                 \/ \E r \in Under(S, c.src) : ~Ahead(<<>>, r) /\ x = Renaming(S, c, r)
      <3>1. CASE \E r \in Under(S, p) : x = Renaming(S, c, r)
        BY <1>8, <3>1
      <3>2. CASE ~IsPrefix(p, x) /\ (\A r \in Under(S, p) : x # Renaming(S, c, r)) /\ x # q
        <4>1. SameAt(g, fs, x) /\ SameAt(fs, S, x)
          BY <1>3, <1>7, <3>2
        <4> QED BY <4>1 DEF SameAt
      <3> QED BY <3>1, <3>2
    <2> QED BY <1>7, <2>1 DEF Shifted
  <1>11. LeafKept(g, S, c)
    BY <1>7 DEF LeafKept
  <1> QED BY <1>8, <1>9, <1>10, <1>11 DEF MoveInv, AheadKept

-----------------------------------------------------------------------------
(* Removing *)

\* A removal goes down from the removed path.
RemoveWalk(c, w) ==
    /\ w \in Seq(Frames)
    /\ w # <<>> => w[1].src = c.src
    /\ \A i \in 1..Len(w) : IsPrefix(c.src, w[i].src)

\* What a removal keeps to: only what is in the removed path has gone.
RemoveInv(fs, S, c, w, r) ==
    /\ \A x \in DOMAIN S : ~IsPrefix(c.src, x) => Holds(fs, x, S[x])
    /\ DOMAIN fs \subseteq DOMAIN S
    /\ RemoveWalk(c, w)
    /\ r = "ok" => Under(fs, c.src) = {}

\* The innermost directory of a removal is in the removed path.
LEMMA RemoveTop ==
    ASSUME NEW c \in Calls, NEW w, RemoveWalk(c, w), w # <<>>
    PROVE  /\ Len(w) \in Nat /\ Len(w) \in 1..Len(w) /\ 1 \in 1..Len(w) /\ Last(w) = w[Len(w)]
           /\ Last(w).src \in TreePaths /\ Last(w).left \subseteq Names /\ IsPrefix(c.src, Last(w).src)
  <1>1. w \in Seq(Frames)
    BY DEF RemoveWalk
  <1>2. Len(w) \in Nat /\ Len(w) \in 1..Len(w) /\ 1 \in 1..Len(w)
    BY <1>1
  <1>3. Last(w) = w[Len(w)]
    BY DEF Last
  <1>4. Last(w) \in Frames
    BY <1>1, <1>2, <1>3
  <1>5. Last(w).src \in TreePaths /\ Last(w).left \subseteq Names
    BY <1>4 DEF Frames
  <1>6. IsPrefix(c.src, Last(w).src)
    BY <1>2, <1>3 DEF RemoveWalk
  <1> QED BY <1>2, <1>3, <1>5, <1>6

\* A removal done with an entry,
LEMMA RemoveRest ==
    ASSUME NEW c \in Calls, NEW w, RemoveWalk(c, w), w # <<>>, NEW e
    PROVE  RemoveWalk(c, RestOf(w, e)) /\ RestOf(w, e) # <<>>
  <1> DEFINE n == Len(w)
             r == RestOf(w, e)
  <1>1. n \in Nat /\ n \in 1..n /\ 1 \in 1..n /\ w \in Seq(Frames)
    BY RemoveTop DEF RemoveWalk
  <1>2. w[n] \in Frames
    BY <1>1
  <1>3. [w[n] EXCEPT !.left = @ \ {e}] \in Frames
    BY <1>2 DEF Frames
  <1>4. r = [w EXCEPT ![n] = [w[n] EXCEPT !.left = @ \ {e}]]
    BY DEF RestOf
  <1> HIDE DEF r, n
  <1>5. /\ r \in Seq(Frames) /\ Len(r) = n
        /\ \A i \in 1..n : r[i] = IF i = n THEN [w[n] EXCEPT !.left = @ \ {e}] ELSE w[i]
    <2>1. \A g \in Frames :
             /\ [w EXCEPT ![n] = g] \in Seq(Frames) /\ Len([w EXCEPT ![n] = g]) = n
             /\ \A i \in 1..n : [w EXCEPT ![n] = g][i] = IF i = n THEN g ELSE w[i]
      BY <1>1, ExceptSeq DEF n
    <2> QED BY <1>3, <1>4, <2>1
  <1>6. \A i \in 1..n : r[i].src = w[i].src
    <2>1. ASSUME NEW i \in 1..n PROVE r[i].src = w[i].src
      <3>1. CASE i = n
        BY <1>2, <1>5, <3>1 DEF Frames
      <3>2. CASE i # n
        BY <1>5, <3>2
      <3> QED BY <3>1, <3>2
    <2> QED BY <2>1
  <1>7. RemoveWalk(c, r)
    BY <1>1, <1>5, <1>6 DEF RemoveWalk, n
  <1>8. r # <<>>
    BY <1>1, <1>5
  <1> QED BY <1>7, <1>8 DEF r

\* entering one,
LEMMA RemoveDeeper ==
    ASSUME NEW c \in Calls, NEW w, RemoveWalk(c, w), NEW f \in Frames, IsPrefix(c.src, f.src),
           w = <<>> => f.src = c.src
    PROVE  RemoveWalk(c, Append(w, f)) /\ Append(w, f) # <<>>
  <1> DEFINE n == Len(w)
             r == Append(w, f)
  <1>1. w \in Seq(Frames) /\ n \in Nat
    BY DEF RemoveWalk
  <1>2. r \in Seq(Frames) /\ Len(r) = n + 1 /\ r[n + 1] = f /\ r # <<>>
    BY <1>1, AppendProperties
  <1>3. \A i \in 1..n : r[i] = w[i]
    BY <1>1, AppendProperties
  <1> HIDE DEF r
  <1>4. \A i \in 1..(n + 1) : i \in 1..n \/ i = n + 1
    BY <1>1
  <1>5. r[1].src = c.src
    <2>1. CASE w = <<>>
      BY <1>2, <2>1
    <2>2. CASE w # <<>>
      <3>1. 1 \in 1..n
        BY <1>1, <2>2
      <3> QED BY <1>3, <2>2, <3>1 DEF RemoveWalk
    <2> QED BY <2>1, <2>2
  <1>6. \A i \in 1..Len(r) : IsPrefix(c.src, r[i].src)
    BY <1>2, <1>3, <1>4 DEF RemoveWalk
  <1> QED BY <1>2, <1>5, <1>6 DEF RemoveWalk, r

\* and leaving a directory: the outermost one is the removed path.
LEMMA RemoveFront ==
    ASSUME NEW c \in Calls, NEW w, RemoveWalk(c, w), w # <<>>
    PROVE  RemoveWalk(c, Front(w)) /\ (Front(w) = <<>> => Last(w).src = c.src)
  <1> DEFINE n == Len(w)
             v == Front(w)
  <1>1. n \in Nat /\ n \in 1..n /\ 1 \in 1..n /\ Last(w) = w[n] /\ w \in Seq(Frames) /\ n - 1 \in Nat
    BY RemoveTop DEF RemoveWalk
  <1>2. v = SubSeq(w, 1, n - 1)
    BY DEF Front
  <1>3. v \in Seq(Frames) /\ Len(v) = n - 1 /\ \A i \in 1..(n - 1) : v[i] = w[i]
    <2> DEFINE m == n - 1
    <2>1. m \in Nat /\ \A i \in 1..m : w[i] \in Frames
      BY <1>1
    <2> HIDE DEF m, n, v
    <2>2. /\ SubSeq(w, 1, m) \in Seq(Frames)
          /\ Len(SubSeq(w, 1, m)) = IF 1 <= m THEN m - 1 + 1 ELSE 0
          /\ \A i \in 1..(m - 1 + 1) : SubSeq(w, 1, m)[i] = w[1 + i - 1]
      BY <2>1, SubSeqProperties
    <2>3. v = SubSeq(w, 1, m)
      BY <1>2 DEF m
    <2>4. Len(v) = m /\ \A i \in 1..m : v[i] = w[i]
      BY <2>1, <2>2, <2>3
    <2> QED BY <2>2, <2>3, <2>4 DEF m
  <1> HIDE DEF v, n
  <1>4. 1..(n - 1) \subseteq 1..n
    BY <1>1
  <1>5. v # <<>> => 1 \in 1..(n - 1)
    BY <1>1, <1>3
  <1>6. v = <<>> => n = 1
    BY <1>1, <1>3
  <1>7. RemoveWalk(c, v)
    <2>1. v # <<>> => v[1].src = c.src
      BY <1>3, <1>5 DEF RemoveWalk
    <2> QED BY <1>3, <1>4, <2>1 DEF RemoveWalk, n
  <1>8. v = <<>> => Last(w).src = c.src
    BY <1>1, <1>6 DEF RemoveWalk
  <1> QED BY <1>7, <1>8 DEF v

\* Something in the removed path goes.
LEMMA RemoveUnlinks ==
    ASSUME NEW S \in Trees, NEW c \in Calls, NEW fs, NEW w, NEW r, RemoveInv(fs, S, c, w, r),
           NEW p \in TreePaths, IsPrefix(c.src, p), NEW g, g = Unlinked(fs, {p}),
           NEW v, RemoveWalk(c, v), NEW s,
           s = "ok" => p = c.src /\ Below(fs, p) = {}
    PROVE  RemoveInv(g, S, c, v, s)
  <1>1. DOMAIN g = DOMAIN fs \ {p} /\ \A x \in DOMAIN g : g[x] = fs[x]
    BY DEF Unlinked
  <1>2. \A x \in DOMAIN S : ~IsPrefix(c.src, x) => Holds(g, x, S[x])
    BY <1>1 DEF RemoveInv, Holds
  <1>3. DOMAIN g \subseteq DOMAIN S
    BY <1>1 DEF RemoveInv
  <1>4. s = "ok" => Under(g, c.src) = {}
    BY <1>1 DEF Under, Below
  <1> QED BY <1>2, <1>3, <1>4 DEF RemoveInv

\* A directory to be removed is entered, nothing has changed.
LEMMA RemoveEnters ==
    ASSUME NEW S \in Trees, NEW c \in Calls, NEW fs, NEW w, NEW r, RemoveInv(fs, S, c, w, r),
           NEW v, RemoveWalk(c, v), NEW p \in TreePaths, IsPrefix(c.src, p), v = <<>> => p = c.src,
           NEW u, u = Append(v, Frame(fs, p, p))
    PROVE  RemoveInv(fs, S, c, u, "walking") /\ u # <<>>
  <1>1. DOMAIN fs \subseteq TreePaths
    BY TreeShape DEF RemoveInv
  <1>2. Entries(fs, p) \subseteq Names
    BY <1>1, EntriesAre
  <1> DEFINE f == Frame(fs, p, p)
  <1>3. f \in Frames /\ f.src = p
    BY <1>2 DEF Frame, Frames
  <1> HIDE DEF f
  <1>4. RemoveWalk(c, Append(v, f)) /\ Append(v, f) # <<>>
    BY <1>3, RemoveDeeper
  <1>5. RemoveWalk(c, u) /\ u # <<>>
    BY <1>4 DEF f
  <1> QED BY <1>5 DEF RemoveInv

-----------------------------------------------------------------------------
(* The inductive invariant *)

\* What the call keeps to, with the walk w and the result r,
OpInv(fs, S, c, w, r) ==
    /\ c.op = "remove" => RemoveInv(fs, S, c, w, r)
    /\ c.op = "mkdirs" => \A x \in DOMAIN S : Holds(fs, x, S[x])
    /\ c.op \in {"copy", "link"} => CopyInv(fs, S, c, w, r)
    /\ c.op = "move" => MoveInv(fs, S, c, w)

\* in the states of the specification.
TreeInv ==
    /\ ftStart \in Trees /\ ftCall \in Calls
    /\ ftResult \in {"none", "walking", "ok", "err"}
    /\ ftResult = "walking" <=> ftWalk # <<>>
    /\ ftResult = "none" => ftFs = ftStart
    /\ OpInv(ftFs, ftStart, ftCall, ftWalk, ftResult)

\* How an action ends.
LEMMA FinishKeeps ==
    ASSUME TreeInv, NEW g, NEW r \in {"ok", "err"}, Finish(g, r), OpInv(g, ftStart, ftCall, <<>>, r)
    PROVE  TreeInv'
  <1>1. ftFs' = g /\ ftResult' = r /\ ftWalk' = <<>> /\ ftStart' = ftStart /\ ftCall' = ftCall
    BY DEF Finish
  <1>2. OpInv(ftFs', ftStart', ftCall', ftWalk', ftResult')
    BY <1>1
  <1> QED BY <1>1, <1>2 DEF TreeInv

\* A step on to the walk v.
Goes(g, v) == ftFs' = g /\ ftWalk' = v /\ ftResult' = "walking" /\ UNCHANGED <<ftStart, ftCall>>

\* An action that goes into a directory keeps the invariant,
LEMMA DescendKeeps ==
    ASSUME TreeInv, NEW g, NEW v, Goes(g, v), v # <<>>, OpInv(g, ftStart, ftCall, v, "walking")
    PROVE  TreeInv'
  <1>1. ftFs' = g /\ ftResult' = "walking" /\ ftWalk' = v /\ ftStart' = ftStart /\ ftCall' = ftCall
    BY DEF Goes
  <1>2. OpInv(ftFs', ftStart', ftCall', ftWalk', ftResult')
    BY <1>1
  <1> QED BY <1>1, <1>2 DEF TreeInv

\* so does one that goes on with the next entry,
LEMMA OnToKeeps ==
    ASSUME TreeInv, ftResult = "walking", NEW g, NEW v, OnTo(g, v), v # <<>>,
           OpInv(g, ftStart, ftCall, v, "walking")
    PROVE  TreeInv'
  <1>1. ftFs' = g /\ ftResult' = "walking" /\ ftWalk' = v /\ ftStart' = ftStart /\ ftCall' = ftCall
    BY DEF OnTo
  <1>2. OpInv(ftFs', ftStart', ftCall', ftWalk', ftResult')
    BY <1>1
  <1> QED BY <1>1, <1>2 DEF TreeInv

\* and one that leaves a directory.
LEMMA ReturnKeeps ==
    ASSUME TreeInv, ftResult = "walking", NEW g, NEW v, ReturnFrom(g, v),
           OpInv(g, ftStart, ftCall, v, IF v = <<>> THEN "ok" ELSE "walking")
    PROVE  TreeInv'
  <1>1. CASE v = <<>>
    BY <1>1, FinishKeeps DEF ReturnFrom
  <1>2. CASE v # <<>>
    BY <1>2, OnToKeeps DEF ReturnFrom
  <1> QED BY <1>1, <1>2

\* Before a call has done anything.
LEMMA Idle ==
    ASSUME NEW S \in Trees, NEW c \in Calls, NEW r, r \in {"none", "err"}
    PROVE  OpInv(S, S, c, <<>>, r)
  <1>1. DOMAIN S \subseteq TreePaths
    BY TreeShape
  <1>2. \A x : ~Ahead(<<>>, x) /\ ~InWalk(<<>>, x)
    BY DEF Ahead, InWalk
  <1>3. WalkDown(S, c, <<>>) /\ RemoveWalk(c, <<>>)
    BY DEF WalkDown, RemoveWalk
  <1>4. RemoveInv(S, S, c, <<>>, r)
    BY <1>3 DEF RemoveInv, Holds
  <1>5. CopyInv(S, S, c, <<>>, r)
    BY <1>1, <1>2, <1>3 DEF CopyInv, Touched, MadeDirs, SameAt
  <1>6. MoveInv(S, S, c, <<>>)
    BY <1>1, <1>2, <1>3 DEF MoveInv, Shifted, AheadKept, LeafKept, SameAt, Holds, Under
  <1> QED BY <1>4, <1>5, <1>6 DEF OpInv, Holds

\* A walk that is given up leaves what it has done.
LEMMA GivenUp ==
    ASSUME NEW S \in Trees, NEW c \in Calls, NEW fs, NEW w, NEW r, OpInv(fs, S, c, w, r)
    PROVE  OpInv(fs, S, c, <<>>, "err")
  <1>1. \A x : ~Ahead(<<>>, x) /\ ~InWalk(<<>>, x)
    BY DEF Ahead, InWalk
  <1>2. WalkDown(S, c, <<>>) /\ RemoveWalk(c, <<>>)
    BY DEF WalkDown, RemoveWalk
  <1>3. c.op = "remove" => RemoveInv(fs, S, c, <<>>, "err")
    BY <1>2 DEF OpInv, RemoveInv
  <1>4. CopyInv(fs, S, c, w, r) => CopyInv(fs, S, c, <<>>, "err")
    BY <1>1, <1>2 DEF CopyInv, Touched, MadeDirs
  <1>5. MoveInv(fs, S, c, w) => MoveInv(fs, S, c, <<>>)
    BY <1>1, <1>2 DEF MoveInv, Shifted, AheadKept
  <1> QED BY <1>3, <1>4, <1>5 DEF OpInv

-----------------------------------------------------------------------------
(* The actions *)

\* Utf8CStr::remove_all removes what is no directory at once.
LEMMA RemoveAllKeeps ==
    ASSUME TreeInv, remove_all
    PROVE  TreeInv'
  <1> DEFINE S == ftStart
             c == ftCall
             p == ftCall.src
  <1>1. S \in Trees /\ c \in Calls /\ ftFs = S /\ c.op = "remove" /\ ftResult = "none" /\ ftWalk = <<>>
    BY DEF TreeInv, remove_all, Called
  <1>2. p \in TreePaths /\ IsPrefix(p, p)
    BY <1>1, CallPaths, PrefixOrder
  <1>3. RemoveInv(ftFs, S, c, <<>>, "none") /\ RemoveWalk(c, <<>>)
    BY <1>1 DEF TreeInv, OpInv, RemoveInv
  <1>4. CASE Kind(ftFs, p) = "none"
    <2>1. Finish(ftFs, "ok")
      BY <1>4 DEF remove_all
    <2>2. p \notin DOMAIN S
      BY <1>1, <1>4, TreeShape DEF Kind, Has
    <2>3. Under(ftFs, p) = {}
      BY <1>1, <1>2, <2>2, TreeShape DEF Under
    <2>4. OpInv(ftFs, S, c, <<>>, "ok")
      BY <1>1, <1>3, <2>3 DEF OpInv, RemoveInv
    <2> QED BY <2>1, <2>4, FinishKeeps
  <1>5. CASE Kind(ftFs, p) = "dir"
    <2>1. Descend(ftFs, <<>>, p, p)
      BY <1>5 DEF remove_all
    <2> DEFINE u == Append(<<>>, Frame(ftFs, p, p))
    <2>2. RemoveInv(ftFs, S, c, u, "walking") /\ u # <<>>
      BY <1>1, <1>2, <1>3, RemoveEnters
    <2> HIDE DEF u
    <2>3. OpInv(ftFs, S, c, u, "walking")
      BY <1>1, <2>2 DEF OpInv
    <2>4. Goes(ftFs, u)
      BY <2>1 DEF u, Descend, Goes
    <2> QED BY <2>2, <2>3, <2>4, DescendKeeps
  <1>6. CASE Kind(ftFs, p) \notin {"none", "dir"}
    <2> DEFINE g == Unlinked(ftFs, {p})
    <2>1. Finish(g, "ok")
      BY <1>6 DEF remove_all
    <2>2. Below(ftFs, p) = {}
      BY <1>1, <1>2, <1>6, TreeShape DEF Below, Under, Kind, Has
    <2>3. RemoveInv(g, S, c, <<>>, "ok")
      BY <1>1, <1>2, <1>3, <2>2, RemoveUnlinks
    <2> HIDE DEF g
    <2>4. OpInv(g, S, c, <<>>, "ok")
      BY <1>1, <2>3 DEF OpInv
    <2> QED BY <2>1, <2>4, FinishKeeps
  <1> QED BY <1>4, <1>5, <1>6

\* Directory::remove_all removes an entry or goes into it, never through a link.
LEMMA RemoveEntryKeeps ==
    ASSUME TreeInv, RemoveEntry
    PROVE  TreeInv'
  <1> DEFINE S == ftStart
             c == ftCall
  <1>1. S \in Trees /\ c \in Calls /\ c.op = "remove" /\ ftResult = "walking" /\ ftWalk # <<>>
    BY DEF TreeInv, RemoveEntry, Walking
  <1>2. RemoveInv(ftFs, S, c, ftWalk, "walking") /\ RemoveWalk(c, ftWalk)
    BY <1>1 DEF TreeInv, OpInv, RemoveInv
  <1>3. PICK e \in Last(ftWalk).left :
          LET p == Append(Last(ftWalk).src, e) IN
          IF Kind(ftFs, p) = "dir" THEN Descend(ftFs, RestOf(ftWalk, e), p, p)
                                   ELSE OnTo(Unlinked(ftFs, {p}), RestOf(ftWalk, e))
    BY DEF RemoveEntry, Top, Rest, RestOf
  <1> DEFINE p == Append(Last(ftWalk).src, e)
             v == RestOf(ftWalk, e)
  <1>4. p \in TreePaths /\ IsPrefix(c.src, p)
    <2>1. Last(ftWalk).src \in TreePaths /\ e \in Names /\ IsPrefix(c.src, Last(ftWalk).src)
      BY <1>1, <1>2, RemoveTop
    <2>2. c.src \in TreePaths
      BY <1>1, CallPaths
    <2> QED BY <2>1, <2>2, EntryPath
  <1>5. RemoveWalk(c, v) /\ v # <<>>
    BY <1>1, <1>2, RemoveRest
  <1>6. IF Kind(ftFs, p) = "dir" THEN Descend(ftFs, v, p, p) ELSE OnTo(Unlinked(ftFs, {p}), v)
    BY <1>3
  <1> HIDE DEF p, v
  <1>7. CASE Kind(ftFs, p) = "dir"
    <2> DEFINE u == Append(v, Frame(ftFs, p, p))
    <2>1. RemoveInv(ftFs, S, c, u, "walking") /\ u # <<>>
      BY <1>1, <1>2, <1>4, <1>5, RemoveEnters
    <2> HIDE DEF u
    <2>2. OpInv(ftFs, S, c, u, "walking")
      BY <1>1, <2>1 DEF OpInv
    <2>3. Goes(ftFs, u)
      BY <1>6, <1>7 DEF u, Descend, Goes
    <2> QED BY <2>1, <2>2, <2>3, DescendKeeps
  <1>8. CASE Kind(ftFs, p) # "dir"
    <2> DEFINE g == Unlinked(ftFs, {p})
    <2>1. RemoveInv(g, S, c, v, "walking")
      BY <1>1, <1>2, <1>4, <1>5, RemoveUnlinks
    <2>2. OnTo(g, v)
      BY <1>6, <1>8
    <2> HIDE DEF g
    <2>3. OpInv(g, S, c, v, "walking")
      BY <1>1, <2>1 DEF OpInv
    <2> QED BY <1>1, <1>5, <2>2, <2>3, OnToKeeps
  <1> QED BY <1>7, <1>8

\* An emptied directory is removed; the outermost one is all that was left.
LEMMA RemoveReturnsKeeps ==
    ASSUME TreeInv, RemoveReturns
    PROVE  TreeInv'
  <1> DEFINE S == ftStart
             c == ftCall
             p == Last(ftWalk).src
             v == Front(ftWalk)
             g == Unlinked(ftFs, {p})
  <1>1. S \in Trees /\ c \in Calls /\ c.op = "remove" /\ ftResult = "walking" /\ ftWalk # <<>>
    BY DEF TreeInv, RemoveReturns, Walking
  <1>2. RemoveInv(ftFs, S, c, ftWalk, "walking") /\ RemoveWalk(c, ftWalk)
    BY <1>1 DEF TreeInv, OpInv, RemoveInv
  <1>3. p \in TreePaths /\ IsPrefix(c.src, p)
    BY <1>1, <1>2, RemoveTop
  <1>4. RemoveWalk(c, v) /\ (v = <<>> => p = c.src)
    BY <1>1, <1>2, RemoveFront
  <1>5. CASE Below(ftFs, p) = {}
    <2> DEFINE s == IF v = <<>> THEN "ok" ELSE "walking"
    <2>1. ReturnFrom(g, v)
      BY <1>5 DEF RemoveReturns, Top
    <2>2. s = "ok" => p = c.src /\ Below(ftFs, p) = {}
      BY <1>4, <1>5
    <2> HIDE DEF s, p, v
    <2>3. RemoveInv(g, S, c, v, s)
      BY <1>1, <1>2, <1>3, <1>4, <2>2, RemoveUnlinks
    <2> HIDE DEF g
    <2>4. OpInv(g, S, c, v, s)
      BY <1>1, <2>3 DEF OpInv
    <2> QED BY <1>1, <2>1, <2>4, ReturnKeeps DEF s
  <1>6. CASE Below(ftFs, p) # {}
    <2>1. Finish(ftFs, "err")
      BY <1>6 DEF RemoveReturns, Top
    <2>2. OpInv(ftFs, S, c, <<>>, "err")
      BY <1>1, GivenUp DEF TreeInv
    <2> QED BY <2>1, <2>2, FinishKeeps
  <1> QED BY <1>5, <1>6

\* Utf8CStr::mkdirs makes what is not there.
LEMMA MkdirsKeeps ==
    ASSUME TreeInv, mkdirs
    PROVE  TreeInv'
  <1>1. ftStart \in Trees /\ ftCall \in Calls /\ ftFs = ftStart /\ ftCall.op = "mkdirs"
    BY DEF TreeInv, mkdirs, Called
  <1>2. \E new, ok : /\ new \cap DOMAIN ftFs = {}
                     /\ Finish([q \in DOMAIN ftFs \cup new |->
                                  IF q \in new THEN FsNode("dir", "none", "fresh") ELSE ftFs[q]],
                               IF ok THEN "ok" ELSE "err")
    <2> DEFINE p == ftCall.src
               bad == {i \in 1..Len(p) - 1 : Kind(ftFs, Follow(ftFs, SubSeq(p, 1, i))) \notin {"dir", "none"}}
               upto == IF bad = {} THEN Len(p) ELSE (CHOOSE i \in bad : \A j \in bad : i <= j)
               new == {SubSeq(p, 1, i) : i \in 1..upto} \ DOMAIN ftFs
               ok == bad = {}
    <2>1. Finish([q \in DOMAIN ftFs \cup new |->
                    IF q \in new THEN FsNode("dir", "none", "fresh") ELSE ftFs[q]],
                 IF ok THEN "ok" ELSE "err")
      BY DEF mkdirs
    <2>2. new \cap DOMAIN ftFs = {}
      OBVIOUS
    <2> HIDE DEF new, ok
    <2> QED BY <2>1, <2>2
  <1>3. PICK new, ok : /\ new \cap DOMAIN ftFs = {}
                       /\ Finish([q \in DOMAIN ftFs \cup new |->
                                    IF q \in new THEN FsNode("dir", "none", "fresh") ELSE ftFs[q]],
                                 IF ok THEN "ok" ELSE "err")
    BY <1>2
  <1> DEFINE g == [q \in DOMAIN ftFs \cup new |->
                     IF q \in new THEN FsNode("dir", "none", "fresh") ELSE ftFs[q]]
             r == IF ok THEN "ok" ELSE "err"
  <1>4. \A x \in DOMAIN ftStart : Holds(g, x, ftStart[x])
    BY <1>1, <1>3 DEF Holds
  <1>5. r \in {"ok", "err"} /\ Finish(g, r)
    BY <1>3
  <1> HIDE DEF g, r
  <1>6. OpInv(g, ftStart, ftCall, <<>>, r)
    BY <1>1, <1>4 DEF OpInv
  <1> QED BY <1>5, <1>6, FinishKeeps

\* An unchanged file system is what a failing call leaves behind, too.
LEMMA FailKeeps ==
    ASSUME TreeInv, Finish(ftFs, "err")
    PROVE  TreeInv'
  <1>1. OpInv(ftFs, ftStart, ftCall, <<>>, "err")
    BY GivenUp DEF TreeInv
  <1> QED BY <1>1, FinishKeeps

\* How a call to copy or to link begins and ends.
LEMMA TreatedStarts ==
    ASSUME TreeInv, ftResult = "none", ftCall.op \in {"copy", "link", "move"}, Kind(ftFs, ftCall.src) # "none"
    PROVE  /\ ftStart \in Trees /\ ftCall \in Calls /\ ftFs = ftStart /\ Treated(ftStart, ftCall)
           /\ Kind(ftFs, ftCall.src) = ftStart[ftCall.src].kind /\ ftStart[ftCall.src] = ftFs[ftCall.src]
           /\ ftCall.src \in Under(ftStart, ftCall.src) /\ ftCall.src \in TreePaths
           /\ ftCall.dst \in TreePaths /\ ftCall.dst \in Places(ftStart, ftCall, ftCall.src)
           /\ ~IsPrefix(ftCall.src, ftCall.dst)
           /\ ftStart[ftCall.src].kind # "dir" => Under(ftStart, ftCall.src) = {ftCall.src}
           /\ ftCall.op # "move" => Base(ftStart, ftCall) = Follow(ftStart, ftCall.dst)
                                    /\ Base(ftStart, ftCall) \in Places(ftStart, ftCall, ftCall.src)
           /\ ftCall.op \in {"copy", "link"} => \A w : Touched(ftStart, ftStart, ftCall, w)
  <1>1. ftStart \in Trees /\ ftCall \in Calls /\ ftFs = ftStart
    BY DEF TreeInv
  <1>2. Treated(ftStart, ftCall) /\ Kind(ftFs, ftCall.src) = ftStart[ftCall.src].kind
    BY <1>1 DEF Treated, Kind, Has
  <1>3. /\ ftCall.src \in Under(ftStart, ftCall.src) /\ Renaming(ftStart, ftCall, ftCall.src) = ftCall.dst
        /\ ~IsPrefix(ftCall.src, ftCall.dst) /\ ftCall.dst \in TreePaths
    BY <1>1, <1>2, RenamesApart
  <1>4. ftCall.dst \in Places(ftStart, ftCall, ftCall.src)
    BY <1>3, PlacesOf
  <1>5. ftCall.src \in TreePaths
    BY <1>1, CallPaths
  <1>6. ftStart[ftCall.src].kind # "dir" => Under(ftStart, ftCall.src) = {ftCall.src}
    BY <1>1, <1>3, <1>5, TreeShape DEF Under
  <1>7. ftCall.op # "move" => Base(ftStart, ftCall) = Follow(ftStart, ftCall.dst)
    BY DEF Base
  <1>8. Base(ftStart, ftCall) \in Places(ftStart, ftCall, ftCall.src)
    BY <1>1, InsidePlaces, PlacesOf
  <1>9. \A w : Touched(ftStart, ftStart, ftCall, w)
    BY <1>1, TreeShape DEF Touched, SameAt
  <1> QED BY <1>1, <1>2, <1>3, <1>4, <1>5, <1>6, <1>7, <1>8, <1>9

\* A call to copy or to link what is no directory changes the destination only.
LEMMA CopyFinishes ==
    ASSUME TreeInv, ftResult = "none", ftCall.op \in {"copy", "link"}, Kind(ftFs, ftCall.src) # "none",
           NEW g, OnlyAt(ftStart, g, ftCall.dst), NEW r \in {"ok", "err"}, Finish(g, r),
           r = "err" \/ Kind(ftFs, ftCall.src) # "dir"
    PROVE  TreeInv'
  <1>1. /\ ftStart \in Trees /\ ftCall \in Calls /\ Treated(ftStart, ftCall)
        /\ Kind(ftFs, ftCall.src) = ftStart[ftCall.src].kind
        /\ ftCall.src \in Under(ftStart, ftCall.src) /\ ftCall.dst \in Places(ftStart, ftCall, ftCall.src)
        /\ ftStart[ftCall.src].kind # "dir" => Under(ftStart, ftCall.src) = {ftCall.src}
        /\ Touched(ftStart, ftStart, ftCall, <<>>)
    BY TreatedStarts
  <1>2. CopyInv(g, ftStart, ftCall, <<>>, r)
    BY <1>1, CopyEnds
  <1>3. OpInv(g, ftStart, ftCall, <<>>, r)
    BY <1>2 DEF OpInv
  <1> QED BY <1>3, FinishKeeps

\* A call to copy or to link a directory goes into the destination, made or found.
LEMMA CopyDescends ==
    ASSUME TreeInv, ftResult = "none", ftCall.op \in {"copy", "link"}, Kind(ftFs, ftCall.src) = "dir",
           NEW g, OnlyAt(ftStart, g, ftCall.dst), ftCall.dst \in DOMAIN g,
           Has(ftStart, ftCall.dst) => \E a : g[ftCall.dst] = FsNode(ftStart[ftCall.dst].kind, ftStart[ftCall.dst].data, a),
           ~Has(ftStart, ftCall.dst) => \E a : g[ftCall.dst] = FsNode("dir", "none", a),
           IF Kind(g, Follow(g, ftCall.dst)) = "dir" THEN Descend(g, <<>>, ftCall.src, Follow(g, ftCall.dst))
                                                     ELSE Finish(g, "err")
    PROVE  TreeInv'
  <1> DEFINE S == ftStart
             c == ftCall
             q == ftCall.dst
             z == Base(S, c)
  <1>1. /\ S \in Trees /\ c \in Calls /\ Treated(S, c) /\ S[c.src].kind = "dir" /\ q \in TreePaths
        /\ q \in Places(S, c, c.src) /\ z = Follow(S, q)
    BY TreatedStarts
  <1>2. CASE Kind(g, Follow(g, q)) # "dir"
    BY <1>2, CopyFinishes
  <1>3. CASE Kind(g, Follow(g, q)) = "dir"
    <2>1. \A x : x # q => SameAt(g, S, x)
      BY DEF OnlyAt
    <2>2. Follow(g, q) = z
      <3>1. CASE Has(S, q)
        <4>1. g[q].kind = S[q].kind /\ g[q].data = S[q].data
          <5>1. PICK a : g[q] = FsNode(S[q].kind, S[q].data, a)
            BY <3>1
          <5> QED BY <5>1 DEF FsNode
        <4> QED BY <1>1, <3>1, <4>1 DEF Follow, Kind, Has
      <3>2. CASE ~Has(S, q)
        <4>1. g[q].kind = "dir"
          <5>1. PICK a : g[q] = FsNode("dir", "none", a)
            BY <3>2
          <5> QED BY <5>1 DEF FsNode
        <4> QED BY <1>1, <3>2, <4>1 DEF Follow, Kind, Has
      <3> QED BY <3>1, <3>2
    <2>3. IsDir(g, z)
      <3>1. z \in DOMAIN g /\ g[z].kind = "dir"
        BY <1>3, <2>2 DEF Kind, Has
      <3>2. CASE z # q
        <4>1. SameAt(g, S, z)
          BY <2>1, <3>2
        <4>2. z \in DOMAIN S /\ S[z] = g[z]
          BY <3>1, <4>1 DEF SameAt
        <4>3. S[z] = FsNode("dir", "none", S[z].attr)
          BY <1>1, <3>1, <4>2, TreeShape
        <4> QED BY <3>1, <4>2, <4>3 DEF IsDir
      <3>3. CASE z = q /\ Has(S, q)
        <4>1. PICK a : g[q] = FsNode(S[q].kind, S[q].data, a)
          BY <3>3
        <4>2. S[q].kind = "dir" /\ q \in DOMAIN S
          BY <3>1, <3>3, <4>1 DEF FsNode, Has
        <4>3. S[q] = FsNode("dir", "none", S[q].attr)
          BY <1>1, <4>2, TreeShape
        <4>4. S[q].data = "none"
          BY <4>3 DEF FsNode
        <4> QED BY <3>1, <3>3, <4>1, <4>2, <4>4 DEF IsDir, FsNode
      <3>4. CASE z = q /\ ~Has(S, q)
        <4>1. PICK a : g[q] = FsNode("dir", "none", a)
          BY <3>4
        <4> QED BY <3>1, <3>4, <4>1 DEF IsDir, FsNode
      <3> QED BY <3>2, <3>3, <3>4
    <2> DEFINE v == Append(<<>>, Frame(g, c.src, z))
    <2>4. CopyInv(g, S, c, v, "walking") /\ v # <<>>
      BY <1>1, <2>3, CopyStart
    <2>5. Descend(g, <<>>, c.src, z)
      BY <1>3, <2>2
    <2> HIDE DEF v, z
    <2>6. OpInv(g, S, c, v, "walking")
      BY <2>4 DEF OpInv
    <2>7. Goes(g, v)
      BY <2>5 DEF v, Descend, Goes
    <2> QED BY <2>4, <2>6, <2>7, DescendKeeps
  <1> QED BY <1>2, <1>3

\* Utf8CStr::copy_to clears the destination for a file and makes it for a directory.
LEMMA CopyToKeeps ==
    ASSUME TreeInv, copy_to
    PROVE  TreeInv'
  <1> DEFINE S == ftStart
             p == ftCall.src
             q == ftCall.dst
             cleared == IF Below(ftFs, q) = {} THEN Unlinked(ftFs, {q}) ELSE ftFs
  <1>1. ftResult = "none" /\ ftCall.op = "copy"
    BY DEF copy_to, Called
  <1>2. CASE Kind(ftFs, p) = "none"
    <2>1. Finish(ftFs, "err")
      BY <1>2 DEF copy_to
    <2> QED BY <2>1, FailKeeps
  <1>3. CASE Kind(ftFs, p) # "none"
    <2>1. S \in Trees /\ ftFs = S /\ q \in TreePaths /\ S[p] = ftFs[p]
      BY <1>1, <1>3, TreatedStarts
    <2>2. OnlyAt(S, cleared, q)
      BY <2>1, Changes
    <2>3. \A n : OnlyAt(S, With(cleared, q, n), q)
      <3> HIDE DEF cleared
      <3>1. \A n : OnlyAt(cleared, With(cleared, q, n), q)
        BY <2>1, Changes
      <3> QED BY <2>2, <3>1, ChangeTwice
    <2>4. CASE Kind(ftFs, p) = "dir"
      <3> DEFINE g == MakeDir(ftFs, q)
      <3>1. OnlyAt(S, g, q) /\ q \in DOMAIN g
        BY <2>1, Changes
      <3>2. ASSUME Has(S, q) PROVE \E a : g[q] = FsNode(S[q].kind, S[q].data, a)
        <4>1. g = S
          BY <2>1, <3>2, Changes
        <4>2. S[q] = FsNode(S[q].kind, S[q].data, S[q].attr)
          BY <2>1, <3>2, TreeShape DEF Has
        <4> QED BY <4>1, <4>2
      <3>3. ASSUME ~Has(S, q) PROVE \E a : g[q] = FsNode("dir", "none", a)
        BY <2>1, <3>3, Changes DEF Holds
      <3>4. IF Kind(g, Follow(g, q)) = "dir" THEN Descend(g, <<>>, p, Follow(g, q)) ELSE Finish(g, "err")
        BY <2>4 DEF copy_to
      <3> HIDE DEF g
      <3> QED BY <1>1, <2>4, <3>1, <3>2, <3>3, <3>4, CopyDescends
    <2>5. CASE Kind(ftFs, p) \in {"file", "link"}
      <3>1. IF Has(cleared, q) THEN Finish(cleared, "err") ELSE Finish(With(cleared, q, ftFs[p]), "ok")
        BY <2>5 DEF copy_to
      <3> HIDE DEF cleared
      <3> QED BY <1>1, <1>3, <2>2, <2>3, <2>5, <3>1, CopyFinishes
    <2>6. CASE Kind(ftFs, p) \notin {"none", "dir", "file", "link"}
      <3>1. Finish(cleared, IF Has(cleared, q) THEN "ok" ELSE "err")
        BY <2>6 DEF copy_to
      <3> HIDE DEF cleared
      <3> QED BY <1>1, <1>3, <2>2, <2>6, <3>1, CopyFinishes
    <2> QED BY <1>3, <2>4, <2>5, <2>6
  <1> QED BY <1>2, <1>3

\* Utf8CStr::link_to makes the destination with the directory's attributes, or links the file.
LEMMA LinkToKeeps ==
    ASSUME TreeInv, link_to
    PROVE  TreeInv'
  <1> DEFINE S == ftStart
             p == ftCall.src
             q == ftCall.dst
  <1>1. ftResult = "none" /\ ftCall.op = "link"
    BY DEF link_to, Called
  <1>2. CASE Kind(ftFs, p) = "none"
    <2>1. Finish(ftFs, "err")
      BY <1>2 DEF link_to
    <2> QED BY <2>1, FailKeeps
  <1>3. CASE Kind(ftFs, p) # "none"
    <2>1. S \in Trees /\ ftFs = S /\ q \in TreePaths /\ S[p] = ftFs[p]
      BY <1>1, <1>3, TreatedStarts
    <2>2. CASE Kind(ftFs, p) = "dir"
      <3> DEFINE m == MakeDir(ftFs, q)
                 g == SetAttr(m, q, ftFs[p].attr)
      <3>1. OnlyAt(S, m, q) /\ q \in DOMAIN m
        BY <2>1, Changes
      <3>2. Has(S, q) => m[q] = FsNode(S[q].kind, S[q].data, S[q].attr)
        <4>1. Has(S, q) => m = S
          BY <2>1, Changes
        <4> QED BY <2>1, <4>1, TreeShape DEF Has
      <3>3. ~Has(S, q) => m[q] = FsNode("dir", "none", "fresh")
        BY <2>1, Changes DEF Holds
      <3>4. IF Kind(g, Follow(g, q)) = "dir" THEN Descend(g, <<>>, p, Follow(g, q)) ELSE Finish(g, "err")
        BY <2>2 DEF link_to
      <3> HIDE DEF m
      <3>5. /\ OnlyAt(m, g, q) /\ q \in DOMAIN g
            /\ \A k, d, b : m[q] = FsNode(k, d, b) => g[q] = FsNode(k, d, ftFs[p].attr)
        BY <2>1, <3>1, AttrChange
      <3> HIDE DEF g
      <3>6. OnlyAt(S, g, q)
        BY <3>1, <3>5, ChangeTwice
      <3>7. /\ Has(S, q) => \E a : g[q] = FsNode(S[q].kind, S[q].data, a)
            /\ ~Has(S, q) => \E a : g[q] = FsNode("dir", "none", a)
        BY <3>2, <3>3, <3>5
      <3> QED BY <1>1, <2>2, <3>4, <3>5, <3>6, <3>7, CopyDescends
    <2>3. CASE Kind(ftFs, p) # "dir"
      <3>1. IF Has(ftFs, q) THEN Finish(ftFs, "err") ELSE Finish(With(ftFs, q, ftFs[p]), "ok")
        BY <1>3, <2>3 DEF link_to
      <3>2. CASE Has(ftFs, q)
        BY <3>1, <3>2, FailKeeps
      <3>3. CASE ~Has(ftFs, q)
        <4> DEFINE g == With(ftFs, q, ftFs[p])
        <4>1. OnlyAt(S, g, q)
          BY <2>1, Changes
        <4>2. Finish(g, "ok")
          BY <3>1, <3>3
        <4> HIDE DEF g
        <4> QED BY <1>1, <1>3, <2>3, <4>1, <4>2, CopyFinishes
      <3> QED BY <3>2, <3>3
    <2> QED BY <2>2, <2>3
  <1> QED BY <1>2, <1>3

\* Utf8CStr::move_to renames all of the source, or goes into the directory that is there.
LEMMA MoveToKeeps ==
    ASSUME TreeInv, move_to
    PROVE  TreeInv'
  <1> DEFINE S == ftStart
             c == ftCall
             p == ftCall.src
             q == ftCall.dst
             cleared == Unlinked(ftFs, {q})
  <1>1. /\ ftResult = "none" /\ c.op = "move" /\ ftFs = S /\ S \in Trees /\ c \in Calls /\ ftWalk = <<>>
        /\ p \in TreePaths /\ q \in TreePaths
    BY CallPaths DEF move_to, Called, TreeInv
  <1>2. CASE Kind(S, p) = "none"
    <2>1. p \notin DOMAIN S
      BY <1>1, <1>2, TreeShape DEF Kind, Has
    <2>2. Follow(S, p) = p
      BY <1>2 DEF Follow
    <2>3. ~Has(cleared, p)
      BY <1>1, <2>1 DEF Has, Unlinked
    <2>4. CASE Kind(S, q) = "dir"
      <3>1. Finish(ftFs, "err")
        BY <1>1, <1>2, <2>2, <2>4 DEF move_to
      <3> QED BY <3>1, FailKeeps
    <2>5. CASE Kind(S, q) # "dir"
      <3>1. Finish(cleared, "err")
        BY <1>1, <2>3, <2>5 DEF move_to
      <3>2. Under(S, p) = {}
        BY <1>1, <2>1, TreeShape DEF Under
      <3>3. OnlyAt(S, cleared, q)
        BY <1>1, Changes
      <3> HIDE DEF cleared
      <3>4. DOMAIN cleared \subseteq TreePaths
        BY <1>1, <3>3, TreeShape DEF OnlyAt, SameAt
      <3>5. MoveInv(cleared, S, c, <<>>)
        BY <3>2, <3>3, <3>4 DEF MoveInv, Shifted, WalkDown, AheadKept, LeafKept, Ahead, OnlyAt
      <3>6. OpInv(cleared, S, c, <<>>, "err")
        BY <1>1, <3>5 DEF OpInv
      <3> QED BY <3>1, <3>6, FinishKeeps
    <2> QED BY <2>4, <2>5
  <1>3. CASE Kind(S, p) # "none"
    <2>1. /\ Treated(S, c) /\ Kind(S, p) = S[p].kind /\ p \in Under(S, p) /\ ~IsPrefix(p, q)
      BY <1>1, <1>3, TreatedStarts
    <2>2. CASE Kind(S, q) = "dir"
      <3>1. Kind(S, p) # "link"
        BY <1>1, <2>1, <2>2, CallsApart DEF Treated
      <3>2. Follow(S, p) = p
        BY <3>1 DEF Follow
      <3>3. CASE Kind(S, p) = "dir"
        <4>1. Descend(S, <<>>, p, q)
          BY <1>1, <2>2, <3>2, <3>3 DEF move_to
        <4> DEFINE v == Append(<<>>, Frame(S, p, q))
        <4>2. MoveInv(S, S, c, v) /\ v # <<>>
          BY <1>1, <2>1, <3>3, MoveStart
        <4> HIDE DEF v
        <4>3. OpInv(S, S, c, v, "walking")
          BY <1>1, <4>2 DEF OpInv
        <4>4. Goes(S, v)
          BY <4>1 DEF v, Descend, Goes
        <4> QED BY <1>1, <4>2, <4>3, <4>4, DescendKeeps
      <3>4. CASE Kind(S, p) # "dir"
        <4>1. Finish(ftFs, "err")
          BY <1>1, <2>2, <3>2, <3>4 DEF move_to
        <4> QED BY <4>1, FailKeeps
      <3> QED BY <3>3, <3>4
    <2>3. CASE Kind(S, q) # "dir"
      <3>1. Has(cleared, p)
        <4>1. p # q
          BY <1>1, <2>1, PrefixOrder
        <4>2. p \in DOMAIN S
          BY <2>1 DEF Under
        <4> QED BY <1>1, <4>1, <4>2 DEF Has, Unlinked
      <3> DEFINE g == Renamed(Unlinked(S, {q}), p, q)
      <3>2. Finish(g, "ok")
        BY <1>1, <2>3, <3>1 DEF move_to
      <3>3. MoveInv(g, S, c, <<>>)
        BY <1>1, <2>1, <2>3, MoveAtOnce
      <3> HIDE DEF g
      <3>4. OpInv(g, S, c, <<>>, "ok")
        BY <1>1, <3>3 DEF OpInv
      <3> QED BY <3>2, <3>4, FinishKeeps
    <2> QED BY <2>2, <2>3
  <1> QED BY <1>2, <1>3

\* The state of a walk that copies, links or moves.
LEMMA WalkState ==
    ASSUME TreeInv, ftResult = "walking", ftCall.op \in {"copy", "link", "move"}
    PROVE  /\ ftStart \in Trees /\ ftCall \in Calls /\ ftWalk # <<>> /\ Treated(ftStart, ftCall)
           /\ ftCall.op \in {"copy", "link"} => CopyInv(ftFs, ftStart, ftCall, ftWalk, "walking")
           /\ ftCall.op = "move" => MoveInv(ftFs, ftStart, ftCall, ftWalk)
  <1>1. /\ ftStart \in Trees /\ ftCall \in Calls /\ ftWalk # <<>>
        /\ ftCall.op \in {"copy", "link"} => CopyInv(ftFs, ftStart, ftCall, ftWalk, "walking")
        /\ ftCall.op = "move" => MoveInv(ftFs, ftStart, ftCall, ftWalk)
    BY DEF TreeInv, OpInv
  <1>2. WalkDown(ftStart, ftCall, ftWalk)
    BY <1>1 DEF CopyInv, MoveInv
  <1> QED BY <1>1, <1>2, WalkTreated

\* The walk fails at an entry, having written at most to its places.
LEMMA EntryFails ==
    ASSUME TreeInv, ftResult = "walking", ftCall.op \in {"copy", "link"}, NEW e, NEW p, IsEntry(ftWalk, e, p),
           NEW g, NEW y \in Places(ftStart, ftCall, p), OnlyAt(ftFs, g, y), Finish(g, "err")
    PROVE  TreeInv'
  <1>1. /\ ftStart \in Trees /\ ftCall \in Calls /\ ftWalk # <<>> /\ Treated(ftStart, ftCall)
        /\ CopyInv(ftFs, ftStart, ftCall, ftWalk, "walking")
    BY WalkState
  <1>2. p \in Under(ftStart, ftCall.src) /\ Touched(ftFs, ftStart, ftCall, ftWalk)
    BY <1>1, EntryAhead DEF CopyInv
  <1>3. CopyInv(g, ftStart, ftCall, <<>>, "err")
    BY <1>1, <1>2, CopyEnds
  <1>4. OpInv(g, ftStart, ftCall, <<>>, "err")
    BY <1>3 DEF OpInv
  <1> QED BY <1>4, FinishKeeps

\* A directory is entered, or is in the way.
LEMMA EntryEnters ==
    ASSUME TreeInv, ftResult = "walking", ftCall.op \in {"copy", "link"}, NEW e, NEW p, IsEntry(ftWalk, e, p),
           NEW q, IsPlace(ftWalk, e, q), Kind(ftFs, p) = "dir", NEW g, g = MakeDir(ftFs, q),
           IF Kind(g, Follow(g, q)) = "dir" THEN Descend(g, RestOf(ftWalk, e), p, Follow(g, q))
                                            ELSE Finish(g, "err")
    PROVE  TreeInv'
  <1> DEFINE S == ftStart
             c == ftCall
  <1>1. S \in Trees /\ c \in Calls /\ ftWalk # <<>> /\ Treated(S, c) /\ CopyInv(ftFs, S, c, ftWalk, "walking")
    BY WalkState
  <1>2. S[p].kind = "dir" /\ q \in Places(S, c, p) /\ q \in TreePaths
    BY <1>1, CopyEntryFinds
  <1>3. OnlyAt(ftFs, g, q)
    BY <1>2, Changes
  <1>4. CASE Kind(g, Follow(g, q)) = "dir"
    <2> DEFINE d == Follow(g, q)
               v == Append(RestOf(ftWalk, e), Frame(g, p, d))
    <2>1. Entered(v, ftWalk, e, g, p, Follow(g, q)) /\ v = Append(RestOf(ftWalk, e), Frame(g, p, d))
      BY DEF Entered
    <2> HIDE DEF v
    <2>2. CopyInv(g, S, c, v, "walking") /\ v # <<>>
      BY <1>1, <1>2, <1>4, <2>1, CopyEnters
    <2>3. OpInv(g, S, c, v, "walking")
      BY <2>2 DEF OpInv
    <2>4. Goes(g, v)
      BY <1>4, <2>1 DEF Descend, Goes
    <2> QED BY <2>2, <2>3, <2>4, DescendKeeps
  <1>5. CASE Kind(g, Follow(g, q)) # "dir"
    BY <1>2, <1>3, <1>5, EntryFails
  <1> QED BY <1>4, <1>5

\* Something that is no directory has been dealt with.
LEMMA EntryWrites ==
    ASSUME TreeInv, ftResult = "walking", ftCall.op \in {"copy", "link"}, NEW e, NEW p, IsEntry(ftWalk, e, p),
           Kind(ftFs, p) # "dir", NEW g, NEW y \in Places(ftStart, ftCall, p), OnlyAt(ftFs, g, y),
           Copied(ftStart, p) => Holds(g, Landing(ftStart, ftCall, p), ftStart[p]),
           OnTo(g, RestOf(ftWalk, e))
    PROVE  TreeInv'
  <1> DEFINE S == ftStart
             c == ftCall
             v == RestOf(ftWalk, e)
  <1>1. S \in Trees /\ c \in Calls /\ ftWalk # <<>> /\ Treated(S, c) /\ CopyInv(ftFs, S, c, ftWalk, "walking")
    BY WalkState
  <1>2. S[p].kind # "dir"
    <2>1. IsPlace(ftWalk, e, Append(Last(ftWalk).dst, e))
      BY DEF IsPlace
    <2> QED BY <1>1, <2>1, CopyEntryFinds
  <1>3. CopyInv(g, S, c, v, "walking") /\ v # <<>>
    BY <1>1, <1>2, CopyWrites
  <1> HIDE DEF v
  <1>4. OpInv(g, S, c, v, "walking")
    BY <1>3 DEF OpInv
  <1> QED BY <1>3, <1>4, OnToKeeps DEF v

\* Directory::copy_into_impl puts an entry in its place or goes into it.
LEMMA CopyEntryKeeps ==
    ASSUME TreeInv, CopyEntry
    PROVE  TreeInv'
  <1> DEFINE S == ftStart
             c == ftCall
  <1>1. ftResult = "walking" /\ c.op = "copy"
    BY DEF CopyEntry, Walking
  <1>2. S \in Trees /\ c \in Calls /\ ftWalk # <<>> /\ Treated(S, c) /\ CopyInv(ftFs, S, c, ftWalk, "walking")
    BY <1>1, WalkState
  <1>3. \E e, p, q :
          /\ IsEntry(ftWalk, e, p) /\ IsPlace(ftWalk, e, q)
          /\ LET to == Follow(ftFs, q)
                 made == MakeDir(ftFs, q)
             IN  CASE Kind(ftFs, p) = "dir" ->
                        IF Kind(made, Follow(made, q)) = "dir"
                        THEN Descend(made, RestOf(ftWalk, e), p, Follow(made, q))
                        ELSE Finish(made, "err")
                   [] Kind(ftFs, p) = "file" ->
                        IF Kind(ftFs, to) = "dir" THEN Finish(ftFs, "err")
                        ELSE OnTo(With(ftFs, to, ftFs[p]), RestOf(ftWalk, e))
                   [] Kind(ftFs, p) = "link" ->
                        IF Has(ftFs, q) THEN Finish(ftFs, "err")
                        ELSE OnTo(With(ftFs, q, ftFs[p]), RestOf(ftWalk, e))
                   [] OTHER -> OnTo(ftFs, RestOf(ftWalk, e))
    BY DEF CopyEntry, Top, Rest, RestOf, IsEntry, IsPlace
  <1>4. PICK e, p, q :
          /\ IsEntry(ftWalk, e, p) /\ IsPlace(ftWalk, e, q)
          /\ LET to == Follow(ftFs, q)
                 made == MakeDir(ftFs, q)
             IN  CASE Kind(ftFs, p) = "dir" ->
                        IF Kind(made, Follow(made, q)) = "dir"
                        THEN Descend(made, RestOf(ftWalk, e), p, Follow(made, q))
                        ELSE Finish(made, "err")
                   [] Kind(ftFs, p) = "file" ->
                        IF Kind(ftFs, to) = "dir" THEN Finish(ftFs, "err")
                        ELSE OnTo(With(ftFs, to, ftFs[p]), RestOf(ftWalk, e))
                   [] Kind(ftFs, p) = "link" ->
                        IF Has(ftFs, q) THEN Finish(ftFs, "err")
                        ELSE OnTo(With(ftFs, q, ftFs[p]), RestOf(ftWalk, e))
                   [] OTHER -> OnTo(ftFs, RestOf(ftWalk, e))
    BY <1>3
  <1> DEFINE z == Inside(S, c, p)
             v == RestOf(ftWalk, e)
  <1>5. /\ p # c.src /\ ftFs[p] = S[p] /\ Kind(ftFs, p) = S[p].kind
        /\ q = Renaming(S, c, p) /\ q \in Places(S, c, p) /\ q \in TreePaths
        /\ Follow(ftFs, q) = z /\ z \in TreePaths
    BY <1>2, <1>4, CopyEntryFinds
  <1>6. /\ Landing(S, c, p) \in Places(S, c, p)
        /\ S[p].kind # "link" => z = Landing(S, c, p)
        /\ S[p].kind = "link" => q = Landing(S, c, p)
    BY <1>5, PlacesOf
  <1> HIDE DEF z, v
  <1>7. CASE Kind(ftFs, p) = "dir"
    <2> DEFINE g == MakeDir(ftFs, q)
    <2>1. IF Kind(g, Follow(g, q)) = "dir" THEN Descend(g, RestOf(ftWalk, e), p, Follow(g, q))
                                           ELSE Finish(g, "err")
      BY <1>4, <1>7
    <2>2. g = MakeDir(ftFs, q)
      OBVIOUS
    <2> HIDE DEF g
    <2> QED BY <1>1, <1>4, <1>7, <2>1, <2>2, EntryEnters
  <1>8. CASE Kind(ftFs, p) = "file"
    <2>1. CASE Kind(ftFs, Follow(ftFs, q)) = "dir"
      BY <1>4, <1>8, <2>1, FailKeeps
    <2>2. CASE Kind(ftFs, Follow(ftFs, q)) # "dir"
      <3> DEFINE g == With(ftFs, z, ftFs[p])
      <3>1. OnTo(g, RestOf(ftWalk, e))
        BY <1>4, <1>5, <1>8, <2>2
      <3>2. OnlyAt(ftFs, g, z) /\ Holds(g, z, ftFs[p])
        BY <1>5, Changes
      <3> HIDE DEF g
      <3>3. z \in Places(S, c, p) /\ z = Landing(S, c, p)
        BY <1>5, <1>6, <1>8
      <3> QED BY <1>1, <1>4, <1>5, <1>8, <3>1, <3>2, <3>3, EntryWrites
    <2> QED BY <2>1, <2>2
  <1>9. CASE Kind(ftFs, p) = "link"
    <2>1. CASE Has(ftFs, q)
      BY <1>4, <1>9, <2>1, FailKeeps
    <2>2. CASE ~Has(ftFs, q)
      <3> DEFINE g == With(ftFs, q, ftFs[p])
      <3>1. OnTo(g, RestOf(ftWalk, e))
        BY <1>4, <1>9, <2>2
      <3>2. OnlyAt(ftFs, g, q) /\ Holds(g, q, ftFs[p])
        BY <1>5, Changes
      <3> HIDE DEF g
      <3> QED BY <1>1, <1>4, <1>5, <1>6, <1>9, <3>1, <3>2, EntryWrites
    <2> QED BY <2>1, <2>2
  <1>10. CASE Kind(ftFs, p) \notin {"dir", "file", "link"}
    <2>1. OnTo(ftFs, RestOf(ftWalk, e))
      BY <1>4, <1>10
    <2>2. OnlyAt(ftFs, ftFs, q)
      BY <1>5, Changes
    <2>3. ~Copied(S, p)
      BY <1>5, <1>10 DEF Copied
    <2> QED BY <1>1, <1>4, <1>5, <1>10, <2>1, <2>2, <2>3, EntryWrites
  <1> QED BY <1>7, <1>8, <1>9, <1>10

\* Directory::link_into_impl does the same.
LEMMA LinkEntryKeeps ==
    ASSUME TreeInv, LinkEntry
    PROVE  TreeInv'
  <1> DEFINE S == ftStart
             c == ftCall
  <1>1. ftResult = "walking" /\ c.op = "link"
    BY DEF LinkEntry, Walking
  <1>2. S \in Trees /\ c \in Calls /\ ftWalk # <<>> /\ Treated(S, c) /\ CopyInv(ftFs, S, c, ftWalk, "walking")
    BY <1>1, WalkState
  <1>3. \E e, p, q :
          /\ IsEntry(ftWalk, e, p) /\ IsPlace(ftWalk, e, q)
          /\ LET made == MakeDir(ftFs, q)
             IN  IF Kind(ftFs, p) = "dir"
                 THEN IF Kind(made, Follow(made, q)) = "dir"
                      THEN Descend(made, RestOf(ftWalk, e), p, Follow(made, q))
                      ELSE Finish(made, "err")
                 ELSE IF Has(ftFs, q) THEN Finish(ftFs, "err")
                      ELSE OnTo(With(ftFs, q, ftFs[p]), RestOf(ftWalk, e))
    BY DEF LinkEntry, Top, Rest, RestOf, IsEntry, IsPlace
  <1>4. PICK e, p, q :
          /\ IsEntry(ftWalk, e, p) /\ IsPlace(ftWalk, e, q)
          /\ LET made == MakeDir(ftFs, q)
             IN  IF Kind(ftFs, p) = "dir"
                 THEN IF Kind(made, Follow(made, q)) = "dir"
                      THEN Descend(made, RestOf(ftWalk, e), p, Follow(made, q))
                      ELSE Finish(made, "err")
                 ELSE IF Has(ftFs, q) THEN Finish(ftFs, "err")
                      ELSE OnTo(With(ftFs, q, ftFs[p]), RestOf(ftWalk, e))
    BY <1>3
  <1>5. /\ p # c.src /\ ftFs[p] = S[p] /\ Kind(ftFs, p) = S[p].kind
        /\ q = Renaming(S, c, p) /\ q \in Places(S, c, p) /\ q \in TreePaths
        /\ (Has(ftFs, q) <=> Has(S, q)) /\ Follow(S, q) = Inside(S, c, p)
    BY <1>2, <1>4, CopyEntryFinds
  <1>6. CASE Kind(ftFs, p) = "dir"
    <2> DEFINE g == MakeDir(ftFs, q)
    <2>1. IF Kind(g, Follow(g, q)) = "dir" THEN Descend(g, RestOf(ftWalk, e), p, Follow(g, q))
                                           ELSE Finish(g, "err")
      BY <1>4, <1>6
    <2>2. g = MakeDir(ftFs, q)
      OBVIOUS
    <2> HIDE DEF g
    <2> QED BY <1>1, <1>4, <1>6, <2>1, <2>2, EntryEnters
  <1>7. CASE Kind(ftFs, p) # "dir" /\ Has(ftFs, q)
    BY <1>4, <1>7, FailKeeps
  <1>8. CASE Kind(ftFs, p) # "dir" /\ ~Has(ftFs, q)
    <2> DEFINE g == With(ftFs, q, ftFs[p])
    <2>1. OnTo(g, RestOf(ftWalk, e))
      BY <1>4, <1>8
    <2>2. OnlyAt(ftFs, g, q) /\ Holds(g, q, ftFs[p])
      BY <1>5, Changes
    <2> HIDE DEF g
    <2>3. Inside(S, c, p) = q
      BY <1>5, <1>8 DEF Follow, Kind
    <2>4. q = Landing(S, c, p)
      BY <1>5, <2>3 DEF Landing
    <2> QED BY <1>1, <1>4, <1>5, <1>8, <2>1, <2>2, <2>4, EntryWrites
  <1> QED BY <1>6, <1>7, <1>8

\* A directory has its attributes when the walk leaves it.
LEMMA CopyReturnsKeeps ==
    ASSUME TreeInv, CopyReturns \/ LinkReturns
    PROVE  TreeInv'
  <1> DEFINE S == ftStart
             c == ftCall
             w == ftWalk
             v == Front(ftWalk)
             a == SetAttr(ftFs, Last(w).dst, ftFs[Last(w).src].attr)
  <1>1. ftResult = "walking" /\ c.op \in {"copy", "link"} /\ Last(w).left = {}
    BY DEF CopyReturns, LinkReturns, Walking, Top
  <1>2. S \in Trees /\ c \in Calls /\ w # <<>> /\ Treated(S, c) /\ CopyInv(ftFs, S, c, w, "walking")
    BY <1>1, WalkState
  <1>3. PICK g : ReturnFrom(g, v) /\ (g = a \/ (g = ftFs /\ Len(w) = 1))
    BY DEF CopyReturns, LinkReturns, Top
  <1>4. OnlyAt(ftFs, a, Last(w).dst) /\ Holds(a, Last(w).dst, S[Last(w).src]) /\ OnlyAt(ftFs, ftFs, Last(w).dst)
    BY <1>2, CopyAttrs
  <1>5. OnlyAt(ftFs, g, Last(w).dst) /\ (Len(w) = 1 \/ Holds(g, Last(w).dst, S[Last(w).src]))
    BY <1>3, <1>4
  <1> DEFINE s == IF v = <<>> THEN "ok" ELSE "walking"
  <1> HIDE DEF s, a
  <1>6. CopyInv(g, S, c, v, s)
    BY <1>1, <1>2, <1>5, CopyLeaves
  <1> HIDE DEF v
  <1>7. OpInv(g, S, c, v, s)
    BY <1>1, <1>6 DEF OpInv
  <1> QED BY <1>1, <1>3, <1>7, ReturnKeeps DEF s

\* Directory::move_into renames an entry with all that is in it, or goes into it.
LEMMA MoveEntryKeeps ==
    ASSUME TreeInv, MoveEntry
    PROVE  TreeInv'
  <1> DEFINE S == ftStart
             c == ftCall
  <1>1. ftResult = "walking" /\ c.op = "move"
    BY DEF MoveEntry, Walking
  <1>2. S \in Trees /\ c \in Calls /\ ftWalk # <<>> /\ Treated(S, c) /\ MoveInv(ftFs, S, c, ftWalk)
    BY <1>1, WalkState
  <1>3. PICK e, p, q :
          /\ IsEntry(ftWalk, e, p) /\ IsPlace(ftWalk, e, q)
          /\ IF Kind(ftFs, p) = "dir" /\ Has(ftFs, q)
             THEN IF Kind(ftFs, Follow(ftFs, q)) = "dir"
                  THEN Descend(ftFs, RestOf(ftWalk, e), p, Follow(ftFs, q))
                  ELSE Finish(ftFs, "err")
             ELSE IF CanRename(ftFs, p, q) THEN OnTo(Renamed(ftFs, p, q), RestOf(ftWalk, e))
                                           ELSE Finish(ftFs, "err")
    BY DEF MoveEntry, Top, Rest, RestOf, IsEntry, IsPlace
  <1>4. CASE Finish(ftFs, "err")
    BY <1>4, FailKeeps
  <1>5. CASE Kind(ftFs, p) = "dir" /\ Descend(ftFs, RestOf(ftWalk, e), p, Follow(ftFs, q))
    <2> DEFINE d == Follow(ftFs, q)
               v == Append(RestOf(ftWalk, e), Frame(ftFs, p, d))
    <2>1. Entered(v, ftWalk, e, ftFs, p, Follow(ftFs, q)) /\ v = Append(RestOf(ftWalk, e), Frame(ftFs, p, d))
      BY DEF Entered
    <2> HIDE DEF v
    <2>2. MoveInv(ftFs, S, c, v) /\ v # <<>>
      BY <1>2, <1>3, <1>5, <2>1, MoveEnters
    <2>3. OpInv(ftFs, S, c, v, "walking")
      BY <1>1, <2>2 DEF OpInv
    <2>4. Goes(ftFs, v)
      BY <1>5, <2>1 DEF Descend, Goes
    <2> QED BY <2>2, <2>3, <2>4, DescendKeeps
  <1>6. CASE ~(Kind(ftFs, p) = "dir" /\ Has(ftFs, q)) /\ OnTo(Renamed(ftFs, p, q), RestOf(ftWalk, e))
    <2> DEFINE g == Renamed(ftFs, p, q)
               v == RestOf(ftWalk, e)
    <2>1. MoveInv(g, S, c, v) /\ v # <<>>
      BY <1>2, <1>3, <1>6, MoveRenames
    <2>2. OnTo(g, v)
      BY <1>6
    <2> HIDE DEF g, v
    <2>3. OpInv(g, S, c, v, "walking")
      BY <1>1, <2>1 DEF OpInv
    <2> QED BY <1>1, <2>1, <2>2, <2>3, OnToKeeps
  <1> QED BY <1>3, <1>4, <1>5, <1>6

\* The emptied directory is unlinked, and what has not been read yet stays.
LEMMA MoveReturnsKeeps ==
    ASSUME TreeInv, MoveReturns
    PROVE  TreeInv'
  <1> DEFINE S == ftStart
             c == ftCall
             w == ftWalk
             up == Front(ftWalk)
             g == Unlinked(ftFs, {Last(w).src})
  <1>1. ftResult = "walking" /\ c.op = "move" /\ Last(w).left = {}
    BY DEF MoveReturns, Walking, Top
  <1>2. S \in Trees /\ c \in Calls /\ w # <<>> /\ Treated(S, c) /\ MoveInv(ftFs, S, c, w)
    BY <1>1, WalkState
  <1>3. \/ up = <<>> /\ Finish(ftFs, "ok")
        \/ up # <<>> /\ OnTo(g, CutOff(up))
        \/ Finish(ftFs, "err")
    BY DEF MoveReturns, Top, CutOff
  <1>4. CASE Finish(ftFs, "err")
    BY <1>4, FailKeeps
  <1>5. CASE up = <<>> /\ Finish(ftFs, "ok")
    <2>1. OpInv(ftFs, S, c, <<>>, "err")
      BY GivenUp DEF TreeInv
    <2>2. OpInv(ftFs, S, c, <<>>, "ok")
      BY <1>1, <2>1 DEF OpInv
    <2> QED BY <1>5, <2>2, FinishKeeps
  <1>6. CASE up # <<>> /\ OnTo(g, CutOff(up))
    <2> DEFINE v == CutOff(up)
    <2>1. MoveInv(g, S, c, v) /\ v # <<>>
      BY <1>1, <1>2, <1>6, MoveLeaves
    <2>2. OnTo(g, v)
      BY <1>6
    <2> HIDE DEF g, v
    <2>3. OpInv(g, S, c, v, "walking")
      BY <1>1, <2>1 DEF OpInv
    <2> QED BY <1>1, <2>1, <2>2, <2>3, OnToKeeps
  <1> QED BY <1>3, <1>4, <1>5, <1>6

\* A system call that fails ends the walk, perhaps half-way in a file that is not the source.
LEMMA TreeFailsKeeps ==
    ASSUME TreeInv, TreeFails
    PROVE  TreeInv'
  <1>1. CASE Finish(ftFs, "err")
    BY <1>1, FailKeeps
  <1>2. CASE /\ ftCall.op = "copy"
             /\ \E e \in Last(ftWalk).left :
                  /\ Kind(ftFs, Append(Last(ftWalk).src, e)) = "file"
                  /\ Finish(With(ftFs, Follow(ftFs, Append(Last(ftWalk).dst, e)),
                                 FsNode("file", "partial", "fresh")), "err")
    <2>1. PICK e, p, q :
            /\ IsEntry(ftWalk, e, p) /\ IsPlace(ftWalk, e, q) /\ Kind(ftFs, p) = "file"
            /\ Finish(With(ftFs, Follow(ftFs, q), FsNode("file", "partial", "fresh")), "err")
      BY <1>2 DEF IsEntry, IsPlace
    <2>2. ftResult = "walking" /\ ftCall.op = "copy"
      BY <1>2 DEF TreeFails
    <2>3. /\ ftStart \in Trees /\ ftCall \in Calls /\ ftWalk # <<>> /\ Treated(ftStart, ftCall)
          /\ CopyInv(ftFs, ftStart, ftCall, ftWalk, "walking")
      BY <2>2, WalkState
    <2> DEFINE y == Inside(ftStart, ftCall, p)
               g == With(ftFs, y, FsNode("file", "partial", "fresh"))
    <2>4. /\ p # ftCall.src /\ ftStart[p].kind = "file" /\ Follow(ftFs, q) = y /\ y \in TreePaths
      BY <2>1, <2>3, CopyEntryFinds
    <2>5. y \in Places(ftStart, ftCall, p)
      BY <2>4, PlacesOf
    <2>6. OnlyAt(ftFs, g, y)
      BY <2>4, Changes
    <2>7. Finish(g, "err")
      BY <2>1, <2>4
    <2> HIDE DEF g, y
    <2> QED BY <2>1, <2>2, <2>5, <2>6, <2>7, EntryFails
  <1> QED BY <1>1, <1>2 DEF TreeFails, Top

-----------------------------------------------------------------------------
(* The theorem *)

\* What the destination has under names of its own is the place of no part of the source.
LEMMA UnnamedApart ==
    ASSUME NEW S \in Trees, NEW c \in Calls, NEW x \in Below(S, c.dst), x \notin Under(S, c.src),
           \A p \in Below(S, c.src) : x \notin Places(S, c, p),
           NEW p \in Under(S, c.src)
    PROVE  /\ x # c.dst /\ ~IsPrefix(c.src, x) /\ x \in DOMAIN S /\ x # Renaming(S, c, p)
           /\ c.op # "move" => x \notin Places(S, c, p)
  <1>1. x # c.dst /\ x \in DOMAIN S /\ IsPrefix(c.dst, x) /\ ~IsPrefix(c.src, x)
    BY DEF Below, Under
  <1>2. CASE p # c.src
    <2>1. p \in Below(S, c.src)
      BY <1>2 DEF Below
    <2> QED BY <1>1, <2>1, PlacesOf
  <1>3. CASE p = c.src
    <2>1. Renaming(S, c, p) = c.dst /\ Landing(S, c, p) = Base(S, c)
      BY <1>3, InsidePlaces DEF Landing
    <2>2. c.dst \in DOMAIN S /\ S[c.dst].kind = "dir"
      BY <1>1, CallPaths, TreeShape
    <2>3. c.op # "move" => Base(S, c) = c.dst
      BY <2>2 DEF Base, Follow, Kind, Has
    <2> QED BY <1>1, <2>1, <2>3 DEF Places
  <1> QED BY <1>2, <1>3

\* The invariant implies what is said of the bystanders,
LEMMA InvBystanders ==
    ASSUME TreeInv
    PROVE  Bystanders
  <1> DEFINE S == ftStart
             c == ftCall
             named == UNION {Places(S, c, p) : p \in Sources}
             unnamed == {q \in Below(S, c.dst) \ (Under(S, c.src) \cup named) : S[q].kind # "dir"}
  <1>1. S \in Trees /\ c \in Calls /\ OpInv(ftFs, S, c, ftWalk, ftResult)
    BY DEF TreeInv
  <1>2. ASSUME c.op = "remove", NEW p \in DOMAIN S \ Under(S, c.src)
        PROVE  Has(ftFs, p) /\ ftFs[p] = S[p]
    BY <1>1, <1>2 DEF OpInv, RemoveInv, Holds, Has, Under
  <1>3. ASSUME c.op = "mkdirs", NEW p \in DOMAIN S
        PROVE  Has(ftFs, p) /\ ftFs[p] = S[p]
    BY <1>1, <1>3 DEF OpInv, Holds, Has
  <1>4. ASSUME NEW p \in Under(S, c.src)
        PROVE  Has(S, c.src)
    <2>1. p \in DOMAIN S /\ IsPrefix(c.src, p) /\ c.src \in TreePaths
      BY <1>1, SourceEntry, CallPaths
    <2> QED BY <1>1, <2>1, TreeShape DEF Has
  <1>5. ASSUME c.op \in {"copy", "link"}, NEW p \in Under(S, c.src)
        PROVE  Has(ftFs, p) /\ ftFs[p] = S[p]
    <2>1. Treated(S, c) /\ Touched(ftFs, S, c, ftWalk)
      BY <1>1, <1>4, <1>5 DEF Treated, OpInv, CopyInv
    <2> QED BY <1>1, <2>1, SourceKept DEF Has
  <1>6. ASSUME c.op = "move", NEW p \in Under(S, c.src), S[p].kind # "dir"
        PROVE  \E q \in {p, Renaming(S, c, p)} : Has(ftFs, q) /\ ftFs[q] = S[p]
    BY <1>1, <1>6 DEF OpInv, MoveInv, LeafKept, Holds, Has
  <1>7. ASSUME c.op \in {"copy", "move", "link"}, NEW x \in unnamed
        PROVE  Has(ftFs, x) /\ ftFs[x] = S[x]
    <2>1. x \in Below(S, c.dst) /\ x \notin Under(S, c.src) /\ x \in DOMAIN S /\ x # c.dst /\ ~IsPrefix(c.src, x)
      BY DEF Below, Under
    <2>2. \A p \in Below(S, c.src) : x \notin Places(S, c, p)
      BY DEF Sources
    <2>3. \A p \in Under(S, c.src) : x # Renaming(S, c, p) /\ (c.op # "move" => x \notin Places(S, c, p))
      BY <1>1, <2>1, <2>2, UnnamedApart
    <2>4. SameAt(ftFs, S, x)
      <3>1. CASE c.op = "move"
        BY <1>1, <2>1, <2>3, <3>1 DEF OpInv, MoveInv, Shifted
      <3>2. CASE c.op \in {"copy", "link"}
        BY <1>1, <2>3, <3>2 DEF OpInv, CopyInv, Touched
      <3> QED BY <1>7, <3>1, <3>2
    <2> QED BY <2>1, <2>4 DEF SameAt, Has
  <1> QED BY <1>2, <1>3, <1>5, <1>6, <1>7 DEF Bystanders

\* and what is said of a call that has succeeded.
LEMMA InvHandled ==
    ASSUME TreeInv
    PROVE  TreesHandled
  <1> DEFINE S == ftStart
             c == ftCall
  <1>1. S \in Trees /\ c \in Calls /\ OpInv(ftFs, S, c, ftWalk, ftResult)
    BY DEF TreeInv
  <1>2. ftResult = "ok" => ftWalk = <<>>
    BY DEF TreeInv
  <1>3. ASSUME ftResult = "ok", c.op = "remove"
        PROVE  Under(ftFs, c.src) = {}
    BY <1>1, <1>3 DEF OpInv, RemoveInv
  <1>4. ASSUME ftResult = "ok", c.op \in {"copy", "link"}, NEW p \in Sources,
               S[p].kind \in {"dir", "file", "link"}
        PROVE  Has(ftFs, Landing(S, c, p)) /\ ftFs[Landing(S, c, p)] = S[p]
    <2>1. Landed(ftFs, S, c, <<>>)
      BY <1>1, <1>2, <1>4 DEF OpInv, CopyInv
    <2>2. p \in Under(S, c.src) \ {c.src}
      BY DEF Sources, Below
    <2>3. ~Ahead(<<>>, p) /\ ~InWalk(<<>>, p)
      BY DEF Ahead, InWalk
    <2> QED BY <1>4, <2>1, <2>2, <2>3 DEF Landed, Copied, Holds, Has
  <1>5. Bystanders
    BY InvBystanders
  <1> QED BY <1>3, <1>4, <1>5 DEF TreesHandled

\* The invariant holds when a call is made,
LEMMA InitTreeInv ==
    ASSUME InitTree
    PROVE  TreeInv
  <1>1. ftStart \in Trees /\ ftCall \in Calls /\ ftFs = ftStart /\ ftWalk = <<>> /\ ftResult = "none"
    BY DEF InitTree
  <1>2. OpInv(ftStart, ftStart, ftCall, <<>>, "none")
    BY <1>1, Idle
  <1>3. OpInv(ftFs, ftStart, ftCall, ftWalk, ftResult)
    BY <1>1, <1>2
  <1> QED BY <1>1, <1>3 DEF TreeInv

\* and every step of a call keeps it.
LEMMA NextTreeInv ==
    ASSUME TreeInv, [NextTree]_treeVars
    PROVE  TreeInv'
  <1>1. CASE remove_all
    BY <1>1, RemoveAllKeeps
  <1>2. CASE mkdirs
    BY <1>2, MkdirsKeeps
  <1>3. CASE copy_to
    BY <1>3, CopyToKeeps
  <1>4. CASE move_to
    BY <1>4, MoveToKeeps
  <1>5. CASE link_to
    BY <1>5, LinkToKeeps
  <1>6. CASE RemoveEntry
    BY <1>6, RemoveEntryKeeps
  <1>7. CASE CopyEntry
    BY <1>7, CopyEntryKeeps
  <1>8. CASE MoveEntry
    BY <1>8, MoveEntryKeeps
  <1>9. CASE LinkEntry
    BY <1>9, LinkEntryKeeps
  <1>10. CASE RemoveReturns
    BY <1>10, RemoveReturnsKeeps
  <1>11. CASE CopyReturns
    BY <1>11, CopyReturnsKeeps
  <1>12. CASE MoveReturns
    BY <1>12, MoveReturnsKeeps
  <1>13. CASE LinkReturns
    BY <1>13, CopyReturnsKeeps
  <1>14. CASE TreeFails
    BY <1>14, TreeFailsKeeps
  <1>15. CASE UNCHANGED treeVars
    <2>1. ftFs' = ftFs /\ ftStart' = ftStart /\ ftCall' = ftCall /\ ftWalk' = ftWalk /\ ftResult' = ftResult
      BY <1>15 DEF treeVars
    <2>2. OpInv(ftFs', ftStart', ftCall', ftWalk', ftResult')
      BY <2>1 DEF TreeInv
    <2> QED BY <2>1, <2>2 DEF TreeInv
  <1> QED BY <1>1, <1>2, <1>3, <1>4, <1>5, <1>6, <1>7, <1>8, <1>9, <1>10, <1>11, <1>12, <1>13, <1>14, <1>15
          DEF NextTree

\* remove_all, mkdirs, copy_to, move_to and link_to, in every file system, in whatever order a
\* directory's entries come and wherever a system call fails: bystanders keep what they are, no
\* moved file is lost, and success means that all of the source is gone or is in its place.
THEOREM TreesHandledCorrect == SpecTree => []TreesHandled
  <1>1. InitTree => TreeInv
    BY InitTreeInv
  <1>2. TreeInv /\ [NextTree]_treeVars => TreeInv'
    BY NextTreeInv
  <1>3. TreeInv => TreesHandled
    BY InvHandled
  <1> QED BY <1>1, <1>2, <1>3, PTL DEF SpecTree

-----------------------------------------------------------------------------
(* The trees that apply_modules mounts *)

\* The directories around a path.
LEMMA StrictPrefixesAre ==
    ASSUME NEW p \in TreePaths
    PROVE  StrictPrefixes(p) = {q \in TreePaths : IsPrefix(q, p) /\ q # p}
  <1>1. ASSUME NEW i \in 0..(Len(p) - 1)
        PROVE  SubSeq(p, 1, i) \in TreePaths /\ IsPrefix(SubSeq(p, 1, i), p) /\ SubSeq(p, 1, i) # p
    <2> DEFINE s == SubSeq(p, 1, i)
    <2>1. Len(p) \in Nat /\ i \in Nat /\ i < Len(p)
      BY PrefixIs
    <2>2. s \in TreePaths /\ Len(s) = i /\ \A k \in 1..i : s[k] = p[k]
      BY <2>1 DEF TreePaths
    <2> HIDE DEF s
    <2>3. IsPrefix(s, p) /\ s # p
      BY <2>1, <2>2, PrefixIs
    <2> QED BY <2>2, <2>3 DEF s
  <1>2. ASSUME NEW q \in TreePaths, IsPrefix(q, p), q # p
        PROVE  \E i \in 0..(Len(p) - 1) : q = SubSeq(p, 1, i)
    <2>1. /\ Len(q) \in Nat /\ Len(p) \in Nat /\ Len(q) <= Len(p) /\ ~(Len(p) <= Len(q))
          /\ \A i \in 1..Len(q) : q[i] = p[i]
      BY <1>2, PrefixIs, PrefixOrder
    <2>2. Len(q) \in 0..(Len(p) - 1)
      BY <2>1
    <2>3. SubSeq(p, 1, Len(q)) \in Seq(Names) /\ Len(SubSeq(p, 1, Len(q))) = Len(q)
          /\ \A k \in 1..Len(q) : SubSeq(p, 1, Len(q))[k] = p[k]
      BY <2>1 DEF TreePaths
    <2>4. q = SubSeq(p, 1, Len(q))
      BY <2>1, <2>3, SeqEqual DEF TreePaths
    <2> QED BY <2>2, <2>4
  <1> QED BY <1>1, <1>2 DEF StrictPrefixes

\* The names of a directory's entries.
LEMMA ChildNamesAre ==
    ASSUME NEW T, DOMAIN T \subseteq TreePaths, NEW p \in TreePaths
    PROVE  /\ ChildNames(T, p) \subseteq Names
           /\ \A e \in Names : e \in ChildNames(T, p) <=> Append(p, e) \in DOMAIN T
  <1>1. ChildNames(T, p) = Entries(T, p)
    BY DEF ChildNames, Entries, Under
  <1> QED BY <1>1, EntriesAre

\* A path of one name.
LEMMA OneName ==
    \A e \in Names : <<e>> \in TreePaths /\ Len(<<e>>) = 1 /\ <<e>>[1] = e /\ <<e>> = Append(<<>>, e)
  <1> TAKE e \in Names
  <1>1. <<e>> = Append(<<>>, e)
    OBVIOUS
  <1>2. <<>> \in TreePaths
    BY DEF TreePaths
  <1>3. <<e>> \in TreePaths
    BY <1>1, <1>2, AppendIs
  <1>4. Len(<<e>>) = 1 /\ <<e>>[1] = e
    OBVIOUS
  <1> QED BY <1>1, <1>3, <1>4

\* Two paths, one after the other.
LEMMA PathsJoin ==
    ASSUME NEW p \in TreePaths, NEW q \in TreePaths
    PROVE  /\ p \o q \in TreePaths /\ Len(p \o q) = Len(p) + Len(q) /\ IsPrefix(p, p \o q)
           /\ \A i \in 1..Len(p) : (p \o q)[i] = p[i]
           /\ \A i \in 1..Len(q) : (p \o q)[Len(p) + i] = q[i]
           /\ \A e \in Names : p \o Append(q, e) = Append(p \o q, e)
           /\ SubSeq(p \o q, Len(p) + 1, Len(p \o q)) = q
           /\ p \o <<>> = p /\ <<>> \o p = p
  <1>1. p \in Seq(Names) /\ q \in Seq(Names) /\ Len(p) \in Nat /\ Len(q) \in Nat
    BY DEF TreePaths
  <1> DEFINE j == p \o q
  <1>2. j \in Seq(Names) /\ Len(j) = Len(p) + Len(q) /\ \A i \in 1..Len(p) : j[i] = p[i]
    BY <1>1
  <1>3. \A i \in 1..Len(q) : j[Len(p) + i] = q[i]
    BY <1>1
  <1>4. p \o <<>> = p /\ <<>> \o p = p
    BY <1>1
  <1>5. ASSUME NEW e \in Names PROVE p \o Append(q, e) = Append(j, e)
    <2>1. <<e>> \in Seq(Names)
      BY OneName DEF TreePaths
    <2> HIDE DEF j
    <2>2. Append(q, e) = q \o <<e>>
      BY <1>1, AppendIsConcat
    <2>3. Append(j, e) = j \o <<e>>
      BY <1>2, AppendIsConcat
    <2>4. j \o <<e>> = p \o (q \o <<e>>)
      BY <1>1, <2>1, ConcatAssociative DEF j
    <2> QED BY <2>2, <2>3, <2>4
  <1> HIDE DEF j
  <1>6. IsPrefix(p, j)
    BY <1>1, <1>2, PrefixIs DEF TreePaths
  <1>7. SubSeq(j, Len(p) + 1, Len(j)) = q
    <2> DEFINE s == SubSeq(j, Len(p) + 1, Len(j))
    <2>1. s \in Seq(Names) /\ Len(s) = Len(q) /\ \A i \in 1..Len(q) : s[i] = j[Len(p) + i]
      BY <1>1, <1>2
    <2> HIDE DEF s
    <2>2. \A i \in 1..Len(q) : s[i] = q[i]
      BY <1>3, <2>1
    <2>3. s = q
      BY <1>1, <2>1, <2>2, SeqEqual
    <2> QED BY <2>3 DEF s
  <1> QED BY <1>2, <1>3, <1>4, <1>5, <1>6, <1>7 DEF j, TreePaths

\* A path is its beginning and the rest.
LEMMA PathSplits ==
    ASSUME NEW p \in TreePaths, NEW q \in TreePaths, IsPrefix(p, q)
    PROVE  /\ SubSeq(q, Len(p) + 1, Len(q)) \in TreePaths
           /\ p \o SubSeq(q, Len(p) + 1, Len(q)) = q
  <1> DEFINE s == SubSeq(q, Len(p) + 1, Len(q))
  <1>1. Len(p) \in Nat /\ Len(q) \in Nat /\ Len(p) <= Len(q) /\ \A i \in 1..Len(p) : p[i] = q[i]
    BY PrefixIs
  <1>2. s \in Seq(Names) /\ Len(s) = Len(q) - Len(p) /\ \A i \in 1..(Len(q) - Len(p)) : s[i] = q[Len(p) + i]
    BY <1>1 DEF TreePaths
  <1> HIDE DEF s
  <1>3. /\ p \o s \in TreePaths /\ Len(p \o s) = Len(q)
        /\ \A i \in 1..Len(p) : (p \o s)[i] = p[i]
        /\ \A i \in 1..Len(s) : (p \o s)[Len(p) + i] = s[i]
    BY <1>1, <1>2, PathsJoin DEF TreePaths
  <1>4. ASSUME NEW i \in 1..Len(q) PROVE (p \o s)[i] = q[i]
    <2>1. CASE i \in 1..Len(p)
      BY <1>1, <1>3, <2>1
    <2>2. CASE i \notin 1..Len(p)
      <3>1. i - Len(p) \in 1..Len(s) /\ i = Len(p) + (i - Len(p))
        BY <1>1, <1>2, <2>2
      <3> QED BY <1>2, <1>3, <3>1
    <2> QED BY <2>1, <2>2
  <1>5. p \o s = q
    BY <1>3, <1>4, SeqEqual DEF TreePaths
  <1> QED BY <1>2, <1>5 DEF s, TreePaths

\* Paths in a directory x are prefixes of each other as they are in x.
LEMMA JoinPrefix ==
    ASSUME NEW x \in TreePaths, NEW p \in TreePaths, NEW q \in TreePaths
    PROVE  /\ IsPrefix(x \o q, x \o p) <=> IsPrefix(q, p)
           /\ x \o q = x \o p => q = p
  <1> USE DEF TreePaths
  <1>1. ASSUME NEW s \in Seq(Names), NEW t \in Seq(Names), x \o s = x \o t PROVE s = t
    BY <1>1, ConcatSimplifications
  <1>2. ASSUME IsPrefix(q, p) PROVE IsPrefix(x \o q, x \o p)
    <2>1. PICK s \in Seq(Names) : p = q \o s
      BY <1>2, PathSplits
    <2>2. x \o p = (x \o q) \o s
      BY <2>1, ConcatAssociative
    <2> QED BY <2>2, PathsJoin
  <1>3. ASSUME IsPrefix(x \o q, x \o p) PROVE IsPrefix(q, p)
    <2>1. PICK s \in Seq(Names) : x \o p = (x \o q) \o s
      <3> DEFINE a == x \o q b == x \o p
      <3>1. a \in TreePaths /\ b \in TreePaths /\ IsPrefix(a, b)
        BY <1>3, PathsJoin
      <3> HIDE DEF a, b
      <3> QED BY <3>1, PathSplits DEF a, b
    <2>2. x \o p = x \o (q \o s) /\ q \o s \in Seq(Names)
      <3>1. q \o s \in Seq(Names)
        BY PathsJoin
      <3>2. (x \o q) \o s = x \o (q \o s)
        BY ConcatAssociative
      <3> QED BY <2>1, <3>1, <3>2
    <2>3. p = q \o s
      BY <1>1, <2>2
    <2> QED BY <2>3, PathsJoin
  <1> QED BY <1>1, <1>2, <1>3

\* A file of a partition: no symbolic link is on the way to it.
LEMMA DevicePaths ==
    ASSUME device \in Devices, NEW root \in Names, NEW p \in DeviceFiles(root)
    PROVE  /\ p \in TreePaths
           /\ Lstat(<<root>> \o p) \in {"file", "link"}
           /\ DeviceHas(root, p) = Node(Lstat(<<root>> \o p), "device")
           /\ DOMAIN files \subseteq TreePaths
           /\ \A r \in TreePaths : IsPrefix(r, p) =>
                /\ <<root>> \o r \in DOMAIN files
                /\ r # p => Lstat(<<root>> \o r) = "dir" /\ Opened(<<root>> \o r) = <<root>> \o r
  <1>1. PICK f \in DOMAIN files : f[1] = root /\ p = SubSeq(f, 2, Len(f))
    BY DEF DeviceFiles, PathsIn
  <1>2. /\ DOMAIN files \subseteq TreePaths /\ <<>> \notin DOMAIN files
        /\ \A q \in StrictPrefixes(f) : q \in DOMAIN files => files[q].kind = "dir"
        /\ \A q \in StrictPrefixes(f) \ {<<>>} : q \in DOMAIN files
    BY DevicesClosed, StringPaths DEF files
  <1>3. f \in TreePaths /\ f # <<>> /\ <<root>> \in TreePaths
    BY <1>2 DEF TreePaths
  <1>4. IsPrefix(<<root>>, f) /\ Len(<<root>>) + 1 = 2
    <2> DEFINE o == <<root>>
    <2>1. Len(o) = 1 /\ o[1] = root /\ o \in TreePaths
      BY OneName
    <2> HIDE DEF o
    <2>2. 1 <= Len(f) /\ Len(f) \in Nat
      BY <1>3 DEF TreePaths
    <2>3. ASSUME NEW i \in 1..Len(o) PROVE o[i] = f[i]
      <3>1. i = 1
        BY <2>1
      <3> QED BY <1>1, <2>1, <3>1
    <2>4. IsPrefix(o, f)
      BY <1>3, <2>1, <2>2, <2>3, PrefixIs
    <2> QED BY <2>1, <2>4 DEF o
  <1>5. p \in TreePaths /\ <<root>> \o p = f
    BY <1>1, <1>3, <1>4, PathSplits
  <1>6. ASSUME NEW q \in TreePaths, q \in DOMAIN files, IsPrefix(q, f)
        PROVE  Resolve(files, q) = q
    <2>1. ASSUME NEW l \in StrictPrefixes(q), l \in DOMAIN files PROVE files[l].kind # "link"
      <3>1. l \in TreePaths /\ IsPrefix(l, q) /\ l # q
        BY <2>1, StrictPrefixesAre
      <3>2. IsPrefix(l, f) /\ l # f
        BY <1>3, <1>6, <3>1, PrefixOrder
      <3>3. l \in StrictPrefixes(f)
        BY <1>3, <3>1, <3>2, StrictPrefixesAre
      <3> QED BY <1>2, <2>1, <3>3
    <2> QED BY <2>1 DEF Resolve
  <1>7. ASSUME NEW r \in TreePaths, IsPrefix(r, p), r # p
        PROVE  /\ <<root>> \o r \in DOMAIN files /\ Lstat(<<root>> \o r) = "dir"
               /\ Opened(<<root>> \o r) = <<root>> \o r
    <2> DEFINE q == <<root>> \o r
    <2>1. q \in TreePaths /\ IsPrefix(q, f) /\ q # f
      <3>1. q \in TreePaths
        BY <1>3, PathsJoin
      <3> QED BY <1>3, <1>5, <1>7, <3>1, JoinPrefix
    <2>2. q # <<>>
      BY <1>3, PathsJoin DEF TreePaths
    <2> HIDE DEF q
    <2>3. q \in StrictPrefixes(f)
      BY <1>3, <2>1, StrictPrefixesAre
    <2>4. q \in DOMAIN files /\ files[q].kind = "dir"
      BY <1>2, <2>2, <2>3
    <2>5. Resolve(files, q) = q
      BY <1>6, <2>1, <2>4
    <2>6. Lstat(q) = "dir" /\ Opened(q) = q
      BY <2>4, <2>5 DEF Lstat, Opened, KindOf
    <2> QED BY <2>4, <2>6 DEF q
  <1>8. Lstat(f) \in {"file", "link"} /\ DeviceHas(root, p) = Node(Lstat(f), "device")
    <2>1. DeviceHas(root, p).kind \in {"file", "link"}
      BY DEF DeviceFiles
    <2> QED BY <1>5, <2>1 DEF DeviceHas, Node
  <1> QED BY <1>2, <1>5, <1>7, <1>8

\* The place of a partition's path among the modules' paths.
LEMMA TreePathIs ==
    ASSUME NEW root \in Names, NEW q \in TreePaths
    PROVE  /\ TreePath(root, q) \in TreePaths
           /\ TreePath(root, q) = <<>> => q = <<>>
           /\ \A e \in Names : TreePath(root, Append(q, e)) = Append(TreePath(root, q), e)
           /\ \A p \in TreePaths : IsPrefix(q, p) => IsPrefix(TreePath(root, q), TreePath(root, p))
           /\ \A p \in TreePaths : TreePath(root, q) = TreePath(root, p) => q = p
  <1>1. CASE root = "system"
    BY <1>1 DEF TreePath
  <1>2. CASE root # "system"
    <2> DEFINE o == <<root>>
    <2>1. o \in TreePaths /\ Len(o) = 1
      BY OneName
    <2>2. \A p \in TreePaths : TreePath(root, p) = o \o p
      BY <1>2 DEF TreePath
    <2> HIDE DEF o
    <2>3. o \o q \in TreePaths /\ Len(o \o q) = 1 + Len(q) /\ Len(q) \in Nat
      <3>1. Len(q) \in Nat
        BY PrefixIs
      <3>2. o \o q \in TreePaths /\ Len(o \o q) = Len(o) + Len(q)
        BY <2>1, PathsJoin
      <3> QED BY <2>1, <3>1, <3>2
    <2>4. o \o q # <<>>
      BY <2>3 DEF TreePaths
    <2>5. \A e \in Names : Append(q, e) \in TreePaths /\ o \o Append(q, e) = Append(o \o q, e)
      BY <2>1, AppendIs, PathsJoin
    <2>6. \A p \in TreePaths : IsPrefix(q, p) => IsPrefix(o \o q, o \o p)
      BY <2>1, JoinPrefix
    <2>7. \A p \in TreePaths : o \o q = o \o p => q = p
      BY <2>1, JoinPrefix
    <2> QED BY <2>2, <2>3, <2>4, <2>5, <2>6, <2>7
  <1> QED BY <1>1, <1>2

\* Where a node of the virtual tree comes from: a module, Magisk, or one of
\* the directories that are there in any case.
Brought(t, node) ==
    \E i \in DOMAIN modules :
        /\ ~modules[i].skip /\ t \in DOMAIN modules[i].tree
        /\ node = IF modules[i].tree[t] = "dir" THEN Dir ELSE Node(modules[i].tree[t], modules[i].name)
ComesFrom(t, node) ==
    \/ t \in DOMAIN injected
    \/ node = Dir /\ (t = <<>> \/ \E q \in DOMAIN injected : IsPrefix(t, q))
    \/ Brought(t, node)
MagiskFile(q) == \E d \in TreePaths, n \in {"magisk", "su", "zygisk"} : q = Append(d, n)
Injecting == \A q \in DOMAIN injected : MagiskFile(q)
Part(T, root) == DOMAIN T \subseteq TreePaths /\ \A q \in DOMAIN T : ComesFrom(TreePath(root, q), T[q])

LEMMA ReplaceIs == Replace \in Names /\ \A e \in {"magisk", "su", "zygisk"} : e \in Names /\ e # Replace
  BY DEF Names, Replace

\* Magisk's own files do not replace directories.
LEMMA NotInjected ==
    ASSUME Injecting, NEW u \in TreePaths
    PROVE  Append(u, Replace) \notin DOMAIN injected
  <1> DEFINE a == Append(u, Replace)
  <1>1. ASSUME NEW d \in TreePaths, NEW e \in {"magisk", "su", "zygisk"}, a = Append(d, e)
        PROVE  FALSE
    <2>1. e \in Names /\ Replace \in Names /\ e # Replace
      BY ReplaceIs
    <2>2. Replace = e
      BY <1>1, <2>1, EntryPath
    <2> QED BY <2>1, <2>2
  <1> HIDE DEF a
  <1>2. a \notin DOMAIN injected
    BY <1>1 DEF Injecting, MagiskFile
  <1> QED BY <1>2 DEF a

\* The trees of the modules.
LEMMA ModuleTrees ==
    ASSUME modules \in ModuleLists, NEW i \in DOMAIN modules
    PROVE  /\ DOMAIN modules[i].tree \subseteq TreePaths
           /\ \A v \in DOMAIN modules[i].tree, u \in TreePaths :
                IsPrefix(u, v) => u \in DOMAIN modules[i].tree
  <1> DEFINE tree == modules[i].tree
  <1>1. /\ DOMAIN tree \subseteq TreePaths
        /\ \A v \in DOMAIN tree : \A u \in StrictPrefixes(v) : u \in DOMAIN tree
    BY ModulesClosed, StringPaths
  <1> HIDE DEF tree
  <1>2. ASSUME NEW v \in DOMAIN tree, NEW u \in TreePaths, IsPrefix(u, v) PROVE u \in DOMAIN tree
    <2>1. v \in TreePaths /\ (u = v \/ u \in StrictPrefixes(v))
      BY <1>1, <1>2, StrictPrefixesAre
    <2> QED BY <1>1, <2>1
  <1> QED BY <1>1, <1>2 DEF tree

\* On the way to a path that nobody touches there are directories only, and
\* none of them is replaced.
LEMMA TreeUntouched ==
    ASSUME modules \in ModuleLists, Injecting, NEW root \in Names, NEW T, Part(T, root),
           NEW p \in TreePaths, Untouched(root, p), NEW q \in TreePaths, IsPrefix(q, p)
    PROVE  /\ q \in DOMAIN T => T[q] = Dir
           /\ q = p /\ q # <<>> => q \notin DOMAIN T
           /\ q # p /\ Append(q, Replace) \in DOMAIN T => T[Append(q, Replace)].kind # "file"
  <1> DEFINE t == TreePath(root, p) u == TreePath(root, q) v == Append(u, Replace)
  <1>1. /\ t \in TreePaths /\ u \in TreePaths /\ IsPrefix(u, t) /\ (u = <<>> => q = <<>>)
        /\ u = t <=> q = p
        /\ TreePath(root, Append(q, Replace)) = v /\ Replace \in Names
    BY TreePathIs, ReplaceIs
  <1>2. \A x \in DOMAIN injected : ~IsPrefix(x, t) /\ ~IsPrefix(t, x)
    BY DEF Untouched
  <1>3. ASSUME NEW i \in DOMAIN modules, ~modules[i].skip
        PROVE  /\ t \notin DOMAIN modules[i].tree
               /\ \A s \in StrictPrefixes(t) : s \in DOMAIN modules[i].tree =>
                    modules[i].tree[s] = "dir" /\ Append(s, Replace) \notin DOMAIN modules[i].tree
    BY <1>3 DEF Untouched
  <1> HIDE DEF t, u, v
  <1>4. u = t \/ u \in StrictPrefixes(t)
    BY <1>1, StrictPrefixesAre
  <1>5. ASSUME q \in DOMAIN T PROVE T[q] = Dir /\ ~(q = p /\ q # <<>>)
    <2>1. ComesFrom(u, T[q])
      BY <1>5 DEF Part, u
    <2>2. u \notin DOMAIN injected
      BY <1>1, <1>2
    <2>3. CASE T[q] = Dir /\ (u = <<>> \/ \E x \in DOMAIN injected : IsPrefix(u, x))
      BY <1>1, <1>2, <2>3
    <2>4. CASE Brought(u, T[q])
      <3>1. PICK i \in DOMAIN modules :
                /\ ~modules[i].skip /\ u \in DOMAIN modules[i].tree
                /\ T[q] = IF modules[i].tree[u] = "dir" THEN Dir ELSE Node(modules[i].tree[u], modules[i].name)
        BY <2>4 DEF Brought
      <3>2. u # t /\ modules[i].tree[u] = "dir"
        BY <1>3, <1>4, <3>1
      <3> QED BY <1>1, <3>1, <3>2
    <2> QED BY <2>1, <2>2, <2>3, <2>4 DEF ComesFrom
  <1>6. ASSUME q # p, Append(q, Replace) \in DOMAIN T PROVE T[Append(q, Replace)].kind # "file"
    <2> DEFINE n == T[Append(q, Replace)]
    <2>1. ComesFrom(v, n)
      BY <1>1, <1>6 DEF Part
    <2> HIDE DEF n
    <2>2. v \notin DOMAIN injected
      BY <1>1, NotInjected DEF v
    <2>3. ASSUME Brought(v, n) PROVE FALSE
      <3>1. PICK i \in DOMAIN modules : ~modules[i].skip /\ v \in DOMAIN modules[i].tree
        BY <2>3 DEF Brought
      <3>2. IsPrefix(u, v)
        BY <1>1, EntryPath DEF v
      <3>3. u \in DOMAIN modules[i].tree
        BY <1>1, <3>1, <3>2, ModuleTrees
      <3>4. u \in StrictPrefixes(t)
        BY <1>1, <1>4, <1>6
      <3> QED BY <1>3, <3>1, <3>3, <3>4 DEF v
    <2>4. n.kind = "dir"
      <3>1. n = Dir
        BY <2>1, <2>2, <2>3 DEF ComesFrom
      <3> QED BY <3>1 DEF Dir, Node
    <2> QED BY <2>4 DEF n
  <1> QED BY <1>5, <1>6

\* A directory is replaced by a module.
LEMMA ReplacerIs ==
    ASSUME Injecting, NEW root \in Names, NEW T, Part(T, root),
           NEW q \in TreePaths, Replacer(T, q) # "none"
    PROVE  /\ Append(q, Replace) \in DOMAIN T /\ T[Append(q, Replace)].kind = "file"
           /\ \E i \in DOMAIN modules : modules[i].name = Replacer(T, q)
  <1> DEFINE a == Append(q, Replace) v == TreePath(root, a)
  <1>1. Replace \in Names /\ v = Append(TreePath(root, q), Replace) /\ TreePath(root, q) \in TreePaths
    BY TreePathIs, ReplaceIs
  <1>2. a \in DOMAIN T
    BY <1>1, ChildNamesAre DEF Replacer, Part
  <1>3. T[a].kind = "file" /\ Replacer(T, q) = T[a].from
    BY DEF Replacer
  <1>4. ComesFrom(v, T[a])
    BY <1>2 DEF Part
  <1> HIDE DEF a, v
  <1>5. v \notin DOMAIN injected
    BY <1>1, NotInjected
  <1>6. T[a] # Dir
    BY <1>3 DEF Dir, Node
  <1>7. PICK i \in DOMAIN modules : T[a] = Node(modules[i].tree[v], modules[i].name)
    BY <1>4, <1>5, <1>6 DEF ComesFrom, Brought
  <1>8. T[a].from = modules[i].name
    BY <1>7 DEF Node
  <1> QED BY <1>2, <1>3, <1>8 DEF a

\* What a module has in a directory is in the directory.
LEMMA ModuleDirPaths ==
    ASSUME modules \in ModuleLists, NEW m, \E i \in DOMAIN modules : modules[i].name = m,
           NEW root \in Names, NEW p \in TreePaths, NEW x \in ModuleDir(m, root, p)
    PROVE  x[1] \in TreePaths /\ IsPrefix(p, x[1])
  <1> DEFINE mod == CHOOSE i \in Range(modules) : i.name = m
             t == TreePath(root, p)
             dir == IF t \in DOMAIN mod.tree /\ mod.tree[t] = "dir" THEN TreeAt(mod.tree, t) ELSE << >>
  <1>1. mod \in Range(modules)
    BY DEF Range
  <1>2. x = <<p, Dir>> \/ \E q \in DOMAIN dir : x = <<p \o q, IF dir[q] = "dir" THEN Dir ELSE Node(dir[q], m)>>
    BY DEF ModuleDir
  <1> HIDE DEF mod
  <1>3. DOMAIN mod.tree \subseteq TreePaths
    BY <1>1, ModuleTrees DEF Range
  <1>4. t \in TreePaths
    BY TreePathIs
  <1> HIDE DEF t
  <1>5. DOMAIN TreeAt(mod.tree, t) \subseteq TreePaths
    BY <1>3, <1>4, PathSplits DEF TreeAt, SubTree
  <1>6. DOMAIN dir \subseteq TreePaths
    BY <1>5
  <1> HIDE DEF dir
  <1>7. x[1] = p \/ \E q \in TreePaths : x[1] = p \o q
    <2>1. CASE x = <<p, Dir>>
      BY <2>1
    <2>2. ASSUME NEW q \in DOMAIN dir, NEW n, x = <<p \o q, n>> PROVE q \in TreePaths /\ x[1] = p \o q
      BY <1>6, <2>2
    <2>3. CASE \E q \in DOMAIN dir : x = <<p \o q, IF dir[q] = "dir" THEN Dir ELSE Node(dir[q], m)>>
      <3>1. PICK q \in DOMAIN dir : x = <<p \o q, IF dir[q] = "dir" THEN Dir ELSE Node(dir[q], m)>>
        BY <2>3
      <3> DEFINE n == IF dir[q] = "dir" THEN Dir ELSE Node(dir[q], m)
      <3>2. x = <<p \o q, n>>
        BY <3>1
      <3> HIDE DEF n
      <3> QED BY <2>2, <3>2
    <2> QED BY <1>2, <2>1, <2>3
  <1>8. IsPrefix(p, p) /\ \A q \in TreePaths : p \o q \in TreePaths /\ IsPrefix(p, p \o q)
    BY PathsJoin, PrefixOrder
  <1> QED BY <1>7, <1>8

\* What NothingLost is about, and what it comes to for one mount.
Safe(root, p) ==
    /\ Untouched(root, p)
    /\ ~Fails("bind", <<root>> \o p)
    /\ \A q \in StrictPrefixes(p) : ~Fails("read", <<root>> \o q)
GoodBind(root, b) ==
    \A p \in {q \in DeviceFiles(root) : IsPrefix(b.at, q)} : Safe(root, p) =>
        /\ \E x \in b.shown : x[1] = p
        /\ \A x \in b.shown : x[1] = p => x[2] = DeviceHas(root, p)

\* A directory a of a partition's tree and a file p of the device in it.
Around(T, root, a, p) ==
    /\ device \in Devices /\ modules \in ModuleLists /\ Injecting
    /\ root \in Names /\ Part(T, root) /\ a \in DOMAIN T
    /\ p \in DeviceFiles(root) /\ IsPrefix(a, p) /\ a # p /\ Safe(root, p)

\* What is above a path without its last name.
LEMMA FrontIs ==
    ASSUME NEW s \in TreePaths, s # <<>>
    PROVE  Front(s) \in TreePaths /\ IsPrefix(Front(s), s) /\ Front(s) # s
  <1>1. Len(s) \in Nat /\ Len(s) # 0
    BY DEF TreePaths
  <1>2. Len(s) - 1 \in 0..(Len(s) - 1)
    BY <1>1
  <1>3. Front(s) \in StrictPrefixes(s)
    BY <1>2 DEF Front, StrictPrefixes
  <1> QED BY <1>3, StrictPrefixesAre

\* The directories on the way to p are gone through, entry by entry.
LEMMA OnTheWay ==
    ASSUME NEW T, NEW root, NEW a, NEW p, Around(T, root, a, p), NEW s \in TreePaths, IsPrefix(s, p)
    PROVE  /\ p \in TreePaths /\ a \in TreePaths
           /\ ~BoundWhole(T, s)
           /\ s # p => /\ NodeAt(T, root, s) = Dir /\ Replacer(T, s) = "none"
                       /\ p[Len(s) + 1] \in EntryNames(T, root, s)
  <1>0. /\ device \in Devices /\ modules \in ModuleLists /\ Injecting /\ root \in Names
        /\ Part(T, root) /\ p \in DeviceFiles(root) /\ Untouched(root, p)
        /\ \A q \in StrictPrefixes(p) : ~Fails("read", <<root>> \o q)
    BY DEF Around, Safe
  <1>1. p \in TreePaths /\ a \in TreePaths /\ DOMAIN files \subseteq TreePaths
    BY <1>0, DevicePaths DEF Around, Part
  <1>2. ASSUME NEW q \in TreePaths, IsPrefix(q, p), q # p PROVE Replacer(T, q) = "none"
    <2> SUFFICES ASSUME Replacer(T, q) # "none" PROVE FALSE
      OBVIOUS
    <2>1. Append(q, Replace) \in DOMAIN T /\ T[Append(q, Replace)].kind = "file"
      BY <1>0, ReplacerIs
    <2> QED BY <1>0, <1>1, <1>2, <2>1, TreeUntouched
  <1>3. ~BoundWhole(T, s)
    <2> SUFFICES ASSUME s # <<>> PROVE Replacer(T, Front(s)) = "none"
      BY DEF BoundWhole
    <2>1. Front(s) \in TreePaths /\ IsPrefix(Front(s), s) /\ Front(s) # s
      BY FrontIs
    <2>2. IsPrefix(Front(s), p) /\ Front(s) # p
      BY <1>1, <2>1, PrefixOrder
    <2> QED BY <1>2, <2>1, <2>2
  <1>4. ASSUME s # p PROVE NodeAt(T, root, s) = Dir
    <2>1. s \in DOMAIN T => T[s] = Dir
      BY <1>0, <1>1, TreeUntouched
    <2>2. Lstat(<<root>> \o s) = "dir"
      BY <1>0, <1>4, DevicePaths
    <2> QED BY <2>1, <2>2 DEF NodeAt, Mirror
  <1>5. ASSUME s # p PROVE p[Len(s) + 1] \in EntryNames(T, root, s)
    <2> DEFINE e == p[Len(s) + 1] d == <<root>> \o s
    <2>1. e \in Names /\ Append(s, e) \in TreePaths /\ IsPrefix(Append(s, e), p)
      BY <1>1, <1>5, NextEntry, AppendIs
    <2> HIDE DEF e
    <2>2. <<root>> \o Append(s, e) \in DOMAIN files /\ Opened(d) = d
      BY <1>0, <1>5, <2>1, DevicePaths
    <2>3. d \in TreePaths /\ <<root>> \o Append(s, e) = Append(d, e)
      <3>1. <<root>> \in TreePaths
        BY <1>0, OneName
      <3> QED BY <2>1, <3>1, PathsJoin
    <2>4. s \in StrictPrefixes(p)
      BY <1>1, <1>5, StrictPrefixesAre
    <2>5. ~Fails("read", d)
      BY <1>0, <2>4
    <2> HIDE DEF d
    <2>6. e \in ChildNames(files, d)
      BY <1>1, <2>1, <2>2, <2>3, ChildNamesAre
    <2>7. e \in ReadDir(d)
      BY <2>2, <2>5, <2>6 DEF ReadDir
    <2>8. Replacer(T, s) = "none"
      BY <1>2, <1>5
    <2> QED BY <2>7, <2>8 DEF EntryNames, d, e
  <1> QED BY <1>1, <1>2, <1>3, <1>4, <1>5

\* It is among the paths there can be.
LEMMA WayPossible ==
    ASSUME NEW T, NEW root, NEW a, NEW p, Around(T, root, a, p),
           NEW r \in TreePaths, IsPrefix(a, r), IsPrefix(r, p)
    PROVE  r \in Possible(T, root)
  <1> DEFINE d == <<root>> \o a f == <<root>> \o r
  <1>1. a \in TreePaths /\ a \in DOMAIN T /\ IsPrefix(a, p) /\ a # p /\ <<root>> \in TreePaths
    BY OneName DEF Around, Part
  <1>2. Opened(d) = d /\ f \in DOMAIN files /\ DOMAIN files \subseteq TreePaths
    BY <1>1, DevicePaths DEF Around
  <1>3. d \in TreePaths /\ IsPrefix(d, f)
    BY <1>1, PathsJoin, JoinPrefix
  <1>4. PICK s \in TreePaths : r = a \o s
    BY <1>1, PathSplits
  <1>5. f = d \o s
    BY <1>1, <1>4, ConcatAssociative DEF TreePaths
  <1> HIDE DEF d, f
  <1>6. SubSeq(f, Len(d) + 1, Len(f)) = s
    BY <1>3, <1>5, PathsJoin
  <1>7. f \in SubTree(files, Opened(d))
    BY <1>2, <1>3 DEF SubTree
  <1>8. r \in {a \o SubSeq(g, Len(Opened(d)) + 1, Len(g)) : g \in SubTree(files, Opened(d))}
    BY <1>2, <1>4, <1>6, <1>7
  <1> QED BY <1>1, <1>8 DEF Possible, d

\* commit_tmpfs comes to r if nothing on the way fails.
LEMMA WayVisited ==
    ASSUME NEW T, NEW root, NEW a, NEW p, Around(T, root, a, p),
           NEW r \in TreePaths, IsPrefix(a, r), IsPrefix(r, p),
           \A s \in TreePaths : IsPrefix(s, r) /\ s # r => ~Fails("create", <<root>> \o s)
    PROVE  r \in Visited(T, root, a)
  <1>1. r \in Possible(T, root)
    BY WayPossible
  <1>2. ASSUME NEW s \in StrictPrefixes(r)
        PROVE  /\ NodeAt(T, root, s) = Dir /\ ~BoundWhole(T, s) /\ ~Fails("create", <<root>> \o s)
               /\ r[Len(s) + 1] \in EntryNames(T, root, s)
    <2>1. s \in TreePaths /\ IsPrefix(s, r) /\ s # r
      BY StrictPrefixesAre
    <2>2. p \in TreePaths
      BY OnTheWay
    <2>3. IsPrefix(s, p) /\ s # p
      BY <2>1, <2>2, PrefixOrder
    <2>4. r[Len(s) + 1] = p[Len(s) + 1]
      <3>1. Len(s) \in Nat /\ Len(r) \in Nat /\ Len(s) < Len(r)
        BY <2>1, PrefixIs, PrefixOrder
      <3>2. Len(s) + 1 \in 1..Len(r)
        BY <3>1
      <3> QED BY <2>2, <3>2, PrefixIs
    <2> QED BY <2>1, <2>3, <2>4, OnTheWay
  <1> QED BY <1>1, <1>2 DEF Visited

\* Only one step fails: had the creation of a directory on the way failed,
\* everything before it would have been done, and its error would have ended
\* the commit.
LEMMA NothingFails ==
    ASSUME NEW T, NEW root, NEW a, NEW p, Around(T, root, a, p), Complete(T, root, a),
           NEW r \in TreePaths, IsPrefix(a, r), IsPrefix(r, p),
           NodeAt(T, root, r).kind # "whiteout"
    PROVE  ~Fails("create", <<root>> \o r)
  <1> SUFFICES ASSUME Fails("create", <<root>> \o r) PROVE FALSE
    OBVIOUS
  <1>1. root \in Names /\ <<root>> \in TreePaths
    BY OneName DEF Around
  <1>2. ASSUME NEW s \in TreePaths, Fails("create", <<root>> \o s) PROVE s = r
    <2>1. [what |-> "create", at |-> <<root>> \o s] = [what |-> "create", at |-> <<root>> \o r]
      BY <1>2 DEF Fails
    <2>2. <<root>> \o s = <<root>> \o r
      BY <2>1
    <2> QED BY <1>1, <2>2, JoinPrefix
  <1>3. r \in Visited(T, root, a)
    BY <1>2, WayVisited
  <1> QED BY <1>3 DEF Complete

\* What the worker directory shows at p is the device's file.
LEMMA WorkerKeeps ==
    ASSUME NEW T, NEW root, NEW a, NEW p, Around(T, root, a, p), Complete(T, root, a)
    PROVE  /\ \E x \in CommitTmpfs(T, root, a) : x[1] = p
           /\ \A x \in CommitTmpfs(T, root, a) : x[1] = p => x[2] = DeviceHas(root, p)
  <1>1. /\ device \in Devices /\ modules \in ModuleLists /\ Injecting /\ root \in Names
        /\ Part(T, root) /\ p \in DeviceFiles(root) /\ Untouched(root, p)
        /\ ~Fails("bind", <<root>> \o p) /\ IsPrefix(a, p) /\ a # p
    BY DEF Around, Safe
  <1>2. /\ p \in TreePaths /\ a \in TreePaths /\ IsPrefix(p, p)
        /\ Lstat(<<root>> \o p) \in {"file", "link"}
        /\ DeviceHas(root, p) = Node(Lstat(<<root>> \o p), "device")
    BY <1>1, DevicePaths, PrefixOrder, OnTheWay
  <1>3. p # <<>>
    <2>1. Len(a) \in Nat /\ Len(p) \in Nat /\ Len(a) < Len(p)
      BY <1>1, <1>2, PrefixIs, PrefixOrder
    <2> QED BY <2>1
  <1>4. p \notin DOMAIN T
    BY <1>1, <1>2, <1>3, TreeUntouched
  <1>5. NodeAt(T, root, p) = DeviceHas(root, p) /\ NodeAt(T, root, p).kind # "whiteout"
    BY <1>2, <1>4 DEF NodeAt, Mirror, Node
  <1>6. ASSUME NEW s \in TreePaths, IsPrefix(s, p), s # p, IsPrefix(a, s)
        PROVE  ~Fails("create", <<root>> \o s)
    <2>1. NodeAt(T, root, s) = Dir
      BY <1>6, OnTheWay
    <2>2. NodeAt(T, root, s).kind # "whiteout"
      BY <2>1 DEF Dir, Node
    <2> QED BY <1>6, <2>2, NothingFails
  <1>7. ~Fails("create", <<root>> \o p)
    BY <1>1, <1>2, <1>5, NothingFails
  <1>8. p \in Visited(T, root, a)
    <2>1. ASSUME NEW s \in StrictPrefixes(p), IsPrefix(a, s)
          PROVE  /\ NodeAt(T, root, s) = Dir /\ ~BoundWhole(T, s) /\ ~Fails("create", <<root>> \o s)
                 /\ p[Len(s) + 1] \in EntryNames(T, root, s)
      <3>1. s \in TreePaths /\ IsPrefix(s, p) /\ s # p
        BY <1>2, StrictPrefixesAre
      <3> QED BY <1>6, <2>1, <3>1, OnTheWay
    <2>2. p \in Possible(T, root)
      BY <1>1, <1>2, WayPossible
    <2> QED BY <1>1, <2>1, <2>2 DEF Visited
  <1>9. ~BoundWhole(T, p)
    BY <1>2, OnTheWay
  <1>10. Shown(T, root, p) = {<<p, DeviceHas(root, p)>>}
    BY <1>1, <1>5, <1>7, <1>9 DEF Shown
  <1>11. ASSUME NEW q \in Visited(T, root, a), NEW x \in Shown(T, root, q), x[1] = p
         PROVE  q = p
    <2> SUFFICES ASSUME q # p PROVE FALSE
      OBVIOUS
    <2>1. \A n : x # <<q, n>>
      BY <1>11
    <2>2. BoundWhole(T, q) /\ x \in ModuleDir(Replacer(T, Front(q)), root, q)
      BY <2>1 DEF Shown
    <2>3. q \in TreePaths /\ q # <<>> /\ Replacer(T, Front(q)) # "none"
      BY <1>1, <2>2 DEF BoundWhole, Part
    <2>4. \E i \in DOMAIN modules : modules[i].name = Replacer(T, Front(q))
      BY <1>1, <2>3, FrontIs, ReplacerIs
    <2>5. IsPrefix(q, p)
      BY <1>1, <1>11, <2>2, <2>3, <2>4, ModuleDirPaths
    <2> QED BY <2>2, <2>3, <2>5, OnTheWay
  <1>12. <<p, DeviceHas(root, p)>> \in CommitTmpfs(T, root, a)
    BY <1>8, <1>10 DEF CommitTmpfs
  <1>13. ASSUME NEW x \in CommitTmpfs(T, root, a), x[1] = p PROVE x[2] = DeviceHas(root, p)
    <2>1. PICK q \in Visited(T, root, a) : x \in Shown(T, root, q)
      BY DEF CommitTmpfs
    <2>2. x \in Shown(T, root, p)
      BY <1>11, <1>13, <2>1
    <2> QED BY <1>10, <2>2
  <1> QED BY <1>12, <1>13

\* No mount of a partition's commit hides a file that nobody touches.
LEMMA CommitKeeps ==
    ASSUME device \in Devices, modules \in ModuleLists, Injecting, NEW root \in Names,
           NEW T, Part(T, root), NEW b \in Commit(T, root)
    PROVE  GoodBind(root, b)
  <1> SUFFICES ASSUME NEW p \in DeviceFiles(root), IsPrefix(b.at, p), Safe(root, p)
               PROVE  /\ \E x \in b.shown : x[1] = p
                      /\ \A x \in b.shown : x[1] = p => x[2] = DeviceHas(root, p)
    BY DEF GoodBind
  <1>1. PICK a \in DOMAIN T :
            /\ b = [at |-> a, shown |-> IF T[a] = Dir THEN CommitTmpfs(T, root, a) ELSE {<<a, T[a]>>}]
            /\ T[a].kind = "file" \/ (Rebuilt(T, root, a) /\ Complete(T, root, a))
            /\ Lstat(<<root>> \o a) = T[a].kind
    BY Zenon DEF Commit, Walked
  <1>2. b.at = a /\ b.shown = IF T[a] = Dir THEN CommitTmpfs(T, root, a) ELSE {<<a, T[a]>>}
    BY <1>1
  <1>3. p \in TreePaths /\ a \in TreePaths /\ Lstat(<<root>> \o p) \in {"file", "link"}
    BY DevicePaths DEF Part
  <1>4. T[a] = Dir
    BY <1>2, <1>3, TreeUntouched DEF Safe
  <1>5. T[a].kind = "dir"
    BY <1>4 DEF Dir, Node
  <1>6. a # p /\ Complete(T, root, a)
    BY <1>1, <1>3, <1>5
  <1>7. Around(T, root, a, p)
    BY <1>2, <1>6 DEF Around
  <1> QED BY <1>2, <1>4, <1>6, <1>7, WorkerKeeps

\* The directory Magisk's files go to is a path.
LEMMA InjectDirIs ==
    ASSUME path_env \in PathEnvs, NEW T
    PROVE  InjectDir(T) \in TreePaths
  <1> DEFINE good == {i \in Candidates : CanReach(T, path_env[i].dir)}
  <1>1. \A i \in good : i \in Nat /\ path_env[i].dir \in TreePaths /\ FilesIn(i) \in Nat
    BY PathEnvsNamed, StringPaths DEF Candidates, FilesIn
  <1>2. CASE good = {}
    <2>1. "bin" \in Names
      BY DEF Names
    <2>2. InjectDir(T) = <<"bin">>
      BY <1>2 DEF InjectDir
    <2> QED BY <2>1, <2>2, OneName
  <1>3. CASE good # {}
    <2>1. InjectDir(T) = path_env[CHOOSE i \in good : \A k \in good : Sooner(i, k)].dir
      BY <1>3 DEF InjectDir
    <2> HIDE DEF good
    <2> DEFINE counts == {FilesIn(i) : i \in good}
    <2>2. counts \in SUBSET Nat /\ counts # {}
      BY <1>1, <1>3
    <2>3. PICK c \in counts : \A y \in counts : c <= y
      BY <2>2, LeastNumber
    <2> DEFINE emptiest == {i \in good : FilesIn(i) = c}
    <2>4. emptiest \in SUBSET Nat /\ emptiest # {}
      BY <1>1, <2>3
    <2>5. PICK i \in emptiest : \A y \in emptiest : i <= y
      BY <2>4, LeastNumber
    <2>6. ASSUME NEW k \in good PROVE Sooner(i, k)
      <3>1. FilesIn(i) = c /\ FilesIn(k) \in Nat /\ c \in Nat /\ c <= FilesIn(k)
        BY <1>1, <2>2, <2>3, <2>5
      <3>2. FilesIn(k) = c => i <= k
        BY <2>5
      <3> QED BY <3>1, <3>2 DEF Sooner
    <2>7. \E j \in good : \A k \in good : Sooner(j, k)
      BY <2>5, <2>6
    <2>8. (CHOOSE j \in good : \A k \in good : Sooner(j, k)) \in good
      BY <2>7
    <2> QED BY <1>1, <2>1, <2>8
  <1> QED BY <1>2, <1>3

\* What insert leaves in the tree.
LEMMA InsertIs ==
    ASSUME NEW T, NEW N, DOMAIN T \subseteq TreePaths, DOMAIN N \subseteq TreePaths
    PROVE  /\ DOMAIN Insert(T, N) \subseteq TreePaths
           /\ \A t \in DOMAIN Insert(T, N) :
                \/ t \in DOMAIN N
                \/ Insert(T, N)[t] = Dir /\ \E q \in DOMAIN N : IsPrefix(t, q)
                \/ t \in DOMAIN T /\ Insert(T, N)[t] = T[t]
  <1> DEFINE D == UNION {StrictPrefixes(p) : p \in DOMAIN N}
             dirs == [q \in D |-> Dir]
             kept == Without(T, UNION {SubTree(T, p) : p \in DOMAIN N})
             U == Overlay(kept, dirs)
  <1>1. Insert(T, N) = Overlay(U, N)
    BY DEF Insert
  <1>2. \A t \in D : t \in TreePaths /\ \E q \in DOMAIN N : IsPrefix(t, q)
    BY StrictPrefixesAre
  <1>3. DOMAIN kept \subseteq DOMAIN T /\ \A t \in DOMAIN kept : kept[t] = T[t]
    BY DEF Without
  <1>4. DOMAIN dirs = D /\ \A t \in D : dirs[t] = Dir
    OBVIOUS
  <1> HIDE DEF D, dirs, kept
  <1>5. /\ DOMAIN U = DOMAIN kept \cup D
        /\ \A t \in DOMAIN U : (t \in D /\ U[t] = Dir) \/ (t \in DOMAIN kept /\ U[t] = kept[t])
    BY <1>4 DEF Overlay
  <1> HIDE DEF U
  <1>6. /\ DOMAIN Overlay(U, N) = DOMAIN U \cup DOMAIN N
        /\ \A t \in DOMAIN Overlay(U, N) : t \in DOMAIN N \/ (t \in DOMAIN U /\ Overlay(U, N)[t] = U[t])
    BY DEF Overlay
  <1> QED BY <1>1, <1>2, <1>3, <1>5, <1>6

\* What depends on the modules, Magisk's files and the device only.
LEMMA KeptFrom ==
    ASSUME UNCHANGED <<modules, injected>>
    PROVE  /\ Injecting' = Injecting
           /\ \A T, root : Part(T, root)' = Part(T, root)
           /\ \A t, n : ComesFrom(t, n)' = ComesFrom(t, n)
  <1>1. \A t, n : Brought(t, n)' = Brought(t, n)
    BY DEF Brought
  <1>2. \A t, n : ComesFrom(t, n)' = ComesFrom(t, n)
    BY <1>1 DEF ComesFrom
  <1> QED BY <1>2 DEF Injecting, Part, TreePath

LEMMA MoreInjected ==
    ASSUME UNCHANGED modules, DOMAIN injected \subseteq DOMAIN injected', NEW t, NEW n, ComesFrom(t, n)
    PROVE  ComesFrom(t, n)'
  <1>1. Brought(t, n)' = Brought(t, n)
    BY DEF Brought
  <1> QED BY <1>1 DEF ComesFrom

\* A failure that comes later changes nothing of what has been bound.
LEMMA KeptBinds ==
    ASSUME UNCHANGED <<device, modules, injected>>, fault' = fault \/ fault = NoFault,
           NEW root, NEW b, GoodBind(root, b)
    PROVE  GoodBind(root, b)'
  <1>1. \A q : Lstat(q)' = Lstat(q)
    BY DEF Lstat, files
  <1>2. \A p : DeviceHas(root, p)' = DeviceHas(root, p)
    BY <1>1 DEF DeviceHas
  <1>3. DeviceFiles(root)' = DeviceFiles(root)
    BY <1>2 DEF DeviceFiles, PathsIn, files
  <1>4. \A p : Untouched(root, p)' = Untouched(root, p)
    BY DEF Untouched, TreePath
  <1>5. ASSUME NEW p, Safe(root, p)' PROVE Safe(root, p)
    <2>1. CASE fault' = fault
      BY <1>4, <1>5, <2>1 DEF Safe, Fails
    <2>2. CASE fault = NoFault
      <3>1. \A q : ~Fails("bind", q) /\ ~Fails("read", q)
        BY <2>2 DEF Fails, NoFault
      <3> QED BY <1>4, <1>5, <3>1 DEF Safe
    <2> QED BY <2>1, <2>2
  <1> QED BY <1>2, <1>3, <1>5 DEF GoodBind

\* Everything in the virtual tree comes from somewhere.
SystemFrom == DOMAIN system \subseteq TreePaths /\ \A t \in DOMAIN system : ComesFrom(t, system[t])

LEMMA SystemFromNext ==
    ASSUME DOMAIN system' \subseteq TreePaths, \A t \in DOMAIN system' : \A n : n = system'[t] => ComesFrom(t, n)'
    PROVE  SystemFrom'
  BY DEF SystemFrom, ComesFrom, Brought

\* The inductive invariant of NothingLost.
MountInv ==
    /\ device \in Devices /\ modules \in ModuleLists /\ path_env \in PathEnvs
    /\ Injecting
    /\ SystemFrom
    /\ pc = "collect" => injected = << >> /\ todo \in Seq(Range(modules))
    /\ pc \in {"collect", "zygisk", "extract"} =>
          DOMAIN roots = {} /\ bound = [r \in Partitions |-> {}]
    /\ \A r \in DOMAIN roots : Part(roots[r], r)
    /\ bound = [r \in Partitions |-> bound[r]]
    /\ \A r \in Partitions : \A b \in bound[r] : GoodBind(r, b)

LEMMA MountStarts == InitMount => MountInv
  <1> SUFFICES ASSUME InitMount PROVE MountInv
    OBVIOUS
  <1>1. /\ device \in Devices /\ modules \in ModuleLists /\ path_env \in PathEnvs
        /\ todo = modules /\ system = [q \in {<<>>} |-> Dir] /\ injected = << >> /\ roots = << >>
        /\ bound = [r \in Partitions |-> {}]
    BY DEF InitMount
  <1>2. DOMAIN injected = {} /\ DOMAIN roots = {}
    BY <1>1
  <1>3. todo \in Seq(Range(modules))
    BY <1>1, ModulesClosed
  <1>4. <<>> \in TreePaths
    BY DEF TreePaths
  <1>5. DOMAIN system \subseteq TreePaths /\ \A t \in DOMAIN system : ComesFrom(t, system[t])
    BY <1>1, <1>4 DEF ComesFrom
  <1> QED BY <1>1, <1>2, <1>3, <1>5 DEF MountInv, Injecting, SystemFrom

\* Steps before the commit: only the virtual tree and Magisk's files change.
LEMMA Preparing ==
    ASSUME MountInv, pc \in {"collect", "zygisk"}, pc' \in {"collect", "zygisk", "extract"},
           UNCHANGED <<device, modules, path_env, roots, bound>>,
           pc' = "collect" => injected' = << >> /\ todo' \in Seq(Range(modules)),
           Injecting', SystemFrom'
    PROVE  MountInv'
  <1>1. DOMAIN roots' = {} /\ bound' = [r \in Partitions |-> {}]
    BY DEF MountInv
  <1>3. bound' = [r \in Partitions |-> bound'[r]] /\ \A r \in Partitions : bound'[r] = {}
    BY <1>1
  <1>4. device' \in Devices /\ modules' \in ModuleLists /\ path_env' \in PathEnvs
    BY DEF MountInv
  <1>5. Range(modules)' = Range(modules)
    OBVIOUS
  <1> QED BY <1>1, <1>3, <1>4, <1>5 DEF MountInv

\* collect
LEMMA CollectSteps ==
    ASSUME MountInv, CollectModule
    PROVE  MountInv'
  <1> DEFINE m == Head(todo)
  <1>1. /\ pc = "collect" /\ todo # <<>> /\ todo \in Seq(Range(modules)) /\ injected = << >>
        /\ todo' = Tail(todo) /\ pc' = pc
        /\ UNCHANGED <<device, modules, path_env, roots, bound>> /\ injected' = injected
        /\ modules \in ModuleLists /\ Injecting
        /\ DOMAIN system \subseteq TreePaths /\ \A t \in DOMAIN system : ComesFrom(t, system[t])
    BY DEF CollectModule, MountInv, SystemFrom
  <1>2. m \in Range(modules) /\ Tail(todo) \in Seq(Range(modules))
    BY <1>1, HeadTailProperties
  <1>3. PICK i \in DOMAIN modules : m = modules[i]
    BY <1>2 DEF Range
  <1>4. \/ system' = system
        \/ ~m.skip /\ \E V \in SUBSET DOMAIN m.tree : system' = Collect(system, m.name, m.tree, V)
    BY DEF CollectModule, VisitedBefore
  <1> HIDE DEF m
  <1>5. DOMAIN m.tree \subseteq TreePaths
    BY <1>1, <1>3, ModuleTrees
  <1>6. DOMAIN system' \subseteq TreePaths /\ \A t \in DOMAIN system' : ComesFrom(t, system'[t])
    <2>1. CASE system' = system
      BY <1>1, <2>1
    <2>2. CASE ~m.skip /\ \E V \in SUBSET DOMAIN m.tree : system' = Collect(system, m.name, m.tree, V)
      <3>1. PICK V \in SUBSET DOMAIN m.tree : system' = Collect(system, m.name, m.tree, V)
        BY <2>2
      <3> DEFINE new == {v \in V \ DOMAIN system : \A r \in StrictPrefixes(v) \cap DOMAIN system : system[r] = Dir}
                 U == [q \in new |-> IF m.tree[q] = "dir" THEN Dir ELSE Node(m.tree[q], m.name)]
      <3>2. system' = Overlay(system, U)
        BY <3>1 DEF Collect
      <3>3. DOMAIN U = new /\ new \subseteq DOMAIN m.tree
        OBVIOUS
      <3>4. \A q \in new : Brought(q, U[q])
        BY <1>3, <2>2, <3>3 DEF Brought
      <3> HIDE DEF U, new
      <3>5. /\ DOMAIN system' = DOMAIN system \cup DOMAIN U
            /\ \A t \in DOMAIN system' : system'[t] = IF t \in DOMAIN U THEN U[t] ELSE system[t]
        BY <3>2 DEF Overlay
      <3>6. ASSUME NEW t \in DOMAIN system' PROVE t \in TreePaths /\ ComesFrom(t, system'[t])
        <4>1. CASE t \in DOMAIN U
          BY <1>5, <3>3, <3>4, <3>5, <4>1 DEF ComesFrom
        <4>2. CASE t \notin DOMAIN U
          BY <1>1, <3>5, <4>2
        <4> QED BY <4>1, <4>2
      <3> QED BY <3>6
    <2> QED BY <1>4, <2>1, <2>2
  <1>7. Injecting' /\ SystemFrom'
    <2>1. UNCHANGED <<modules, injected>>
      BY <1>1
    <2>2. \A t \in DOMAIN system' : \A n : n = system'[t] => ComesFrom(t, n)'
      BY <1>6, <2>1, KeptFrom
    <2> QED BY <1>1, <1>6, <2>1, <2>2, KeptFrom, SystemFromNext
  <1> QED BY <1>1, <1>2, <1>6, <1>7, Preparing

\* Magisk's files are put into the tree.
LEMMA Injects ==
    ASSUME MountInv, pc \in {"collect", "zygisk"}, pc' \in {"zygisk", "extract"},
           UNCHANGED <<device, modules, path_env, roots, bound>>,
           NEW N, \A q \in DOMAIN N : MagiskFile(q),
           system' = Insert(system, N),
           DOMAIN injected' = DOMAIN injected \cup DOMAIN N
    PROVE  MountInv'
  <1>1. /\ DOMAIN system \subseteq TreePaths /\ Injecting
        /\ \A t \in DOMAIN system : ComesFrom(t, system[t])
    BY DEF MountInv, SystemFrom
  <1>2. DOMAIN N \subseteq TreePaths
    <2>1. \A n \in {"magisk", "su", "zygisk"} : n \in Names
      BY ReplaceIs
    <2>2. \A d \in TreePaths, n \in {"magisk", "su", "zygisk"} : Append(d, n) \in TreePaths
      BY <2>1, AppendIs
    <2> QED BY <2>2 DEF MagiskFile
  <1>3. Injecting'
    BY <1>1 DEF Injecting
  <1>4. ASSUME NEW t \in DOMAIN system', NEW n, n = system'[t] PROVE t \in TreePaths /\ ComesFrom(t, n)'
    <2>1. /\ t \in TreePaths
          /\ \/ t \in DOMAIN N
             \/ n = Dir /\ \E q \in DOMAIN N : IsPrefix(t, q)
             \/ t \in DOMAIN system /\ n = system[t]
      BY <1>1, <1>2, <1>4, InsertIs
    <2>2. CASE t \in DOMAIN N
      BY <2>1, <2>2 DEF ComesFrom
    <2>3. CASE n = Dir /\ \E q \in DOMAIN N : IsPrefix(t, q)
      <3>1. \E q \in DOMAIN injected' : IsPrefix(t, q)
        BY <2>3
      <3> QED BY <2>1, <2>3, <3>1 DEF ComesFrom
    <2>4. CASE t \in DOMAIN system /\ n = system[t]
      <3>1. ComesFrom(t, n)
        BY <1>1, <2>4
      <3>2. UNCHANGED modules /\ DOMAIN injected \subseteq DOMAIN injected'
        OBVIOUS
      <3> QED BY <2>1, <3>1, <3>2, MoreInjected
    <2> QED BY <2>1, <2>2, <2>3, <2>4
  <1>5. DOMAIN system' \subseteq TreePaths /\ \A t \in DOMAIN system' : \A n : n = system'[t] => ComesFrom(t, n)'
    BY <1>4
  <1>6. SystemFrom'
    BY <1>5, SystemFromNext
  <1> QED BY <1>3, <1>6, Preparing

LEMMA InjectSteps ==
    ASSUME MountInv, InjectMagiskBins \/ InjectZygiskBins
    PROVE  MountInv'
  <1>0. /\ path_env \in PathEnvs /\ Injecting /\ SystemFrom
        /\ pc = "collect" => injected = << >>
    BY DEF MountInv
  <1>1. /\ pc \in {"collect", "zygisk"} /\ pc' \in {"zygisk", "extract"}
        /\ UNCHANGED <<device, modules, path_env, roots, bound>>
    BY DEF InjectMagiskBins, InjectZygiskBins
  <1>2. CASE UNCHANGED <<system, injected>>
    <2>1. Injecting' /\ SystemFrom'
      BY <1>0, <1>1, <1>2 DEF Injecting, SystemFrom, ComesFrom, Brought
    <2> QED BY <1>1, <2>1, Preparing
  <1>3. CASE InjectMagiskBins /\ ~UNCHANGED <<system, injected>>
    <2> DEFINE d == InjectDir(system)
               bins == [q \in {Append(d, n) : n \in {"magisk", "su"}} |->
                          Node(IF Last(q) = "su" THEN "link" ELSE "file", "magisk")]
    <2>1. system' = Insert(system, bins) /\ injected' = bins /\ pc = "collect"
      BY <1>3 DEF InjectMagiskBins
    <2>2. d \in TreePaths
      BY <1>0, InjectDirIs
    <2> HIDE DEF d
    <2>3. \A q \in DOMAIN bins : MagiskFile(q)
      BY <2>2 DEF MagiskFile
    <2> HIDE DEF bins
    <2>4. DOMAIN injected' = DOMAIN injected \cup DOMAIN bins
      BY <1>0, <2>1
    <2> QED BY <1>1, <2>1, <2>3, <2>4, Injects
  <1>4. CASE InjectZygiskBins /\ ~UNCHANGED <<system, injected>>
    <2> DEFINE lib == [q \in {<<"lib64", "zygisk">>} |-> Node("file", "magisk")]
    <2>1. system' = Insert(system, lib) /\ injected' = Overlay(injected, lib)
      BY <1>4 DEF InjectZygiskBins
    <2>2. \A q \in DOMAIN lib : MagiskFile(q)
      <3>1. <<"lib64", "zygisk">> = Append(<<"lib64">>, "zygisk")
        OBVIOUS
      <3>2. "lib64" \in Names
        BY DEF Names
      <3>3. <<"lib64">> \in TreePaths
        BY <3>2, OneName
      <3> QED BY <3>1, <3>3 DEF MagiskFile
    <2> HIDE DEF lib
    <2>3. DOMAIN injected' = DOMAIN injected \cup DOMAIN lib
      BY <2>1 DEF Overlay
    <2> QED BY <1>1, <2>1, <2>2, <2>3, Injects
  <1> QED BY <1>2, <1>3, <1>4

\* The trees of the partitions are parts of the virtual tree.
LEMMA ExtractParts ==
    ASSUME SystemFrom, device \in Devices, NEW r \in DOMAIN Extract(system)
    PROVE  r \in Names /\ Part(Extract(system)[r], r)
  <1>1. r = "system" \/ (r \in device.separate /\ r # "system")
    BY DEF Extract
  <1>2. r \in Names
    BY <1>1, DevicesClosed DEF Names, Partitions
  <1>3. DOMAIN system \subseteq TreePaths /\ \A t \in DOMAIN system : ComesFrom(t, system[t])
    BY DEF SystemFrom
  <1>4. CASE r = "system"
    <2> DEFINE T == Extract(system)[r]
    <2>1. DOMAIN T \subseteq DOMAIN system /\ \A q \in DOMAIN T : T[q] = system[q]
      BY <1>4 DEF Extract, Without
    <2> HIDE DEF T
    <2>2. Part(T, r)
      BY <1>3, <1>4, <2>1 DEF Part, TreePath
    <2> QED BY <1>2, <2>2 DEF T
  <1>5. CASE r # "system"
    <2> DEFINE T == Extract(system)[r]
               o == <<r>>
    <2>1. T = TreeAt(system, o)
      BY <1>5 DEF Extract
    <2>2. o \in TreePaths
      BY <1>2, OneName
    <2> HIDE DEF T
    <2>3. \A q \in TreePaths : TreePath(r, q) = o \o q
      BY <1>5 DEF TreePath
    <2> HIDE DEF o
    <2>4. \A x \in SubTree(system, o) : /\ SubSeq(x, Len(o) + 1, Len(x)) \in TreePaths
                                        /\ o \o SubSeq(x, Len(o) + 1, Len(x)) = x
      BY <1>3, <2>2, PathSplits DEF SubTree
    <2>5. ASSUME NEW q \in DOMAIN T
          PROVE  q \in TreePaths /\ o \o q \in DOMAIN system /\ T[q] = system[o \o q]
      <3>1. T[q] = system[o \o q] /\ \E x \in SubTree(system, o) : q = SubSeq(x, Len(o) + 1, Len(x))
        BY <2>1 DEF TreeAt
      <3>2. PICK x \in SubTree(system, o) : q = SubSeq(x, Len(o) + 1, Len(x))
        BY <3>1
      <3>3. q \in TreePaths /\ o \o q = x
        BY <2>4, <3>2
      <3> QED BY <3>1, <3>3 DEF SubTree
    <2>6. Part(T, r)
      BY <1>3, <2>3, <2>5 DEF Part
    <2> QED BY <1>2, <2>6 DEF T
  <1> QED BY <1>1, <1>4, <1>5

LEMMA ExtractSteps ==
    ASSUME MountInv, ExtractRoots
    PROVE  MountInv'
  <1>1. /\ roots' = Extract(system) /\ pc = "extract" /\ pc' = "commit"
        /\ UNCHANGED <<device, modules, path_env, system, injected, bound>>
    BY DEF ExtractRoots
  <1>2. /\ device \in Devices /\ modules \in ModuleLists /\ path_env \in PathEnvs
        /\ Injecting /\ SystemFrom /\ bound = [r \in Partitions |-> {}]
    BY <1>1 DEF MountInv
  <1>3. UNCHANGED <<modules, injected>>
    BY <1>1
  <1>4. \A r \in DOMAIN roots' : \A T : T = roots'[r] => Part(T, r)'
    BY <1>1, <1>2, <1>3, ExtractParts, KeptFrom
  <1>5. (\A r \in DOMAIN roots : Part(roots[r], r))'
    BY <1>4 DEF Part, ComesFrom, Brought, TreePath
  <1>6. Injecting' /\ SystemFrom'
    BY <1>1, <1>2 DEF Injecting, SystemFrom, ComesFrom, Brought
  <1>7. bound' = [r \in Partitions |-> bound'[r]] /\ \A r \in Partitions : bound'[r] = {}
    BY <1>1, <1>2
  <1>8. device' \in Devices /\ modules' \in ModuleLists /\ path_env' \in PathEnvs
    BY <1>1, <1>2
  <1> QED BY <1>1, <1>5, <1>6, <1>7, <1>8 DEF MountInv

\* A part of a partition's tree.
LEMMA SomeOfPart ==
    ASSUME NEW T, NEW root, Part(T, root), NEW S
    PROVE  Part(Without(T, S), root)
  BY DEF Part, Without

LEMMA CommitSteps ==
    ASSUME MountInv, NEW r \in Partitions, CommitRoot(r)
    PROVE  MountInv'
  <1>1. /\ pc = "commit" /\ r \in DOMAIN roots /\ pc' \in {"commit", "done"}
        /\ bound' = [bound EXCEPT ![r] = Committed(r)] /\ roots' = Without(roots, {r})
        /\ UNCHANGED <<device, modules, path_env, fault, system, injected>>
    BY DEF CommitRoot
  <1>2. /\ device \in Devices /\ modules \in ModuleLists /\ path_env \in PathEnvs
        /\ Injecting /\ SystemFrom /\ bound = [q \in Partitions |-> bound[q]]
        /\ \A q \in DOMAIN roots : Part(roots[q], q)
        /\ \A q \in Partitions : \A b \in bound[q] : GoodBind(q, b)
    BY DEF MountInv
  <1>3. r \in Names
    BY DEF Names
  <1>4. ASSUME NEW b \in Committed(r) PROVE GoodBind(r, b)
    <2>1. PICK T : Part(T, r) /\ b \in Commit(T, r)
      BY <1>1, <1>2, SomeOfPart DEF Committed, Supported
    <2> QED BY <1>2, <1>3, <2>1, CommitKeeps
  <1>5. /\ bound' = [q \in Partitions |-> bound'[q]]
        /\ \A q \in Partitions : bound'[q] = IF q = r THEN Committed(r) ELSE bound[q]
    BY <1>1, <1>2
  <1>6. ASSUME NEW q \in Partitions, NEW b \in bound'[q] PROVE GoodBind(q, b)
    BY <1>2, <1>4, <1>5
  <1>7. ASSUME NEW q \in Partitions, NEW b \in bound'[q] PROVE GoodBind(q, b)'
    <2>1. GoodBind(q, b)
      BY <1>6
    <2> QED BY <1>1, <2>1, KeptBinds
  <1>8. \A q \in DOMAIN roots' : q \in DOMAIN roots /\ roots'[q] = roots[q]
    BY <1>1 DEF Without
  <1>9. (\A q \in DOMAIN roots : Part(roots[q], q))'
    <2>1. UNCHANGED <<modules, injected>>
      BY <1>1
    <2>2. \A q \in DOMAIN roots' : \A T : T = roots'[q] => Part(T, q)'
      BY <1>2, <1>8, <2>1, KeptFrom
    <2> QED BY <2>2 DEF Part, ComesFrom, Brought, TreePath
  <1>10. Injecting' /\ SystemFrom'
    BY <1>1, <1>2 DEF Injecting, SystemFrom, ComesFrom, Brought
  <1>11. device' \in Devices /\ modules' \in ModuleLists /\ path_env' \in PathEnvs
    BY <1>1, <1>2
  <1> QED BY <1>1, <1>5, <1>7, <1>9, <1>10, <1>11 DEF MountInv

\* Steps that change nothing but what fails.
LEMMA FaultSteps ==
    ASSUME MountInv, (\E r \in Partitions : ChooseFault(r)) \/ UNCHANGED mountVars
    PROVE  MountInv'
  <1>1. /\ UNCHANGED <<device, modules, path_env, pc, todo, system, injected, roots, bound>>
        /\ fault' = fault \/ fault = NoFault
    BY DEF ChooseFault, mountVars
  <1>2. /\ device \in Devices /\ modules \in ModuleLists /\ path_env \in PathEnvs
        /\ Injecting /\ SystemFrom /\ bound = [q \in Partitions |-> bound[q]]
        /\ pc = "collect" => injected = << >> /\ todo \in Seq(Range(modules))
        /\ pc \in {"collect", "zygisk", "extract"} =>
              DOMAIN roots = {} /\ bound = [r \in Partitions |-> {}]
        /\ \A q \in DOMAIN roots : Part(roots[q], q)
        /\ \A q \in Partitions : \A b \in bound[q] : GoodBind(q, b)
    BY DEF MountInv
  <1>3. ASSUME NEW q \in Partitions, NEW b \in bound'[q] PROVE GoodBind(q, b)'
    <2>1. GoodBind(q, b)
      BY <1>1, <1>2
    <2> QED BY <1>1, <2>1, KeptBinds
  <1>4. (\A q \in DOMAIN roots : Part(roots[q], q))'
    BY <1>1, <1>2 DEF Part, ComesFrom, Brought, TreePath
  <1>5. Injecting' /\ SystemFrom'
    BY <1>1, <1>2 DEF Injecting, SystemFrom, ComesFrom, Brought
  <1>6. /\ device' \in Devices /\ modules' \in ModuleLists /\ path_env' \in PathEnvs
        /\ bound' = [q \in Partitions |-> bound'[q]]
    BY <1>1, <1>2
  <1>7. /\ pc' = "collect" => injected' = << >> /\ todo' \in Seq(Range(modules'))
        /\ pc' \in {"collect", "zygisk", "extract"} =>
              DOMAIN roots' = {} /\ bound' = [r \in Partitions |-> {}]
    BY <1>1, <1>2
  <1> QED BY <1>3, <1>4, <1>5, <1>6, <1>7 DEF MountInv

LEMMA MountSteps ==
    ASSUME MountInv, [NextMount \/ Done]_mountVars
    PROVE  MountInv'
  <1>1. CASE CollectModule
    BY <1>1, CollectSteps
  <1>2. CASE InjectMagiskBins \/ InjectZygiskBins
    BY <1>2, InjectSteps
  <1>3. CASE ExtractRoots
    BY <1>3, ExtractSteps
  <1>4. ASSUME NEW r \in Partitions, CommitRoot(r) PROVE MountInv'
    BY <1>4, CommitSteps
  <1>5. CASE (\E r \in Partitions : ChooseFault(r)) \/ UNCHANGED mountVars
    BY <1>5, FaultSteps
  <1> QED BY <1>1, <1>2, <1>3, <1>4, <1>5 DEF NextMount, Done

\* Mounts that hide nothing each hide nothing together: whichever of them is
\* the one a process sees, it shows the file.
LEMMA GoodBindsKeep == MountInv => NothingLost
  <1> SUFFICES ASSUME MountInv, NEW root \in Partitions, NEW b \in bound[root],
                      NEW p \in DeviceFiles(root), IsPrefix(b.at, p), Safe(root, p)
               PROVE  Seen(root, p) = DeviceHas(root, p)
    BY DEF NothingLost, Safe
  <1> DEFINE over == {c \in bound[root] : IsPrefix(c.at, p)}
             c == CHOOSE d \in over : TRUE
             here == {x \in c.shown : x[1] = p}
             x == CHOOSE y \in here : TRUE
  <1>1. c \in over
    OBVIOUS
  <1>2. Seen(root, p) = IF here = {} THEN Absent ELSE x[2]
    BY <1>1 DEF Seen
  <1> HIDE DEF c
  <1>3. GoodBind(root, c) /\ IsPrefix(c.at, p)
    BY <1>1 DEF MountInv
  <1>4. here # {} /\ \A y \in here : y[2] = DeviceHas(root, p)
    BY <1>3 DEF GoodBind
  <1>5. x \in here
    BY <1>4
  <1> QED BY <1>2, <1>4, <1>5

\* Whatever step of apply_modules fails, a file of the device that no module
\* touches stays in sight after every mount that commit makes: for all
\* devices, modules and values of PATH.
THEOREM NothingLostCorrect == SpecMount => []NothingLost
  <1>1. InitMount => MountInv
    BY MountStarts
  <1>2. MountInv /\ [NextMount \/ Done]_mountVars => MountInv'
    BY MountSteps
  <1>3. MountInv => NothingLost
    BY GoodBindsKeep
  <1> QED BY <1>1, <1>2, <1>3, PTL DEF SpecMount
=============================================================================
