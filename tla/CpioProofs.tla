----------------------------- MODULE CpioProofs -----------------------------
(***************************************************************************)
(* `magiskboot cpio restore` undoes whatever was done to a ramdisk before  *)
(* `backup`, for every universe of names, stock ramdisk, file, sequence of *)
(* commands and number of dumps and loads in between.                      *)
(*                                                                         *)
(* The argument: the names are sorted, so the merge of the two maps finds  *)
(* exactly what differs; what is dumped is what is loaded; two backups     *)
(* never share a name that `restore` would confuse; and what the installer *)
(* adds to .backup afterwards is not looked at.                            *)
(***************************************************************************)
EXTENDS Cpio, Inductions
-----------------------------------------------------------------------------
(* Names and their order *)

\* A name there is.
InOrder(n) == n \in Range(ByteOrder)

\* What names are made of.  (The provers do not know that a string is in STRING.)
Parts == STRING \cup {".backup", ".xz"}

\* The names.
LEMMA NameFacts ==
    /\ Len(ByteOrder) \in Nat /\ DOMAIN ByteOrder = 1..Len(ByteOrder)
    /\ \A i \in 1..Len(ByteOrder) : InOrder(ByteOrder[i])
    /\ \A n : InOrder(n) => \E i \in 1..Len(ByteOrder) : n = ByteOrder[i]
    /\ \A n : InOrder(n) => n \in Seq(Parts) /\ n \notin Special /\ Len(n) \in Nat /\ Len(n) > 0
    /\ \A i, j \in 1..Len(ByteOrder) : ByteOrder[i] = ByteOrder[j] => i = j
    /\ InOrder(BackupDir) /\ InOrder(RmListName) /\ InOrder(MagiskName) /\ \A n \in Edited : InOrder(n)
  <1>1. Len(ByteOrder) \in Nat /\ DOMAIN ByteOrder = 1..Len(ByteOrder)
    BY Names
  <1>2. \A i \in 1..Len(ByteOrder) : InOrder(ByteOrder[i]) /\ ByteOrder[i] \in Seq(Parts)
    <2>1. \A n \in Seq(STRING) : n \in Seq(Parts)
      BY DEF Parts
    <2>2. ByteOrder \in Seq(Seq(STRING))
      BY Names
    <2>3. \A i \in 1..Len(ByteOrder) : ByteOrder[i] \in Seq(STRING)
      BY <2>2
    <2> QED BY <1>1, <2>1, <2>3 DEF InOrder, Range
  <1>3. \A n : InOrder(n) => \E i \in 1..Len(ByteOrder) : n = ByteOrder[i]
    BY <1>1 DEF InOrder, Range
  <1>4. ASSUME NEW n, InOrder(n)
        PROVE  n \in Seq(Parts) /\ n \notin Special /\ Len(n) \in Nat /\ Len(n) > 0
    <2>1. n \in Seq(Parts)
      BY <1>2, <1>3, <1>4
    <2>2. n \notin Special
      BY <1>4, Names DEF InOrder
    <2>3. n # <<>>
      BY <2>2 DEF Special
    <2> QED BY <2>1, <2>2, <2>3, EmptySeq
  <1>5. \A i, j \in 1..Len(ByteOrder) : ByteOrder[i] = ByteOrder[j] => i = j
    BY <1>1, Names
  <1>6. InOrder(BackupDir) /\ InOrder(RmListName) /\ InOrder(MagiskName) /\ \A n \in Edited : InOrder(n)
    BY Names DEF InOrder, BackupDir, RmListName, MagiskName
  <1> QED BY <1>1, <1>2, <1>3, <1>4, <1>5, <1>6

\* The order of the names is that of their places.
LEMMA EarlierFacts ==
    ASSUME NEW i \in 1..Len(ByteOrder), NEW j \in 1..Len(ByteOrder)
    PROVE  Earlier(ByteOrder[i], ByteOrder[j]) <=> i < j
  <1>1. CASE i < j
    <2>1. i \in 1..(j - 1) /\ j \in DOMAIN ByteOrder
      BY <1>1, NameFacts
    <2> QED BY <1>1, <2>1 DEF Earlier
  <1>2. ASSUME Earlier(ByteOrder[i], ByteOrder[j])
        PROVE  i < j
    <2>1. PICK b \in 1..Len(ByteOrder) : ByteOrder[b] = ByteOrder[j] /\ \E a \in 1..(b - 1) : ByteOrder[a] = ByteOrder[i]
      BY <1>2, NameFacts DEF Earlier
    <2>2. PICK a \in 1..(b - 1) : ByteOrder[a] = ByteOrder[i]
      BY <2>1
    <2>3. a \in 1..Len(ByteOrder) /\ a < b
      BY NameFacts
    <2>4. a = i /\ b = j
      BY <2>1, <2>2, <2>3, NameFacts
    <2> QED BY <2>3, <2>4
  <1> QED BY <1>1, <1>2

\* It is a strict total order.
LEMMA NamesOrdered ==
    /\ \A a, b : Earlier(a, b) => InOrder(a) /\ InOrder(b) /\ a # b /\ ~Earlier(b, a)
    /\ \A a, b : InOrder(a) /\ InOrder(b) => a = b \/ Earlier(a, b) \/ Earlier(b, a)
    /\ \A a, b, c : Earlier(a, b) /\ Earlier(b, c) => Earlier(a, c)
  <1>1. ASSUME NEW a, NEW b, Earlier(a, b)
        PROVE  InOrder(a) /\ InOrder(b) /\ \E i, j \in 1..Len(ByteOrder) : i < j /\ a = ByteOrder[i] /\ b = ByteOrder[j]
    <2>1. PICK j \in 1..Len(ByteOrder) : ByteOrder[j] = b /\ \E i \in 1..(j - 1) : ByteOrder[i] = a
      BY <1>1, NameFacts DEF Earlier
    <2>2. PICK i \in 1..(j - 1) : ByteOrder[i] = a
      BY <2>1
    <2>3. i \in 1..Len(ByteOrder) /\ i < j
      BY NameFacts
    <2> QED BY <2>1, <2>2, <2>3, NameFacts
  <1>2. \A a, b : Earlier(a, b) => InOrder(a) /\ InOrder(b) /\ a # b /\ ~Earlier(b, a)
    <2> SUFFICES ASSUME NEW a, NEW b, Earlier(a, b)
                 PROVE  InOrder(a) /\ InOrder(b) /\ a # b /\ ~Earlier(b, a)
      OBVIOUS
    <2>1. PICK i \in 1..Len(ByteOrder), j \in 1..Len(ByteOrder) : i < j /\ a = ByteOrder[i] /\ b = ByteOrder[j]
      BY <1>1
    <2>2. ~(j < i) /\ i # j
      BY <2>1, NameFacts
    <2> QED BY <1>1, <2>1, <2>2, EarlierFacts, NameFacts
  <1>3. \A a, b : InOrder(a) /\ InOrder(b) => a = b \/ Earlier(a, b) \/ Earlier(b, a)
    <2> SUFFICES ASSUME NEW a, NEW b, InOrder(a), InOrder(b)
                 PROVE  a = b \/ Earlier(a, b) \/ Earlier(b, a)
      OBVIOUS
    <2>1. PICK i \in 1..Len(ByteOrder), j \in 1..Len(ByteOrder) : a = ByteOrder[i] /\ b = ByteOrder[j]
      BY NameFacts
    <2>2. i = j \/ i < j \/ j < i
      BY NameFacts
    <2> QED BY <2>1, <2>2, EarlierFacts
  <1>4. \A a, b, c : Earlier(a, b) /\ Earlier(b, c) => Earlier(a, c)
    <2> SUFFICES ASSUME NEW a, NEW b, NEW c, Earlier(a, b), Earlier(b, c)
                 PROVE  Earlier(a, c)
      OBVIOUS
    <2>1. PICK i \in 1..Len(ByteOrder), j \in 1..Len(ByteOrder) : i < j /\ a = ByteOrder[i] /\ b = ByteOrder[j]
      BY <1>1
    <2>2. PICK k \in 1..Len(ByteOrder), l \in 1..Len(ByteOrder) : k < l /\ b = ByteOrder[k] /\ c = ByteOrder[l]
      BY <1>1
    <2>3. j = k
      BY <2>1, <2>2, NameFacts
    <2>4. i < l
      BY <2>1, <2>2, <2>3, NameFacts
    <2> QED BY <2>1, <2>2, <2>4, EarlierFacts
  <1> QED BY <1>2, <1>3, <1>4

\* The recursive function is there and is what its definition says.
LEMMA SortedToDef ==
    ASSUME NEW S
    PROVE  /\ SortedTo(S)[0] = <<>>
           /\ \A k \in 1..Len(ByteOrder) : SortedTo(S)[k] = Placed(S, SortedTo(S)[k - 1], ByteOrder[k])
  <1> DEFINE n == Len(ByteOrder)
             Q == Seq(Range(ByteOrder))
             base == <<>>
             F == [k \in 1..n |-> [q \in Q |-> Placed(S, q, ByteOrder[k])]]
             Body(h) == [k \in 0..n |-> IF k = 0 THEN base ELSE Placed(S, h[k - 1], ByteOrder[k])]
             J == SortedTo(S)
  <1>1. n \in Nat /\ base \in Q /\ \A k \in 1..n : ByteOrder[k] \in Range(ByteOrder)
    BY NameFacts DEF InOrder
  <1>2. \A k \in 1..n : \A q \in Q : Placed(S, q, ByteOrder[k]) \in Q
    BY <1>1 DEF Placed
  <1>3. J = CHOOSE h : h = Body(h)
    BY DEF SortedTo
  <1> HIDE DEF n, Q, base, J
  <1>4. StepsOn(F, n, Q)
    BY <1>2 DEF StepsOn
  <1>5. PICK f : IsFold(f, F, n, Q, base)
    <2> HIDE DEF F
    <2> QED BY <1>1, <1>4, FoldExists
  <1>6. f = Body(f)
    <2>1. f \in [0..n -> Q] /\ f[0] = base /\ \A k \in 1..n : f[k] = F[k][f[k - 1]]
      BY <1>5 DEF IsFold
    <2>2. ASSUME NEW k \in 1..n
          PROVE  f[k] = Placed(S, f[k - 1], ByteOrder[k])
      <3>1. k - 1 \in 0..n
        BY <1>1
      <3>2. f[k - 1] \in Q
        BY <2>1, <3>1
      <3> QED BY <2>1, <3>2
    <2>3. \A k \in 0..n : k # 0 => k \in 1..n
      BY <1>1
    <2>4. \A k \in 0..n : f[k] = IF k = 0 THEN base ELSE Placed(S, f[k - 1], ByteOrder[k])
      BY <2>1, <2>2, <2>3
    <2> QED BY <2>1, <2>4
  <1>7. J = Body(J)
    <2> HIDE DEF Body
    <2>2. (CHOOSE h : h = Body(h)) = Body(CHOOSE h : h = Body(h))
      BY <1>6, Zenon
    <2> QED BY <1>3, <2>2, Zenon
  <1>8. J[0] = base /\ \A k \in 1..n : J[k] = Placed(S, J[k - 1], ByteOrder[k])
    <2> DEFINE K == Body(J)
    <2>1. K[0] = base /\ \A k \in 1..n : K[k] = Placed(S, J[k - 1], ByteOrder[k])
      BY <1>1
    <2> HIDE DEF K
    <2>2. J = K
      BY <1>7 DEF K
    <2> QED BY <2>1, <2>2
  <1> QED BY <1>8 DEF n, base, J

\* A sequence of all of some names, each before the next.
AllInOrder(s, S) ==
    /\ s \in Seq(S) /\ Len(s) \in Nat
    /\ \A n \in S : \E a \in 1..Len(s) : s[a] = n
    /\ \A a, b \in 1..Len(s) : a < b => Earlier(s[a], s[b])

\* SortedNames puts all of the names in order.
LEMMA SortedFacts ==
    ASSUME NEW S, \A n \in S : InOrder(n)
    PROVE  AllInOrder(SortedNames(S), S)
  <1> DEFINE n == Len(ByteOrder)
             J == SortedTo(S)
             Good(q, k) ==
               /\ q \in Seq(S)
               /\ \A a \in 1..Len(q) : \E i \in 1..k : q[a] = ByteOrder[i]
               /\ \A i \in 1..k : ByteOrder[i] \in S => \E a \in 1..Len(q) : q[a] = ByteOrder[i]
               /\ \A a, b \in 1..Len(q) : a < b => Earlier(q[a], q[b])
             T == {k \in 0..n : Good(J[k], k)}
  <1>1. /\ J[0] = <<>>
        /\ \A k \in 1..n : J[k] = Placed(S, J[k - 1], ByteOrder[k])
    BY SortedToDef
  <1>2. n \in Nat
    BY NameFacts
  <1>3. 0 \in T
    <2>1. <<>> \in Seq(S) /\ Len(<<>>) = 0 /\ 1..0 = {}
      OBVIOUS
    <2>2. Good(<<>>, 0)
      BY <2>1
    <2> HIDE DEF Good
    <2> QED BY <1>1, <1>2, <2>2
  <1>4. ASSUME NEW k \in T, k < n
        PROVE  k + 1 \in T
    <2> DEFINE q == J[k]
               t == ByteOrder[k + 1]
    <2>1. k \in 0..n /\ k + 1 \in 1..n /\ (k + 1) - 1 = k /\ k + 1 \in 0..n /\ k \in Nat
      BY <1>2, <1>4
    <2>2. J[k + 1] = IF t \in S THEN Append(q, t) ELSE q
      BY <1>1, <2>1 DEF Placed
    <2>3. Good(q, k)
      OBVIOUS
    <2> HIDE DEF J, q
    <2>4. \A i \in 1..(k + 1) : i \in 1..k \/ i = k + 1
      BY <2>1
    <2>5. \A i \in 1..k : i \in 1..(k + 1) /\ i \in 1..n /\ i < k + 1
      BY <1>2, <2>1
    <2>6. Len(q) \in Nat
      BY <2>3
    <2>7. CASE t \notin S
      <3>1. Good(q, k + 1)
        BY <2>3, <2>4, <2>5, <2>7
      <3>2. J[k + 1] = q
        BY <2>2, <2>7
      <3> HIDE DEF Good
      <3> QED BY <2>1, <3>1, <3>2
    <2>8. CASE t \in S
      <3> DEFINE r == Append(q, t)
                 L == Len(q)
      <3>1. J[k + 1] = r
        BY <2>2, <2>8
      <3>2. /\ r \in Seq(S) /\ Len(r) = L + 1 /\ r[L + 1] = t
            /\ \A a \in 1..L : r[a] = q[a]
        BY <2>3, <2>8
      <3>3. \A a \in 1..(L + 1) : a \in 1..L \/ a = L + 1
        BY <2>6
      <3>4. ASSUME NEW a \in 1..L
            PROVE  Earlier(q[a], t)
        <4>1. PICK i \in 1..k : q[a] = ByteOrder[i]
          BY <2>3
        <4> QED BY <2>1, <2>5, <4>1, EarlierFacts
      <3> HIDE DEF r, L
      <3>5. \A a \in 1..Len(r) : \E i \in 1..(k + 1) : r[a] = ByteOrder[i]
        BY <2>1, <2>3, <2>5, <3>2, <3>3 DEF L
      <3>6. \A i \in 1..(k + 1) : ByteOrder[i] \in S => \E a \in 1..Len(r) : r[a] = ByteOrder[i]
        <4>1. \A a \in 1..L : a \in 1..Len(r)
          BY <2>6, <3>2 DEF L
        <4>2. L + 1 \in 1..Len(r)
          BY <2>6, <3>2 DEF L
        <4> QED BY <2>3, <2>4, <3>2, <4>1, <4>2 DEF L
      <3>7. ASSUME NEW a \in 1..Len(r), NEW b \in 1..Len(r), a < b
            PROVE  Earlier(r[a], r[b])
        <4>1. a \in 1..L /\ (b \in 1..L \/ b = L + 1)
          BY <2>6, <3>2, <3>3, <3>7 DEF L
        <4> QED BY <2>3, <3>2, <3>4, <3>7, <4>1 DEF L
      <3>8. Good(r, k + 1)
        BY <3>2, <3>5, <3>6, <3>7
      <3> HIDE DEF Good
      <3> QED BY <2>1, <3>1, <3>8
    <2> QED BY <2>7, <2>8
  <1>5. n \in T
    <2>1. \A i \in T : i \in 0..n /\ i < n => i + 1 \in T
      BY <1>4
    <2> HIDE DEF T, n
    <2>2. 0..n \subseteq T
      BY <1>2, <1>3, <2>1, Numbers
    <2> QED BY <1>2, <2>2
  <1> DEFINE s == J[n]
  <1>6. Good(s, n)
    BY <1>5
  <1> HIDE DEF s, J
  <1>7. \A x \in S : \E a \in 1..Len(s) : s[a] = x
    <2> TAKE x \in S
    <2>1. PICK i \in 1..n : x = ByteOrder[i]
      BY NameFacts
    <2> QED BY <1>6, <2>1
  <1>8. AllInOrder(s, S)
    BY <1>6, <1>7 DEF AllInOrder
  <1> QED BY <1>8 DEF s, J, SortedNames

-----------------------------------------------------------------------------
(* Loading and dumping *)

\* An archive that holds entries of E under names of N, and how far it is loaded.
EntriesOver(N, E) == UNION {[D -> E] : D \in SUBSET N}
Loadings(N, E) == [ok : BOOLEAN, search : BOOLEAN, entries : EntriesOver(N, E)]
Passed(it) == it = Junk \/ it.name \in {<<".">>, <<"..">>, Trailer.name}
Loadable(it, N, E) == Passed(it) \/ (it.name \in N /\ CpioEntry(it.kind, it.data) \in E)
Unloaded == [ok |-> TRUE, search |-> FALSE, entries |-> NoEntries]

\* An insertion stays among the entries of E under names of N.
LEMMA InsertOver ==
    ASSUME NEW N, NEW E, NEW e \in EntriesOver(N, E), NEW n \in N, NEW x \in E
    PROVE  InsertEntry(e, n, x) \in EntriesOver(N, E)
  <1>1. PICK D \in SUBSET N : e \in [D -> E]
    BY DEF EntriesOver
  <1>2. InsertEntry(e, n, x) \in [D \cup {n} -> E]
    BY <1>1 DEF InsertEntry
  <1>3. D \cup {n} \in SUBSET N
    OBVIOUS
  <1> QED BY <1>2, <1>3 DEF EntriesOver

\* So does the loading of an item.
LEMMA LoadItemOver ==
    ASSUME NEW N, NEW E, NEW acc \in Loadings(N, E), NEW it, Loadable(it, N, E)
    PROVE  LoadItem(acc, it) \in Loadings(N, E)
  <1> DEFINE x == CpioEntry(it.kind, it.data)
             ins == InsertEntry(acc.entries, it.name, x)
  <1>1. acc \in [ok : BOOLEAN, search : BOOLEAN, entries : EntriesOver(N, E)]
    BY DEF Loadings
  <1>2. ~Passed(it) => ins \in EntriesOver(N, E)
    <2> HIDE DEF x
    <2>1. acc.entries \in EntriesOver(N, E)
      BY <1>1
    <2>2. ~Passed(it) => it.name \in N /\ x \in E
      BY DEF Loadable, x
    <2> QED BY <2>1, <2>2, InsertOver
  <1>3. \/ LoadItem(acc, it) = acc
        \/ LoadItem(acc, it) = [acc EXCEPT !.ok = FALSE]
        \/ LoadItem(acc, it) = [acc EXCEPT !.search = FALSE, !.ok = it.data = Plain(<<>>)]
        \/ LoadItem(acc, it) = [acc EXCEPT !.search = TRUE]
        \/ ~Passed(it) /\ LoadItem(acc, it) = [acc EXCEPT !.search = FALSE, !.entries = ins]
    <2> HIDE DEF ins
    <2>1. CASE ~acc.ok \/ (acc.search /\ it = Junk)
      BY <2>1 DEF LoadItem
    <2>2. CASE ~(~acc.ok \/ (acc.search /\ it = Junk))
      <3>1. CASE it = Junk
        BY <2>2, <3>1 DEF LoadItem
      <3>2. CASE it # Junk /\ it.name \in {<<".">>, <<"..">>}
        BY <2>2, <3>2 DEF LoadItem
      <3>3. CASE it # Junk /\ it.name \notin {<<".">>, <<"..">>} /\ it.name = Trailer.name
        BY <2>2, <3>3 DEF LoadItem
      <3>4. CASE ~Passed(it)
        BY <2>2, <3>4 DEF LoadItem, Passed, ins
      <3> QED BY <3>1, <3>2, <3>3, <3>4 DEF Passed
    <2> QED BY <2>1, <2>2
  <1> HIDE DEF ins, x
  <1>4. [acc EXCEPT !.ok = FALSE] \in Loadings(N, E)
    BY <1>1 DEF Loadings
  <1>5. [acc EXCEPT !.search = FALSE, !.ok = it.data = Plain(<<>>)] \in Loadings(N, E)
    <2>1. (it.data = Plain(<<>>)) \in BOOLEAN
      OBVIOUS
    <2> QED BY <1>1, <2>1 DEF Loadings
  <1>6. [acc EXCEPT !.search = TRUE] \in Loadings(N, E)
    BY <1>1 DEF Loadings
  <1>7. ~Passed(it) => [acc EXCEPT !.search = FALSE, !.entries = ins] \in Loadings(N, E)
    BY <1>1, <1>2 DEF Loadings
  <1> QED BY <1>3, <1>4, <1>5, <1>6, <1>7

\* The items are loaded one after the other.
LEMMA LoadedToDef ==
    ASSUME NEW N, NEW E, NEW items, Len(items) \in Nat,
           \A k \in 1..Len(items) : Loadable(items[k], N, E)
    PROVE  /\ LoadedTo(items)[0] = Unloaded
           /\ \A k \in 1..Len(items) : LoadedTo(items)[k] = LoadItem(LoadedTo(items)[k - 1], items[k])
           /\ \A k \in 0..Len(items) : LoadedTo(items)[k] \in Loadings(N, E)
  <1> DEFINE n == Len(items)
             Q == Loadings(N, E)
             base == Unloaded
             F == [k \in 1..n |-> [q \in Q |-> LoadItem(q, items[k])]]
             Body(h) == [k \in 0..n |-> IF k = 0 THEN base ELSE LoadItem(h[k - 1], items[k])]
             J == LoadedTo(items)
  <1>1. n \in Nat /\ base \in Q
    <2>1. NoEntries \in [{} -> E]
      BY DEF NoEntries
    <2>2. NoEntries \in EntriesOver(N, E)
      BY <2>1 DEF EntriesOver
    <2> QED BY <2>2 DEF Loadings, Unloaded
  <1>2. \A k \in 1..n : \A q \in Q : LoadItem(q, items[k]) \in Q
    BY LoadItemOver
  <1>3. J = CHOOSE h : h = Body(h)
    BY DEF LoadedTo, Unloaded
  <1> HIDE DEF n, Q, base, J
  <1>4. StepsOn(F, n, Q)
    BY <1>2 DEF StepsOn
  <1>5. PICK f : IsFold(f, F, n, Q, base)
    <2> HIDE DEF F
    <2> QED BY <1>1, <1>4, FoldExists
  <1>6. f = Body(f)
    <2>1. f \in [0..n -> Q] /\ f[0] = base /\ \A k \in 1..n : f[k] = F[k][f[k - 1]]
      BY <1>5 DEF IsFold
    <2>2. ASSUME NEW k \in 1..n
          PROVE  f[k] = LoadItem(f[k - 1], items[k])
      <3>1. k - 1 \in 0..n
        BY <1>1
      <3>2. f[k - 1] \in Q
        BY <2>1, <3>1
      <3> QED BY <2>1, <3>2
    <2>3. \A k \in 0..n : k # 0 => k \in 1..n
      BY <1>1
    <2>4. \A k \in 0..n : f[k] = IF k = 0 THEN base ELSE LoadItem(f[k - 1], items[k])
      BY <2>1, <2>2, <2>3
    <2> QED BY <2>1, <2>4
  <1>7. J = Body(J)
    <2> HIDE DEF Body
    <2>2. (CHOOSE h : h = Body(h)) = Body(CHOOSE h : h = Body(h))
      BY <1>6, Zenon
    <2> QED BY <1>3, <2>2, Zenon
  <1>8. J[0] = base /\ \A k \in 1..n : J[k] = LoadItem(J[k - 1], items[k])
    <2> DEFINE K == Body(J)
    <2>1. K[0] = base /\ \A k \in 1..n : K[k] = LoadItem(J[k - 1], items[k])
      BY <1>1
    <2> HIDE DEF K
    <2>2. J = K
      BY <1>7 DEF K
    <2> QED BY <2>1, <2>2
  <1>9. \A k \in 0..n : J[k] \in Q
    <2>1. J[0] \in Q /\ \A k \in 1..n : J[k - 1] \in Q => J[k] \in Q
      BY <1>1, <1>2, <1>8
    <2> QED BY <1>1, <2>1, FoldKeeps
  <1> QED BY <1>8, <1>9 DEF n, base, J, Q

\* Entries in memory: typed, and under names of the order.
IsEntry(x) == x = [kind |-> x.kind, data |-> x.data] /\ IsData(x.data)
IsEntries(e) ==
    /\ \A n \in DOMAIN e : InOrder(n) /\ IsEntry(e[n])
    /\ e = [n \in DOMAIN e |-> e[n]]

\* What is dumped is what is loaded.
LEMMA LoadDump ==
    ASSUME NEW e, IsEntries(e)
    PROVE  LoadFromData(DumpItems(e)).entries = e
  <1> DEFINE S == DOMAIN e
             l == SortedNames(S)
             L == Len(l)
             items == DumpItems(e)
             E == {e[n] : n \in S}
             J == LoadedTo(items)
  <1>1. AllInOrder(l, S)
    BY SortedFacts DEF IsEntries
  <1>2. L \in Nat /\ l \in Seq(S) /\ \A a \in 1..L : l[a] \in S
    BY <1>1 DEF AllInOrder
  <1> HIDE DEF l
  <1>3. /\ Len(items) = L + 1 /\ items[L + 1] = Trailer
        /\ \A k \in 1..L : items[k] = Item(l[k], e[l[k]].kind, e[l[k]].data)
    <2> DEFINE q == [i \in 1..L |-> Item(l[i], e[l[i]].kind, e[l[i]].data)]
               I == {Item(n, e[n].kind, e[n].data) : n \in S}
    <2>1. q \in [1..L -> I]
      BY <1>2
    <2>2. q \in Seq(I) /\ Len(q) = L
      BY <1>2, <2>1
    <2>3. \A k \in 1..L : q[k] = Item(l[k], e[l[k]].kind, e[l[k]].data)
      OBVIOUS
    <2>4. items = Append(q, Trailer)
      BY DEF DumpItems, l
    <2>5. q \in Seq(I \cup {Trailer})
      <3> HIDE DEF q, I
      <3> QED BY <2>2
    <2> HIDE DEF q, I, items
    <2>6. /\ Len(items) = L + 1 /\ items[L + 1] = Trailer
          /\ \A k \in 1..L : items[k] = q[k]
      BY <1>2, <2>2, <2>4, <2>5
    <2> QED BY <2>3, <2>6
  <1> HIDE DEF items, J
  <1>4. ASSUME NEW n \in S
        PROVE  LET it == Item(n, e[n].kind, e[n].data)
               IN /\ ~Passed(it) /\ it # Junk /\ it.name = n
                  /\ CpioEntry(it.kind, it.data) = e[n]
    <2>1. n \notin Special /\ e[n] = [kind |-> e[n].kind, data |-> e[n].data]
      BY NameFacts DEF IsEntries, IsEntry
    <2>2. n # <<>> /\ n # <<".">> /\ n # <<"..">> /\ n # <<"TRAILER!!!">>
      BY <2>1 DEF Special
    <2> DEFINE it == Item(n, e[n].kind, e[n].data)
    <2>3. it.name = n /\ it.kind = e[n].kind /\ it.data = e[n].data
      BY DEF Item
    <2>4. Junk.name = <<>> /\ Trailer.name = <<"TRAILER!!!">>
      BY DEF Junk, Trailer, Item
    <2> HIDE DEF it
    <2>5. it # Junk
      BY <2>2, <2>3, <2>4
    <2>6. ~Passed(it)
      BY <2>2, <2>3, <2>4, <2>5 DEF Passed
    <2>7. CpioEntry(it.kind, it.data) = e[n]
      BY <2>1, <2>3 DEF CpioEntry
    <2> QED BY <2>3, <2>5, <2>6, <2>7 DEF it
  <1>5. \A k \in 1..Len(items) : Loadable(items[k], S, E)
    <2> SUFFICES ASSUME NEW k \in 1..Len(items)
                 PROVE  Loadable(items[k], S, E)
      OBVIOUS
    <2>1. k \in 1..L \/ k = L + 1
      BY <1>2, <1>3
    <2>2. CASE k \in 1..L
      <3>1. l[k] \in S /\ items[k] = Item(l[k], e[l[k]].kind, e[l[k]].data)
        BY <1>2, <1>3, <2>2
      <3> QED BY <1>4, <3>1 DEF Loadable
    <2>3. CASE k = L + 1
      BY <1>3, <2>3 DEF Loadable, Passed
    <2> QED BY <2>1, <2>2, <2>3
  <1>6. /\ J[0] = Unloaded
        /\ \A k \in 1..(L + 1) : J[k] = LoadItem(J[k - 1], items[k])
        /\ \A k \in 0..(L + 1) : J[k] \in Loadings(S, E)
    <2>1. Len(items) \in Nat
      BY <1>2, <1>3
    <2> HIDE DEF E
    <2>2. /\ J[0] = Unloaded
          /\ \A k \in 1..Len(items) : J[k] = LoadItem(J[k - 1], items[k])
          /\ \A k \in 0..Len(items) : J[k] \in Loadings(S, E)
      BY <1>5, <2>1, LoadedToDef DEF J
    <2> QED BY <1>3, <2>2
  <1> DEFINE Good(q, k) ==
               /\ q.ok /\ ~q.search
               /\ q.entries = [n \in {l[a] : a \in 1..k} |-> e[n]]
             T == {k \in 0..L : Good(J[k], k)}
  <1>7. 0 \in T
    <2>1. Unloaded.ok /\ ~Unloaded.search /\ Unloaded.entries = <<>>
      BY DEF Unloaded, NoEntries
    <2>2. {l[a] : a \in 1..0} = {}
      OBVIOUS
    <2>3. Good(Unloaded, 0)
      BY <2>1, <2>2
    <2> HIDE DEF Good
    <2> QED BY <1>2, <1>6, <2>3
  <1>8. ASSUME NEW k \in T, k < L
        PROVE  k + 1 \in T
    <2> DEFINE q == J[k]
               n == l[k + 1]
               it == Item(n, e[n].kind, e[n].data)
    <2>1. k \in 0..L /\ k + 1 \in 1..L /\ (k + 1) - 1 = k /\ k + 1 \in 0..L /\ k + 1 \in 1..(L + 1)
      BY <1>2, <1>8
    <2>2. Good(q, k) /\ q \in Loadings(S, E)
      BY <1>6, <2>1
    <2>3. J[k + 1] = LoadItem(q, it)
      BY <1>3, <1>6, <2>1
    <2>4. n \in S
      BY <1>2, <2>1
    <2>5. it # Junk /\ ~Passed(it) /\ it.name = n /\ CpioEntry(it.kind, it.data) = e[n]
      BY <1>4, <2>4
    <2> HIDE DEF it, q
    <2>6. LoadItem(q, it) = [q EXCEPT !.search = FALSE, !.entries = InsertEntry(q.entries, n, e[n])]
      BY <2>2, <2>5 DEF LoadItem, Passed
    <2>7. InsertEntry(q.entries, n, e[n]) = [x \in {l[a] : a \in 1..(k + 1)} |-> e[x]]
      <3>1. {l[a] : a \in 1..(k + 1)} = {l[a] : a \in 1..k} \cup {n}
        BY <2>1
      <3>2. q.entries = [x \in {l[a] : a \in 1..k} |-> e[x]]
        BY <2>2
      <3> HIDE DEF n
      <3> QED BY <3>1, <3>2 DEF InsertEntry
    <2> DEFINE r == LoadItem(q, it)
    <2>8. r.ok /\ ~r.search /\ r.entries = InsertEntry(q.entries, n, e[n])
      BY <2>2, <2>6 DEF Loadings
    <2> HIDE DEF r, n
    <2>9. Good(r, k + 1)
      BY <2>7, <2>8
    <2> QED BY <2>1, <2>3, <2>9 DEF r
  <1>9. L \in T
    <2>1. \A i \in T : i \in 0..L /\ i < L => i + 1 \in T
      BY <1>8
    <2> HIDE DEF T, L
    <2>2. 0..L \subseteq T
      BY <1>2, <1>7, <2>1, Numbers
    <2> QED BY <1>2, <2>2
  <1>10. J[L].ok /\ ~J[L].search /\ J[L].entries = e /\ J[L] \in Loadings(S, E)
    <2>1. {l[a] : a \in 1..L} = S
      BY <1>1, <1>2 DEF AllInOrder
    <2>2. e = [n \in S |-> e[n]]
      BY DEF IsEntries
    <2>3. L \in 0..(L + 1)
      BY <1>2
    <2> QED BY <1>6, <1>9, <2>1, <2>2, <2>3
  <1>11. J[L + 1] = LoadItem(J[L], Trailer)
    <2>1. L + 1 \in 1..(L + 1) /\ (L + 1) - 1 = L
      BY <1>2
    <2> QED BY <1>3, <1>6, <2>1
  <1>12. J[L + 1].entries = e
    <2>1. Trailer # Junk /\ Trailer.name \notin {<<".">>, <<"..">>}
      <3>1. Junk.name = <<>> /\ Trailer.name = <<"TRAILER!!!">>
        BY DEF Junk, Trailer, Item
      <3>2. <<"TRAILER!!!">> # <<>> /\ <<"TRAILER!!!">> # <<".">> /\ <<"TRAILER!!!">> # <<"..">>
        OBVIOUS
      <3> QED BY <3>1, <3>2
    <2> DEFINE q == J[L]
    <2> HIDE DEF q
    <2>2. LoadItem(q, Trailer) = [q EXCEPT !.search = TRUE]
      BY <1>10, <2>1 DEF LoadItem, q
    <2>3. [q EXCEPT !.search = TRUE].entries = q.entries
      BY <1>10 DEF q, Loadings
    <2> QED BY <1>10, <1>11, <2>2, <2>3 DEF q
  <1>13. LoadFromData(items) = J[L + 1]
    BY <1>3 DEF LoadFromData, J
  <1> QED BY <1>12, <1>13 DEF items


-----------------------------------------------------------------------------
(* The merge of two ramdisks *)

\* The states of the merge of the names in S and those in R.
Merges(S, R) == [i : Nat \ {0}, j : Nat \ {0}, backup : SUBSET S, record : SUBSET R]
Unmerged == [i |-> 1, j |-> 1, backup |-> {}, record |-> {}]

\* The four ways a step of the merge goes.
Goes(o, m, l, r, q, c) ==
    LET n == l[q.i]
        p == r[q.j]
        left == q.i <= Len(l)
        right == q.j <= Len(r)
    IN \/ ~left /\ ~right /\ c = q
       \/ /\ left /\ (~right \/ Earlier(n, p))
          /\ c.i = q.i + 1 /\ c.j = q.j /\ c.backup = q.backup \cup {n} /\ c.record = q.record
       \/ /\ right /\ (~left \/ Earlier(p, n))
          /\ c.i = q.i /\ c.j = q.j + 1 /\ c.backup = q.backup /\ c.record = q.record \cup {p}
       \/ /\ left /\ right /\ ~Earlier(n, p) /\ ~Earlier(p, n)
          /\ c.i = q.i + 1 /\ c.j = q.j + 1 /\ c.record = q.record
          /\ c.backup = IF o[n].data # m[p].data THEN q.backup \cup {n} ELSE q.backup

\* Each step of the merge goes one of them.
LEMMA CompareCases ==
    ASSUME NEW S, NEW R, NEW o, NEW m, NEW l \in Seq(S), NEW r \in Seq(R),
           NEW q \in Merges(S, R)
    PROVE  /\ Compare(o, m, l, r, q) \in Merges(S, R)
           /\ Goes(o, m, l, r, q, Compare(o, m, l, r, q))
  <1> DEFINE n == l[q.i]
             p == r[q.j]
             left == q.i <= Len(l)
             right == q.j <= Len(r)
             c == Compare(o, m, l, r, q)
  <1>1. q \in [i : Nat \ {0}, j : Nat \ {0}, backup : SUBSET S, record : SUBSET R]
    BY DEF Merges
  <1>2. q.i \in Nat \ {0} /\ q.j \in Nat \ {0} /\ q.backup \in SUBSET S /\ q.record \in SUBSET R
    BY <1>1
  <1>3. (left => n \in S) /\ (right => p \in R)
    BY <1>2
  <1>4. ~(Earlier(n, p) /\ Earlier(p, n)) /\ q.i + 1 \in Nat \ {0} /\ q.j + 1 \in Nat \ {0}
    BY <1>2, NamesOrdered
  <1>5. (left => q.backup \cup {n} \in SUBSET S) /\ (right => q.record \cup {p} \in SUBSET R)
    BY <1>2, <1>3
  <1>6. CASE ~left /\ ~right
    <2>1. c = q
      BY <1>6 DEF Compare
    <2> QED BY <1>6, <2>1 DEF Goes
  <1>7. CASE left /\ (~right \/ Earlier(n, p))
    <2>1. c = [q EXCEPT !.i = @ + 1, !.backup = @ \cup {n}]
      BY <1>7, <1>4 DEF Compare
    <2> HIDE DEF n, p, left, right, c
    <2>2. c.i = q.i + 1 /\ c.j = q.j /\ c.backup = q.backup \cup {n} /\ c.record = q.record
      BY <1>1, <2>1
    <2>3. c \in Merges(S, R)
      BY <1>1, <1>7, <1>4, <1>5, <2>1 DEF Merges
    <2> QED BY <1>7, <2>2, <2>3 DEF n, p, left, right, c, Goes
  <1>8. CASE right /\ ~(left /\ (~right \/ Earlier(n, p))) /\ (~left \/ Earlier(p, n))
    <2>1. c = [q EXCEPT !.j = @ + 1, !.record = @ \cup {p}]
      BY <1>8 DEF Compare
    <2> HIDE DEF n, p, left, right, c
    <2>2. c.i = q.i /\ c.j = q.j + 1 /\ c.backup = q.backup /\ c.record = q.record \cup {p}
      BY <1>1, <2>1
    <2>3. c \in Merges(S, R)
      BY <1>1, <1>8, <1>4, <1>5, <2>1 DEF Merges
    <2> QED BY <1>8, <2>2, <2>3 DEF n, p, left, right, c, Goes
  <1>9. CASE left /\ right /\ ~Earlier(n, p) /\ ~Earlier(p, n)
    <2> DEFINE b == IF o[n].data # m[p].data THEN q.backup \cup {n} ELSE q.backup
    <2>1. c = [q EXCEPT !.i = @ + 1, !.j = @ + 1, !.backup = b]
      BY <1>9 DEF Compare
    <2>2. b \in SUBSET S
      BY <1>2, <1>3, <1>9
    <2> HIDE DEF n, p, left, right, c, b
    <2>3. c.i = q.i + 1 /\ c.j = q.j + 1 /\ c.backup = b /\ c.record = q.record
      BY <1>1, <2>1
    <2>4. c \in Merges(S, R)
      BY <1>1, <1>4, <2>1, <2>2 DEF Merges
    <2> QED BY <1>9, <2>3, <2>4 DEF n, p, left, right, c, Goes, b
  <1> HIDE DEF n, p, left, right, c
  <1>10. \/ ~left /\ ~right
         \/ left /\ (~right \/ Earlier(n, p))
         \/ right /\ ~(left /\ (~right \/ Earlier(n, p))) /\ (~left \/ Earlier(p, n))
         \/ left /\ right /\ ~Earlier(n, p) /\ ~Earlier(p, n)
    OBVIOUS
  <1> QED BY <1>6, <1>7, <1>8, <1>9, <1>10 DEF n, p, left, right, c, Goes

\* The merge goes on step by step.
LEMMA MergedToDef ==
    ASSUME NEW S, NEW R, NEW o, NEW m, NEW l \in Seq(S), NEW r \in Seq(R)
    PROVE  LET J == MergedTo(o, m, l, r)
               n == Len(l) + Len(r)
           IN /\ J[0] = Unmerged
              /\ \A k \in 1..n : J[k] = Compare(o, m, l, r, J[k - 1])
              /\ \A k \in 0..n : J[k] \in Merges(S, R)
  <1> DEFINE n == Len(l) + Len(r)
             Q == Merges(S, R)
             base == Unmerged
             F == [k \in 1..n |-> [q \in Q |-> Compare(o, m, l, r, q)]]
             Body(h) == [k \in 0..n |-> IF k = 0 THEN base ELSE Compare(o, m, l, r, h[k - 1])]
             J == MergedTo(o, m, l, r)
  <1>1. n \in Nat /\ base \in Q
    BY DEF Unmerged, Merges
  <1>2. \A q \in Q : Compare(o, m, l, r, q) \in Q
    BY CompareCases
  <1>3. J = CHOOSE h : h = Body(h)
    BY DEF MergedTo, Unmerged
  <1> HIDE DEF n, Q, base, J
  <1>4. StepsOn(F, n, Q)
    BY <1>2 DEF StepsOn
  <1>5. PICK f : IsFold(f, F, n, Q, base)
    <2> HIDE DEF F
    <2> QED BY <1>1, <1>4, FoldExists
  <1>6. f = Body(f)
    <2>1. f \in [0..n -> Q] /\ f[0] = base /\ \A k \in 1..n : f[k] = F[k][f[k - 1]]
      BY <1>5 DEF IsFold
    <2>2. ASSUME NEW k \in 1..n
          PROVE  f[k] = Compare(o, m, l, r, f[k - 1])
      <3>1. k - 1 \in 0..n
        BY <1>1
      <3>2. f[k - 1] \in Q
        BY <2>1, <3>1
      <3> QED BY <2>1, <3>2
    <2>3. \A k \in 0..n : k # 0 => k \in 1..n
      BY <1>1
    <2>4. \A k \in 0..n : f[k] = IF k = 0 THEN base ELSE Compare(o, m, l, r, f[k - 1])
      BY <2>1, <2>2, <2>3
    <2> QED BY <2>1, <2>4
  <1>7. J = Body(J)
    <2> HIDE DEF Body
    <2>2. (CHOOSE h : h = Body(h)) = Body(CHOOSE h : h = Body(h))
      BY <1>6, Zenon
    <2> QED BY <1>3, <2>2, Zenon
  <1>8. J[0] = base /\ \A k \in 1..n : J[k] = Compare(o, m, l, r, J[k - 1])
    <2> DEFINE K == Body(J)
    <2>1. K[0] = base /\ \A k \in 1..n : K[k] = Compare(o, m, l, r, J[k - 1])
      BY <1>1
    <2> HIDE DEF K
    <2>2. J = K
      BY <1>7 DEF K
    <2> QED BY <2>1, <2>2
  <1>9. \A k \in 0..n : J[k] \in Q
    <2>1. J[0] \in Q /\ \A k \in 1..n : J[k - 1] \in Q => J[k] \in Q
      BY <1>1, <1>2, <1>8
    <2> QED BY <1>1, <2>1, FoldKeeps
  <1> QED BY <1>8, <1>9 DEF n, base, J, Q

\* What the merge is to find.
Changed(o, m) == {n \in DOMAIN o : n \in DOMAIN m => o[n].data # m[n].data}

\* It finds just that.  Along the way every name on one side that is done with lies before every
\* name on the other side that is not, so a name that both have is met on both sides at once.
LEMMA MergeFacts ==
    ASSUME NEW o, NEW m, \A n \in DOMAIN o : InOrder(n), \A n \in DOMAIN m : InOrder(n)
    PROVE  /\ Differences(o, m).backup = Changed(o, m)
           /\ Differences(o, m).record = DOMAIN m \ DOMAIN o
  <1> DEFINE S == DOMAIN o
             R == DOMAIN m
             l == SortedNames(S)
             r == SortedNames(R)
             J == MergedTo(o, m, l, r)
             A == Len(l)
             B == Len(r)
  <1>1. AllInOrder(l, S) /\ AllInOrder(r, R)
    BY SortedFacts
  <1> HIDE DEF l, r
  <1>2. l \in Seq(S) /\ r \in Seq(R) /\ A \in Nat /\ B \in Nat
    BY <1>1 DEF AllInOrder
  <1>3. /\ J[0] = Unmerged
        /\ \A k \in 1..(A + B) : J[k] = Compare(o, m, l, r, J[k - 1])
        /\ \A k \in 0..(A + B) : J[k] \in Merges(S, R)
    BY <1>2, MergedToDef
  <1>4. /\ \A a \in 1..A : l[a] \in S
        /\ \A b \in 1..B : r[b] \in R
        /\ \A n \in S : \E a \in 1..A : l[a] = n
        /\ \A n \in R : \E b \in 1..B : r[b] = n
        /\ \A a, b \in 1..A : a < b => Earlier(l[a], l[b])
        /\ \A a, b \in 1..B : a < b => Earlier(r[a], r[b])
    BY <1>1, <1>2 DEF AllInOrder
  <1> HIDE DEF J, A, B, S, R
  <1> DEFINE C == Changed(o, m)
             Apart(i, j) == \A a \in 1..A : \A b \in 1..B :
                              /\ a < i /\ j <= b => Earlier(l[a], r[b])
                              /\ i <= a /\ b < j => Earlier(r[b], l[a])
             Good(q, k) ==
               /\ q \in Merges(S, R) /\ q.i <= A + 1 /\ q.j <= B + 1
               /\ k <= (q.i - 1) + (q.j - 1) \/ (q.i = A + 1 /\ q.j = B + 1)
               /\ Apart(q.i, q.j)
               /\ \A a \in 1..A : l[a] \in q.backup <=> a < q.i /\ l[a] \in C
               /\ \A b \in 1..B : r[b] \in q.record <=> b < q.j /\ r[b] \notin S
             T == {k \in 0..(A + B) : Good(J[k], k)}
  <1>5. 0 \in T
    <2>1. Unmerged.i = 1 /\ Unmerged.j = 1 /\ Unmerged.backup = {} /\ Unmerged.record = {}
      BY DEF Unmerged
    <2>2. Unmerged \in Merges(S, R)
      BY DEF Unmerged, Merges
    <2>3. Apart(1, 1)
      BY <1>2
    <2> HIDE DEF Apart, C
    <2>4. Good(Unmerged, 0)
      BY <1>2, <2>1, <2>2, <2>3
    <2> HIDE DEF Good
    <2> QED BY <1>2, <1>3, <2>4
  <1>6. ASSUME NEW q, NEW k \in 0..(A + B), Good(q, k)
        PROVE  Good(Compare(o, m, l, r, q), k + 1)
    <2> DEFINE c == Compare(o, m, l, r, q)
               n == l[q.i]
               p == r[q.j]
    <2>1. /\ q \in Merges(S, R) /\ q.i <= A + 1 /\ q.j <= B + 1
          /\ k <= (q.i - 1) + (q.j - 1) \/ (q.i = A + 1 /\ q.j = B + 1)
          /\ Apart(q.i, q.j)
          /\ \A a \in 1..A : l[a] \in q.backup <=> a < q.i /\ l[a] \in C
          /\ \A b \in 1..B : r[b] \in q.record <=> b < q.j /\ r[b] \notin S
      BY <1>6
    <2>2. q.i \in Nat \ {0} /\ q.j \in Nat \ {0} /\ k \in Nat
      BY <1>2, <2>1 DEF Merges
    <2>3. c \in Merges(S, R) /\ Goes(o, m, l, r, q, c)
      BY <1>2, <2>1, CompareCases
    <2>4. /\ c \in Merges(S, R)
          /\ \/ ~(q.i <= A) /\ ~(q.j <= B) /\ c = q
             \/ /\ q.i <= A /\ (~(q.j <= B) \/ Earlier(n, p))
                /\ c.i = q.i + 1 /\ c.j = q.j /\ c.backup = q.backup \cup {n} /\ c.record = q.record
             \/ /\ q.j <= B /\ (~(q.i <= A) \/ Earlier(p, n))
                /\ c.i = q.i /\ c.j = q.j + 1 /\ c.backup = q.backup /\ c.record = q.record \cup {p}
             \/ /\ q.i <= A /\ q.j <= B /\ ~Earlier(n, p) /\ ~Earlier(p, n)
                /\ c.i = q.i + 1 /\ c.j = q.j + 1 /\ c.record = q.record
                /\ c.backup = IF o[n].data # m[p].data THEN q.backup \cup {n} ELSE q.backup
      BY <2>3 DEF Goes, A, B
    <2>5. \A a \in 1..A : \A b \in 1..B :
            /\ a < q.i /\ q.j <= b => Earlier(l[a], r[b])
            /\ q.i <= a /\ b < q.j => Earlier(r[b], l[a])
      BY <2>1
    <2> HIDE DEF c, Good
    <2>6. /\ \A x, y : Earlier(x, y) => x # y /\ ~Earlier(y, x)
          /\ \A x, y, z : Earlier(x, y) /\ Earlier(y, z) => Earlier(x, z)
      BY NamesOrdered
    <2>7. /\ \A a, b \in 1..A : l[a] = l[b] => a = b
          /\ \A a, b \in 1..B : r[a] = r[b] => a = b
      <3>1. \A a, b \in 1..A : a = b \/ a < b \/ b < a
        BY <1>2
      <3>2. \A a, b \in 1..B : a = b \/ a < b \/ b < a
        BY <1>2
      <3>3. \A a, b \in 1..A : l[a] = l[b] => a = b
        BY <1>4, <2>6, <3>1
      <3>4. \A a, b \in 1..B : r[a] = r[b] => a = b
        BY <1>4, <2>6, <3>2
      <3> QED BY <3>3, <3>4
    <2>8. CASE ~(q.i <= A) /\ ~(q.j <= B) /\ c = q
      <3>1. q.i = A + 1 /\ q.j = B + 1
        BY <1>2, <2>1, <2>2, <2>8
      <3> QED BY <2>1, <2>8, <3>1 DEF c, Good
    <2>9. CASE /\ q.i <= A /\ (~(q.j <= B) \/ Earlier(n, p))
               /\ c.i = q.i + 1 /\ c.j = q.j /\ c.backup = q.backup \cup {n} /\ c.record = q.record
      <3>1. q.i \in 1..A
        BY <1>2, <2>2, <2>9
      <3>2. ASSUME NEW b \in 1..B, q.j <= b
            PROVE  Earlier(n, r[b])
        <4>1. q.j \in 1..B /\ (q.j = b \/ q.j < b)
          BY <1>2, <2>2, <3>2
        <4>2. Earlier(n, p)
          BY <1>2, <2>9, <4>1
        <4>3. CASE q.j = b
          BY <4>2, <4>3
        <4>4. CASE q.j < b
          <5>1. Earlier(p, r[b])
            BY <1>4, <4>1, <4>4
          <5> QED BY <2>6, <4>2, <5>1
        <4> QED BY <4>1, <4>3, <4>4
      <3>3. n \notin R /\ n \in S
        <4>1. \A b \in 1..B : q.j <= b \/ b < q.j
          BY <1>2, <2>2
        <4>2. \A b \in 1..B : b < q.j => Earlier(r[b], n)
          BY <2>2, <2>5, <3>1
        <4>3. \A b \in 1..B : n # r[b]
          BY <2>6, <3>2, <4>1, <4>2
        <4> QED BY <1>4, <3>1, <4>3
      <3>4. n \in C
        BY <3>3 DEF Changed, R, S
      <3>5. Apart(c.i, c.j)
        <4> SUFFICES ASSUME NEW a \in 1..A, NEW b \in 1..B
                     PROVE  /\ a < c.i /\ c.j <= b => Earlier(l[a], r[b])
                            /\ c.i <= a /\ b < c.j => Earlier(r[b], l[a])
          OBVIOUS
        <4>1. a < c.i => a < q.i \/ a = q.i
          BY <1>2, <2>2, <2>9
        <4>2. c.i <= a => q.i <= a
          BY <1>2, <2>2, <2>9
        <4> QED BY <2>5, <2>9, <3>2, <4>1, <4>2
      <3>6. \A a \in 1..A : l[a] \in c.backup <=> a < c.i /\ l[a] \in C
        <4> SUFFICES ASSUME NEW a \in 1..A
                     PROVE  l[a] \in c.backup <=> a < c.i /\ l[a] \in C
          OBVIOUS
        <4>1. a < c.i <=> a < q.i \/ a = q.i
          BY <1>2, <2>2, <2>9
        <4>2. l[a] = n => a = q.i
          BY <2>7, <3>1
        <4> HIDE DEF C, n
        <4>3. l[a] \in c.backup <=> l[a] \in q.backup \/ l[a] = n
          BY <2>9
        <4>4. l[a] \in q.backup <=> a < q.i /\ l[a] \in C
          BY <2>1
        <4>5. a = q.i => l[a] = n
          BY DEF n
        <4> QED BY <3>4, <4>1, <4>2, <4>3, <4>4, <4>5
      <3>7. /\ c.i <= A + 1 /\ c.j <= B + 1
            /\ k + 1 <= (c.i - 1) + (c.j - 1) \/ (c.i = A + 1 /\ c.j = B + 1)
        <4> DEFINE i == q.i
                   j == q.j
        <4>1. /\ i \in Nat \ {0} /\ j \in Nat \ {0} /\ i <= A + 1 /\ j <= B + 1
              /\ k <= (i - 1) + (j - 1) \/ (i = A + 1 /\ j = B + 1)
          BY <2>1, <2>2
        <4>2. c.i = i + 1 /\ c.j = j /\ i <= A
          BY <2>9
        <4> HIDE DEF i, j
        <4>3. i + 1 <= A + 1 /\ j <= B + 1 /\ k + 1 <= ((i + 1) - 1) + (j - 1)
          BY <1>2, <2>2, <4>1, <4>2
        <4> QED BY <4>2, <4>3
      <3>8. \A b \in 1..B : r[b] \in c.record <=> b < c.j /\ r[b] \notin S
        BY <2>1, <2>9
      <3> HIDE DEF Apart, C
      <3> QED BY <2>4, <3>5, <3>6, <3>7, <3>8 DEF c, Good
    <2>10. CASE /\ q.j <= B /\ (~(q.i <= A) \/ Earlier(p, n))
                /\ c.i = q.i /\ c.j = q.j + 1 /\ c.backup = q.backup /\ c.record = q.record \cup {p}
      <3>1. q.j \in 1..B
        BY <1>2, <2>2, <2>10
      <3>2. ASSUME NEW a \in 1..A, q.i <= a
            PROVE  Earlier(p, l[a])
        <4>1. q.i \in 1..A /\ (q.i = a \/ q.i < a)
          BY <1>2, <2>2, <3>2
        <4>2. Earlier(p, n)
          BY <1>2, <2>10, <4>1
        <4>3. CASE q.i = a
          BY <4>2, <4>3
        <4>4. CASE q.i < a
          <5>1. Earlier(n, l[a])
            BY <1>4, <4>1, <4>4
          <5> QED BY <2>6, <4>2, <5>1
        <4> QED BY <4>1, <4>3, <4>4
      <3>3. p \notin S
        <4>1. \A a \in 1..A : q.i <= a \/ a < q.i
          BY <1>2, <2>2
        <4>2. \A a \in 1..A : a < q.i => Earlier(l[a], p)
          BY <2>2, <2>5, <3>1
        <4>3. \A a \in 1..A : p # l[a]
          BY <2>6, <3>2, <4>1, <4>2
        <4> QED BY <1>4, <3>1, <4>3
      <3>5. Apart(c.i, c.j)
        <4> SUFFICES ASSUME NEW a \in 1..A, NEW b \in 1..B
                     PROVE  /\ a < c.i /\ c.j <= b => Earlier(l[a], r[b])
                            /\ c.i <= a /\ b < c.j => Earlier(r[b], l[a])
          OBVIOUS
        <4>1. b < c.j => b < q.j \/ b = q.j
          BY <1>2, <2>2, <2>10
        <4>2. c.j <= b => q.j <= b
          BY <1>2, <2>2, <2>10
        <4> QED BY <2>5, <2>10, <3>2, <4>1, <4>2
      <3>6. \A b \in 1..B : r[b] \in c.record <=> b < c.j /\ r[b] \notin S
        <4> SUFFICES ASSUME NEW b \in 1..B
                     PROVE  r[b] \in c.record <=> b < c.j /\ r[b] \notin S
          OBVIOUS
        <4>1. b < c.j <=> b < q.j \/ b = q.j
          BY <1>2, <2>2, <2>10
        <4>2. r[b] = p => b = q.j
          BY <2>7, <3>1
        <4> HIDE DEF p
        <4>3. r[b] \in c.record <=> r[b] \in q.record \/ r[b] = p
          BY <2>10
        <4>4. r[b] \in q.record <=> b < q.j /\ r[b] \notin S
          BY <2>1
        <4>5. b = q.j => r[b] = p
          BY DEF p
        <4> QED BY <3>3, <4>1, <4>2, <4>3, <4>4, <4>5
      <3>7. /\ c.i <= A + 1 /\ c.j <= B + 1
            /\ k + 1 <= (c.i - 1) + (c.j - 1) \/ (c.i = A + 1 /\ c.j = B + 1)
        <4> DEFINE i == q.i
                   j == q.j
        <4>1. /\ i \in Nat \ {0} /\ j \in Nat \ {0} /\ i <= A + 1 /\ j <= B + 1
              /\ k <= (i - 1) + (j - 1) \/ (i = A + 1 /\ j = B + 1)
          BY <2>1, <2>2
        <4>2. c.i = i /\ c.j = j + 1 /\ j <= B
          BY <2>10
        <4> HIDE DEF i, j
        <4>3. i <= A + 1 /\ j + 1 <= B + 1 /\ k + 1 <= (i - 1) + ((j + 1) - 1)
          BY <1>2, <2>2, <4>1, <4>2
        <4> QED BY <4>2, <4>3
      <3> HIDE DEF C
      <3>8. \A a \in 1..A : l[a] \in c.backup <=> a < c.i /\ l[a] \in C
        BY <2>1, <2>10
      <3> HIDE DEF Apart
      <3> QED BY <2>4, <3>5, <3>6, <3>7, <3>8 DEF c, Good
    <2>11. CASE /\ q.i <= A /\ q.j <= B /\ ~Earlier(n, p) /\ ~Earlier(p, n)
                /\ c.i = q.i + 1 /\ c.j = q.j + 1 /\ c.record = q.record
                /\ c.backup = IF o[n].data # m[p].data THEN q.backup \cup {n} ELSE q.backup
      <3>1. q.i \in 1..A /\ q.j \in 1..B
        BY <1>2, <2>2, <2>11
      <3>2. n = p /\ n \in S /\ n \in R
        <4>1. n \in S /\ p \in R
          BY <1>4, <3>1
        <4>2. InOrder(n) /\ InOrder(p)
          BY <4>1 DEF S, R
        <4> QED BY <2>11, <4>1, <4>2, NamesOrdered
      <3>3. n \in C <=> o[n].data # m[p].data
        BY <3>2 DEF Changed, S, R
      <3>4. ASSUME NEW a \in 1..A, NEW b \in 1..B
            PROVE  /\ a < c.i /\ c.j <= b => Earlier(l[a], r[b])
                   /\ c.i <= a /\ b < c.j => Earlier(r[b], l[a])
        <4>1. (a < c.i <=> a < q.i \/ a = q.i) /\ (b < c.j <=> b < q.j \/ b = q.j)
          BY <1>2, <2>2, <2>11
        <4>2. (c.i <= a <=> q.i < a) /\ (c.j <= b <=> q.j < b)
          BY <1>2, <2>2, <2>11
        <4>3. (q.i < a => q.i <= a) /\ (q.j < b => q.j <= b)
          BY <1>2, <2>2
        <4>4. q.j < b => Earlier(p, r[b])
          BY <1>4, <3>1
        <4>5. q.i < a => Earlier(n, l[a])
          BY <1>4, <3>1
        <4> QED BY <2>5, <3>2, <4>1, <4>2, <4>3, <4>4, <4>5
      <3>5. Apart(c.i, c.j)
        BY <3>4
      <3> HIDE DEF C
      <3>6. \A a \in 1..A : l[a] \in c.backup <=> a < c.i /\ l[a] \in C
        <4> SUFFICES ASSUME NEW a \in 1..A
                     PROVE  l[a] \in c.backup <=> a < c.i /\ l[a] \in C
          OBVIOUS
        <4>1. a < c.i <=> a < q.i \/ a = q.i
          BY <1>2, <2>2, <2>11
        <4>2. l[a] = n => a = q.i
          BY <2>7, <3>1
        <4>5. a = q.i => l[a] = n
          OBVIOUS
        <4> HIDE DEF n
        <4>3. l[a] \in c.backup <=> l[a] \in q.backup \/ (l[a] = n /\ n \in C)
          BY <2>11, <3>3
        <4>4. l[a] \in q.backup <=> a < q.i /\ l[a] \in C
          BY <2>1
        <4> QED BY <4>1, <4>2, <4>3, <4>4, <4>5
      <3>7. /\ c.i <= A + 1 /\ c.j <= B + 1
            /\ k + 1 <= (c.i - 1) + (c.j - 1) \/ (c.i = A + 1 /\ c.j = B + 1)
        <4> DEFINE i == q.i
                   j == q.j
        <4>1. /\ i \in Nat \ {0} /\ j \in Nat \ {0} /\ i <= A + 1 /\ j <= B + 1
              /\ k <= (i - 1) + (j - 1) \/ (i = A + 1 /\ j = B + 1)
          BY <2>1, <2>2
        <4>2. c.i = i + 1 /\ c.j = j + 1 /\ i <= A /\ j <= B
          BY <2>11
        <4> HIDE DEF i, j
        <4>3. i + 1 <= A + 1 /\ j + 1 <= B + 1 /\ k + 1 <= ((i + 1) - 1) + ((j + 1) - 1)
          BY <1>2, <2>2, <4>1, <4>2
        <4> QED BY <4>2, <4>3
      <3>8. \A b \in 1..B : r[b] \in c.record <=> b < c.j /\ r[b] \notin S
        <4> SUFFICES ASSUME NEW b \in 1..B
                     PROVE  r[b] \in c.record <=> b < c.j /\ r[b] \notin S
          OBVIOUS
        <4>1. b < c.j <=> b < q.j \/ b = q.j
          BY <1>2, <2>2, <2>11
        <4>2. b = q.j => r[b] \in S
          BY <3>2
        <4>3. r[b] \in q.record <=> b < q.j /\ r[b] \notin S
          BY <2>1
        <4> QED BY <2>11, <4>1, <4>2, <4>3
      <3> HIDE DEF Apart
      <3> QED BY <2>4, <3>5, <3>6, <3>7, <3>8 DEF c, Good
    <2> QED BY <2>4, <2>8, <2>9, <2>10, <2>11 DEF c
  <1> HIDE DEF Good
  <1>7. ASSUME NEW k \in T, k < A + B
        PROVE  k + 1 \in T
    <2>1. k \in 0..(A + B) /\ k + 1 \in 1..(A + B) /\ (k + 1) - 1 = k /\ k + 1 \in 0..(A + B)
      BY <1>2, <1>7
    <2>2. J[k + 1] = Compare(o, m, l, r, J[k])
      BY <1>3, <2>1
    <2> QED BY <1>6, <2>1, <2>2
  <1> DEFINE N == A + B
             d == J[N]
  <1>8. Good(d, N) /\ N \in Nat
    <2>1. \A i \in T : i \in 0..N /\ i < N => i + 1 \in T
      BY <1>7
    <2>2. N \in Nat
      BY <1>2
    <2>3. \A k \in T : Good(J[k], k)
      OBVIOUS
    <2> HIDE DEF T, N
    <2>4. 0..N \subseteq T
      BY <1>5, <2>1, <2>2, Numbers
    <2> QED BY <2>2, <2>3, <2>4
  <1> HIDE DEF d
  <1>9. /\ d \in Merges(S, R) /\ d.i = A + 1 /\ d.j = B + 1
        /\ \A a \in 1..A : l[a] \in d.backup <=> a < d.i /\ l[a] \in C
        /\ \A b \in 1..B : r[b] \in d.record <=> b < d.j /\ r[b] \notin S
    <2>1. /\ d \in Merges(S, R) /\ d.i <= A + 1 /\ d.j <= B + 1
          /\ N <= (d.i - 1) + (d.j - 1) \/ (d.i = A + 1 /\ d.j = B + 1)
          /\ \A a \in 1..A : l[a] \in d.backup <=> a < d.i /\ l[a] \in C
          /\ \A b \in 1..B : r[b] \in d.record <=> b < d.j /\ r[b] \notin S
      BY <1>8 DEF Good
    <2>2. d.i \in Nat /\ d.j \in Nat
      BY <2>1 DEF Merges
    <2>3. d.i = A + 1 /\ d.j = B + 1
      BY <1>2, <2>1, <2>2
    <2> QED BY <2>1, <2>3
  <1>10. d.backup = C /\ d.record = R \ S
    <2>1. d.backup \subseteq S /\ d.record \subseteq R /\ C \subseteq S
      BY <1>9 DEF Merges, Changed, S
    <2>2. \A a \in 1..A : a < d.i
      BY <1>2, <1>9
    <2>3. \A b \in 1..B : b < d.j
      BY <1>2, <1>9
    <2> HIDE DEF C
    <2>4. \A n \in S : n \in d.backup <=> n \in C
      BY <1>4, <1>9, <2>2
    <2>5. \A n \in R : n \in d.record <=> n \notin S
      BY <1>4, <1>9, <2>3
    <2> QED BY <2>1, <2>4, <2>5
  <1>11. Differences(o, m) = d
    BY DEF Differences, d, J, A, B, l, r, S, R
  <1> QED BY <1>10, <1>11 DEF S, R


-----------------------------------------------------------------------------
(* The names of backups *)

\* The name a file of this name is backed up under, compressed or not.
Saved(n, compressed) == IF compressed THEN BackupDir \o n \o <<".xz">> ELSE BackupDir \o n

\* A sequence of one part.
LEMMA OneName ==
    ASSUME NEW S, NEW x \in S
    PROVE  <<x>> \in Seq(S) /\ Len(<<x>>) = 1 /\ <<x>>[1] = x
  OBVIOUS

\* How such a name is made, and how the name of the file is got back from it.
LEMMA SavedFacts ==
    ASSUME NEW n \in Seq(Parts), Len(n) > 0
    PROVE  /\ \A c \in BOOLEAN : /\ Saved(n, c) \in Seq(Parts) /\ InBackup(Saved(n, c))
                                 /\ Saved(n, c)[2] = n[1]
           /\ Last(Saved(n, FALSE)) = Last(n) /\ Tail(Saved(n, FALSE)) = n
           /\ Last(Saved(n, TRUE)) = ".xz"
           /\ SubSeq(Saved(n, TRUE), 2, Len(Saved(n, TRUE)) - 1) = n
  <1> DEFINE b == Saved(n, FALSE)
             z == Saved(n, TRUE)
             L == Len(n)
  <1>1. BackupDir \in Seq(Parts) /\ Len(BackupDir) = 1 /\ BackupDir[1] = ".backup"
    <2>1. ".backup" \in Parts
      BY DEF Parts
    <2> QED BY <2>1, OneName DEF BackupDir
  <1>2. L \in Nat /\ L >= 1
    OBVIOUS
  <1>3. b \in Seq(Parts) /\ Len(b) = L + 1 /\ b[1] = ".backup" /\ \A a \in 1..L : b[a + 1] = n[a]
    <2>1. b = BackupDir \o n
      BY DEF Saved
    <2> HIDE DEF b
    <2>2. b \in Seq(Parts) /\ Len(b) = 1 + L /\ \A a \in 1..(1 + L) : b[a] = IF a <= 1 THEN BackupDir[a] ELSE n[a - 1]
      <3>1. /\ BackupDir \o n \in Seq(Parts) /\ Len(BackupDir \o n) = Len(BackupDir) + Len(n)
            /\ \A a \in 1..(Len(BackupDir) + Len(n)) :
                 (BackupDir \o n)[a] = IF a <= Len(BackupDir) THEN BackupDir[a] ELSE n[a - Len(BackupDir)]
        BY <1>1, ConcatProperties
      <3> HIDE DEF L
      <3> QED BY <1>1, <2>1, <3>1 DEF L
    <2>3. \A a \in 1..L : a + 1 \in 1..(1 + L) /\ ~(a + 1 <= 1) /\ (a + 1) - 1 = a
      BY <1>2
    <2>4. 1 \in 1..(1 + L) /\ 1 <= 1 /\ 1 + L = L + 1
      BY <1>2
    <2> QED BY <1>1, <2>2, <2>3, <2>4
  <1>4. /\ z \in Seq(Parts) /\ Len(z) = L + 2 /\ z[1] = ".backup" /\ z[L + 2] = ".xz"
        /\ \A a \in 1..L : z[a + 1] = n[a]
    <2>1. z = b \o <<".xz">>
      BY DEF Saved
    <2> HIDE DEF b, z
    <2>2. <<".xz">> \in Seq(Parts) /\ Len(<<".xz">>) = 1 /\ <<".xz">>[1] = ".xz"
      <3>1. ".xz" \in Parts
        BY DEF Parts
      <3> QED BY <3>1, OneName
    <2>3. z \in Seq(Parts) /\ Len(z) = L + 2 /\ \A a \in 1..(L + 1) : z[a] = b[a]
      BY <1>2, <1>3, <2>1, <2>2
    <2>4. z[L + 2] = ".xz"
      BY <1>2, <1>3, <2>1, <2>2
    <2>5. \A a \in 1..L : a + 1 \in 1..(L + 1)
      BY <1>2
    <2>6. 1 \in 1..(L + 1)
      BY <1>2
    <2> QED BY <1>3, <2>3, <2>4, <2>5, <2>6
  <1> HIDE DEF b, z
  <1>5. InBackup(b) /\ InBackup(z)
    BY <1>2, <1>3, <1>4 DEF InBackup
  <1>6. b[2] = n[1] /\ z[2] = n[1]
    <2>1. 1 \in 1..L /\ 1 + 1 = 2
      BY <1>2
    <2> QED BY <1>3, <1>4, <2>1
  <1>7. Last(b) = Last(n) /\ Last(z) = ".xz"
    <2>1. L \in 1..L
      BY <1>2
    <2> QED BY <1>3, <1>4, <2>1 DEF Last
  <1>8. Tail(b) = n
    <2>1. Tail(b) \in Seq(Parts) /\ Len(Tail(b)) = L /\ \A a \in 1..L : Tail(b)[a] = b[a + 1]
      BY <1>2, <1>3
    <2> DEFINE t == Tail(b)
    <2> HIDE DEF t
    <2>2. t \in Seq(Parts) /\ Len(t) = Len(n) /\ \A a \in 1..Len(t) : t[a] = n[a]
      BY <1>2, <1>3, <2>1 DEF t
    <2> QED BY <2>2, SeqEqual DEF t
  <1>9. SubSeq(z, 2, Len(z) - 1) = n
    <2>1. Len(z) - 1 = L + 1 /\ L + 1 \in Nat
      BY <1>2, <1>4
    <2> DEFINE t == SubSeq(z, 2, L + 1)
    <2>2. t \in Seq(Parts) /\ Len(t) = L /\ \A a \in 1..L : t[a] = z[a + 1]
      BY <1>2, <1>4
    <2> HIDE DEF t
    <2>3. t \in Seq(Parts) /\ Len(t) = Len(n) /\ \A a \in 1..Len(t) : t[a] = n[a]
      BY <1>2, <1>4, <2>2
    <2> QED BY <2>1, <2>3, SeqEqual DEF t
  <1> QED BY <1>3, <1>4, <1>5, <1>6, <1>7, <1>8, <1>9 DEF b, z

\* The names below .backup.
LEMMA BackupNamesFacts ==
    /\ \A n \in Seq(Parts) : UnderName(BackupDir, n) <=> InBackup(n)
    /\ \A n \in Seq(Parts) : Len(n) > 0 /\ n[1] = ".backup" => n = BackupDir \/ InBackup(n)
    /\ InBackup(RmListName) /\ InBackup(MagiskName) /\ ~InBackup(BackupDir)
    /\ RmListName[2] = ".rmlist" /\ MagiskName[2] = ".magisk" /\ RmListName # MagiskName
    /\ BackupDir[1] = ".backup" /\ \A n : InBackup(n) => n[1] = ".backup"
  <1>1. BackupDir \in Seq(Parts) /\ Len(BackupDir) = 1 /\ BackupDir[1] = ".backup"
    <2>1. ".backup" \in Parts
      BY DEF Parts
    <2> QED BY <2>1, OneName DEF BackupDir
  <1>2. ASSUME NEW n \in Seq(Parts)
        PROVE  UnderName(BackupDir, n) <=> InBackup(n)
    <2>1. Len(n) \in Nat
      OBVIOUS
    <2>2. CASE Len(n) > 1
      <3>1. /\ SubSeq(n, 1, 1) \in Seq(Parts) /\ Len(SubSeq(n, 1, 1)) = 1
            /\ SubSeq(n, 1, 1)[1] = n[1]
        BY <2>1, <2>2
      <3>2. /\ SubSeq(BackupDir, 1, 1) \in Seq(Parts) /\ Len(SubSeq(BackupDir, 1, 1)) = 1
            /\ SubSeq(BackupDir, 1, 1)[1] = ".backup"
        BY <1>1
      <3> DEFINE s == SubSeq(n, 1, 1)
                 t == SubSeq(BackupDir, 1, 1)
      <3> HIDE DEF s, t
      <3>3. n[1] = ".backup" => t = s
        <4> SUFFICES ASSUME n[1] = ".backup" PROVE t = s
          OBVIOUS
        <4>1. Len(s) = Len(t) /\ \A a \in 1..Len(t) : t[a] = s[a]
          BY <3>1, <3>2 DEF s, t
        <4> QED BY <3>1, <3>2, <4>1, SeqEqual DEF s, t
      <3>4. t = s => n[1] = ".backup"
        BY <3>1, <3>2 DEF s, t
      <3>5. IsPrefix(BackupDir, n) <=> t = s
        BY <1>1, <2>1, <2>2 DEF IsPrefix, s, t
      <3> QED BY <1>1, <2>2, <3>3, <3>4, <3>5 DEF UnderName, InBackup
    <2>3. CASE ~(Len(n) > 1)
      BY <1>1, <2>3 DEF UnderName, InBackup
    <2> QED BY <2>2, <2>3
  <1>3. ASSUME NEW n \in Seq(Parts), Len(n) > 0, n[1] = ".backup"
        PROVE  n = BackupDir \/ InBackup(n)
    <2>1. Len(n) \in Nat
      OBVIOUS
    <2>2. CASE Len(n) = 1
      <3>1. \A a \in 1..Len(n) : n[a] = BackupDir[a]
        BY <1>1, <1>3, <2>2
      <3> QED BY <1>1, <2>2, <3>1, SeqEqual
    <2>3. CASE Len(n) > 1
      BY <1>3, <2>3 DEF InBackup
    <2>4. Len(n) = 1 \/ Len(n) > 1
      <3>1. \A x \in Nat : x > 0 => x = 1 \/ x > 1
        OBVIOUS
      <3> QED BY <1>3, <2>1, <3>1
    <2> QED BY <2>2, <2>3, <2>4
  <1>4. InBackup(RmListName) /\ RmListName[2] = ".rmlist"
    BY DEF InBackup, RmListName
  <1>5. InBackup(MagiskName) /\ MagiskName[2] = ".magisk"
    BY DEF InBackup, MagiskName
  <1>6. ".rmlist" # ".magisk"
    OBVIOUS
  <1>7. ~InBackup(BackupDir) /\ \A n : InBackup(n) => n[1] = ".backup"
    BY <1>1 DEF InBackup
  <1> QED BY <1>1, <1>2, <1>3, <1>4, <1>5, <1>6, <1>7


-----------------------------------------------------------------------------
(* What restore does *)

\* What the commands that take entries away leave.
LEMMA RmFacts ==
    ASSUME NEW e, IsEntries(e), NEW path, NEW r
    PROVE  IsEntries(Rm(e, path, r))
  <1> DEFINE f == Rm(e, path, r)
             D == DOMAIN e \ ({path} \cup {n \in DOMAIN e : r /\ UnderName(path, n)})
  <1>1. f = [n \in D |-> e[n]]
    BY DEF Rm, WithoutEntries, Restrict
  <1>2. D \subseteq DOMAIN e
    OBVIOUS
  <1> HIDE DEF f, D
  <1>3. DOMAIN f = D /\ \A n \in D : f[n] = e[n]
    BY <1>1
  <1>4. \A n \in DOMAIN f : InOrder(n) /\ IsEntry(f[n])
    BY <1>2, <1>3 DEF IsEntries
  <1>5. f = [n \in DOMAIN f |-> f[n]]
    BY <1>1, <1>3
  <1> QED BY <1>4, <1>5 DEF IsEntries, f

\* The entries outside .backup.
Cleaned(e) == Rm(e, BackupDir, TRUE)
Below(n) == n[1] = ".backup"

\* They are those the names of which do not begin with .backup.
LEMMA CleanedFacts ==
    ASSUME NEW e, IsEntries(e)
    PROVE  /\ IsEntries(Cleaned(e))
           /\ DOMAIN Cleaned(e) = {n \in DOMAIN e : ~Below(n)}
           /\ \A n \in DOMAIN Cleaned(e) : Cleaned(e)[n] = e[n]
           /\ (\A n \in DOMAIN e : ~Below(n)) => Cleaned(e) = e
  <1> DEFINE f == Cleaned(e)
             D == DOMAIN e \ ({BackupDir} \cup {n \in DOMAIN e : TRUE /\ UnderName(BackupDir, n)})
  <1>1. f = [n \in D |-> e[n]]
    BY DEF Rm, WithoutEntries, Restrict, Cleaned
  <1>2. ASSUME NEW n \in DOMAIN e
        PROVE  n \in D <=> ~Below(n)
    <2>1. n \in Seq(Parts) /\ Len(n) > 0
      BY NameFacts DEF IsEntries
    <2> QED BY <2>1, BackupNamesFacts DEF Below
  <1>3. D = {n \in DOMAIN e : ~Below(n)}
    BY <1>2
  <1> HIDE DEF f, D
  <1>4. DOMAIN f = D /\ \A n \in D : f[n] = e[n]
    BY <1>1
  <1>5. IsEntries(f)
    BY RmFacts DEF f, Cleaned
  <1>6. ASSUME \A n \in DOMAIN e : ~Below(n)
        PROVE  f = e
    <2>1. D = DOMAIN e
      BY <1>3, <1>6
    <2>2. e = [n \in DOMAIN e |-> e[n]]
      BY DEF IsEntries
    <2> QED BY <1>1, <2>1, <2>2
  <1> QED BY <1>3, <1>4, <1>5, <1>6 DEF f

\* What `restore` finds, and what it comes to.
Taken(e) == {n \in DOMAIN e : InBackup(n)}
Held(e) == Taken(e) \ {RmListName, MagiskName}
Gone(e) == IF RmListName \in Taken(e) THEN e[RmListName].data.list ELSE {}
Back(e) == {RestoredName(n, e[n]) : n \in Held(e)}
Stays(e) == DOMAIN e \ (Taken(e) \cup {BackupDir} \cup Gone(e))
Chosen(e, b) == CHOOSE x \in Held(e) : RestoredName(x, e[x]) = b

\* The definition, in these words.
LEMMA RestoreDef ==
    ASSUME NEW e, \A n \in DOMAIN e : InOrder(n)
    PROVE  RestoreRamdisk(e) =
             IF Gone(e) = {} /\ Held(e) = {} THEN NoEntries
             ELSE [b \in Stays(e) \cup Back(e) |->
                     IF b \in Back(e) THEN RestoredEntry(Chosen(e, b), e[Chosen(e, b)]) ELSE e[b]]
  <1>1. {n \in DOMAIN e : UnderName(BackupDir, n)} = Taken(e)
    BY NameFacts, BackupNamesFacts DEF Taken
  <1> QED BY <1>1 DEF RestoreRamdisk, Held, Gone, Back, Stays, Chosen

\* The same without the choice: what comes back, comes back from some backup of that name.
LEMMA RestoreFacts ==
    ASSUME NEW e, \A n \in DOMAIN e : InOrder(n), ~(Gone(e) = {} /\ Held(e) = {})
    PROVE  LET f == RestoreRamdisk(e)
           IN /\ DOMAIN f = Stays(e) \cup Back(e) /\ f = [b \in DOMAIN f |-> f[b]]
              /\ \A b \in Back(e) : \E x \in Held(e) : RestoredName(x, e[x]) = b /\ f[b] = RestoredEntry(x, e[x])
              /\ \A b \in Stays(e) : b \notin Back(e) => f[b] = e[b]
  <1> DEFINE f == RestoreRamdisk(e)
  <1>1. f = [b \in Stays(e) \cup Back(e) |->
               IF b \in Back(e) THEN RestoredEntry(Chosen(e, b), e[Chosen(e, b)]) ELSE e[b]]
    BY RestoreDef
  <1> HIDE DEF f
  <1>2. ASSUME NEW b \in Back(e)
        PROVE  \E x \in Held(e) : RestoredName(x, e[x]) = b /\ f[b] = RestoredEntry(x, e[x])
    <2>1. \E x \in Held(e) : RestoredName(x, e[x]) = b
      BY DEF Back
    <2>2. Chosen(e, b) \in Held(e) /\ RestoredName(Chosen(e, b), e[Chosen(e, b)]) = b
      BY <2>1 DEF Chosen
    <2>3. f[b] = RestoredEntry(Chosen(e, b), e[Chosen(e, b)])
      BY <1>1
    <2> QED BY <2>2, <2>3
  <1>3. DOMAIN f = Stays(e) \cup Back(e) /\ \A b \in Stays(e) : b \notin Back(e) => f[b] = e[b]
    BY <1>1
  <1>4. f = [b \in DOMAIN f |-> f[b]]
    BY <1>1
  <1> QED BY <1>2, <1>3, <1>4 DEF f

-----------------------------------------------------------------------------
(* What backup does, and that restore undoes it *)

\* Names the backups of which there are, and are told from Magisk's records.
Clear(n) ==
    /\ n[1] \notin {".backup", ".rmlist", ".magisk"}
    /\ InOrder(Saved(n, TRUE)) /\ InOrder(Saved(n, FALSE))
Zips(o, n, s) == ~s /\ CanCompress(o[n])
Goal(o, n, s) == Saved(n, Zips(o, n, s))

\* Goal(o, n, s) is the name the entry n of o is backed up under.
LEMMA BackupNameFacts ==
    ASSUME NEW o, NEW n \in Seq(Parts), NEW s
    PROVE  BackupName(n, o[n], s) = Goal(o, n, s)
  <1>1. BackupDir \in Seq(Parts)
    BY NameFacts
  <1>2. BackupDir \o n \in Seq(Parts)
    BY <1>1, ConcatProperties
  <1>3. BackupDir \o n \o <<>> = BackupDir \o n
    BY <1>2, ConcatEmptySeq
  <1> QED BY <1>3 DEF BackupName, Goal, Saved, Zips

\* What `backup` comes to.
Listed(o, m) == IF DOMAIN m \ DOMAIN o = {} THEN {} ELSE {RmListName}
Goals(o, m, s) == {Goal(o, n, s) : n \in Changed(o, m)}

\* e is m with what is needed to get o back from it.
BackedUp(e, o, m, s) ==
    /\ DOMAIN e = DOMAIN m \cup {BackupDir} \cup Goals(o, m, s) \cup Listed(o, m)
    /\ e = [b \in DOMAIN e |-> e[b]]
    /\ \A b \in Listed(o, m) : e[b] = CpioEntry("reg", RmList(DOMAIN m \ DOMAIN o))
    /\ \A b \in Goals(o, m, s) \ Listed(o, m) :
         \E n \in Changed(o, m) : Goal(o, n, s) = b /\ e[b] = BackupOf(o[n], s)
    /\ BackupDir \notin Goals(o, m, s) \cup Listed(o, m) => e[BackupDir] = CpioDir
    /\ \A b \in DOMAIN m : b \notin Goals(o, m, s) \cup Listed(o, m) \cup {BackupDir} => e[b] = m[b]

\* The definition of `backup`, in these words.
LEMMA BackupFacts ==
    ASSUME NEW m0, IsEntries(m0), NEW o0, IsEntries(o0), NEW s
    PROVE  BackedUp(BackupRamdisk(m0, o0, s), Cleaned(o0), Cleaned(m0), s)
  <1> DEFINE e == BackupRamdisk(m0, o0, s)
             o == Cleaned(o0)
             m == Cleaned(m0)
             d == Differences(o, m)
             C == Changed(o, m)
             X == DOMAIN m \ DOMAIN o
             pick(b) == CHOOSE x \in C : BackupName(x, o[x], s) = b
             saved == {BackupName(n, o[n], s) : n \in C}
  <1>1. IsEntries(o) /\ IsEntries(m)
    BY CleanedFacts
  <1>2. d.backup = C /\ d.record = X
    BY <1>1, MergeFacts DEF IsEntries
  <1> DEFINE D == DOMAIN m \cup {BackupDir} \cup saved \cup Listed(o, m)
  <1>3. e = [b \in D |->
          IF b \in Listed(o, m) THEN CpioEntry("reg", RmList(X))
          ELSE IF b \in saved THEN BackupOf(o[pick(b)], s)
          ELSE IF b = BackupDir THEN CpioDir ELSE m[b]]
    <2> DEFINE Shape(B, R, K) ==
                 [b \in DOMAIN m \cup {BackupDir} \cup {BackupName(n, o[n], s) : n \in B} \cup K |->
                    IF b \in K THEN CpioEntry("reg", RmList(R))
                    ELSE IF b \in {BackupName(n, o[n], s) : n \in B}
                    THEN LET n == CHOOSE x \in B : BackupName(x, o[x], s) = b
                         IN BackupOf(o[n], s)
                    ELSE IF b = BackupDir THEN CpioDir ELSE m[b]]
               K0 == IF d.record = {} THEN {} ELSE {RmListName}
    <2>1. e = Shape(d.backup, d.record, K0)
      BY DEF BackupRamdisk, Cleaned
    <2>2. K0 = Listed(o, m)
      <3> HIDE DEF d
      <3> QED BY <1>2 DEF Listed
    <2>3. e = Shape(C, X, Listed(o, m))
      <3> HIDE DEF Shape, C, X, d, K0, e
      <3> QED BY <1>2, <2>1, <2>2
    <2> HIDE DEF C, X, d, o, m, e
    <2> QED BY <2>3
  <1>4. \A n \in C : n \in DOMAIN o /\ n \in Seq(Parts)
    BY <1>1, NameFacts DEF Changed, IsEntries
  <1> HIDE DEF e, o, m, d, C, X
  <1>5. \A n \in C : BackupName(n, o[n], s) = Goal(o, n, s)
    BY <1>4, BackupNameFacts
  <1>6. saved = Goals(o, m, s)
    BY <1>5 DEF Goals, C
  <1>7. ASSUME NEW b \in saved
        PROVE  pick(b) \in C /\ Goal(o, pick(b), s) = b
    <2>1. \E x \in C : BackupName(x, o[x], s) = b
      OBVIOUS
    <2>2. pick(b) \in C /\ BackupName(pick(b), o[pick(b)], s) = b
      BY <2>1
    <2> QED BY <1>5, <2>2
  <1> HIDE DEF saved, pick
  <1>8. DOMAIN e = D /\ e = [b \in DOMAIN e |-> e[b]]
    BY <1>3
  <1>9. \A b \in Listed(o, m) : e[b] = CpioEntry("reg", RmList(X))
    BY <1>3
  <1>10. ASSUME NEW b \in saved, b \notin Listed(o, m)
         PROVE  \E n \in C : Goal(o, n, s) = b /\ e[b] = BackupOf(o[n], s)
    <2>1. e[b] = BackupOf(o[pick(b)], s)
      BY <1>3, <1>10
    <2> QED BY <1>7, <2>1
  <1>11. BackupDir \notin saved \cup Listed(o, m) => e[BackupDir] = CpioDir
    BY <1>3
  <1>12. \A b \in DOMAIN m : b \notin saved \cup Listed(o, m) \cup {BackupDir} => e[b] = m[b]
    BY <1>3
  <1> HIDE DEF D
  <1>13. D = DOMAIN m \cup {BackupDir} \cup saved \cup Listed(o, m)
    BY DEF D
  <1> QED BY <1>6, <1>8, <1>9, <1>10, <1>11, <1>12, <1>13 DEF e, o, m, C, X, BackedUp


\* Two backups do not go to one name, and `restore` takes each back to where it came from.
LEMMA GoalFacts ==
    ASSUME NEW o, IsEntries(o), NEW s \in BOOLEAN, Reversible(o, s)
    PROVE  /\ \A n \in DOMAIN o : /\ InBackup(Goal(o, n, s)) /\ Goal(o, n, s)[2] = n[1]
                                  /\ RestoredName(Goal(o, n, s), BackupOf(o[n], s)) = n
                                  /\ RestoredEntry(Goal(o, n, s), BackupOf(o[n], s)).data = o[n].data
           /\ \A n, x \in DOMAIN o : Goal(o, n, s) = Goal(o, x, s) => n = x
  <1>1. ASSUME NEW n \in DOMAIN o
        PROVE  n \in Seq(Parts) /\ Len(n) > 0 /\ (Last(n) = ".xz" => Zips(o, n, s)) /\ Zips(o, n, s) \in BOOLEAN
    BY NameFacts DEF IsEntries, Reversible, Zips, CanCompress
  <1>2. ASSUME NEW n \in DOMAIN o
        PROVE  /\ InBackup(Goal(o, n, s)) /\ Goal(o, n, s)[2] = n[1]
               /\ RestoredName(Goal(o, n, s), BackupOf(o[n], s)) = n
               /\ RestoredEntry(Goal(o, n, s), BackupOf(o[n], s)).data = o[n].data
    <2> DEFINE g == Goal(o, n, s)
               x == o[n]
               y == BackupOf(x, s)
    <2>1. InBackup(g) /\ g[2] = n[1]
      BY <1>1, SavedFacts DEF Goal
    <2>2. /\ x = [kind |-> x.kind, data |-> x.data] /\ x.data.xz \in Nat
          /\ x.data = [xz |-> x.data.xz, body |-> x.data.body, list |-> x.data.list]
      BY DEF IsEntries, IsEntry, IsData
    <2> HIDE DEF x
    <2>3. CASE Zips(o, n, s)
      <3>1. g = Saved(n, TRUE) /\ ~s /\ x.kind = "reg"
        BY <2>3 DEF Goal, Zips, CanCompress, x
      <3>2. y = [x EXCEPT !.data.xz = @ + 1]
        BY <2>3, <3>1 DEF BackupOf, Compress, CanCompress
      <3>3. /\ y.kind = "reg" /\ y.data.xz = x.data.xz + 1
            /\ y.data = [xz |-> x.data.xz + 1, body |-> x.data.body, list |-> x.data.list]
            /\ y = [kind |-> y.kind, data |-> y.data]
        BY <2>2, <3>1, <3>2
      <3> HIDE DEF g, y
      <3>4. y.data.xz > 0 /\ y.data.xz - 1 = x.data.xz
        BY <2>2, <3>3
      <3>5. CanDecompress(y) /\ Last(g) = ".xz"
        BY <1>1, <3>1, <3>3, <3>4, SavedFacts DEF CanDecompress
      <3>6. RestoredName(g, y) = n
        BY <1>1, <3>1, <3>5, SavedFacts DEF RestoredName
      <3>7. RestoredEntry(g, y) = [y EXCEPT !.data.xz = @ - 1]
        BY <3>5 DEF RestoredEntry, Decompress
      <3>8. RestoredEntry(g, y).data = [xz |-> y.data.xz - 1, body |-> x.data.body, list |-> x.data.list]
        BY <3>3, <3>7
      <3>9. RestoredEntry(g, y).data = x.data
        BY <2>2, <3>4, <3>8
      <3> QED BY <2>1, <3>6, <3>9 DEF g, y, x
    <2>4. CASE ~Zips(o, n, s)
      <3>1. g = Saved(n, FALSE) /\ y = x
        BY <2>4 DEF Goal, Zips, BackupOf, x
      <3> HIDE DEF g, y
      <3>2. Last(g) # ".xz" /\ Tail(g) = n
        BY <1>1, <2>4, <3>1, SavedFacts
      <3>3. RestoredName(g, y) = n /\ RestoredEntry(g, y) = x
        BY <3>1, <3>2 DEF RestoredName, RestoredEntry
      <3> QED BY <2>1, <3>3 DEF g, y, x
    <2> QED BY <2>3, <2>4
  <1>3. ASSUME NEW n \in DOMAIN o, NEW x \in DOMAIN o, Goal(o, n, s) = Goal(o, x, s)
        PROVE  n = x
    <2>1. ASSUME NEW a \in DOMAIN o
          PROVE  Zips(o, a, s) <=> Last(Goal(o, a, s)) = ".xz"
      <3>1. CASE Zips(o, a, s)
        BY <1>1, <3>1, SavedFacts DEF Goal
      <3>2. CASE ~Zips(o, a, s)
        BY <1>1, <3>2, SavedFacts DEF Goal
      <3> QED BY <3>1, <3>2
    <2>2. Zips(o, n, s) <=> Zips(o, x, s)
      BY <1>3, <2>1
    <2>3. CASE Zips(o, n, s)
      <3>1. Saved(n, TRUE) = Saved(x, TRUE)
        BY <1>3, <2>2, <2>3 DEF Goal, Saved
      <3> QED BY <1>1, <3>1, SavedFacts
    <2>4. CASE ~Zips(o, n, s)
      <3>1. Saved(n, FALSE) = Saved(x, FALSE)
        BY <1>3, <2>2, <2>4 DEF Goal, Saved
      <3> QED BY <1>1, <3>1, SavedFacts
    <2> QED BY <2>3, <2>4
  <1> QED BY <1>2, <1>3

\* `restore` undoes `backup`.
LEMMA RestoreBackup ==
    ASSUME NEW m0, IsEntries(m0), NEW o0, IsEntries(o0), NEW s \in BOOLEAN,
           Reversible(o0, s), \A n \in DOMAIN Cleaned(o0) : Clear(n),
           Changed(Cleaned(o0), Cleaned(m0)) \cup (DOMAIN Cleaned(m0) \ DOMAIN Cleaned(o0)) # {}
    PROVE  BytesOf(RestoreRamdisk(BackupRamdisk(m0, o0, s))) = BytesOf(Cleaned(o0))
  <1> DEFINE e == BackupRamdisk(m0, o0, s)
             o == Cleaned(o0)
             m == Cleaned(m0)
             C == Changed(o, m)
             X == DOMAIN m \ DOMAIN o
             G == Goals(o, m, s)
             K == Listed(o, m)
             f == RestoreRamdisk(e)
  <1>1. /\ IsEntries(o) /\ IsEntries(m)
        /\ \A n \in DOMAIN o : n \in DOMAIN o0 /\ o[n] = o0[n] /\ ~Below(n)
        /\ \A n \in DOMAIN m : ~Below(n)
    BY CleanedFacts
  <1>2. Reversible(o, s)
    BY <1>1 DEF Reversible
  <1>3. /\ DOMAIN e = DOMAIN m \cup {BackupDir} \cup G \cup K
        /\ \A b \in K : e[b] = CpioEntry("reg", RmList(X))
        /\ \A b \in G \ K : \E n \in C : Goal(o, n, s) = b /\ e[b] = BackupOf(o[n], s)
        /\ \A b \in DOMAIN m : b \notin G \cup K \cup {BackupDir} => e[b] = m[b]
    <2>1. BackedUp(e, o, m, s)
      BY BackupFacts
    <2> HIDE DEF e, o, m
    <2> QED BY <2>1 DEF BackedUp
  <1>4. /\ \A n \in DOMAIN o : Clear(n)
        /\ C \cup X # {}
    OBVIOUS
  <1>5. C = {n \in DOMAIN o : n \in DOMAIN m => o[n].data # m[n].data}
    BY DEF Changed
  <1>6. G = {Goal(o, n, s) : n \in C}
    BY DEF Goals
  <1>7. K = IF X = {} THEN {} ELSE {RmListName}
    BY DEF Listed
  <1>8. X = DOMAIN m \ DOMAIN o
    OBVIOUS
  <1> HIDE DEF e, o, m, C, X, G, K, f
  <1>9. /\ \A n \in DOMAIN o : /\ InBackup(Goal(o, n, s)) /\ Goal(o, n, s)[2] = n[1]
                               /\ RestoredName(Goal(o, n, s), BackupOf(o[n], s)) = n
                               /\ RestoredEntry(Goal(o, n, s), BackupOf(o[n], s)).data = o[n].data
        /\ \A n, x \in DOMAIN o : Goal(o, n, s) = Goal(o, x, s) => n = x
    BY <1>1, <1>2, GoalFacts
  <1>10. \A g \in G : /\ InBackup(g) /\ g # RmListName /\ g # MagiskName /\ g # BackupDir /\ g \notin K
                      /\ g \notin DOMAIN m
    <2> TAKE g \in G
    <2>1. PICK n \in C : g = Goal(o, n, s)
      BY <1>6
    <2>2. n \in DOMAIN o /\ Clear(n)
      BY <1>4, <1>5
    <2>3. InBackup(g) /\ g[2] \notin {".rmlist", ".magisk"}
      BY <1>9, <2>1, <2>2 DEF Clear
    <2>4. Below(g)
      BY <2>3, BackupNamesFacts DEF Below
    <2> QED BY <1>1, <1>7, <2>3, <2>4, BackupNamesFacts
  <1>11. \A n \in C : e[Goal(o, n, s)] = BackupOf(o[n], s)
    <2> TAKE n \in C
    <2>1. Goal(o, n, s) \in G \ K
      BY <1>6, <1>10
    <2>2. PICK x \in C : Goal(o, x, s) = Goal(o, n, s) /\ e[Goal(o, n, s)] = BackupOf(o[x], s)
      BY <1>3, <2>1
    <2>3. x = n
      BY <1>5, <1>9, <2>2
    <2> QED BY <2>2, <2>3
  <1>12. \A b \in DOMAIN m : ~InBackup(b) /\ b # BackupDir /\ b \notin G /\ b \notin K /\ e[b] = m[b]
    <2> TAKE b \in DOMAIN m
    <2>1. ~InBackup(b) /\ b # BackupDir /\ b # RmListName
      BY <1>1, BackupNamesFacts DEF Below
    <2> QED BY <1>3, <1>7, <1>10, <2>1
  <1>13. Taken(e) = G \cup K
    <2>1. \A b \in G \cup K : InBackup(b) /\ b \in DOMAIN e
      BY <1>3, <1>7, <1>10, BackupNamesFacts
    <2>2. \A b \in DOMAIN e : InBackup(b) => b \in G \cup K
      BY <1>3, <1>12, BackupNamesFacts
    <2> QED BY <2>1, <2>2 DEF Taken
  <1>14. Held(e) = G
    BY <1>7, <1>10, <1>13 DEF Held
  <1>15. Gone(e) = X
    <2>1. CASE X = {}
      BY <1>7, <1>10, <1>13, <2>1 DEF Gone
    <2>2. CASE X # {}
      <3>1. RmListName \in Taken(e) /\ e[RmListName] = CpioEntry("reg", RmList(X))
        BY <1>3, <1>7, <1>13, <2>2
      <3>2. CpioEntry("reg", RmList(X)).data.list = X
        BY DEF CpioEntry, RmList
      <3> QED BY <3>1, <3>2 DEF Gone
    <2> QED BY <2>1, <2>2
  <1>16. ~(Gone(e) = {} /\ Held(e) = {})
    <2>1. CASE X # {}
      BY <1>15, <2>1
    <2>2. CASE X = {}
      <3>1. PICK n \in C : TRUE
        BY <1>4, <2>2
      <3>2. Goal(o, n, s) \in G
        BY <1>6
      <3> QED BY <1>14, <3>2
    <2> QED BY <2>1, <2>2
  <1>17. Back(e) = C
    <2>1. \A n \in C : RestoredName(Goal(o, n, s), e[Goal(o, n, s)]) = n
      BY <1>5, <1>9, <1>11
    <2>2. Back(e) = {RestoredName(g, e[g]) : g \in G}
      BY <1>14 DEF Back
    <2> QED BY <1>6, <2>1, <2>2
  <1>18. Stays(e) = DOMAIN m \ X
    BY <1>3, <1>12, <1>13, <1>15 DEF Stays
  <1>19. \A b \in DOMAIN e : InOrder(b)
    <2>1. \A b \in G : InOrder(b)
      <3> TAKE b \in G
      <3>1. PICK n \in C : b = Goal(o, n, s)
        BY <1>6
      <3>2. Clear(n)
        BY <1>4, <1>5
      <3> QED BY <3>1, <3>2 DEF Clear, Goal, Saved
    <2>2. \A b \in K : InOrder(b)
      BY <1>7, NameFacts
    <2> QED BY <1>1, <1>3, <2>1, <2>2, NameFacts DEF IsEntries
  <1>20. /\ DOMAIN f = Stays(e) \cup Back(e) /\ f = [b \in DOMAIN f |-> f[b]]
         /\ \A b \in Back(e) : \E x \in Held(e) : RestoredName(x, e[x]) = b /\ f[b] = RestoredEntry(x, e[x])
         /\ \A b \in Stays(e) : b \notin Back(e) => f[b] = e[b]
    BY <1>16, <1>19, RestoreFacts DEF f
  <1>21. DOMAIN f = DOMAIN o
    BY <1>5, <1>8, <1>17, <1>18, <1>20
  <1>22. ASSUME NEW b \in DOMAIN o
         PROVE  f[b].data = o[b].data
    <2>1. CASE b \in C
      <3>1. PICK x \in G : RestoredName(x, e[x]) = b /\ f[b] = RestoredEntry(x, e[x])
        BY <1>14, <1>17, <1>20, <2>1
      <3>2. PICK n \in C : x = Goal(o, n, s)
        BY <1>6
      <3>3. e[x] = BackupOf(o[n], s) /\ n \in DOMAIN o
        BY <1>5, <1>11, <3>2
      <3>4. n = b
        BY <1>9, <3>1, <3>2, <3>3
      <3> QED BY <1>9, <3>1, <3>2, <3>3, <3>4
    <2>2. CASE b \notin C
      <3>1. b \in DOMAIN m /\ o[b].data = m[b].data
        BY <1>5, <2>2
      <3>2. b \in Stays(e) /\ b \notin Back(e)
        BY <1>8, <1>17, <1>18, <2>2, <3>1
      <3> QED BY <1>12, <1>20, <3>1, <3>2
    <2> QED BY <2>1, <2>2
  <1>23. BytesOf(f) = BytesOf(o)
    BY <1>21, <1>22 DEF BytesOf
  <1> QED BY <1>23 DEF f, e, o


-----------------------------------------------------------------------------
(* The other commands *)

\* The commands keep the entries typed.
LEMMA InsertFacts ==
    ASSUME NEW e, IsEntries(e), NEW n, InOrder(n), NEW x, IsEntry(x)
    PROVE  IsEntries(InsertEntry(e, n, x))
  <1> DEFINE f == InsertEntry(e, n, x)
  <1>1. /\ DOMAIN f = DOMAIN e \cup {n} /\ f = [b \in DOMAIN f |-> f[b]] /\ f[n] = x
        /\ \A b \in DOMAIN f : b # n => b \in DOMAIN e /\ f[b] = e[b]
    BY DEF InsertEntry
  <1> HIDE DEF f
  <1>2. \A b \in DOMAIN f : InOrder(b) /\ IsEntry(f[b])
    BY <1>1 DEF IsEntries
  <1> QED BY <1>1, <1>2 DEF IsEntries, f

\* Moving an entry.
LEMMA MvFacts ==
    ASSUME NEW e, IsEntries(e), NEW from \in DOMAIN e, NEW to, InOrder(to)
    PROVE  IsEntries(Mv(e, from, to))
  <1> DEFINE f == WithoutEntries(e, {from})
  <1>1. DOMAIN f = DOMAIN e \ {from} /\ f = [b \in DOMAIN f |-> f[b]] /\ \A b \in DOMAIN f : f[b] = e[b]
    BY DEF WithoutEntries, Restrict
  <1> HIDE DEF f
  <1>2. IsEntries(f)
    BY <1>1 DEF IsEntries
  <1>3. IsEntry(e[from])
    BY DEF IsEntries
  <1> QED BY <1>2, <1>3, InsertFacts DEF Mv, f

\* Patching the flags of the fstabs.
LEMMA PatchFacts ==
    ASSUME NEW e, IsEntries(e)
    PROVE  IsEntries(PatchRamdisk(e))
  <1> DEFINE f == PatchRamdisk(e)
  <1>1. /\ DOMAIN f \subseteq DOMAIN e /\ f = [n \in DOMAIN f |-> f[n]]
        /\ \A n \in DOMAIN f : f[n] = PatchEntry(n, e[n])
    BY DEF PatchRamdisk
  <1> HIDE DEF f
  <1>2. ASSUME NEW n, NEW x, IsEntry(x)
        PROVE  IsEntry(PatchEntry(n, x))
    <2>1. PICK v : PatchEntry(n, x) = [x EXCEPT !.data.body = v]
      BY DEF PatchEntry
    <2>2. /\ x = [kind |-> x.kind, data |-> x.data] /\ x.data.xz \in Nat
          /\ x.data = [xz |-> x.data.xz, body |-> x.data.body, list |-> x.data.list]
      BY <1>2 DEF IsEntry, IsData
    <2> DEFINE y == [x EXCEPT !.data.body = v]
    <2>3. /\ y = [kind |-> y.kind, data |-> y.data]
          /\ y.data = [xz |-> x.data.xz, body |-> v, list |-> x.data.list]
      BY <2>2
    <2> HIDE DEF y
    <2>4. IsData(y.data)
      BY <2>2, <2>3 DEF IsData
    <2> QED BY <2>1, <2>3, <2>4 DEF IsEntry, y
  <1>3. \A n \in DOMAIN f : InOrder(n) /\ IsEntry(f[n])
    BY <1>1, <1>2 DEF IsEntries
  <1> QED BY <1>1, <1>3 DEF IsEntries, f

\* No entries.
LEMMA EmptyFacts == IsEntries(NoEntries)
  BY DEF IsEntries, NoEntries

\* The contents the program makes itself.
LEMMA PlainFacts ==
    /\ \A b : IsData(Plain(b))
    /\ \A b : IsData(RmList(b))
    /\ \A k, d : IsData(d) => IsEntry(CpioEntry(k, d))
    /\ IsEntry(CpioDir)
  <1>1. \A b : IsData(Plain(b)) /\ IsData(RmList(b))
    BY DEF IsData, Plain, RmList
  <1>2. \A k, d : IsData(d) => IsEntry(CpioEntry(k, d))
    BY DEF IsEntry, CpioEntry
  <1> QED BY <1>1, <1>2 DEF CpioDir

\* A backup, if there are names for it.
LEMMA BackupTyped ==
    ASSUME NEW m0, IsEntries(m0), NEW o0, IsEntries(o0), NEW s \in BOOLEAN,
           \A n \in DOMAIN Cleaned(o0) : Clear(n)
    PROVE  IsEntries(BackupRamdisk(m0, o0, s))
  <1> DEFINE e == BackupRamdisk(m0, o0, s)
             o == Cleaned(o0)
             m == Cleaned(m0)
             G == Goals(o, m, s)
             K == Listed(o, m)
  <1>1. BackedUp(e, o, m, s)
    BY BackupFacts
  <1>2. IsEntries(o) /\ IsEntries(m) /\ \A n \in DOMAIN o : Clear(n)
    BY CleanedFacts
  <1> HIDE DEF e, o, m
  <1>3. ASSUME NEW n \in Changed(o, m)
        PROVE  IsEntry(BackupOf(o[n], s)) /\ InOrder(Goal(o, n, s))
    <2>1. n \in DOMAIN o
      BY DEF Changed
    <2>2. InOrder(Goal(o, n, s))
      BY <1>2, <2>1 DEF Clear, Goal, Saved
    <2> DEFINE x == o[n]
    <2>3. IsEntry(x)
      BY <1>2, <2>1 DEF IsEntries
    <2>4. /\ x = [kind |-> x.kind, data |-> x.data] /\ x.data.xz \in Nat
          /\ x.data = [xz |-> x.data.xz, body |-> x.data.body, list |-> x.data.list]
      BY <2>3 DEF IsEntry, IsData
    <2> HIDE DEF x
    <2>5. IsEntry(Compress(x))
      <3> DEFINE y == [x EXCEPT !.data.xz = @ + 1]
      <3>1. /\ y = [kind |-> y.kind, data |-> y.data]
            /\ y.data = [xz |-> x.data.xz + 1, body |-> x.data.body, list |-> x.data.list]
        BY <2>4
      <3> HIDE DEF y
      <3>2. IsData(y.data)
        BY <2>4, <3>1 DEF IsData
      <3> QED BY <3>1, <3>2 DEF IsEntry, y, Compress
    <2> QED BY <2>2, <2>3, <2>5 DEF BackupOf, x
  <1>4. ASSUME NEW b \in DOMAIN e
        PROVE  InOrder(b) /\ IsEntry(e[b])
    <2>1. b \in DOMAIN m \/ b = BackupDir \/ b \in G \/ b \in K
      BY <1>1 DEF BackedUp
    <2>2. CASE b \in K
      <3>1. b = RmListName /\ e[b] = CpioEntry("reg", RmList(DOMAIN m \ DOMAIN o))
        BY <1>1, <2>2 DEF BackedUp, Listed
      <3> QED BY <3>1, NameFacts, PlainFacts
    <2>3. CASE b \in G /\ b \notin K
      <3>1. PICK n \in Changed(o, m) : Goal(o, n, s) = b /\ e[b] = BackupOf(o[n], s)
        BY <1>1, <2>3 DEF BackedUp
      <3> QED BY <1>3, <3>1
    <2>4. CASE b = BackupDir /\ b \notin G \cup K
      <3>1. e[b] = CpioDir
        BY <1>1, <2>4 DEF BackedUp
      <3> QED BY <2>4, <3>1, NameFacts, PlainFacts
    <2>5. CASE b \in DOMAIN m /\ b \notin G \cup K \cup {BackupDir}
      <3>1. e[b] = m[b]
        BY <1>1, <2>5 DEF BackedUp
      <3> QED BY <1>2, <2>5, <3>1 DEF IsEntries
    <2> QED BY <2>1, <2>2, <2>3, <2>4, <2>5
  <1>5. e = [b \in DOMAIN e |-> e[b]]
    BY <1>1 DEF BackedUp
  <1> QED BY <1>4, <1>5 DEF IsEntries, e

\* Restoring.
LEMMA RestoreTyped ==
    ASSUME NEW e, IsEntries(e)
    PROVE  IsEntries(RestoreRamdisk(e))
  <1>1. \A n \in DOMAIN e : InOrder(n) /\ IsEntry(e[n])
    BY DEF IsEntries
  <1>2. CASE Gone(e) = {} /\ Held(e) = {}
    BY <1>1, <1>2, RestoreDef, EmptyFacts
  <1>3. CASE ~(Gone(e) = {} /\ Held(e) = {})
    <2> DEFINE f == RestoreRamdisk(e)
    <2>1. /\ DOMAIN f = Stays(e) \cup Back(e) /\ f = [b \in DOMAIN f |-> f[b]]
          /\ \A b \in Back(e) : \E x \in Held(e) : RestoredName(x, e[x]) = b /\ f[b] = RestoredEntry(x, e[x])
          /\ \A b \in Stays(e) : b \notin Back(e) => f[b] = e[b]
      BY <1>1, <1>3, RestoreFacts
    <2> HIDE DEF f
    <2>2. ASSUME NEW n \in Held(e)
          PROVE  InOrder(RestoredName(n, e[n])) /\ IsEntry(RestoredEntry(n, e[n]))
      <3>1. /\ n \in DOMAIN e /\ InBackup(n) /\ n # RmListName /\ n # MagiskName
        BY DEF Held, Taken
      <3>2. InOrder(n) /\ IsEntry(e[n])
        BY <1>1, <3>1
      <3> DEFINE x == e[n]
      <3>3. InOrder(RestoredName(n, x))
        <4>1. Tail(n) \in Range(ByteOrder) /\ (n[Len(n)] = ".xz" => SubSeq(n, 2, Len(n) - 1) \in Range(ByteOrder))
          BY <3>1, <3>2, Names DEF InOrder, RmListName, MagiskName
        <4> QED BY <4>1 DEF InOrder, RestoredName, Last
      <3>4. /\ x = [kind |-> x.kind, data |-> x.data] /\ x.data.xz \in Nat
            /\ x.data = [xz |-> x.data.xz, body |-> x.data.body, list |-> x.data.list]
        BY <3>2 DEF IsEntry, IsData
      <3> HIDE DEF x
      <3>5. CanDecompress(x) => IsEntry(Decompress(x))
        <4> SUFFICES ASSUME CanDecompress(x) PROVE IsEntry(Decompress(x))
          OBVIOUS
        <4> DEFINE y == [x EXCEPT !.data.xz = @ - 1]
        <4>1. /\ y = [kind |-> y.kind, data |-> y.data]
              /\ y.data = [xz |-> x.data.xz - 1, body |-> x.data.body, list |-> x.data.list]
          BY <3>4
        <4>2. x.data.xz - 1 \in Nat
          BY <3>4 DEF CanDecompress
        <4> HIDE DEF y
        <4>3. IsData(y.data)
          BY <4>1, <4>2 DEF IsData
        <4> QED BY <4>1, <4>3 DEF IsEntry, y, Decompress
      <3> QED BY <3>2, <3>3, <3>5 DEF RestoredEntry, x
    <2>3. ASSUME NEW b \in DOMAIN f
          PROVE  InOrder(b) /\ IsEntry(f[b])
      <3>1. CASE b \in Back(e)
        BY <2>1, <2>2, <3>1
      <3>2. CASE b \notin Back(e)
        <4>1. b \in DOMAIN e /\ f[b] = e[b]
          BY <2>1, <3>2 DEF Stays
        <4> QED BY <1>1, <4>1
      <3> QED BY <3>1, <3>2
    <2> QED BY <2>1, <2>3 DEF IsEntries, f
  <1> QED BY <1>2, <1>3

\* What the installer adds to .backup itself changes nothing `restore` does.
LEMMA InsertKeeps ==
    ASSUME NEW e, IsEntries(e), NEW n \in {BackupDir, MagiskName}, NEW x
    PROVE  RestoreRamdisk(InsertEntry(e, n, x)) = RestoreRamdisk(e)
  <1> DEFINE f == InsertEntry(e, n, x)
  <1>1. DOMAIN f = DOMAIN e \cup {n} /\ \A b \in DOMAIN e : b # n => f[b] = e[b]
    BY DEF InsertEntry
  <1> HIDE DEF f
  <1>2. InOrder(n)
    BY NameFacts
  <1>3. (\A b \in DOMAIN e : InOrder(b)) /\ \A b \in DOMAIN f : InOrder(b)
    BY <1>1, <1>2 DEF IsEntries
  <1>4. Taken(f) \ {n} = Taken(e) \ {n} /\ n # RmListName /\ (n = BackupDir => n \notin Taken(f) /\ n \notin Taken(e))
    BY <1>1, BackupNamesFacts DEF Taken
  <1>5. Held(f) = Held(e) /\ \A b \in Held(e) : f[b] = e[b]
    <2>1. \A b \in Held(e) : b # n /\ b \in DOMAIN e
      BY <1>4 DEF Held, Taken
    <2>2. Held(f) = Held(e)
      BY <1>4 DEF Held
    <2> QED BY <1>1, <2>1, <2>2
  <1>6. Gone(f) = Gone(e)
    <2>1. RmListName \in Taken(f) <=> RmListName \in Taken(e)
      BY <1>4
    <2>2. RmListName \in Taken(e) => f[RmListName] = e[RmListName]
      BY <1>1, <1>4 DEF Taken
    <2> QED BY <2>1, <2>2 DEF Gone
  <1>7. Back(f) = Back(e)
    BY <1>5 DEF Back
  <1>8. n \in Taken(f) \cup {BackupDir}
    BY <1>1, BackupNamesFacts DEF Taken
  <1>9. Stays(f) = Stays(e) /\ n \notin Stays(e)
    <2>1. n \notin Stays(f)
      BY <1>8 DEF Stays
    <2>2. n \notin Stays(e)
      BY BackupNamesFacts DEF Stays, Taken
    <2>3. \A b : b # n => (b \in Stays(f) <=> b \in Stays(e))
      BY <1>1, <1>4, <1>6 DEF Stays
    <2> QED BY <2>1, <2>2, <2>3
  <1>10. \A b \in Stays(e) : f[b] = e[b]
    BY <1>1, <1>9 DEF Stays
  <1>11. \A b \in Back(e) : Chosen(f, b) = Chosen(e, b) /\ Chosen(e, b) \in Held(e)
    <2> TAKE b \in Back(e)
    <2>1. \E y \in Held(e) : RestoredName(y, e[y]) = b
      BY DEF Back
    <2>2. Chosen(e, b) \in Held(e)
      BY <2>1 DEF Chosen
    <2>3. \A y : (y \in Held(f) /\ RestoredName(y, f[y]) = b) <=> (y \in Held(e) /\ RestoredName(y, e[y]) = b)
      BY <1>5
    <2>4. Chosen(f, b) = Chosen(e, b)
      BY <2>3 DEF Chosen
    <2> QED BY <2>2, <2>4
  <1> DEFINE F == [b \in Stays(f) \cup Back(f) |->
                     IF b \in Back(f) THEN RestoredEntry(Chosen(f, b), f[Chosen(f, b)]) ELSE f[b]]
             E == [b \in Stays(e) \cup Back(e) |->
                     IF b \in Back(e) THEN RestoredEntry(Chosen(e, b), e[Chosen(e, b)]) ELSE e[b]]
  <1>12. F = E
    BY <1>5, <1>7, <1>9, <1>10, <1>11
  <1>13. RestoreRamdisk(f) = IF Gone(f) = {} /\ Held(f) = {} THEN NoEntries ELSE F
    BY <1>3, RestoreDef
  <1>14. RestoreRamdisk(e) = IF Gone(e) = {} /\ Held(e) = {} THEN NoEntries ELSE E
    BY <1>3, RestoreDef
  <1> HIDE DEF F, E
  <1> QED BY <1>5, <1>6, <1>12, <1>13, <1>14 DEF f


-----------------------------------------------------------------------------
(* The invariant *)

\* What the file or the entries in memory are said to be, they are.
Is(is, e) ==
    /\ is = "stock" => BytesOf(Cleaned(e)) = BytesOf(cpStock)
    /\ is = "restored" => BytesOf(e) = BytesOf(cpStock)
    /\ is = "patched" => BytesOf(RestoreRamdisk(e)) = BytesOf(cpStock)

\* What the file and the installer's copy load as.
FileEntries == LoadFromData(cpFile).entries
OrigEntries == LoadFromData(cpOrig).entries

\* The inductive invariant: all entries are typed, the stock ramdisk can be backed up, the file
\* and the entries in memory are what they are said to be, and the installer's copy is stock.
CpioInv ==
    /\ IsEntries(cpMem) /\ IsEntries(cpStock) /\ IsEntries(FileEntries)
    /\ \A n \in DOMAIN cpStock : Clear(n)
    /\ cpOpen => Is(cpMemIs, cpMem)
    /\ Is(cpIs, FileEntries)
    /\ cpOrig # <<>> => IsEntries(OrigEntries) /\ BytesOf(Cleaned(OrigEntries)) = BytesOf(cpStock)

\* The bytes of the entries are under their names.
LEMMA BytesDomain == \A e : DOMAIN BytesOf(e) = DOMAIN e
  BY DEF BytesOf

\* What a stock ramdisk loads as.
LEMMA StockLoads ==
    ASSUME NEW s \in Stocks
    PROVE  /\ IsEntries(LoadFromData(s).entries)
           /\ \A n \in DOMAIN Cleaned(LoadFromData(s).entries) : Clear(n)
  <1> DEFINE I == Range(s)
             A == {it \in I : it.name \notin Special}
             N == {it.name : it \in A}
             E == {CpioEntry(it.kind, it.data) : it \in A}
             e == LoadFromData(s).entries
  <1>1. s \in Seq(I) /\ Len(s) \in Nat /\ \A k \in 1..Len(s) : s[k] \in I
    <2>1. s \in Seq(I)
      BY StockItems
    <2> HIDE DEF I
    <2> QED BY <2>1
  <1>2. ASSUME NEW it \in I
        PROVE  /\ it = [name |-> it.name, kind |-> it.kind, data |-> it.data] /\ IsData(it.data)
               /\ it.name = <<>> => it.kind = "junk" /\ it.data = [xz |-> 0, body |-> <<>>, list |-> {}]
               /\ it.name \notin Special =>
                    /\ it.name \in Range(ByteOrder) /\ it.name[1] \notin {".rmlist", ".magisk"}
                    /\ it.name[1] # ".backup" =>
                         {<<".backup">> \o it.name, <<".backup">> \o it.name \o <<".xz">>} \subseteq Range(ByteOrder)
    BY StockItems
  <1>3. ASSUME NEW it \in I
        PROVE  Loadable(it, N, E)
    <2>1. CASE it.name = <<>>
      <3>1. it = Junk
        BY <1>2, <2>1 DEF Junk, Item, Plain
      <3> QED BY <3>1 DEF Loadable, Passed
    <2>2. CASE it.name \in {<<".">>, <<"..">>, <<"TRAILER!!!">>}
      BY <2>2 DEF Loadable, Passed, Trailer, Item
    <2>3. CASE it.name \notin Special
      BY <2>3 DEF Loadable
    <2> QED BY <2>1, <2>2, <2>3 DEF Special
  <1>4. \A k \in 1..Len(s) : Loadable(s[k], N, E)
    BY <1>1, <1>3
  <1>5. LoadFromData(s) \in Loadings(N, E)
    <2> HIDE DEF N, E
    <2>1. \A k \in 0..Len(s) : LoadedTo(s)[k] \in Loadings(N, E)
      BY <1>1, <1>4, LoadedToDef
    <2> QED BY <1>1, <2>1 DEF LoadFromData
  <1>6. e \in EntriesOver(N, E)
    BY <1>5 DEF Loadings
  <1> HIDE DEF e
  <1>7. PICK D \in SUBSET N : e \in [D -> E]
    BY <1>6 DEF EntriesOver
  <1>8. \A n \in N : InOrder(n) /\ (~Below(n) => Clear(n))
    <2> TAKE n \in N
    <2>1. PICK it \in A : n = it.name
      OBVIOUS
    <2>2. /\ n \in Range(ByteOrder) /\ n[1] \notin {".rmlist", ".magisk"}
          /\ n[1] # ".backup" =>
               {<<".backup">> \o n, <<".backup">> \o n \o <<".xz">>} \subseteq Range(ByteOrder)
      BY <1>2, <2>1
    <2> HIDE DEF N
    <2> QED BY <2>2 DEF InOrder, Below, Clear, Saved, BackupDir
  <1>9. \A x \in E : IsEntry(x)
    BY <1>2, PlainFacts
  <1> HIDE DEF N, E
  <1>10. IsEntries(e)
    <2>1. e = [n \in DOMAIN e |-> e[n]] /\ DOMAIN e = D /\ \A n \in D : e[n] \in E
      BY <1>7
    <2> QED BY <1>7, <1>8, <1>9, <2>1 DEF IsEntries
  <1>11. \A n \in DOMAIN Cleaned(e) : Clear(n)
    BY <1>7, <1>8, <1>10, CleanedFacts
  <1> QED BY <1>10, <1>11 DEF e

\* The invariant holds of a stock ramdisk.
LEMMA InitCpioInv == InitCpio => CpioInv
  <1> SUFFICES ASSUME InitCpio PROVE CpioInv
    OBVIOUS
  <1>1. cpFile \in Stocks /\ cpOrig = <<>> /\ cpOpen = FALSE /\ cpMem = NoEntries /\ cpIs = "stock"
    BY DEF InitCpio
  <1>2. cpStock = Cleaned(FileEntries)
    BY DEF InitCpio, Cleaned, FileEntries
  <1>3. IsEntries(FileEntries) /\ \A n \in DOMAIN Cleaned(FileEntries) : Clear(n)
    BY <1>1, StockLoads DEF FileEntries
  <1>4. IsEntries(cpStock)
    BY <1>2, <1>3, CleanedFacts
  <1>5. Is(cpIs, FileEntries)
    BY <1>1, <1>2 DEF Is
  <1> QED BY <1>1, <1>2, <1>3, <1>4, <1>5, EmptyFacts DEF CpioInv

\* A command on the entries in memory keeps the invariant if it keeps them typed and what it
\* says of them is so.
LEMMA ApplyKeeps ==
    ASSUME NEW e, NEW is, Apply(e, is), CpioInv, IsEntries(e), Is(is, e)
    PROVE  CpioInv'
  <1>1. /\ cpMem' = e /\ cpMemIs' = is
        /\ UNCHANGED <<cpOpen, cpFile, cpOrig, cpStock, cpIs>>
    BY DEF Apply
  <1>2. FileEntries' = FileEntries /\ OrigEntries' = OrigEntries /\ cpStock' = cpStock
    BY <1>1 DEF FileEntries, OrigEntries
  <1>3. Is(is, e)' /\ Is(cpIs, FileEntries)'
    BY <1>1, <1>2 DEF Is, CpioInv
  <1> QED BY <1>1, <1>2, <1>3 DEF CpioInv

\* So does leaving.
LEMMA LeaveKeeps ==
    ASSUME NEW out, Leave(out), CpioInv
    PROVE  CpioInv'
  <1>1. /\ cpMem' = NoEntries /\ cpOpen' = FALSE
        /\ UNCHANGED <<cpFile, cpOrig, cpStock, cpIs>>
    BY DEF Leave
  <1>2. FileEntries' = FileEntries /\ OrigEntries' = OrigEntries /\ cpStock' = cpStock
    BY <1>1 DEF FileEntries, OrigEntries
  <1>3. Is(cpIs, FileEntries)'
    BY <1>1, <1>2 DEF Is, CpioInv
  <1> QED BY <1>1, <1>2, <1>3, EmptyFacts DEF CpioInv

\* An edit that writes one entry.
LEMMA EditKeeps ==
    ASSUME NEW n, InOrder(n), NEW x, IsEntry(x), CpioInv,
           Edit(InsertEntry(cpMem, n, x), AfterEdit(n))
    PROVE  CpioInv'
  <1>1. IsEntries(InsertEntry(cpMem, n, x))
    BY InsertFacts DEF CpioInv
  <1>2. Apply(InsertEntry(cpMem, n, x), AfterEdit(n))
    BY DEF Edit
  <1>3. Is(AfterEdit(n), InsertEntry(cpMem, n, x))
    <2>1. CASE AfterEdit(n) = "edited"
      BY <2>1 DEF Is
    <2>2. CASE AfterEdit(n) = "patched" /\ cpMemIs = "patched" /\ n \in {BackupDir, MagiskName}
      <3>1. RestoreRamdisk(InsertEntry(cpMem, n, x)) = RestoreRamdisk(cpMem)
        BY <2>2, InsertKeeps DEF CpioInv
      <3>2. cpOpen
        BY <1>2 DEF Apply
      <3>3. BytesOf(RestoreRamdisk(cpMem)) = BytesOf(cpStock)
        BY <2>2, <3>2 DEF CpioInv, Is
      <3> QED BY <2>2, <3>1, <3>3 DEF Is
    <2> QED BY <2>1, <2>2 DEF AfterEdit
  <1> QED BY <1>1, <1>2, <1>3, ApplyKeeps

\* Every command keeps it, whether it writes, fails or only looks.
LEMMA NextCpioInv == CpioInv /\ [NextCpio]_cpioVars => CpioInv'
  <1> SUFFICES ASSUME CpioInv, [NextCpio]_cpioVars PROVE CpioInv'
    OBVIOUS
  <1>0. \A e : Is("edited", e)
    BY DEF Is
  <1>1. CASE OpenArchive
    <2>1. UNCHANGED <<cpFile, cpOrig, cpStock, cpIs>>
      BY <1>1 DEF OpenArchive
    <2>2. FileEntries' = FileEntries /\ OrigEntries' = OrigEntries /\ cpStock' = cpStock
      BY <2>1 DEF FileEntries, OrigEntries
    <2>3. Is(cpIs, FileEntries)'
      BY <2>1, <2>2 DEF Is, CpioInv
    <2>4. CASE LoadFromData(cpFile).ok
      <3>1. cpMem' = FileEntries /\ cpMemIs' = cpIs
        BY <1>1, <2>4 DEF OpenArchive, FileEntries
      <3>2. Is(cpMemIs, cpMem)'
        BY <2>1, <2>2, <3>1 DEF Is, CpioInv
      <3> QED BY <2>1, <2>2, <2>3, <3>1, <3>2 DEF CpioInv
    <2>5. CASE ~LoadFromData(cpFile).ok
      <3>1. cpOpen' = cpOpen /\ cpMem' = cpMem /\ cpMemIs' = cpMemIs /\ ~cpOpen
        BY <1>1, <2>5 DEF OpenArchive
      <3> QED BY <2>1, <2>2, <2>3, <3>1 DEF CpioInv
    <2> QED BY <2>4, <2>5
  <1>2. CASE RmCommand
    <2>1. PICK n \in Edited, r \in BOOLEAN : Apply(Rm(cpMem, n, r), AfterEdit(<<>>))
      BY <1>2 DEF RmCommand, Edit
    <2>2. <<>> \notin {BackupDir, MagiskName}
      BY DEF BackupDir, MagiskName
    <2>3. AfterEdit(<<>>) = "edited"
      BY <2>2 DEF AfterEdit
    <2>4. IsEntries(Rm(cpMem, n, r))
      BY RmFacts DEF CpioInv
    <2> QED BY <1>0, <2>1, <2>3, <2>4, ApplyKeeps
  <1>3. CASE MkdirCommand
    <2>1. PICK n \in Edited : Edit(InsertEntry(cpMem, n, CpioDir), AfterEdit(n))
      BY <1>3 DEF MkdirCommand
    <2> QED BY <2>1, EditKeeps, NameFacts, PlainFacts
  <1>4. CASE LnCommand
    <2>1. PICK n \in Edited, target \in Edited :
            Edit(InsertEntry(cpMem, n, CpioEntry("lnk", Plain(target))), AfterEdit(n))
      BY <1>4 DEF LnCommand
    <2>2. IsEntry(CpioEntry("lnk", Plain(target)))
      BY PlainFacts
    <2> QED BY <2>1, <2>2, EditKeeps, NameFacts
  <1>5. CASE MvCommand
    <2>1. PICK from \in Edited, to \in Edited :
            \/ from \in DOMAIN cpMem /\ Apply(Mv(cpMem, from, to), AfterEdit(<<>>))
            \/ Leave("error")
      BY <1>5 DEF MvCommand, Edit
    <2>2. <<>> \notin {BackupDir, MagiskName}
      BY DEF BackupDir, MagiskName
    <2>3. AfterEdit(<<>>) = "edited"
      BY <2>2 DEF AfterEdit
    <2>4. CASE from \in DOMAIN cpMem /\ Apply(Mv(cpMem, from, to), AfterEdit(<<>>))
      <3>1. IsEntries(Mv(cpMem, from, to))
        BY <2>4, MvFacts, NameFacts DEF CpioInv
      <3> QED BY <1>0, <2>3, <2>4, <3>1, ApplyKeeps
    <2> QED BY <2>1, <2>4, LeaveKeeps
  <1>6. CASE AddCommand
    <2>1. PICK f \in Files :
            \/ Edit(InsertEntry(cpMem, f[1], CpioEntry(IF f[2] = "lnk" THEN "reg" ELSE f[2], f[3])), AfterEdit(f[1]))
            \/ Leave("error")
      BY <1>6 DEF AddCommand
    <2>2. InOrder(f[1]) /\ IsData(f[3])
      BY FilesNamed DEF InOrder
    <2>3. IsEntry(CpioEntry(IF f[2] = "lnk" THEN "reg" ELSE f[2], f[3]))
      BY <2>2, PlainFacts
    <2> QED BY <2>1, <2>2, <2>3, EditKeeps, LeaveKeeps
  <1>7. CASE PatchCommand
    <2>1. Apply(PatchRamdisk(cpMem), "edited")
      BY <1>7 DEF PatchCommand, Edit
    <2>2. IsEntries(PatchRamdisk(cpMem))
      BY PatchFacts DEF CpioInv
    <2> QED BY <1>0, <2>1, <2>2, ApplyKeeps
  <1>8. CASE BackupCommand
    <2> DEFINE o == OrigEntries
               e(s) == BackupRamdisk(cpMem, o, s)
               found(s) == \E n \in DOMAIN e(s) : UnderName(BackupDir, n)
    <2>1. PICK s \in BOOLEAN :
            \/ /\ cpOrig # <<>>
               /\ Apply(e(s), IF found(s) /\ Reversible(o, s) THEN "patched" ELSE "edited")
            \/ Leave("error")
      BY <1>8 DEF BackupCommand, Save, OrigEntries
    <2>2. CASE /\ cpOrig # <<>>
               /\ Apply(e(s), IF found(s) /\ Reversible(o, s) THEN "patched" ELSE "edited")
      <3>1. IsEntries(o) /\ BytesOf(Cleaned(o)) = BytesOf(cpStock) /\ IsEntries(cpMem)
        BY <2>2 DEF CpioInv
      <3>2. \A n \in DOMAIN Cleaned(o) : Clear(n)
        BY <3>1, BytesDomain DEF CpioInv
      <3> HIDE DEF o
      <3>3. IsEntries(e(s))
        BY <3>1, <3>2, BackupTyped
      <3>4. CASE found(s) /\ Reversible(o, s)
        <4> DEFINE C == Changed(Cleaned(o), Cleaned(cpMem))
                   X == DOMAIN Cleaned(cpMem) \ DOMAIN Cleaned(o)
        <4>1. C \cup X # {}
          <5> SUFFICES ASSUME C = {}, X = {} PROVE FALSE
            OBVIOUS
          <5>1. DOMAIN e(s) = DOMAIN Cleaned(cpMem) \cup {BackupDir}
            <6>1. BackedUp(e(s), Cleaned(o), Cleaned(cpMem), s)
              BY <3>1, BackupFacts
            <6> HIDE DEF e
            <6> QED BY <6>1 DEF BackedUp, Goals, Listed
          <5>2. PICK n \in DOMAIN e(s) : UnderName(BackupDir, n)
            BY <3>4
          <5>3. InBackup(n)
            <6>1. n \in Seq(Parts)
              BY <3>3, NameFacts DEF IsEntries
            <6> QED BY <5>2, <6>1, BackupNamesFacts
          <5>4. n \in DOMAIN Cleaned(cpMem) => ~Below(n)
            BY <3>1, CleanedFacts
          <5> QED BY <5>1, <5>3, <5>4, BackupNamesFacts DEF Below
        <4>2. BytesOf(RestoreRamdisk(e(s))) = BytesOf(Cleaned(o))
          BY <3>1, <3>2, <3>4, <4>1, RestoreBackup
        <4>3. Is("patched", e(s))
          BY <3>1, <4>2 DEF Is
        <4>4. Apply(e(s), "patched")
          BY <2>2, <3>4
        <4> HIDE DEF e
        <4> QED BY <3>3, <4>3, <4>4, ApplyKeeps
      <3>5. CASE ~(found(s) /\ Reversible(o, s))
        <4>1. Apply(e(s), "edited")
          BY <2>2, <3>5
        <4> HIDE DEF e
        <4> QED BY <1>0, <3>3, <4>1, ApplyKeeps
      <3> QED BY <3>4, <3>5
    <2> QED BY <2>1, <2>2, LeaveKeeps
  <1>9. CASE RestoreCommand
    <2>1. Apply(RestoreRamdisk(cpMem), IF cpMemIs = "patched" THEN "restored" ELSE "edited") /\ cpOpen
      BY <1>9 DEF RestoreCommand, Save, Apply
    <2>2. IsEntries(RestoreRamdisk(cpMem))
      BY RestoreTyped DEF CpioInv
    <2>3. Is(IF cpMemIs = "patched" THEN "restored" ELSE "edited", RestoreRamdisk(cpMem))
      BY <2>1 DEF CpioInv, Is
    <2> QED BY <2>1, <2>2, <2>3, ApplyKeeps
  <1>10. CASE ExtractCommand
    <2>1. CASE \E out : Leave(out)
      BY <2>1, LeaveKeeps
    <2>2. CASE UNCHANGED <<cpOpen, cpMem, cpFile, cpOrig, cpEdits, cpSaves, cpStock, cpIs, cpMemIs>>
      BY <2>2 DEF CpioInv, Is, FileEntries, OrigEntries
    <2> QED BY <1>10, <2>1, <2>2 DEF ExtractCommand
  <1>11. CASE TestCommand \/ ExistsCommand \/ LsCommand
    BY <1>11, LeaveKeeps DEF TestCommand, ExistsCommand, LsCommand
  <1>12. CASE Dump
    <2>1. /\ cpFile' = DumpItems(cpMem) /\ cpIs' = cpMemIs /\ cpOpen' = FALSE /\ cpMem' = NoEntries /\ cpOpen
          /\ UNCHANGED <<cpOrig, cpStock>>
      BY <1>12 DEF Dump
    <2>2. FileEntries' = cpMem
      BY <2>1, LoadDump DEF FileEntries, CpioInv
    <2>3. OrigEntries' = OrigEntries
      BY <2>1 DEF OrigEntries
    <2>4. Is(cpIs, FileEntries)'
      BY <2>1, <2>2 DEF Is, CpioInv
    <2> QED BY <2>1, <2>2, <2>3, <2>4, EmptyFacts DEF CpioInv
  <1>13. CASE KeepOrig
    <2>1. /\ cpIs \in {"stock", "restored"} /\ cpOrig' = cpFile
          /\ UNCHANGED <<cpFile, cpOpen, cpMem, cpStock, cpIs, cpMemIs>>
      BY <1>13 DEF KeepOrig
    <2>2. FileEntries' = FileEntries /\ OrigEntries' = FileEntries
      BY <2>1 DEF FileEntries, OrigEntries
    <2>3. BytesOf(Cleaned(FileEntries)) = BytesOf(cpStock)
      <3>1. CASE cpIs = "stock"
        BY <3>1 DEF CpioInv, Is
      <3>2. CASE cpIs = "restored"
        <4>1. BytesOf(FileEntries) = BytesOf(cpStock) /\ IsEntries(FileEntries)
          BY <3>2 DEF CpioInv, Is
        <4>2. \A n \in DOMAIN FileEntries : ~Below(n)
          BY <4>1, BytesDomain DEF CpioInv, Clear, Below
        <4>3. Cleaned(FileEntries) = FileEntries
          BY <4>1, <4>2, CleanedFacts
        <4> QED BY <4>1, <4>3
      <3> QED BY <2>1, <3>1, <3>2
    <2>4. Is(cpIs, FileEntries)' /\ (cpOpen => Is(cpMemIs, cpMem))'
      BY <2>1, <2>2 DEF Is, CpioInv
    <2> QED BY <2>1, <2>2, <2>3, <2>4 DEF CpioInv
  <1>14. CASE UNCHANGED cpioVars
    BY <1>14 DEF cpioVars, CpioInv, Is, FileEntries, OrigEntries
  <1> QED BY <1>1, <1>2, <1>3, <1>4, <1>5, <1>6, <1>7, <1>8, <1>9, <1>10, <1>11, <1>12, <1>13, <1>14 DEF NextCpio

\* The invariant holds in every behaviour of `magiskboot cpio` and of the installer around it.
THEOREM CpioInvariance == SpecCpio => []CpioInv
  BY InitCpioInv, NextCpioInv, PTL DEF SpecCpio

\* What `restore` makes of a ramdisk that was backed up has the names and the bytes of the stock
\* ramdisk, in memory and in the file, whatever was edited before, however often it was patched
\* again, and with whatever the installer added to .backup (cpio.rs `backup`, `restore`).
THEOREM RestoreCorrect == SpecCpio => []RestoreUndoes
  <1>1. CpioInv => RestoreUndoes
    BY DEF CpioInv, Is, RestoreUndoes, FileEntries
  <1> QED BY <1>1, CpioInvariance, PTL
=============================================================================
