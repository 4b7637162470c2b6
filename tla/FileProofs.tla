----------------------------- MODULE FileProofs -----------------------------
(***************************************************************************)
(* Theorems about the tools that work on files, magiskpolicy (SePolicy)    *)
(* and magiskboot's compression (Compress), and about the mounts (Mounts): *)
(* the partition chosen for what is needed before init, and what           *)
(* revert_unmount leaves of a namespace.                                   *)
(***************************************************************************)
EXTENDS SePolicy, Compress, Mounts, Inductions, FiniteSetTheorems

-----------------------------------------------------------------------------
(* The policies magiskpolicy writes *)

\* A record with the fields of a policy.
IsPolicy(pol) ==
    pol = [f \in {"types", "attrs", "av", "xp", "permissive", "te", "genfs"} |-> pol[f]]

\* A type has attributes of the policy, and Magisk's domain is none of them.
OwnAttributes(pol) ==
    /\ \A t \in TypeNames(pol) : pol.types[t] \subseteq pol.attrs
    /\ PROC \notin pol.attrs

\* A rule on loading policies has Magisk's domain for its source.
LoadRulesOfMagisk(pol) ==
    \A a, b : <<"allow", a, b, "security", "load_policy">> \in pol.av => a = PROC

Closed(pol) == IsPolicy(pol) /\ OwnAttributes(pol) /\ LoadRulesOfMagisk(pol)

\* An action that is no request for a policy others may load.
Mild(action, a) ==
    action = "allow" => a[1] = {PROC} \/ (a[3] # {} /\ "security" \notin a[3])

\* Rules are added for names that the policy has, and for the classes named.
LEMMA AddedRules ==
    ASSUME NEW pol, NEW effect, NEW s, NEW t, NEW c, NEW p,
           NEW a, NEW b, <<"allow", a, b, "security", "load_policy">> \in Named(pol, effect, s, t, c, p, FALSE)
    PROVE  effect = "allow" /\ (s # {} => a \in s) /\ (c # {} => "security" \in c)
  <1>1. PICK cls \in (IF c = {} THEN DOMAIN Permissions ELSE c \cap DOMAIN Permissions) :
          <<"allow", a, b, "security", "load_policy">> \in
            {effect} \X MatchAll(pol, s, FALSE) \X MatchAll(pol, t, FALSE) \X {cls}
              \X PermissionsNamed(cls, c, p)
    BY DEF Named
  <1>2. effect = "allow" /\ a \in MatchAll(pol, s, FALSE) /\ cls = "security"
    BY <1>1
  <1> QED BY <1>1, <1>2 DEF MatchAll, Known

\* The first of Magisk's rules takes every rule on loading policies away.
LEMMA FirstRuleStrips ==
    ASSUME NEW pol \in Policies
    PROVE  Closed(Deny(pol, {}, {"kernel"}, {"security"}, {"load_policy"}))
  <1> DEFINE gone == Named(pol, "allow", {}, {"kernel"}, {"security"}, {"load_policy"}, TRUE)
             new == [pol EXCEPT !.av = @ \ gone]
  <1>1. IsPolicy(pol)
    BY StockPolicies DEF IsPolicy
  <1>2. /\ OwnAttributes(pol)
        /\ \A r \in pol.av :
           /\ r[2] \in TypeNames(pol) \cup pol.attrs /\ r[3] \in TypeNames(pol) \cup pol.attrs
           /\ r[4] \in DOMAIN Permissions /\ r[5] \in Permissions[r[4]]
           /\ r[4] = "security" /\ r[5] = "load_policy" => r[3] = "kernel"
    BY StockPolicies DEF OwnAttributes, TypeNames
  <1>3. ASSUME NEW a, NEW b, <<"allow", a, b, "security", "load_policy">> \in pol.av
        PROVE  <<"allow", a, b, "security", "load_policy">> \in gone
    <2>1. /\ a \in TypeNames(pol) \cup pol.attrs /\ b = "kernel"
          /\ "kernel" \in TypeNames(pol) \cup pol.attrs
          /\ "security" \in DOMAIN Permissions /\ "load_policy" \in Permissions["security"]
      BY <1>2, <1>3
    <2>2. a \in MatchAll(pol, {}, TRUE) /\ "kernel" \in MatchAll(pol, {"kernel"}, TRUE)
      BY <2>1 DEF MatchAll, Known
    <2>3. "load_policy" \in PermissionsNamed("security", {"security"}, {"load_policy"})
      BY <2>1 DEF PermissionsNamed
    <2>4. "security" \in (IF {"security"} = {} THEN DOMAIN Permissions
                          ELSE {"security"} \cap DOMAIN Permissions)
      BY <2>1
    <2>5. <<"allow", a, b, "security", "load_policy">> \in
            {"allow"} \X MatchAll(pol, {}, TRUE) \X MatchAll(pol, {"kernel"}, TRUE) \X {"security"}
              \X PermissionsNamed("security", {"security"}, {"load_policy"})
      BY <2>1, <2>2, <2>3
    <2> QED BY <2>4, <2>5 DEF Named
  <1> HIDE DEF gone
  <1>4. /\ new.av = pol.av \ gone /\ new.types = pol.types /\ new.attrs = pol.attrs
        /\ IsPolicy(new)
    BY <1>1 DEF IsPolicy
  <1>5. OwnAttributes(new)
    BY <1>2, <1>4 DEF OwnAttributes, TypeNames
  <1>6. LoadRulesOfMagisk(new)
    BY <1>3, <1>4 DEF LoadRulesOfMagisk
  <1> QED BY <1>4, <1>5, <1>6 DEF Closed, Deny, gone

\* What an action may do to the types and attributes keeps them a policy's own.
LEMMA TypesKept ==
    ASSUME NEW pol, Closed(pol)
    PROVE  /\ \A n : Closed(AddType(pol, n)) /\ (PROC \in TypeNames(pol) => PROC \in TypeNames(AddType(pol, n)))
           /\ \A ts, as : /\ Closed(AddTypeAttribute(pol, ts, as))
                          /\ TypeNames(AddTypeAttribute(pol, ts, as)) = TypeNames(pol)
           /\ \A n : PROC \in TypeNames(pol) \/ n # PROC => Closed(AddAttribute(pol, n))
           /\ \A n : TypeNames(AddAttribute(pol, n)) = TypeNames(pol)
  <1> USE DEF Closed, TypeNames
  <1>1. ASSUME NEW n
        PROVE  Closed(AddType(pol, n)) /\ (PROC \in TypeNames(pol) => PROC \in TypeNames(AddType(pol, n)))
    <2>1. CASE n \in TypeNames(pol) \cup pol.attrs
      BY <2>1 DEF AddType
    <2>2. CASE n \notin TypeNames(pol) \cup pol.attrs
      <3> DEFINE types == [t \in TypeNames(pol) \cup {n} |-> IF t = n THEN {} ELSE pol.types[t]]
                 new == AddType(pol, n)
      <3>1. new = [pol EXCEPT !.types = types]
        BY <2>2 DEF AddType
      <3>2. \A t \in DOMAIN types : types[t] \subseteq pol.attrs
        BY DEF OwnAttributes
      <3>3. DOMAIN types = TypeNames(pol) \cup {n}
        OBVIOUS
      <3> HIDE DEF types
      <3>4. new.types = types /\ new.attrs = pol.attrs /\ new.av = pol.av /\ IsPolicy(new)
        BY <3>1 DEF IsPolicy
      <3> QED BY <3>2, <3>3, <3>4 DEF OwnAttributes, LoadRulesOfMagisk
    <2> QED BY <2>1, <2>2
  <1>2. ASSUME NEW ts, NEW as
        PROVE  /\ Closed(AddTypeAttribute(pol, ts, as))
               /\ TypeNames(AddTypeAttribute(pol, ts, as)) = TypeNames(pol)
    <2> DEFINE types == [t \in TypeNames(pol) |->
                          IF t \in ts THEN pol.types[t] \cup (as \cap pol.attrs) ELSE pol.types[t]]
               new == AddTypeAttribute(pol, ts, as)
    <2>1. new = [pol EXCEPT !.types = types]
      BY DEF AddTypeAttribute
    <2>2. DOMAIN types = TypeNames(pol) /\ \A t \in DOMAIN types : types[t] \subseteq pol.attrs
      BY DEF OwnAttributes
    <2> HIDE DEF types
    <2>3. new.types = types /\ new.attrs = pol.attrs /\ new.av = pol.av /\ IsPolicy(new)
      BY <2>1 DEF IsPolicy
    <2> QED BY <2>2, <2>3 DEF OwnAttributes, LoadRulesOfMagisk
  <1>3. ASSUME NEW n
        PROVE  /\ PROC \in TypeNames(pol) \/ n # PROC => Closed(AddAttribute(pol, n))
               /\ TypeNames(AddAttribute(pol, n)) = TypeNames(pol)
    <2>1. CASE n \in TypeNames(pol)
      BY <2>1 DEF AddAttribute
    <2>2. CASE n \notin TypeNames(pol)
      <3> DEFINE new == AddAttribute(pol, n)
      <3>1. new = [pol EXCEPT !.attrs = pol.attrs \cup {n}]
        BY <2>2 DEF AddAttribute
      <3>2. new.types = pol.types /\ new.attrs = pol.attrs \cup {n} /\ new.av = pol.av /\ IsPolicy(new)
        BY <3>1 DEF IsPolicy
      <3> QED BY <2>2, <3>2 DEF OwnAttributes, LoadRulesOfMagisk
    <2> QED BY <2>1, <2>2
  <1> QED BY <1>1, <1>2, <1>3

\* A change of another field than these keeps a policy closed.
LEMMA OtherFields ==
    ASSUME NEW pol, Closed(pol), NEW v
    PROVE  /\ Closed([pol EXCEPT !.xp = v]) /\ TypeNames([pol EXCEPT !.xp = v]) = TypeNames(pol)
           /\ Closed([pol EXCEPT !.permissive = v])
           /\ TypeNames([pol EXCEPT !.permissive = v]) = TypeNames(pol)
           /\ Closed([pol EXCEPT !.te = v]) /\ TypeNames([pol EXCEPT !.te = v]) = TypeNames(pol)
           /\ Closed([pol EXCEPT !.genfs = v]) /\ TypeNames([pol EXCEPT !.genfs = v]) = TypeNames(pol)
  <1> USE DEF Closed, IsPolicy, OwnAttributes, LoadRulesOfMagisk, TypeNames
  <1>1. Closed([pol EXCEPT !.xp = v]) /\ TypeNames([pol EXCEPT !.xp = v]) = TypeNames(pol)
    OBVIOUS
  <1>2. Closed([pol EXCEPT !.permissive = v]) /\ TypeNames([pol EXCEPT !.permissive = v]) = TypeNames(pol)
    OBVIOUS
  <1>3. Closed([pol EXCEPT !.te = v]) /\ TypeNames([pol EXCEPT !.te = v]) = TypeNames(pol)
    OBVIOUS
  <1>4. Closed([pol EXCEPT !.genfs = v]) /\ TypeNames([pol EXCEPT !.genfs = v]) = TypeNames(pol)
    OBVIOUS
  <1> QED BY <1>1, <1>2, <1>3, <1>4

\* A change of the rules keeps it closed when it adds no rule on loading policies
\* but Magisk's.
LEMMA RulesKept ==
    ASSUME NEW pol, Closed(pol), NEW av,
           \A a, b : <<"allow", a, b, "security", "load_policy">> \in av => a = PROC
    PROVE  Closed([pol EXCEPT !.av = av]) /\ TypeNames([pol EXCEPT !.av = av]) = TypeNames(pol)
  <1> DEFINE new == [pol EXCEPT !.av = av]
  <1>1. new.types = pol.types /\ new.attrs = pol.attrs /\ new.av = av /\ IsPolicy(new)
    BY DEF Closed, IsPolicy
  <1> QED BY <1>1 DEF Closed, OwnAttributes, LoadRulesOfMagisk, TypeNames

\* No action but a request for it opens the policy again.
LEMMA PerformKeeps ==
    ASSUME NEW pol, Closed(pol), NEW action \in Actions, NEW a, Mild(action, a),
           PROC \in TypeNames(pol) \/ action # "attribute"
    PROVE  /\ Closed(Perform(pol, action, a))
           /\ PROC \in TypeNames(pol) => PROC \in TypeNames(Perform(pol, action, a))
  <1>1. CASE action = "deny"
    <2> DEFINE av == pol.av \ Named(pol, "allow", a[1], a[2], a[3], a[4], TRUE)
    <2>1. Perform(pol, action, a) = [pol EXCEPT !.av = av]
      BY <1>1 DEF Perform, Deny
    <2>2. \A x, y : <<"allow", x, y, "security", "load_policy">> \in av => x = PROC
      BY DEF Closed, LoadRulesOfMagisk
    <2> HIDE DEF av
    <2> QED BY <2>1, <2>2, RulesKept
  <1>2. CASE action \in {"allow", "auditallow", "dontaudit"}
    <2> DEFINE added == Named(pol, action, a[1], a[2], a[3], a[4], FALSE)
    <2>1. Perform(pol, action, a) = [pol EXCEPT !.av = pol.av \cup added]
      BY <1>2 DEF Perform, AddRule
    <2>2. ASSUME NEW x, NEW y, <<"allow", x, y, "security", "load_policy">> \in added
          PROVE  x = PROC
      <3>1. action = "allow" /\ (a[1] # {} => x \in a[1]) /\ (a[3] # {} => "security" \in a[3])
        BY <2>2, AddedRules
      <3> QED BY <3>1 DEF Mild
    <2>3. \A x, y : <<"allow", x, y, "security", "load_policy">> \in pol.av \cup added => x = PROC
      BY <2>2 DEF Closed, LoadRulesOfMagisk
    <2> HIDE DEF added
    <2> QED BY <2>1, <2>3, RulesKept
  <1>3. CASE action \in {"allowxperm", "auditallowxperm", "dontauditxperm"}
    <2> DEFINE new == Perform(pol, action, a)
               v == AddXpermRules(pol, action, a[1], a[2], a[3], a[5]).xp
    <2>1. new = AddXpermRules(pol, action, a[1], a[2], a[3], a[5])
      BY <1>3 DEF Perform
    <2>2. new = [pol EXCEPT !.xp = v]
      BY <2>1 DEF AddXpermRules, Closed, IsPolicy
    <2> HIDE DEF new, v
    <2>3. Closed(new) /\ TypeNames(new) = TypeNames(pol)
      BY <2>2, OtherFields
    <2> QED BY <2>3 DEF new
  <1>4. CASE action \in {"permissive", "enforce"}
    <2> DEFINE new == Perform(pol, action, a)
               named == IF a[1] = {} THEN TypeNames(pol) \cup pol.attrs ELSE Known(pol, a[1])
               v == IF action = "permissive" THEN pol.permissive \cup named ELSE pol.permissive \ named
    <2>1. new = SetTypeState(pol, a[1], action = "permissive")
      BY <1>4 DEF Perform
    <2>2. new = [pol EXCEPT !.permissive = v]
      BY <2>1 DEF SetTypeState
    <2> HIDE DEF new, v
    <2>3. Closed(new) /\ TypeNames(new) = TypeNames(pol)
      BY <2>2, OtherFields
    <2> QED BY <2>3 DEF new
  <1>5. CASE action = "typeattribute"
    BY <1>5, TypesKept DEF Perform
  <1>6. CASE action = "type"
    <2> DEFINE typed == AddType(pol, The(a[1]))
    <2>1. Closed(typed) /\ (PROC \in TypeNames(pol) => PROC \in TypeNames(typed))
      BY TypesKept
    <2>2. Perform(pol, action, a) = AddTypeAttribute(typed, a[1], a[2])
      BY <1>6 DEF Perform
    <2> HIDE DEF typed
    <2> QED BY <2>1, <2>2, TypesKept
  <1>7. CASE action = "attribute"
    BY <1>7, TypesKept DEF Perform
  <1>8. CASE action \in {"type_change", "type_member", "type_transition"}
    <2> DEFINE new == Perform(pol, action, a)
    <2>1. PICK e : new = AddTypeRule(pol, e, a[1], a[2], a[3], a[4])
      BY <1>8 DEF Perform
    <2> DEFINE v == {r \in pol.te : <<r[1], r[2], r[3], r[4]>> # <<e, a[1], a[2], a[3]>>}
                      \cup {<<e, a[1], a[2], a[3], a[4]>>}
    <2>2. new = pol \/ new = [pol EXCEPT !.te = v]
      BY <2>1 DEF AddTypeRule
    <2> HIDE DEF new, v
    <2>3. new = pol => Closed(new) /\ TypeNames(new) = TypeNames(pol)
      OBVIOUS
    <2>4. Closed([pol EXCEPT !.te = v]) /\ TypeNames([pol EXCEPT !.te = v]) = TypeNames(pol)
      BY OtherFields
    <2> QED BY <2>2, <2>3, <2>4 DEF new
  <1>9. CASE action = "genfscon"
    <2> DEFINE new == Perform(pol, action, a)
               v == {g \in pol.genfs : <<g[1], g[2]>> # <<a[1], a[2]>>} \cup {<<a[1], a[2], a[3]>>}
    <2>1. new = [pol EXCEPT !.genfs = v]
      BY <1>9 DEF Perform
    <2> HIDE DEF new, v
    <2>2. Closed(new) /\ TypeNames(new) = TypeNames(pol)
      BY <2>1, OtherFields
    <2> QED BY <2>2 DEF new
  <1> QED BY <1>1, <1>2, <1>3, <1>4, <1>5, <1>6, <1>7, <1>8, <1>9 DEF Actions

\* The rules after the first are no requests, and the second makes Magisk's domain.
LEMMA RulesAreMild ==
    /\ MagiskRules[1] = deny({}, {"kernel"}, {"security"}, {"load_policy"})
    /\ MagiskRules[2] = type_({PROC}, {"domain"})
    /\ Len(MagiskRules) \in Nat /\ Len(MagiskRules) > 2
    /\ \A i \in 2..Len(MagiskRules) :
          /\ MagiskRules[i].action \in Actions \ {"attribute"}
          /\ Mild(MagiskRules[i].action, MagiskRules[i].args)
  <1> DEFINE ok(r) == r.action \in Actions \ {"attribute"} /\ Mild(r.action, r.args)
  <1>1. \A s, t, c, p : s = {PROC} \/ (c # {} /\ "security" \notin c) => ok(allow(s, t, c, p))
    BY DEF allow, Rule, Mild, Actions
  <1>2. /\ \A s, t, c, p : ok(deny(s, t, c, p)) /\ ok(dontaudit(s, t, c, p))
        /\ \A s, t, c : ok(allowxperm(s, t, c))
        /\ \A t, a : ok(type_(t, a)) /\ ok(typeattribute(t, a))
        /\ \A t : ok(permissive(t))
    BY DEF deny, dontaudit, allowxperm, type_, typeattribute, permissive, Rule, Mild, Actions
  <1> HIDE DEF ok
  <1>3. Len(MagiskRules) = 39
    BY DEF MagiskRules
  <1>4. MagiskRules[1] = deny({}, {"kernel"}, {"security"}, {"load_policy"}) /\ MagiskRules[2] = type_({PROC}, {"domain"})
    BY DEF MagiskRules
  <1>5. \A i \in 2..39 : ok(MagiskRules[i])
    <2>1. \A i \in 2..7 : ok(MagiskRules[i])
      BY <1>2 DEF MagiskRules
    <2>2. ok(MagiskRules[8])
      BY <1>1 DEF MagiskRules
    <2>3. \A i \in 9..11 : ok(MagiskRules[i])
      BY <1>1 DEF MagiskRules
    <2>4. \A i \in 12..14 : ok(MagiskRules[i])
      BY <1>2 DEF MagiskRules
    <2>5. \A i \in 15..20 : ok(MagiskRules[i])
      BY <1>1 DEF MagiskRules
    <2>6. \A i \in 21..28 : ok(MagiskRules[i])
      BY <1>1 DEF MagiskRules
    <2>7. \A i \in 29..36 : ok(MagiskRules[i])
      BY <1>1 DEF MagiskRules
    <2>8. \A i \in 37..39 : ok(MagiskRules[i])
      BY <1>2 DEF MagiskRules
    <2> QED BY <2>1, <2>2, <2>3, <2>4, <2>5, <2>6, <2>7, <2>8
  <1>6. \A i \in 2..39 : /\ MagiskRules[i].action \in Actions \ {"attribute"}
                          /\ Mild(MagiskRules[i].action, MagiskRules[i].args)
    BY <1>5 DEF ok
  <1>7. 39 \in Nat /\ 39 > 2
    OBVIOUS
  <1> QED BY <1>3, <1>4, <1>6, <1>7, Zenon

\* The policy after each of the rules is what its action makes of the one before.
LEMMA PatchedStepByStep ==
    ASSUME NEW pol
    PROVE  \E f : /\ PatchWithMagiskRules(pol) = f[Len(MagiskRules)] /\ f[0] = pol
                  /\ \A i \in 1..Len(MagiskRules) :
                        f[i] = Perform(f[i - 1], MagiskRules[i].action, MagiskRules[i].args)
  <1> DEFINE n == Len(MagiskRules)
             Act(q, i) == Perform(q, MagiskRules[i].action, MagiskRules[i].args)
             Good(f, k) == /\ f = [i \in 0..k |-> f[i]] /\ f[0] = pol
                           /\ \A i \in 1..k : f[i] = Act(f[i - 1], i)
             T == {k \in 0..n : \E f : Good(f, k)}
  <1>1. n \in Nat
    BY RulesAreMild
  <1> HIDE DEF n, Act
  <1>2. 0 \in T
    <2> DEFINE g == [i \in 0..0 |-> pol]
    <2>1. g = [i \in 0..0 |-> g[i]] /\ g[0] = pol /\ 1..0 = {}
      OBVIOUS
    <2> HIDE DEF g
    <2>2. Good(g, 0)
      BY <2>1
    <2> QED BY <1>1, <2>2
  <1>3. ASSUME NEW k \in T, k < n
        PROVE  k + 1 \in T
    <2>1. k \in 0..n /\ k + 1 \in 1..n
      BY <1>1, <1>3
    <2>2. PICK f : Good(f, k)
      OBVIOUS
    <2> DEFINE g == [i \in 0..(k + 1) |-> IF i <= k THEN f[i] ELSE Act(f[k], k + 1)]
    <2>3. g = [i \in 0..(k + 1) |-> g[i]] /\ g[0] = pol
      BY <2>1, <2>2
    <2>4. ASSUME NEW i \in 1..(k + 1)
          PROVE  g[i] = Act(g[i - 1], i)
      <3>1. CASE i <= k
        <4>1. i \in 0..(k + 1) /\ i - 1 \in 0..(k + 1) /\ i - 1 <= k /\ i \in 1..k
          BY <2>1, <3>1
        <4>2. g[i] = f[i] /\ g[i - 1] = f[i - 1]
          BY <3>1, <4>1
        <4>3. f[i] = Act(f[i - 1], i)
          BY <2>2, <4>1
        <4> HIDE DEF g
        <4> QED BY <4>2, <4>3
      <3>2. CASE i = k + 1
        BY <2>1, <3>2
      <3> QED BY <2>1, <3>1, <3>2
    <2> HIDE DEF g
    <2>5. Good(g, k + 1)
      BY <2>3, <2>4
    <2>6. \E h : Good(h, k + 1)
      <3> HIDE DEF Good
      <3> QED BY <2>5
    <2>7. k + 1 \in 0..n
      BY <1>1, <2>1
    <2> HIDE DEF Good
    <2> QED BY <2>6, <2>7
  <1>4. n \in T
    <2>1. \A i \in T : i \in 0..n /\ i < n => i + 1 \in T
      BY <1>3
    <2> HIDE DEF T
    <2>2. 0..n \subseteq T
      BY <1>1, <1>2, <2>1, Numbers
    <2> QED BY <1>1, <2>2
  <1>5. PICK f : Good(f, n)
    BY <1>4
  <1> DEFINE Body(h) == [i \in 0..n |-> IF i = 0 THEN pol ELSE Act(h[i - 1], i)]
             chosen == CHOOSE h : h = Body(h)
  <1>6. f = Body(f)
    <2>1. f = [i \in 0..n |-> f[i]]
      BY <1>5
    <2>2. \A i \in 0..n : f[i] = IF i = 0 THEN pol ELSE Act(f[i - 1], i)
      BY <1>1, <1>5, SMTT(30)
    <2> QED BY <2>1, <2>2
  <1>7. chosen = Body(chosen)
    <2> HIDE DEF Body
    <2> QED BY <1>6, Zenon
  <1>8. PatchWithMagiskRules(pol) = chosen[n]
    BY DEF PatchWithMagiskRules, n, Act
  <1>9. chosen[0] = pol /\ \A i \in 1..n : chosen[i] = Act(chosen[i - 1], i)
    <2> HIDE DEF chosen
    <2> QED BY <1>1, <1>7
  <1> HIDE DEF chosen
  <1> QED BY <1>8, <1>9 DEF n, Act

\* Patched with Magisk's rules a stock policy is closed, and has Magisk's domain.
LEMMA PatchedIsClosed ==
    ASSUME NEW pol \in Policies
    PROVE  /\ Closed(PatchWithMagiskRules(pol))
           /\ PROC \in TypeNames(PatchWithMagiskRules(pol))
  <1> DEFINE n == Len(MagiskRules)
             act(i) == MagiskRules[i].action
             args(i) == MagiskRules[i].args
  <1>1. PICK f : /\ PatchWithMagiskRules(pol) = f[n] /\ f[0] = pol
                 /\ \A i \in 1..n : f[i] = Perform(f[i - 1], act(i), args(i))
    BY PatchedStepByStep
  <1>2. n \in Nat /\ n > 2
    BY RulesAreMild
  <1>3. \A i \in 2..n : act(i) \in Actions \ {"attribute"} /\ Mild(act(i), args(i))
    BY RulesAreMild
  <1>4. Closed(f[1])
    <2>1. f[1] = Perform(pol, act(1), args(1))
      BY <1>1, <1>2
    <2>2. act(1) = "deny" /\ args(1) = <<{}, {"kernel"}, {"security"}, {"load_policy"}>>
      BY RulesAreMild DEF deny, Rule
    <2> HIDE DEF act, args
    <2>3. f[1] = Deny(pol, {}, {"kernel"}, {"security"}, {"load_policy"})
      <3>1. \A a : Perform(pol, "deny", a) = Deny(pol, a[1], a[2], a[3], a[4])
        BY DEF Perform
      <3> QED BY <2>1, <2>2, <3>1
    <2> QED BY <2>3, FirstRuleStrips
  <1>5. Closed(f[2]) /\ PROC \in TypeNames(f[2])
    <2>1. f[2] = Perform(f[1], act(2), args(2))
      BY <1>1, <1>2
    <2>2. act(2) = "type" /\ args(2) = <<{PROC}, {"domain"}>>
      BY RulesAreMild DEF type_, Rule
    <2> HIDE DEF act, args
    <2>3. The({PROC}) = PROC
      BY DEF The
    <2>4. f[2] = AddTypeAttribute(AddType(f[1], PROC), {PROC}, {"domain"})
      BY <2>1, <2>2, <2>3 DEF Perform
    <2>5. Closed(AddType(f[1], PROC)) /\ PROC \in TypeNames(AddType(f[1], PROC))
      <3>1. PROC \notin f[1].attrs
        BY <1>4 DEF Closed, OwnAttributes
      <3>2. PROC \in TypeNames(f[1]) => PROC \in TypeNames(AddType(f[1], PROC))
        BY <1>4, TypesKept
      <3>3. PROC \notin TypeNames(f[1]) => PROC \in TypeNames(AddType(f[1], PROC))
        BY <1>4, <3>1 DEF AddType, TypeNames, Closed, IsPolicy
      <3> QED BY <1>4, <3>2, <3>3, TypesKept
    <2> QED BY <2>4, <2>5, TypesKept
  <1>6. \A i \in 2..n : Closed(f[i]) /\ PROC \in TypeNames(f[i])
    <2> DEFINE T == {i \in 0..n : i >= 2 => Closed(f[i]) /\ PROC \in TypeNames(f[i])}
    <2> HIDE DEF act, args, n
    <2>1. 0 \in T
      BY <1>2
    <2>2. ASSUME NEW i \in T, i \in 0..n /\ i < n
          PROVE  i + 1 \in T
      <3>1. CASE i = 0
        BY <1>2, <3>1
      <3>2. CASE i = 1
        BY <1>2, <1>5, <3>2
      <3>3. CASE i >= 2
        <4>1. Closed(f[i]) /\ PROC \in TypeNames(f[i])
          BY <3>3
        <4>2. i + 1 \in 2..n /\ i + 1 \in 1..n /\ (i + 1) - 1 = i
          BY <1>2, <2>2, <3>3
        <4>3. f[i + 1] = Perform(f[i], act(i + 1), args(i + 1))
          BY <1>1, <4>2
        <4>4. act(i + 1) \in Actions /\ Mild(act(i + 1), args(i + 1))
          BY <1>3, <4>2
        <4>5. Closed(f[i + 1]) /\ PROC \in TypeNames(f[i + 1])
          BY <4>1, <4>3, <4>4, PerformKeeps
        <4> QED BY <1>2, <4>2, <4>5
      <3> QED BY <1>2, <2>2, <3>1, <3>2, <3>3
    <2>3. 0..n \subseteq T
      <3>1. \A i \in T : i \in 0..n /\ i < n => i + 1 \in T
        BY <2>2
      <3> HIDE DEF T
      <3> QED BY <1>2, <2>1, <3>1, Numbers
    <2> QED BY <1>2, <2>3
  <1> QED BY <1>1, <1>2, <1>6

-----------------------------------------------------------------------------
(* magiskpolicy, from the stock policy to the one it writes *)

\* Up to Magisk's rules the policy is the device's; from there on it is closed
\* unless a statement asked for more.
PolicyInv ==
    /\ spAsked \in BOOLEAN
    /\ spOpt = [o \in {"load", "print", "magisk", "files", "stmts", "live", "save"} |-> spOpt[o]]
    /\ spStep \in {"load", "print", "magisk"} => spPol \in Policies
    /\ spOpt.magisk /\ spStep \in {"apply", "statements", "save", "done"} /\ ~spAsked =>
          Closed(spPol) /\ PROC \in TypeNames(spPol)

\* A statement that does not ask for it leaves the policy closed.
LEMMA StatementKeeps ==
    ASSUME NEW pol, Closed(pol), PROC \in TypeNames(pol), NEW ts, ~AsksForLoad(ts)
    PROVE  Closed(ExecStatement(pol, ts)) /\ PROC \in TypeNames(ExecStatement(pol, ts))
  <1>1. CASE ~WellFormed(ts)
    BY <1>1 DEF ExecStatement
  <1>2. CASE WellFormed(ts)
    <2>1. ActionOf(ts) \in Actions /\ Mild(ActionOf(ts), Arguments(ts).v)
      BY <1>2 DEF WellFormed, AsksForLoad, Mild
    <2>2. ExecStatement(pol, ts) = Perform(pol, ActionOf(ts), Arguments(ts).v)
      BY <1>2 DEF ExecStatement
    <2> QED BY <2>1, <2>2, PerformKeeps
  <1> QED BY <1>1, <1>2

\* Every step of main() keeps the invariant.
LEMMA NextPolicyInv == PolicyInv /\ [NextSepol]_sepolVars => PolicyInv'
  <1> SUFFICES ASSUME PolicyInv, [NextSepol]_sepolVars
               PROVE  PolicyInv'
    OBVIOUS
  <1> USE DEF PolicyInv
  <1>1. CASE Load
    BY <1>1 DEF Load, Step
  <1>2. CASE PrintRules
    BY <1>2 DEF PrintRules, Step
  <1>3. CASE MagiskRulesStep
    <2>1. /\ spStep = "magisk" /\ spStep' = "apply" /\ UNCHANGED <<spOpt, spAsked>>
          /\ spOpt.magisk => spPol' = PatchWithMagiskRules(spPol)
      BY <1>3 DEF MagiskRulesStep, Step
    <2>2. Closed(PatchWithMagiskRules(spPol)) /\ PROC \in TypeNames(PatchWithMagiskRules(spPol))
      BY <2>1, PatchedIsClosed
    <2> QED BY <2>1, <2>2
  <1>4. CASE NextFile
    BY <1>4 DEF NextFile
  <1>5. CASE FilesDone
    BY <1>5 DEF FilesDone, Step
  <1>6. CASE ParseStatement
    <2>1. /\ spStep \in {"apply", "statements"} /\ UNCHANGED <<spStep, spOpt>>
          /\ spPol' = ExecStatement(spPol, Head(spTodo))
          /\ spAsked' = (spAsked \/ AsksForLoad(Head(spTodo)))
      BY <1>6 DEF ParseStatement
    <2>2. spAsked' \in BOOLEAN
      BY <2>1
    <2>3. ASSUME spOpt.magisk, ~spAsked'
          PROVE  (Closed(spPol) /\ PROC \in TypeNames(spPol))'
      <3>1. ~spAsked /\ ~AsksForLoad(Head(spTodo))
        BY <2>1, <2>3
      <3>2. Closed(spPol) /\ PROC \in TypeNames(spPol)
        BY <2>1, <2>3, <3>1
      <3> QED BY <2>1, <3>1, <3>2, StatementKeeps
    <2> QED BY <2>1, <2>2, <2>3
  <1>7. CASE LoadIntoKernel
    BY <1>7 DEF LoadIntoKernel, Step
  <1>8. CASE SaveFile
    BY <1>8 DEF SaveFile, Step
  <1>9. CASE UNCHANGED sepolVars
    BY <1>9 DEF sepolVars
  <1> QED BY <1>1, <1>2, <1>3, <1>4, <1>5, <1>6, <1>7, <1>8, <1>9 DEF NextSepol

\* The policy is the device's or a closed one until a statement asks for more.
THEOREM PolicyInvariance == SpecSepol => []PolicyInv
  <1>1. InitSepol => PolicyInv
    BY CommandLines DEF InitSepol, PolicyInv
  <1> QED BY <1>1, NextPolicyInv, PTL DEF SpecSepol

\* Once Magisk's rules are in, no other domain can load a policy, whatever statements
\* follow, unless one of them asks for it (rules.rs, "Prevent anything to change
\* sepolicy except ourselves"), for any stock policy and command line.
THEOREM OnlyMagiskLoadsCorrect == SpecSepol => []OnlyMagiskLoadsPolicy
  <1>1. PolicyInv => OnlyMagiskLoadsPolicy
    BY DEF PolicyInv, OnlyMagiskLoadsPolicy, Closed, OwnAttributes, LoadRulesOfMagisk, Allowed, Having, TypeNames
  <1> QED BY <1>1, PolicyInvariance, PTL

-----------------------------------------------------------------------------
(* The blocks of an archive *)

Items == [word : Nat] \cup [block : Seq(Byte)]
IsBlock(x) == ~IsWord(x)

\* Words and blocks are told apart, and carry what they were made of.
LEMMA ItemFacts ==
    /\ \A n \in Nat : Word(n) \in Items /\ IsWord(Word(n)) /\ Word(n).word = n /\ DataOf(Word(n)) = <<>>
    /\ \A d \in Seq(Byte) : /\ Block(d) \in Items /\ IsBlock(Block(d))
                            /\ Block(d).block = d /\ DataOf(Block(d)) = d
    /\ \A x \in Items : /\ DataOf(x) \in Seq(Byte)
                        /\ IsWord(x) => x.word \in Nat /\ DataOf(x) = <<>>
                        /\ IsBlock(x) => x.block \in Seq(Byte) /\ DataOf(x) = x.block
    /\ MAGIC \in Items /\ IsWord(MAGIC) /\ MAGIC.word = LZ4_MAGIC
  <1>1. LZ4_MAGIC \in Nat
    BY CompressSizes
  <1>2. \A n \in Nat : Word(n) \in Items /\ IsWord(Word(n)) /\ Word(n).word = n /\ DataOf(Word(n)) = <<>>
    BY DEF Word, Items, IsWord, DataOf
  <1>3. \A d \in Seq(Byte) : /\ Block(d) \in Items /\ IsBlock(Block(d))
                             /\ Block(d).block = d /\ DataOf(Block(d)) = d
    BY DEF Block, Items, IsWord, IsBlock, DataOf
  <1>4. ASSUME NEW x \in Items
        PROVE  /\ DataOf(x) \in Seq(Byte)
               /\ IsWord(x) => x.word \in Nat /\ DataOf(x) = <<>>
               /\ IsBlock(x) => x.block \in Seq(Byte) /\ DataOf(x) = x.block
    BY DEF Items, IsWord, IsBlock, DataOf
  <1> QED BY <1>1, <1>2, <1>3, <1>4 DEF MAGIC

\* The recursive function is there and is what its definition says.
LEMMA BlocksToDef ==
    ASSUME NEW a \in Seq(Items)
    PROVE  /\ BlocksTo(a) \in [0..Len(a) -> Seq(Byte)]
           /\ BlocksTo(a)[0] = <<>>
           /\ \A i \in 1..Len(a) : BlocksTo(a)[i] = BlocksTo(a)[i - 1] \o DataOf(a[i])
  <1> DEFINE Q == Seq(Byte)
             F == [i \in 1..Len(a) |-> [q \in Q |-> q \o DataOf(a[i])]]
             Body(h) == [i \in 0..Len(a) |-> IF i = 0 THEN <<>> ELSE h[i - 1] \o DataOf(a[i])]
             J == BlocksTo(a)
  <1>1. Len(a) \in Nat /\ <<>> \in Q
    OBVIOUS
  <1>2. \A i \in 1..Len(a) : DataOf(a[i]) \in Q
    BY ItemFacts
  <1>3. F \in [1..Len(a) -> [Q -> Q]]
    BY <1>2
  <1>4. PICK f \in [0..Len(a) -> Q] : f[0] = <<>> /\ \A i \in 1..Len(a) : f[i] = F[i][f[i - 1]]
    <2> DEFINE n == Len(a)
               base == <<>>
    <2>1. n \in Nat /\ base \in Q /\ StepsOn(F, n, Q)
      BY <1>1, <1>3 DEF StepsOn
    <2> HIDE DEF F, Q, n, base
    <2>2. \E f : IsFold(f, F, n, Q, base)
      BY <2>1, FoldExists
    <2> QED BY <2>2 DEF n, base, IsFold
  <1>5. \A i \in 1..Len(a) : f[i] = f[i - 1] \o DataOf(a[i])
    <2>1. \A i \in 1..Len(a) : i - 1 \in 0..Len(a)
      BY <1>1
    <2> QED BY <1>4, <2>1
  <1>6. f = Body(f)
    <2>1. f = [i \in 0..Len(a) |-> f[i]]
      BY <1>4
    <2>2. \A i \in 0..Len(a) : f[i] = IF i = 0 THEN <<>> ELSE f[i - 1] \o DataOf(a[i])
      BY <1>1, <1>4, <1>5
    <2> QED BY <2>1, <2>2
  <1>7. J = Body(J)
    <2>1. J = CHOOSE h : h = Body(h)
      BY DEF BlocksTo
    <2> HIDE DEF Body, J
    <2>2. (CHOOSE h : h = Body(h)) = Body(CHOOSE h : h = Body(h))
      BY <1>6, Zenon
    <2> QED BY <2>1, <2>2, Zenon
  <1>8. J[0] = <<>> /\ \A i \in 1..Len(a) : J[i] = J[i - 1] \o DataOf(a[i])
    <2> HIDE DEF J
    <2> QED BY <1>1, <1>7, SMTT(30)
  <1>9. \A i \in 0..Len(a) : J[i] \in Q
    <2> HIDE DEF J
    <2>1. ASSUME NEW i \in 1..Len(a), J[i - 1] \in Q
          PROVE  J[i] \in Q
      <3>1. \A p, q \in Q : p \o q \in Q
        OBVIOUS
      <3> HIDE DEF Q
      <3> QED BY <1>2, <1>8, <2>1, <3>1
    <2>2. J[0] \in Q
      BY <1>1, <1>8
    <2> HIDE DEF Q
    <2> QED BY <1>1, <2>1, <2>2, FoldKeeps
  <1>10. J = [i \in 0..Len(a) |-> J[i]]
    <2> HIDE DEF J
    <2> QED BY <1>7
  <1> QED BY <1>8, <1>9, <1>10

\* What an archive holds up to an item does not depend on the items behind it.
LEMMA BlocksToLonger ==
    ASSUME NEW a \in Seq(Items), NEW x \in Items
    PROVE  /\ Append(a, x) \in Seq(Items) /\ Len(Append(a, x)) = Len(a) + 1
           /\ \A i \in 0..Len(a) : BlocksTo(Append(a, x))[i] = BlocksTo(a)[i]
           /\ BlocksOf(Append(a, x)) = BlocksOf(a) \o DataOf(x)
           /\ BlocksOf(a) \in Seq(Byte)
  <1> DEFINE b == Append(a, x)
             n == Len(a)
  <1>1. /\ b \in Seq(Items) /\ Len(b) = n + 1 /\ n \in Nat
        /\ b[n + 1] = x /\ \A i \in 1..n : b[i] = a[i]
    OBVIOUS
  <1>2. /\ BlocksTo(a)[0] = <<>> /\ BlocksTo(a) \in [0..n -> Seq(Byte)]
        /\ \A i \in 1..n : BlocksTo(a)[i] = BlocksTo(a)[i - 1] \o DataOf(a[i])
    BY BlocksToDef
  <1> HIDE DEF b
  <1>3. /\ BlocksTo(b)[0] = <<>>
        /\ \A i \in 1..(n + 1) : BlocksTo(b)[i] = BlocksTo(b)[i - 1] \o DataOf(b[i])
    BY <1>1, BlocksToDef
  <1> HIDE DEF n
  <1>4. \A i \in 0..n : BlocksTo(b)[i] = BlocksTo(a)[i]
    <2> DEFINE T == {i \in 0..n : BlocksTo(b)[i] = BlocksTo(a)[i]}
    <2>1. 0 \in T
      BY <1>1, <1>2, <1>3, SMTT(30)
    <2>2. ASSUME NEW i \in T, i \in 0..n /\ i < n
          PROVE  i + 1 \in T
      <3>1. i + 1 \in 1..n /\ i + 1 \in 1..(n + 1) /\ (i + 1) - 1 = i /\ i + 1 \in 0..n
        BY <1>1, <2>2
      <3>2. BlocksTo(b)[i + 1] = BlocksTo(b)[i] \o DataOf(b[i + 1])
        BY <1>3, <3>1
      <3>3. BlocksTo(a)[i + 1] = BlocksTo(a)[i] \o DataOf(a[i + 1])
        BY <1>2, <3>1
      <3>4. b[i + 1] = a[i + 1] /\ BlocksTo(b)[i] = BlocksTo(a)[i]
        BY <1>1, <3>1
      <3> QED BY <3>1, <3>2, <3>3, <3>4
    <2>3. 0..n \subseteq T
      <3>1. \A i \in T : i \in 0..n /\ i < n => i + 1 \in T
        BY <2>2
      <3> HIDE DEF T
      <3> QED BY <1>1, <2>1, <3>1, Numbers
    <2> QED BY <2>3
  <1>5. BlocksOf(b) = BlocksOf(a) \o DataOf(x)
    <2>1. n + 1 \in 1..(n + 1) /\ (n + 1) - 1 = n /\ n \in 0..n
      BY <1>1
    <2>2. BlocksTo(b)[n + 1] = BlocksTo(b)[n] \o DataOf(x)
      BY <1>1, <1>3, <2>1
    <2>3. BlocksTo(b)[n] = BlocksTo(a)[n]
      BY <1>4, <2>1
    <2> QED BY <1>1, <2>2, <2>3 DEF BlocksOf, n
  <1>6. BlocksOf(a) \in Seq(Byte)
    BY <1>1, <1>2 DEF BlocksOf, n
  <1> QED BY <1>1, <1>4, <1>5, <1>6 DEF b, n

\* A block is added with its size before it.
LEMMA EncodeBlock ==
    ASSUME NEW a \in Seq(Items), NEW d \in Seq(Byte)
    PROVE  /\ d = <<>> => encode_block(a, d) = a
           /\ d # <<>> => encode_block(a, d) = Append(Append(a, Word(Len(d))), Block(d))
           /\ encode_block(a, d) \in Seq(Items)
           /\ BlocksOf(encode_block(a, d)) = BlocksOf(a) \o d
  <1>1. Word(Len(d)) \in Items /\ DataOf(Word(Len(d))) = <<>> /\ Block(d) \in Items /\ DataOf(Block(d)) = d
    BY ItemFacts
  <1> DEFINE w == Word(Len(d))
             k == Block(d)
             aw == Append(a, w)
  <1>2. BlocksOf(a) \in Seq(Byte)
    BY <1>1, BlocksToLonger
  <1>3. CASE d = <<>>
    <2>1. encode_block(a, d) = a
      BY <1>3 DEF encode_block
    <2>2. BlocksOf(a) \o <<>> = BlocksOf(a)
      BY <1>2, ConcatEmptySeq
    <2> QED BY <1>3, <2>1, <2>2
  <1>4. CASE d # <<>>
    <2>1. \A p, q \in Items : a \o <<p, q>> = Append(Append(a, p), q)
      OBVIOUS
    <2>2. encode_block(a, d) = Append(aw, k)
      BY <1>1, <1>4, <2>1 DEF encode_block
    <2>3. aw \in Seq(Items) /\ BlocksOf(aw) = BlocksOf(a) \o <<>>
      BY <1>1, BlocksToLonger
    <2>4. BlocksOf(aw) = BlocksOf(a)
      BY <1>2, <2>3, ConcatEmptySeq
    <2> HIDE DEF aw
    <2>5. Append(aw, k) \in Seq(Items) /\ BlocksOf(Append(aw, k)) = BlocksOf(aw) \o d
      BY <1>1, <2>3, BlocksToLonger
    <2> QED BY <1>4, <2>2, <2>4, <2>5 DEF aw
  <1> QED BY <1>3, <1>4

-----------------------------------------------------------------------------
(* Compressing and decompressing *)

LastItem(a) == a[Len(a)]

\* A block has its size before it, and no block is longer than a chunk.
Sized(a) ==
    \A i \in 1..Len(a) : IsBlock(a[i]) =>
        i > 1 /\ a[i - 1] = Word(Len(a[i].block)) /\ Len(a[i].block) \in 1..BLOCK_SIZE

\* Behind a magic there is a size, behind any other word its block.
Ordered(a) ==
    \A i \in 1..(Len(a) - 1) : IsWord(a[i]) =>
        IF a[i] = MAGIC THEN IsWord(a[i + 1]) /\ a[i + 1] # MAGIC ELSE IsBlock(a[i + 1])

\* A word may follow.
BetweenBlocks(a) == a = <<>> \/ IsBlock(LastItem(a))
MagicLast(a) == a # <<>> /\ LastItem(a) = MAGIC

\* A word, a magic or the total, between two blocks keeps the archive in order.
LEMMA WordAdded ==
    ASSUME NEW a \in Seq(Items), Sized(a), Ordered(a), BetweenBlocks(a),
           NEW w \in Items, IsWord(w)
    PROVE  /\ Sized(Append(a, w)) /\ Ordered(Append(a, w))
           /\ Append(a, w) # <<>> /\ LastItem(Append(a, w)) = w
  <1> DEFINE b == Append(a, w)
             n == Len(a)
  <1>1. /\ Len(b) = n + 1 /\ n \in Nat /\ b # <<>>
        /\ b[n + 1] = w /\ \A i \in 1..n : b[i] = a[i]
    OBVIOUS
  <1>2. n > 0 => IsBlock(a[n])
    BY DEF BetweenBlocks, LastItem
  <1> HIDE DEF b
  <1>3. Sized(b)
    <2> SUFFICES ASSUME NEW i \in 1..(n + 1), IsBlock(b[i])
                 PROVE  i > 1 /\ b[i - 1] = Word(Len(b[i].block)) /\ Len(b[i].block) \in 1..BLOCK_SIZE
      BY <1>1 DEF Sized
    <2>1. i \in 1..n /\ b[i] = a[i]
      BY <1>1 DEF IsBlock
    <2>2. i > 1 /\ a[i - 1] = Word(Len(a[i].block)) /\ Len(a[i].block) \in 1..BLOCK_SIZE
      BY <2>1 DEF Sized
    <2>3. i - 1 \in 1..n
      BY <1>1, <2>1, <2>2
    <2> QED BY <1>1, <2>1, <2>2, <2>3
  <1>4. Ordered(b)
    <2> SUFFICES ASSUME NEW i \in 1..n, IsWord(b[i])
                 PROVE  IF b[i] = MAGIC THEN IsWord(b[i + 1]) /\ b[i + 1] # MAGIC ELSE IsBlock(b[i + 1])
      BY <1>1 DEF Ordered
    <2>1. b[i] = a[i] /\ i # n
      BY <1>1, <1>2 DEF IsBlock
    <2>2. i \in 1..(n - 1) /\ i + 1 \in 1..n
      BY <1>1, <2>1
    <2>3. b[i + 1] = a[i + 1]
      BY <1>1, <2>2
    <2> QED BY <2>1, <2>2, <2>3 DEF Ordered
  <1> QED BY <1>1, <1>3, <1>4 DEF LastItem, b

\* So does a block with its size, which a magic may have gone before.
LEMMA BlockAdded ==
    ASSUME NEW a \in Seq(Items), Sized(a), Ordered(a), BetweenBlocks(a) \/ MagicLast(a),
           NEW d \in Seq(Byte), d # <<>>, Len(d) <= BLOCK_SIZE
    PROVE  /\ Sized(encode_block(a, d)) /\ Ordered(encode_block(a, d))
           /\ BetweenBlocks(encode_block(a, d))
  <1> DEFINE b == encode_block(a, d)
             n == Len(a)
             w == Word(Len(d))
             k == Block(d)
  <1>1. /\ w \in Items /\ IsWord(w) /\ w.word = Len(d) /\ Len(d) \in 1..BLOCK_SIZE
        /\ k \in Items /\ IsBlock(k) /\ k.block = d /\ ~IsWord(k)
    <2>1. Len(d) \in Nat /\ Len(d) # 0
      BY EmptySeq
    <2> QED BY <2>1, ItemFacts, CompressSizes DEF IsBlock
  <1>2. w # MAGIC
    BY <1>1, ItemFacts, CompressSizes
  <1>3. b = Append(Append(a, w), k)
    BY EncodeBlock
  <1> HIDE DEF w, k
  <1>4. /\ n \in Nat /\ Len(b) = n + 2 /\ b # <<>>
        /\ b[n + 1] = w /\ b[n + 2] = k /\ \A i \in 1..n : b[i] = a[i]
    BY <1>1, <1>3
  <1>5. n > 0 => IsBlock(a[n]) \/ a[n] = MAGIC
    BY DEF BetweenBlocks, MagicLast, LastItem
  <1> HIDE DEF b
  <1>6. Sized(b)
    <2> SUFFICES ASSUME NEW i \in 1..(n + 2), IsBlock(b[i])
                 PROVE  i > 1 /\ b[i - 1] = Word(Len(b[i].block)) /\ Len(b[i].block) \in 1..BLOCK_SIZE
      BY <1>4 DEF Sized
    <2>1. CASE i = n + 2
      <3>1. b[i] = k /\ i - 1 = n + 1 /\ i > 1
        BY <1>4, <2>1
      <3>2. b[i - 1] = w
        BY <1>4, <3>1
      <3> QED BY <1>1, <3>1, <3>2 DEF w
    <2>2. CASE i # n + 2
      <3>1. i # n + 1
        BY <1>1, <1>4 DEF IsBlock
      <3>2. i \in 1..n /\ b[i] = a[i]
        BY <1>4, <2>2, <3>1
      <3>3. i > 1 /\ a[i - 1] = Word(Len(a[i].block)) /\ Len(a[i].block) \in 1..BLOCK_SIZE
        BY <3>2 DEF Sized
      <3>4. i - 1 \in 1..n
        BY <1>4, <3>2, <3>3
      <3> QED BY <1>4, <3>2, <3>3, <3>4
    <2> QED BY <2>1, <2>2
  <1>7. Ordered(b)
    <2> SUFFICES ASSUME NEW i \in 1..(n + 1), IsWord(b[i])
                 PROVE  IF b[i] = MAGIC THEN IsWord(b[i + 1]) /\ b[i + 1] # MAGIC ELSE IsBlock(b[i + 1])
      BY <1>4 DEF Ordered
    <2>1. CASE i = n + 1
      BY <1>1, <1>2, <1>4, <2>1
    <2>2. CASE i = n
      <3>1. b[i] = a[i] /\ a[i] = MAGIC /\ b[i + 1] = w
        BY <1>4, <1>5, <2>2 DEF IsBlock
      <3> QED BY <1>1, <1>2, <3>1
    <2>3. CASE i < n
      <3>1. i \in 1..(n - 1) /\ i \in 1..n /\ i + 1 \in 1..n
        BY <1>4, <2>3
      <3>2. b[i] = a[i] /\ b[i + 1] = a[i + 1]
        BY <1>4, <3>1
      <3> QED BY <3>1, <3>2 DEF Ordered
    <2> QED BY <1>4, <2>1, <2>2, <2>3
  <1>8. BetweenBlocks(b)
    BY <1>1, <1>4 DEF BetweenBlocks, LastItem
  <1> QED BY <1>6, <1>7, <1>8 DEF b

\* Files put together.
LEMMA ByteFacts ==
    /\ \A p, q \in Seq(Byte) : Joined(p, q) \in Seq(Byte) /\ Len(Joined(p, q)) = Len(p) + Len(q)
    /\ \A p, q, r \in Seq(Byte) : Joined(Joined(p, q), r) = Joined(p, Joined(q, r))
    /\ \A p \in Seq(Byte) : Joined(p, <<>>) = p /\ Joined(<<>>, p) = p
BY JoinedFacts

\* A sequence is its first n members and the others.
LEMMA CutInTwo ==
    ASSUME NEW q \in Seq(Byte), NEW n \in 0..Len(q)
    PROVE  /\ Prefix(q, n) \in Seq(Byte) /\ Len(Prefix(q, n)) = n
           /\ Suffix(q, n) \in Seq(Byte) /\ Len(Suffix(q, n)) = Len(q) - n
           /\ Joined(Prefix(q, n), Suffix(q, n)) = q
  <1>1. /\ SubSeq(q, 1, n) \in Seq(Byte) /\ Len(SubSeq(q, 1, n)) = n
        /\ SubSeq(q, n + 1, Len(q)) \in Seq(Byte) /\ Len(SubSeq(q, n + 1, Len(q))) = Len(q) - n
    OBVIOUS
  <1>2. SubSeq(q, 1, n) \o SubSeq(q, n + 1, Len(q)) = SubSeq(q, 1, Len(q))
    <2>1. 1 \in 1..(Len(q) + 1) /\ n \in (1 - 1)..Len(q) /\ Len(q) \in n..Len(q)
      OBVIOUS
    <2> QED BY <2>1, ConcatAdjacentSubSeq
  <1>3. SubSeq(q, 1, Len(q)) = q
    BY SubSeqFull
  <1> QED BY <1>1, <1>2, <1>3 DEF Prefix, Suffix, Joined

\* Chunker::add_data loses nothing, keeps the order and gives out full chunks only.
LEMMA AddData ==
    ASSUME NEW buf \in Seq(Byte), NEW chunk \in Seq(Byte), Len(chunk) < BLOCK_SIZE,
           NEW r, r = add_data(buf, chunk)
    PROVE  /\ r.buf \in Seq(Byte) /\ r.chunk \in Seq(Byte) /\ r.out \in Seq(Byte)
           /\ Joined(chunk, buf) = Joined(Joined(r.out, r.chunk), r.buf)
           /\ Len(r.chunk) < BLOCK_SIZE
           /\ r.out = <<>> => Len(r.chunk) + Len(r.buf) = Len(chunk) + Len(buf)
           /\ Len(r.out) <= BLOCK_SIZE
  <1> DEFINE n == Shorter(BLOCK_SIZE - Len(chunk), Len(buf))
             pre == Prefix(buf, n)
             suf == Suffix(buf, n)
             full == Joined(chunk, pre)
             none == <<>>
  <1>0. /\ none \in Seq(Byte) /\ Len(none) = 0 /\ BLOCK_SIZE \in Nat \ {0}
        /\ Len(chunk) \in Nat /\ Len(buf) \in Nat
    BY CompressSizes
  <1>1. n \in 0..Len(buf) /\ Len(chunk) + n <= BLOCK_SIZE
    BY <1>0 DEF Shorter
  <1>2. /\ pre \in Seq(Byte) /\ Len(pre) = n /\ suf \in Seq(Byte) /\ Len(suf) = Len(buf) - n
        /\ Joined(pre, suf) = buf
    <2> HIDE DEF n
    <2> QED BY <1>1, CutInTwo
  <1>3. /\ full \in Seq(Byte) /\ Len(full) = Len(chunk) + n
        /\ Joined(full, suf) = Joined(chunk, buf)
    <2> HIDE DEF n, pre, suf
    <2>1. Joined(chunk, pre) \in Seq(Byte) /\ Len(Joined(chunk, pre)) = Len(chunk) + Len(pre)
      BY <1>2, ByteFacts
    <2>2. Joined(Joined(chunk, pre), suf) = Joined(chunk, Joined(pre, suf))
      BY <1>2, ByteFacts
    <2> QED BY <1>2, <2>1, <2>2
  <1>e. \A p \in Seq(Byte) : Joined(p, none) = p /\ Joined(none, p) = p
    BY ByteFacts
  <1>c. /\ chunk # <<>> /\ Len(full) = BLOCK_SIZE =>
              r.buf = suf /\ r.chunk = none /\ r.out = full
        /\ chunk # <<>> /\ Len(full) # BLOCK_SIZE =>
              r.buf = suf /\ r.chunk = full /\ r.out = none
        /\ chunk = <<>> /\ Len(buf) >= BLOCK_SIZE =>
              r.buf = Suffix(buf, BLOCK_SIZE) /\ r.chunk = none /\ r.out = Prefix(buf, BLOCK_SIZE)
        /\ chunk = <<>> /\ ~(Len(buf) >= BLOCK_SIZE) =>
              r.buf = none /\ r.chunk = buf /\ r.out = none
    BY DEF add_data, Joined
  <1> HIDE DEF n, pre, suf, full
  <1>4. CASE chunk # <<>> /\ Len(full) = BLOCK_SIZE
    <2>1. full # none
      BY <1>0, <1>4
    <2>2. r.buf = suf /\ r.chunk = none /\ r.out = full
      BY <1>4, <1>c
    <2> HIDE DEF none
    <2>3. Joined(Joined(r.out, r.chunk), r.buf) = Joined(chunk, buf)
      BY <1>3, <1>e, <2>2
    <2>4. r.out # none /\ Len(r.chunk) < BLOCK_SIZE /\ Len(r.out) <= BLOCK_SIZE
      BY <1>0, <1>4, <2>1, <2>2
    <2> QED BY <1>0, <1>2, <1>3, <2>2, <2>3, <2>4 DEF none
  <1>5. CASE chunk # <<>> /\ Len(full) # BLOCK_SIZE
    <2>1. Len(full) < BLOCK_SIZE
      BY <1>0, <1>1, <1>3, <1>5
    <2>2. r.buf = suf /\ r.chunk = full /\ r.out = none
      BY <1>5, <1>c
    <2> HIDE DEF none
    <2>3. Joined(Joined(r.out, r.chunk), r.buf) = Joined(chunk, buf)
      BY <1>3, <1>e, <2>2
    <2>4. Len(r.chunk) + Len(r.buf) = Len(chunk) + Len(buf)
      <3>1. Len(r.chunk) = Len(chunk) + n /\ Len(r.buf) = Len(buf) - n
        BY <1>2, <1>3, <2>2
      <3>2. n \in Int
        BY <1>1
      <3> QED BY <1>0, <3>1, <3>2
    <2> QED BY <1>0, <1>2, <1>3, <2>1, <2>2, <2>3, <2>4
  <1>6. CASE chunk = <<>> /\ Len(buf) >= BLOCK_SIZE
    <2> DEFINE p == Prefix(buf, BLOCK_SIZE)
               q == Suffix(buf, BLOCK_SIZE)
    <2>1. r.buf = q /\ r.chunk = none /\ r.out = p
      BY <1>6, <1>c
    <2>2. BLOCK_SIZE \in 0..Len(buf)
      BY <1>0, <1>6
    <2>3. p \in Seq(Byte) /\ Len(p) = BLOCK_SIZE /\ q \in Seq(Byte) /\ Joined(p, q) = buf
      BY <2>2, CutInTwo
    <2> HIDE DEF none, p, q
    <2>4. Joined(Joined(r.out, r.chunk), r.buf) = Joined(chunk, buf)
      BY <1>6, <1>e, <2>1, <2>3 DEF none
    <2>5. r.out # none /\ Len(r.chunk) < BLOCK_SIZE /\ Len(r.out) <= BLOCK_SIZE
      BY <1>0, <2>1, <2>3
    <2> QED BY <1>0, <2>1, <2>3, <2>4, <2>5 DEF none
  <1>7. CASE chunk = <<>> /\ ~(Len(buf) >= BLOCK_SIZE)
    <2>1. r.buf = none /\ r.chunk = buf /\ r.out = none /\ chunk = none
      BY <1>7, <1>c
    <2>2. Len(buf) < BLOCK_SIZE
      BY <1>0, <1>7
    <2> HIDE DEF none
    <2>3. Joined(Joined(r.out, r.chunk), r.buf) = Joined(chunk, buf)
      BY <1>e, <2>1
    <2> QED BY <1>0, <2>1, <2>2, <2>3
  <1> QED BY <1>4, <1>5, <1>6, <1>7

CompressType ==
    /\ czFile \in Seq(Byte) /\ czOut \in Seq(Byte) /\ czBuf \in Seq(Byte)
    /\ czChunk \in Seq(Byte) /\ czBlock \in Seq(Byte) /\ czArchive \in Seq(Items)
    /\ czTotal \in 0..(WORD - 1) /\ czRead \in Nat /\ czLg \in BOOLEAN /\ czBeside \in BOOLEAN
    /\ czPc \in {"open", "compress", "encode", "archived", "decode", "done", "err"}

\* While the file is compressed it is still there, and what was read of it is in the
\* archive, the chunk and the buffer.
WhileCompressing ==
    czPc \in {"open", "compress", "encode"} =>
        /\ "in" \in czFiles /\ czOut = <<>>
        /\ Len(czChunk) < BLOCK_SIZE /\ czRead <= Len(czFile)
        /\ Joined(BlocksOf(czArchive), Joined(czChunk, czBuf)) = Prefix(czFile, czRead)
        /\ BetweenBlocks(czArchive) \/ MagicLast(czArchive)
        /\ czPc # "encode" => czBuf = <<>>

\* A magic with no block behind it yet was written for data that is in the chunk or
\* the buffer: a second one cannot follow at once.
MagicOnce ==
    MagicLast(czArchive) =>
        /\ czPc \in {"open", "compress"} => 0 < czTotal /\ czTotal <= Len(czChunk)
        /\ czPc = "encode" => \/ 0 < czTotal /\ czTotal <= Len(czChunk) + Len(czBuf)
                              \/ BLOCK_SIZE <= Len(czChunk) + Len(czBuf)

\* Once written the archive holds the file, and decompressing has handed out what it
\* holds up to the block at hand.
WhileDecoding ==
    /\ czPc \in {"archived", "decode"} => "archive" \in czFiles /\ BlocksOf(czArchive) = czFile
    /\ czPc = "archived" => czOut = <<>>
    /\ czPc = "decode" =>
         /\ czRead <= Len(czArchive)
         /\ czRead > 0 => IsBlock(czArchive[czRead])
         /\ BlocksTo(czArchive)[czRead] = Joined(czOut, czBlock)

CompressInv ==
    /\ CompressType /\ Sized(czArchive) /\ Ordered(czArchive)
    /\ WhileCompressing /\ MagicOnce /\ WhileDecoding /\ DataKept
    /\ czPc \in {"compress", "encode"} => "archive" \in czFiles

\* The total wraps around once at most in a read.
LEMMA TotalWraps ==
    ASSUME NEW t \in 0..(WORD - 1), NEW n \in Nat, n < WORD
    PROVE  /\ (t + n) % WORD \in 0..(WORD - 1)
           /\ t + n < WORD => (t + n) % WORD = t + n
  <1>1. WORD \in Nat /\ WORD > 0 /\ t + n \in Nat
    BY CompressSizes
  <1>2. (t + n) % WORD \in 0..(WORD - 1)
    BY <1>1
  <1>3. t + n < WORD => (t + n) % WORD = t + n
    BY <1>1
  <1> QED BY <1>2, <1>3

\* The first read of the file finds nothing lost.
LEMMA InitCompressInv == InitCompress => CompressInv
  <1> SUFFICES ASSUME InitCompress PROVE CompressInv
    OBVIOUS
  <1>1. /\ czFile \in Seq(Byte) /\ czFiles = {"in"} /\ czArchive = <<>> /\ czOut = <<>>
        /\ czLg \in BOOLEAN /\ czBeside \in BOOLEAN /\ czPc = "open" /\ czRead = 0
        /\ czBuf = <<>> /\ czChunk = <<>> /\ czTotal = 0 /\ czBlock = <<>>
    BY FilesAreBytes DEF InitCompress
  <1>2. <<>> \in Seq(Byte) /\ <<>> \in Seq(Items) /\ Len(<<>>) = 0
    OBVIOUS
  <1>3. BlocksOf(<<>>) = <<>>
    <2>1. BlocksTo(<<>>)[0] = <<>>
      BY <1>2, BlocksToDef
    <2> QED BY <1>2, <2>1 DEF BlocksOf
  <1>4. Prefix(czFile, 0) = <<>>
    BY <1>1 DEF Prefix
  <1>5. Joined(<<>>, Joined(<<>>, <<>>)) = <<>>
    BY <1>2, ByteFacts
  <1>6. CompressType
    BY <1>1, <1>2, CompressSizes DEF CompressType
  <1>7. Sized(czArchive) /\ Ordered(czArchive) /\ BetweenBlocks(czArchive) /\ ~MagicLast(czArchive)
    BY <1>1, <1>2 DEF Sized, Ordered, BetweenBlocks, MagicLast
  <1>8. WhileCompressing
    BY <1>1, <1>2, <1>3, <1>4, <1>5, <1>7, CompressSizes DEF WhileCompressing
  <1>9. MagicOnce /\ WhileDecoding /\ DataKept
    BY <1>1, <1>7 DEF MagicOnce, WhileDecoding, DataKept
  <1> QED BY <1>1, <1>6, <1>7, <1>8, <1>9 DEF CompressInv

\* One read of the file.
LEMMA CopyReadKeeps ==
    ASSUME CompressInv, CopyRead
    PROVE  CompressInv'
  <1>1. PICK n \in 1..Shorter(COPY_SIZE, Len(czFile) - czRead) :
          /\ czBuf' = SubSeq(czFile, czRead + 1, czRead + n) /\ czRead' = czRead + n
          /\ czTotal' = (czTotal + n) % WORD
    BY DEF CopyRead
  <1>2. /\ czPc = "compress" /\ czPc' = "encode" /\ czRead < Len(czFile)
        /\ czArchive' = IF czTotal = 0 THEN Append(czArchive, MAGIC) ELSE czArchive
        /\ UNCHANGED <<czFile, czFiles, czOut, czLg, czBeside, czChunk, czBlock>>
    BY DEF CopyRead
  <1>3. /\ CompressType /\ Sized(czArchive) /\ Ordered(czArchive) /\ "in" \in czFiles
        /\ "archive" \in czFiles /\ czOut = <<>> /\ Len(czChunk) < BLOCK_SIZE /\ czBuf = <<>>
        /\ Joined(BlocksOf(czArchive), Joined(czChunk, czBuf)) = Prefix(czFile, czRead)
        /\ BetweenBlocks(czArchive) \/ MagicLast(czArchive)
        /\ MagicLast(czArchive) => 0 < czTotal /\ czTotal <= Len(czChunk)
    BY <1>2 DEF CompressInv, WhileCompressing, MagicOnce
  <1>4. /\ czFile \in Seq(Byte) /\ czChunk \in Seq(Byte) /\ czArchive \in Seq(Items)
        /\ czTotal \in 0..(WORD - 1) /\ czRead \in Nat /\ Len(czFile) \in Nat /\ Len(czChunk) \in Nat
    BY <1>3 DEF CompressType
  <1>5. n \in Nat /\ n > 0 /\ n <= COPY_SIZE /\ czRead + n <= Len(czFile) /\ n < WORD
    BY <1>2, <1>4, CompressSizes DEF Shorter
  <1>6. czBuf' \in Seq(Byte) /\ Len(czBuf') = n
    BY <1>1, <1>4, <1>5
  <1>7. /\ czTotal' \in 0..(WORD - 1)
        /\ czTotal + n < WORD => czTotal' = czTotal + n
    BY <1>1, <1>4, <1>5, TotalWraps
  <1>8. /\ czArchive' \in Seq(Items) /\ Sized(czArchive') /\ Ordered(czArchive')
        /\ BlocksOf(czArchive') = BlocksOf(czArchive) /\ BlocksOf(czArchive) \in Seq(Byte)
        /\ BetweenBlocks(czArchive') \/ MagicLast(czArchive')
    <2>1. MAGIC \in Items /\ IsWord(MAGIC) /\ DataOf(MAGIC) = <<>>
      BY ItemFacts
    <2>2. BlocksOf(czArchive) \in Seq(Byte)
      BY <1>4, <2>1, BlocksToLonger
    <2>3. CASE czTotal # 0
      BY <1>2, <1>3, <1>4, <2>2, <2>3
    <2>4. CASE czTotal = 0
      <3>1. czArchive' = Append(czArchive, MAGIC) /\ BetweenBlocks(czArchive)
        BY <1>2, <1>3, <2>4
      <3>2. /\ Sized(czArchive') /\ Ordered(czArchive') /\ MagicLast(czArchive')
        BY <1>3, <1>4, <2>1, <3>1, WordAdded DEF MagicLast
      <3>3. czArchive' \in Seq(Items) /\ BlocksOf(czArchive') = BlocksOf(czArchive) \o <<>>
        BY <1>4, <2>1, <3>1, BlocksToLonger
      <3>4. BlocksOf(czArchive') = BlocksOf(czArchive)
        BY <2>2, <3>3, ConcatEmptySeq
      <3> QED BY <2>2, <3>2, <3>3, <3>4
    <2> QED BY <2>3, <2>4
  <1>9. Joined(BlocksOf(czArchive'), Joined(czChunk', czBuf')) = Prefix(czFile', czRead')
    <2> DEFINE b == BlocksOf(czArchive)
               c == czChunk
               m == czBuf'
    <2>1. Joined(b, c) = Prefix(czFile, czRead)
      BY <1>3, <1>4, ByteFacts
    <2>2. Prefix(czFile, czRead) \o m = Prefix(czFile, czRead + n)
      <3>1. /\ 1 \in 1..(Len(czFile) + 1) /\ czRead \in (1 - 1)..Len(czFile)
            /\ czRead + n \in czRead..Len(czFile)
        BY <1>4, <1>5
      <3>2. SubSeq(czFile, 1, czRead) \o SubSeq(czFile, czRead + 1, czRead + n) = SubSeq(czFile, 1, czRead + n)
        BY <1>4, <3>1, ConcatAdjacentSubSeq
      <3> QED BY <1>1, <3>2 DEF Prefix
    <2>3. Joined(Joined(b, c), m) = Joined(b, Joined(c, m))
      BY <1>4, <1>6, <1>8, ByteFacts, SMTT(30)
    <2>4. Joined(Prefix(czFile, czRead), m) = Prefix(czFile, czRead + n)
      BY <2>2 DEF Joined
    <2>5. BlocksOf(czArchive') = b /\ czChunk' = c /\ czFile' = czFile /\ czRead' = czRead + n
      BY <1>1, <1>2, <1>8
    <2> HIDE DEF b, c, m
    <2>6. Joined(b, Joined(c, m)) = Prefix(czFile, czRead + n)
      BY <2>1, <2>3, <2>4
    <2> QED BY <2>5, <2>6 DEF m
  <1>10. MagicLast(czArchive') => \/ 0 < czTotal' /\ czTotal' <= Len(czChunk') + Len(czBuf')
                                  \/ BLOCK_SIZE <= Len(czChunk') + Len(czBuf')
    <2>1. czChunk' = czChunk
      BY <1>2
    <2>2. CASE czTotal = 0
      BY <1>4, <1>5, <1>6, <1>7, <2>1, <2>2
    <2>3. CASE czTotal # 0 /\ czTotal + n < WORD
      BY <1>2, <1>3, <1>4, <1>5, <1>6, <1>7, <2>1, <2>3
    <2>4. CASE czTotal # 0 /\ ~(czTotal + n < WORD)
      BY <1>2, <1>3, <1>4, <1>5, <1>6, <2>1, <2>4, CompressSizes
    <2> QED BY <2>2, <2>3, <2>4
  <1>11. CompressType'
    BY <1>1, <1>2, <1>3, <1>4, <1>5, <1>6, <1>7, <1>8 DEF CompressType
  <1>12. WhileCompressing'
    BY <1>1, <1>2, <1>3, <1>5, <1>8, <1>9 DEF WhileCompressing
  <1>13. MagicOnce' /\ WhileDecoding' /\ DataKept'
    BY <1>2, <1>3, <1>10 DEF MagicOnce, WhileDecoding, DataKept
  <1> QED BY <1>2, <1>3, <1>8, <1>11, <1>12, <1>13 DEF CompressInv

\* One turn of the loop of write_all.
LEMMA WriteAllKeeps ==
    ASSUME CompressInv, WriteAll
    PROVE  CompressInv'
  <1>1. /\ czPc = "encode"
        /\ UNCHANGED <<czFile, czFiles, czOut, czLg, czBeside, czRead, czTotal, czBlock>>
    BY DEF WriteAll
  <1>2. /\ CompressType /\ Sized(czArchive) /\ Ordered(czArchive) /\ "in" \in czFiles
        /\ "archive" \in czFiles /\ czOut = <<>> /\ Len(czChunk) < BLOCK_SIZE
        /\ czRead <= Len(czFile)
        /\ Joined(BlocksOf(czArchive), Joined(czChunk, czBuf)) = Prefix(czFile, czRead)
        /\ BetweenBlocks(czArchive) \/ MagicLast(czArchive)
        /\ MagicLast(czArchive) => \/ 0 < czTotal /\ czTotal <= Len(czChunk) + Len(czBuf)
                                   \/ BLOCK_SIZE <= Len(czChunk) + Len(czBuf)
    BY <1>1 DEF CompressInv, WhileCompressing, MagicOnce
  <1>3. /\ czFile \in Seq(Byte) /\ czChunk \in Seq(Byte) /\ czBuf \in Seq(Byte)
        /\ czArchive \in Seq(Items) /\ czTotal \in 0..(WORD - 1) /\ Len(czChunk) \in Nat
    BY <1>2 DEF CompressType
  <1>4. CASE czBuf = <<>>
    <2>1. czPc' = "compress" /\ UNCHANGED <<czBuf, czChunk, czArchive>>
      BY <1>4 DEF WriteAll
    <2>2. CompressType'
      BY <1>1, <1>2, <2>1 DEF CompressType
    <2>3. WhileCompressing' /\ WhileDecoding' /\ DataKept'
      BY <1>1, <1>2, <1>4, <2>1 DEF WhileCompressing, WhileDecoding, DataKept
    <2>4. MagicLast(czArchive) => 0 < czTotal /\ czTotal <= Len(czChunk)
      <3>1. Len(czBuf) = 0
        BY <1>4
      <3>2. BLOCK_SIZE \in Nat
        BY CompressSizes
      <3> QED BY <1>2, <1>3, <3>1, <3>2
    <2>5. MagicOnce'
      BY <2>1, <2>4, <1>1 DEF MagicOnce
    <2> QED BY <1>1, <1>2, <2>1, <2>2, <2>3, <2>5 DEF CompressInv
  <1>5. CASE czBuf # <<>>
    <2> DEFINE r == add_data(czBuf, czChunk)
    <2>1. /\ czBuf' = r.buf /\ czChunk' = r.chunk /\ czPc' = "encode"
          /\ czArchive' = encode_block(czArchive, r.out)
      BY <1>1, <1>5 DEF WriteAll
    <2>2. /\ r.buf \in Seq(Byte) /\ r.chunk \in Seq(Byte) /\ r.out \in Seq(Byte)
          /\ Joined(czChunk, czBuf) = Joined(Joined(r.out, r.chunk), r.buf)
          /\ Len(r.chunk) < BLOCK_SIZE
          /\ r.out = <<>> => Len(r.chunk) + Len(r.buf) = Len(czChunk) + Len(czBuf)
          /\ Len(r.out) <= BLOCK_SIZE
      BY <1>2, <1>3, AddData
    <2> HIDE DEF r
    <2>3. /\ czArchive' \in Seq(Items) /\ BlocksOf(czArchive') = Joined(BlocksOf(czArchive), r.out)
          /\ r.out = <<>> => czArchive' = czArchive
      BY <1>3, <2>1, <2>2, EncodeBlock DEF Joined
    <2>4. BlocksOf(czArchive) \in Seq(Byte)
      BY <1>3, BlocksToLonger, ItemFacts
    <2>5. Joined(BlocksOf(czArchive'), Joined(czChunk', czBuf')) = Prefix(czFile, czRead)
      <3> DEFINE b == BlocksOf(czArchive)
      <3>0. Joined(r.chunk, r.buf) \in Seq(Byte) /\ b \in Seq(Byte) /\ r.out \in Seq(Byte)
        BY <2>2, <2>4, ByteFacts
      <3>1. Joined(Joined(b, r.out), Joined(r.chunk, r.buf)) = Joined(b, Joined(r.out, Joined(r.chunk, r.buf)))
        <4> HIDE DEF b
        <4>1. \A x, y, z \in Seq(Byte) : Joined(Joined(x, y), z) = Joined(x, Joined(y, z))
          BY ByteFacts
        <4> QED BY <3>0, <4>1, Zenon
      <3>2. Joined(r.out, Joined(r.chunk, r.buf)) = Joined(czChunk, czBuf)
        BY <2>2, ByteFacts
      <3> QED BY <1>2, <2>1, <2>3, <3>1, <3>2
    <2>6. /\ Sized(czArchive') /\ Ordered(czArchive')
          /\ BetweenBlocks(czArchive') \/ (r.out = <<>> /\ MagicLast(czArchive))
      <3>1. CASE r.out = <<>>
        BY <1>2, <2>3, <3>1
      <3>2. CASE r.out # <<>>
        BY <1>2, <1>3, <2>1, <2>2, <3>2, BlockAdded
      <3> QED BY <3>1, <3>2
    <2>7. r.out = <<>> /\ MagicLast(czArchive) => MagicLast(czArchive')
      BY <2>3
    <2>8. MagicOnce'
      <3>1. BetweenBlocks(czArchive') => ~MagicLast(czArchive')
        BY <2>3, ItemFacts DEF BetweenBlocks, MagicLast, IsBlock
      <3>2. MagicLast(czArchive') => /\ r.out = <<>> /\ MagicLast(czArchive)
                                     /\ Len(czChunk') + Len(czBuf') = Len(czChunk) + Len(czBuf)
        BY <2>1, <2>2, <2>6, <3>1
      <3>3. MagicLast(czArchive') => \/ 0 < czTotal /\ czTotal <= Len(czChunk') + Len(czBuf')
                                     \/ BLOCK_SIZE <= Len(czChunk') + Len(czBuf')
        BY <1>2, <3>2
      <3> QED BY <1>1, <2>1, <3>3 DEF MagicOnce
    <2>9. CompressType'
      BY <1>1, <1>2, <2>1, <2>2, <2>3 DEF CompressType
    <2>10. WhileCompressing'
      BY <1>1, <1>2, <2>1, <2>2, <2>5, <2>6, <2>7 DEF WhileCompressing
    <2>11. WhileDecoding' /\ DataKept'
      BY <1>1, <1>2, <2>1 DEF WhileDecoding, DataKept
    <2> QED BY <1>1, <1>2, <2>6, <2>8, <2>9, <2>10, <2>11 DEF CompressInv
  <1> QED BY <1>4, <1>5

\* The last chunk and the total are written: the archive holds the whole file.
LEMMA FinishKeeps ==
    ASSUME CompressInv, FinishCompress
    PROVE  CompressInv'
  <1> DEFINE blocks == encode_block(czArchive, czChunk)
  <1>1. /\ czPc = "compress" /\ czPc' = "archived" /\ czRead = Len(czFile) /\ czChunk' = <<>>
        /\ czArchive' = IF czLg THEN Append(blocks, Word(czTotal)) ELSE blocks
        /\ czFiles' = IF czBeside THEN {"archive"} ELSE czFiles
        /\ UNCHANGED <<czFile, czOut, czLg, czBeside, czRead, czBuf, czTotal, czBlock>>
    BY DEF FinishCompress
  <1>2. /\ CompressType /\ Sized(czArchive) /\ Ordered(czArchive)
        /\ "archive" \in czFiles /\ czOut = <<>> /\ Len(czChunk) < BLOCK_SIZE /\ czBuf = <<>>
        /\ Joined(BlocksOf(czArchive), Joined(czChunk, czBuf)) = Prefix(czFile, czRead)
        /\ BetweenBlocks(czArchive) \/ MagicLast(czArchive)
        /\ MagicLast(czArchive) => 0 < czTotal /\ czTotal <= Len(czChunk)
    BY <1>1 DEF CompressInv, WhileCompressing, MagicOnce
  <1>3. /\ czFile \in Seq(Byte) /\ czChunk \in Seq(Byte) /\ czArchive \in Seq(Items)
        /\ czTotal \in Nat /\ Len(czChunk) \in Nat /\ BLOCK_SIZE \in Nat
    BY <1>2, CompressSizes DEF CompressType
  <1>4. BlocksOf(czArchive) \in Seq(Byte)
    BY <1>3, BlocksToLonger, ItemFacts
  <1>5. /\ blocks \in Seq(Items) /\ BlocksOf(blocks) = Joined(BlocksOf(czArchive), czChunk)
    BY <1>3, EncodeBlock DEF Joined
  <1>6. BlocksOf(blocks) = czFile
    <2>1. Joined(czChunk, czBuf) = czChunk
      BY <1>2, <1>3, ByteFacts
    <2>2. Prefix(czFile, Len(czFile)) = czFile
      BY <1>3, SubSeqFull DEF Prefix
    <2> HIDE DEF blocks
    <2> QED BY <1>1, <1>2, <1>5, <2>1, <2>2
  <1>7. Sized(blocks) /\ Ordered(blocks) /\ BetweenBlocks(blocks)
    <2>1. CASE czChunk = <<>>
      <3>1. blocks = czArchive
        BY <1>3, <2>1, EncodeBlock
      <3>2. Len(czChunk) = 0
        BY <2>1
      <3>3. ~MagicLast(czArchive)
        BY <1>2, <1>3, <3>2
      <3> HIDE DEF blocks
      <3> QED BY <1>2, <3>1, <3>3
    <2>2. CASE czChunk # <<>>
      <3>1. Len(czChunk) <= BLOCK_SIZE
        BY <1>2, <1>3
      <3> QED BY <1>2, <1>3, <2>2, <3>1, BlockAdded
    <2> QED BY <2>1, <2>2
  <1> HIDE DEF blocks
  <1>8. /\ czArchive' \in Seq(Items) /\ Sized(czArchive') /\ Ordered(czArchive')
        /\ BlocksOf(czArchive') = czFile
    <2>1. CASE ~czLg
      BY <1>1, <1>5, <1>6, <1>7, <2>1
    <2>2. CASE czLg
      <3>1. Word(czTotal) \in Items /\ IsWord(Word(czTotal)) /\ DataOf(Word(czTotal)) = <<>>
        BY <1>3, ItemFacts
      <3>2. czArchive' = Append(blocks, Word(czTotal))
        BY <1>1, <2>2
      <3>3. czArchive' \in Seq(Items) /\ BlocksOf(czArchive') = BlocksOf(blocks) \o <<>>
        BY <1>5, <3>1, <3>2, BlocksToLonger
      <3>4. BlocksOf(czArchive') = czFile
        BY <1>3, <1>6, <3>3, ConcatEmptySeq
      <3>5. Sized(czArchive') /\ Ordered(czArchive')
        BY <1>5, <1>7, <3>1, <3>2, WordAdded
      <3> QED BY <3>3, <3>4, <3>5
    <2> QED BY <2>1, <2>2
  <1>9. CompressType'
    <2>1. <<>> \in Seq(Byte)
      OBVIOUS
    <2> QED BY <1>1, <1>2, <1>8, <2>1 DEF CompressType
  <1>10. WhileCompressing' /\ MagicOnce'
    BY <1>1 DEF WhileCompressing, MagicOnce
  <1>11. "archive" \in czFiles' /\ czFile' = czFile
    BY <1>1, <1>2
  <1>12. WhileDecoding' /\ DataKept'
    BY <1>1, <1>2, <1>8, <1>11 DEF WhileDecoding, DataKept
  <1> QED BY <1>1, <1>8, <1>9, <1>10, <1>12 DEF CompressInv

\* At the end of a block the next item is a word, and behind the words there is a
\* block that a size no longer than a chunk stands before, or nothing.
LEMMA NextItems ==
    ASSUME CompressInv, czPc = "decode", NEW i, i = SizeAt(czRead + 1)
    PROVE  /\ i \in Nat /\ i > czRead /\ i <= czRead + 2
           /\ i <= Len(czArchive) => IsWord(czArchive[i])
           /\ i = czRead + 2 => IsWord(czArchive[czRead + 1]) /\ czRead + 1 <= Len(czArchive)
           /\ i + 1 <= Len(czArchive) => /\ IsBlock(czArchive[i + 1])
                                         /\ czArchive[i].word <= BLOCK_SIZE
  <1> DEFINE a == czArchive
             p == czRead
  <1>1. /\ a \in Seq(Items) /\ Len(a) \in Nat /\ p \in Nat /\ p <= Len(a)
        /\ Sized(a) /\ Ordered(a) /\ (p > 0 => IsBlock(a[p]))
    BY DEF CompressInv, CompressType, WhileDecoding
  <1>2. i = IF p + 1 <= Len(a) /\ a[p + 1] = MAGIC THEN p + 2 ELSE p + 1
    BY <1>1 DEF SizeAt
  <1> HIDE DEF a, p
  <1>3. p + 1 <= Len(a) => IsWord(a[p + 1])
    <2> SUFFICES ASSUME p + 1 <= Len(a), IsBlock(a[p + 1])
                 PROVE  FALSE
      BY DEF IsBlock
    <2>1. p + 1 \in 1..Len(a) /\ (p + 1) - 1 = p
      BY <1>1
    <2>2. p > 0 /\ a[p] = Word(Len(a[p + 1].block)) /\ Len(a[p + 1].block) \in Nat
      BY <1>1, <2>1 DEF Sized
    <2>3. IsWord(a[p])
      BY <2>2, ItemFacts
    <2> QED BY <1>1, <2>2, <2>3 DEF IsBlock
  <1>4. i <= Len(a) => IsWord(a[i]) /\ (a[i] = MAGIC => i = Len(a))
    <2>1. CASE p + 1 <= Len(a) /\ a[p + 1] = MAGIC
      <3>1. i = p + 2
        BY <1>2, <2>1
      <3>2. p + 2 <= Len(a) => IsWord(a[p + 2]) /\ a[p + 2] # MAGIC
        <4>1. p + 2 <= Len(a) => p + 1 \in 1..(Len(a) - 1) /\ (p + 1) + 1 = p + 2
          BY <1>1
        <4> QED BY <1>1, <1>3, <2>1, <4>1 DEF Ordered
      <3> QED BY <3>1, <3>2
    <2>2. CASE ~(p + 1 <= Len(a) /\ a[p + 1] = MAGIC)
      <3>1. i = p + 1
        BY <1>2, <2>2
      <3> QED BY <1>3, <2>2, <3>1
    <2> QED BY <2>1, <2>2
  <1>5. ASSUME i + 1 <= Len(a)
        PROVE  IsBlock(a[i + 1]) /\ a[i].word <= BLOCK_SIZE
    <2>1. i \in 1..(Len(a) - 1) /\ i + 1 \in 1..Len(a) /\ (i + 1) - 1 = i /\ i <= Len(a) /\ i # Len(a)
      BY <1>1, <1>2, <1>5
    <2>2. IsBlock(a[i + 1])
      BY <1>1, <1>4, <2>1 DEF Ordered
    <2>3. a[i] = Word(Len(a[i + 1].block)) /\ Len(a[i + 1].block) \in 1..BLOCK_SIZE
      BY <1>1, <2>1, <2>2 DEF Sized
    <2>4. a[i].word = Len(a[i + 1].block)
      BY <2>3, ItemFacts
    <2> QED BY <2>2, <2>3, <2>4, CompressSizes
  <1> QED BY <1>1, <1>2, <1>3, <1>4, <1>5 DEF a, p

\* Behind words only the archive holds no more; behind a block it holds the block.
LEMMA HoldsNoMore ==
    ASSUME CompressInv, czPc = "decode", NEW i, i = SizeAt(czRead + 1)
    PROVE  /\ i + 1 > Len(czArchive) => BlocksOf(czArchive) = BlocksTo(czArchive)[czRead]
           /\ i + 1 <= Len(czArchive) =>
                 BlocksTo(czArchive)[i + 1] = Joined(BlocksTo(czArchive)[czRead], czArchive[i + 1].block)
  <1> DEFINE a == czArchive
             p == czRead
             J == BlocksTo(a)
  <1>1. a \in Seq(Items) /\ Len(a) \in Nat /\ p \in Nat /\ p <= Len(a)
    BY DEF CompressInv, CompressType, WhileDecoding
  <1>2. J \in [0..Len(a) -> Seq(Byte)] /\ \A k \in 1..Len(a) : J[k] = J[k - 1] \o DataOf(a[k])
    BY <1>1, BlocksToDef
  <1>3. /\ i \in Nat /\ i > p /\ i <= p + 2
        /\ i <= Len(a) => IsWord(a[i])
        /\ i = p + 2 => IsWord(a[p + 1]) /\ p + 1 <= Len(a)
        /\ i + 1 <= Len(a) => IsBlock(a[i + 1])
    BY NextItems
  <1> HIDE DEF a, p, J
  <1>4. ASSUME NEW k \in 1..Len(a), IsWord(a[k])
        PROVE  J[k] = J[k - 1]
    <2>1. DataOf(a[k]) = <<>>
      BY <1>1, <1>4, ItemFacts
    <2>2. k - 1 \in 0..Len(a)
      BY <1>1
    <2>3. J[k - 1] \in Seq(Byte)
      BY <1>2, <2>2
    <2>4. J[k - 1] \o <<>> = J[k - 1]
      BY <2>3, ConcatEmptySeq
    <2> QED BY <1>2, <2>1, <2>4
  <1>5. /\ p + 1 < i => J[p + 1] = J[p]
        /\ i <= Len(a) => J[i] = J[p]
    <2>1. CASE i = p + 1
      <3>1. i <= Len(a) => i \in 1..Len(a) /\ i - 1 = p
        BY <1>1, <1>3, <2>1
      <3>2. i <= Len(a) => J[i] = J[p]
        BY <1>3, <1>4, <3>1
      <3> QED BY <1>3, <2>1, <3>2
    <2>2. CASE i = p + 2
      <3>1. p + 1 \in 1..Len(a) /\ (p + 1) - 1 = p
        BY <1>1, <1>3, <2>2
      <3>2. J[p + 1] = J[p]
        BY <1>3, <1>4, <2>2, <3>1
      <3>3. i <= Len(a) => i \in 1..Len(a) /\ i - 1 = p + 1
        BY <1>1, <1>3, <2>2
      <3>4. i <= Len(a) => J[i] = J[p]
        BY <1>3, <1>4, <3>2, <3>3
      <3> QED BY <3>2, <3>4
    <2> QED BY <1>1, <1>3, <2>1, <2>2
  <1>6. i + 1 > Len(a) => J[Len(a)] = J[p]
    <2> SUFFICES ASSUME i + 1 > Len(a) PROVE J[Len(a)] = J[p]
      OBVIOUS
    <2>1. Len(a) = p \/ Len(a) = i \/ (Len(a) = p + 1 /\ p + 1 < i)
      BY <1>1, <1>3
    <2> QED BY <1>3, <1>5, <2>1
  <1>7. i + 1 <= Len(a) => J[i + 1] = Joined(J[p], a[i + 1].block)
    <2> SUFFICES ASSUME i + 1 <= Len(a) PROVE J[i + 1] = Joined(J[p], a[i + 1].block)
      OBVIOUS
    <2>1. i + 1 \in 1..Len(a) /\ (i + 1) - 1 = i /\ i <= Len(a)
      BY <1>1, <1>3
    <2>2. DataOf(a[i + 1]) = a[i + 1].block
      BY <1>1, <1>3, <2>1, ItemFacts, SMTT(30)
    <2>3. J[i + 1] = J[i] \o DataOf(a[i + 1])
      BY <1>2, <2>1
    <2> QED BY <1>5, <2>1, <2>2, <2>3 DEF Joined
  <1> QED BY <1>6, <1>7 DEF BlocksOf, a, p, J

\* The next block, or the end: there is no more than was handed out.
LEMMA ReadBlockKeeps ==
    ASSUME CompressInv, ReadBlock
    PROVE  CompressInv'
  <1> DEFINE i == SizeAt(czRead + 1)
  <1>1. /\ czPc = "decode" /\ czBlock = <<>>
        /\ UNCHANGED <<czFile, czArchive, czOut, czLg, czBeside, czBuf, czChunk, czTotal>>
    BY DEF ReadBlock
  <1>2. /\ CompressType /\ Sized(czArchive) /\ Ordered(czArchive)
        /\ "archive" \in czFiles /\ BlocksOf(czArchive) = czFile
        /\ BlocksTo(czArchive)[czRead] = Joined(czOut, czBlock)
        /\ czRead <= Len(czArchive) /\ (czRead > 0 => IsBlock(czArchive[czRead]))
    BY <1>1 DEF CompressInv, WhileDecoding
  <1>3. czArchive \in Seq(Items) /\ Len(czArchive) \in Nat /\ czRead \in Nat /\ czOut \in Seq(Byte)
    BY <1>2 DEF CompressType
  <1>4. /\ i \in Nat /\ i > czRead
        /\ i + 1 <= Len(czArchive) => /\ IsBlock(czArchive[i + 1]) /\ czArchive[i].word <= BLOCK_SIZE
    BY <1>1, NextItems
  <1>5. /\ i + 1 > Len(czArchive) => BlocksOf(czArchive) = BlocksTo(czArchive)[czRead]
        /\ i + 1 <= Len(czArchive) =>
              BlocksTo(czArchive)[i + 1] = Joined(BlocksTo(czArchive)[czRead], czArchive[i + 1].block)
    BY <1>1, HoldsNoMore
  <1>6. BlocksTo(czArchive)[czRead] = czOut
    BY <1>1, <1>2, <1>3, ByteFacts
  <1>7. AtBlock(i) <=> i + 1 <= Len(czArchive)
    BY <1>4 DEF AtBlock
  <1>8. CASE i + 1 <= Len(czArchive)
    <2>1. /\ czBlock' = czArchive[i + 1].block /\ czRead' = i + 1 /\ czPc' = "decode"
          /\ czFiles' = czFiles
      BY <1>1, <1>7, <1>8 DEF ReadBlock
    <2> HIDE DEF i
    <2>2. i + 1 \in 1..Len(czArchive)
      BY <1>3, <1>4, <1>8
    <2>3. czArchive[i + 1] \in Items /\ IsBlock(czArchive[i + 1])
      BY <1>3, <1>4, <1>8, <2>2
    <2>4. czBlock' \in Seq(Byte)
      BY <2>1, <2>3, ItemFacts
    <2>5. BlocksTo(czArchive)[i + 1] = Joined(czOut, czBlock')
      BY <1>5, <1>6, <1>8, <2>1
    <2>6. CompressType'
      BY <1>1, <1>2, <1>4, <2>1, <2>4 DEF CompressType
    <2>7. WhileCompressing' /\ MagicOnce' /\ DataKept'
      BY <1>1, <1>2, <2>1 DEF WhileCompressing, MagicOnce, DataKept
    <2>8. WhileDecoding'
      BY <1>1, <1>2, <1>8, <2>1, <2>3, <2>5 DEF WhileDecoding
    <2> QED BY <1>1, <1>2, <2>1, <2>6, <2>7, <2>8 DEF CompressInv
  <1>9. CASE ~(i + 1 <= Len(czArchive))
    <2>1. /\ czPc' \in {"err", "done"} /\ UNCHANGED <<czBlock, czRead>>
          /\ czPc' = "err" => czFiles' = czFiles
      BY <1>1, <1>7, <1>9 DEF ReadBlock
    <2> HIDE DEF i
    <2>2. czOut = czFile
      BY <1>2, <1>3, <1>4, <1>5, <1>6, <1>9
    <2>3. CompressType'
      BY <1>1, <1>2, <2>1 DEF CompressType
    <2>4. WhileCompressing' /\ MagicOnce' /\ WhileDecoding'
      BY <2>1 DEF WhileCompressing, MagicOnce, WhileDecoding
    <2>5. DataKept'
      BY <1>1, <2>2 DEF DataKept
    <2> QED BY <1>1, <1>2, <2>1, <2>3, <2>4, <2>5 DEF CompressInv
  <1> QED BY <1>8, <1>9

\* Bytes of the block are handed out in order.
LEMMA ReadBytesKeeps ==
    ASSUME CompressInv, ReadBytes
    PROVE  CompressInv'
  <1> DEFINE n == Shorter(COPY_SIZE, Len(czBlock))
  <1>1. /\ czPc = "decode" /\ czOut' = Joined(czOut, Prefix(czBlock, n)) /\ czBlock' = Suffix(czBlock, n)
        /\ UNCHANGED <<czFile, czFiles, czArchive, czLg, czBeside, czPc, czRead, czBuf, czChunk, czTotal>>
    BY DEF ReadBytes, Joined
  <1>2. /\ CompressType /\ Sized(czArchive) /\ Ordered(czArchive)
        /\ "archive" \in czFiles /\ BlocksOf(czArchive) = czFile
        /\ BlocksTo(czArchive)[czRead] = Joined(czOut, czBlock)
        /\ czRead <= Len(czArchive) /\ (czRead > 0 => IsBlock(czArchive[czRead]))
    BY <1>1 DEF CompressInv, WhileDecoding
  <1>3. czOut \in Seq(Byte) /\ czBlock \in Seq(Byte)
    BY <1>2 DEF CompressType
  <1>4. n \in 0..Len(czBlock)
    BY <1>3, CompressSizes DEF Shorter
  <1> HIDE DEF n
  <1>5. /\ Prefix(czBlock, n) \in Seq(Byte) /\ Suffix(czBlock, n) \in Seq(Byte)
        /\ Joined(Prefix(czBlock, n), Suffix(czBlock, n)) = czBlock
    BY <1>3, <1>4, CutInTwo
  <1>6. /\ Joined(Joined(czOut, Prefix(czBlock, n)), Suffix(czBlock, n)) = Joined(czOut, czBlock)
        /\ Joined(czOut, Prefix(czBlock, n)) \in Seq(Byte)
    BY <1>3, <1>5, ByteFacts
  <1>7. CompressType'
    BY <1>1, <1>2, <1>5, <1>6 DEF CompressType
  <1>8. WhileCompressing' /\ MagicOnce' /\ DataKept'
    BY <1>1, <1>2 DEF WhileCompressing, MagicOnce, DataKept
  <1>9. WhileDecoding'
    BY <1>1, <1>2, <1>6 DEF WhileDecoding
  <1> QED BY <1>1, <1>2, <1>7, <1>8, <1>9 DEF CompressInv

\* Opening the files, and a failure, lose nothing.
LEMMA OtherStepsKeep ==
    ASSUME CompressInv, StartCompress \/ StartDecompress \/ StaleBlock \/ CompressFails
    PROVE  CompressInv'
  <1>1. CASE StartCompress
    <2>1. /\ czPc = "open" /\ czPc' = "compress" /\ czFiles' = {"in", "archive"}
          /\ UNCHANGED <<czFile, czArchive, czOut, czLg, czBeside, czRead, czBuf, czChunk, czTotal, czBlock>>
      BY <1>1 DEF StartCompress
    <2>2. CompressType' /\ WhileCompressing' /\ MagicOnce' /\ WhileDecoding' /\ DataKept'
      BY <2>1 DEF CompressInv, CompressType, WhileCompressing, MagicOnce, WhileDecoding, DataKept
    <2> QED BY <2>1, <2>2 DEF CompressInv
  <1>2. CASE StartDecompress
    <2>1. /\ czPc = "archived" /\ czBeside' \in BOOLEAN /\ czRead' = 0 /\ czBlock' = <<>>
          /\ UNCHANGED <<czFile, czArchive, czOut, czLg, czBuf, czChunk, czTotal>>
          /\ czPc' \in {"decode", "err"} /\ ("archive" \in czFiles => "archive" \in czFiles')
      BY <1>2 DEF StartDecompress
    <2>2. /\ CompressType /\ Sized(czArchive) /\ Ordered(czArchive) /\ czOut = <<>>
          /\ "archive" \in czFiles /\ BlocksOf(czArchive) = czFile
      BY <2>1 DEF CompressInv, WhileDecoding
    <2>3. <<>> \in Seq(Byte) /\ Joined(<<>>, <<>>) = <<>>
      <3>1. <<>> \in Seq(Byte)
        OBVIOUS
      <3> QED BY <3>1, ByteFacts
    <2>4. BlocksTo(czArchive)[0] = <<>> /\ Len(czArchive) \in Nat
      <3>1. czArchive \in Seq(Items)
        BY <2>2 DEF CompressType
      <3>2. BlocksTo(czArchive)[0] = <<>>
        BY <3>1, BlocksToDef
      <3>3. Len(czArchive) \in Nat
        BY <3>1
      <3> QED BY <3>2, <3>3
    <2>5. CompressType'
      BY <2>1, <2>2, <2>3 DEF CompressType
    <2>6. WhileCompressing' /\ MagicOnce' /\ DataKept'
      BY <2>1, <2>2 DEF WhileCompressing, MagicOnce, DataKept
    <2>7. WhileDecoding'
      BY <2>1, <2>2, <2>3, <2>4 DEF WhileDecoding
    <2> QED BY <2>1, <2>2, <2>5, <2>6, <2>7 DEF CompressInv
  <1>3. CASE StaleBlock
    <2>1. /\ czPc = "decode" /\ czPc' = "err"
          /\ czOut' = IF czRead = 0 THEN czOut ELSE Joined(czOut, czArchive[czRead].block)
          /\ UNCHANGED <<czFile, czFiles, czArchive, czLg, czBeside, czRead, czBuf, czChunk, czTotal, czBlock>>
      BY <1>3 DEF StaleBlock, Joined
    <2>2. /\ CompressType /\ Sized(czArchive) /\ Ordered(czArchive)
          /\ "archive" \in czFiles /\ BlocksOf(czArchive) = czFile
          /\ czRead <= Len(czArchive) /\ (czRead > 0 => IsBlock(czArchive[czRead]))
      BY <2>1 DEF CompressInv, WhileDecoding
    <2>3. czOut' \in Seq(Byte)
      <3>1. czOut \in Seq(Byte) /\ czArchive \in Seq(Items) /\ czRead \in Nat
        BY <2>2 DEF CompressType
      <3>2. czRead # 0 => czArchive[czRead] \in Items /\ IsBlock(czArchive[czRead])
        BY <2>2, <3>1
      <3>3. czRead # 0 => czArchive[czRead].block \in Seq(Byte)
        BY <3>2, ItemFacts
      <3> QED BY <2>1, <3>1, <3>3, ByteFacts
    <2>4. CompressType'
      BY <2>1, <2>2, <2>3 DEF CompressType
    <2>5. WhileCompressing' /\ MagicOnce' /\ WhileDecoding' /\ DataKept'
      BY <2>1, <2>2 DEF WhileCompressing, MagicOnce, WhileDecoding, DataKept
    <2> QED BY <2>1, <2>2, <2>4, <2>5 DEF CompressInv
  <1>4. CASE CompressFails
    <2>1. /\ czPc \in {"compress", "encode", "decode"} /\ czPc' = "err"
          /\ UNCHANGED <<czFile, czFiles, czArchive, czOut, czLg, czBeside, czRead, czBuf, czChunk, czTotal, czBlock>>
      BY <1>4 DEF CompressFails
    <2>2. CompressType' /\ WhileCompressing' /\ MagicOnce' /\ WhileDecoding' /\ DataKept'
      BY <2>1 DEF CompressInv, CompressType, WhileCompressing, MagicOnce, WhileDecoding, DataKept
    <2> QED BY <2>1, <2>2 DEF CompressInv
  <1> QED BY <1>1, <1>2, <1>3, <1>4

\* Reads, writes and failures of both commands keep the invariant.
THEOREM CompressInvariance == SpecCompress => []CompressInv
  <1>1. CompressInv /\ [NextCompress]_compressVars => CompressInv'
    <2> SUFFICES ASSUME CompressInv, [NextCompress]_compressVars
                 PROVE  CompressInv'
      OBVIOUS
    <2>1. CASE UNCHANGED compressVars
      BY <2>1 DEF compressVars, CompressInv, CompressType, WhileCompressing, MagicOnce, WhileDecoding, DataKept
    <2>2. CASE NextCompress
      BY <2>2, CopyReadKeeps, WriteAllKeeps, FinishKeeps, ReadBlockKeeps, ReadBytesKeeps, OtherStepsKeep
      DEF NextCompress
    <2> QED BY <2>1, <2>2
  <1> QED BY <1>1, InitCompressInv, PTL DEF SpecCompress

\* At every moment, whichever command was cut short, the file is there, or an archive
\* that holds all of it, or the complete decompressed file, and decompress reports
\* success only with the data back: for files, chunks and buffers of any size.
THEOREM DataKeptCorrect == SpecCompress => []DataKept
  <1>1. CompressInv => DataKept
    BY DEF CompressInv
  <1> QED BY <1>1, CompressInvariance, PTL

-----------------------------------------------------------------------------
(* The partition find_preinit_device chooses *)

\* A mount of the kind that is compared.
IsCandidate(i) == i.part \in DOMAIN PartRank /\ i.fs \in {"ext4", "f2fs"}

\* Of two mounts at most one is less; with neither less they are of one partition, and of
\* one file system unless it is the metadata partition; nothing else of a mount counts.
LEMMA Comparison ==
    ASSUME NEW a, NEW b, NEW c, IsCandidate(a), IsCandidate(b), IsCandidate(c)
    PROVE  /\ IsLess(a, b) => ~IsLess(b, a)
           /\ ~IsLess(a, b) /\ ~IsLess(b, a) => a.part = b.part /\ (a.part = "metadata" \/ a.fs = b.fs)
           /\ a.part = b.part /\ a.fs = b.fs => (IsLess(a, c) <=> IsLess(b, c))
  <1>1. /\ DOMAIN PartRank = {"data", "cache", "metadata", "persist"}
        /\ PartRank["data"] = 0 /\ PartRank["cache"] = 1 /\ PartRank["metadata"] = 2 /\ PartRank["persist"] = 3
    BY DEF PartRank
  <1>2. PartRank[a.part] \in 0..3 /\ PartRank[b.part] \in 0..3 /\ PartRank[c.part] \in 0..3
    BY <1>1 DEF IsCandidate
  <1>3. PartRank[a.part] = PartRank[b.part] => a.part = b.part
    BY <1>1 DEF IsCandidate
  <1>4. IsLess(a, b) => ~IsLess(b, a)
    BY <1>2 DEF IsLess, IsCandidate
  <1>5. ~IsLess(a, b) /\ ~IsLess(b, a) => a.part = b.part /\ (a.part = "metadata" \/ a.fs = b.fs)
    BY <1>2, <1>3 DEF IsLess, IsCandidate
  <1>6. a.part = b.part /\ a.fs = b.fs => (IsLess(a, c) <=> IsLess(b, c))
    BY DEF IsLess
  <1> QED BY <1>4, <1>5, <1>6

\* What can be taken of a table: candidates, with one file system for metadata.
LEMMA MatchedFacts ==
    ASSUME NEW t \in MountTables, NEW c
    PROVE  /\ \A i \in Matched(t, c) : IsCandidate(i) /\ i # NoMount
           /\ \A i, j \in Matched(t, c) : i.part = "metadata" /\ j.part = "metadata" => i.fs = j.fs
  <1>1. \A i \in Matched(t, c) : IsCandidate(i)
    BY DEF Matched, IsMatch, IsCandidate
  <1>2. \A i \in Matched(t, c) : i # NoMount
    BY <1>1 DEF IsCandidate, NoMount, PartRank
  <1>3. \A i, j \in Matched(t, c) : i.part = "metadata" /\ j.part = "metadata" => i.fs = j.fs
    BY OneMetadata DEF Matched
  <1> QED BY <1>1, <1>2, <1>3

\* Nothing is less than m.
Minimal(m, S) == \A i \in S : ~IsLess(i, m)

\* Where the comparison does not go round, what is less than a mount nothing is less than
\* has nothing less than it either.
LEMMA LesserMinimal ==
    ASSUME NEW t \in MountTables, NEW c, NEW x \in Matched(t, c), NEW acc \in Matched(t, c),
           NEW i \in Matched(t, c),
           ~Circular(Matched(t, c)), IsLess(x, acc), ~IsLess(i, acc)
    PROVE  ~IsLess(i, x)
  <1> SUFFICES ASSUME IsLess(i, x) PROVE FALSE
    OBVIOUS
  <1>1. IsCandidate(i) /\ IsCandidate(x) /\ IsCandidate(acc)
    BY MatchedFacts
  <1>2. ~IsLess(acc, i)
    BY DEF Circular
  <1>3. i.part = acc.part /\ i.fs = acc.fs
    BY <1>1, <1>2, Comparison, MatchedFacts
  <1>4. IsLess(acc, x)
    BY <1>1, <1>3, Comparison
  <1> QED BY <1>1, <1>4, Comparison

\* The recursive function is there and is what its definition says.
LEMMA SelectedToDef ==
    ASSUME NEW t \in MountTables, NEW c
    PROVE  /\ Len(t) \in Nat
           /\ SelectedTo(t, c)[0] = NoMount
           /\ \A k \in 1..Len(t) : SelectedTo(t, c)[k] = Lesser(SelectedTo(t, c)[k - 1], t[k], c)
  <1> DEFINE Q == Range(t) \cup {NoMount}
             F == [k \in 1..Len(t) |-> [q \in Q |-> Lesser(q, t[k], c)]]
             Body(h) == [k \in 0..Len(t) |-> IF k = 0 THEN NoMount ELSE Lesser(h[k - 1], t[k], c)]
             J == SelectedTo(t, c)
  <1>1. Len(t) \in Nat /\ \A k \in 1..Len(t) : t[k] \in Range(t)
    BY TablesAreLists
  <1>2. \A k \in 1..Len(t) : \A q \in Q : Lesser(q, t[k], c) \in Q
    BY <1>1 DEF Lesser
  <1>3. F \in [1..Len(t) -> [Q -> Q]]
    BY <1>2
  <1>4. PICK f \in [0..Len(t) -> Q] : f[0] = NoMount /\ \A k \in 1..Len(t) : f[k] = F[k][f[k - 1]]
    <2> DEFINE n == Len(t)
               base == NoMount
    <2>1. n \in Nat /\ base \in Q /\ StepsOn(F, n, Q)
      BY <1>1, <1>3 DEF StepsOn
    <2> HIDE DEF F, Q, n, base
    <2>2. \E f : IsFold(f, F, n, Q, base)
      BY <2>1, FoldExists
    <2> QED BY <2>2 DEF n, base, IsFold
  <1>5. \A k \in 1..Len(t) : f[k] = Lesser(f[k - 1], t[k], c)
    <2>1. \A k \in 1..Len(t) : k - 1 \in 0..Len(t)
      BY <1>1
    <2> QED BY <1>4, <2>1
  <1>6. f = Body(f)
    <2>1. f = [k \in 0..Len(t) |-> f[k]]
      BY <1>4
    <2>2. \A k \in 0..Len(t) : f[k] = IF k = 0 THEN NoMount ELSE Lesser(f[k - 1], t[k], c)
      BY <1>1, <1>4, <1>5
    <2> QED BY <2>1, <2>2
  <1>7. J = Body(J)
    <2>1. J = CHOOSE h : h = Body(h)
      BY DEF SelectedTo
    <2> HIDE DEF Body, J
    <2>2. (CHOOSE h : h = Body(h)) = Body(CHOOSE h : h = Body(h))
      BY <1>6, Zenon
    <2> QED BY <2>1, <2>2, Zenon
  <1>8. J[0] = NoMount /\ \A k \in 1..Len(t) : J[k] = Lesser(J[k - 1], t[k], c)
    <2> HIDE DEF J
    <2> QED BY <1>1, <1>7
  <1> QED BY <1>1, <1>8

\* The first k mounts of a table that can be taken.
MatchedTo(t, c, k) == {i \in Matched(t, c) : \E l \in 1..k : t[l] = i}

\* What is selected is one of those that can be taken, and none of them is less.
LEMMA SelectedMinimal ==
    ASSUME NEW t \in MountTables, NEW c, Selected(t, c) # NoMount
    PROVE  /\ Selected(t, c) \in Matched(t, c)
           /\ ~Circular(Matched(t, c)) => Minimal(Selected(t, c), Matched(t, c))
  <1> DEFINE n == Len(t)
             J == SelectedTo(t, c)
             M == Matched(t, c)
             Good(k) == IF J[k] = NoMount THEN MatchedTo(t, c, k) = {}
                        ELSE J[k] \in M /\ (~Circular(M) => Minimal(J[k], MatchedTo(t, c, k)))
             T == {k \in 0..n : Good(k)}
  <1>1. /\ n \in Nat /\ J[0] = NoMount
        /\ \A k \in 1..n : J[k] = Lesser(J[k - 1], t[k], c)
    BY SelectedToDef
  <1>2. 0 \in T
    BY <1>1 DEF MatchedTo
  <1>3. ASSUME NEW k \in T, k < n
        PROVE  k + 1 \in T
    <2> DEFINE x == t[k + 1]
               old == MatchedTo(t, c, k)
               new == MatchedTo(t, c, k + 1)
    <2>1. k \in 0..n /\ k + 1 \in 1..n /\ (k + 1) - 1 = k /\ k + 1 \in 0..n
      BY <1>1, <1>3
    <2>2. J[k + 1] = Lesser(J[k], x, c)
      BY <1>1, <2>1
    <2>3. x \in M <=> IsMatch(x, EncryptType(c))
      BY <1>1, <2>1, TablesAreLists DEF Matched, Range
    <2>4. \A i \in new : i \in old \/ (i = x /\ i \in M)
      BY <2>1 DEF MatchedTo
    <2>5. old \subseteq M /\ \A i \in M : IsCandidate(i) /\ i # NoMount
      BY MatchedFacts DEF MatchedTo
    <2>6. IF J[k] = NoMount THEN old = {}
          ELSE J[k] \in M /\ (~Circular(M) => Minimal(J[k], old))
      OBVIOUS
    <2>7. \A i \in M : ~IsLess(i, i)
      BY <2>5, Comparison
    <2> SUFFICES IF J[k + 1] = NoMount THEN new = {}
                 ELSE J[k + 1] \in M /\ (~Circular(M) => Minimal(J[k + 1], new))
      BY <2>1
    <2> HIDE DEF J, M, old, new, x
    <2>8. CASE x \notin M
      BY <2>2, <2>3, <2>4, <2>6, <2>8 DEF Lesser, Minimal
    <2>9. CASE x \in M /\ J[k] = NoMount
      BY <2>2, <2>3, <2>4, <2>5, <2>6, <2>7, <2>9 DEF Lesser, Minimal
    <2>10. CASE x \in M /\ J[k] # NoMount /\ ~IsLess(x, J[k])
      BY <2>2, <2>4, <2>6, <2>10 DEF Lesser, Minimal
    <2>11. CASE x \in M /\ J[k] # NoMount /\ IsLess(x, J[k])
      <3>1. J[k + 1] = x /\ x # NoMount
        BY <2>2, <2>3, <2>5, <2>11 DEF Lesser
      <3>2. ASSUME ~Circular(M), NEW i \in new
            PROVE  ~IsLess(i, x)
        <4>1. CASE i \in old
          <5>1. ~IsLess(i, J[k]) /\ i \in M /\ J[k] \in M
            BY <2>5, <2>6, <2>11, <3>2, <4>1 DEF Minimal
          <5> QED BY <2>11, <3>2, <5>1, LesserMinimal DEF M
        <4> QED BY <2>4, <2>7, <4>1
      <3> QED BY <2>11, <3>1, <3>2 DEF Minimal
    <2> QED BY <2>8, <2>9, <2>10, <2>11
  <1>4. n \in T
    <2>1. \A i \in T : i \in 0..n /\ i < n => i + 1 \in T
      BY <1>3
    <2> HIDE DEF T, n
    <2>2. 0..n \subseteq T
      BY <1>1, <1>2, <2>1, Numbers
    <2> QED BY <1>1, <2>2
  <1>5. MatchedTo(t, c, n) = M
    BY TablesAreLists DEF MatchedTo, Matched, Range
  <1> QED BY <1>4, <1>5 DEF Selected

\* The partition chosen is one of those that can be taken, and none of them is less.
ChoiceInv ==
    /\ mtTable \in MountTables
    /\ mtChosen # NoMount =>
         /\ mtChosen \in Matched(mtTable, mtCrypto)
         /\ ~Circular(Matched(mtTable, mtCrypto)) => Minimal(mtChosen, Matched(mtTable, mtCrypto))

\* It holds before anything is chosen.
LEMMA InitChoiceInv == InitMounts => ChoiceInv
  BY DEF InitMounts, ChoiceInv

\* Choosing establishes it; a reboot lists the same mounts; nothing else touches it.
LEMMA NextChoiceInv == ChoiceInv /\ [NextPreinit \/ NextNs]_mountsVars => ChoiceInv'
  <1> SUFFICES ASSUME ChoiceInv, [NextPreinit \/ NextNs]_mountsVars
               PROVE  ChoiceInv'
    OBVIOUS
  <1>1. ASSUME NEW d \in BOOLEAN, FindPreinitDevice(d)
        PROVE  ChoiceInv'
    <2>1. UNCHANGED <<mtTable, mtCrypto>> /\ mtTable \in MountTables
      BY <1>1 DEF FindPreinitDevice, ChoiceInv
    <2>2. mtChosen' = Selected(mtTable, mtCrypto) /\ mtChosen' # NoMount
      BY <1>1 DEF FindPreinitDevice
    <2>3. /\ mtChosen' \in Matched(mtTable, mtCrypto)
          /\ ~Circular(Matched(mtTable, mtCrypto)) => Minimal(mtChosen', Matched(mtTable, mtCrypto))
      BY <2>1, <2>2, SelectedMinimal
    <2> QED BY <2>1, <2>2, <2>3 DEF ChoiceInv
  <1>2. ASSUME NEW t \in MountTables, Reboot(t)
        PROVE  ChoiceInv'
    <2>1. UNCHANGED <<mtCrypto, mtChosen>> /\ mtTable' = t
      BY <1>2 DEF Reboot
    <2>2. Matched(mtTable', mtCrypto') = Matched(mtTable, mtCrypto)
      BY <1>2, <2>1 DEF Reboot, Matched
    <2> QED BY <2>1, <2>2 DEF ChoiceInv
  <1>3. ASSUME NEW s \in SUBSET Range(mtTable), SetupPreinitDir(s)
        PROVE  UNCHANGED <<mtTable, mtCrypto, mtChosen>>
    BY <1>3 DEF SetupPreinitDir
  <1>4. ASSUME NextNs
        PROVE  UNCHANGED <<mtTable, mtCrypto, mtChosen>>
    BY <1>4 DEF NextNs, SwitchRoot, SetupTmp, SetupModuleMount, SetupWorker, MountForModule,
                CleanMounts, RevertUnmount, preinitVars
  <1>5. CASE UNCHANGED mountsVars
    BY <1>5 DEF mountsVars, preinitVars, ChoiceInv
  <1>6. CASE UNCHANGED <<mtTable, mtCrypto, mtChosen>>
    BY <1>6 DEF ChoiceInv
  <1> QED BY <1>1, <1>2, <1>3, <1>4, <1>5, <1>6 DEF NextPreinit

\* In every order of the mounts that can be taken, one nothing is less than is the one the
\* comments promise.
LEMMA MinimalAsDocumented == ChoiceInv => ChoiceAsDocumented
  <1> DEFINE M == Matched(mtTable, mtCrypto)
  <1> SUFFICES ASSUME ChoiceInv, mtChosen # NoMount, ~Circular(M)
               PROVE  /\ \A i \in M : i.fs = mtChosen.fs => PartRank[mtChosen.part] <= PartRank[i.part]
                      /\ (mtChosen.fs = "f2fs" /\ mtChosen.part # "metadata") => \A i \in M : i.fs = "f2fs"
    BY DEF ChoiceAsDocumented
  <1>1. mtChosen \in M /\ \A i \in M : ~IsLess(i, mtChosen)
    BY DEF ChoiceInv, Minimal
  <1>2. \A i \in M : IsCandidate(i)
    BY MatchedFacts DEF ChoiceInv
  <1> HIDE DEF M
  <1>3. \A i \in M : PartRank[i.part] \in 0..3
    BY <1>2 DEF IsCandidate, PartRank
  <1>4. \A i \in M : i.fs = mtChosen.fs => PartRank[mtChosen.part] <= PartRank[i.part]
    BY <1>1, <1>2, <1>3 DEF IsLess, IsCandidate
  <1>5. ASSUME mtChosen.fs = "f2fs", mtChosen.part # "metadata", NEW i \in M
        PROVE  i.fs = "f2fs"
    BY <1>1, <1>2, <1>3, <1>5 DEF IsLess, IsCandidate
  <1> QED BY <1>4, <1>5

\* find_preinit_device has chosen a partition that can be taken and that no other one is
\* less than, whatever the order of the mounts, and it stays so through reboots.
THEOREM ChoiceInvariance == SpecMounts => []ChoiceInv
  BY InitChoiceInv, NextChoiceInv, PTL DEF SpecMounts

\* The partition find_preinit_device chooses is the one its comments promise, for every
\* device, encryption and order of the mounts.
THEOREM ChoiceCorrect == SpecMounts => []ChoiceAsDocumented
  BY ChoiceInvariance, MinimalAsDocumented, PTL

-----------------------------------------------------------------------------
(* The mount namespace *)

Paths == Seq(STRING)

\* Containing is a partial order of paths, and what contains one path is a chain.
LEMMA PrefixFacts ==
    /\ \A p \in Paths : IsPrefix(p, p) /\ IsPrefix(<<>>, p)
    /\ \A p, q, r \in Paths : IsPrefix(p, q) /\ IsPrefix(q, r) => IsPrefix(p, r)
    /\ \A p, q \in Paths : IsPrefix(p, q) /\ IsPrefix(q, p) => p = q
    /\ \A p, q, r \in Paths : IsPrefix(p, r) /\ IsPrefix(q, r) => IsPrefix(p, q) \/ IsPrefix(q, p)
  <1>1. \A p, q \in Paths : IsPrefix(p, q) <=> Len(p) <= Len(q) /\ \A i \in 1..Len(p) : p[i] = q[i]
    BY DEF IsPrefix, Paths
  <1>2. \A p \in Paths : Len(p) \in Nat
    BY DEF Paths
  <1>3. \A p \in Paths : IsPrefix(p, p) /\ IsPrefix(<<>>, p)
    <2>1. <<>> \in Paths /\ Len(<<>>) = 0 
      BY DEF Paths
    <2> QED BY <1>1, <1>2, <2>1
  <1>4. \A p, q, r \in Paths : IsPrefix(p, q) /\ IsPrefix(q, r) => IsPrefix(p, r)
    BY <1>1, <1>2
  <1>5. \A p, q \in Paths : IsPrefix(p, q) /\ IsPrefix(q, p) => p = q
    <2> SUFFICES ASSUME NEW p \in Paths, NEW q \in Paths, IsPrefix(p, q), IsPrefix(q, p)
                 PROVE  p = q
      OBVIOUS
    <2>1. Len(p) = Len(q) /\ \A i \in 1..Len(p) : p[i] = q[i]
      BY <1>1, <1>2
    <2> QED BY <2>1, SeqEqual DEF Paths
  <1>6. \A p, q, r \in Paths : IsPrefix(p, r) /\ IsPrefix(q, r) => IsPrefix(p, q) \/ IsPrefix(q, p)
    BY <1>1, <1>2
  <1> QED BY <1>3, <1>4, <1>5, <1>6

\* The places of PathOrder.
LEMMA PathFacts ==
    /\ Len(PathOrder) \in Nat /\ DOMAIN PathOrder = 1..Len(PathOrder)
    /\ \A i \in 1..Len(PathOrder) : PathOrder[i] \in Paths /\ PathOrder[i] \in Range(PathOrder)
    /\ \A p \in Range(PathOrder) : p \in Paths /\ \E i \in 1..Len(PathOrder) : p = PathOrder[i]
    /\ \A i, j \in 1..Len(PathOrder) : PathOrder[i] = PathOrder[j] => i = j
    /\ MagiskTmp \in Range(PathOrder) /\ ModuleMnt \in Range(PathOrder) /\ WorkerDir \in Range(PathOrder)
    /\ Targets \subseteq Range(PathOrder)
    /\ \A s \in RomMounts : s \subseteq Range(PathOrder)
  <1>1. Len(PathOrder) \in Nat /\ DOMAIN PathOrder = 1..Len(PathOrder)
    BY PathsOrdered
  <1>2. \A i \in 1..Len(PathOrder) : PathOrder[i] \in Paths
    BY PathsOrdered DEF Paths
  <1>3. \A i \in 1..Len(PathOrder) : PathOrder[i] \in Range(PathOrder)
    BY <1>1 DEF Range
  <1>4. \A p \in Range(PathOrder) : \E i \in 1..Len(PathOrder) : p = PathOrder[i]
    BY <1>1 DEF Range
  <1>5. ASSUME NEW i \in 1..Len(PathOrder), NEW j \in 1..Len(PathOrder), PathOrder[i] = PathOrder[j]
        PROVE  i = j
    <2>1. IsPrefix(PathOrder[i], PathOrder[j]) /\ IsPrefix(PathOrder[j], PathOrder[i])
      BY <1>2, <1>5, PrefixFacts
    <2>2. i <= j /\ j <= i
      BY <1>1, <2>1, PathsOrdered
    <2> QED BY <1>1, <2>2
  <1>6. /\ MagiskTmp \in Range(PathOrder) /\ ModuleMnt \in Range(PathOrder) /\ WorkerDir \in Range(PathOrder)
        /\ Targets \subseteq Range(PathOrder) /\ \A s \in RomMounts : s \subseteq Range(PathOrder)
    BY PathsOrdered
  <1> QED BY <1>1, <1>2, <1>3, <1>4, <1>5, <1>6

\* Magisk's own places are three different ones, two of them in the first.
LEMMA OwnPlaces ==
    /\ MagiskTmp \in Paths /\ ModuleMnt \in Paths /\ WorkerDir \in Paths
    /\ IsPrefix(MagiskTmp, ModuleMnt) /\ IsPrefix(MagiskTmp, WorkerDir)
    /\ ~IsPrefix(ModuleMnt, MagiskTmp) /\ ~IsPrefix(WorkerDir, MagiskTmp) /\ ~IsPrefix(WorkerDir, ModuleMnt)
  <1>1. MagiskTmp \in Paths /\ ModuleMnt \in Paths /\ WorkerDir \in Paths
    BY PathFacts
  <1>2. Len(MagiskTmp) = 1 /\ Len(ModuleMnt) = 2 /\ Len(WorkerDir) = 2
    BY DEF MagiskTmp, ModuleMnt, WorkerDir
  <1>3. MagiskTmp[1] = "tmp" /\ ModuleMnt[1] = "tmp" /\ WorkerDir[1] = "tmp"
        /\ ModuleMnt[2] = "modules" /\ WorkerDir[2] = "worker"
    BY DEF MagiskTmp, ModuleMnt, WorkerDir
  <1>4. \A p, q \in Paths : IsPrefix(p, q) <=> Len(p) <= Len(q) /\ \A i \in 1..Len(p) : p[i] = q[i]
    BY DEF IsPrefix, Paths
  <1> QED BY <1>1, <1>2, <1>3, <1>4

IsAbove(e, f) == e = f \/ f.id \in e.on

\* Mounts are told apart by their id; one made later does not lie under one made before,
\* and what a mount lies on contains it.
Shape(ns, made) ==
    /\ made \in Nat /\ Root \in ns
    /\ \A m \in ns : /\ m.id \in Nat /\ m.id <= made /\ m.mine \in BOOLEAN
                     /\ m = Root \/ m.at \in Range(PathOrder)
                     /\ \A j \in m.on : j \in Nat /\ j < m.id
    /\ \A e, f \in ns : e.id = f.id => e = f
    /\ \A e, f \in ns : f.id \in e.on => IsPrefix(f.at, e.at) /\ f.on \subseteq e.on

\* The mounts of the device are there, made before all others.
RomKept(ns, rom) ==
    /\ rom \subseteq ns /\ Root \in rom
    /\ \A m \in rom : ~m.mine
    /\ \A m \in rom, c \in ns \ rom : m.id < c.id

\* A mount of Magisk's is not hidden, what was mounted under its place later lies on it,
\* and all that is not the device's lies on one.
Visible(ns) == \A f, m \in ns : f.mine /\ f.id < m.id => ~IsPrefix(m.at, f.at)
Nested(ns) == \A f, e \in ns : f.mine /\ f.id <= e.id /\ IsPrefix(f.at, e.at) => IsAbove(e, f)
Based(ns, rom) == \A e \in ns \ rom : \E f \in ns : f.mine /\ IsAbove(e, f)

NsInv(ns, rom, made) ==
    Shape(ns, made) /\ RomKept(ns, rom) /\ Visible(ns) /\ Nested(ns) /\ Based(ns, rom)

\* A mount's target is a path.
LEMMA TargetIsPath ==
    ASSUME NEW ns, NEW made, Shape(ns, made), NEW m \in ns
    PROVE  m.at \in Paths
  <1>1. m = Root \/ m.at \in Range(PathOrder)
    BY DEF Shape
  <1>2. Root.at \in Paths
    <2>1. <<>> \in Paths
      BY DEF Paths
    <2> QED BY <2>1 DEF Root
  <1> QED BY <1>1, <1>2, PathFacts

\* Every path leads to a mount.
LEMMA WalkFinds ==
    ASSUME NEW ns, NEW made, Shape(ns, made), NEW p \in Paths
    PROVE  /\ Walk(ns, p) \in ns /\ IsPrefix(Walk(ns, p).at, p)
           /\ \A c \in ns : IsPrefix(c.at, p) => c.id <= Walk(ns, p).id
  <1> DEFINE C == Containing(ns, p)
             D == {made - m.id : m \in C}
  <1>1. Root \in C
    BY PrefixFacts DEF Shape, Containing, Root
  <1>2. \A m \in C : m.id \in Nat /\ m.id <= made /\ made \in Nat
    BY DEF Containing, Shape
  <1>3. D \in SUBSET Nat /\ D # {}
    BY <1>1, <1>2
  <1>4. PICK d \in D : \A e \in D : d <= e
    <2> HIDE DEF D
    <2> QED BY <1>3, LeastNumber
  <1>5. PICK m \in C : d = made - m.id
    OBVIOUS
  <1>6. \A c \in C : c.id <= m.id
    <2> TAKE c \in C
    <2>1. made - c.id \in D
      OBVIOUS
    <2>2. d <= made - c.id
      BY <1>4, <2>1
    <2> QED BY <1>2, <1>5, <2>2
  <1>7. Walk(ns, p) \in C /\ \A c \in C : c.id <= Walk(ns, p).id
    BY <1>6, Zenon DEF Walk
  <1> QED BY <1>7 DEF Containing

\* A path leads to a mount that contains it when none made later does.
LEMMA WalkIs ==
    ASSUME NEW ns, NEW made, Shape(ns, made), NEW p \in Paths, NEW f \in ns, IsPrefix(f.at, p),
           \A m \in ns : f.id < m.id => ~IsPrefix(m.at, p)
    PROVE  Walk(ns, p) = f
  <1>1. /\ Walk(ns, p) \in ns /\ IsPrefix(Walk(ns, p).at, p)
        /\ f.id <= Walk(ns, p).id
    BY WalkFinds
  <1>2. ~(f.id < Walk(ns, p).id)
    BY <1>1
  <1>3. f.id \in Nat /\ Walk(ns, p).id \in Nat
    BY <1>1 DEF Shape
  <1>4. f.id = Walk(ns, p).id
    BY <1>1, <1>2, <1>3
  <1> QED BY <1>1, <1>4 DEF Shape

\* A mount for Magisk or on one of Magisk's, at a place that hides none of them.
LEMMA AddMount ==
    ASSUME NEW ns, NEW rom, NEW made, NsInv(ns, rom, made), NEW p \in Range(PathOrder), NEW x,
           x.id = made + 1, x.at = p, x.mine \in BOOLEAN,
           x.on = Walk(ns, p).on \cup {Walk(ns, p).id},
           \A f \in ns : f.mine => ~IsPrefix(p, f.at),
           x.mine \/ Walk(ns, p).mine
    PROVE  NsInv(ns \cup {x}, rom, made + 1) /\ x \notin ns
  <1> DEFINE w == Walk(ns, p)
             new == ns \cup {x}
  <1>1. p \in Paths
    BY PathFacts
  <1>2. w \in ns /\ IsPrefix(w.at, p) /\ \A c \in ns : IsPrefix(c.at, p) => c.id <= w.id
    BY <1>1, WalkFinds DEF NsInv
  <1>3. /\ made \in Nat /\ \A m \in ns : m.id \in Nat /\ m.id <= made /\ m.id < x.id
        /\ x.id \in Nat
    BY DEF NsInv, Shape
  <1> HIDE DEF w
  <1>4. x.on = w.on \cup {w.id}
    BY DEF w
  <1>5. \A j \in x.on : j \in Nat /\ j < x.id /\ j <= made
    BY <1>2, <1>3, <1>4 DEF NsInv, Shape
  <1>6. \A m \in ns : x.id # m.id /\ x.id \notin m.on
    BY <1>3 DEF NsInv, Shape
  <1>7. \A f \in ns : f.id \in x.on => IsPrefix(f.at, x.at) /\ f.on \subseteq x.on
    <2> SUFFICES ASSUME NEW f \in ns, f.id \in x.on
                 PROVE  IsPrefix(f.at, p) /\ f.on \subseteq x.on
      OBVIOUS
    <2>1. CASE f.id = w.id
      BY <1>2, <1>4, <2>1 DEF NsInv, Shape
    <2>2. CASE f.id \in w.on
      <3>1. IsPrefix(f.at, w.at) /\ f.on \subseteq w.on
        BY <1>2, <2>2 DEF NsInv, Shape
      <3>2. f.at \in Paths /\ w.at \in Paths
        BY <1>2, TargetIsPath DEF NsInv
      <3> QED BY <1>1, <1>2, <1>4, <3>1, <3>2, PrefixFacts
    <2> QED BY <1>4, <2>1, <2>2
  <1>8. Shape(new, made + 1)
    <2>1. made + 1 \in Nat /\ Root \in new
      BY <1>3 DEF NsInv, Shape
    <2>2. \A m \in new : /\ m.id \in Nat /\ m.id <= made + 1 /\ m.mine \in BOOLEAN
                         /\ m = Root \/ m.at \in Range(PathOrder)
                         /\ \A j \in m.on : j \in Nat /\ j < m.id
      BY <1>3, <1>5 DEF NsInv, Shape
    <2>3. \A e, f \in new : e.id = f.id => e = f
      BY <1>6 DEF NsInv, Shape
    <2>4. x.id \notin x.on
      BY <1>3, <1>5
    <2>5. \A e, f \in new : f.id \in e.on => IsPrefix(f.at, e.at) /\ f.on \subseteq e.on
      BY <1>6, <1>7, <2>4 DEF NsInv, Shape
    <2> QED BY <2>1, <2>2, <2>3, <2>5 DEF Shape
  <1>9. RomKept(new, rom) /\ x \notin ns
    BY <1>3, <1>6 DEF NsInv, RomKept
  <1>10. Visible(new)
    <2>1. \A m \in new : ~(x.id < m.id)
      BY <1>3
    <2> QED BY <2>1 DEF NsInv, Visible
  <1>11. ASSUME NEW f \in ns, f.mine, IsPrefix(f.at, p)
         PROVE  f.id \in x.on
    <2>1. f.id <= w.id
      BY <1>2, <1>11
    <2>2. f.at \in Paths /\ w.at \in Paths
      BY <1>2, TargetIsPath DEF NsInv
    <2>3. IsPrefix(f.at, w.at) \/ IsPrefix(w.at, f.at)
      BY <1>1, <1>2, <1>11, <2>2, PrefixFacts
    <2>4. CASE f.id = w.id
      BY <1>4, <2>4
    <2>5. CASE f.id < w.id
      <3>1. ~IsPrefix(w.at, f.at)
        BY <1>2, <1>11, <2>5 DEF NsInv, Visible
      <3>2. IsAbove(w, f)
        BY <1>2, <1>11, <2>1, <2>3, <3>1 DEF NsInv, Nested
      <3> QED BY <1>4, <3>2 DEF IsAbove
    <2> QED BY <1>2, <1>3, <2>1, <2>4, <2>5
  <1>12. Nested(new)
    <2>1. \A e \in ns : ~(x.id <= e.id)
      BY <1>3
    <2> QED BY <1>11, <2>1 DEF NsInv, Nested, IsAbove
  <1>13. Based(new, rom)
    <2>1. \E f \in new : f.mine /\ IsAbove(x, f)
      BY <1>2, <1>4 DEF IsAbove, w
    <2> QED BY <2>1 DEF NsInv, Based
  <1> QED BY <1>8, <1>9, <1>10, <1>12, <1>13 DEF NsInv

\* Taking away a mount that is not the device's, with what lies on it.
LEMMA RemoveMount ==
    ASSUME NEW ns, NEW rom, NEW made, NsInv(ns, rom, made), NEW f \in ns, f \notin rom
    PROVE  NsInv(ns \ Above(f, ns), rom, made)
  <1> DEFINE new == ns \ Above(f, ns)
  <1>1. \A e \in ns : e \in new <=> ~IsAbove(e, f)
    BY DEF Above, IsAbove
  <1>2. new \subseteq ns
    OBVIOUS
  <1>3. \A m \in rom : m \in new
    <2> SUFFICES ASSUME NEW m \in rom PROVE ~IsAbove(m, f)
      BY <1>1 DEF NsInv, RomKept
    <2>1. m \in ns /\ m.id < f.id /\ m # f
      BY DEF NsInv, RomKept
    <2>2. m.id \in Nat /\ f.id \in Nat /\ \A j \in m.on : j \in Nat /\ j < m.id
      BY <2>1 DEF NsInv, Shape
    <2> QED BY <2>1, <2>2 DEF IsAbove
  <1>4. Root \in new
    <2>1. f # Root
      <3>1. \E g \in ns : g.mine /\ IsAbove(f, g)
        BY DEF NsInv, Based
      <3> QED BY <3>1 DEF IsAbove, Root
    <2> QED BY <1>1, <2>1 DEF IsAbove, Root, NsInv, Shape
  <1> HIDE DEF new
  <1>5. Shape(new, made)
    BY <1>2, <1>4 DEF NsInv, Shape
  <1>6. RomKept(new, rom)
    BY <1>2, <1>3 DEF NsInv, RomKept
  <1>7. Visible(new) /\ Nested(new)
    BY <1>2 DEF NsInv, Visible, Nested
  <1>8. Based(new, rom)
    <2> SUFFICES ASSUME NEW e \in new, e \notin rom
                 PROVE  \E g \in new : g.mine /\ IsAbove(e, g)
      BY DEF Based
    <2>1. PICK g \in ns : g.mine /\ IsAbove(e, g)
      BY <1>2 DEF NsInv, Based
    <2>2. IsAbove(g, f) => IsAbove(e, f)
      BY <1>2, <2>1 DEF NsInv, Shape, IsAbove
    <2>3. g \in new
      BY <1>1, <1>2, <2>2
    <2> QED BY <2>1, <2>3
  <1> QED BY <1>5, <1>6, <1>7, <1>8 DEF NsInv, new

\* umount2 at a place in one of Magisk's mounts leaves the device's mounts alone.
LEMMA UnmountInside ==
    ASSUME NEW ns, NEW rom, NEW made, NsInv(ns, rom, made), NEW p \in Paths,
           NEW t \in ns, t.mine, IsPrefix(t.at, p), t.at # p
    PROVE  NsInv(Unmounted(ns, p), rom, made) /\ t \in Unmounted(ns, p)
  <1> DEFINE w == Walk(ns, p)
  <1>1. w \in ns /\ IsPrefix(w.at, p) /\ t.id <= w.id
    BY WalkFinds DEF NsInv
  <1>2. w \notin rom
    <2>1. t \notin rom
      BY DEF NsInv, RomKept
    <2>2. t.id \in Nat /\ w.id \in Nat
      BY <1>1 DEF NsInv, Shape
    <2> QED BY <1>1, <2>1, <2>2 DEF NsInv, RomKept
  <1>3. CASE w # Root /\ w.at = p
    <2>1. Unmounted(ns, p) = ns \ Above(w, ns)
      BY <1>3 DEF Unmounted
    <2>2. t # w /\ w.id \notin t.on
      <3>1. \A j \in t.on : j \in Nat /\ j < t.id
        BY DEF NsInv, Shape
      <3>2. t.id \in Nat /\ w.id \in Nat
        BY <1>1 DEF NsInv, Shape
      <3> QED BY <1>1, <1>3, <3>1, <3>2
    <2> QED BY <1>1, <1>2, <2>1, <2>2, RemoveMount DEF Above
  <1>4. CASE ~(w # Root /\ w.at = p)
    BY <1>4 DEF Unmounted
  <1> QED BY <1>3, <1>4

\* The mounts of the device to begin with.
LEMMA RomInv ==
    ASSUME NEW s \in RomMounts
    PROVE  NsInv(RomNs(s), RomNs(s), Len(PathOrder))
  <1> DEFINE n == Len(PathOrder)
             K == {i \in DOMAIN PathOrder : PathOrder[i] \in s}
             On(k) == {0} \cup {j \in 1..(k - 1) : PathOrder[j] \in s /\ IsPrefix(PathOrder[j], PathOrder[k])}
             ns == RomNs(s)
  <1>1. n \in Nat /\ K \subseteq 1..n /\ \A k \in K : PathOrder[k] \in Paths /\ PathOrder[k] \in Range(PathOrder)
    BY PathFacts
  <1>2. \A m \in ns : m = Root \/ \E k \in K : m = RomMount(k, s)
    BY DEF RomNs
  <1>3. /\ Root.id = 0 /\ Root.at = <<>> /\ Root.on = {} /\ Root.mine = FALSE
        /\ \A k \in K : /\ RomMount(k, s).id = k /\ RomMount(k, s).at = PathOrder[k]
                        /\ RomMount(k, s).mine = FALSE /\ RomMount(k, s).on = On(k)
    BY DEF Root, RomMount
  <1>4. Root \in ns
    BY DEF RomNs
  <1>5. \A k \in K : \A j \in On(k) : j \in Nat /\ j < k
    BY <1>1
  <1>6. \A k, j \in K : j \in On(k) => IsPrefix(PathOrder[j], PathOrder[k]) /\ On(j) \subseteq On(k)
    <2> SUFFICES ASSUME NEW k \in K, NEW j \in K, j \in On(k)
                 PROVE  IsPrefix(PathOrder[j], PathOrder[k]) /\ On(j) \subseteq On(k)
      OBVIOUS
    <2>1. IsPrefix(PathOrder[j], PathOrder[k]) /\ j < k
      BY <1>1
    <2>2. \A i \in 1..n : PathOrder[i] \in Paths
      BY PathFacts
    <2>3. ASSUME NEW i \in 1..(j - 1), PathOrder[i] \in s, IsPrefix(PathOrder[i], PathOrder[j])
          PROVE  i \in 1..(k - 1) /\ IsPrefix(PathOrder[i], PathOrder[k])
      <3>1. i \in 1..(k - 1) /\ i \in 1..n
        BY <1>1, <2>1
      <3> QED BY <1>1, <2>1, <2>2, <2>3, <3>1, PrefixFacts
    <2> QED BY <2>1, <2>3
  <1> HIDE DEF ns, On
  <1>7. \A m \in ns : /\ m.id \in Nat /\ m.id <= n /\ m.mine = FALSE
                      /\ m = Root \/ m.at \in Range(PathOrder)
                      /\ \A j \in m.on : j \in Nat /\ j < m.id
    BY <1>1, <1>2, <1>3, <1>5
  <1>8. \A e, f \in ns : e.id = f.id => e = f
    BY <1>1, <1>2, <1>3
  <1>9. ASSUME NEW e \in ns, NEW f \in ns, f.id \in e.on
        PROVE  IsPrefix(f.at, e.at) /\ f.on \subseteq e.on
    <2>1. PICK k \in K : e = RomMount(k, s)
      BY <1>2, <1>3, <1>9
    <2>2. CASE f = Root
      BY <1>1, <1>3, <2>1, <2>2, PrefixFacts
    <2>3. CASE f # Root
      <3>1. PICK j \in K : f = RomMount(j, s)
        BY <1>2, <2>3
      <3> QED BY <1>3, <1>6, <1>9, <2>1, <3>1
    <2> QED BY <2>2, <2>3
  <1>10. Shape(ns, n)
    BY <1>1, <1>4, <1>7, <1>8, <1>9 DEF Shape
  <1> QED BY <1>4, <1>7, <1>10 DEF NsInv, RomKept, Visible, Nested, Based, ns

-----------------------------------------------------------------------------
(* switch_root *)

\* Of some paths one sorts last.
LEMMA LastPath ==
    ASSUME NEW S, S \subseteq Range(PathOrder), S # {}
    PROVE  \E p \in S : \A q \in S : q = p \/ Precedes(q, p)
  <1> DEFINE n == Len(PathOrder)
             D == {n - i : i \in {j \in 1..n : PathOrder[j] \in S}}
  <1>1. n \in Nat /\ DOMAIN PathOrder = 1..n
    BY PathFacts
  <1>2. \A q \in S : \E i \in 1..n : q = PathOrder[i]
    BY PathFacts
  <1>3. D \in SUBSET Nat /\ D # {}
    BY <1>1, <1>2
  <1>4. PICK d \in D : \A e \in D : d <= e
    <2> HIDE DEF D
    <2> QED BY <1>3, LeastNumber
  <1>5. PICK l \in 1..n : PathOrder[l] \in S /\ d = n - l
    OBVIOUS
  <1>6. ASSUME NEW q \in S
        PROVE  q = PathOrder[l] \/ Precedes(q, PathOrder[l])
    <2>1. PICK i \in 1..n : q = PathOrder[i]
      BY <1>2
    <2>2. n - i \in D
      BY <2>1
    <2>3. n - l <= n - i
      BY <1>4, <1>5, <2>2
    <2>4. i = l \/ i < l
      BY <1>1, <2>3
    <2> QED BY <1>1, <2>1, <2>4 DEF Precedes
  <1> QED BY <1>5, <1>6

\* The recursive function is there and is what its definition says.
LEMMA MovedToDef ==
    ASSUME NEW n \in Nat, NEW S, NEW o \in [1..n -> S]
    PROVE  /\ Len(o) = n
           /\ MovedTo(o)[0] = [moved |-> {}, failed |-> FALSE]
           /\ \A k \in 1..n : MovedTo(o)[k] = MoveMount(MovedTo(o)[k - 1], o[k])
  <1> DEFINE Q == [moved : SUBSET S, failed : BOOLEAN]
             start == [moved |-> {}, failed |-> FALSE]
             F == [k \in 1..n |-> [q \in Q |-> MoveMount(q, o[k])]]
             Body(h) == [k \in 0..n |-> IF k = 0 THEN start ELSE MoveMount(h[k - 1], o[k])]
             J == MovedTo(o)
  <1>1. Len(o) = n /\ start \in Q
    OBVIOUS
  <1>2. \A k \in 1..n : \A q \in Q : MoveMount(q, o[k]) \in Q
    BY DEF MoveMount
  <1>3. F \in [1..n -> [Q -> Q]]
    BY <1>2
  <1> HIDE DEF start
  <1>4. PICK f \in [0..n -> Q] : f[0] = start /\ \A k \in 1..n : f[k] = F[k][f[k - 1]]
    <2>1. StepsOn(F, n, Q)
      BY <1>3 DEF StepsOn
    <2> HIDE DEF F, Q
    <2>2. \E f : IsFold(f, F, n, Q, start)
      BY <1>1, <2>1, FoldExists
    <2> QED BY <2>2 DEF IsFold
  <1>5. \A k \in 1..n : f[k] = MoveMount(f[k - 1], o[k])
    <2>1. \A k \in 1..n : k - 1 \in 0..n
      OBVIOUS
    <2> QED BY <1>4, <2>1
  <1>6. f = Body(f)
    <2>1. f = [k \in 0..n |-> f[k]]
      BY <1>4
    <2>2. \A k \in 0..n : f[k] = IF k = 0 THEN start ELSE MoveMount(f[k - 1], o[k])
      BY <1>4, <1>5
    <2> QED BY <2>1, <2>2
  <1>7. J = Body(J)
    <2>1. J = CHOOSE h : h = Body(h)
      BY <1>1 DEF MovedTo, start
    <2> HIDE DEF Body, J
    <2>2. (CHOOSE h : h = Body(h)) = Body(CHOOSE h : h = Body(h))
      BY <1>6, Zenon
    <2> QED BY <2>1, <2>2, Zenon
  <1>8. J[0] = start /\ \A k \in 1..n : J[k] = MoveMount(J[k - 1], o[k])
    <2> HIDE DEF J
    <2> QED BY <1>7
  <1> QED BY <1>1, <1>8 DEF start

\* Every mount is moved, with the one it lies in or by itself, and no move fails.
LEMMA AllMoved ==
    ASSUME NEW n \in Nat, NEW S, S \subseteq Range(PathOrder), NEW o \in [1..n -> S],
           \A i, j \in 1..n : IsPrefix(o[i], o[j]) => i <= j
    PROVE  /\ ~MovedTo(o)[n].failed
           /\ \A i \in 1..n : \E p \in MovedTo(o)[n].moved : IsPrefix(p, o[i])
  <1> DEFINE J == MovedTo(o)
             Good(k) == /\ ~J[k].failed
                        /\ \A p \in J[k].moved : \E i \in 1..k : p = o[i]
                        /\ \A i \in 1..k : \E p \in J[k].moved : IsPrefix(p, o[i])
                        /\ \A p, q \in J[k].moved : IsPrefix(p, q) => p = q
             T == {k \in 0..n : Good(k)}
  <1>1. J[0] = [moved |-> {}, failed |-> FALSE] /\ \A k \in 1..n : J[k] = MoveMount(J[k - 1], o[k])
    BY MovedToDef
  <1>2. 0 \in T
    BY <1>1
  <1>3. ASSUME NEW k \in T, k < n
        PROVE  k + 1 \in T
    <2> DEFINE acc == J[k]
               t == o[k + 1]
    <2>1. k \in 0..n /\ k + 1 \in 1..n /\ (k + 1) - 1 = k /\ k + 1 \in 0..n
      BY <1>3
    <2>2. J[k + 1] = MoveMount(acc, t)
      BY <1>1, <2>1
    <2>3. /\ ~acc.failed
          /\ \A p \in acc.moved : \E i \in 1..k : p = o[i]
          /\ \A i \in 1..k : \E p \in acc.moved : IsPrefix(p, o[i])
          /\ \A p, q \in acc.moved : IsPrefix(p, q) => p = q
      OBVIOUS
    <2>4. t \in Range(PathOrder) /\ \A p \in acc.moved : p \in Range(PathOrder)
      BY <2>1, <2>3
    <2>5. \A p \in acc.moved : ~IsPrefix(t, p)
      BY <2>1, <2>3
    <2> HIDE DEF J
    <2>6. CASE GoesAlong(acc.moved, t)
      <3>1. J[k + 1] = acc /\ \E p \in acc.moved : IsPrefix(p, t)
        BY <2>2, <2>6 DEF MoveMount, GoesAlong
      <3>2. \A i \in 1..(k + 1) : i \in 1..k \/ i = k + 1
        BY <2>1
      <3>3. Good(k + 1)
        BY <2>1, <2>3, <3>1, <3>2
      <3> QED BY <2>1, <3>3
    <2>7. CASE ~GoesAlong(acc.moved, t)
      <3>1. ASSUME NEW p \in acc.moved, IsPrefix(p, t)
            PROVE  FALSE
        <4> DEFINE before == {q \in acc.moved : Precedes(q, t)}
        <4>1. PICK a \in 1..Len(PathOrder), b \in 1..Len(PathOrder) : p = PathOrder[a] /\ t = PathOrder[b]
          BY <2>4, PathFacts
        <4>2. a <= b
          BY <3>1, <4>1, PathsOrdered, PathFacts
        <4>3. p # t
          BY <2>5, <3>1
        <4>4. a < b /\ p \in before
          BY <4>1, <4>2, <4>3, PathFacts DEF Precedes
        <4>5. PICK last \in before : \A q \in before : q = last \/ Precedes(q, last)
          <5>1. before \subseteq Range(PathOrder) /\ before # {}
            BY <2>4, <4>4
          <5> HIDE DEF before
          <5> QED BY <5>1, LastPath
        <4>6. ~IsPrefix(last, t)
          BY <2>7, <4>5 DEF GoesAlong
        <4>7. Precedes(p, last) /\ Precedes(last, t)
          BY <3>1, <4>4, <4>5, <4>6
        <4>8. PICK c \in 1..Len(PathOrder) : last = PathOrder[c]
          BY <2>4, PathFacts
        <4>9. a < c /\ c < b
          BY <4>1, <4>7, <4>8, PathFacts, SMTT(30) DEF Precedes
        <4>10. IsPrefix(p, last)
          BY <3>1, <4>1, <4>8, <4>9, SubtreesTogether, PathFacts
        <4>11. p = last
          BY <2>3, <4>10
        <4> QED BY <3>1, <4>6, <4>11
      <3>2. J[k + 1] = [acc EXCEPT !.moved = @ \cup {t}]
        BY <2>2, <2>3, <2>7, <3>1 DEF MoveMount
      <3>4. J[k + 1].moved = acc.moved \cup {t} /\ ~J[k + 1].failed
        BY <2>3, <3>2
      <3>5. \A i \in 1..(k + 1) : i \in 1..k \/ i = k + 1
        BY <2>1
      <3>6. IsPrefix(t, t)
        BY <2>4, PrefixFacts, PathFacts
      <3>7. Good(k + 1)
        <4>1. k + 1 \in 1..(k + 1) /\ 1..k \subseteq 1..(k + 1) /\ t = o[k + 1]
          BY <2>1
        <4> HIDE DEF acc, t
        <4>2. \A p \in J[k + 1].moved : \E i \in 1..(k + 1) : p = o[i]
          BY <2>3, <3>4, <4>1
        <4>3. \A i \in 1..(k + 1) : \E p \in J[k + 1].moved : IsPrefix(p, o[i])
          BY <2>3, <3>4, <3>5, <3>6, <4>1
        <4>4. \A p, q \in J[k + 1].moved : IsPrefix(p, q) => p = q
          BY <2>3, <2>5, <3>1, <3>4
        <4> QED BY <3>4, <4>2, <4>3, <4>4
      <3> QED BY <2>1, <3>7
    <2> QED BY <2>6, <2>7
  <1>4. n \in T
    <2>1. \A i \in T : i \in 0..n /\ i < n => i + 1 \in T
      BY <1>3
    <2> HIDE DEF T
    <2>2. 0..n \subseteq T
      BY <1>2, <2>1, Numbers
    <2> QED BY <2>2
  <1> QED BY <1>4

-----------------------------------------------------------------------------
(* revert_unmount *)

\* The recursive function is there and is what its definition says.
LEMMA RetainedToDef ==
    ASSUME NEW S
    PROVE  /\ RetainedTo(S)[0] = <<>>
           /\ \A k \in 1..Len(PathOrder) :
                RetainedTo(S)[k] = IF PathOrder[k] \in S THEN Retained(RetainedTo(S)[k - 1], PathOrder[k])
                                   ELSE RetainedTo(S)[k - 1]
  <1> DEFINE n == Len(PathOrder)
             Q == Seq(Range(PathOrder))
             Once(q, k) == IF PathOrder[k] \in S THEN Retained(q, PathOrder[k]) ELSE q
             F == [k \in 1..n |-> [q \in Q |-> Once(q, k)]]
             Body(h) == [k \in 0..n |-> IF k = 0 THEN <<>>
                                        ELSE IF PathOrder[k] \in S THEN Retained(h[k - 1], PathOrder[k])
                                        ELSE h[k - 1]]
             J == RetainedTo(S)
  <1>1. n \in Nat /\ <<>> \in Q /\ \A k \in 1..n : PathOrder[k] \in Range(PathOrder)
    BY PathFacts
  <1>2. \A k \in 1..n : \A q \in Q : Once(q, k) \in Q
    BY <1>1 DEF Retained
  <1> HIDE DEF n
  <1>3. F \in [1..n -> [Q -> Q]]
    <2> HIDE DEF Once, Q
    <2> QED BY <1>2
  <1>4. PICK f \in [0..n -> Q] : f[0] = <<>> /\ \A k \in 1..n : f[k] = F[k][f[k - 1]]
    <2> DEFINE base == <<>>
    <2>1. base \in Q /\ StepsOn(F, n, Q)
      BY <1>1, <1>3 DEF StepsOn
    <2> HIDE DEF F, Q, base
    <2>2. \E f : IsFold(f, F, n, Q, base)
      BY <1>1, <2>1, FoldExists
    <2> QED BY <2>2 DEF base, IsFold
  <1>5. \A k \in 1..n : f[k] = Once(f[k - 1], k)
    <2>1. \A k \in 1..n : k - 1 \in 0..n
      BY <1>1
    <2> HIDE DEF Once, Q
    <2> QED BY <1>4, <2>1
  <1>6. f = Body(f)
    <2>1. f = [k \in 0..n |-> f[k]]
      BY <1>4
    <2>2. \A k \in 0..n : f[k] = IF k = 0 THEN <<>> ELSE Once(f[k - 1], k)
      BY <1>1, <1>4, <1>5
    <2> QED BY <2>1, <2>2
  <1>7. J = Body(J)
    <2>1. J = CHOOSE h : h = Body(h)
      BY DEF RetainedTo, n
    <2> HIDE DEF Body, J
    <2>2. (CHOOSE h : h = Body(h)) = Body(CHOOSE h : h = Body(h))
      BY <1>6, Zenon
    <2> QED BY <2>1, <2>2, Zenon
  <1>8. J[0] = <<>> /\ \A k \in 1..n : J[k] = Once(J[k - 1], k)
    <2> HIDE DEF J
    <2> QED BY <1>1, <1>7
  <1> QED BY <1>8 DEF n

\* The targets kept contain all others, and none contains another.
LEMMA KeptTargets ==
    ASSUME NEW S, S \subseteq Range(PathOrder)
    PROVE  LET kept == RetainedTo(S)[Len(PathOrder)]
           IN /\ kept \in Seq(S)
              /\ \A p \in S : \E a \in 1..Len(kept) : IsPrefix(kept[a], p)
              /\ \A a, b \in 1..Len(kept) : IsPrefix(kept[a], kept[b]) => a = b
  <1> DEFINE n == Len(PathOrder)
             J == RetainedTo(S)
             P(i) == PathOrder[i]
             Good(q, k) ==
               /\ q \in Seq(S)
               /\ \A a \in 1..Len(q) : \E i \in 1..k : q[a] = PathOrder[i]
               /\ \A i \in 1..k : PathOrder[i] \in S => \E a \in 1..Len(q) : IsPrefix(q[a], PathOrder[i])
               /\ \A a, b \in 1..Len(q) : a < b => Precedes(q[a], q[b]) /\ ~IsPrefix(q[a], q[b])
             T == {k \in 0..n : Good(J[k], k)}
  <1>1. /\ J[0] = <<>>
        /\ \A k \in 1..n : J[k] = IF PathOrder[k] \in S THEN Retained(J[k - 1], PathOrder[k]) ELSE J[k - 1]
    BY RetainedToDef
  <1>2. n \in Nat /\ DOMAIN PathOrder = 1..n /\ \A i \in 1..n : PathOrder[i] \in Paths
    BY PathFacts
  <1>3. 0 \in T
    <2>1. <<>> \in Seq(S) /\ Len(<<>>) = 0 /\ 1..0 = {}
      OBVIOUS
    <2>2. Good(<<>>, 0)
      BY <2>1
    <2> HIDE DEF Good
    <2> QED BY <1>1, <1>2, <2>2
  <1>4. ASSUME NEW k \in T, k < n
        PROVE  k + 1 \in T
    <2> DEFINE q == J[k]
               t == PathOrder[k + 1]
    <2>1. k \in 0..n /\ k + 1 \in 1..n /\ (k + 1) - 1 = k /\ k + 1 \in 0..n /\ k \in Nat
      BY <1>2, <1>4
    <2>2. J[k + 1] = IF t \in S THEN Retained(q, t) ELSE q
      BY <1>1, <2>1
    <2>3. Good(q, k)
      OBVIOUS
    <2> HIDE DEF J, q
    <2>4. \A i \in 1..(k + 1) : i \in 1..k \/ i = k + 1
      BY <2>1
    <2>5. \A i \in 1..k : i \in 1..(k + 1) /\ i \in 1..n /\ i < k + 1
      BY <1>2, <2>1
    <2>6. Len(q) \in Nat
      BY <2>3
    <2>7. CASE t \notin S
      <3>1. Good(q, k + 1)
        BY <2>3, <2>4, <2>5, <2>7
      <3> QED BY <2>1, <2>2, <2>7, <3>1, ZenonT(40)
    <2>8. CASE t \in S /\ q # <<>> /\ IsPrefix(q[Len(q)], t)
      <3>1. Len(q) \in 1..Len(q)
        BY <2>3, <2>8
      <3>2. Good(q, k + 1)
        BY <2>3, <2>4, <2>5, <2>8, <3>1
      <3>3. J[k + 1] = q
        BY <2>2, <2>8 DEF Retained
      <3> QED BY <2>1, <3>2, <3>3
    <2>9. CASE t \in S /\ ~(q # <<>> /\ IsPrefix(q[Len(q)], t))
      <3> DEFINE r == Append(q, t)
                 L == Len(q)
      <3>1. J[k + 1] = r
        BY <2>2, <2>9 DEF Retained
      <3>2. /\ r \in Seq(S) /\ Len(r) = L + 1 /\ r[L + 1] = t
            /\ \A a \in 1..L : r[a] = q[a]
        BY <2>3, <2>9
      <3>3. \A a \in 1..(L + 1) : a \in 1..L \/ a = L + 1
        BY <2>6
      <3>4. IsPrefix(t, t)
        BY <1>2, <2>1, PrefixFacts
      <3>5. ASSUME NEW a \in 1..L
            PROVE  Precedes(q[a], t) /\ ~IsPrefix(q[a], t)
        <4>1. PICK i \in 1..k : q[a] = PathOrder[i]
          BY <2>3
        <4>2. Precedes(q[a], t)
          BY <1>2, <2>1, <2>5, <4>1 DEF Precedes
        <4>3. L \in 1..L /\ q # <<>> /\ ~IsPrefix(q[L], t)
          BY <2>3, <2>6, <2>9
        <4>4. CASE a < L
          <5>1. Precedes(q[a], q[L]) /\ ~IsPrefix(q[a], q[L])
            BY <2>3, <4>3, <4>4
          <5>2. PICK l \in 1..k : q[L] = PathOrder[l]
            BY <2>3, <4>3
          <5>3. i < l
            BY <2>5, <4>1, <5>1, <5>2, PathFacts DEF Precedes
          <5> QED BY <1>2, <2>1, <2>5, <4>1, <4>2, <5>1, <5>2, <5>3, SubtreesTogether
        <4>5. CASE a = L
          BY <4>2, <4>3, <4>5
        <4> QED BY <2>6, <4>4, <4>5
      <3> HIDE DEF r, L
      <3>6. \A a \in 1..Len(r) : \E i \in 1..(k + 1) : r[a] = PathOrder[i]
        BY <2>1, <2>3, <2>5, <3>2, <3>3, SMTT(30) DEF L
      <3>7. \A i \in 1..(k + 1) : PathOrder[i] \in S => \E a \in 1..Len(r) : IsPrefix(r[a], PathOrder[i])
        <4>1. \A a \in 1..L : a \in 1..Len(r)
          BY <2>6, <3>2 DEF L
        <4>2. L + 1 \in 1..Len(r)
          BY <2>6, <3>2 DEF L
        <4> QED BY <2>3, <2>4, <3>2, <3>4, <4>1, <4>2 DEF L
      <3>8. ASSUME NEW a \in 1..Len(r), NEW b \in 1..Len(r), a < b
            PROVE  Precedes(r[a], r[b]) /\ ~IsPrefix(r[a], r[b])
        <4>1. a \in 1..L /\ (b \in 1..L \/ b = L + 1)
          BY <2>6, <3>2, <3>3, <3>8 DEF L
        <4> QED BY <2>3, <3>2, <3>5, <3>8, <4>1 DEF L
      <3>9. Good(r, k + 1)
        BY <3>2, <3>6, <3>7, <3>8
      <3> QED BY <2>1, <3>1, <3>9
    <2> QED BY <2>7, <2>8, <2>9
  <1>5. n \in T
    <2>1. \A i \in T : i \in 0..n /\ i < n => i + 1 \in T
      BY <1>4
    <2> HIDE DEF T, n
    <2>2. 0..n \subseteq T
      BY <1>2, <1>3, <2>1, Numbers
    <2> QED BY <1>2, <2>2
  <1> DEFINE kept == J[n]
  <1>6. Good(kept, n)
    BY <1>5
  <1> HIDE DEF kept, J
  <1>7. \A p \in S : \E a \in 1..Len(kept) : IsPrefix(kept[a], p)
    <2> TAKE p \in S
    <2>1. PICK i \in 1..n : p = PathOrder[i]
      BY PathFacts
    <2> QED BY <1>6, <2>1
  <1>8. ASSUME NEW a \in 1..Len(kept), NEW b \in 1..Len(kept), IsPrefix(kept[a], kept[b])
        PROVE  a = b
    <2>1. a \in Nat /\ b \in Nat
      OBVIOUS
    <2>2. ~(a < b)
      BY <1>6, <1>8
    <2>3. ASSUME b < a PROVE FALSE
      <3>1. Precedes(kept[b], kept[a])
        BY <1>6, <2>3
      <3>2. PICK i \in 1..n, j \in 1..n : i < j /\ kept[b] = PathOrder[i] /\ kept[a] = PathOrder[j]
        BY <1>2, <3>1 DEF Precedes
      <3>3. j <= i
        BY <1>2, <1>8, <3>2, PathsOrdered
      <3> QED BY <3>2, <3>3
    <2> QED BY <2>1, <2>2, <2>3
  <1> QED BY <1>6, <1>7, <1>8 DEF kept, J

\* The recursive function is there and is what its definition says.
LEMMA UnmountedToDef ==
    ASSUME NEW ns, NEW S, NEW o \in Seq(S)
    PROVE  /\ UnmountedTo(ns, o)[0] = ns
           /\ \A k \in 1..Len(o) : UnmountedTo(ns, o)[k] = Unmounted(UnmountedTo(ns, o)[k - 1], o[k])
  <1> DEFINE n == Len(o)
             Q == SUBSET ns
             F == [k \in 1..n |-> [q \in Q |-> Unmounted(q, o[k])]]
             Body(h) == [k \in 0..n |-> IF k = 0 THEN ns ELSE Unmounted(h[k - 1], o[k])]
             J == UnmountedTo(ns, o)
  <1>1. n \in Nat /\ ns \in Q
    OBVIOUS
  <1> HIDE DEF n
  <1>2. \A k \in 1..n : \A q \in Q : Unmounted(q, o[k]) \in Q
    BY DEF Unmounted
  <1>3. F \in [1..n -> [Q -> Q]]
    BY <1>2
  <1>4. PICK f \in [0..n -> Q] : f[0] = ns /\ \A k \in 1..n : f[k] = F[k][f[k - 1]]
    <2>1. StepsOn(F, n, Q)
      BY <1>3 DEF StepsOn
    <2> HIDE DEF F, Q
    <2>2. \E f : IsFold(f, F, n, Q, ns)
      BY <1>1, <2>1, FoldExists
    <2> QED BY <2>2 DEF IsFold
  <1>5. \A k \in 1..n : f[k] = Unmounted(f[k - 1], o[k])
    <2>1. \A k \in 1..n : k - 1 \in 0..n
      BY <1>1
    <2> QED BY <1>4, <2>1
  <1>6. f = Body(f)
    <2>1. f = [k \in 0..n |-> f[k]]
      BY <1>4
    <2>2. \A k \in 0..n : f[k] = IF k = 0 THEN ns ELSE Unmounted(f[k - 1], o[k])
      BY <1>1, <1>4, <1>5
    <2> QED BY <2>1, <2>2
  <1>7. J = Body(J)
    <2>1. J = CHOOSE h : h = Body(h)
      BY DEF UnmountedTo, n
    <2> HIDE DEF Body, J
    <2>2. (CHOOSE h : h = Body(h)) = Body(CHOOSE h : h = Body(h))
      BY <1>6, Zenon
    <2> QED BY <2>1, <2>2, Zenon
  <1>8. J[0] = ns /\ \A k \in 1..n : J[k] = Unmounted(J[k - 1], o[k])
    <2> HIDE DEF J
    <2> QED BY <1>1, <1>7
  <1> QED BY <1>8 DEF n

\* Unmounting the targets kept takes away all that is not the device's, and no more.
LEMMA AllUnmounted ==
    ASSUME NEW ns, NEW rom, NEW made, NsInv(ns, rom, made),
           NEW kept \in Seq({m.at : m \in {x \in ns : x.mine}}),
           \A f \in ns : f.mine => \E a \in 1..Len(kept) : IsPrefix(kept[a], f.at),
           \A a, b \in 1..Len(kept) : IsPrefix(kept[a], kept[b]) => a = b
    PROVE  UnmountedTo(ns, kept)[Len(kept)] = rom
  <1> DEFINE n == Len(kept)
             J == UnmountedTo(ns, kept)
             S == {m.at : m \in {x \in ns : x.mine}}
             At(a) == CHOOSE f \in ns : f.mine /\ f.at = kept[a]
             Left(k) == {e \in ns : \A a \in 1..k : ~IsAbove(e, At(a))}
             T == {k \in 0..n : J[k] = Left(k)}
  <1>1. n \in Nat /\ kept \in [1..n -> S]
    OBVIOUS
  <1>2. J[0] = ns /\ \A k \in 1..n : J[k] = Unmounted(J[k - 1], kept[k])
    <2>1. kept \in Seq(S)
      OBVIOUS
    <2> HIDE DEF S
    <2> QED BY <2>1, UnmountedToDef
  <1>3. \A a \in 1..n : At(a) \in ns /\ At(a).mine /\ At(a).at = kept[a]
    <2> TAKE a \in 1..n
    <2>1. \E f \in ns : f.mine /\ f.at = kept[a]
      BY <1>1
    <2> QED BY <2>1, Zenon
  <1>4. \A a \in 1..n : kept[a] \in Paths
    BY <1>3, TargetIsPath DEF NsInv
  <1> HIDE DEF J, At, S
  <1>5. 0 \in T
    BY <1>1, <1>2
  <1>6. ASSUME NEW k \in T, k < n
        PROVE  k + 1 \in T
    <2> DEFINE f == At(k + 1)
               p == kept[k + 1]
               N == Left(k)
    <2>1. k \in 0..n /\ k + 1 \in 1..n /\ (k + 1) - 1 = k /\ k + 1 \in 0..n
      BY <1>1, <1>6
    <2>2. J[k + 1] = Unmounted(N, p)
      BY <1>2, <2>1
    <2>3. f \in ns /\ f.mine /\ f.at = p /\ p \in Paths
      BY <1>3, <1>4, <2>1
    <2>4. \A a \in 1..k : a \in 1..n /\ a # k + 1
      BY <1>1, <2>1
    <2>5. f \in N
      <3> SUFFICES ASSUME NEW a \in 1..k, IsAbove(f, At(a))
                   PROVE  FALSE
        BY <2>3
      <3>1. At(a) \in ns /\ At(a).at = kept[a] /\ a # k + 1 /\ a \in 1..n
        BY <1>3, <2>4
      <3>2. IsPrefix(At(a).at, f.at)
        <4>1. CASE f = At(a)
          BY <2>3, <4>1, PrefixFacts
        <4>2. CASE At(a).id \in f.on
          BY <2>3, <3>1, <4>2 DEF NsInv, Shape
        <4> QED BY <4>1, <4>2 DEF IsAbove
      <3>3. IsPrefix(kept[a], kept[k + 1])
        BY <2>3, <3>1, <3>2
      <3> QED BY <2>1, <3>1, <3>3
    <2>6. Shape(N, made)
      <3>1. Root \in N
        <4>1. \A a \in 1..k : ~IsAbove(Root, At(a))
          <5>1. Root.mine = FALSE /\ Root.on = {}
            BY DEF Root
          <5>2. \A a \in 1..k : At(a).mine
            BY <1>3, <2>4
          <5> QED BY <5>1, <5>2 DEF IsAbove
        <4> QED BY <4>1 DEF NsInv, Shape
      <3>2. N \subseteq ns
        OBVIOUS
      <3> HIDE DEF N
      <3> QED BY <3>1, <3>2 DEF NsInv, Shape
    <2>7. Walk(N, p) = f
      <3>1. \A m \in N : f.id < m.id => ~IsPrefix(m.at, p)
        BY <2>3 DEF NsInv, Visible
      <3>2. IsPrefix(f.at, p)
        BY <2>3, PrefixFacts
      <3> HIDE DEF N, f, p
      <3> QED BY <2>3, <2>5, <2>6, <3>1, <3>2, WalkIs
    <2>8. f # Root
      BY <2>3 DEF Root
    <2>9. J[k + 1] = N \ Above(f, N)
      BY <2>2, <2>3, <2>7, <2>8 DEF Unmounted
    <2>10. N \ Above(f, N) = Left(k + 1)
      <3>1. \A a \in 1..(k + 1) : a \in 1..k \/ a = k + 1
        BY <2>1
      <3>2. \A a \in 1..k : a \in 1..(k + 1)
        BY <2>1
      <3>3. k + 1 \in 1..(k + 1)
        BY <2>1
      <3>4. \A e \in N : e \in Above(f, N) <=> IsAbove(e, f)
        BY DEF Above, IsAbove
      <3> HIDE DEF IsAbove
      <3> QED BY <3>1, <3>2, <3>3, <3>4
    <2> QED BY <2>1, <2>9, <2>10
  <1>7. J[n] = Left(n)
    <2>1. \A i \in T : i \in 0..n /\ i < n => i + 1 \in T
      BY <1>6
    <2> HIDE DEF T, n
    <2>2. 0..n \subseteq T
      BY <1>1, <1>5, <2>1, Numbers
    <2>3. n \in T
      BY <1>1, <2>2
    <2> QED BY <2>3 DEF T
  <1>8. \A m \in rom : m \in Left(n)
    <2> SUFFICES ASSUME NEW m \in rom, NEW a \in 1..n PROVE ~IsAbove(m, At(a))
      BY DEF NsInv, RomKept
    <2>1. At(a) \in ns /\ At(a).mine
      BY <1>3
    <2>2. m \in ns /\ At(a) \notin rom /\ m.id < At(a).id
      BY <2>1 DEF NsInv, RomKept
    <2>3. m.id \in Nat /\ At(a).id \in Nat /\ \A j \in m.on : j \in Nat /\ j < m.id
      BY <2>1, <2>2 DEF NsInv, Shape
    <2> QED BY <2>2, <2>3 DEF IsAbove
  <1>9. ASSUME NEW e \in ns, e \notin rom
        PROVE  \E a \in 1..n : IsAbove(e, At(a))
    <2>1. PICK f \in ns : f.mine /\ IsAbove(e, f)
      BY <1>9 DEF NsInv, Based
    <2>2. PICK a \in 1..n : IsPrefix(kept[a], f.at)
      BY <2>1
    <2>3. At(a) \in ns /\ At(a).mine /\ IsPrefix(At(a).at, f.at)
      BY <1>3, <2>2
    <2>4. ~(f.id < At(a).id)
      BY <2>1, <2>3 DEF NsInv, Visible
    <2>5. f.id \in Nat /\ At(a).id \in Nat
      BY <2>1, <2>3 DEF NsInv, Shape
    <2>6. IsAbove(f, At(a))
      BY <2>1, <2>3, <2>4, <2>5 DEF NsInv, Nested
    <2>7. IsAbove(e, At(a))
      BY <2>1, <2>3, <2>6 DEF NsInv, Shape, IsAbove
    <2> QED BY <2>7
  <1> QED BY <1>7, <1>8, <1>9 DEF J

-----------------------------------------------------------------------------
(* The steps of the namespace *)

Mine == {m \in mtNs : m.mine}

\* What of Magisk's is mounted by which stage.
Staged ==
    /\ mtStage \in {"rom", "switched", "tmp", "modules", "worker", "clean", "reverted"}
    /\ mtStage \in {"rom", "switched", "reverted"} => mtNs = mtRom
    /\ mtStage \in {"tmp", "modules", "worker"} => \E m \in Mine : m.at = MagiskTmp
    /\ mtStage = "tmp" => \A m \in Mine : m.at = MagiskTmp
    /\ mtStage = "modules" => \A m \in Mine : m.at \in {MagiskTmp, ModuleMnt}

MountsInv == NsInv(mtNs, mtRom, mtMade) /\ Staged

\* It holds for what the device has before Magisk.
LEMMA InitMountsInv == InitMounts => MountsInv
  <1> SUFFICES ASSUME InitMounts PROVE MountsInv
    OBVIOUS
  <1>1. PICK s \in RomMounts : mtRom = RomNs(s)
    BY DEF InitMounts
  <1>2. NsInv(mtNs, mtRom, mtMade)
    BY <1>1, RomInv DEF InitMounts
  <1> QED BY <1>2 DEF InitMounts, MountsInv, Staged

\* The switch of the root takes every mount along.
LEMMA SwitchKeeps ==
    ASSUME MountsInv, NEW o \in MountOrders, SwitchRoot(o)
    PROVE  mtNs' = mtNs /\ mtStage' = "switched"
  <1> DEFINE S == {m.at : m \in mtNs \ {Root}}
             n == Cardinality(S)
             end == MovedTo(o)[Len(o)]
  <1>1. S \subseteq Range(PathOrder)
    BY DEF MountsInv, NsInv, Shape
  <1>2. n \in Nat
    <2>1. IsFiniteSet(1..Len(PathOrder))
      BY PathFacts, FS_Interval
    <2>2. PathOrder \in Surjection(1..Len(PathOrder), Range(PathOrder))
      <3>1. PathOrder \in [1..Len(PathOrder) -> Range(PathOrder)]
        BY PathFacts, PathsOrdered
      <3> QED BY <3>1, PathFacts DEF Surjection
    <2>3. IsFiniteSet(Range(PathOrder))
      BY <2>1, <2>2, FS_Surjection
    <2>4. IsFiniteSet(S)
      <3> HIDE DEF S
      <3> QED BY <1>1, <2>3, FS_Subset
    <2> QED BY <2>4, FS_CardinalityType
  <1>3. o \in [1..n -> S] /\ Range(o) = S /\ \A i, j \in 1..n : IsPrefix(o[i], o[j]) => i <= j
    BY DEF MountOrders
  <1> HIDE DEF S, n
  <1>4. Len(o) = n
    BY <1>2, <1>3
  <1>5. ~end.failed /\ \A i \in 1..n : \E p \in end.moved : IsPrefix(p, o[i])
    BY <1>1, <1>2, <1>3, <1>4, AllMoved
  <1>6. \A m \in mtNs : m = Root \/ \E p \in end.moved : IsPrefix(p, m.at)
    <2> SUFFICES ASSUME NEW m \in mtNs, m # Root
                 PROVE  \E p \in end.moved : IsPrefix(p, m.at)
      OBVIOUS
    <2>1. m.at \in S
      BY DEF S
    <2>2. \E i \in 1..n : o[i] = m.at
      BY <1>3, <2>1 DEF Range
    <2> QED BY <1>5, <2>2
  <1>7. mtNs' = {m \in mtNs : m = Root \/ \E p \in end.moved : IsPrefix(p, m.at)}
        /\ mtStage' = IF end.failed THEN "stranded" ELSE "switched"
    BY DEF SwitchRoot
  <1> HIDE DEF end
  <1> QED BY <1>5, <1>6, <1>7

\* It is kept by every step of magiskinit, of the daemon and of its modules.
LEMMA NextMountsInv == MountsInv /\ [NextPreinit \/ NextNs]_mountsVars => MountsInv'
  <1> SUFFICES ASSUME MountsInv, [NextPreinit \/ NextNs]_mountsVars
               PROVE  MountsInv'
    OBVIOUS
  <1>1. NsInv(mtNs, mtRom, mtMade) /\ Staged
    BY DEF MountsInv
  <1>2. ASSUME UNCHANGED nsVars
        PROVE  MountsInv'
    BY <1>2 DEF nsVars, MountsInv, Staged, Mine
  <1>3. ASSUME NextPreinit
        PROVE  UNCHANGED nsVars
    BY <1>3 DEF NextPreinit, FindPreinitDevice, Reboot, SetupPreinitDir
  <1>4. ASSUME NEW o \in MountOrders, SwitchRoot(o)
        PROVE  MountsInv'
    <2>1. mtNs' = mtNs /\ mtStage' = "switched"
      BY <1>4, SwitchKeeps
    <2>2. mtStage = "rom" /\ UNCHANGED <<mtRom, mtMade>>
      BY <1>4 DEF SwitchRoot
    <2> QED BY <1>1, <2>1, <2>2 DEF MountsInv, Staged
  <1>5. CASE SetupTmp
    <2> DEFINE x == Mount(mtNs, MagiskTmp, TRUE)
    <2>1. mtNs = mtRom
      BY <1>1, <1>5 DEF SetupTmp, Staged
    <2>2. \A m \in mtNs : ~m.mine
      BY <1>1, <2>1 DEF NsInv, RomKept
    <2>3. x.id = mtMade + 1 /\ x.at = MagiskTmp /\ x.mine = TRUE
          /\ x.on = Walk(mtNs, MagiskTmp).on \cup {Walk(mtNs, MagiskTmp).id}
      BY DEF Mount
    <2> HIDE DEF x
    <2>4. MagiskTmp \in Range(PathOrder)
      BY PathFacts
    <2>5. NsInv(mtNs \cup {x}, mtRom, mtMade + 1)
      BY <1>1, <2>2, <2>3, <2>4, AddMount
    <2>6. mtNs' = mtNs \cup {x} /\ mtMade' = mtMade + 1 /\ mtStage' = "tmp" /\ mtRom' = mtRom
      BY <1>5 DEF SetupTmp, x
    <2>7. Staged'
      BY <2>2, <2>3, <2>6 DEF Staged, Mine
    <2> QED BY <2>5, <2>6, <2>7 DEF MountsInv
  <1>6. ASSUME NEW ok \in BOOLEAN, SetupModuleMount(ok)
        PROVE  MountsInv'
    <2> DEFINE x == Mount(mtNs, ModuleMnt, TRUE)
    <2>1. mtStage = "tmp" /\ mtStage' = "modules" /\ mtRom' = mtRom
      BY <1>6 DEF SetupModuleMount
    <2>2. \A m \in Mine : m.at = MagiskTmp
      BY <1>1, <2>1 DEF Staged
    <2>3. PICK t \in Mine : t.at = MagiskTmp
      BY <1>1, <2>1 DEF Staged
    <2>4. CASE ok
      <3>1. x.id = mtMade + 1 /\ x.at = ModuleMnt /\ x.mine = TRUE
            /\ x.on = Walk(mtNs, ModuleMnt).on \cup {Walk(mtNs, ModuleMnt).id}
        BY DEF Mount
      <3>2. mtNs' = mtNs \cup {x} /\ mtMade' = mtMade + 1
        BY <1>6, <2>4 DEF SetupModuleMount
      <3> HIDE DEF x
      <3>3. \A f \in mtNs : f.mine => ~IsPrefix(ModuleMnt, f.at)
        BY <2>2, OwnPlaces DEF Mine
      <3>4. ModuleMnt \in Range(PathOrder)
        BY PathFacts
      <3>5. NsInv(mtNs \cup {x}, mtRom, mtMade + 1)
        BY <1>1, <3>1, <3>3, <3>4, AddMount
      <3>6. Staged'
        BY <2>1, <2>2, <2>3, <3>1, <3>2 DEF Staged, Mine
      <3> QED BY <2>1, <3>2, <3>5, <3>6 DEF MountsInv
    <2>5. CASE ~ok
      <3>1. UNCHANGED <<mtNs, mtMade>>
        BY <1>6, <2>5 DEF SetupModuleMount
      <3>2. Staged'
        BY <2>1, <2>2, <2>3, <3>1 DEF Staged, Mine
      <3> QED BY <1>1, <2>1, <3>1, <3>2 DEF MountsInv
    <2> QED BY <2>4, <2>5
  <1>7. CASE SetupWorker
    <2> DEFINE x == Mount(mtNs, WorkerDir, TRUE)
    <2>1. mtStage = "modules" /\ mtStage' = "worker" /\ mtRom' = mtRom
          /\ mtNs' = mtNs \cup {x} /\ mtMade' = mtMade + 1
      BY <1>7 DEF SetupWorker
    <2>2. \A m \in Mine : m.at = MagiskTmp \/ m.at = ModuleMnt
      BY <1>1, <2>1 DEF Staged
    <2>3. PICK t \in Mine : t.at = MagiskTmp
      BY <1>1, <2>1 DEF Staged
    <2>4. x.id = mtMade + 1 /\ x.at = WorkerDir /\ x.mine = TRUE
          /\ x.on = Walk(mtNs, WorkerDir).on \cup {Walk(mtNs, WorkerDir).id}
      BY DEF Mount
    <2> HIDE DEF x
    <2>5. \A f \in mtNs : f.mine => ~IsPrefix(WorkerDir, f.at)
      BY <2>2, OwnPlaces DEF Mine
    <2>6. WorkerDir \in Range(PathOrder)
      BY PathFacts
    <2>7. NsInv(mtNs \cup {x}, mtRom, mtMade + 1)
      BY <1>1, <2>4, <2>5, <2>6, AddMount
    <2>8. Staged'
      BY <2>1, <2>3 DEF Staged, Mine
    <2> QED BY <2>1, <2>7, <2>8 DEF MountsInv
  <1>8. ASSUME NEW p \in Targets, NEW mirror \in BOOLEAN, MountForModule(p, mirror)
        PROVE  MountsInv'
    <2> DEFINE x == Mount(mtNs, p, ~mirror)
    <2>1. mtStage = "worker" /\ mtStage' = mtStage /\ mtRom' = mtRom
          /\ mtNs' = mtNs \cup {x} /\ mtMade' = mtMade + 1
      BY <1>8 DEF MountForModule
    <2>2. PICK t \in Mine : t.at = MagiskTmp
      BY <1>1, <2>1 DEF Staged
    <2>3. x.id = mtMade + 1 /\ x.at = p /\ x.mine = ~mirror
          /\ x.on = Walk(mtNs, p).on \cup {Walk(mtNs, p).id}
      BY DEF Mount
    <2>4. x.mine \in BOOLEAN /\ (x.mine \/ Walk(mtNs, p).mine)
      BY <1>8, <2>3 DEF MountForModule
    <2> HIDE DEF x
    <2>5. p \in Range(PathOrder) /\ p \in Paths
      BY PathFacts
    <2>6. ASSUME NEW f \in mtNs, f.mine
          PROVE  ~IsPrefix(p, f.at)
      <3>1. f \notin mtRom /\ f # Root
        BY <1>1, <2>6 DEF NsInv, RomKept, Root
      <3>2. f.at \in Paths /\ MagiskTmp \in Paths
        BY <1>1, TargetIsPath, OwnPlaces DEF NsInv
      <3>3. CASE IsPrefix(MagiskTmp, f.at)
        BY <2>5, <3>2, <3>3, PrefixFacts, TargetsOutside
      <3>4. CASE ~IsPrefix(MagiskTmp, f.at)
        BY <1>8, <3>1, <3>4 DEF MountForModule, MadeForModules
      <3> QED BY <3>3, <3>4
    <2>7. NsInv(mtNs \cup {x}, mtRom, mtMade + 1)
      BY <1>1, <2>3, <2>4, <2>5, <2>6, AddMount, ZenonT(40)
    <2>8. Staged'
      BY <2>1, <2>2 DEF Staged, Mine
    <2> QED BY <2>1, <2>7, <2>8 DEF MountsInv
  <1>9. ASSUME NEW ok \in BOOLEAN, CleanMounts(ok)
        PROVE  MountsInv'
    <2> DEFINE ns == Unmounted(mtNs, ModuleMnt)
    <2>1. mtStage = "worker" /\ mtStage' = "clean" /\ UNCHANGED <<mtRom, mtMade>>
          /\ mtNs' = IF ok THEN Unmounted(ns, WorkerDir) ELSE ns
      BY <1>9 DEF CleanMounts
    <2>2. PICK t \in mtNs : t.mine /\ t.at = MagiskTmp
      BY <1>1, <2>1 DEF Staged, Mine
    <2>3. /\ ModuleMnt \in Paths /\ WorkerDir \in Paths
          /\ IsPrefix(t.at, ModuleMnt) /\ IsPrefix(t.at, WorkerDir)
          /\ t.at # ModuleMnt /\ t.at # WorkerDir
      BY <2>2, OwnPlaces
    <2>4. NsInv(ns, mtRom, mtMade) /\ t \in ns
      BY <1>1, <2>2, <2>3, UnmountInside
    <2> HIDE DEF ns
    <2>5. NsInv(Unmounted(ns, WorkerDir), mtRom, mtMade)
      BY <2>2, <2>3, <2>4, UnmountInside
    <2> QED BY <2>1, <2>4, <2>5 DEF MountsInv, Staged
  <1>10. CASE RevertUnmount
    <2> DEFINE S == {m.at : m \in {x \in mtNs : x.mine}}
               kept == RetainedTo(S)[Len(PathOrder)]
    <2>1. mtNs' = UnmountedTo(mtNs, kept)[Len(kept)] /\ mtStage' = "reverted" /\ UNCHANGED <<mtRom, mtMade>>
      BY <1>10 DEF RevertUnmount
    <2>2. S \subseteq Range(PathOrder)
      BY <1>1 DEF NsInv, Shape, Root
    <2>3. /\ kept \in Seq(S)
          /\ \A p \in S : \E a \in 1..Len(kept) : IsPrefix(kept[a], p)
          /\ \A a, b \in 1..Len(kept) : IsPrefix(kept[a], kept[b]) => a = b
      <3> HIDE DEF S
      <3> QED BY <2>2, KeptTargets
    <2>4. \A f \in mtNs : f.mine => \E a \in 1..Len(kept) : IsPrefix(kept[a], f.at)
      BY <2>3
    <2> HIDE DEF kept
    <2>5. mtNs' = mtRom
      BY <1>1, <2>1, <2>3, <2>4, AllUnmounted
    <2>6. NsInv(mtRom, mtRom, mtMade)
      BY <1>1 DEF NsInv, Shape, RomKept, Visible, Nested, Based
    <2> QED BY <2>1, <2>5, <2>6 DEF MountsInv, Staged
  <1> QED BY <1>2, <1>3, <1>4, <1>5, <1>6, <1>7, <1>8, <1>9, <1>10 DEF NextNs, mountsVars

\* Magisk's mounts are never hidden, all that is not the device's lies on one of them, and
\* the mounts of the device are all there, in every stage.
THEOREM MountsInvariance == SpecMounts => []MountsInv
  BY InitMountsInv, NextMountsInv, PTL DEF SpecMounts

\* revert_unmount leaves a process exactly the mounts of the device, and switch_root takes
\* every one of them along and never stops half-way, for every device, every set of places
\* the modules use and every order of the mounts.
THEOREM RevertCorrect == SpecMounts => []RevertExact
  <1>1. MountsInv => RevertExact
    BY DEF MountsInv, Staged, RevertExact
  <1> QED BY <1>1, MountsInvariance, PTL
=============================================================================
