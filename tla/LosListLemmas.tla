---------------------------- MODULE LosListLemmas ----------------------------
(***************************************************************************)
(* Facts about the doubly linked lists of the kernel, modelled as          *)
(* sequences without duplicates: what linking at the tail, unlinking the   *)
(* first node and unlinking a given node do to the set of linked tasks,    *)
(* and where a waiter is linked that is kept in order of priority.         *)
(***************************************************************************)
EXTENDS LosSchedParam, TLAPS, WellFoundedInduction

LEMMA ToSetIn ==
    ASSUME NEW S, NEW s \in Seq(S)
    PROVE  /\ ToSet(s) \subseteq S
           /\ \A e : e \in ToSet(s) <=> \E i \in 1..Len(s) : s[i] = e
           /\ s = <<>> <=> ToSet(s) = {}
           /\ s = <<>> <=> Len(s) = 0
BY DEF ToSet

LEMMA ConcatList ==
    ASSUME NEW S, NEW s \in Seq(S), NEW t \in Seq(S)
    PROVE  s \o t \in Seq(S) /\ Len(s \o t) = Len(s) + Len(t)
OBVIOUS

LEMMA AppendList ==
    ASSUME NEW S, NEW s \in Seq(S), NEW e \in S
    PROVE  /\ Append(s, e) \in Seq(S)
           /\ ToSet(Append(s, e)) = ToSet(s) \cup {e}
           /\ IsInjective(s) /\ e \notin ToSet(s) => IsInjective(Append(s, e))
<1>1. Append(s, e) \in Seq(S) /\ Len(Append(s, e)) = Len(s) + 1 /\ Len(s) \in Nat
  OBVIOUS
<1>2. \A i \in 1..Len(s) + 1 : Append(s, e)[i] = IF i = Len(s) + 1 THEN e ELSE s[i]
  OBVIOUS
<1>3. ToSet(Append(s, e)) = ToSet(s) \cup {e}
  BY <1>1, <1>2 DEF ToSet
<1>4. IsInjective(s) /\ e \notin ToSet(s) => IsInjective(Append(s, e))
  BY <1>1, <1>2 DEF ToSet, IsInjective
<1> QED BY <1>1, <1>3, <1>4

LEMMA TailList ==
    ASSUME NEW S, NEW s \in Seq(S), s # <<>>
    PROVE  /\ Tail(s) \in Seq(S)
           /\ Head(s) \in S
           /\ ToSet(s) = ToSet(Tail(s)) \cup {Head(s)}
           /\ IsInjective(s) => IsInjective(Tail(s)) /\ Head(s) \notin ToSet(Tail(s))
<1>1. Tail(s) \in Seq(S) /\ Head(s) \in S /\ Head(s) = s[1]
  OBVIOUS
<1>2. Len(Tail(s)) = Len(s) - 1 /\ Len(s) \in Nat \ {0}
  OBVIOUS
<1>3. \A i \in 1..Len(s) - 1 : Tail(s)[i] = s[i + 1]
  OBVIOUS
<1>4. ToSet(s) = ToSet(Tail(s)) \cup {Head(s)}
  <2>1. ASSUME NEW e \in ToSet(s) PROVE e \in ToSet(Tail(s)) \cup {Head(s)}
    <3>1. PICK i \in 1..Len(s) : e = s[i]
      BY DEF ToSet
    <3>2. CASE i = 1
      BY <3>1, <3>2, <1>1
    <3>3. CASE i # 1
      <4>1. i - 1 \in 1..Len(s) - 1 /\ Tail(s)[i - 1] = e
        BY <3>1, <3>3, <1>2, <1>3
      <4>2. i - 1 \in DOMAIN Tail(s)
        BY <4>1, <1>1, <1>2
      <4> QED BY <4>1, <4>2 DEF ToSet
    <3> QED BY <3>2, <3>3
  <2>2. ASSUME NEW e \in ToSet(Tail(s)) \cup {Head(s)} PROVE e \in ToSet(s)
    BY <1>1, <1>2, <1>3 DEF ToSet
  <2> QED BY <2>1, <2>2
<1>5. IsInjective(s) => IsInjective(Tail(s)) /\ Head(s) \notin ToSet(Tail(s))
  BY <1>1, <1>2, <1>3 DEF ToSet, IsInjective
<1> QED BY <1>1, <1>4, <1>5

LEMMA RemoveAtList ==
    ASSUME NEW S, NEW s \in Seq(S), NEW p \in 1..Len(s)
    PROVE  /\ RemoveAt(s, p) \in Seq(S)
           /\ Len(RemoveAt(s, p)) = Len(s) - 1
           /\ \A i \in 1..Len(s) - 1 :
                 RemoveAt(s, p)[i] = IF i < p THEN s[i] ELSE s[i + 1]
<1>1. Len(s) \in Nat
  OBVIOUS
<1>2. /\ SubSeq(s, 1, p - 1) \in Seq(S)
      /\ Len(SubSeq(s, 1, p - 1)) = p - 1
      /\ \A i \in 1..p - 1 : SubSeq(s, 1, p - 1)[i] = s[i]
  BY <1>1
<1>3. /\ SubSeq(s, p + 1, Len(s)) \in Seq(S)
      /\ Len(SubSeq(s, p + 1, Len(s))) = Len(s) - p
      /\ \A i \in 1..Len(s) - p : SubSeq(s, p + 1, Len(s))[i] = s[i + p]
  BY <1>1
<1> DEFINE a == SubSeq(s, 1, p - 1)
           b == SubSeq(s, p + 1, Len(s))
<1>4. RemoveAt(s, p) = a \o b
  BY DEF RemoveAt
<1> HIDE DEF a, b
<1>5. /\ a \in Seq(S) /\ Len(a) = p - 1 /\ \A i \in 1..p - 1 : a[i] = s[i]
      /\ b \in Seq(S) /\ Len(b) = Len(s) - p /\ \A i \in 1..Len(s) - p : b[i] = s[i + p]
  BY <1>2, <1>3 DEF a, b
<1>6. a \o b \in Seq(S) /\ Len(a \o b) = Len(s) - 1
  BY <1>1, <1>5
<1>7. ASSUME NEW i \in 1..Len(s) - 1
      PROVE  (a \o b)[i] = IF i < p THEN s[i] ELSE s[i + 1]
  <2>1. CASE i < p
    BY <1>1, <1>5, <2>1
  <2>2. CASE ~(i < p)
    <3>1. (a \o b)[i] = b[i - (p - 1)] /\ i - (p - 1) \in 1..Len(s) - p
      BY <1>1, <1>5, <2>2, SMTT(40)
    <3> QED BY <3>1, <1>1, <1>5, <2>2
  <2> QED BY <2>1, <2>2
<1> QED BY <1>4, <1>6, <1>7

LEMMA DeleteList ==
    ASSUME NEW S, NEW s \in Seq(S), NEW e
    PROVE  /\ LOS_ListDelete(s, e) \in Seq(S)
           /\ ToSet(LOS_ListDelete(s, e)) \subseteq ToSet(s)
           /\ e \notin ToSet(s) => LOS_ListDelete(s, e) = s
           /\ IsInjective(s) => /\ IsInjective(LOS_ListDelete(s, e))
                                /\ ToSet(LOS_ListDelete(s, e)) = ToSet(s) \ {e}
<1>1. CASE e \notin ToSet(s)
  BY <1>1 DEF LOS_ListDelete
<1>2. CASE e \in ToSet(s)
  <2>1. PICK p \in DOMAIN s : s[p] = e /\ LOS_ListDelete(s, e) = RemoveAt(s, p)
    BY <1>2 DEF LOS_ListDelete, ToSet
  <2>3. p \in 1..Len(s) /\ s[p] = e /\ Len(s) \in Nat
    BY <2>1
  <2> DEFINE r == RemoveAt(s, p)
  <2>4. /\ r \in Seq(S) /\ Len(r) = Len(s) - 1
        /\ \A i \in 1..Len(s) - 1 : r[i] = IF i < p THEN s[i] ELSE s[i + 1]
    BY <2>3, RemoveAtList
  <2> HIDE DEF r
  <2>5. ToSet(r) \subseteq ToSet(s)
    BY <2>3, <2>4, SMTT(40) DEF ToSet
  <2>6. ASSUME IsInjective(s) PROVE IsInjective(r)
    <3>1. \A k, l \in 1..Len(s) : s[k] = s[l] => k = l
      BY <2>6 DEF IsInjective
    <3>2. SUFFICES ASSUME NEW i \in 1..Len(s) - 1, NEW j \in 1..Len(s) - 1, r[i] = r[j]
                   PROVE  i = j
      BY <2>3, <2>4 DEF IsInjective
    <3>3. i \in Int /\ j \in Int /\ p \in Int
      BY <2>3
    <3>4. CASE i < p /\ j < p
      <4>1. s[i] = s[j] /\ i \in 1..Len(s) /\ j \in 1..Len(s)
        BY <3>2, <3>4, <2>3, <2>4
      <4> QED BY <4>1, <3>1
    <3>5. CASE i < p /\ ~(j < p)
      <4>1. s[i] = s[j + 1] /\ i \in 1..Len(s) /\ j + 1 \in 1..Len(s)
        BY <3>2, <3>5, <2>3, <2>4
      <4>2. i = j + 1
        BY <4>1, <3>1
      <4> QED BY <4>2, <3>3, <3>5
    <3>6. CASE ~(i < p) /\ j < p
      <4>1. s[i + 1] = s[j] /\ i + 1 \in 1..Len(s) /\ j \in 1..Len(s)
        BY <3>2, <3>6, <2>3, <2>4
      <4>2. i + 1 = j
        BY <4>1, <3>1
      <4> QED BY <4>2, <3>3, <3>6
    <3>7. CASE ~(i < p) /\ ~(j < p)
      <4>1. s[i + 1] = s[j + 1] /\ i + 1 \in 1..Len(s) /\ j + 1 \in 1..Len(s)
        BY <3>2, <3>7, <2>3, <2>4
      <4>2. i + 1 = j + 1
        BY <4>1, <3>1
      <4> QED BY <4>2, <3>3
    <3> QED BY <3>4, <3>5, <3>6, <3>7
  <2>7. ASSUME IsInjective(s) PROVE e \notin ToSet(r)
    BY <2>3, <2>4, <2>7, SMTT(40) DEF IsInjective, ToSet
  <2>8. ASSUME NEW u \in ToSet(s), u # e PROVE u \in ToSet(r)
    <3>1. PICK i \in 1..Len(s) : s[i] = u
      BY ToSetIn
    <3>2. CASE i < p
      <4>1. i \in 1..Len(r) /\ r[i] = u
        BY <3>1, <3>2, <2>3, <2>4
      <4> QED BY <4>1, <2>4, ToSetIn
    <3>3. CASE i > p
      <4>1. i - 1 \in 1..Len(r) /\ r[i - 1] = u
        BY <3>1, <3>3, <2>3, <2>4
      <4> QED BY <4>1, <2>4, ToSetIn
    <3> QED BY <3>1, <3>2, <3>3, <2>3, <2>8
  <2> QED BY <2>1, <2>4, <2>5, <2>6, <2>7, <2>8, <1>2 DEF r
<1> QED BY <1>1, <1>2

LEMMA InsertList ==
    ASSUME NEW S, NEW s \in Seq(S), NEW e \in S, NEW p \in 1..Len(s) + 1
    PROVE  /\ InsertAt(s, p, e) \in Seq(S)
           /\ Len(InsertAt(s, p, e)) = Len(s) + 1
           /\ \A i \in 1..Len(s) + 1 :
                 InsertAt(s, p, e)[i] = IF i < p THEN s[i] ELSE IF i = p THEN e ELSE s[i - 1]
           /\ ToSet(InsertAt(s, p, e)) = ToSet(s) \cup {e}
           /\ IsInjective(s) /\ e \notin ToSet(s) => IsInjective(InsertAt(s, p, e))
<1>1. Len(s) \in Nat
  OBVIOUS
<1> DEFINE a == SubSeq(s, 1, p - 1)
           b == SubSeq(s, p, Len(s))
           r == InsertAt(s, p, e)
<1>2. a \in Seq(S) /\ Len(a) = p - 1 /\ \A i \in 1..p - 1 : a[i] = s[i]
  BY <1>1
<1>3. /\ b \in Seq(S) /\ Len(b) = Len(s) - p + 1
      /\ \A i \in 1..Len(s) - p + 1 : b[i] = s[i + p - 1]
  BY <1>1
<1>4. r = a \o <<e>> \o b
  BY DEF InsertAt
<1> HIDE DEF a, b, r
<1>5. /\ a \o <<e>> \in Seq(S) /\ Len(a \o <<e>>) = p
      /\ \A i \in 1..p : (a \o <<e>>)[i] = IF i < p THEN s[i] ELSE e
  BY <1>2
<1> DEFINE c == a \o <<e>>
<1> HIDE DEF c
<1>6. c \in Seq(S) /\ Len(c) = p /\ \A i \in 1..p : c[i] = IF i < p THEN s[i] ELSE e
  BY <1>5 DEF c
<1>7. r \in Seq(S) /\ Len(r) = Len(s) + 1
  <2>1. r = c \o b
    BY <1>4 DEF c
  <2>2. c \o b \in Seq(S) /\ Len(c \o b) = Len(c) + Len(b)
    BY <1>3, <1>6, ConcatList
  <2> QED BY <2>1, <2>2, <1>1, <1>3, <1>6
<1>8. ASSUME NEW i \in 1..Len(s) + 1
      PROVE  r[i] = IF i < p THEN s[i] ELSE IF i = p THEN e ELSE s[i - 1]
  <2>1. r = c \o b
    BY <1>4 DEF c
  <2>2. CASE i <= p
    BY <2>1, <2>2, <1>1, <1>3, <1>6
  <2>3. CASE i > p
    <3>1. (c \o b)[i] = b[i - p] /\ i - p \in 1..Len(s) - p + 1
      BY <1>1, <1>3, <1>6, <2>3
    <3>2. b[i - p] = s[i - 1]
      BY <3>1, <1>1, <1>3
    <3>3. ~(i < p) /\ i # p
      BY <1>1, <2>3
    <3>4. r[i] = s[i - 1]
      BY <3>1, <3>2, <2>1
    <3> QED BY <3>3, <3>4
  <2> QED BY <1>1, <2>2, <2>3
<1>9. ToSet(r) = ToSet(s) \cup {e}
  <2>1. ToSet(r) \subseteq ToSet(s) \cup {e}
    BY <1>1, <1>7, <1>8 DEF ToSet
  <2>2. e \in ToSet(r)
    BY <1>1, <1>7, <1>8, ToSetIn
  <2>3. ASSUME NEW u \in ToSet(s) PROVE u \in ToSet(r)
    <3>1. PICK i \in 1..Len(s) : s[i] = u
      BY ToSetIn
    <3>2. CASE i < p
      <4>1. i \in 1..Len(r) /\ r[i] = u
        BY <3>1, <3>2, <1>1, <1>7, <1>8
      <4> QED BY <4>1, <1>7, ToSetIn
    <3>3. CASE i >= p
      <4>1. i + 1 \in 1..Len(r) /\ r[i + 1] = u
        BY <3>1, <3>3, <1>1, <1>7, <1>8
      <4> QED BY <4>1, <1>7, ToSetIn
    <3> QED BY <3>1, <3>2, <3>3, <1>1
  <2> QED BY <2>1, <2>2, <2>3
<1>10. ASSUME IsInjective(s), e \notin ToSet(s) PROVE IsInjective(r)
  <2>1. SUFFICES ASSUME NEW i \in 1..Len(r), NEW j \in 1..Len(r), r[i] = r[j], i < j
                 PROVE  FALSE
    BY <1>1, <1>7 DEF IsInjective
  <2>2. \A k \in 1..Len(s) : s[k] # e
    BY <1>10, ToSetIn
  <2>3. \A k, l \in 1..Len(s) : s[k] = s[l] => k = l
    BY <1>10 DEF IsInjective
  <2>4. i \in Int /\ j \in Int /\ p \in Int /\ Len(s) \in Nat
        /\ 1 <= i /\ i < j /\ j <= Len(s) + 1
    BY <2>1, <1>1, <1>7
  <2>5. PICK k \in 1..Len(s) + 1, l \in 1..Len(s) + 1 : k = i /\ l = j
    BY <2>4
  <2>6. CASE i = p
    <3>1. r[i] = e /\ r[j] = s[j - 1] /\ j - 1 \in 1..Len(s)
      BY <2>4, <2>5, <2>6, <1>8
    <3> QED BY <3>1, <2>1, <2>2
  <2>7. CASE j = p
    <3>1. r[j] = e /\ r[i] = s[i] /\ i \in 1..Len(s)
      BY <2>4, <2>5, <2>7, <1>8
    <3> QED BY <3>1, <2>1, <2>2
  <2>8. CASE i < p /\ j < p
    <3>1. r[i] = s[i] /\ r[j] = s[j] /\ i \in 1..Len(s) /\ j \in 1..Len(s)
      BY <2>4, <2>5, <2>8, <1>8
    <3>2. i = j
      BY <3>1, <2>1, <2>3
    <3> QED BY <3>2, <2>4
  <2>9. CASE i < p /\ j > p
    <3>1. r[i] = s[i] /\ r[j] = s[j - 1] /\ i \in 1..Len(s) /\ j - 1 \in 1..Len(s) /\ i # j - 1
      BY <2>4, <2>5, <2>9, <1>8
    <3> QED BY <3>1, <2>1, <2>3
  <2>10. CASE i > p
    <3>1. /\ r[i] = s[i - 1] /\ r[j] = s[j - 1]
          /\ i - 1 \in 1..Len(s) /\ j - 1 \in 1..Len(s) /\ i - 1 # j - 1
      BY <2>4, <2>5, <2>10, <1>8
    <3> QED BY <3>1, <2>1, <2>3
  <2> QED BY <2>4, <2>6, <2>7, <2>8, <2>9, <2>10
<1> QED BY <1>7, <1>8, <1>9, <1>10 DEF r

\* A nonempty set of naturals has a least element.
LEMMA NatMin ==
  ASSUME NEW T \in SUBSET Nat, T # {}
  PROVE  \E x \in T : \A y \in T : x <= y
<1>1. PICK x \in T : \A y \in T : ~(<<y, x>> \in OpToRel(<, Nat))
  BY NatLessThanWellFounded, WFMin, Zenon
<1>2. \A y \in T : <<y, x>> \in Nat \X Nat
  OBVIOUS
<1>3. \A y \in T : ~(y < x)
  BY <1>1, <1>2 DEF OpToRel
<1>4. \A y \in T : x \in Nat /\ y \in Nat
  OBVIOUS
<1>5. \A y \in T : x <= y
  BY <1>3, <1>4
<1> QED BY <1>1, <1>5, Zenon

\* A waiter is inserted into the list or at one of its ends.
LEMMA FindPosInRange ==
  ASSUME NEW S, NEW policy, NEW base \in [S -> Nat], NEW prio \in [S -> Nat], NEW t \in S,
         NEW l \in Seq(S)
  PROVE  LockPendFindPos(policy, base, prio, t, l) \in 1..Len(l) + 1
<1> DEFINE cmp(u) == SchedParamCompare(policy, base, prio, u, t)
           D == {k \in DOMAIN l : cmp(l[k]) >= 0}
<1>1. CASE l = <<>> \/ cmp(Head(l)) > 0
  BY <1>1 DEF LockPendFindPos
<1>2. CASE ~(l = <<>> \/ cmp(Head(l)) > 0) /\ cmp(Last(l)) <= 0
  BY <1>2 DEF LockPendFindPos
<1>3. CASE ~(l = <<>> \/ cmp(Head(l)) > 0) /\ ~(cmp(Last(l)) <= 0)
  <2>1. l # <<>> /\ Len(l) \in DOMAIN l /\ Last(l) = l[Len(l)] /\ l[Len(l)] \in S
    BY <1>3 DEF Last
  <2>2. cmp(l[Len(l)]) \in Int
    BY <2>1 DEF SchedParamCompare, HPFParamCompare
  <2>3. Len(l) \in D
    BY <1>3, <2>1, <2>2
  <2>4. D \in SUBSET Nat /\ D # {}
    BY <2>3
  <2>5. PICK i \in D : \A y \in D : i <= y
    BY <2>4, NatMin
  <2>6. Min(D) \in D
    BY <2>5 DEF Min
  <2>7. Min(D) \in 1..Len(l)
    BY <2>6
  <2>8. LockPendFindPos(policy, base, prio, t, l) \in {Min(D), Min(D) + 1}
    BY <1>3 DEF LockPendFindPos
  <2> QED BY <2>7, <2>8
<1> QED BY <1>1, <1>2, <1>3

-----------------------------------------------------------------------------
(* A walk that unlinks elements                                             *)

\* One step of the walk, for the values g of the steps before it.
WalkStep(g, i, l, S) ==
    IF i = 0 THEN <<>> ELSE IF l[i] \in S THEN g[i - 1] ELSE Append(g[i - 1], l[i])

\* The elements of K come before the others.
ComeFirst(l, K) == \A i, j \in 1..Len(l) : i < j /\ l[j] \in K => l[i] \in K

\* What is left after i steps.
LeftAfter(r, i, l, S, T) ==
    /\ r \in Seq(T)
    /\ ToSet(r) = {l[k] : k \in 1..i} \ S
    /\ IsInjective(l) => IsInjective(r)
    /\ \A K : ComeFirst(l, K) => ComeFirst(r, K)

\* One more step.
LEMMA WalkOn ==
    ASSUME NEW T, NEW l \in Seq(T), NEW S, NEW i \in 1..Len(l), NEW r, LeftAfter(r, i - 1, l, S, T)
    PROVE  LeftAfter(IF l[i] \in S THEN r ELSE Append(r, l[i]), i, l, S, T)
<1>0. /\ r \in Seq(T) /\ ToSet(r) = {l[k] : k \in 1..i - 1} \ S /\ (IsInjective(l) => IsInjective(r))
      /\ \A K : ComeFirst(l, K) => ComeFirst(r, K)
  BY DEF LeftAfter
<1>1. {l[k] : k \in 1..i} = {l[k] : k \in 1..i - 1} \cup {l[i]}
  <2>1. 1..i = (1..i - 1) \cup {i}
    OBVIOUS
  <2> QED BY <2>1
<1>2. CASE l[i] \in S
  <2>1. ToSet(r) = {l[k] : k \in 1..i} \ S
    BY <1>0, <1>1, <1>2
  <2> QED BY <1>0, <1>2, <2>1 DEF LeftAfter
<1>3. CASE l[i] \notin S
  <2>1. PICK e \in T : e = l[i]
    OBVIOUS
  <2>2. PICK a : a = Append(r, e)
    OBVIOUS
  <2>3. a \in Seq(T) /\ ToSet(a) = ToSet(r) \cup {e} /\ (IsInjective(r) /\ e \notin ToSet(r) => IsInjective(a))
    BY <1>0, <2>2, AppendList
  <2>4. ToSet(a) = {l[k] : k \in 1..i} \ S
    BY <1>0, <1>1, <1>3, <2>1, <2>3
  <2>5. IsInjective(l) => e \notin ToSet(r)
    <3>1. SUFFICES ASSUME IsInjective(l), e \in ToSet(r) PROVE FALSE
      OBVIOUS
    <3>2. PICK k \in 1..i - 1 : l[k] = e
      BY <1>0, <3>1
    <3>3. k \in DOMAIN l /\ i \in DOMAIN l /\ k # i
      OBVIOUS
    <3> QED BY <2>1, <3>1, <3>2, <3>3 DEF IsInjective
  <2>6. ASSUME NEW K, ComeFirst(l, K) PROVE ComeFirst(a, K)
    <3>1. ComeFirst(r, K)
      BY <1>0, <2>6
    <3>2. Len(a) = Len(r) + 1 /\ Len(r) \in Nat /\ \A k \in 1..Len(a) : a[k] = IF k = Len(r) + 1 THEN e ELSE r[k]
      BY <1>0, <2>2
    <3>3. SUFFICES ASSUME NEW m \in 1..Len(a), NEW n \in 1..Len(a), m < n, a[n] \in K PROVE a[m] \in K
      BY DEF ComeFirst
    <3>4. CASE n # Len(r) + 1
      <4>1. m \in 1..Len(r) /\ n \in 1..Len(r) /\ a[m] = r[m] /\ a[n] = r[n]
        BY <3>2, <3>3, <3>4
      <4> QED BY <3>1, <3>3, <4>1 DEF ComeFirst
    <3>5. CASE n = Len(r) + 1
      <4>1. m \in 1..Len(r) /\ a[m] = r[m] /\ a[n] = e
        BY <3>2, <3>3, <3>5
      <4>2. a[m] \in ToSet(r)
        BY <1>0, <4>1, ToSetIn
      <4>3. PICK k \in 1..i - 1 : l[k] = a[m]
        BY <1>0, <4>2
      <4>4. k \in 1..Len(l) /\ k < i /\ l[i] \in K
        BY <2>1, <3>3, <4>1
      <4> QED BY <2>6, <4>3, <4>4 DEF ComeFirst
    <3> QED BY <3>4, <3>5
  <2>7. LeftAfter(a, i, l, S, T)
    BY <1>0, <2>3, <2>4, <2>5, <2>6 DEF LeftAfter
  <2> QED BY <1>3, <2>1, <2>2, <2>7
<1> QED BY <1>2, <1>3

\* The walk is defined.
LEMMA WalkExists ==
    ASSUME NEW T, NEW l \in Seq(T), NEW S
    PROVE  \E g : g = [i \in 0..Len(l) |-> WalkStep(g, i, l, S)]
<1> DEFINE P(n) == \E g : DOMAIN g = 0..n /\ g = [i \in 0..n |-> WalkStep(g, i, l, S)]
           Bad == {n \in 0..Len(l) : ~P(n)}
<1>1. SUFFICES ASSUME Bad # {} PROVE FALSE
  BY DEF WalkStep
<1>2. Bad \in SUBSET Nat
  OBVIOUS
<1>3. PICK n \in Bad : \A y \in Bad : n <= y
  BY <1>1, <1>2, NatMin
<1>4. n \in 0..Len(l) /\ ~P(n)
  OBVIOUS
<1>5. CASE n = 0
  <2>1. PICK g : g = [i \in 0..0 |-> <<>>]
    OBVIOUS
  <2>2. DOMAIN g = 0..0 /\ g = [i \in 0..0 |-> WalkStep(g, i, l, S)]
    BY <2>1 DEF WalkStep
  <2> QED BY <1>4, <1>5, <2>2
<1>6. CASE n # 0
  <2>1. n - 1 \in 0..Len(l) /\ n - 1 \notin Bad
    BY <1>3, <1>4, <1>6
  <2>2. PICK g : DOMAIN g = 0..(n - 1) /\ g = [i \in 0..(n - 1) |-> WalkStep(g, i, l, S)]
    BY <2>1
  <2>3. PICK h : h = [i \in 0..n |-> WalkStep(g, i, l, S)]
    OBVIOUS
  <2>4. \A i \in 0..n : i # 0 => h[i - 1] = g[i - 1]
    <3>1. SUFFICES ASSUME NEW i \in 0..n, i # 0 PROVE h[i - 1] = g[i - 1]
      OBVIOUS
    <3>2. i - 1 \in 0..(n - 1) /\ i - 1 \in 0..n
      BY <1>4, <3>1
    <3>3. h[i - 1] = WalkStep(g, i - 1, l, S)
      BY <2>3, <3>2
    <3>4. g[i - 1] = WalkStep(g, i - 1, l, S)
      BY <2>2, <3>2
    <3> QED BY <3>3, <3>4
  <2>5. \A i \in 0..n : WalkStep(g, i, l, S) = WalkStep(h, i, l, S)
    BY <2>4 DEF WalkStep
  <2>6. DOMAIN h = 0..n /\ h = [i \in 0..n |-> WalkStep(h, i, l, S)]
    BY <2>3, <2>5
  <2> QED BY <1>4, <2>6
<1> QED BY <1>5, <1>6

LEMMA WalkDone ==
    ASSUME NEW T, NEW l \in Seq(T), NEW S
    PROVE  LeftAfter(ListWithout(l, S), Len(l), l, S, T)
<1> DEFINE Walk(g) == g = [i \in 0..Len(l) |-> IF i = 0 THEN <<>>
                               ELSE IF l[i] \in S THEN g[i - 1] ELSE Append(g[i - 1], l[i])]
<1>1. \E g : Walk(g)
  <2>1. PICK g : g = [i \in 0..Len(l) |-> WalkStep(g, i, l, S)]
    BY WalkExists
  <2>2. Walk(g)
    BY <2>1 DEF WalkStep
  <2> QED BY <2>2
<1>2. PICK f : f = CHOOSE g : Walk(g)
  OBVIOUS
<1>3. Walk(f)
  BY <1>1, <1>2
<1>4. ListWithout(l, S) = f[Len(l)]
  BY <1>2 DEF ListWithout
<1>5. \A i \in 0..Len(l) : f[i] = WalkStep(f, i, l, S)
  BY <1>3 DEF WalkStep
<1> DEFINE Bad == {n \in 0..Len(l) : ~LeftAfter(f[n], n, l, S, T)}
<1>6. ASSUME Bad # {} PROVE FALSE
  <2>1. Bad \in SUBSET Nat
    OBVIOUS
  <2>2. PICK n \in Bad : \A y \in Bad : n <= y
    BY <1>6, <2>1, NatMin
  <2>3. n \in 0..Len(l) /\ ~LeftAfter(f[n], n, l, S, T)
    OBVIOUS
  <2>4. CASE n = 0
    <3>1. f[0] = <<>>
      BY <1>5, <2>3, <2>4 DEF WalkStep
    <3>2. LeftAfter(<<>>, 0, l, S, T)
      BY DEF LeftAfter, ToSet, IsInjective, ComeFirst
    <3> QED BY <2>3, <2>4, <3>1, <3>2
  <2>5. CASE n # 0
    <3>1. n - 1 \in 0..Len(l) /\ n \in 1..Len(l) /\ n - 1 \notin Bad
      BY <2>2, <2>3, <2>5
    <3>2. PICK r : r = f[n - 1]
      OBVIOUS
    <3>3. LeftAfter(r, n - 1, l, S, T)
      BY <3>1, <3>2
    <3>4. f[n] = IF l[n] \in S THEN r ELSE Append(r, l[n])
      BY <1>5, <2>3, <2>5, <3>2 DEF WalkStep
    <3>5. LeftAfter(IF l[n] \in S THEN r ELSE Append(r, l[n]), n, l, S, T)
      BY <3>1, <3>3, WalkOn
    <3> QED BY <2>3, <3>4, <3>5
  <2> QED BY <2>4, <2>5
<1>7. LeftAfter(f[Len(l)], Len(l), l, S, T)
  BY <1>6
<1> QED BY <1>4, <1>7

LEMMA WithoutList ==
    ASSUME NEW T, NEW l \in Seq(T), NEW S
    PROVE  /\ ListWithout(l, S) \in Seq(T)
           /\ ToSet(ListWithout(l, S)) = ToSet(l) \ S
           /\ IsInjective(l) => IsInjective(ListWithout(l, S))
<1>1. LeftAfter(ListWithout(l, S), Len(l), l, S, T)
  BY WalkDone
<1>2. ToSet(l) = {l[k] : k \in 1..Len(l)}
  BY ToSetIn
<1> QED BY <1>1, <1>2 DEF LeftAfter

\* The elements that came first still do.
LEMMA WithoutFirst ==
    ASSUME NEW T, NEW l \in Seq(T), NEW S, NEW K, ComeFirst(l, K)
    PROVE  ComeFirst(ListWithout(l, S), K)
BY WalkDone DEF LeftAfter

=============================================================================
