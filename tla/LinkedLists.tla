----------------------------- MODULE LinkedLists -----------------------------
(***************************************************************************)
(* Pointers that stand for sequences: the rings and the lists of pcb.c and *)
(* asl.c, and what an assignment to a pointer does to the sequence.        *)
(***************************************************************************)
EXTENDS ProcQTheorems, FiniteSetTheorems, WellFoundedInduction

-----------------------------------------------------------------------------
(* Induction, for a set of numbers.                                        *)

LEMMA Least ==
  ASSUME NEW T \in SUBSET Nat, T # {}
  PROVE  \E n \in T : \A m \in T : n <= m
<1> DEFINE R == OpToRel(<, Nat)
<1>1. IsWellFoundedOn(R, Nat)
  BY NatLessThanWellFounded
<1>2. ASSUME NEW n \in Nat, NEW m \in Nat, n < m
      PROVE  <<n, m>> \in R
  BY <1>2 DEF OpToRel
<1> HIDE DEF R
<1>3. PICK n \in T : \A m \in T : ~(<<m, n>> \in R)
  BY <1>1, WFMin
<1>4. \A m \in T : ~(m < n)
  BY <1>2, <1>3
<1> QED BY <1>4

LEMMA Induction ==
  ASSUME NEW T \in SUBSET Nat, 0 \in T, \A n \in T : n + 1 \in T
  PROVE  T = Nat
<1> SUFFICES ASSUME T # Nat PROVE FALSE
  OBVIOUS
<1>1. PICK n \in Nat \ T : \A m \in Nat \ T : n <= m
  BY Least
<1>2. n - 1 \in Nat
  OBVIOUS
<1>3. n - 1 \in T
  BY <1>1, <1>2
<1> QED BY <1>1, <1>3

-----------------------------------------------------------------------------
(* Following pointers: nth of PcbHeap, listFrom of AslHeap and siblings of *)
(* PcbTree all go from p along nxt for m steps, or until NULL.             *)

IsWalk(nxt, p, m, f) ==
  f = [n \in 1..m |-> IF n = 1 THEN p
                      ELSE IF f[n - 1] = NULL THEN NULL ELSE nxt[f[n - 1]]]

LEMMA WalkExists ==
  ASSUME NEW nxt, NEW p, NEW m \in Nat
  PROVE  \E f : IsWalk(nxt, p, m, f)
<1> DEFINE T == {k \in Nat : \E f : IsWalk(nxt, p, k, f)}
<1>1. 0 \in T
  <2> DEFINE f == [n \in 1..0 |-> p]
  <2>1. IsWalk(nxt, p, 0, f)
    BY DEF IsWalk
  <2> QED BY <2>1
<1>2. ASSUME NEW k \in T PROVE k + 1 \in T
  <2>1. PICK f : IsWalk(nxt, p, k, f)
    OBVIOUS
  <2> DEFINE last == IF k = 0 THEN p ELSE IF f[k] = NULL THEN NULL ELSE nxt[f[k]]
             g == [n \in 1..k + 1 |-> IF n <= k THEN f[n] ELSE last]
  <2>2. ASSUME NEW n \in 1..k + 1
        PROVE  g[n] = IF n = 1 THEN p
                      ELSE IF g[n - 1] = NULL THEN NULL ELSE nxt[g[n - 1]]
    <3>1. CASE n = k + 1
      BY <3>1
    <3>2. CASE n # k + 1
      <4>1. n \in 1..k /\ g[n] = f[n] /\ (n # 1 => g[n - 1] = f[n - 1])
        BY <3>2
      <4>2. f[n] = IF n = 1 THEN p
                   ELSE IF f[n - 1] = NULL THEN NULL ELSE nxt[f[n - 1]]
        BY <2>1, <4>1 DEF IsWalk
      <4> QED BY <4>1, <4>2
    <3> QED BY <3>1, <3>2
  <2>3. g = [n \in 1..k + 1 |-> g[n]]
    OBVIOUS
  <2> HIDE DEF g
  <2>4. IsWalk(nxt, p, k + 1, g)
    BY <2>2, <2>3 DEF IsWalk
  <2> QED BY <2>4
<1> HIDE DEF T
<1>3. T = Nat
  <2>1. T \in SUBSET Nat
    BY DEF T
  <2> QED BY <1>1, <1>2, <2>1, Induction
<1> QED BY <1>3 DEF T

(* A walk meets the members of a sequence that nxt goes through ...        *)
Path(nxt, s) == \A i \in 1..Len(s) - 1 : nxt[s[i]] = s[i + 1]

Meets(S, nxt, p, m, f, s) ==
  /\ NULL \notin S /\ m \in Nat /\ s \in Seq(S) /\ s # <<>> /\ Len(s) <= m
  /\ p = s[1] /\ Path(nxt, s) /\ IsWalk(nxt, p, m, f)

LEMMA Along ==
  ASSUME NEW S, NEW nxt, NEW p, NEW m, NEW f, NEW s, Meets(S, nxt, p, m, f, s)
  PROVE  \A n \in 1..Len(s) : f[n] = s[n]
<1> DEFINE T == {n \in 1..Len(s) : f[n] # s[n]}
<1> USE DEF Meets
<1> SUFFICES ASSUME T # {} PROVE FALSE
  OBVIOUS
<1>1. T \in SUBSET Nat
  OBVIOUS
<1>2. PICK n \in T : \A k \in T : n <= k
  <2> HIDE DEF T
  <2> QED BY <1>1, Least
<1>3. n \in 1..Len(s) /\ f[n] # s[n] /\ Len(s) \in Nat /\ n \in 1..m
  OBVIOUS
<1>4. \A k \in 1..Len(s) : k < n => f[k] = s[k]
  BY <1>2
<1> HIDE DEF T
<1>5. f[n] = IF n = 1 THEN p ELSE IF f[n - 1] = NULL THEN NULL ELSE nxt[f[n - 1]]
  BY <1>3 DEF IsWalk
<1>6. CASE n = 1
  BY <1>3, <1>5, <1>6
<1>7. CASE n # 1
  <2>1. n - 1 \in 1..Len(s) - 1 /\ n - 1 \in 1..Len(s)
    BY <1>3, <1>7
  <2>2. f[n - 1] = s[n - 1]
    BY <1>3, <1>4, <2>1
  <2>3. s[n - 1] \in S
    BY <2>1
  <2>4. nxt[s[n - 1]] = s[n]
    BY <1>3, <2>1 DEF Path
  <2> QED BY <1>3, <1>5, <1>7, <2>2, <2>3, <2>4
<1> QED BY <1>6, <1>7

(* ... and nothing else when the last one points nowhere.                  *)
LEMMA Beyond ==
  ASSUME NEW S, NEW nxt, NEW p, NEW m, NEW f, NEW s, Meets(S, nxt, p, m, f, s),
         nxt[s[Len(s)]] = NULL
  PROVE  \A n \in Len(s) + 1..m : f[n] = NULL
<1> DEFINE T == {n \in Len(s) + 1..m : f[n] # NULL}
<1>00. \A k \in 1..Len(s) : f[k] = s[k]
  BY Along
<1> USE DEF Meets
<1> SUFFICES ASSUME T # {} PROVE FALSE
  OBVIOUS
<1>0. Len(s) \in Nat /\ Len(s) # 0
  BY EmptySeq
<1>1. T \in SUBSET Nat
  BY <1>0
<1>2. PICK n \in T : \A k \in T : n <= k
  <2> HIDE DEF T
  <2> QED BY <1>1, Least
<1>3. n \in Len(s) + 1..m /\ f[n] # NULL /\ n \in 1..m /\ n # 1
  BY <1>0
<1>4. \A k \in Len(s) + 1..m : k < n => f[k] = NULL
  BY <1>0, <1>2
<1> HIDE DEF T
<1>5. f[n] = IF n = 1 THEN p ELSE IF f[n - 1] = NULL THEN NULL ELSE nxt[f[n - 1]]
  BY <1>3 DEF IsWalk
<1>6. CASE n = Len(s) + 1
  <2>1. f[Len(s)] = s[Len(s)]
    BY <1>00, <1>0
  <2>2. n - 1 = Len(s)
    BY <1>0, <1>6
  <2> QED BY <1>3, <1>5, <2>1, <2>2
<1>7. CASE n # Len(s) + 1
  <2>1. n - 1 \in Len(s) + 1..m /\ n - 1 < n
    BY <1>0, <1>3, <1>7
  <2>2. f[n - 1] = NULL
    BY <1>3, <1>4, <2>1
  <2> QED BY <1>3, <1>5, <2>2
<1> QED BY <1>6, <1>7

(* A sequence without duplicates is no longer than its set.                *)
LEMMA NoDupBound ==
  ASSUME NEW S, IsFiniteSet(S), NEW s \in Seq(S), NoDup(s)
  PROVE  Len(s) <= Cardinality(S)
<1> SUFFICES ASSUME ~(Len(s) <= Cardinality(S)) PROVE FALSE
  OBVIOUS
<1>1. Len(s) \in Nat /\ Cardinality(S) \in Nat
  BY FS_CardinalityType
<1>2. IsFiniteSet(1..Len(s)) /\ Cardinality(1..Len(s)) = Len(s)
  <2>1. PICK k \in Int : k = Len(s) /\ k >= 0
    BY <1>1
  <2>2. IsFiniteSet(1..k) /\ Cardinality(1..k) = IF 1 > k THEN 0 ELSE k - 1 + 1
    BY FS_Interval
  <2> QED BY <2>1, <2>2
<1>3. s \in [1..Len(s) -> S] /\ Cardinality(S) < Cardinality(1..Len(s))
  BY <1>1, <1>2
<1>4. \E i, j \in 1..Len(s) : i # j /\ s[i] = s[j]
  BY <1>2, <1>3, FS_PigeonHole
<1> QED BY <1>4 DEF NoDup

-----------------------------------------------------------------------------
(* Rings: the queues of pcb.c.  s is the queue whose tail pointer is t.    *)

Ring(nxt, prv, t, s) ==
  /\ s = <<>> => t = NULL
  /\ s # <<>> => /\ t = s[Len(s)]
                 /\ nxt[s[Len(s)]] = s[1] /\ prv[s[1]] = s[Len(s)]
                 /\ \A i \in 1..Len(s) - 1 :
                      nxt[s[i]] = s[i + 1] /\ prv[s[i + 1]] = s[i]

Links(S) == [S -> S \cup {NULL}]

LEMMA RingFrame ==
  ASSUME NEW S, NEW s \in Seq(S), NEW nxt, NEW prv, NEW t, Ring(nxt, prv, t, s),
         NEW nxt2, NEW prv2,
         \A x \in S : InQ(s, x) => nxt2[x] = nxt[x] /\ prv2[x] = prv[x]
  PROVE  Ring(nxt2, prv2, t, s)
<1>1. CASE s = <<>>
  BY <1>1 DEF Ring
<1>2. CASE s # <<>>
  <2>1. Len(s) \in Nat /\ Len(s) # 0
    BY <1>2, EmptySeq
  <2>2. \A i \in 1..Len(s) : nxt2[s[i]] = nxt[s[i]] /\ prv2[s[i]] = prv[s[i]]
    BY DEF InQ
  <2>3. /\ t = s[Len(s)] /\ nxt[s[Len(s)]] = s[1] /\ prv[s[1]] = s[Len(s)]
        /\ \A i \in 1..Len(s) - 1 : nxt[s[i]] = s[i + 1] /\ prv[s[i + 1]] = s[i]
    BY <1>2 DEF Ring
  <2>4. nxt2[s[Len(s)]] = s[1] /\ prv2[s[1]] = s[Len(s)]
    BY <2>1, <2>2, <2>3
  <2>5. ASSUME NEW i \in 1..Len(s) - 1
        PROVE  nxt2[s[i]] = s[i + 1] /\ prv2[s[i + 1]] = s[i]
    <3>1. i \in 1..Len(s) /\ i + 1 \in 1..Len(s)
      BY <2>1
    <3> QED BY <2>2, <2>3, <3>1
  <2> QED BY <1>2, <2>3, <2>4, <2>5 DEF Ring
<1> QED BY <1>1, <1>2

(* insertProcQ.                                                            *)
LEMMA RingFirst ==
  ASSUME NEW S, NEW nxt \in Links(S), NEW prv \in Links(S), NEW p \in S
  PROVE  Ring([nxt EXCEPT ![p] = p], [prv EXCEPT ![p] = p], p, <<p>>)
<1>1. Len(<<p>>) = 1 /\ <<p>>[1] = p /\ <<p>> # <<>>
  OBVIOUS
<1> QED BY <1>1 DEF Ring, Links

LinkBehind(nxt, prv, t, p, nxt2, prv2) ==
  /\ nxt2 = [nxt EXCEPT ![p] = nxt[t], ![t] = p]
  /\ prv2 = [prv EXCEPT ![p] = t, ![nxt[t]] = p]

LEMMA RingInsert ==
  ASSUME NEW S, NEW nxt \in Links(S), NEW prv \in Links(S), NEW s \in Seq(S), NoDup(s),
         s # <<>>, NEW t, Ring(nxt, prv, t, s), NEW p \in S, ~InQ(s, p),
         NEW nxt2, NEW prv2, LinkBehind(nxt, prv, t, p, nxt2, prv2)
  PROVE  /\ Ring(nxt2, prv2, p, Append(s, p))
         /\ nxt2 \in Links(S) /\ prv2 \in Links(S)
         /\ \A x \in S : x # p /\ ~InQ(s, x) => nxt2[x] = nxt[x] /\ prv2[x] = prv[x]
<1>1. PICK k \in Nat : k = Len(s) /\ k # 0
  BY EmptySeq
<1>2. /\ t = s[k] /\ nxt[t] = s[1] /\ prv[s[1]] = t
      /\ \A i \in 1..k - 1 : nxt[s[i]] = s[i + 1] /\ prv[s[i + 1]] = s[i]
  BY <1>1 DEF Ring
<1>3. \A i \in 1..k : s[i] \in S /\ s[i] # p /\ InQ(s, s[i])
  BY <1>1 DEF InQ
<1>4. \A i, j \in 1..k : s[i] = s[j] => i = j
  BY <1>1 DEF NoDup
<1>5. 1 \in 1..k /\ k \in 1..k
  BY <1>1
<1>6. /\ nxt2 \in Links(S) /\ prv2 \in Links(S)
      /\ nxt2[p] = s[1] /\ nxt2[t] = p /\ prv2[p] = t /\ prv2[s[1]] = p
      /\ \A x \in S : x # p /\ x # t => nxt2[x] = nxt[x]
      /\ \A x \in S : x # p /\ x # s[1] => prv2[x] = prv[x]
  BY <1>2, <1>3, <1>5 DEF Links, LinkBehind
<1>7. PICK s2 : /\ s2 = Append(s, p) /\ s2 \in Seq(S) /\ Len(s2) = k + 1
                /\ \A i \in 1..k : s2[i] = s[i]
                /\ s2[k + 1] = p
  BY <1>1, AppendProperties
<1>8. ASSUME NEW i \in 1..k
      PROVE  nxt2[s2[i]] = s2[i + 1] /\ prv2[s2[i + 1]] = s2[i]
  <2>1. CASE i = k
    BY <1>2, <1>6, <1>7, <2>1
  <2>2. CASE i # k
    <3>1. i \in 1..k - 1 /\ i + 1 \in 1..k /\ i + 1 # 1
      BY <1>1, <2>2
    <3>2. s[i] # t /\ s[i + 1] # s[1]
      BY <1>2, <1>4, <1>5, <2>2, <3>1
    <3>3. nxt2[s[i]] = nxt[s[i]] /\ prv2[s[i + 1]] = prv[s[i + 1]]
      BY <1>3, <1>6, <3>1, <3>2
    <3> QED BY <1>2, <1>7, <3>1, <3>3
  <2> QED BY <2>1, <2>2
<1>9. Ring(nxt2, prv2, p, s2)
  <2>1. s2 # <<>> /\ s2[1] = s[1]
    BY <1>1, <1>5, <1>7
  <2>2. nxt2[s2[k + 1]] = s2[1] /\ prv2[s2[1]] = s2[k + 1]
    BY <1>6, <1>7, <2>1
  <2>3. Len(s2) - 1 = k /\ s2[Len(s2)] = p /\ s2[Len(s2)] = s2[k + 1]
    BY <1>1, <1>7
  <2> QED BY <1>8, <2>1, <2>2, <2>3 DEF Ring
<1>10. \A x \in S : ~InQ(s, x) => x # t /\ x # s[1]
  BY <1>2, <1>3, <1>5
<1> QED BY <1>6, <1>7, <1>9, <1>10

(* removeProcQ: the head, the only member or not.                          *)
LEMMA RingOne ==
  ASSUME NEW S, NEW nxt, NEW prv, NEW s \in Seq(S), NoDup(s), s # <<>>,
         NEW t, Ring(nxt, prv, t, s)
  PROVE  /\ nxt[t] = t <=> Len(s) = 1
         /\ t \in S /\ t = Last(s) /\ nxt[t] \in S /\ nxt[t] = Head(s)
<1>1. PICK k \in Nat : k = Len(s) /\ k # 0
  BY EmptySeq
<1>2. t = s[k] /\ nxt[t] = s[1] /\ 1 \in 1..k /\ k \in 1..k
  BY <1>1 DEF Ring
<1>3. s[1] = s[k] <=> k = 1
  BY <1>1, <1>2 DEF NoDup
<1> QED BY <1>1, <1>2, <1>3 DEF Last

UnlinkHead(nxt, prv, t, nxt2, prv2) ==
  LET h == nxt[t]
  IN  /\ nxt2 = [nxt EXCEPT ![t] = nxt[h], ![h] = NULL]
      /\ prv2 = [prv EXCEPT ![nxt[h]] = t, ![h] = NULL]

LEMMA RingRemove ==
  ASSUME NEW S, NEW nxt \in Links(S), NEW prv \in Links(S), NEW s \in Seq(S), NoDup(s),
         s # <<>>, NEW t, Ring(nxt, prv, t, s), Len(s) # 1,
         NEW nxt2, NEW prv2, UnlinkHead(nxt, prv, t, nxt2, prv2)
  PROVE  /\ Ring(nxt2, prv2, t, Tail(s))
         /\ nxt2 \in Links(S) /\ prv2 \in Links(S)
         /\ nxt2[nxt[t]] = NULL /\ prv2[nxt[t]] = NULL
         /\ \A x \in S : ~InQ(s, x) => nxt2[x] = nxt[x] /\ prv2[x] = prv[x]
<1> DEFINE h == nxt[t]
<1>0. Len(s) \in Nat /\ Len(s) # 0
  BY EmptySeq
<1>01. PICK k \in Nat : k = Len(s) /\ k # 0
  BY <1>0
<1>1. k \in Nat /\ k = Len(s) /\ k > 1
  BY <1>01
<1>2. /\ t = s[k] /\ h = s[1] /\ nxt[h] = s[2]
      /\ \A i \in 1..k - 1 : nxt[s[i]] = s[i + 1] /\ prv[s[i + 1]] = s[i]
  <2>1. /\ t = s[k] /\ h = s[1]
        /\ \A i \in 1..k - 1 : nxt[s[i]] = s[i + 1] /\ prv[s[i + 1]] = s[i]
    BY <1>1 DEF Ring
  <2>2. 1 \in 1..k - 1 /\ 1 + 1 = 2
    BY <1>1
  <2> HIDE DEF h
  <2> QED BY <2>1, <2>2
<1> HIDE DEF h
<1>3. \A i \in 1..k : s[i] \in S /\ InQ(s, s[i])
  BY <1>1 DEF InQ
<1>4. \A i, j \in 1..k : s[i] = s[j] => i = j
  BY <1>1 DEF NoDup
<1>5. 1 \in 1..k /\ 2 \in 1..k /\ k \in 1..k
  BY <1>1
<1>6. h # t /\ h # s[2] /\ h \in S /\ t \in S /\ s[2] \in S
  BY <1>1, <1>2, <1>3, <1>4, <1>5
<1>7. /\ nxt2 \in Links(S) /\ prv2 \in Links(S)
      /\ nxt2[h] = NULL /\ nxt2[t] = s[2] /\ prv2[h] = NULL /\ prv2[s[2]] = t
      /\ \A x \in S : x # h /\ x # t => nxt2[x] = nxt[x]
      /\ \A x \in S : x # h /\ x # s[2] => prv2[x] = prv[x]
  BY <1>2, <1>6 DEF Links, UnlinkHead, h
<1>8. PICK s2 : /\ s2 = Tail(s) /\ s2 \in Seq(S) /\ Len(s2) = k - 1
                /\ \A i \in 1..k - 1 : s2[i] = s[i + 1]
  <2>1. Tail(s) \in Seq(S) /\ Len(Tail(s)) = k - 1
    BY <1>1, HeadTailProperties
  <2>2. \A i \in 1..k - 1 : Tail(s)[i] = s[i + 1]
    BY <1>1, HeadTailProperties
  <2> QED BY <2>1, <2>2
<1>9. ASSUME NEW i \in 1..k - 2
      PROVE  nxt2[s2[i]] = s2[i + 1] /\ prv2[s2[i + 1]] = s2[i]
  <2>1. /\ i + 1 \in 1..k - 1 /\ i \in 1..k - 1 /\ i + 1 \in 1..k /\ i + 2 \in 1..k
        /\ i + 1 # 1 /\ i + 2 # 1 /\ i + 1 # k /\ i + 2 # 2 /\ (i + 1) + 1 = i + 2
    BY <1>1
  <2>2. s[i + 1] # h /\ s[i + 1] # t /\ s[i + 2] # h /\ s[i + 2] # s[2]
    BY <1>2, <1>4, <1>5, <2>1
  <2>3. nxt2[s[i + 1]] = nxt[s[i + 1]] /\ prv2[s[i + 2]] = prv[s[i + 2]]
    BY <1>3, <1>7, <2>1, <2>2
  <2>4. s2[i] = s[i + 1] /\ s2[i + 1] = s[i + 2]
    BY <1>8, <2>1
  <2>5. nxt[s[i + 1]] = s[i + 2] /\ prv[s[i + 2]] = s[i + 1]
    BY <1>2, <2>1
  <2> QED BY <2>3, <2>4, <2>5
<1>10. Ring(nxt2, prv2, t, s2)
  <2>1. s2 # <<>> /\ s2[1] = s[2] /\ s2[k - 1] = t
    <3>1. 1 \in 1..k - 1 /\ k - 1 \in 1..k - 1 /\ (k - 1) + 1 = k /\ 1 + 1 = 2
      BY <1>1
    <3>2. s2[1] = s[1 + 1] /\ s2[k - 1] = s[(k - 1) + 1]
      BY <1>8, <3>1
    <3>3. s2 # <<>>
      <4>1. Len(<<>>) = 0
        OBVIOUS
      <4>2. k - 1 # 0
        BY <1>1
      <4> QED BY <1>8, <4>1, <4>2
    <3> QED BY <1>2, <3>1, <3>2, <3>3
  <2>2. nxt2[s2[k - 1]] = s2[1] /\ prv2[s2[1]] = s2[k - 1]
    BY <1>7, <2>1
  <2>3. (k - 1) - 1 = k - 2
    OBVIOUS
  <2> QED BY <1>8, <1>9, <2>1, <2>2, <2>3 DEF Ring
<1>11. \A x \in S : ~InQ(s, x) => x # t /\ x # h /\ x # s[2]
  BY <1>2, <1>3, <1>5
<1> QED BY <1>7, <1>8, <1>10, <1>11 DEF h

(* outProcQ: the tail.                                                     *)
UnlinkTail(nxt, prv, t, nxt2, prv2) ==
  /\ nxt2 = [nxt EXCEPT ![prv[t]] = nxt[t], ![t] = NULL]
  /\ prv2 = [prv EXCEPT ![nxt[t]] = prv[t], ![t] = NULL]

LEMMA RingOut ==
  ASSUME NEW S, NEW nxt \in Links(S), NEW prv \in Links(S), NEW s \in Seq(S), NoDup(s),
         s # <<>>, NEW t, Ring(nxt, prv, t, s), Len(s) # 1,
         NEW nxt2, NEW prv2, UnlinkTail(nxt, prv, t, nxt2, prv2)
  PROVE  /\ Ring(nxt2, prv2, prv[t], Front(s))
         /\ nxt2 \in Links(S) /\ prv2 \in Links(S) /\ prv[t] \in S
         /\ nxt2[t] = NULL /\ prv2[t] = NULL
         /\ \A x \in S : ~InQ(s, x) => nxt2[x] = nxt[x] /\ prv2[x] = prv[x]
<1>0. Len(s) \in Nat /\ Len(s) # 0
  BY EmptySeq
<1>01. PICK k \in Nat : k = Len(s) /\ k # 0
  BY <1>0
<1>1. k \in Nat /\ k = Len(s) /\ k > 1
  BY <1>01
<1>2. PICK j \in Nat : j = k - 1 /\ j > 0
  BY <1>1
<1>3. /\ t = s[k] /\ nxt[t] = s[1] /\ prv[t] = s[j]
      /\ \A i \in 1..j : nxt[s[i]] = s[i + 1] /\ prv[s[i + 1]] = s[i]
  <2>1. /\ t = s[k] /\ nxt[t] = s[1]
        /\ \A i \in 1..j : nxt[s[i]] = s[i + 1] /\ prv[s[i + 1]] = s[i]
    BY <1>1, <1>2 DEF Ring
  <2>2. j \in 1..j /\ j + 1 = k
    BY <1>2
  <2> QED BY <2>1, <2>2
<1>4. \A i \in 1..k : s[i] \in S /\ InQ(s, s[i])
  BY <1>1 DEF InQ
<1>5. \A i, l \in 1..k : s[i] = s[l] => i = l
  BY <1>1 DEF NoDup
<1>6. 1 \in 1..k /\ j \in 1..k /\ k \in 1..k /\ j # k
  BY <1>1, <1>2
<1>7. t # s[j] /\ t # s[1] /\ t \in S /\ s[j] \in S /\ s[1] \in S
  BY <1>1, <1>3, <1>4, <1>5, <1>6
<1>8. /\ nxt2 \in Links(S) /\ prv2 \in Links(S)
      /\ nxt2[t] = NULL /\ nxt2[s[j]] = s[1] /\ prv2[t] = NULL /\ prv2[s[1]] = s[j]
      /\ \A x \in S : x # t /\ x # s[j] => nxt2[x] = nxt[x]
      /\ \A x \in S : x # t /\ x # s[1] => prv2[x] = prv[x]
  BY <1>3, <1>7 DEF Links, UnlinkTail
<1>9. PICK s2 : /\ s2 = Front(s) /\ s2 \in Seq(S) /\ Len(s2) = j
                /\ \A i \in 1..j : s2[i] = s[i]
  <2>1. Front(s) = SubSeq(s, 1, j)
    BY <1>1, <1>2 DEF Front
  <2>2. \A i \in 1..j : s[i] \in S
    BY <1>1, <1>2, <1>4
  <2>3. /\ SubSeq(s, 1, j) \in Seq(S) /\ Len(SubSeq(s, 1, j)) = j
        /\ \A i \in 1..j : SubSeq(s, 1, j)[i] = s[i]
    <3>1. /\ SubSeq(s, 1, j) \in Seq(S)
          /\ Len(SubSeq(s, 1, j)) = IF 1 <= j THEN j - 1 + 1 ELSE 0
          /\ \A i \in 1..j - 1 + 1 : SubSeq(s, 1, j)[i] = s[1 + i - 1]
      BY <2>2, SubSeqProperties
    <3>2. j - 1 + 1 = j /\ 1 <= j
      BY <1>2
    <3> QED BY <3>1, <3>2
  <2> QED BY <2>1, <2>3
<1>10. ASSUME NEW i \in 1..j - 1
       PROVE  nxt2[s2[i]] = s2[i + 1] /\ prv2[s2[i + 1]] = s2[i]
  <2>1. /\ i \in 1..j /\ i + 1 \in 1..j /\ i \in 1..k /\ i + 1 \in 1..k
        /\ i # k /\ i # j /\ i + 1 # k /\ i + 1 # 1
    BY <1>2
  <2>2. s[i] # t /\ s[i] # s[j] /\ s[i + 1] # t /\ s[i + 1] # s[1]
    BY <1>3, <1>5, <1>6, <2>1
  <2>3. nxt2[s[i]] = nxt[s[i]] /\ prv2[s[i + 1]] = prv[s[i + 1]]
    BY <1>4, <1>8, <2>1, <2>2
  <2> QED BY <1>3, <1>9, <2>1, <2>3
<1>11. Ring(nxt2, prv2, s[j], s2)
  <2>1. s2 # <<>> /\ s2[1] = s[1] /\ s2[j] = s[j]
    <3>1. 1 \in 1..j /\ j \in 1..j
      BY <1>2
    <3> QED BY <1>2, <1>9, <3>1
  <2>2. nxt2[s2[j]] = s2[1] /\ prv2[s2[1]] = s2[j]
    BY <1>8, <2>1
  <2> QED BY <1>9, <1>10, <2>1, <2>2 DEF Ring
<1>12. \A x \in S : ~InQ(s, x) => x # t /\ x # s[1] /\ x # s[j]
  BY <1>3, <1>4, <1>6
<1> QED BY <1>3, <1>7, <1>8, <1>9, <1>11, <1>12


(* Around the ring there and back.                                         *)
LEMMA RingRound ==
  ASSUME NEW S, NEW nxt, NEW prv, NEW s \in Seq(S), NEW t, Ring(nxt, prv, t, s),
         NEW x, InQ(s, x)
  PROVE  nxt[prv[x]] = x /\ prv[nxt[x]] = x
<1>1. PICK i \in 1..Len(s) : s[i] = x
  BY DEF InQ
<1>2. PICK k \in Nat : k = Len(s)
  OBVIOUS
<1>3. k # 0 /\ i \in 1..k
  BY <1>1, <1>2
<1>4. s # <<>>
  <2>1. Len(<<>>) = 0
    OBVIOUS
  <2> QED BY <1>2, <1>3, <2>1
<1>5. /\ nxt[s[k]] = s[1] /\ prv[s[1]] = s[k]
      /\ \A j \in 1..k - 1 : nxt[s[j]] = s[j + 1] /\ prv[s[j + 1]] = s[j]
  BY <1>2, <1>4 DEF Ring
<1>6. nxt[prv[x]] = x
  <2>1. CASE i = 1
    BY <1>1, <1>5, <2>1
  <2>2. CASE i # 1
    <3>1. i - 1 \in 1..k - 1 /\ (i - 1) + 1 = i
      BY <1>3, <2>2
    <3> QED BY <1>1, <1>5, <3>1
  <2> QED BY <2>1, <2>2
<1>7. prv[nxt[x]] = x
  <2>1. CASE i = k
    BY <1>1, <1>5, <2>1
  <2>2. CASE i # k
    <3>1. i \in 1..k - 1
      BY <1>3, <2>2
    <3> QED BY <1>1, <1>5, <3>1
  <2> QED BY <2>1, <2>2
<1> QED BY <1>6, <1>7

-----------------------------------------------------------------------------
(* The free list: F is the list whose head is h.                           *)

Chain(nxt, h, F) ==
  /\ F = <<>> => h = NULL
  /\ F # <<>> => h = F[1] /\ nxt[F[Len(F)]] = NULL /\ Path(nxt, F)

LEMMA ChainFrame ==
  ASSUME NEW S, NEW F \in Seq(S), NEW nxt, NEW h, Chain(nxt, h, F),
         NEW nxt2, \A x \in S : InQ(F, x) => nxt2[x] = nxt[x]
  PROVE  Chain(nxt2, h, F)
<1>1. CASE F = <<>>
  BY <1>1 DEF Chain
<1>2. CASE F # <<>>
  <2>1. Len(F) \in Nat /\ Len(F) # 0
    BY <1>2, EmptySeq
  <2>2. \A i \in 1..Len(F) : nxt2[F[i]] = nxt[F[i]]
    BY DEF InQ
  <2>3. h = F[1] /\ nxt[F[Len(F)]] = NULL /\ Path(nxt, F)
    BY <1>2 DEF Chain
  <2>4. nxt2[F[Len(F)]] = NULL
    BY <2>1, <2>2, <2>3
  <2>5. Path(nxt2, F)
    BY <2>1, <2>2, <2>3 DEF Path
  <2> QED BY <1>2, <2>3, <2>4, <2>5 DEF Chain
<1> QED BY <1>1, <1>2

(* allocPcb.                                                               *)
LEMMA ChainTail ==
  ASSUME NEW S, NEW F \in Seq(S), NEW nxt, NEW h, Chain(nxt, h, F), F # <<>>, NoDup(F),
         NEW nxt2, \A x \in S : x # h => nxt2[x] = nxt[x]
  PROVE  Chain(nxt2, nxt[h], Tail(F))
<1>1. PICK k \in Nat : k = Len(F) /\ k # 0
  BY EmptySeq
<1>2. h = F[1] /\ nxt[F[k]] = NULL /\ \A i \in 1..k - 1 : nxt[F[i]] = F[i + 1]
  BY <1>1 DEF Chain, Path
<1>3. PICK G : /\ G = Tail(F) /\ G \in Seq(S) /\ Len(G) = k - 1
               /\ \A i \in 1..k - 1 : G[i] = F[i + 1]
  <2>1. Tail(F) \in Seq(S) /\ Len(Tail(F)) = k - 1
    BY <1>1, HeadTailProperties
  <2>2. \A i \in 1..k - 1 : Tail(F)[i] = F[i + 1]
    BY <1>1, HeadTailProperties
  <2> QED BY <2>1, <2>2
<1>4. CASE k = 1
  <2>1. G = <<>>
    BY <1>3, <1>4, EmptySeq
  <2> QED BY <1>2, <1>3, <1>4, <2>1 DEF Chain
<1>5. CASE k # 1
  <2>1. 1 \in 1..k - 1 /\ k - 1 \in 1..k - 1 /\ (k - 1) + 1 = k /\ 1 + 1 = 2
    BY <1>1, <1>5
  <2>2. \A i \in 1..k - 1 : F[i + 1] \in S /\ F[i + 1] # h
    <3> TAKE i \in 1..k - 1
    <3>1. i + 1 \in 1..k /\ 1 \in 1..k /\ i + 1 # 1
      BY <1>1
    <3> QED BY <1>1, <1>2, <3>1 DEF NoDup
  <2>3. G # <<>> /\ G[1] = nxt[h]
    <3>1. G # <<>>
      <4>1. Len(<<>>) = 0
        OBVIOUS
      <4>2. k - 1 # 0
        BY <1>1, <1>5
      <4> QED BY <1>3, <4>1, <4>2
    <3>2. G[1] = F[1 + 1] /\ nxt[F[1]] = F[1 + 1]
      BY <1>2, <1>3, <2>1
    <3> QED BY <1>2, <3>1, <3>2
  <2>4. nxt2[G[k - 1]] = NULL
    BY <1>2, <1>3, <2>1, <2>2
  <2>5. ASSUME NEW i \in 1..(k - 1) - 1
        PROVE  nxt2[G[i]] = G[i + 1]
    <3>1. i \in 1..k - 1 /\ i + 1 \in 1..k - 1
      BY <1>1
    <3> QED BY <1>2, <1>3, <2>2, <3>1
  <2> QED BY <1>3, <2>3, <2>4, <2>5 DEF Chain, Path
<1> QED BY <1>3, <1>4, <1>5

(* freePcb.                                                                *)
LEMMA ChainPush ==
  ASSUME NEW S, NEW F \in Seq(S), NEW nxt, NEW h, Chain(nxt, h, F), NEW p \in S,
         ~InQ(F, p), NEW nxt2, nxt2[p] = h, \A x \in S : x # p => nxt2[x] = nxt[x]
  PROVE  Chain(nxt2, p, <<p>> \o F)
<1>1. PICK k \in Nat : k = Len(F)
  OBVIOUS
<1>2. \A i \in 1..k : F[i] \in S /\ F[i] # p
  BY <1>1 DEF InQ
<1>3. PICK G : /\ G = <<p>> \o F /\ G \in Seq(S) /\ Len(G) = k + 1
               /\ G[1] = p /\ \A i \in 1..k : G[i + 1] = F[i]
  <2>1. <<p>> \in Seq(S) /\ Len(<<p>>) = 1 /\ <<p>>[1] = p
    OBVIOUS
  <2>2. /\ <<p>> \o F \in Seq(S) /\ Len(<<p>> \o F) = 1 + k
        /\ \A i \in 1..1 + k : (<<p>> \o F)[i] = IF i <= 1 THEN <<p>>[i] ELSE F[i - 1]
    BY <1>1, <2>1, ConcatProperties
  <2>3. (<<p>> \o F)[1] = p
    BY <1>1, <2>1, <2>2
  <2>4. ASSUME NEW i \in 1..k PROVE (<<p>> \o F)[i + 1] = F[i]
    <3>1. i + 1 \in 1..1 + k /\ ~(i + 1 <= 1) /\ (i + 1) - 1 = i
      BY <1>1
    <3> QED BY <2>2, <3>1
  <2>5. Len(<<p>> \o F) = k + 1
    BY <2>2
  <2> QED BY <2>2, <2>3, <2>4, <2>5
<1>4. G # <<>> /\ Len(G) - 1 = k /\ G[Len(G)] = G[k + 1]
  BY <1>1, <1>3
<1>5. CASE k = 0
  <2>1. h = NULL
    BY <1>1, <1>5, EmptySeq DEF Chain
  <2>2. nxt2[G[k + 1]] = NULL
    BY <1>3, <1>5, <2>1
  <2>3. \A i \in 1..k : nxt2[G[i]] = G[i + 1]
    BY <1>5
  <2> QED BY <1>3, <1>4, <2>2, <2>3 DEF Chain, Path
<1>6. CASE k # 0
  <2>1. F # <<>> /\ 1 \in 1..k /\ k \in 1..k
    BY <1>1, <1>6
  <2>2. h = F[1] /\ nxt[F[k]] = NULL /\ \A i \in 1..k - 1 : nxt[F[i]] = F[i + 1]
    BY <1>1, <2>1 DEF Chain, Path
  <2>3. nxt2[G[k + 1]] = NULL
    BY <1>2, <1>3, <2>1, <2>2
  <2>4. ASSUME NEW i \in 1..k
        PROVE  nxt2[G[i]] = G[i + 1]
    <3>1. CASE i = 1
      BY <1>3, <2>1, <2>2, <3>1
    <3>2. CASE i # 1
      <4>1. i - 1 \in 1..k - 1 /\ i - 1 \in 1..k /\ (i - 1) + 1 = i
        BY <1>1, <3>2
      <4>2. G[i] = F[i - 1] /\ G[i + 1] = F[i]
        <5>1. G[(i - 1) + 1] = F[i - 1]
          BY <1>3, <4>1
        <5> QED BY <1>3, <4>1, <5>1
      <4>3. nxt2[F[i - 1]] = nxt[F[i - 1]]
        BY <1>2, <4>1
      <4>4. nxt[F[i - 1]] = F[i]
        <5>1. nxt[F[i - 1]] = F[(i - 1) + 1]
          BY <2>2, <4>1
        <5> QED BY <4>1, <5>1
      <4> QED BY <4>2, <4>3, <4>4
    <3> QED BY <3>1, <3>2
  <2> QED BY <1>3, <1>4, <2>3, <2>4 DEF Chain, Path
<1> QED BY <1>5, <1>6

(* A walk from nowhere stays there.                                        *)
LEMMA Lost ==
  ASSUME NEW nxt, NEW m \in Nat, NEW f, IsWalk(nxt, NULL, m, f)
  PROVE  \A n \in 1..m : f[n] = NULL
<1> DEFINE T == {n \in 1..m : f[n] # NULL}
<1> SUFFICES ASSUME T # {} PROVE FALSE
  OBVIOUS
<1>1. T \in SUBSET Nat
  OBVIOUS
<1>2. PICK n \in T : \A k \in T : n <= k
  <2> HIDE DEF T
  <2> QED BY <1>1, Least
<1>3. n \in 1..m /\ f[n] # NULL
  OBVIOUS
<1>4. \A k \in 1..m : k < n => f[k] = NULL
  BY <1>2
<1> HIDE DEF T
<1>5. f[n] = IF n = 1 THEN NULL ELSE IF f[n - 1] = NULL THEN NULL ELSE nxt[f[n - 1]]
  BY <1>3 DEF IsWalk
<1>6. CASE n = 1
  BY <1>3, <1>5, <1>6
<1>7. CASE n # 1
  <2>1. n - 1 \in 1..m /\ n - 1 < n
    BY <1>3, <1>7
  <2>2. f[n - 1] = NULL
    BY <1>4, <2>1
  <2> QED BY <1>3, <1>5, <1>7, <2>2
<1> QED BY <1>6, <1>7

(* What siblings and listFrom read off a chain.                            *)
UpToNULL(m, f) == [n \in 1..Cardinality({k \in 1..m : f[k] # NULL}) |-> f[n]]

ChainIn(S, nxt, h, F) ==
  /\ NULL \notin S /\ IsFiniteSet(S) /\ F \in Seq(S) /\ NoDup(F) /\ Chain(nxt, h, F)

LEMMA ReadChain ==
  ASSUME NEW S, NEW nxt, NEW h, NEW F, ChainIn(S, nxt, h, F),
         NEW m \in Nat, Cardinality(S) <= m, NEW f, IsWalk(nxt, h, m, f)
  PROVE  UpToNULL(m, f) = F
<1> USE DEF ChainIn
<1>1. PICK k \in Nat : k = Len(F)
  OBVIOUS
<1>2. k <= m
  <2>1. Cardinality(S) \in Nat /\ k <= Cardinality(S)
    BY <1>1, NoDupBound, FS_CardinalityType
  <2> QED BY <1>1, <2>1
<1>3. (\A n \in 1..k : f[n] = F[n]) /\ (\A n \in k + 1..m : f[n] = NULL)
  <2>1. CASE F = <<>>
    <3>1. h = NULL /\ k = 0
      BY <1>1, <2>1 DEF Chain
    <3>2. \A n \in 1..m : f[n] = NULL
      BY <3>1, Lost
    <3> QED BY <3>1, <3>2
  <2>2. CASE F # <<>>
    <3>1. h = F[1] /\ nxt[F[k]] = NULL /\ Path(nxt, F)
      BY <1>1, <2>2 DEF Chain
    <3>2. Meets(S, nxt, h, m, f, F)
      BY <1>1, <1>2, <2>2, <3>1 DEF Meets
    <3> QED BY <1>1, <3>1, <3>2, Along, Beyond
  <2> QED BY <2>1, <2>2
<1>4. \A n \in 1..k : F[n] # NULL
  BY <1>1
<1>5. {n \in 1..m : f[n] # NULL} = 1..k
  <2>1. \A n \in 1..m : n \in 1..k \/ n \in k + 1..m
    BY <1>1
  <2>2. \A n \in 1..k : n \in 1..m
    BY <1>1, <1>2
  <2> QED BY <1>3, <1>4, <2>1, <2>2
<1>6. Cardinality(1..k) = k
  <2>1. PICK e \in Int : e = k /\ e >= 0
    BY <1>1
  <2>2. Cardinality(1..e) = IF 1 > e THEN 0 ELSE e - 1 + 1
    BY FS_Interval
  <2> QED BY <2>1, <2>2
<1>7. UpToNULL(m, f) = [n \in 1..k |-> f[n]]
  BY <1>5, <1>6 DEF UpToNULL
<1> QED BY <1>1, <1>3, <1>7

(* What RemoveAt leaves.                                                   *)
LEMMA RemoveAtElements ==
  ASSUME NEW S, NEW s \in Seq(S), NEW k \in 1..Len(s)
  PROVE  /\ RemoveAt(s, k) \in Seq(S) /\ Len(RemoveAt(s, k)) = Len(s) - 1
         /\ \A i \in 1..Len(s) - 1 :
              RemoveAt(s, k)[i] = IF i < k THEN s[i] ELSE s[i + 1]
<1> DEFINE a == SubSeq(s, 1, k - 1)
           b == SubSeq(s, k + 1, Len(s))
<1>1. PICK n \in Nat : n = Len(s)
  OBVIOUS
<1>2. k \in Nat /\ k \in 1..n
  BY <1>1
<1>3. a \in Seq(S) /\ Len(a) = k - 1 /\ \A i \in 1..k - 1 : a[i] = s[i]
  <2>1. \A i \in 1..k - 1 : s[i] \in S
    BY <1>1, <1>2
  <2>2. /\ a \in Seq(S) /\ Len(a) = IF 1 <= k - 1 THEN k - 1 - 1 + 1 ELSE 0
        /\ \A i \in 1..k - 1 - 1 + 1 : a[i] = s[1 + i - 1]
    BY <1>2, <2>1, SubSeqProperties
  <2> QED BY <1>2, <2>2
<1>4. b \in Seq(S) /\ Len(b) = n - k /\ \A i \in 1..n - k : b[i] = s[k + i]
  <2>1. \A i \in k + 1..n : s[i] \in S
    BY <1>1, <1>2
  <2>2. /\ b \in Seq(S) /\ Len(b) = IF k + 1 <= n THEN n - (k + 1) + 1 ELSE 0
        /\ \A i \in 1..n - (k + 1) + 1 : b[i] = s[k + 1 + i - 1]
    BY <1>1, <1>2, <2>1, SubSeqProperties
  <2> QED BY <1>1, <1>2, <2>2
<1> HIDE DEF a, b
<1>5. /\ a \o b \in Seq(S) /\ Len(a \o b) = n - 1
      /\ \A i \in 1..n - 1 : (a \o b)[i] = IF i < k THEN s[i] ELSE s[i + 1]
  <2>1. /\ a \o b \in Seq(S) /\ Len(a \o b) = Len(a) + Len(b)
        /\ \A i \in 1..Len(a) + Len(b) :
             (a \o b)[i] = IF i <= Len(a) THEN a[i] ELSE b[i - Len(a)]
    BY <1>3, <1>4, ConcatProperties
  <2>2. Len(a) + Len(b) = n - 1
    BY <1>2, <1>3, <1>4
  <2>3. ASSUME NEW i \in 1..n - 1
        PROVE  (a \o b)[i] = IF i < k THEN s[i] ELSE s[i + 1]
    <3>1. (a \o b)[i] = IF i <= k - 1 THEN a[i] ELSE b[i - (k - 1)]
      BY <1>3, <2>1, <2>2
    <3>2. CASE i < k
      <4>1. i \in 1..k - 1 /\ i <= k - 1
        BY <1>2, <3>2
      <4> QED BY <1>3, <3>1, <3>2, <4>1
    <3>3. CASE ~(i < k)
      <4>1. i - (k - 1) \in 1..n - k /\ k + (i - (k - 1)) = i + 1 /\ ~(i <= k - 1)
        BY <1>1, <1>2, <3>3
      <4>2. b[i - (k - 1)] = s[k + (i - (k - 1))]
        BY <1>4, <4>1
      <4> QED BY <3>1, <3>3, <4>1, <4>2
    <3> QED BY <3>2, <3>3
  <2> QED BY <2>1, <2>2, <2>3
<1>6. RemoveAt(s, k) = a \o b
  BY <1>1 DEF RemoveAt, a, b
<1> QED BY <1>1, <1>5, <1>6

(* A member other than the first is taken out of a chain.                  *)
LEMMA ChainCut ==
  ASSUME NEW S, NEW s \in Seq(S), NoDup(s), NEW nxt, NEW h, Chain(nxt, h, s),
         NEW k \in 2..Len(s), NEW nxt2, nxt2[s[k - 1]] = nxt[s[k]],
         \A x \in S : InQ(s, x) /\ x # s[k - 1] /\ x # s[k] => nxt2[x] = nxt[x]
  PROVE  Chain(nxt2, h, RemoveAt(s, k))
<1>1. PICK n \in Nat : n = Len(s)
  OBVIOUS
<1>2. PICK j \in Nat : j = k - 1 /\ j # 0 /\ k \in 1..n /\ j \in 1..n /\ k = j + 1
  BY <1>1
<1>3. s # <<>>
  <2>1. Len(<<>>) = 0
    OBVIOUS
  <2> QED BY <1>1, <1>2, <2>1
<1>4. h = s[1] /\ nxt[s[n]] = NULL /\ \A i \in 1..n - 1 : nxt[s[i]] = s[i + 1]
  BY <1>1, <1>3 DEF Chain, Path
<1>5. \A i \in 1..n : s[i] \in S /\ InQ(s, s[i])
  BY <1>1 DEF InQ
<1>6. \A i \in 1..n : i # j /\ i # k => nxt2[s[i]] = nxt[s[i]]
  BY <1>1, <1>2, <1>5 DEF NoDup
<1>7. PICK r : /\ r = RemoveAt(s, k) /\ r \in Seq(S) /\ Len(r) = n - 1
               /\ \A i \in 1..n - 1 : r[i] = IF i <= j THEN s[i] ELSE s[i + 1]
  <2>1. k \in 1..Len(s)
    BY <1>1, <1>2
  <2>2. /\ RemoveAt(s, k) \in Seq(S) /\ Len(RemoveAt(s, k)) = n - 1
        /\ \A i \in 1..n - 1 : RemoveAt(s, k)[i] = IF i < k THEN s[i] ELSE s[i + 1]
    BY <1>1, <2>1, RemoveAtElements
  <2>3. \A i \in 1..n - 1 : i < k <=> i <= j
    BY <1>1, <1>2
  <2> QED BY <2>2, <2>3
<1>8. r # <<>> /\ r[1] = h
  <2>1. 1 \in 1..n - 1 /\ 1 <= j /\ n - 1 # 0
    BY <1>1, <1>2
  <2>2. Len(<<>>) = 0
    OBVIOUS
  <2> QED BY <1>4, <1>7, <2>1, <2>2
<1>9. nxt2[s[j]] = nxt[s[k]]
  BY <1>2
<1>10. nxt2[r[n - 1]] = NULL
  <2>1. n - 1 \in 1..n - 1
    BY <1>1, <1>2
  <2>2. CASE n = k
    <3>1. r[n - 1] = s[j]
      BY <1>1, <1>2, <1>7, <2>1, <2>2
    <3> QED BY <1>4, <1>9, <2>2, <3>1
  <2>3. CASE n # k
    <3>1. ~(n - 1 <= j) /\ (n - 1) + 1 = n /\ n \in 1..n /\ n # j
      BY <1>1, <1>2, <2>3
    <3>2. r[n - 1] = s[n]
      <4>1. r[n - 1] = s[(n - 1) + 1]
        BY <1>7, <2>1, <3>1
      <4> QED BY <3>1, <4>1
    <3>3. nxt2[s[n]] = nxt[s[n]]
      BY <1>6, <2>3, <3>1
    <3> QED BY <1>4, <3>2, <3>3
  <2> QED BY <2>2, <2>3
<1>11. ASSUME NEW i \in 1..(n - 1) - 1
       PROVE  nxt2[r[i]] = r[i + 1]
  <2>1. i \in 1..n - 1 /\ i + 1 \in 1..n - 1 /\ i \in 1..n /\ i + 1 \in 1..n
    BY <1>1
  <2>2. CASE i < j
    <3>1. i <= j /\ i + 1 <= j /\ i # j /\ i # k
      BY <1>2, <2>2
    <3>2. r[i] = s[i] /\ r[i + 1] = s[i + 1]
      BY <1>7, <2>1, <3>1
    <3> QED BY <1>4, <1>6, <2>1, <3>1, <3>2
  <2>3. CASE i = j
    <3>1. i <= j /\ ~(i + 1 <= j) /\ i + 1 = k
      BY <1>2, <2>3
    <3>2. r[i] = s[j] /\ r[i + 1] = s[k + 1] /\ k \in 1..n - 1
      <4>1. r[i + 1] = s[(i + 1) + 1]
        BY <1>7, <2>1, <3>1
      <4> QED BY <1>7, <2>1, <2>3, <3>1, <4>1
    <3> QED BY <1>4, <1>9, <3>2
  <2>4. CASE j < i
    <3>1. ~(i <= j) /\ ~(i + 1 <= j) /\ i + 1 # j /\ i + 1 # k
      BY <1>2, <2>4
    <3>2. r[i] = s[i + 1] /\ r[i + 1] = s[(i + 1) + 1]
      BY <1>7, <2>1, <3>1
    <3> QED BY <1>4, <1>6, <2>1, <3>1, <3>2
  <2> QED BY <1>2, <2>2, <2>3, <2>4
<1> QED BY <1>7, <1>8, <1>10, <1>11 DEF Chain, Path

-----------------------------------------------------------------------------
(* The semaphore list: what InsertAt does, and a chain with one more.      *)

LEMMA InsertAtElements ==
  ASSUME NEW S, NEW s \in Seq(S), NEW e \in S, NEW k \in 1..Len(s)
  PROVE  /\ InsertAt(s, k + 1, e) \in Seq(S) /\ Len(InsertAt(s, k + 1, e)) = Len(s) + 1
         /\ \A i \in 1..Len(s) + 1 :
              InsertAt(s, k + 1, e)[i] = IF i <= k THEN s[i]
                                         ELSE IF i = k + 1 THEN e ELSE s[i - 1]
<1> DEFINE a == SubSeq(s, 1, k)
           b == SubSeq(s, k + 1, Len(s))
           c == a \o <<e>>
<1>1. PICK n \in Nat : n = Len(s)
  OBVIOUS
<1>2. k \in Nat /\ k \in 1..n
  BY <1>1
<1>3. a \in Seq(S) /\ Len(a) = k /\ \A i \in 1..k : a[i] = s[i]
  <2>1. \A i \in 1..k : s[i] \in S
    BY <1>1, <1>2
  <2>2. /\ a \in Seq(S) /\ Len(a) = IF 1 <= k THEN k - 1 + 1 ELSE 0
        /\ \A i \in 1..k - 1 + 1 : a[i] = s[1 + i - 1]
    BY <1>2, <2>1, SubSeqProperties
  <2> QED BY <1>2, <2>2
<1>4. b \in Seq(S) /\ Len(b) = n - k /\ \A i \in 1..n - k : b[i] = s[k + i]
  <2>1. \A i \in k + 1..n : s[i] \in S
    BY <1>1, <1>2
  <2>2. /\ b \in Seq(S) /\ Len(b) = IF k + 1 <= n THEN n - (k + 1) + 1 ELSE 0
        /\ \A i \in 1..n - (k + 1) + 1 : b[i] = s[k + 1 + i - 1]
    BY <1>1, <1>2, <2>1, SubSeqProperties
  <2> QED BY <1>1, <1>2, <2>2
<1>5. InsertAt(s, k + 1, e) = c \o b
  <2>1. (k + 1) - 1 = k
    BY <1>2
  <2>2. SubSeq(s, 1, (k + 1) - 1) = a
    BY <2>1
  <2> HIDE DEF a, b
  <2>3. InsertAt(s, k + 1, e) = SubSeq(s, 1, (k + 1) - 1) \o <<e>> \o b
    BY DEF InsertAt, b
  <2> QED BY <2>2, <2>3
<1> HIDE DEF a, b
<1>6. c \in Seq(S) /\ Len(c) = k + 1 /\ (\A i \in 1..k : c[i] = s[i]) /\ c[k + 1] = e
  <2>1. <<e>> \in Seq(S) /\ Len(<<e>>) = 1 /\ <<e>>[1] = e
    OBVIOUS
  <2>2. /\ c \in Seq(S) /\ Len(c) = k + 1
        /\ \A i \in 1..k + 1 : c[i] = IF i <= k THEN a[i] ELSE <<e>>[i - k]
    BY <1>3, <2>1, ConcatProperties
  <2>3. \A i \in 1..k : c[i] = s[i]
    BY <1>2, <1>3, <2>2
  <2>4. k + 1 \in 1..k + 1 /\ ~(k + 1 <= k) /\ k + 1 - k = 1
    BY <1>2
  <2> QED BY <2>1, <2>2, <2>3, <2>4
<1> HIDE DEF c
<1>7. /\ c \o b \in Seq(S) /\ Len(c \o b) = Len(c) + Len(b)
      /\ \A i \in 1..Len(c) + Len(b) :
           (c \o b)[i] = IF i <= Len(c) THEN c[i] ELSE b[i - Len(c)]
  BY <1>4, <1>6, ConcatProperties
<1>8. Len(c) + Len(b) = n + 1
  BY <1>2, <1>4, <1>6
<1>9. ASSUME NEW i \in 1..n + 1
      PROVE  (c \o b)[i] = IF i <= k THEN s[i] ELSE IF i = k + 1 THEN e ELSE s[i - 1]
  <2>1. (c \o b)[i] = IF i <= k + 1 THEN c[i] ELSE b[i - (k + 1)]
    BY <1>6, <1>7, <1>8
  <2>2. CASE i <= k
    <3>1. i \in 1..k /\ i <= k + 1
      BY <1>2, <2>2
    <3> QED BY <1>6, <2>1, <2>2, <3>1
  <2>3. CASE i = k + 1
    BY <1>2, <1>6, <2>1, <2>3
  <2>4. CASE ~(i <= k) /\ i # k + 1
    <3>1. /\ i - (k + 1) \in 1..n - k /\ k + (i - (k + 1)) = i - 1 /\ ~(i <= k + 1)
      BY <1>1, <1>2, <2>4
    <3>2. b[i - (k + 1)] = s[k + (i - (k + 1))]
      BY <1>4, <3>1
    <3> QED BY <2>1, <2>4, <3>1, <3>2
  <2> QED BY <2>2, <2>3, <2>4
<1>10. PICK r : r = c \o b
  OBVIOUS
<1>11. r \in Seq(S) /\ Len(r) = n + 1 /\ r = InsertAt(s, k + 1, e)
  BY <1>5, <1>7, <1>8, <1>10
<1>12. \A i \in 1..n + 1 : r[i] = IF i <= k THEN s[i] ELSE IF i = k + 1 THEN e ELSE s[i - 1]
  BY <1>9, <1>10
<1> QED BY <1>1, <1>11, <1>12

LEMMA InsertAtPosition ==
  ASSUME NEW S, NEW s \in Seq(S), NEW e \in S, NEW k \in 1..Len(s)
  PROVE  /\ \A x : InQ(InsertAt(s, k + 1, e), x) <=> x = e \/ InQ(s, x)
         /\ NoDup(s) /\ ~InQ(s, e) => NoDup(InsertAt(s, k + 1, e))
<1>1. PICK n \in Nat : n = Len(s)
  OBVIOUS
<1>2. k \in Nat /\ k \in 1..n
  BY <1>1
<1>3. PICK r : /\ r = InsertAt(s, k + 1, e) /\ Len(r) = n + 1
               /\ \A i \in 1..n + 1 :
                    r[i] = IF i <= k THEN s[i] ELSE IF i = k + 1 THEN e ELSE s[i - 1]
  BY <1>1, InsertAtElements
<1>4. ASSUME NEW x, InQ(r, x) PROVE x = e \/ InQ(s, x)
  <2>1. PICK i \in 1..n + 1 : r[i] = x
    BY <1>3, <1>4 DEF InQ
  <2>2. CASE i <= k
    <3>1. i \in 1..n /\ s[i] = x
      BY <1>2, <1>3, <2>1, <2>2
    <3> QED BY <1>1, <3>1 DEF InQ
  <2>3. CASE i = k + 1
    BY <1>2, <1>3, <2>1, <2>3
  <2>4. CASE ~(i <= k) /\ i # k + 1
    <3>1. i - 1 \in 1..n /\ s[i - 1] = x
      BY <1>2, <1>3, <2>1, <2>4
    <3> QED BY <1>1, <3>1 DEF InQ
  <2> QED BY <2>2, <2>3, <2>4
<1>5. InQ(r, e)
  <2>1. k + 1 \in 1..n + 1 /\ ~(k + 1 <= k)
    BY <1>1, <1>2
  <2>2. r[k + 1] = e
    BY <1>3, <2>1
  <2> QED BY <1>3, <2>1, <2>2 DEF InQ
<1>6. ASSUME NEW x, InQ(s, x) PROVE InQ(r, x)
  <2>1. PICK i \in 1..n : s[i] = x
    BY <1>1, <1>6 DEF InQ
  <2>2. CASE i <= k
    <3>1. i \in 1..n + 1
      BY <1>1
    <3>2. r[i] = x
      BY <1>3, <2>1, <2>2, <3>1
    <3> QED BY <1>3, <3>1, <3>2 DEF InQ
  <2>3. CASE ~(i <= k)
    <3>1. i + 1 \in 1..n + 1 /\ ~(i + 1 <= k) /\ i + 1 # k + 1 /\ (i + 1) - 1 = i
      BY <1>1, <1>2, <2>3
    <3>2. r[i + 1] = s[(i + 1) - 1]
      BY <1>3, <3>1
    <3> QED BY <1>3, <2>1, <3>1, <3>2 DEF InQ
  <2> QED BY <2>2, <2>3
<1>7. ASSUME NoDup(s), ~InQ(s, e) PROVE NoDup(r)
  <2>1. \A i \in 1..n : s[i] # e
    BY <1>1, <1>7 DEF InQ
  <2>2. \A i, j \in 1..n : s[i] = s[j] => i = j
    BY <1>1, <1>7 DEF NoDup
  <2> DEFINE at(i) == IF i <= k THEN i ELSE i - 1
  <2>3. \A i \in 1..n + 1 : i # k + 1 => at(i) \in 1..n /\ r[i] = s[at(i)]
    BY <1>1, <1>2, <1>3
  <2>4. r[k + 1] = e
    <3>1. k + 1 \in 1..n + 1 /\ ~(k + 1 <= k)
      BY <1>1, <1>2
    <3> QED BY <1>3, <3>1
  <2>5. ASSUME NEW i \in 1..n + 1, NEW j \in 1..n + 1, i # k + 1, j # k + 1, at(i) = at(j)
        PROVE  i = j
    BY <1>1, <1>2, <2>5
  <2> HIDE DEF at
  <2>6. ASSUME NEW i \in 1..n + 1, NEW j \in 1..n + 1, r[i] = r[j]
        PROVE  i = j
    <3>1. CASE i = k + 1 /\ j = k + 1
      BY <3>1
    <3>2. CASE i = k + 1 /\ j # k + 1
      BY <2>1, <2>3, <2>4, <2>6, <3>2
    <3>3. CASE i # k + 1 /\ j = k + 1
      BY <2>1, <2>3, <2>4, <2>6, <3>3
    <3>4. CASE i # k + 1 /\ j # k + 1
      <4>1. at(i) = at(j)
        BY <2>2, <2>3, <2>6, <3>4
      <4> QED BY <2>5, <3>4, <4>1
    <3> QED BY <3>1, <3>2, <3>3, <3>4
  <2> QED BY <1>3, <2>6 DEF NoDup
<1> QED BY <1>3, <1>4, <1>5, <1>6, <1>7

LEMMA ChainLink ==
  ASSUME NEW S, NEW s \in Seq(S), NoDup(s), NEW nxt, NEW h, Chain(nxt, h, s),
         NEW e \in S, ~InQ(s, e), NEW k \in 1..Len(s),
         NEW nxt2, nxt2[s[k]] = e, nxt2[e] = nxt[s[k]],
         \A x \in S : InQ(s, x) /\ x # s[k] => nxt2[x] = nxt[x]
  PROVE  Chain(nxt2, h, InsertAt(s, k + 1, e))
<1>1. PICK n \in Nat : n = Len(s)
  OBVIOUS
<1>2. k \in Nat /\ k \in 1..n /\ n # 0
  BY <1>1
<1>3. s # <<>>
  <2>1. Len(<<>>) = 0
    OBVIOUS
  <2> QED BY <1>1, <1>2, <2>1
<1>4. h = s[1] /\ nxt[s[n]] = NULL /\ \A i \in 1..n - 1 : nxt[s[i]] = s[i + 1]
  BY <1>1, <1>3 DEF Chain, Path
<1>5. \A i \in 1..n : s[i] \in S /\ InQ(s, s[i])
  BY <1>1 DEF InQ
<1>6. \A i \in 1..n : i # k => nxt2[s[i]] = nxt[s[i]]
  BY <1>1, <1>2, <1>5 DEF NoDup
<1>7. PICK r : /\ r = InsertAt(s, k + 1, e) /\ Len(r) = n + 1
               /\ \A i \in 1..n + 1 :
                    r[i] = IF i <= k THEN s[i] ELSE IF i = k + 1 THEN e ELSE s[i - 1]
  BY <1>1, InsertAtElements
<1>8. r # <<>> /\ r[1] = h
  <2>1. 1 \in 1..n + 1 /\ 1 <= k /\ n + 1 # 0
    BY <1>1, <1>2
  <2>2. Len(<<>>) = 0
    OBVIOUS
  <2> QED BY <1>4, <1>7, <2>1, <2>2
<1>9. nxt2[r[n + 1]] = NULL
  <2>1. CASE n = k
    <3>1. n + 1 \in 1..n + 1 /\ ~(n + 1 <= k) /\ n + 1 = k + 1
      BY <1>1, <1>2, <2>1
    <3>2. r[n + 1] = e
      BY <1>7, <3>1
    <3> QED BY <1>4, <2>1, <3>2
  <2>2. CASE n # k
    <3>1. n + 1 \in 1..n + 1 /\ ~(n + 1 <= k) /\ n + 1 # k + 1 /\ (n + 1) - 1 = n /\ n \in 1..n
      BY <1>1, <1>2, <2>2
    <3>2. r[n + 1] = s[(n + 1) - 1]
      BY <1>7, <3>1
    <3> QED BY <1>4, <1>6, <2>2, <3>1, <3>2
  <2> QED BY <2>1, <2>2
<1>10. ASSUME NEW i \in 1..n
       PROVE  nxt2[r[i]] = r[i + 1]
  <2>1. i \in 1..n + 1 /\ i + 1 \in 1..n + 1 /\ (i + 1) - 1 = i
    BY <1>1
  <2>2. CASE i < k
    <3>1. i <= k /\ i + 1 <= k /\ i # k /\ i \in 1..n - 1
      BY <1>1, <1>2, <2>2
    <3>2. r[i] = s[i] /\ r[i + 1] = s[i + 1]
      BY <1>7, <2>1, <3>1
    <3> QED BY <1>4, <1>6, <3>1, <3>2
  <2>3. CASE i = k
    <3>1. i <= k /\ ~(i + 1 <= k) /\ i + 1 = k + 1
      BY <1>2, <2>3
    <3>2. r[i] = s[k] /\ r[i + 1] = e
      BY <1>7, <2>1, <2>3, <3>1
    <3> QED BY <3>2
  <2>4. CASE i = k + 1
    <3>1. ~(i <= k) /\ ~(i + 1 <= k) /\ i + 1 # k + 1 /\ k \in 1..n - 1
      BY <1>1, <1>2, <2>4
    <3>2. r[i] = e /\ r[i + 1] = s[(i + 1) - 1]
      BY <1>7, <2>1, <2>4, <3>1
    <3> QED BY <1>4, <2>1, <2>4, <3>1, <3>2
  <2>5. CASE k + 1 < i
    <3>1. /\ ~(i <= k) /\ ~(i + 1 <= k) /\ i # k + 1 /\ i + 1 # k + 1
          /\ i - 1 \in 1..n - 1 /\ i - 1 \in 1..n /\ i - 1 # k /\ (i - 1) + 1 = i
      BY <1>1, <1>2, <2>5
    <3>2. r[i] = s[i - 1] /\ r[i + 1] = s[(i + 1) - 1]
      BY <1>7, <2>1, <3>1
    <3>3. nxt[s[i - 1]] = s[(i - 1) + 1]
      BY <1>4, <3>1
    <3> QED BY <1>6, <2>1, <3>1, <3>2, <3>3
  <2> QED BY <1>2, <2>2, <2>3, <2>4, <2>5
<1>11. (n + 1) - 1 = n
  BY <1>1
<1> QED BY <1>7, <1>8, <1>9, <1>10, <1>11 DEF Chain, Path
==============================================================================
