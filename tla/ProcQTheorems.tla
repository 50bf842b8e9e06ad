---------------------------- MODULE ProcQTheorems ----------------------------
(***************************************************************************)
(* What the queue operations of ProcQ do to the pcbs on a queue, for       *)
(* queues of any length.                                                   *)
(***************************************************************************)
EXTENDS ProcQ, SequenceTheorems, TLAPS

(* insertProcQ adds exactly its pcb, and keeps a queue free of duplicates. *)
LEMMA InsertProcQ ==
  ASSUME NEW S, NEW q \in Seq(S), NEW p \in S
  PROVE  /\ insertProcQ(q, p) \in Seq(S)
         /\ insertProcQ(q, p) # <<>>
         /\ Len(insertProcQ(q, p)) = Len(q) + 1
         /\ \A x : InQ(insertProcQ(q, p), x) <=> x = p \/ InQ(q, x)
         /\ NoDup(q) /\ ~InQ(q, p) => NoDup(insertProcQ(q, p))
<1> DEFINE r == insertProcQ(q, p)
<1>1. /\ r \in Seq(S)
      /\ Len(r) = Len(q) + 1
      /\ \A i \in 1..Len(q) : r[i] = q[i]
      /\ r[Len(q) + 1] = p
  BY AppendProperties DEF insertProcQ
<1>2. Len(q) \in Nat
  BY LenProperties
<1>3. r # <<>>
  BY <1>1, <1>2, EmptySeq
<1>4. ASSUME NEW x PROVE InQ(r, x) <=> x = p \/ InQ(q, x)
  <2> HIDE DEF r
  <2>1. ASSUME InQ(r, x) PROVE x = p \/ InQ(q, x)
    BY <1>1, <1>2, <2>1 DEF InQ
  <2>2. ASSUME x = p PROVE InQ(r, x)
    <3>1. Len(q) + 1 \in 1..Len(r)
      BY <1>1, <1>2
    <3> QED BY <1>1, <2>2, <3>1 DEF InQ
  <2>3. ASSUME InQ(q, x) PROVE InQ(r, x)
    BY <1>1, <1>2, <2>3 DEF InQ
  <2> QED BY <2>1, <2>2, <2>3
<1>5. ASSUME NoDup(q), ~InQ(q, p) PROVE NoDup(r)
  <2> HIDE DEF r
  <2> SUFFICES ASSUME NEW i \in 1..Len(r), NEW j \in 1..Len(r), r[i] = r[j]
               PROVE  i = j
    BY DEF NoDup
  <2>1. CASE i \in 1..Len(q) /\ j \in 1..Len(q)
    BY <1>1, <1>5, <2>1 DEF NoDup
  <2>2. CASE i = Len(q) + 1 /\ j \in 1..Len(q)
    BY <1>1, <1>5, <2>2 DEF InQ
  <2>3. CASE i \in 1..Len(q) /\ j = Len(q) + 1
    BY <1>1, <1>5, <2>3 DEF InQ
  <2> QED BY <1>1, <1>2, <2>1, <2>2, <2>3
<1> QED BY <1>1, <1>3, <1>4, <1>5

(* removeProcQ takes away exactly the head. *)
LEMMA RemoveProcQ ==
  ASSUME NEW S, NEW q \in Seq(S), q # <<>>
  PROVE  /\ headProcQ(q) \in S
         /\ headProcQ(q) = q[1]
         /\ InQ(q, headProcQ(q))
         /\ removeProcQ(q) \in Seq(S)
         /\ Len(removeProcQ(q)) = Len(q) - 1
         /\ \A x : InQ(removeProcQ(q), x) => InQ(q, x)
         /\ \A x : InQ(q, x) => x = headProcQ(q) \/ InQ(removeProcQ(q), x)
         /\ NoDup(q) => /\ NoDup(removeProcQ(q))
                        /\ ~InQ(removeProcQ(q), headProcQ(q))
<1> DEFINE h == headProcQ(q)
           r == removeProcQ(q)
<1>1. h = Head(q) /\ r = Tail(q)
  BY DEF headProcQ, removeProcQ, emptyProcQ
<1>2. /\ h \in S
      /\ r \in Seq(S)
      /\ Len(r) = Len(q) - 1
      /\ \A i \in 1..Len(r) : r[i] = q[i + 1]
  BY <1>1, HeadTailProperties
<1>3. h = q[1]
  BY <1>1
<1>4. Len(q) \in Nat \ {0}
  BY EmptySeq
<1> HIDE DEF h, r
<1>5. InQ(q, h)
  BY <1>3, <1>4 DEF InQ
<1>6. ASSUME NEW x, InQ(r, x) PROVE InQ(q, x)
  <2>1. PICK i \in 1..Len(r) : r[i] = x
    BY <1>6 DEF InQ
  <2>2. i + 1 \in 1..Len(q) /\ q[i + 1] = x
    BY <1>2, <1>4, <2>1
  <2> QED BY <2>2 DEF InQ
<1>7. ASSUME NEW x, InQ(q, x), x # h PROVE InQ(r, x)
  <2>1. PICK i \in 1..Len(q) : q[i] = x
    BY <1>7 DEF InQ
  <2>2. i - 1 \in 1..Len(r) /\ r[i - 1] = x
    BY <1>2, <1>3, <1>4, <1>7, <2>1
  <2> QED BY <2>2 DEF InQ
<1>8. ASSUME NoDup(q) PROVE NoDup(r)
  BY <1>2, <1>4, <1>8 DEF NoDup
<1>9. ASSUME NoDup(q), InQ(r, h) PROVE FALSE
  <2>1. PICK i \in 1..Len(r) : r[i] = h
    BY <1>9 DEF InQ
  <2>2. i + 1 \in 1..Len(q) /\ 1 \in 1..Len(q) /\ q[i + 1] = q[1] /\ i + 1 # 1
    BY <1>2, <1>3, <1>4, <2>1
  <2> QED BY <1>9, <2>2 DEF NoDup
<1> QED BY <1>2, <1>3, <1>5, <1>6, <1>7, <1>8, <1>9 DEF h, r

(* removeProcQ keeps the type of an empty queue, too. *)
LEMMA RemoveProcQType ==
  ASSUME NEW S, NEW q \in Seq(S)
  PROVE  /\ removeProcQ(q) \in Seq(S)
         /\ headProcQ(q) \in S \cup {NULL}
<1>1. CASE q = <<>>
  BY <1>1 DEF removeProcQ, headProcQ, emptyProcQ
<1>2. CASE q # <<>>
  BY <1>2, RemoveProcQ
<1> QED BY <1>1, <1>2

(* RemoveAt takes away exactly the pcb at one position. *)
LEMMA RemoveAtPosition ==
  ASSUME NEW S, NEW q \in Seq(S), NEW k \in 1..Len(q)
  PROVE  /\ RemoveAt(q, k) \in Seq(S)
         /\ Len(RemoveAt(q, k)) = Len(q) - 1
         /\ \A x : InQ(RemoveAt(q, k), x) => InQ(q, x)
         /\ \A x : InQ(q, x) => x = q[k] \/ InQ(RemoveAt(q, k), x)
         /\ NoDup(q) => /\ NoDup(RemoveAt(q, k))
                        /\ ~InQ(RemoveAt(q, k), q[k])
<1> DEFINE a == SubSeq(q, 1, k - 1)
           b == SubSeq(q, k + 1, Len(q))
           r == RemoveAt(q, k)
<1>1. Len(q) \in Nat /\ k \in Nat
  BY LenProperties
<1>2. /\ a \in Seq(S)
      /\ Len(a) = k - 1
      /\ \A i \in 1..k - 1 : a[i] = q[i]
  <2>1. \A i \in 1..k - 1 : q[i] \in S
    BY <1>1, ElementOfSeq
  <2>2. /\ a \in Seq(S)
        /\ Len(a) = IF 1 <= k - 1 THEN (k - 1) - 1 + 1 ELSE 0
        /\ \A i \in 1..(k - 1) - 1 + 1 : a[i] = q[1 + i - 1]
    BY <1>1, <2>1, SubSeqProperties
  <2> HIDE DEF a
  <2> QED BY <1>1, <2>2
<1>3. /\ b \in Seq(S)
      /\ Len(b) = Len(q) - k
      /\ \A i \in 1..Len(q) - k : b[i] = q[k + i]
  <2>1. \A i \in k + 1..Len(q) : q[i] \in S
    BY <1>1, ElementOfSeq
  <2>2. /\ b \in Seq(S)
        /\ Len(b) = IF k + 1 <= Len(q) THEN Len(q) - (k + 1) + 1 ELSE 0
        /\ \A i \in 1..Len(q) - (k + 1) + 1 : b[i] = q[k + 1 + i - 1]
    BY <1>1, <2>1, SubSeqProperties
  <2> HIDE DEF b
  <2> QED BY <1>1, <2>2
<1>4. r = a \o b
  BY DEF RemoveAt
<1> HIDE DEF a, b
<1>5. /\ r \in Seq(S)
      /\ Len(r) = Len(q) - 1
      /\ \A i \in 1..Len(q) - 1 : r[i] = IF i < k THEN q[i] ELSE q[i + 1]
  <2> HIDE DEF r
  <2>1. /\ r \in Seq(S)
        /\ Len(r) = Len(a) + Len(b)
        /\ \A i \in 1..Len(a) + Len(b) :
             r[i] = IF i <= Len(a) THEN a[i] ELSE b[i - Len(a)]
    <3>1. /\ a \o b \in Seq(S)
          /\ Len(a \o b) = Len(a) + Len(b)
          /\ \A i \in 1..Len(a) + Len(b) :
               (a \o b)[i] = IF i <= Len(a) THEN a[i] ELSE b[i - Len(a)]
      BY <1>2, <1>3, ConcatProperties
    <3> QED BY <1>4, <3>1
  <2>2. Len(r) = Len(q) - 1
    BY <1>1, <1>2, <1>3, <2>1
  <2>3. ASSUME NEW i \in 1..Len(q) - 1, i < k PROVE r[i] = q[i]
    <3>1. i \in 1..k - 1 /\ i <= Len(a) /\ i \in 1..Len(a) + Len(b)
      BY <1>1, <1>2, <1>3, <2>3
    <3> QED BY <1>2, <2>1, <3>1
  <2>4. ASSUME NEW i \in 1..Len(q) - 1, ~(i < k) PROVE r[i] = q[i + 1]
    <3>1. /\ i \in 1..Len(a) + Len(b) /\ ~(i <= Len(a))
          /\ i - Len(a) \in 1..Len(q) - k
          /\ k + (i - Len(a)) = i + 1
      BY <1>1, <1>2, <1>3, <2>4
    <3>2. r[i] = b[i - Len(a)] /\ b[i - Len(a)] = q[k + (i - Len(a))]
      BY <1>3, <2>1, <3>1
    <3> QED BY <3>1, <3>2
  <2> QED BY <2>1, <2>2, <2>3, <2>4
<1> HIDE DEF r
<1>6. ASSUME NEW x, InQ(r, x) PROVE InQ(q, x)
  <2>1. PICK i \in 1..Len(r) : r[i] = x
    BY <1>6 DEF InQ
  <2>2. \/ i \in 1..Len(q) /\ q[i] = x
        \/ i + 1 \in 1..Len(q) /\ q[i + 1] = x
    BY <1>1, <1>5, <2>1
  <2> QED BY <2>2 DEF InQ
<1>7. ASSUME NEW x, InQ(q, x), x # q[k] PROVE InQ(r, x)
  <2>1. PICK i \in 1..Len(q) : q[i] = x
    BY <1>7 DEF InQ
  <2>2. CASE i < k
    <3>1. i \in 1..Len(r) /\ r[i] = x
      BY <1>1, <1>5, <2>1, <2>2
    <3> QED BY <3>1 DEF InQ
  <2>3. CASE i > k
    <3>1. i - 1 \in 1..Len(r) /\ r[i - 1] = x
      BY <1>1, <1>5, <2>1, <2>3
    <3> QED BY <3>1 DEF InQ
  <2> QED BY <1>1, <1>7, <2>1, <2>2, <2>3
<1>8. ASSUME NoDup(q) PROVE NoDup(r)
  <2> SUFFICES ASSUME NEW i \in 1..Len(r), NEW j \in 1..Len(r), r[i] = r[j]
               PROVE  i = j
    BY DEF NoDup
  <2> DEFINE at(n) == IF n < k THEN n ELSE n + 1
  <2>1. /\ at(i) \in 1..Len(q) /\ r[i] = q[at(i)]
        /\ at(j) \in 1..Len(q) /\ r[j] = q[at(j)]
    BY <1>1, <1>5
  <2>2. at(i) = at(j)
    BY <1>8, <2>1 DEF NoDup
  <2> QED BY <1>1, <1>5, <2>2
<1>9. ASSUME NoDup(q), InQ(r, q[k]) PROVE FALSE
  <2>1. PICK i \in 1..Len(r) : r[i] = q[k]
    BY <1>9 DEF InQ
  <2>2. \/ i \in 1..Len(q) /\ i # k /\ q[i] = q[k]
        \/ i + 1 \in 1..Len(q) /\ i + 1 # k /\ q[i + 1] = q[k]
    BY <1>1, <1>5, <2>1
  <2> QED BY <1>9, <2>2 DEF NoDup
<1> QED BY <1>5, <1>6, <1>7, <1>8, <1>9 DEF r

(* outProcQ, when it finds its pcb, takes away exactly that pcb. *)
LEMMA OutProcQ ==
  ASSUME NEW S, NEW q \in Seq(S), NEW p, outFinds(q, p)
  PROVE  /\ q # <<>>
         /\ InQ(q, p)
         /\ outProcQ(q, p) \in Seq(S)
         /\ Len(outProcQ(q, p)) = Len(q) - 1
         /\ \A x : InQ(outProcQ(q, p), x) => InQ(q, x)
         /\ \A x : InQ(q, x) => x = p \/ InQ(outProcQ(q, p), x)
         /\ NoDup(q) => NoDup(outProcQ(q, p)) /\ ~InQ(outProcQ(q, p), p)
<1>1. q # <<>> /\ q[Len(q)] = p
  BY DEF outFinds, emptyProcQ, Last
<1>2. Len(q) \in 1..Len(q)
  BY <1>1, EmptySeq
<1>3. outProcQ(q, p) = RemoveAt(q, Len(q))
  <2>1. SubSeq(q, Len(q) + 1, Len(q)) = <<>>
    BY <1>2, SubSeqEmpty
  <2>2. SubSeq(q, 1, Len(q) - 1) \in Seq(S)
    <3>1. \A i \in 1..Len(q) - 1 : q[i] \in S
      BY <1>2, ElementOfSeq
    <3> QED BY <1>2, <3>1, SubSeqProperties
  <2> QED BY <2>1, <2>2, ConcatEmptySeq DEF outProcQ, Front, RemoveAt
<1>4. InQ(q, p)
  BY <1>1, <1>2 DEF InQ
<1>5. /\ RemoveAt(q, Len(q)) \in Seq(S)
      /\ Len(RemoveAt(q, Len(q))) = Len(q) - 1
      /\ \A x : InQ(RemoveAt(q, Len(q)), x) => InQ(q, x)
      /\ \A x : InQ(q, x) => x = q[Len(q)] \/ InQ(RemoveAt(q, Len(q)), x)
      /\ NoDup(q) => /\ NoDup(RemoveAt(q, Len(q)))
                     /\ ~InQ(RemoveAt(q, Len(q)), q[Len(q)])
  BY <1>2, RemoveAtPosition
<1> QED BY <1>1, <1>3, <1>4, <1>5

(* Two queues put together: the pcbs of both. *)
LEMMA JoinQueues ==
  ASSUME NEW S, NEW q \in Seq(S), NEW r \in Seq(S)
  PROVE  /\ q \o r \in Seq(S)
         /\ Len(q \o r) = Len(q) + Len(r)
         /\ \A x : InQ(q \o r, x) <=> InQ(q, x) \/ InQ(r, x)
         /\ NoDup(q) /\ NoDup(r) /\ (\A x : ~(InQ(q, x) /\ InQ(r, x)))
              => NoDup(q \o r)
<1> DEFINE t == q \o r
<1>1. /\ t \in Seq(S)
      /\ Len(t) = Len(q) + Len(r)
      /\ \A i \in 1..Len(q) + Len(r) :
           t[i] = IF i <= Len(q) THEN q[i] ELSE r[i - Len(q)]
  BY ConcatProperties
<1>2. Len(q) \in Nat /\ Len(r) \in Nat
  BY LenProperties
<1> HIDE DEF t
<1>3. ASSUME NEW x, InQ(t, x) PROVE InQ(q, x) \/ InQ(r, x)
  <2>1. PICK i \in 1..Len(t) : t[i] = x
    BY <1>3 DEF InQ
  <2>2. \/ i \in 1..Len(q) /\ q[i] = x
        \/ i - Len(q) \in 1..Len(r) /\ r[i - Len(q)] = x
    BY <1>1, <1>2, <2>1
  <2> QED BY <2>2 DEF InQ
<1>4. ASSUME NEW x, InQ(q, x) PROVE InQ(t, x)
  <2>1. PICK i \in 1..Len(q) : q[i] = x
    BY <1>4 DEF InQ
  <2>2. i \in 1..Len(t) /\ t[i] = x
    BY <1>1, <1>2, <2>1
  <2> QED BY <2>2 DEF InQ
<1>5. ASSUME NEW x, InQ(r, x) PROVE InQ(t, x)
  <2>1. PICK i \in 1..Len(r) : r[i] = x
    BY <1>5 DEF InQ
  <2> DEFINE j == i + Len(q)
  <2>2. j \in 1..Len(q) + Len(r) /\ ~(j <= Len(q)) /\ j - Len(q) = i
    BY <1>2
  <2>3. t[j] = r[j - Len(q)]
    BY <1>1, <2>2
  <2>4. j \in 1..Len(t) /\ t[j] = x
    BY <1>1, <2>1, <2>2, <2>3
  <2> QED BY <2>4 DEF InQ
<1>6. ASSUME NoDup(q), NoDup(r), \A x : ~(InQ(q, x) /\ InQ(r, x))
      PROVE  NoDup(t)
  <2> SUFFICES ASSUME NEW i \in 1..Len(t), NEW j \in 1..Len(t), t[i] = t[j]
               PROVE  i = j
    BY DEF NoDup
  <2>1. CASE i <= Len(q) /\ j <= Len(q)
    BY <1>1, <1>2, <1>6, <2>1 DEF NoDup
  <2>2. CASE i > Len(q) /\ j > Len(q)
    <3>1. /\ i - Len(q) \in 1..Len(r) /\ j - Len(q) \in 1..Len(r)
          /\ r[i - Len(q)] = r[j - Len(q)]
      BY <1>1, <1>2, <2>2
    <3>2. i - Len(q) = j - Len(q)
      BY <1>6, <3>1 DEF NoDup
    <3> QED BY <1>2, <3>2
  <2>3. CASE i <= Len(q) /\ j > Len(q)
    <3>1. /\ i \in 1..Len(q) /\ j - Len(q) \in 1..Len(r)
          /\ q[i] = r[j - Len(q)]
      BY <1>1, <1>2, <2>3
    <3> QED BY <1>6, <3>1 DEF InQ
  <2>4. CASE i > Len(q) /\ j <= Len(q)
    <3>1. /\ j \in 1..Len(q) /\ i - Len(q) \in 1..Len(r)
          /\ q[j] = r[i - Len(q)]
      BY <1>1, <1>2, <2>4
    <3> QED BY <1>6, <3>1 DEF InQ
  <2> QED BY <1>1, <1>2, <2>1, <2>2, <2>3, <2>4
<1> QED BY <1>1, <1>3, <1>4, <1>5, <1>6 DEF t
==============================================================================
