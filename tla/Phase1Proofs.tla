---------------------------- MODULE Phase1Proofs ----------------------------
(***************************************************************************)
(* Theorems about the data structures of phase 1, for any number of pcbs,  *)
(* of queues and of semaphores: the pointers of pcb.c and asl.c stand for  *)
(* the sequences that the abstract modules are about.                      *)
(***************************************************************************)
EXTENDS MCPhase1, LinkedLists

-----------------------------------------------------------------------------
(* pcb.c: the queues Q and the free list F that the pointers stand for.    *)

Pcb == Heap!Pcb

Members(s) == {x \in Pcb : InQ(s, x)}

LEMMA PcbFacts ==
  NULL \notin Pcb /\ IsFiniteSet(Pcb) /\ Cardinality(Pcb) = NPcb /\ NPcb \in Nat \ {0}
<1>1. NPcb \in Nat \ {0} /\ NULL \notin 1..NPcb
  BY Phase1Assumption DEF Heap!HeapAssumption
<1>2. PICK n \in Int : n = NPcb /\ n > 0
  BY <1>1
<1>3. IsFiniteSet(1..n) /\ Cardinality(1..n) = IF 1 > n THEN 0 ELSE n - 1 + 1
  BY <1>2, FS_Interval
<1>4. Cardinality(1..n) = n
  BY <1>2, <1>3
<1> QED BY <1>1, <1>2, <1>3, <1>4 DEF Pcb, Heap!Pcb

HeapType ==
  /\ p_next \in Links(Pcb) /\ p_prev \in Links(Pcb)
  /\ tp \in [Queue -> Pcb \cup {NULL}] /\ pcbFree_h \in Pcb \cup {NULL}
  /\ held \in SUBSET Pcb

(* The queues are rings and the free list a chain, without a pcb in two    *)
(* places; every pcb is in one, and one that is held is unlinked.          *)
Rings(Q) == \A q \in Queue : NoDup(Q[q]) /\ Ring(p_next, p_prev, tp[q], Q[q])

FreeChain(F) == NoDup(F) /\ Chain(p_next, pcbFree_h, F)

Apart(Q, F) ==
  /\ \A x \in Pcb : InQ(F, x) => x \notin held
  /\ \A q \in Queue, x \in Pcb : InQ(Q[q], x) => ~InQ(F, x) /\ x \notin held
  /\ \A q, r \in Queue, x \in Pcb : InQ(Q[q], x) /\ InQ(Q[r], x) => q = r

Somewhere(Q, F) ==
  \A x \in Pcb : x \in held \/ InQ(F, x) \/ \E q \in Queue : InQ(Q[q], x)

Unlinked == \A x \in held : p_next[x] = NULL /\ p_prev[x] = NULL

StandsFor(Q, F) ==
  /\ Q \in [Queue -> Seq(Pcb)] /\ F \in Seq(Pcb)
  /\ Rings(Q) /\ FreeChain(F) /\ Apart(Q, F) /\ Somewhere(Q, F) /\ Unlinked

HeapInv == HeapType /\ \E Q, F : StandsFor(Q, F)

(* What PcbHeap reads off the pointers are these queues and this list.     *)
Reads == \A Q, F : StandsFor(Q, F) => /\ [q \in Queue |-> Heap!queueOf(q)] = Q
                                      /\ Heap!freeSet = Members(F)

LEMMA NthIsWalk ==
  ASSUME NEW p
  PROVE  IsWalk(p_next, p, NPcb, Heap!nth(p))
<1>1. NPcb \in Nat
  BY PcbFacts
<1>2. PICK f : IsWalk(p_next, p, NPcb, f)
  BY <1>1, WalkExists
<1> QED BY <1>2 DEF IsWalk, Heap!nth

LEMMA ReadQueue ==
  ASSUME NEW s \in Seq(Pcb), NoDup(s), NEW q \in Queue, Ring(p_next, p_prev, tp[q], s)
  PROVE  Heap!queueOf(q) = s
<1>1. CASE s = <<>>
  BY <1>1 DEF Ring, Heap!queueOf
<1>2. CASE s # <<>>
  <2> DEFINE f == Heap!nth(p_next[tp[q]])
  <2>1. PICK k \in Nat : k = Len(s) /\ k # 0
    BY <1>2, EmptySeq
  <2>2. k <= NPcb /\ NPcb \in Nat /\ NULL \notin Pcb
    BY <2>1, PcbFacts, NoDupBound
  <2>3. tp[q] = s[k] /\ p_next[tp[q]] = s[1] /\ Path(p_next, s)
    BY <1>2, <2>1 DEF Ring, Path
  <2>4. Meets(Pcb, p_next, p_next[tp[q]], NPcb, f, s)
    BY <1>2, <2>1, <2>2, <2>3, NthIsWalk DEF Meets
  <2>5. \A n \in 1..k : f[n] = s[n]
    BY <2>1, <2>4, Along
  <2>6. /\ k \in 1..NPcb /\ f[k] = tp[q] /\ \A i \in 1..k - 1 : f[i] # tp[q]
    <3>1. \A i \in 1..k - 1 : i \in 1..k /\ k \in 1..k /\ i # k
      BY <2>1
    <3> QED BY <2>1, <2>2, <2>3, <2>5, <3>1 DEF NoDup
  <2>7. ASSUME NEW n \in 1..NPcb, f[n] = tp[q], \A i \in 1..n - 1 : f[i] # tp[q]
        PROVE  n = k
    <3>1. ~(n < k)
      BY <2>1, <2>2, <2>6, <2>7
    <3>2. ~(k < n)
      BY <2>1, <2>2, <2>6, <2>7
    <3> QED BY <2>1, <2>2, <3>1, <3>2
  <2>8. tp[q] # NULL
    BY <2>1, <2>2, <2>3
  <2>9. Heap!upTo(p_next[tp[q]], tp[q]) = [i \in 1..k |-> f[i]]
    <3> DEFINE P(n) == f[n] = tp[q] /\ \A i \in 1..n - 1 : f[i] # tp[q]
    <3>1. (CHOOSE n \in 1..NPcb : P(n)) = k
      BY <2>6, <2>7
    <3> QED BY <3>1 DEF Heap!upTo
  <2>10. [i \in 1..k |-> f[i]] = s
    BY <2>1, <2>5
  <2> QED BY <2>8, <2>9, <2>10 DEF Heap!queueOf
<1> QED BY <1>1, <1>2

LEMMA ReadFree ==
  ASSUME NEW F \in Seq(Pcb), FreeChain(F)
  PROVE  Heap!freeSet = Members(F)
<1>1. CASE F = <<>>
  <2>1. pcbFree_h = NULL /\ \A x : ~InQ(F, x)
    BY <1>1 DEF FreeChain, Chain, InQ
  <2> QED BY <2>1 DEF Heap!freeSet, Members
<1>2. CASE F # <<>>
  <2> DEFINE f == Heap!nth(pcbFree_h)
  <2>1. PICK k \in Nat : k = Len(F) /\ k # 0
    BY <1>2, EmptySeq
  <2>2. k <= NPcb /\ NPcb \in Nat /\ NULL \notin Pcb
    BY <2>1, PcbFacts, NoDupBound DEF FreeChain
  <2>3. pcbFree_h = F[1] /\ p_next[F[k]] = NULL /\ Path(p_next, F)
    BY <1>2, <2>1 DEF FreeChain, Chain
  <2>4. Meets(Pcb, p_next, pcbFree_h, NPcb, f, F)
    BY <1>2, <2>1, <2>2, <2>3, NthIsWalk DEF Meets
  <2>5. \A n \in 1..k : f[n] = F[n]
    BY <2>1, <2>4, Along
  <2>6. \A n \in k + 1..NPcb : f[n] = NULL
    BY <2>1, <2>3, <2>4, Beyond
  <2>7. \A n \in 1..k : F[n] \in Pcb /\ F[n] # NULL
    BY <2>1, <2>2
  <2>8. pcbFree_h # NULL
    BY <2>1, <2>3, <2>7
  <2>9. \A x \in Pcb : InQ(F, x) <=> \E n \in 1..k : x = F[n]
    BY <2>1 DEF InQ
  <2>10. \A n \in 1..NPcb : n \in 1..k \/ n \in k + 1..NPcb
    BY <2>1, <2>2
  <2>11. \A n \in 1..k : n \in 1..NPcb
    BY <2>1, <2>2
  <2> HIDE DEF f
  <2>12. {f[n] : n \in 1..NPcb} \ {NULL} = Members(F)
    BY <2>5, <2>6, <2>7, <2>9, <2>10, <2>11 DEF Members
  <2> QED BY <2>8, <2>12 DEF Heap!freeSet, f
<1> QED BY <1>1, <1>2

LEMMA ReadsAlways == Reads
<1> SUFFICES ASSUME NEW Q, NEW F, StandsFor(Q, F)
             PROVE  /\ [q \in Queue |-> Heap!queueOf(q)] = Q
                    /\ Heap!freeSet = Members(F)
  BY DEF Reads
<1>1. Heap!freeSet = Members(F)
  BY ReadFree DEF StandsFor
<1>2. ASSUME NEW q \in Queue PROVE Heap!queueOf(q) = Q[q]
  BY ReadQueue DEF StandsFor, Rings
<1> QED BY <1>1, <1>2 DEF StandsFor

-----------------------------------------------------------------------------
(* Every call of pcb.c keeps the queues and the list, and does to them     *)
(* what ProcQueues says.                                                   *)

Same(Q, F) == HeapType' /\ StandsFor(Q, F)'

LEMMA Untouched ==
  ASSUME HeapType, NEW Q, NEW F, StandsFor(Q, F),
         UNCHANGED <<p_next, p_prev, tp, pcbFree_h, held>>
  PROVE  Same(Q, F)
BY DEF Same, HeapType, StandsFor, Rings, FreeChain, Apart, Somewhere, Unlinked

(* What Reads says of a step, once the queues and the list are known.      *)
LEMMA ReadStep ==
  ASSUME Reads, Reads', NEW Q, NEW F, StandsFor(Q, F), NEW Q2, NEW F2, StandsFor(Q2, F2)'
  PROVE  /\ [q \in Queue |-> Heap!queueOf(q)] = Q
         /\ [q \in Queue |-> Heap!queueOf(q)]' = Q2
         /\ Heap!freeSet = Members(F) /\ Heap!freeSet' = Members(F2)
BY DEF Reads

LEMMA AllocStep ==
  ASSUME HeapType, Reads, NEW Q, NEW F, StandsFor(Q, F), Heap!allocPcb
  PROVE  HeapType' /\ HeapInv' /\ (Reads' => Heap!Abstract!AllocPcb)
<1>0. /\ NULL \notin Pcb /\ F \in Seq(Pcb) /\ Q \in [Queue -> Seq(Pcb)]
      /\ NoDup(F) /\ Chain(p_next, pcbFree_h, F)
  BY PcbFacts DEF StandsFor, FreeChain
<1>1. CASE pcbFree_h = NULL
  <2>1. F = <<>>
    <3>1. F # <<>> => F[1] \in Pcb
      BY <1>0, EmptySeq
    <3> QED BY <1>0, <1>1, <3>1 DEF Chain
  <2>2. heapRet' = NULL /\ UNCHANGED <<p_next, p_prev, tp, pcbFree_h, held>>
    BY <1>1 DEF Heap!allocPcb, Heap!emptyProcQ
  <2>3. HeapType' /\ StandsFor(Q, F)'
    BY <2>2, Untouched DEF Same
  <2>4. Members(F) = {}
    BY <2>1 DEF Members, InQ
  <2>5. ASSUME Reads' PROVE Heap!Abstract!AllocPcb
    BY <2>2, <2>3, <2>4, <2>5, ReadStep DEF Heap!Abstract!AllocPcb
  <2> QED BY <2>3, <2>5 DEF HeapInv
<1>2. CASE pcbFree_h # NULL
  <2> DEFINE h == pcbFree_h
             G == removeProcQ(F)
  <2>1. /\ heapRet' = h /\ pcbFree_h' = p_next[h]
        /\ p_next' = [p_next EXCEPT ![h] = NULL]
        /\ p_prev' = [p_prev EXCEPT ![h] = NULL]
        /\ held' = held \cup {h} /\ tp' = tp
    BY <1>2 DEF Heap!allocPcb, Heap!emptyProcQ
  <2>2. F # <<>> /\ h = F[1] /\ h \in Pcb
    BY <1>0, <1>2 DEF Chain, HeapType
  <2>3. G = Tail(F) /\ headProcQ(F) = h
    BY <2>2 DEF removeProcQ, headProcQ, emptyProcQ
  <2>4. /\ G \in Seq(Pcb) /\ NoDup(G) /\ InQ(F, h) /\ ~InQ(G, h)
        /\ \A x : InQ(F, x) <=> x = h \/ InQ(G, x)
    BY <1>0, <2>2, <2>3, RemoveProcQ
  <2>5. HeapType'
    BY <2>1, <2>2 DEF HeapType, Links
  <2>6. \A x \in Pcb : x # h => p_next'[x] = p_next[x] /\ p_prev'[x] = p_prev[x]
    BY <2>1, <2>2 DEF HeapType, Links
  <2> HIDE DEF G
  <2>7. StandsFor(Q, G)'
    <3>1. Chain(p_next', pcbFree_h', G)
      BY <1>0, <2>1, <2>2, <2>3, <2>6, ChainTail
    <3>2. \A q \in Queue, x \in Pcb : InQ(Q[q], x) => x # h
      BY <2>4 DEF StandsFor, Apart
    <3>3. ASSUME NEW q \in Queue
          PROVE  NoDup(Q[q]) /\ Ring(p_next', p_prev', tp'[q], Q[q])
      <4>1. Q[q] \in Seq(Pcb) /\ NoDup(Q[q]) /\ Ring(p_next, p_prev, tp[q], Q[q])
        BY <1>0 DEF StandsFor, Rings
      <4>2. \A x \in Pcb : InQ(Q[q], x) => p_next'[x] = p_next[x] /\ p_prev'[x] = p_prev[x]
        BY <2>6, <3>2
      <4>3. Ring(p_next', p_prev', tp[q], Q[q])
        BY ONLY <4>1, <4>2, RingFrame
      <4> QED BY <2>1, <4>1, <4>3
    <3>4. Apart(Q, G)'
      BY <2>1, <2>4 DEF StandsFor, Apart
    <3>5. Somewhere(Q, G)'
      BY <2>1, <2>4 DEF StandsFor, Somewhere
    <3>6. Unlinked'
      BY <2>1, <2>2, <2>6 DEF StandsFor, Unlinked, HeapType, Links
    <3> QED BY <1>0, <2>4, <3>1, <3>3, <3>4, <3>5, <3>6 DEF StandsFor, Rings, FreeChain
  <2>8. h \in Members(F) /\ Members(G) = Members(F) \ {h}
    BY <2>2, <2>4 DEF Members
  <2>9. ASSUME Reads' PROVE Heap!Abstract!AllocPcb
    BY <2>1, <2>7, <2>8, <2>9, ReadStep DEF Heap!Abstract!AllocPcb
  <2> QED BY <2>5, <2>7, <2>9 DEF HeapInv
<1> QED BY <1>1, <1>2

LEMMA FreeStep ==
  ASSUME HeapType, Reads, NEW Q, NEW F, StandsFor(Q, F), NEW p \in Pcb, Heap!freePcb(p)
  PROVE  HeapType' /\ HeapInv' /\ (Reads' => Heap!Abstract!FreePcb(p))
<1> DEFINE G == <<p>> \o F
<1>0. /\ NULL \notin Pcb /\ F \in Seq(Pcb) /\ Q \in [Queue -> Seq(Pcb)]
      /\ NoDup(F) /\ Chain(p_next, pcbFree_h, F)
  BY PcbFacts DEF StandsFor, FreeChain
<1>1. /\ p \in held /\ p_prev' = [p_prev EXCEPT ![p] = NULL]
      /\ p_next' = [p_next EXCEPT ![p] = pcbFree_h]
      /\ pcbFree_h' = p /\ held' = held \ {p} /\ tp' = tp /\ heapRet' = heapRet
  BY DEF Heap!freePcb
<1>2. ~InQ(F, p) /\ \A q \in Queue : ~InQ(Q[q], p)
  BY <1>1 DEF StandsFor, Apart
<1>3. /\ G \in Seq(Pcb) /\ NoDup(G)
      /\ \A x : InQ(G, x) <=> x = p \/ InQ(F, x)
  <2>1. <<p>> \in Seq(Pcb) /\ NoDup(<<p>>) /\ \A x : InQ(<<p>>, x) <=> x = p
    BY DEF NoDup, InQ
  <2> QED BY <1>0, <1>2, <2>1, JoinQueues
<1>4. HeapType'
  BY <1>1 DEF HeapType, Links
<1>5. /\ p_next'[p] = pcbFree_h
      /\ \A x \in Pcb : x # p => p_next'[x] = p_next[x] /\ p_prev'[x] = p_prev[x]
  BY <1>1 DEF HeapType, Links
<1> HIDE DEF G
<1>6. StandsFor(Q, G)'
  <2>1. Chain(p_next', pcbFree_h', G)
    <3>1. \A x \in Pcb : x # p => p_next'[x] = p_next[x]
      BY <1>5
    <3>2. p_next'[p] = pcbFree_h
      BY <1>5
    <3>3. Chain(p_next', p, <<p>> \o F)
      BY ONLY <1>0, <1>2, <3>1, <3>2, p \in Pcb, ChainPush
    <3> QED BY <1>1, <3>3 DEF G
  <2>2. ASSUME NEW q \in Queue
        PROVE  NoDup(Q[q]) /\ Ring(p_next', p_prev', tp'[q], Q[q])
    <3>1. Q[q] \in Seq(Pcb) /\ NoDup(Q[q]) /\ Ring(p_next, p_prev, tp[q], Q[q])
      BY <1>0 DEF StandsFor, Rings
    <3>2. \A x \in Pcb : InQ(Q[q], x) => p_next'[x] = p_next[x] /\ p_prev'[x] = p_prev[x]
      BY <1>2, <1>5
    <3>3. Ring(p_next', p_prev', tp[q], Q[q])
      BY ONLY <3>1, <3>2, RingFrame
    <3> QED BY <1>1, <3>1, <3>3
  <2>3. Apart(Q, G)'
    BY <1>1, <1>2, <1>3 DEF StandsFor, Apart
  <2>4. Somewhere(Q, G)'
    BY <1>1, <1>3 DEF StandsFor, Somewhere
  <2>5. Unlinked'
    BY <1>1, <1>5 DEF StandsFor, Unlinked, HeapType
  <2> QED BY <1>0, <1>3, <2>1, <2>2, <2>3, <2>4, <2>5 DEF StandsFor, Rings, FreeChain
<1>7. Members(G) = Members(F) \cup {p}
  BY <1>3 DEF Members
<1>8. ASSUME Reads' PROVE Heap!Abstract!FreePcb(p)
  BY <1>1, <1>6, <1>7, <1>8, ReadStep DEF Heap!Abstract!FreePcb
<1> QED BY <1>4, <1>6, <1>8 DEF HeapInv

(* A pcb p goes from the kernel to queue q or back: the queue becomes s.   *)
Moves(Q, q, p, s) ==
  /\ q \in Queue /\ p \in Pcb /\ (InQ(Q[q], p) \/ p \in held)
  /\ s \in Seq(Pcb) /\ NoDup(s) /\ Ring(p_next', p_prev', tp'[q], s)
  /\ \A r \in Queue : r # q => tp'[r] = tp[r]
  /\ pcbFree_h' = pcbFree_h
  /\ \A x \in Pcb : x # p => (InQ(s, x) <=> InQ(Q[q], x)) /\ (x \in held' <=> x \in held)
  /\ InQ(s, p) <=> p \notin held'
  /\ p \in held' => p_next'[p] = NULL /\ p_prev'[p] = NULL
  /\ \A x \in Pcb : x # p /\ ~InQ(Q[q], x) => p_next'[x] = p_next[x] /\ p_prev'[x] = p_prev[x]

LEMMA Moved ==
  ASSUME HeapType, HeapType', NEW Q, NEW F, StandsFor(Q, F),
         NEW q, NEW p, NEW s, Moves(Q, q, p, s), NEW R, R = [Q EXCEPT ![q] = s]
  PROVE  StandsFor(R, F)'
<1>0. /\ F \in Seq(Pcb) /\ Q \in [Queue -> Seq(Pcb)] /\ q \in Queue /\ p \in Pcb
      /\ NoDup(F) /\ Chain(p_next, pcbFree_h, F)
  BY DEF StandsFor, FreeChain, Moves
<1>1. /\ R \in [Queue -> Seq(Pcb)] /\ R[q] = s
      /\ \A r \in Queue : r # q => R[r] = Q[r]
  BY <1>0 DEF Moves
<1>2. ~InQ(F, p) /\ \A r \in Queue : r # q => ~InQ(Q[r], p)
  BY <1>0 DEF StandsFor, Apart, Moves
<1>3. Chain(p_next', pcbFree_h', F)
  <2>1. \A x \in Pcb : InQ(F, x) => x # p /\ ~InQ(Q[q], x)
    BY <1>0, <1>2 DEF StandsFor, Apart
  <2>2. \A x \in Pcb : InQ(F, x) => p_next'[x] = p_next[x]
    BY <2>1 DEF Moves
  <2>3. Chain(p_next', pcbFree_h, F)
    BY ONLY <1>0, <2>2, ChainFrame
  <2> QED BY <2>3 DEF Moves
<1>4. ASSUME NEW r \in Queue
      PROVE  NoDup(R[r]) /\ Ring(p_next', p_prev', tp'[r], R[r])
  <2>1. CASE r = q
    BY <1>1, <2>1 DEF Moves
  <2>2. CASE r # q
    <3>1. Q[r] \in Seq(Pcb) /\ NoDup(Q[r]) /\ Ring(p_next, p_prev, tp[r], Q[r])
      BY <1>0 DEF StandsFor, Rings
    <3>2. \A x \in Pcb : InQ(Q[r], x) => x # p /\ ~InQ(Q[q], x)
      BY <1>0, <1>2, <2>2 DEF StandsFor, Apart
    <3>3. \A x \in Pcb : InQ(Q[r], x) => p_next'[x] = p_next[x] /\ p_prev'[x] = p_prev[x]
      BY <3>2 DEF Moves
    <3>4. Ring(p_next', p_prev', tp[r], Q[r])
      BY ONLY <3>1, <3>3, RingFrame
    <3> QED BY <1>1, <2>2, <3>1, <3>4 DEF Moves
  <2> QED BY <2>1, <2>2
<1>5. \A r \in Queue, x \in Pcb : x # p => (InQ(R[r], x) <=> InQ(Q[r], x))
  BY <1>1 DEF Moves
<1>6. \A r \in Queue : InQ(R[r], p) <=> r = q /\ p \notin held'
  BY <1>1, <1>2 DEF Moves
<1>7. \A x \in Pcb : x # p => (x \in held' <=> x \in held)
  BY DEF Moves
<1>8. Apart(R, F)'
  <2>1. \A x \in Pcb : InQ(F, x) => x \notin held'
    BY <1>2, <1>7 DEF StandsFor, Apart
  <2>2. ASSUME NEW r \in Queue, NEW x \in Pcb, InQ(R[r], x)
        PROVE  ~InQ(F, x) /\ x \notin held'
    BY <1>2, <1>5, <1>6, <1>7, <2>2 DEF StandsFor, Apart
  <2>3. ASSUME NEW r \in Queue, NEW u \in Queue, NEW x \in Pcb, InQ(R[r], x), InQ(R[u], x)
        PROVE  r = u
    BY <1>5, <1>6, <2>3 DEF StandsFor, Apart
  <2> QED BY <2>1, <2>2, <2>3 DEF Apart
<1>9. Somewhere(R, F)'
  <2> SUFFICES ASSUME NEW x \in Pcb
               PROVE  x \in held' \/ InQ(F, x) \/ \E r \in Queue : InQ(R[r], x)
    BY DEF Somewhere
  <2>1. CASE x = p
    BY <1>0, <1>6, <2>1
  <2>2. CASE x # p
    BY <1>5, <1>7, <2>2 DEF StandsFor, Somewhere
  <2> QED BY <2>1, <2>2
<1>10. Unlinked'
  <2> SUFFICES ASSUME NEW x \in held' PROVE p_next'[x] = NULL /\ p_prev'[x] = NULL
    BY DEF Unlinked
  <2>1. CASE x = p
    BY <2>1 DEF Moves
  <2>2. CASE x # p
    <3>1. x \in Pcb /\ x \in held
      BY <1>7, <2>2 DEF HeapType
    <3>2. ~InQ(Q[q], x) /\ p_next[x] = NULL /\ p_prev[x] = NULL
      BY <1>0, <3>1 DEF StandsFor, Apart, Unlinked
    <3> QED BY <2>2, <3>1, <3>2 DEF Moves
  <2> QED BY <2>1, <2>2
<1> QED BY <1>0, <1>1, <1>3, <1>4, <1>8, <1>9, <1>10 DEF StandsFor, Rings, FreeChain

LEMMA InsertStep ==
  ASSUME HeapType, Reads, NEW Q, NEW F, StandsFor(Q, F),
         NEW q \in Queue, NEW p \in Pcb, Heap!insertProcQ(q, p)
  PROVE  HeapType' /\ HeapInv' /\ (Reads' => Heap!Abstract!InsertProc(q, p))
<1> DEFINE s == Q[q]
           s2 == Append(s, p)
           R == [Q EXCEPT ![q] = s2]
<1>0. /\ NULL \notin Pcb /\ Q \in [Queue -> Seq(Pcb)] /\ s \in Seq(Pcb)
      /\ NoDup(s) /\ Ring(p_next, p_prev, tp[q], s)
      /\ p_next \in Links(Pcb) /\ p_prev \in Links(Pcb)
  BY PcbFacts DEF StandsFor, Rings, HeapType
<1>1. /\ p \in held /\ tp' = [tp EXCEPT ![q] = p] /\ held' = held \ {p}
      /\ pcbFree_h' = pcbFree_h /\ heapRet' = heapRet
  BY DEF Heap!insertProcQ
<1>2. ~InQ(s, p)
  BY <1>1 DEF StandsFor, Apart
<1>3. /\ s2 \in Seq(Pcb) /\ NoDup(s2) /\ \A x : InQ(s2, x) <=> x = p \/ InQ(s, x)
  BY <1>0, <1>2, InsertProcQ DEF insertProcQ
<1>4. /\ Ring(p_next', p_prev', p, s2)
      /\ p_next' \in Links(Pcb) /\ p_prev' \in Links(Pcb)
      /\ \A x \in Pcb : x # p /\ ~InQ(s, x) => p_next'[x] = p_next[x] /\ p_prev'[x] = p_prev[x]
  <2>1. CASE s = <<>>
    <3>1. tp[q] = NULL
      BY <1>0, <2>1 DEF Ring
    <3>2. p_next' = [p_next EXCEPT ![p] = p] /\ p_prev' = [p_prev EXCEPT ![p] = p]
      BY <3>1 DEF Heap!insertProcQ, Heap!emptyProcQ
    <3>3. s2 = <<p>>
      BY <2>1
    <3>4. Ring(p_next', p_prev', p, <<p>>)
      BY <1>0, <3>2, RingFirst
    <3> QED BY <1>0, <3>2, <3>3, <3>4 DEF Links
  <2>2. CASE s # <<>>
    <3>1. tp[q] \in Pcb /\ tp[q] # NULL
      <4> HIDE DEF s
      <4>1. tp[q] \in Pcb
        BY ONLY <1>0, <2>2, RingOne
      <4> QED BY <1>0, <4>1
    <3>2. /\ p_next' = [p_next EXCEPT ![p] = p_next[tp[q]], ![tp[q]] = p]
          /\ p_prev' = [p_prev EXCEPT ![p] = tp[q], ![p_next[tp[q]]] = p]
      BY <3>1 DEF Heap!insertProcQ, Heap!emptyProcQ, Heap!linkBehind
    <3>3. LinkBehind(p_next, p_prev, tp[q], p, p_next', p_prev')
      BY <3>2 DEF LinkBehind
    <3> HIDE DEF s
    <3> QED BY ONLY <1>0, <1>2, <2>2, <3>3, p \in Pcb, RingInsert
  <2> QED BY <2>1, <2>2
<1> HIDE DEF s2
<1>5. HeapType'
  BY <1>1, <1>4 DEF HeapType
<1>6. Moves(Q, q, p, s2)
  <2>1. /\ tp'[q] = p /\ \A r \in Queue : r # q => tp'[r] = tp[r]
    BY <1>1 DEF HeapType
  <2> QED BY <1>1, <1>3, <1>4, <2>1 DEF Moves
<1>7. StandsFor(R, F)'
  BY <1>5, <1>6, Moved
<1>8. ASSUME Reads' PROVE Heap!Abstract!InsertProc(q, p)
  BY <1>1, <1>7, <1>8, ReadStep DEF Heap!Abstract!InsertProc, Heap!Abstract!insertProcQ, s2
<1> QED BY <1>5, <1>7, <1>8 DEF HeapInv

LEMMA RemoveStep ==
  ASSUME HeapType, Reads, NEW Q, NEW F, StandsFor(Q, F),
         NEW q \in Queue, Heap!removeProcQ(q)
  PROVE  HeapType' /\ HeapInv' /\ (Reads' => Heap!Abstract!RemoveProc(q))
<1> DEFINE s == Q[q]
           t == tp[q]
           h == p_next[t]
           s2 == Tail(s)
           R == [Q EXCEPT ![q] = s2]
<1>0. /\ NULL \notin Pcb /\ Q \in [Queue -> Seq(Pcb)] /\ s \in Seq(Pcb)
      /\ NoDup(s) /\ Ring(p_next, p_prev, t, s)
      /\ p_next \in Links(Pcb) /\ p_prev \in Links(Pcb)
  BY PcbFacts DEF StandsFor, Rings, HeapType
<1>1. CASE s = <<>>
  <2>1. t = NULL
    BY <1>0, <1>1 DEF Ring
  <2>2. heapRet' = NULL /\ UNCHANGED <<p_next, p_prev, tp, pcbFree_h, held>>
    BY <2>1 DEF Heap!removeProcQ, Heap!emptyProcQ
  <2>3. HeapType' /\ StandsFor(Q, F)'
    BY <2>2, Untouched DEF Same
  <2>4. Q = [Q EXCEPT ![q] = Q[q]]
    BY <1>0
  <2>5. ASSUME Reads' PROVE Heap!Abstract!RemoveProc(q)
    BY <1>0, <1>1, <2>2, <2>3, <2>4, <2>5, ReadStep
    DEF Heap!Abstract!RemoveProc, Heap!Abstract!headProcQ,
        Heap!Abstract!removeProcQ, Heap!Abstract!emptyProcQ
  <2> QED BY <2>3, <2>5 DEF HeapInv
<1>2. CASE s # <<>>
  <2>1. /\ t \in Pcb /\ h \in Pcb /\ h = Head(s) /\ (h = t <=> Len(s) = 1)
        /\ t # NULL /\ h # NULL
    <3>1. t \in Pcb /\ h \in Pcb /\ h = Head(s) /\ (h = t <=> Len(s) = 1)
      <4> HIDE DEF s, t
      <4> QED BY ONLY <1>0, <1>2, RingOne
    <3> QED BY <1>0, <3>1
  <2>2. /\ s2 \in Seq(Pcb) /\ NoDup(s2) /\ InQ(s, h) /\ ~InQ(s2, h)
        /\ \A x : InQ(s, x) <=> x = h \/ InQ(s2, x)
    BY <1>0, <1>2, <2>1, RemoveProcQ DEF removeProcQ, headProcQ, emptyProcQ
  <2>3. heapRet' = h /\ held' = held \cup {h} /\ pcbFree_h' = pcbFree_h
    BY <2>1 DEF Heap!removeProcQ, Heap!emptyProcQ
  <2>4. /\ Ring(p_next', p_prev', tp'[q], s2) /\ p_next'[h] = NULL /\ p_prev'[h] = NULL
        /\ p_next' \in Links(Pcb) /\ p_prev' \in Links(Pcb)
        /\ \A x \in Pcb : ~InQ(s, x) => p_next'[x] = p_next[x] /\ p_prev'[x] = p_prev[x]
        /\ tp' \in [Queue -> Pcb \cup {NULL}]
        /\ \A r \in Queue : r # q => tp'[r] = tp[r]
    <3>1. CASE h = t
      <4>1. /\ tp' = [tp EXCEPT ![q] = NULL]
            /\ p_next' = [p_next EXCEPT ![t] = NULL]
            /\ p_prev' = [p_prev EXCEPT ![t] = NULL]
        BY <2>1, <3>1 DEF Heap!removeProcQ, Heap!emptyProcQ
      <4>2. s2 = <<>>
        <5>1. Len(s2) = 0
          BY <1>0, <1>2, <2>1, <3>1, HeadTailProperties
        <5> QED BY <2>2, <5>1, EmptySeq
      <4>3. tp'[q] = NULL /\ Ring(p_next', p_prev', tp'[q], s2)
        BY <4>1, <4>2 DEF HeapType, Ring
      <4> QED BY <1>0, <2>1, <2>2, <3>1, <4>1, <4>3 DEF HeapType, Links
    <3>2. CASE h # t
      <4>1. UnlinkHead(p_next, p_prev, t, p_next', p_prev') /\ tp' = tp
        BY <2>1, <3>2 DEF Heap!removeProcQ, Heap!emptyProcQ, UnlinkHead
      <4>2. /\ Ring(p_next', p_prev', t, s2) /\ p_next'[h] = NULL /\ p_prev'[h] = NULL
            /\ p_next' \in Links(Pcb) /\ p_prev' \in Links(Pcb)
            /\ \A x \in Pcb : ~InQ(s, x) => p_next'[x] = p_next[x] /\ p_prev'[x] = p_prev[x]
        <5>1. Len(s) # 1
          BY <2>1, <3>2
        <5> HIDE DEF s, t
        <5> QED BY ONLY <1>0, <1>2, <4>1, <5>1, RingRemove
      <4> QED BY <4>1, <4>2 DEF HeapType
    <3> QED BY <3>1, <3>2
  <2>5. HeapType'
    BY <2>1, <2>3, <2>4 DEF HeapType
  <2> HIDE DEF s2
  <2>6. Moves(Q, q, h, s2)
    <3> HIDE DEF h
    <3> QED BY <2>1, <2>2, <2>3, <2>4 DEF Moves
  <2>7. StandsFor(R, F)'
    <3> HIDE DEF h
    <3> QED BY <2>5, <2>6, Moved
  <2>8. ASSUME Reads' PROVE Heap!Abstract!RemoveProc(q)
    <3>1. /\ [r \in Queue |-> Heap!queueOf(r)] = Q
          /\ [r \in Queue |-> Heap!queueOf(r)]' = R
          /\ Heap!freeSet' = Heap!freeSet
      BY <2>7, <2>8, ReadStep
    <3>2. heapRet' = Head(Q[q]) /\ held' = held \cup ({heapRet'} \ {NULL})
      BY <2>1, <2>3
    <3>3. R = [Q EXCEPT ![q] = Tail(Q[q])] /\ Q[q] # <<>>
      BY <1>2 DEF s2
    <3> HIDE DEF R
    <3> QED BY <3>1, <3>2, <3>3
        DEF Heap!Abstract!RemoveProc, Heap!Abstract!headProcQ,
            Heap!Abstract!removeProcQ, Heap!Abstract!emptyProcQ
  <2> QED BY <2>5, <2>7, <2>8 DEF HeapInv
<1> QED BY <1>1, <1>2

LEMMA OutStep ==
  ASSUME HeapType, Reads, NEW Q, NEW F, StandsFor(Q, F),
         NEW q \in Queue, NEW p \in Pcb, Heap!outProcQ(q, p)
  PROVE  HeapType' /\ HeapInv' /\ (Reads' => Heap!Abstract!OutProc(q, p))
<1> DEFINE s == Q[q]
           t == tp[q]
           s2 == Front(s)
           R == [Q EXCEPT ![q] = s2]
<1>0. /\ NULL \notin Pcb /\ Q \in [Queue -> Seq(Pcb)] /\ s \in Seq(Pcb)
      /\ NoDup(s) /\ Ring(p_next, p_prev, t, s)
      /\ p_next \in Links(Pcb) /\ p_prev \in Links(Pcb)
  BY PcbFacts DEF StandsFor, Rings, HeapType
<1>1. outFinds(s, p) <=> t = p
  <2>1. CASE s = <<>>
    BY <1>0, <2>1 DEF Ring, outFinds, emptyProcQ
  <2>2. CASE s # <<>>
    <3>1. /\ p_next[t] = t <=> Len(s) = 1
          /\ t \in Pcb /\ t = Last(s) /\ p_next[t] \in Pcb /\ p_next[t] = Head(s)
      <4> HIDE DEF s, t
      <4> QED BY ONLY <1>0, <2>2, RingOne
    <3> QED BY <2>2, <3>1 DEF outFinds, emptyProcQ
  <2> QED BY <2>1, <2>2
<1>2. CASE t # p
  <2>1. heapRet' = NULL /\ UNCHANGED <<p_next, p_prev, tp, pcbFree_h, held>>
    BY <1>2 DEF Heap!outProcQ, Heap!emptyProcQ
  <2>2. HeapType' /\ StandsFor(Q, F)'
    BY <2>1, Untouched DEF Same
  <2>3. Q = [Q EXCEPT ![q] = Q[q]] /\ ~outFinds(Q[q], p)
    BY <1>0, <1>1, <1>2
  <2>4. ASSUME Reads' PROVE Heap!Abstract!OutProc(q, p)
    <3>1. /\ [r \in Queue |-> Heap!queueOf(r)] = Q
          /\ [r \in Queue |-> Heap!queueOf(r)]' = Q
          /\ Heap!freeSet' = Heap!freeSet
      BY <2>2, <2>4, ReadStep
    <3>2. /\ ~Heap!Abstract!outFinds(Q[q], p)
          /\ Heap!Abstract!outProcQ(Q[q], p) = Q[q]
      BY <2>3 DEF Heap!Abstract!outProcQ, Heap!Abstract!outFinds,
                  Heap!Abstract!emptyProcQ, Heap!Abstract!Last, Last,
                  outFinds, emptyProcQ
    <3>3. heapRet' = NULL /\ held' = held \cup ({heapRet'} \ {NULL})
      BY <2>1
    <3> QED BY <2>3, <3>1, <3>2, <3>3 DEF Heap!Abstract!OutProc
  <2> QED BY <2>2, <2>4 DEF HeapInv
<1>3. CASE t = p
  <2>1. s # <<>> /\ outFinds(s, p) /\ p # NULL
    BY <1>0, <1>1, <1>3 DEF outFinds, emptyProcQ
  <2>2. (p_next[p] = p <=> Len(s) = 1) /\ p = s[Len(s)] /\ Len(s) \in Nat /\ Len(s) # 0
    <3>1. /\ p_next[t] = t <=> Len(s) = 1
          /\ t \in Pcb /\ t = Last(s) /\ p_next[t] \in Pcb /\ p_next[t] = Head(s)
      <4> HIDE DEF s, t
      <4> QED BY ONLY <1>0, <2>1, RingOne
    <3> QED BY <1>0, <1>3, <2>1, <3>1, EmptySeq DEF Ring
  <2>3. /\ s2 \in Seq(Pcb) /\ NoDup(s2) /\ InQ(s, p) /\ ~InQ(s2, p)
        /\ \A x : InQ(s, x) <=> x = p \/ InQ(s2, x)
    BY <1>0, <2>1, OutProcQ DEF outProcQ
  <2>4. heapRet' = p /\ held' = held \cup {p} /\ pcbFree_h' = pcbFree_h
    BY <1>3, <2>1 DEF Heap!outProcQ, Heap!emptyProcQ
  <2>5. /\ Ring(p_next', p_prev', tp'[q], s2) /\ p_next'[p] = NULL /\ p_prev'[p] = NULL
        /\ p_next' \in Links(Pcb) /\ p_prev' \in Links(Pcb)
        /\ \A x \in Pcb : ~InQ(s, x) => p_next'[x] = p_next[x] /\ p_prev'[x] = p_prev[x]
        /\ tp' \in [Queue -> Pcb \cup {NULL}]
        /\ \A r \in Queue : r # q => tp'[r] = tp[r]
    <3>1. CASE p_next[p] = p
      <4>1. /\ tp' = [tp EXCEPT ![q] = NULL]
            /\ p_next' = [p_next EXCEPT ![p] = NULL]
            /\ p_prev' = [p_prev EXCEPT ![p] = NULL]
        BY <1>3, <2>1, <3>1 DEF Heap!outProcQ, Heap!emptyProcQ
      <4>2. s2 = <<>>
        <5>1. Len(s2) = 0
          BY <1>0, <2>1, <2>2, <3>1, OutProcQ DEF outProcQ
        <5> QED BY <2>3, <5>1, EmptySeq
      <4>3. tp'[q] = NULL /\ Ring(p_next', p_prev', tp'[q], s2)
        BY <4>1, <4>2 DEF HeapType, Ring
      <4> QED BY <1>0, <2>1, <2>3, <4>1, <4>3 DEF HeapType, Links
    <3>2. CASE p_next[p] # p
      <4>1. /\ UnlinkTail(p_next, p_prev, t, p_next', p_prev')
            /\ tp' = [tp EXCEPT ![q] = p_prev[t]]
        BY <1>3, <2>1, <3>2 DEF Heap!outProcQ, Heap!emptyProcQ, Heap!newTail, UnlinkTail
      <4>2. /\ Ring(p_next', p_prev', p_prev[t], s2) /\ p_prev[t] \in Pcb
            /\ p_next'[t] = NULL /\ p_prev'[t] = NULL
            /\ p_next' \in Links(Pcb) /\ p_prev' \in Links(Pcb)
            /\ \A x \in Pcb : ~InQ(s, x) => p_next'[x] = p_next[x] /\ p_prev'[x] = p_prev[x]
        <5>1. Len(s) # 1
          BY <2>2, <3>2
        <5> HIDE DEF s, t
        <5> QED BY ONLY <1>0, <2>1, <4>1, <5>1, RingOut
      <4> QED BY <1>3, <4>1, <4>2 DEF HeapType
    <3> QED BY <3>1, <3>2
  <2>6. HeapType'
    BY <2>4, <2>5 DEF HeapType
  <2> HIDE DEF s2
  <2>7. Moves(Q, q, p, s2)
    BY <2>3, <2>4, <2>5 DEF Moves
  <2>8. StandsFor(R, F)'
    BY <2>6, <2>7, Moved
  <2>9. ASSUME Reads' PROVE Heap!Abstract!OutProc(q, p)
    <3>1. /\ [r \in Queue |-> Heap!queueOf(r)] = Q
          /\ [r \in Queue |-> Heap!queueOf(r)]' = R
          /\ Heap!freeSet' = Heap!freeSet
      BY <2>8, <2>9, ReadStep
    <3>2. heapRet' = p /\ held' = held \cup ({heapRet'} \ {NULL})
      BY <2>1, <2>4
    <3>3. R = [Q EXCEPT ![q] = Front(Q[q])] /\ Q[q] # <<>> /\ Last(Q[q]) = p
      BY <2>1 DEF s2, outFinds
    <3>4. /\ Heap!Abstract!outFinds(Q[q], p)
          /\ Heap!Abstract!outProcQ(Q[q], p) = Front(Q[q])
      BY <3>3 DEF Heap!Abstract!outProcQ, Heap!Abstract!outFinds, Heap!Abstract!emptyProcQ,
                  Heap!Abstract!Last, Last, Heap!Abstract!Front, Front
    <3> HIDE DEF R
    <3> QED BY <3>1, <3>2, <3>3, <3>4 DEF Heap!Abstract!OutProc
  <2> QED BY <2>6, <2>8, <2>9 DEF HeapInv
<1> QED BY <1>2, <1>3

LEMMA HeadStep ==
  ASSUME HeapType, Reads, NEW Q, NEW F, StandsFor(Q, F),
         NEW q \in Queue, Heap!headProcQ(q)
  PROVE  HeapType' /\ HeapInv' /\ (Reads' => Heap!Abstract!HeadProc(q))
<1> DEFINE s == Q[q]
           t == tp[q]
<1>0. /\ NULL \notin Pcb /\ s \in Seq(Pcb) /\ NoDup(s) /\ Ring(p_next, p_prev, t, s)
  BY PcbFacts DEF StandsFor, Rings
<1>1. /\ heapRet' = IF t = NULL THEN NULL ELSE p_next[t]
      /\ UNCHANGED <<p_next, p_prev, tp, pcbFree_h, held>>
  BY DEF Heap!headProcQ, Heap!emptyProcQ
<1>2. HeapType' /\ StandsFor(Q, F)'
  BY <1>1, Untouched DEF Same
<1>3. heapRet' = IF s = <<>> THEN NULL ELSE Head(s)
  <2>1. CASE s = <<>>
    BY <1>0, <1>1, <2>1 DEF Ring
  <2>2. CASE s # <<>>
    <3>1. /\ p_next[t] = t <=> Len(s) = 1
          /\ t \in Pcb /\ t = Last(s) /\ p_next[t] \in Pcb /\ p_next[t] = Head(s)
      <4> HIDE DEF s, t
      <4> QED BY ONLY <1>0, <2>2, RingOne
    <3> QED BY <1>0, <1>1, <2>2, <3>1
  <2> QED BY <2>1, <2>2
<1>4. ASSUME Reads' PROVE Heap!Abstract!HeadProc(q)
  BY <1>1, <1>2, <1>3, <1>4, ReadStep
  DEF Heap!Abstract!HeadProc, Heap!Abstract!headProcQ, Heap!Abstract!emptyProcQ
<1> QED BY <1>2, <1>4 DEF HeapInv

LEMMA HeapInit ==
  ASSUME Heap!Init
  PROVE  HeapType /\ HeapInv /\ (Reads => Heap!Abstract!Init)
<1> DEFINE Q == [q \in Queue |-> <<>>]
           F == [i \in 1..NPcb |-> NPcb + 1 - i]
<1>0. /\ p_next = [p \in Pcb |-> IF p = 1 THEN NULL ELSE p - 1]
      /\ p_prev = [p \in Pcb |-> NULL] /\ tp = [q \in Queue |-> NULL]
      /\ pcbFree_h = NPcb /\ held = {} /\ heapRet = NULL
  BY DEF Heap!Init, Pcb
<1>1. PICK n \in Nat : n = NPcb /\ n # 0 /\ Pcb = 1..n /\ NULL \notin Pcb
  BY PcbFacts DEF Pcb, Heap!Pcb
<1>2. HeapType
  <2>1. p_next \in Links(Pcb)
    BY <1>0, <1>1 DEF Links
  <2> QED BY <1>0, <1>1, <2>1 DEF HeapType, Links
<1>3. F \in Seq(Pcb) /\ Len(F) = n /\ \A i \in 1..n : F[i] = n + 1 - i
  BY <1>1
<1>4. \A x \in Pcb : InQ(F, x)
  <2> TAKE x \in Pcb
  <2> HIDE DEF F
  <2>1. n + 1 - x \in 1..n /\ n + 1 - (n + 1 - x) = x
    BY <1>1
  <2>2. F[n + 1 - x] = x
    BY <1>3, <2>1
  <2> QED BY <1>3, <2>1, <2>2 DEF InQ
<1>5. Q \in [Queue -> Seq(Pcb)] /\ \A q \in Queue : Q[q] = <<>>
  OBVIOUS
<1> HIDE DEF Q, F
<1>6. FreeChain(F)
  <2>1. NoDup(F)
    BY <1>1, <1>3 DEF NoDup
  <2>2. F # <<>>
    <3>1. Len(<<>>) = 0
      OBVIOUS
    <3> QED BY <1>1, <1>3, <3>1
  <2>3. pcbFree_h = F[1]
    BY <1>0, <1>1, <1>3
  <2>4. p_next[F[n]] = NULL
    BY <1>0, <1>1, <1>3
  <2>5. ASSUME NEW i \in 1..n - 1 PROVE p_next[F[i]] = F[i + 1]
    <3>1. i \in 1..n /\ i + 1 \in 1..n /\ n + 1 - i \in 1..n /\ n + 1 - i # 1
      BY <1>1
    <3>2. F[i] = n + 1 - i /\ F[i + 1] = n + 1 - (i + 1)
      BY <1>3, <3>1
    <3>3. p_next[n + 1 - i] = n + 1 - i - 1
      BY <1>0, <1>1, <3>1
    <3> QED BY <1>1, <3>2, <3>3
  <2> QED BY <1>3, <2>1, <2>2, <2>3, <2>4, <2>5 DEF FreeChain, Chain, Path
<1>7. StandsFor(Q, F)
  <2>1. Rings(Q)
    BY <1>0, <1>5 DEF Rings, Ring, NoDup
  <2>2. Apart(Q, F)
    BY <1>0, <1>5 DEF Apart, InQ
  <2> QED BY <1>0, <1>3, <1>4, <1>5, <1>6, <2>1, <2>2 DEF StandsFor, Somewhere, Unlinked
<1>8. ASSUME Reads PROVE Heap!Abstract!Init
  <2>1. [q \in Queue |-> Heap!queueOf(q)] = Q /\ Heap!freeSet = Members(F)
    BY <1>7, <1>8 DEF Reads
  <2>2. Members(F) = Pcb
    BY <1>4 DEF Members
  <2> QED BY <1>0, <2>1, <2>2 DEF Heap!Abstract!Init, Q, Pcb
<1> QED BY <1>2, <1>7, <1>8 DEF HeapInv

HeapStep == Heap!Abstract!Next \/ UNCHANGED Heap!Abstract!vars

LEMMA HeapNext ==
  ASSUME HeapInv, Reads, [Next]_vars
  PROVE  HeapInv' /\ (Reads' => HeapStep)
<1> PICK Q, F : StandsFor(Q, F)
  BY DEF HeapInv
<1> HeapType
  BY DEF HeapInv
<1>1. CASE UNCHANGED heapVars
  <2>1. HeapType' /\ StandsFor(Q, F)' /\ heapRet' = heapRet /\ held' = held
    BY <1>1, Untouched DEF Same, heapVars
  <2>2. ASSUME Reads' PROVE UNCHANGED Heap!Abstract!vars
    BY <2>1, <2>2, ReadStep DEF Heap!Abstract!vars
  <2> QED BY <2>1, <2>2 DEF HeapInv, HeapStep
<1>2. CASE Heap!Next
  <2>1. CASE Heap!allocPcb
    BY <2>1, AllocStep DEF HeapStep, Heap!Abstract!Next
  <2>2. ASSUME NEW p \in Pcb, Heap!freePcb(p)
        PROVE  HeapInv' /\ (Reads' => HeapStep)
    BY <2>2, FreeStep DEF HeapStep, Heap!Abstract!Next, Pcb
  <2>3. ASSUME NEW q \in Queue, Heap!removeProcQ(q)
        PROVE  HeapInv' /\ (Reads' => HeapStep)
    BY <2>3, RemoveStep DEF HeapStep, Heap!Abstract!Next
  <2>4. ASSUME NEW q \in Queue, Heap!headProcQ(q)
        PROVE  HeapInv' /\ (Reads' => HeapStep)
    BY <2>4, HeadStep DEF HeapStep, Heap!Abstract!Next
  <2>5. ASSUME NEW q \in Queue, NEW p \in Pcb, Heap!insertProcQ(q, p)
        PROVE  HeapInv' /\ (Reads' => HeapStep)
    BY <2>5, InsertStep DEF HeapStep, Heap!Abstract!Next, Pcb
  <2>6. ASSUME NEW q \in Queue, NEW p \in Pcb, Heap!outProcQ(q, p)
        PROVE  HeapInv' /\ (Reads' => HeapStep)
    BY <2>6, OutStep DEF HeapStep, Heap!Abstract!Next, Pcb
  <2> QED BY <1>2, <2>1, <2>2, <2>3, <2>4, <2>5, <2>6 DEF Heap!Next, Pcb
<1> QED BY <1>1, <1>2 DEF Next, vars

(* The pointers of pcb.c always stand for some queues and some free list   *)
(* that share no pcb: the inductive invariant of the next three theorems.  *)
THEOREM HeapInvariant == Spec => []HeapInv
<1>1. Init => HeapInv
  BY HeapInit DEF Init
<1>2. HeapInv /\ [Next]_vars => HeapInv'
  BY HeapNext, ReadsAlways
<1> QED BY <1>1, <1>2, PTL DEF Spec

LEMMA Read ==
  ASSUME NEW Q, NEW F, StandsFor(Q, F)
  PROVE  /\ Heap!freeSet = Members(F)
         /\ \A q \in Queue : ToSet(Heap!queueOf(q)) = Members(Q[q])
<1>1. [q \in Queue |-> Heap!queueOf(q)] = Q /\ Heap!freeSet = Members(F)
  BY ReadsAlways DEF Reads
<1>2. ASSUME NEW q \in Queue PROVE ToSet(Heap!queueOf(q)) = Members(Q[q])
  <2>1. Heap!queueOf(q) = Q[q]
    BY <1>1
  <2>2. PICK s \in Seq(Pcb) : s = Q[q]
    BY DEF StandsFor
  <2>3. ASSUME NEW x PROVE x \in ToSet(s) <=> x \in Members(s)
    BY DEF ToSet, Members, InQ
  <2> QED BY <2>1, <2>2, <2>3
<1> QED BY <1>1, <1>2

LEMMA RingsFollow ==
  ASSUME HeapInv PROVE RingsOK
<1> PICK Q, F : StandsFor(Q, F)
  BY DEF HeapInv
<1>1. /\ Heap!freeSet = Members(F)
      /\ \A q \in Queue : Heap!ToSet(Heap!queueOf(q)) = Members(Q[q])
  BY Read DEF Heap!ToSet, ToSet
<1>2. ASSUME NEW q \in Queue, NEW x \in Members(Q[q])
      PROVE  p_next[p_prev[x]] = x /\ p_prev[p_next[x]] = x
  <2>1. Q[q] \in Seq(Pcb) /\ Ring(p_next, p_prev, tp[q], Q[q]) /\ InQ(Q[q], x)
    BY DEF StandsFor, Rings, Members
  <2> QED BY ONLY <2>1, RingRound
<1>3. \A q \in Queue : \A x \in Members(Q[q]) : x \notin Members(F) \cup held
  BY DEF Members, StandsFor, Apart
<1>4. \A q, r \in Queue : q # r => Members(Q[q]) \cap Members(Q[r]) = {}
  BY DEF Members, StandsFor, Apart
<1>5. Unlinked
  BY DEF StandsFor
<1> QED BY <1>1, <1>2, <1>3, <1>4, <1>5 DEF RingsOK, Heap!RingsOK, Unlinked

LEMMA NoLeakFollows ==
  ASSUME HeapInv PROVE NoLeak
<1> PICK Q, F : StandsFor(Q, F)
  BY DEF HeapInv
<1>1. /\ Heap!freeSet = Members(F)
      /\ \A q \in Queue : Heap!ToSet(Heap!queueOf(q)) = Members(Q[q])
  BY Read DEF Heap!ToSet, ToSet
<1>2. held \in SUBSET Pcb
  BY DEF HeapInv, HeapType
<1>3. \A x \in Pcb : x \in held \/ x \in Members(F) \/ \E q \in Queue : x \in Members(Q[q])
  BY DEF StandsFor, Somewhere, Members
<1>4. Members(F) \subseteq Pcb /\ \A q \in Queue : Members(Q[q]) \subseteq Pcb
  BY DEF Members
<1>5. UNION {Heap!ToSet(Heap!queueOf(q)) : q \in Queue} = UNION {Members(Q[q]) : q \in Queue}
  BY <1>1
<1>6. Pcb = Members(F) \cup held \cup UNION {Members(Q[q]) : q \in Queue}
  BY <1>2, <1>3, <1>4
<1> QED BY <1>1, <1>5, <1>6 DEF NoLeak, Heap!NoLeak, Pcb

(* RingsOK for any number of pcbs and of queues: the links of a queue lead *)
(* around it in both directions, no pcb is in two queues or in a queue and *)
(* on the free list, and a pcb that a caller holds is unlinked.            *)
THEOREM RingsCorrect == Spec => []RingsOK
<1>1. HeapInv => RingsOK
  BY RingsFollow
<1> QED BY <1>1, HeapInvariant, PTL

(* NoLeak: every pcb is on the free list, in a queue, or held.             *)
THEOREM NoLeakCorrect == Spec => []NoLeak
<1>1. HeapInv => NoLeak
  BY NoLeakFollows
<1> QED BY <1>1, HeapInvariant, PTL

(* The pointer code of pcb.c does to the queues and the free list what     *)
(* ProcQueues says, and returns the pcb that it says.                      *)
THEOREM ImplementsProcQueuesCorrect == Spec => ImplementsProcQueues
<1>1. Init => Heap!Abstract!Init
  BY HeapInit, ReadsAlways DEF Init
<1>2. HeapInv /\ Reads /\ Reads' /\ [Next]_vars => [Heap!Abstract!Next]_(Heap!Abstract!vars)
  BY HeapNext DEF HeapStep
<1>3. Reads
  BY ReadsAlways
<1> QED BY <1>1, <1>2, <1>3, HeapInvariant, PTL
    DEF Spec, ImplementsProcQueues, Heap!ImplementsProcQueues, Heap!Abstract!Spec

-----------------------------------------------------------------------------
(* The process tree: K[q] is the list of the children of q.                *)

LEMMA ProcFacts ==
  NULL \notin Proc /\ IsFiniteSet(Proc) /\ Cardinality(Proc) \in Nat
<1>1. NULL \notin Proc /\ IsFiniteSet(Proc)
  BY Phase1Assumption DEF Tree!TreeAssumption, Tree!IsFiniteSet, IsFiniteSet
<1> QED BY <1>1, FS_CardinalityType

LEMMA SameCardinality == \A S : Tree!Cardinality(S) = Cardinality(S)
BY DEF Tree!Cardinality, Cardinality

(* A pcb that never had a parent, or is not in use, has no stale link that *)
(* insertChild or allocPcb could bring into a list.                        *)
TreeType ==
  /\ p_child \in Links(Proc) /\ p_sib \in Links(Proc) /\ p_prnt \in Links(Proc)
  /\ used \in SUBSET Proc /\ fresh \in SUBSET used
  /\ \A p \in Proc \ used : p_child[p] = NULL /\ p_prnt[p] = NULL
  /\ \A p \in fresh : p_prnt[p] = NULL /\ p_sib[p] = NULL

Children(K) ==
  /\ K \in [Proc -> Seq(Proc)]
  /\ \A q \in Proc : NoDup(K[q]) /\ Chain(p_sib, p_child[q], K[q])
  /\ \A p, q \in Proc : InQ(K[q], p) <=> p_prnt[p] = q

TreeInv == TreeType /\ \E K : Children(K)

TreeReads == \A K : Children(K) => [p \in Proc |-> Tree!siblings(p_child[p])] = K

LEMMA TreeReadsAlways == TreeReads
<1> SUFFICES ASSUME NEW K, Children(K)
             PROVE  [p \in Proc |-> Tree!siblings(p_child[p])] = K
  BY DEF TreeReads
<1> DEFINE m == Cardinality(Proc)
<1>0. NULL \notin Proc /\ IsFiniteSet(Proc) /\ m \in Nat /\ m <= m
  BY ProcFacts
<1>1. ASSUME NEW q \in Proc PROVE Tree!siblings(p_child[q]) = K[q]
  <2>1. PICK f : IsWalk(p_sib, p_child[q], m, f)
    BY <1>0, WalkExists
  <2> DEFINE c == Tree!Cardinality(Proc)
             at == CHOOSE at : at = [n \in 1..c |-> IF n = 1 THEN p_child[q]
                                     ELSE IF at[n - 1] = NULL THEN NULL
                                          ELSE p_sib[at[n - 1]]]
  <2>2. c = m
    BY SameCardinality
  <2>4. Tree!siblings(p_child[q])
          = [n \in 1..Tree!Cardinality({k \in 1..c : at[k] # NULL}) |-> at[n]]
    BY DEF Tree!siblings
  <2> HIDE DEF c
  <2>5. IsWalk(p_sib, p_child[q], m, at)
    BY <2>1, <2>2 DEF IsWalk
  <2> HIDE DEF at
  <2>6. Tree!siblings(p_child[q]) = UpToNULL(m, at)
    BY <2>2, <2>4, SameCardinality DEF UpToNULL
  <2>3. ChainIn(Proc, p_sib, p_child[q], K[q])
    BY <1>0 DEF ChainIn, Children
  <2> HIDE DEF m
  <2> QED BY <1>0, <2>3, <2>5, <2>6, ReadChain DEF m
<1> QED BY <1>1 DEF Children

(* The list of q becomes s, and no other list changes.                     *)
ListBecomes(K, q, s) ==
  /\ q \in Proc /\ s \in Seq(Proc) /\ NoDup(s) /\ Chain(p_sib', p_child'[q], s)
  /\ \A r \in Proc : r # q => p_child'[r] = p_child[r]
  /\ \A x \in Proc : p_prnt[x] # NULL /\ p_prnt[x] # q => p_sib'[x] = p_sib[x]
  /\ \A x \in Proc : InQ(s, x) <=> p_prnt'[x] = q
  /\ \A x, r \in Proc : r # q => (p_prnt'[x] = r <=> p_prnt[x] = r)

LEMMA ListChanged ==
  ASSUME NEW K, Children(K), NEW q, NEW s, ListBecomes(K, q, s),
         NEW R, R = [K EXCEPT ![q] = s]
  PROVE  Children(R)'
<1>0. K \in [Proc -> Seq(Proc)] /\ q \in Proc /\ NULL \notin Proc
  BY ProcFacts DEF Children, ListBecomes
<1>1. /\ R \in [Proc -> Seq(Proc)] /\ R[q] = s
      /\ \A r \in Proc : r # q => R[r] = K[r]
  BY <1>0 DEF ListBecomes
<1>2. ASSUME NEW r \in Proc PROVE NoDup(R[r]) /\ Chain(p_sib', p_child'[r], R[r])
  <2>1. CASE r = q
    BY <1>1, <2>1 DEF ListBecomes
  <2>2. CASE r # q
    <3>1. K[r] \in Seq(Proc) /\ NoDup(K[r]) /\ Chain(p_sib, p_child[r], K[r])
      BY <1>0 DEF Children
    <3>2. \A x \in Proc : InQ(K[r], x) => p_sib'[x] = p_sib[x]
      BY <1>0, <2>2 DEF Children, ListBecomes
    <3>3. Chain(p_sib', p_child[r], K[r])
      BY ONLY <3>1, <3>2, ChainFrame
    <3> QED BY <1>1, <2>2, <3>1, <3>3 DEF ListBecomes
  <2> QED BY <2>1, <2>2
<1>3. ASSUME NEW x \in Proc, NEW r \in Proc
      PROVE  InQ(R[r], x) <=> p_prnt'[x] = r
  <2>1. CASE r = q
    BY <1>1, <2>1 DEF ListBecomes
  <2>2. CASE r # q
    <3>1. InQ(R[r], x) <=> p_prnt[x] = r
      BY <1>1, <2>2 DEF Children
    <3>2. p_prnt'[x] = r <=> p_prnt[x] = r
      BY <2>2 DEF ListBecomes
    <3> QED BY <3>1, <3>2
  <2> QED BY <2>1, <2>2
<1> QED BY <1>1, <1>2, <1>3 DEF Children

LEMMA TreeReadStep ==
  ASSUME TreeReads, TreeReads', NEW K, Children(K), NEW R, Children(R)'
  PROVE  /\ [p \in Proc |-> Tree!siblings(p_child[p])] = K
         /\ [p \in Proc |-> Tree!siblings(p_child[p])]' = R
BY DEF TreeReads

TreeStep == Tree!Abstract!Next \/ UNCHANGED Tree!Abstract!vars

(* allocPcb and freePcb clear a pcb that is in no list.                    *)
LEMMA ClearStep ==
  ASSUME TreeType, TreeReads, NEW K, Children(K), NEW p \in Proc,
         Tree!allocPcb(p) \/ Tree!freePcb(p)
  PROVE  TreeInv' /\ (TreeReads' => TreeStep)
<1>1. p_child[p] = NULL /\ p_prnt[p] = NULL /\ Tree!clear(p) /\ treeRet' = treeRet
  BY DEF Tree!allocPcb, Tree!freePcb, Tree!emptyChild, TreeType
<1>2. /\ p_child' = p_child /\ p_prnt' = p_prnt /\ p_sib' \in Links(Proc)
      /\ \A x \in Proc : x # p => p_sib'[x] = p_sib[x]
      /\ p_sib'[p] = NULL
  BY <1>1 DEF Tree!clear, TreeType, Links
<1>3. \/ used' = used \cup {p} /\ fresh' = fresh \cup {p}
      \/ used' = used \ {p} /\ fresh' = fresh \ {p}
  BY DEF Tree!allocPcb, Tree!freePcb
<1>4. TreeType'
  BY <1>1, <1>2, <1>3 DEF TreeType
<1>5. Children(K)'
  <2>1. ASSUME NEW q \in Proc PROVE Chain(p_sib', p_child[q], K[q])
    <3>1. K[q] \in Seq(Proc) /\ Chain(p_sib, p_child[q], K[q])
      BY DEF Children
    <3>2. \A x \in Proc : InQ(K[q], x) => p_sib'[x] = p_sib[x]
      BY <1>1, <1>2, ProcFacts DEF Children
    <3> QED BY ONLY <3>1, <3>2, ChainFrame
  <2> QED BY <1>2, <2>1 DEF Children
<1>6. ASSUME TreeReads' PROVE TreeStep
  BY <1>1, <1>5, <1>6, TreeReadStep DEF TreeStep, Tree!Abstract!vars
<1> QED BY <1>4, <1>5, <1>6 DEF TreeInv

LEMMA InsertChildStep ==
  ASSUME TreeType, TreeReads, NEW K, Children(K), NEW p \in Proc, NEW prnt \in Proc,
         Tree!insertChild(prnt, p)
  PROVE  TreeInv' /\ (TreeReads' => TreeStep)
<1> DEFINE s == <<p>> \o K[prnt]
           R == [K EXCEPT ![prnt] = s]
<1>1. /\ p_prnt[p] = NULL /\ p \in fresh /\ p_sib[p] = NULL /\ p # prnt
      /\ p_child' = [p_child EXCEPT ![prnt] = p]
      /\ p_prnt' = [p_prnt EXCEPT ![p] = prnt]
      /\ fresh' = fresh \ {p} /\ used' = used /\ treeRet' = treeRet
      /\ prnt \in used
  BY DEF Tree!insertChild, TreeType
<1>2. /\ p_sib' \in Links(Proc) /\ p_sib'[p] = p_child[prnt]
      /\ \A x \in Proc : x # p => p_sib'[x] = p_sib[x]
  <2>1. CASE p_child[prnt] = NULL
    <3>1. p_sib' = p_sib
      BY <2>1 DEF Tree!insertChild, Tree!sibOfFirst, Tree!emptyChild
    <3> QED BY <1>1, <2>1, <3>1 DEF TreeType
  <2>2. CASE p_child[prnt] # NULL
    <3>1. p_sib' = [p_sib EXCEPT ![p] = p_child[prnt]]
      BY <2>2 DEF Tree!insertChild, Tree!sibOfFirst, Tree!emptyChild
    <3> QED BY <3>1 DEF TreeType, Links
  <2> QED BY <2>1, <2>2
<1>3. TreeType'
  BY <1>1, <1>2 DEF TreeType, Links
<1>4. /\ K[prnt] \in Seq(Proc) /\ NoDup(K[prnt]) /\ ~InQ(K[prnt], p)
      /\ Chain(p_sib, p_child[prnt], K[prnt]) /\ p \in Proc
  BY <1>1, ProcFacts DEF Children
<1>5. /\ s \in Seq(Proc) /\ NoDup(s) /\ \A x : InQ(s, x) <=> x = p \/ InQ(K[prnt], x)
  <2>1. <<p>> \in Seq(Proc) /\ NoDup(<<p>>) /\ \A x : InQ(<<p>>, x) <=> x = p
    BY DEF NoDup, InQ
  <2> QED BY <1>4, <2>1, JoinQueues
<1>6. Chain(p_sib', p, s)
  <2>1. /\ p_sib'[p] = p_child[prnt]
        /\ \A x \in Proc : x # p => p_sib'[x] = p_sib[x]
    BY <1>2
  <2> QED BY ONLY <1>4, <2>1, ChainPush
<1> HIDE DEF s
<1>7. ListBecomes(K, prnt, s)
  <2>1. p_child'[prnt] = p /\ \A r \in Proc : r # prnt => p_child'[r] = p_child[r]
    BY <1>1 DEF TreeType, Links
  <2>2. p_prnt'[p] = prnt /\ \A x \in Proc : x # p => p_prnt'[x] = p_prnt[x]
    BY <1>1 DEF TreeType, Links
  <2>3. \A x \in Proc : InQ(K[prnt], x) <=> p_prnt[x] = prnt
    BY DEF Children
  <2>4. \A x \in Proc : InQ(s, x) <=> p_prnt'[x] = prnt
    BY <1>5, <2>2, <2>3
  <2>5. ASSUME NEW x \in Proc, NEW r \in Proc, r # prnt
        PROVE  p_prnt'[x] = r <=> p_prnt[x] = r
    BY <1>1, <2>2, <2>5, ProcFacts
  <2>6. \A x \in Proc : p_prnt[x] # NULL /\ p_prnt[x] # prnt => p_sib'[x] = p_sib[x]
    BY <1>1, <1>2
  <2> QED BY <1>5, <1>6, <2>1, <2>4, <2>5, <2>6 DEF ListBecomes
<1>8. Children(R)'
  BY <1>7, ListChanged
<1>9. ASSUME TreeReads' PROVE TreeStep
  <2>1. /\ [r \in Proc |-> Tree!siblings(p_child[r])] = K
        /\ [r \in Proc |-> Tree!siblings(p_child[r])]' = R
    BY <1>8, <1>9, TreeReadStep
  <2>2. \A r \in Proc : ~InQ(K[r], p)
    BY <1>1, ProcFacts DEF Children
  <2>3. \A r \in Proc : ~Tree!Abstract!InQ(K[r], p)
    BY <2>2 DEF InQ, Tree!Abstract!InQ
  <2>4. R = [K EXCEPT ![prnt] = <<p>> \o K[prnt]]
    BY DEF s
  <2> HIDE DEF R
  <2>5. Tree!Abstract!InsertChild(prnt, p)
    BY <1>1, <2>1, <2>3, <2>4
    DEF Tree!Abstract!InsertChild, Tree!Abstract!Parentless, Tree!Abstract!ChildOf
  <2> QED BY <2>5 DEF TreeStep, Tree!Abstract!Next
<1> QED BY <1>3, <1>8, <1>9 DEF TreeInv

LEMMA RemoveChildStep ==
  ASSUME TreeType, TreeReads, NEW K, Children(K), NEW p \in Proc, Tree!removeChild(p)
  PROVE  TreeInv' /\ (TreeReads' => TreeStep)
<1> DEFINE s == K[p]
           h == p_child[p]
           s2 == removeProcQ(s)
           R == [K EXCEPT ![p] = s2]
<1>0. /\ K \in [Proc -> Seq(Proc)] /\ s \in Seq(Proc) /\ NoDup(s)
      /\ Chain(p_sib, h, s) /\ NULL \notin Proc
      /\ \A x \in Proc : InQ(s, x) <=> p_prnt[x] = p
  BY ProcFacts DEF Children
<1>1. treeRet' = h /\ used' = used /\ fresh' = fresh
  BY DEF Tree!removeChild
<1>2. CASE s = <<>>
  <2>1. h = NULL
    BY <1>0, <1>2 DEF Chain
  <2>2. p_child' = p_child /\ p_sib' = p_sib /\ p_prnt' = p_prnt
    BY <2>1 DEF Tree!removeChild, Tree!emptyChild, Tree!fields
  <2>3. TreeType' /\ Children(K)'
    BY <1>1, <2>2 DEF TreeType, Children
  <2>4. ASSUME TreeReads' PROVE TreeStep
    <3>1. /\ [r \in Proc |-> Tree!siblings(p_child[r])] = K
          /\ [r \in Proc |-> Tree!siblings(p_child[r])]' = K
      BY <2>3, <2>4, TreeReadStep
    <3>2. /\ Tree!Abstract!headProcQ(K[p]) = NULL
          /\ Tree!Abstract!removeProcQ(K[p]) = K[p]
      BY <1>2 DEF Tree!Abstract!headProcQ, Tree!Abstract!removeProcQ, Tree!Abstract!emptyProcQ
    <3>3. K = [K EXCEPT ![p] = K[p]]
      BY <1>0
    <3>4. Tree!Abstract!RemoveChild(p)
      BY <1>1, <2>1, <3>1, <3>2, <3>3 DEF Tree!Abstract!RemoveChild
    <3> QED BY <3>4 DEF TreeStep, Tree!Abstract!Next
  <2> QED BY <2>3, <2>4 DEF TreeInv
<1>3. CASE s # <<>>
  <2>1. h = s[1] /\ h \in Proc /\ h # NULL /\ p_prnt[h] = p
    <3>1. h = s[1]
      BY <1>0, <1>3 DEF Chain
    <3>2. Len(s) \in Nat /\ Len(s) # 0
      BY <1>0, <1>3, EmptySeq
    <3>3. s[1] \in Proc /\ InQ(s, s[1])
      BY <1>0, <3>2 DEF InQ
    <3> QED BY <1>0, <3>1, <3>3
  <2>2. /\ p_child' = [p_child EXCEPT ![p] = p_sib[h]]
        /\ p_prnt' = [p_prnt EXCEPT ![h] = NULL] /\ p_sib' = p_sib
    BY <2>1 DEF Tree!removeChild, Tree!emptyChild
  <2>3. s2 = Tail(s) /\ headProcQ(s) = h
    <3>1. headProcQ(s) = s[1]
      BY <1>0, <1>3, RemoveProcQ
    <3> QED BY <1>3, <2>1, <3>1 DEF removeProcQ, emptyProcQ
  <2>4. /\ s2 \in Seq(Proc) /\ NoDup(s2) /\ ~InQ(s2, h)
        /\ \A x : InQ(s, x) <=> x = h \/ InQ(s2, x)
    <3>1. /\ s2 \in Seq(Proc) /\ NoDup(s2) /\ ~InQ(s2, headProcQ(s)) /\ InQ(s, headProcQ(s))
          /\ \A x : InQ(s2, x) => InQ(s, x)
          /\ \A x : InQ(s, x) => x = headProcQ(s) \/ InQ(s2, x)
      BY <1>0, <1>3, RemoveProcQ
    <3> QED BY <2>3, <3>1
  <2>5. Chain(p_sib, p_sib[h], Tail(s))
    <3>1. \A x \in Proc : x # h => p_sib[x] = p_sib[x]
      OBVIOUS
    <3> HIDE DEF s, h
    <3> QED BY ONLY <1>0, <1>3, <3>1, ChainTail
  <2>6. TreeType'
    <3>1. p_sib[h] \in Proc \cup {NULL}
      BY <2>1 DEF TreeType, Links
    <3>2. p \in used /\ h \notin fresh
      BY <1>0, <2>1 DEF TreeType, Tree!removeChild
    <3> QED BY <1>1, <2>1, <2>2, <3>1, <3>2 DEF TreeType, Links
  <2> HIDE DEF s2
  <2>7. ListBecomes(K, p, s2)
    <3>1. p_child'[p] = p_sib[h] /\ \A r \in Proc : r # p => p_child'[r] = p_child[r]
      BY <2>2 DEF TreeType, Links
    <3>2. p_prnt'[h] = NULL /\ \A x \in Proc : x # h => p_prnt'[x] = p_prnt[x]
      BY <2>1, <2>2 DEF TreeType, Links
    <3>3. \A x \in Proc : InQ(s2, x) <=> p_prnt'[x] = p
      BY <1>0, <2>4, <3>2
    <3>4. ASSUME NEW x \in Proc, NEW r \in Proc, r # p
          PROVE  p_prnt'[x] = r <=> p_prnt[x] = r
      BY <1>0, <2>1, <3>2, <3>4
    <3> QED BY <2>2, <2>3, <2>4, <2>5, <3>1, <3>3, <3>4 DEF ListBecomes
  <2>8. Children(R)'
    BY <2>7, ListChanged
  <2>9. ASSUME TreeReads' PROVE TreeStep
    <3>1. /\ [r \in Proc |-> Tree!siblings(p_child[r])] = K
          /\ [r \in Proc |-> Tree!siblings(p_child[r])]' = R
      BY <2>8, <2>9, TreeReadStep
    <3>2. /\ Tree!Abstract!headProcQ(K[p]) = h
          /\ Tree!Abstract!removeProcQ(K[p]) = s2
      BY <2>3 DEF Tree!Abstract!headProcQ, Tree!Abstract!removeProcQ, s2,
                  Tree!Abstract!emptyProcQ, headProcQ, removeProcQ, emptyProcQ
    <3>3. R = [K EXCEPT ![p] = s2]
      OBVIOUS
    <3> HIDE DEF R
    <3>4. Tree!Abstract!RemoveChild(p)
      BY <1>1, <3>1, <3>2, <3>3 DEF Tree!Abstract!RemoveChild
    <3> QED BY <3>4 DEF TreeStep, Tree!Abstract!Next
  <2> QED BY <2>6, <2>8, <2>9 DEF TreeInv
<1> QED BY <1>2, <1>3

LEMMA OutChildStep ==
  ASSUME TreeType, TreeReads, NEW K, Children(K), NEW p \in Proc, Tree!outChild(p)
  PROVE  TreeInv' /\ (TreeReads' => TreeStep)
<1>0. /\ K \in [Proc -> Seq(Proc)] /\ NULL \notin Proc
      /\ \A x, r \in Proc : InQ(K[r], x) <=> p_prnt[x] = r
      /\ used' = used /\ fresh' = fresh
  BY ProcFacts DEF Children, Tree!outChild
<1>1. CASE p_prnt[p] = NULL
  <2>1. treeRet' = NULL /\ p_child' = p_child /\ p_sib' = p_sib /\ p_prnt' = p_prnt
    BY <1>1 DEF Tree!outChild, Tree!fields
  <2>2. TreeType' /\ Children(K)'
    BY <1>0, <2>1 DEF TreeType, Children
  <2>3. ASSUME TreeReads' PROVE TreeStep
    <3>1. /\ [r \in Proc |-> Tree!siblings(p_child[r])] = K
          /\ [r \in Proc |-> Tree!siblings(p_child[r])]' = K
      BY <2>2, <2>3, TreeReadStep
    <3>2. \A r \in Proc : ~Tree!Abstract!InQ(K[r], p)
      <4>1. \A r \in Proc : ~InQ(K[r], p)
        BY <1>0, <1>1
      <4> QED BY <4>1 DEF InQ, Tree!Abstract!InQ
    <3>3. Tree!Abstract!OutChild(p)
      BY <2>1, <3>1, <3>2
      DEF Tree!Abstract!OutChild, Tree!Abstract!Parentless, Tree!Abstract!ChildOf
    <3> QED BY <3>3 DEF TreeStep, Tree!Abstract!Next
  <2> QED BY <2>2, <2>3 DEF TreeInv
<1>2. CASE p_prnt[p] # NULL
  <2>0. PICK q \in Proc : q = p_prnt[p]
    BY <1>2 DEF TreeType, Links
  <2>1. /\ treeRet' = p /\ p_prnt' = [p_prnt EXCEPT ![p] = NULL]
        /\ p_child[q] = p => /\ p_child' = [p_child EXCEPT ![q] = p_sib[p]]
                             /\ p_sib' = p_sib
        /\ p_child[q] # p => p_sib' = Tree!bypass(p) /\ p_child' = p_child
    BY <1>2, <2>0 DEF Tree!outChild
  <2>2. PICK s : /\ s = K[q] /\ s \in Seq(Proc) /\ NoDup(s) /\ InQ(s, p)
                 /\ Chain(p_sib, p_child[q], s)
    BY <1>0, <2>0 DEF Children
  <2>3. PICK n \in Nat : n = Len(s)
    BY <2>2
  <2>4. PICK k \in 1..n : s[k] = p
    BY <2>2, <2>3 DEF InQ
  <2>5. s # <<>> /\ k \in 1..Len(s) /\ n # 0
    <3>1. Len(<<>>) = 0
      OBVIOUS
    <3> QED BY <2>3, <2>4, <3>1
  <2>6. /\ p_child[q] = s[1] /\ p_sib[s[n]] = NULL
        /\ \A i \in 1..n - 1 : p_sib[s[i]] = s[i + 1]
    BY <2>2, <2>3, <2>5 DEF Chain, Path
  <2>7. \A i \in 1..n : s[i] \in Proc /\ p_prnt[s[i]] = q /\ (s[i] = p => i = k)
    <3> TAKE i \in 1..n
    <3>1. s[i] \in Proc /\ InQ(s, s[i])
      BY <2>2, <2>3 DEF InQ
    <3>2. s[i] = p => i = k
      BY <2>2, <2>3, <2>4 DEF NoDup
    <3> QED BY <1>0, <2>2, <3>1, <3>2
  <2> DEFINE s2 == RemoveAt(s, k)
             R == [K EXCEPT ![q] = s2]
  <2>8. /\ s2 \in Seq(Proc) /\ NoDup(s2) /\ ~InQ(s2, p)
        /\ \A x : InQ(s, x) <=> x = p \/ InQ(s2, x)
    BY <2>2, <2>4, <2>5, RemoveAtPosition
  <2>9. /\ p_sib' \in Links(Proc) /\ p_child' \in Links(Proc)
        /\ Chain(p_sib', p_child'[q], s2)
        /\ \A r \in Proc : r # q => p_child'[r] = p_child[r]
        /\ \A x \in Proc : p_prnt[x] # q => p_sib'[x] = p_sib[x]
        /\ q \in used
    <3>0. q \in used
      BY <1>0, <2>4, <2>6, <2>7 DEF TreeType
    <3>1. CASE k = 1
      <4>1. p_child[q] = p
        BY <2>4, <2>6, <3>1
      <4>2. s2 = Tail(s)
        <5>1. /\ s2 \in Seq(Proc) /\ Len(s2) = n - 1
              /\ \A i \in 1..n - 1 : s2[i] = IF i < k THEN s[i] ELSE s[i + 1]
          BY <2>2, <2>3, <2>5, RemoveAtElements
        <5>2. /\ Tail(s) \in Seq(Proc) /\ Len(Tail(s)) = n - 1
              /\ \A i \in 1..n - 1 : Tail(s)[i] = s[i + 1]
          <6>1. Tail(s) \in Seq(Proc) /\ Len(Tail(s)) = n - 1
            BY <2>2, <2>3, <2>5, HeadTailProperties
          <6>2. \A i \in 1..n - 1 : Tail(s)[i] = s[i + 1]
            BY <2>2, <2>3, <2>5, HeadTailProperties
          <6> QED BY <6>1, <6>2
        <5>3. \A i \in 1..Len(s2) : s2[i] = Tail(s)[i]
          BY <3>1, <5>1, <5>2
        <5> HIDE DEF s2
        <5> QED BY <5>1, <5>2, <5>3, SeqEqual
      <4>3. Chain(p_sib, p_sib[p], Tail(s))
        <5>1. \A x \in Proc : x # p => p_sib[x] = p_sib[x]
          OBVIOUS
        <5>2. Chain(p_sib, p, s)
          BY <2>2, <4>1
        <5> QED BY ONLY <2>2, <2>5, <5>1, <5>2, ChainTail
      <4> HIDE DEF s2
      <4> QED BY <2>1, <3>0, <4>1, <4>2, <4>3 DEF TreeType, Links
    <3>2. CASE k # 1
      <4>1. PICK j \in Nat : j = k - 1 /\ j + 1 = k /\ j \in 1..n - 1 /\ j \in 1..n /\ k \in 2..n
        BY <2>3, <3>2
      <4>2. p_child[q] # p
        <5>1. 1 \in 1..n /\ 1 # k
          BY <2>3, <2>5, <3>2
        <5> QED BY <2>6, <2>7, <5>1
      <4>3. p_sib[s[j]] = p /\ s[j] \in Proc /\ p_prnt[s[j]] = q
        BY <2>4, <2>6, <2>7, <4>1
      <4>4. ASSUME NEW r \in Proc, p_sib[r] = p, p_prnt[r] = q PROVE r = s[j]
        <5>1. PICK i \in 1..n : s[i] = r
          <6>1. InQ(s, r)
            BY <1>0, <2>2, <4>4
          <6> QED BY <2>3, <6>1 DEF InQ
        <5>2. i # n
          BY <1>0, <2>6, <4>4, <5>1
        <5>3. i \in 1..n - 1 /\ i + 1 \in 1..n
          BY <2>3, <5>2
        <5>4. i + 1 = k
          BY <2>6, <2>7, <4>4, <5>1, <5>3
        <5>5. i = j
          BY <4>1, <5>4
        <5> QED BY <5>1, <5>5
      <4>5. (CHOOSE r \in Proc : p_sib[r] = p /\ p_prnt[r] = p_prnt[p]) = s[j]
        BY <2>0, <4>3, <4>4
      <4>6. p_sib' = [p_sib EXCEPT ![s[j]] = p_sib[p]] /\ p_child' = p_child
        BY <2>1, <4>2, <4>5 DEF Tree!bypass
      <4>7. /\ p_sib' \in Links(Proc) /\ p_sib'[s[j]] = p_sib[p]
            /\ \A x \in Proc : x # s[j] => p_sib'[x] = p_sib[x]
        BY <4>3, <4>6 DEF TreeType, Links
      <4>8. Chain(p_sib', p_child[q], s2)
        <5>1. p_sib'[s[k - 1]] = p_sib[s[k]] /\ k \in 2..Len(s)
          BY <2>3, <2>4, <4>1, <4>7
        <5>2. \A x \in Proc : InQ(s, x) /\ x # s[k - 1] /\ x # s[k] => p_sib'[x] = p_sib[x]
          BY <4>1, <4>7
        <5> QED BY ONLY <2>2, <5>1, <5>2, ChainCut
      <4> HIDE DEF s2
      <4> QED BY <3>0, <4>3, <4>6, <4>7, <4>8 DEF TreeType
    <3> QED BY <3>1, <3>2
  <2> HIDE DEF s2
  <2>10. p_prnt'[p] = NULL /\ \A x \in Proc : x # p => p_prnt'[x] = p_prnt[x]
    BY <2>1 DEF TreeType, Links
  <2>11. TreeType'
    <3>1. p_prnt' \in Links(Proc)
      BY <2>1 DEF TreeType, Links
    <3>2. \A x \in Proc \ used' : p_child'[x] = NULL /\ p_prnt'[x] = NULL
      BY <1>0, <2>9, <2>10 DEF TreeType
    <3>3. \A x \in fresh' : p_prnt'[x] = NULL /\ p_sib'[x] = NULL
      BY <1>0, <2>0, <2>9, <2>10 DEF TreeType
    <3> QED BY <1>0, <2>9, <3>1, <3>2, <3>3 DEF TreeType
  <2>12. ListBecomes(K, q, s2)
    <3>1. \A x \in Proc : InQ(s2, x) <=> p_prnt'[x] = q
      BY <1>0, <2>2, <2>8, <2>10
    <3>2. ASSUME NEW x \in Proc, NEW r \in Proc, r # q
          PROVE  p_prnt'[x] = r <=> p_prnt[x] = r
      BY <1>0, <2>0, <2>10, <3>2
    <3> QED BY <2>8, <2>9, <3>1, <3>2 DEF ListBecomes
  <2>13. Children(R)'
    BY <2>12, ListChanged
  <2>14. ASSUME TreeReads' PROVE TreeStep
    <3>1. /\ [r \in Proc |-> Tree!siblings(p_child[r])] = K
          /\ [r \in Proc |-> Tree!siblings(p_child[r])]' = R
      BY <2>13, <2>14, TreeReadStep
    <3>2. Tree!Abstract!RemoveAt(s, k) = s2
      BY DEF Tree!Abstract!RemoveAt, RemoveAt, s2
    <3>3. R = [K EXCEPT ![q] = s2]
      OBVIOUS
    <3> HIDE DEF R
    <3>4. Tree!Abstract!OutChild(p)
      BY <2>1, <2>2, <2>4, <2>5, <3>1, <3>2, <3>3 DEF Tree!Abstract!OutChild
    <3> QED BY <3>4 DEF TreeStep, Tree!Abstract!Next
  <2> QED BY <2>11, <2>13, <2>14 DEF TreeInv
<1> QED BY <1>1, <1>2

LEMMA TreeInit ==
  ASSUME Tree!Init
  PROVE  TreeInv /\ (TreeReads => Tree!Abstract!Init)
<1> DEFINE K == [q \in Proc |-> <<>>]
<1>1. TreeType
  BY DEF Tree!Init, TreeType, Links
<1>2. Children(K)
  <2>1. \A q \in Proc : p_child[q] = NULL /\ p_prnt[q] = NULL
    BY DEF Tree!Init
  <2> QED BY <2>1, ProcFacts DEF Children, NoDup, InQ, Chain
<1>3. TreeReads => Tree!Abstract!Init
  BY <1>2 DEF TreeReads, Tree!Abstract!Init, Tree!Init
<1> QED BY <1>1, <1>2, <1>3 DEF TreeInv

LEMMA TreeNext ==
  ASSUME TreeInv, TreeReads, [Next]_vars
  PROVE  TreeInv' /\ (TreeReads' => TreeStep)
<1> PICK K : Children(K)
  BY DEF TreeInv
<1> TreeType
  BY DEF TreeInv
<1>1. CASE UNCHANGED treeVars
  <2>1. TreeType' /\ Children(K)' /\ treeRet' = treeRet
    BY <1>1 DEF TreeType, Children, treeVars
  <2>2. ASSUME TreeReads' PROVE UNCHANGED Tree!Abstract!vars
    BY <2>1, <2>2, TreeReadStep DEF Tree!Abstract!vars
  <2> QED BY <2>1, <2>2 DEF TreeInv, TreeStep
<1>2. CASE Tree!Next
  <2> PICK p \in Proc :
        \/ Tree!allocPcb(p) \/ Tree!freePcb(p) \/ Tree!removeChild(p) \/ Tree!outChild(p)
        \/ \E prnt \in Proc : Tree!insertChild(prnt, p)
    BY <1>2 DEF Tree!Next
  <2>1. CASE Tree!allocPcb(p) \/ Tree!freePcb(p)
    BY <2>1, ClearStep
  <2>2. CASE Tree!removeChild(p)
    BY <2>2, RemoveChildStep
  <2>3. CASE Tree!outChild(p)
    BY <2>3, OutChildStep
  <2>4. CASE \E prnt \in Proc : Tree!insertChild(prnt, p)
    BY <2>4, InsertChildStep
  <2> QED BY <2>1, <2>2, <2>3, <2>4
<1> QED BY <1>1, <1>2 DEF Next, vars

(* The pointers of the tree always stand for some lists of children, and a *)
(* pcb is on the list of the parent it names: the inductive invariant of   *)
(* the next two theorems.                                                  *)
THEOREM TreeInvariant == Spec => []TreeInv
<1>1. Init => TreeInv
  BY TreeInit DEF Init
<1>2. TreeInv /\ [Next]_vars => TreeInv'
  BY TreeNext, TreeReadsAlways
<1> QED BY <1>1, <1>2, PTL DEF Spec

(* ListsMatchParents: the children on the list of a pcb are those whose    *)
(* p_prnt it is.                                                           *)
THEOREM ListsCorrect == Spec => []ListsMatchParents
<1>1. ASSUME TreeInv PROVE ListsMatchParents
  <2> PICK K : Children(K)
    BY <1>1 DEF TreeInv
  <2>1. [p \in Proc |-> Tree!siblings(p_child[p])] = K
    BY TreeReadsAlways DEF TreeReads
  <2>2. ASSUME NEW p \in Proc, NEW q \in Proc
        PROVE  Tree!InQ(Tree!siblings(p_child[q]), p) <=> p_prnt[p] = q
    <3>1. Tree!siblings(p_child[q]) = K[q]
      BY <2>1
    <3>2. Tree!InQ(K[q], p) <=> InQ(K[q], p)
      BY DEF Tree!InQ, InQ
    <3> QED BY <3>1, <3>2 DEF Children
  <2> QED BY <2>2 DEF ListsMatchParents, Tree!ListsMatchParents
<1> QED BY <1>1, TreeInvariant, PTL

(* The pointer code of pcb.c does to the lists of children what ProcTree   *)
(* says, and returns the pcb that it says.                                 *)
THEOREM ImplementsProcTreeCorrect == Spec => ImplementsProcTree
<1>1. Init => Tree!Abstract!Init
  BY TreeInit, TreeReadsAlways DEF Init
<1>2. TreeInv /\ TreeReads /\ TreeReads' /\ [Next]_vars
        => [Tree!Abstract!Next]_(Tree!Abstract!vars)
  BY TreeNext DEF TreeStep
<1>3. TreeReads
  BY TreeReadsAlways
<1> QED BY <1>1, <1>2, <1>3, TreeInvariant, PTL
    DEF Spec, ImplementsProcTree, Tree!ImplementsProcTree, Tree!Abstract!Spec

(* findASemd goes along the list while the next address is below i.        *)
IsHunt(nxt, sa, h, i, m, f) ==
  f = [n \in 0..m |-> IF n = 0 THEN h
                      ELSE IF sa[nxt[f[n - 1]]] < i THEN nxt[f[n - 1]] ELSE f[n - 1]]

LEMMA HuntExists ==
  ASSUME NEW nxt, NEW sa, NEW h, NEW i, NEW m \in Nat
  PROVE  \E f : IsHunt(nxt, sa, h, i, m, f)
<1> DEFINE T == {k \in Nat : \E f : IsHunt(nxt, sa, h, i, k, f)}
<1>1. 0 \in T
  <2> DEFINE f == [n \in 0..0 |-> h]
  <2>1. IsHunt(nxt, sa, h, i, 0, f)
    BY DEF IsHunt
  <2> QED BY <2>1
<1>2. ASSUME NEW k \in T PROVE k + 1 \in T
  <2>1. PICK f : IsHunt(nxt, sa, h, i, k, f)
    OBVIOUS
  <2> DEFINE last == IF sa[nxt[f[k]]] < i THEN nxt[f[k]] ELSE f[k]
             g == [n \in 0..k + 1 |-> IF n <= k THEN f[n] ELSE last]
  <2>2. ASSUME NEW n \in 0..k + 1
        PROVE  g[n] = IF n = 0 THEN h
                      ELSE IF sa[nxt[g[n - 1]]] < i THEN nxt[g[n - 1]] ELSE g[n - 1]
    <3>1. CASE n = k + 1
      <4>1. n - 1 = k /\ n # 0 /\ g[n] = last /\ g[k] = f[k]
        BY <3>1
      <4> HIDE DEF g
      <4> QED BY <4>1
    <3>2. CASE n # k + 1
      <4>1. n \in 0..k /\ g[n] = f[n] /\ (n # 0 => g[n - 1] = f[n - 1])
        BY <3>2
      <4>2. f[n] = IF n = 0 THEN h
                   ELSE IF sa[nxt[f[n - 1]]] < i THEN nxt[f[n - 1]] ELSE f[n - 1]
        BY <2>1, <4>1 DEF IsHunt
      <4> HIDE DEF g
      <4> QED BY <4>1, <4>2
    <3> QED BY <3>1, <3>2
  <2>3. g = [n \in 0..k + 1 |-> g[n]]
    OBVIOUS
  <2> HIDE DEF g
  <2>4. IsHunt(nxt, sa, h, i, k + 1, g)
    BY <2>2, <2>3 DEF IsHunt
  <2> QED BY <2>4
<1> HIDE DEF T
<1>3. T = Nat
  <2>1. T \in SUBSET Nat
    BY DEF T
  <2> QED BY <1>1, <1>2, <2>1, Induction
<1> QED BY <1>3 DEF T

-----------------------------------------------------------------------------
(* asl.c: the list A, the free list F and the queues Q of the semaphores.  *)

Semd == Asl!Semd

LEMMA SemFacts ==
  /\ NULL \in Nat /\ NSemd \in Nat /\ NSemd # 0 /\ Semd = 1..NSemd + 2
  /\ NULL \notin Semd /\ NULL # 0
  /\ \A i \in Sem : i \in Nat /\ 0 < i /\ i < NULL
  /\ IsFiniteSet(Semd) /\ Cardinality(Semd) = NSemd + 2
<1>1. /\ NULL \in Nat /\ \A s \in Sem : s \in 1..NULL - 1
      /\ NSemd \in 1..NULL - 3
  BY Phase1Assumption DEF Asl!AslAssumption
<1>2. PICK n \in Nat : n = NSemd /\ n # 0 /\ n <= NULL - 3
  BY <1>1
<1>3. Semd = 1..n + 2
  BY <1>2 DEF Semd, Asl!Semd
<1>4. IsFiniteSet(1..n + 2) /\ Cardinality(1..n + 2) = IF 1 > n + 2 THEN 0 ELSE n + 2 - 1 + 1
  BY <1>2, FS_Interval
<1>5. Cardinality(1..n + 2) = n + 2
  <2>1. ~(1 > n + 2) /\ n + 2 - 1 + 1 = n + 2
    BY <1>2
  <2> QED BY <1>4, <2>1
<1> QED BY <1>1, <1>2, <1>3, <1>4, <1>5

SemType ==
  /\ s_next \in Links(Semd) /\ s_semAdd \in [Semd -> 0..NULL]
  /\ s_procQ \in [Semd -> Seq(Proc)]
  /\ semdActive_h \in Semd /\ semdFree_h \in Semd \cup {NULL}
  /\ p_semAdd \in [Proc -> Sem \cup {NULL}]

(* The addresses go up from the one dummy to the other.                    *)
Sorted(sa, A) ==
  /\ sa[A[1]] = 0 /\ sa[A[Len(A)]] = NULL
  /\ \A j, l \in 1..Len(A) : j < l => sa[A[j]] < sa[A[l]]

Lists(A, F) ==
  /\ A \in Seq(Semd) /\ F \in Seq(Semd) /\ NoDup(A) /\ NoDup(F) /\ Len(A) > 1
  /\ Chain(s_next, semdActive_h, A) /\ Chain(s_next, semdFree_h, F)
  /\ \A d \in Semd : InQ(A, d) <=> ~InQ(F, d)
  /\ Len(A) + Len(F) = NSemd + 2
  /\ Sorted(s_semAdd, A)

(* The descriptors between the dummies are those of the queues in use.     *)
Described(A, Q) ==
  /\ \A k \in 2..Len(A) - 1 : /\ s_semAdd[A[k]] \in Sem
                              /\ s_procQ[A[k]] = Q[s_semAdd[A[k]]]
                              /\ Q[s_semAdd[A[k]]] # <<>>
  /\ \A i \in Sem : Q[i] # <<>> => \E k \in 2..Len(A) - 1 : s_semAdd[A[k]] = i

BlockedIn(Q) ==
  /\ Q \in [Sem -> Seq(Proc)]
  /\ \A i \in Sem : NoDup(Q[i])
  /\ \A i \in Sem, p \in Proc : InQ(Q[i], p) <=> p_semAdd[p] = i

SemFor(A, F, Q) == Lists(A, F) /\ Described(A, Q) /\ BlockedIn(Q)

AslInv == SemType /\ \E A, F, Q : SemFor(A, F, Q)

AslReads ==
  \A A, F, Q : SemType /\ SemFor(A, F, Q)
    => /\ Asl!active = A /\ Asl!listFrom(semdFree_h) = F
       /\ [i \in Sem |-> Asl!queueOf(i)] = Q

LEMMA AslCardinality == \A S : Asl!Cardinality(S) = Cardinality(S)
BY DEF Asl!Cardinality, Cardinality

LEMMA ReadList ==
  ASSUME NEW h, NEW B, B \in Seq(Semd), NoDup(B), Chain(s_next, h, B)
  PROVE  Asl!listFrom(h) = B
<1> DEFINE m == NSemd + 2
<1>0. NULL \notin Semd /\ IsFiniteSet(Semd) /\ m \in Nat /\ Cardinality(Semd) <= m /\ Semd = 1..m
  BY SemFacts
<1>1. PICK f : IsWalk(s_next, h, m, f)
  BY <1>0, WalkExists
<1> DEFINE at == CHOOSE at : at = [n \in 1..m |-> IF n = 1 THEN h
                                   ELSE IF at[n - 1] = NULL THEN NULL
                                        ELSE s_next[at[n - 1]]]
<1>2. Asl!listFrom(h)
        = [n \in 1..Asl!Cardinality({k \in Semd : at[k] # NULL}) |-> at[n]]
  BY DEF Asl!listFrom, Semd
<1> HIDE DEF m
<1>3. IsWalk(s_next, h, m, at)
  BY <1>1 DEF IsWalk
<1> HIDE DEF at
<1>4. Asl!listFrom(h) = UpToNULL(m, at)
  BY <1>0, <1>2, AslCardinality DEF UpToNULL
<1>5. ChainIn(Semd, s_next, h, B)
  BY <1>0 DEF ChainIn
<1> QED BY <1>0, <1>3, <1>4, <1>5, ReadChain

(* The place where findASemd(i) stops.                                     *)
Stops(A, Q, i, k) ==
  /\ k \in 1..Len(A) - 1 /\ Asl!findASemd(i) = A[k]
  /\ A[k] \in Semd /\ A[k + 1] \in Semd
  /\ s_next[A[k]] = A[k + 1]
  /\ s_semAdd[A[k]] < i /\ i <= s_semAdd[A[k + 1]]
  /\ s_semAdd[A[k + 1]] = i <=> Q[i] # <<>>
  /\ s_semAdd[A[k + 1]] = i => k + 1 \in 2..Len(A) - 1 /\ s_procQ[A[k + 1]] = Q[i]

LEMMA Find ==
  ASSUME SemType, NEW A, NEW F, NEW Q, SemFor(A, F, Q), NEW i \in Sem
  PROVE  \E k : Stops(A, Q, i, k)
<1>0. /\ NULL \in Nat /\ NSemd \in Nat /\ i \in Nat /\ 0 < i /\ i < NULL
      /\ NULL \notin Semd
  BY SemFacts
<1>1. PICK n \in Nat : n = Len(A) /\ n > 1
  BY DEF SemFor, Lists
<1>2. /\ \A j \in 1..n : A[j] \in Semd /\ s_semAdd[A[j]] \in Nat
      /\ s_semAdd[A[1]] = 0 /\ s_semAdd[A[n]] = NULL
      /\ \A j, l \in 1..n : j < l => s_semAdd[A[j]] < s_semAdd[A[l]]
  <2>1. \A j \in 1..n : A[j] \in Semd
    BY <1>1 DEF SemFor, Lists
  <2>2. \A j \in 1..n : s_semAdd[A[j]] \in 0..NULL
    BY <2>1 DEF SemType
  <2> QED BY <1>0, <1>1, <2>1, <2>2 DEF SemFor, Lists, Sorted
<1>3. semdActive_h = A[1] /\ \A j \in 1..n - 1 : s_next[A[j]] = A[j + 1]
  <2>1. A # <<>>
    <3>1. Len(<<>>) = 0
      OBVIOUS
    <3> QED BY <1>1, <3>1
  <2> QED BY <1>1, <2>1 DEF SemFor, Lists, Chain, Path
<1>4. n <= NSemd + 2
  <2>1. Len(F) \in Nat
    BY DEF SemFor, Lists
  <2> QED BY <1>0, <1>1, <2>1 DEF SemFor, Lists
<1> DEFINE T == {j \in 1..n : ~(s_semAdd[A[j]] < i)}
<1>5. PICK k0 \in T : \A j \in T : k0 <= j
  <2>1. n \in T
    BY <1>0, <1>1, <1>2
  <2>2. T \in SUBSET Nat
    OBVIOUS
  <2> HIDE DEF T
  <2> QED BY <2>1, <2>2, Least
<1>6. k0 \in 1..n /\ ~(s_semAdd[A[k0]] < i) /\ k0 # 1
  BY <1>0, <1>1, <1>2
<1>7. \A j \in 1..n : j < k0 => s_semAdd[A[j]] < i
  BY <1>5, <1>6
<1> HIDE DEF T
<1>8. PICK k \in Nat : k = k0 - 1 /\ k + 1 = k0 /\ k \in 1..n - 1 /\ k \in 1..n /\ k + 1 \in 1..n
  BY <1>1, <1>6
<1>9. s_next[A[k]] = A[k + 1] /\ s_semAdd[A[k]] < i /\ i <= s_semAdd[A[k + 1]]
  BY <1>0, <1>2, <1>3, <1>6, <1>7, <1>8
<1> DEFINE m == NSemd + 1
           at == CHOOSE at : at = [l \in 0..m |-> IF l = 0 THEN semdActive_h
                                   ELSE IF s_semAdd[s_next[at[l - 1]]] < i
                                        THEN s_next[at[l - 1]] ELSE at[l - 1]]
<1>10. Asl!findASemd(i) = at[m]
  BY DEF Asl!findASemd
<1>11. m \in Nat /\ k <= m
  BY <1>0, <1>4, <1>8
<1> HIDE DEF m
<1>12. IsHunt(s_next, s_semAdd, semdActive_h, i, m, at)
  <2>1. PICK f : IsHunt(s_next, s_semAdd, semdActive_h, i, m, f)
    BY <1>11, HuntExists
  <2> QED BY <2>1 DEF IsHunt
<1> HIDE DEF at
<1>13. \A l \in 0..m : at[l] = IF l < k THEN A[l + 1] ELSE A[k]
  <2> DEFINE U == {l \in 0..m : ~(at[l] = IF l < k THEN A[l + 1] ELSE A[k])}
  <2> SUFFICES ASSUME U # {} PROVE FALSE
    OBVIOUS
  <2>1. PICK l \in U : \A j \in U : l <= j
    <3>1. U \in SUBSET Nat
      BY <1>11
    <3> HIDE DEF U
    <3> QED BY <3>1, Least
  <2>2. l \in 0..m /\ ~(at[l] = IF l < k THEN A[l + 1] ELSE A[k])
    OBVIOUS
  <2>3. \A j \in 0..m : j < l => at[j] = IF j < k THEN A[j + 1] ELSE A[k]
    BY <1>11, <2>1
  <2> HIDE DEF U
  <2>4. at[l] = IF l = 0 THEN semdActive_h
                ELSE IF s_semAdd[s_next[at[l - 1]]] < i THEN s_next[at[l - 1]] ELSE at[l - 1]
    BY <1>12, <2>2 DEF IsHunt
  <2>5. CASE l = 0
    <3>1. 0 < k /\ 0 + 1 = 1
      BY <1>8
    <3> QED BY <1>3, <2>2, <2>4, <2>5, <3>1
  <2>6. CASE l # 0
    <3>1. PICK j \in Nat : j = l - 1 /\ j + 1 = l /\ j \in 0..m /\ j < l
      BY <1>11, <2>2, <2>6
    <3>2. at[j] = IF j < k THEN A[j + 1] ELSE A[k]
      BY <2>3, <3>1
    <3>3. at[l] = IF s_semAdd[s_next[at[j]]] < i THEN s_next[at[j]] ELSE at[j]
      BY <2>4, <2>6, <3>1
    <3>4. CASE l < k
      <4>1. j < k /\ l \in 1..n - 1 /\ l + 1 \in 1..n /\ l + 1 < k0
        BY <1>8, <3>1, <3>4
      <4>2. at[j] = A[l] /\ s_next[A[l]] = A[l + 1] /\ s_semAdd[A[l + 1]] < i
        BY <1>3, <1>7, <3>1, <3>2, <4>1
      <4> QED BY <2>2, <3>3, <3>4, <4>2
    <3>5. CASE ~(l < k)
      <4>1. at[j] = A[k]
        <5>1. CASE j < k
          <6>1. l = k
            BY <1>8, <3>1, <3>5, <5>1
          <6> QED BY <3>1, <3>2, <5>1, <6>1
        <5>2. CASE ~(j < k)
          BY <3>2, <5>2
        <5> QED BY <5>1, <5>2
      <4>2. ~(s_semAdd[s_next[A[k]]] < i)
        BY <1>3, <1>6, <1>8
      <4> QED BY <2>2, <3>3, <3>5, <4>1, <4>2
    <3> QED BY <3>4, <3>5
  <2> QED BY <2>5, <2>6
<1>14. Asl!findASemd(i) = A[k]
  <2>1. m \in 0..m /\ ~(m < k)
    BY <1>8, <1>11
  <2> QED BY <1>10, <1>13, <2>1
<1>15. ASSUME s_semAdd[A[k + 1]] = i
       PROVE  k + 1 \in 2..Len(A) - 1 /\ s_procQ[A[k + 1]] = Q[i] /\ Q[i] # <<>>
  <2>1. k + 1 # n
    BY <1>0, <1>2, <1>15
  <2>2. k + 1 \in 2..Len(A) - 1
    BY <1>1, <1>8, <2>1
  <2> QED BY <1>15, <2>2 DEF SemFor, Described
<1>16. ASSUME Q[i] # <<>> PROVE s_semAdd[A[k + 1]] = i
  <2>1. PICK l \in 2..n - 1 : s_semAdd[A[l]] = i
    BY <1>1, <1>16 DEF SemFor, Described
  <2>2. l \in 1..n
    BY <1>1
  <2>3. ~(l < k + 1)
    BY <1>0, <1>2, <1>7, <1>8, <2>1, <2>2
  <2>4. ~(k + 1 < l)
    <3>1. SUFFICES ASSUME k + 1 < l PROVE FALSE
      OBVIOUS
    <3>2. s_semAdd[A[k + 1]] < s_semAdd[A[l]] /\ s_semAdd[A[k + 1]] \in Nat
      BY <1>2, <1>8, <2>2, <3>1
    <3> QED BY <1>0, <1>9, <2>1, <3>2
  <2>5. l = k + 1
    BY <1>8, <2>2, <2>3, <2>4
  <2> QED BY <2>1, <2>5
<1> QED BY <1>1, <1>2, <1>8, <1>9, <1>14, <1>15, <1>16 DEF Stops

LEMMA InOrder ==
  ASSUME SemType, NEW A, NEW F, Lists(A, F)
  PROVE  /\ Len(A) \in Nat /\ Len(A) > 1
         /\ \A j \in 1..Len(A) : A[j] \in Semd /\ s_semAdd[A[j]] \in Nat
         /\ \A j, l \in 1..Len(A) : j < l => s_semAdd[A[j]] < s_semAdd[A[l]]
         /\ \A j, l \in 1..Len(A) : s_semAdd[A[j]] = s_semAdd[A[l]] => j = l
<1>0. NULL \in Nat
  BY SemFacts
<1>1. PICK n \in Nat : n = Len(A) /\ n > 1
  BY DEF Lists
<1>2. \A j \in 1..n : A[j] \in Semd
  BY <1>1 DEF Lists
<1>3. \A j \in 1..n : s_semAdd[A[j]] \in Nat
  BY <1>0, <1>2 DEF SemType
<1>4. \A j, l \in 1..n : j < l => s_semAdd[A[j]] < s_semAdd[A[l]]
  BY <1>1 DEF Lists, Sorted
<1>5. ASSUME NEW j \in 1..n, NEW l \in 1..n, s_semAdd[A[j]] = s_semAdd[A[l]]
      PROVE  j = l
  <2>1. ~(j < l) /\ ~(l < j)
    BY <1>3, <1>4, <1>5
  <2> QED BY <2>1
<1> QED BY <1>1, <1>2, <1>3, <1>4, <1>5

LEMMA AslReadsAlways == AslReads
<1> SUFFICES ASSUME SemType, NEW A, NEW F, NEW Q, SemFor(A, F, Q)
             PROVE  /\ Asl!active = A /\ Asl!listFrom(semdFree_h) = F
                    /\ [i \in Sem |-> Asl!queueOf(i)] = Q
  BY DEF AslReads
<1>0. Lists(A, F) /\ Described(A, Q) /\ Q = [i \in Sem |-> Q[i]]
  BY DEF SemFor, BlockedIn
<1>1. Asl!active = A /\ Asl!listFrom(semdFree_h) = F
  BY <1>0, ReadList DEF Lists, Asl!active
<1>2. PICK n \in Nat : n = Len(A) /\ n > 1
  BY <1>0, InOrder
<1>3. /\ \A j \in 1..n : A[j] \in Semd
      /\ \A j, l \in 1..n : s_semAdd[A[j]] = s_semAdd[A[l]] => j = l
  BY <1>0, <1>2, InOrder
<1>4. Asl!ToSet(A) = {A[j] : j \in 1..n}
  BY <1>2 DEF Asl!ToSet
<1>5. ASSUME NEW i \in Sem PROVE Asl!queueOf(i) = Q[i]
  <2>1. 0 < i /\ i < NULL /\ i \in Nat /\ NULL \in Nat
    BY SemFacts
  <2>2. CASE \E d \in Asl!ToSet(A) : s_semAdd[d] = i
    <3> DEFINE d == CHOOSE d \in Asl!ToSet(A) : s_semAdd[d] = i
    <3>1. d \in Asl!ToSet(A) /\ s_semAdd[d] = i
      BY <2>2
    <3>2. Asl!queueOf(i) = s_procQ[d]
      BY <1>1, <2>2 DEF Asl!queueOf
    <3> HIDE DEF d
    <3>3. PICK j \in 1..n : d = A[j]
      BY <1>4, <3>1
    <3>4. s_semAdd[A[1]] = 0 /\ s_semAdd[A[n]] = NULL
      BY <1>0, <1>2 DEF Lists, Sorted
    <3>5. j # 1 /\ j # n
      BY <2>1, <3>1, <3>3, <3>4
    <3>6. j \in 2..n - 1
      BY <1>2, <3>5
    <3> QED BY <1>0, <1>2, <3>1, <3>2, <3>3, <3>6 DEF Described
  <2>3. CASE ~\E d \in Asl!ToSet(A) : s_semAdd[d] = i
    <3>1. Asl!queueOf(i) = <<>>
      BY <1>1, <2>3 DEF Asl!queueOf
    <3>2. \A j \in 1..n : s_semAdd[A[j]] # i
      BY <1>4, <2>3
    <3>3. \A j \in 2..n - 1 : s_semAdd[A[j]] # i
      BY <1>2, <3>2
    <3> QED BY <1>0, <1>2, <3>1, <3>3 DEF Described
  <2> QED BY <2>2, <2>3
<1> QED BY <1>0, <1>1, <1>5

(* What the queues become when that of i becomes q.                        *)
LEMMA BlockedChange ==
  ASSUME NEW Q, BlockedIn(Q), NEW i \in Sem, NEW q \in Seq(Proc), NoDup(q),
         \A x \in Proc : InQ(q, x) <=> p_semAdd'[x] = i,
         \A x \in Proc, t \in Sem : t # i => (p_semAdd'[x] = t <=> p_semAdd[x] = t),
         NEW R, R = [Q EXCEPT ![i] = q]
  PROVE  BlockedIn(R)'
<1>1. R \in [Sem -> Seq(Proc)] /\ R[i] = q /\ \A t \in Sem : t # i => R[t] = Q[t]
  BY DEF BlockedIn
<1>2. \A t \in Sem : NoDup(R[t])
  BY <1>1 DEF BlockedIn
<1>3. \A t \in Sem, x \in Proc : InQ(R[t], x) <=> p_semAdd'[x] = t
  BY <1>1 DEF BlockedIn
<1> QED BY <1>1, <1>2, <1>3 DEF BlockedIn

(* The descriptor of i keeps a queue.                                      *)
LEMMA QueueKept ==
  ASSUME SemType, NEW A, NEW F, NEW Q, SemFor(A, F, Q), NEW i \in Sem, NEW k,
         Stops(A, Q, i, k), Q[i] # <<>>, NEW q \in Seq(Proc), q # <<>>,
         s_procQ' = [s_procQ EXCEPT ![A[k + 1]] = q],
         UNCHANGED <<s_next, s_semAdd, semdFree_h, semdActive_h>>
  PROVE  /\ s_procQ' \in [Semd -> Seq(Proc)]
         /\ Lists(A, F)' /\ Described(A, [Q EXCEPT ![i] = q])'
<1> DEFINE R == [Q EXCEPT ![i] = q]
<1>0. /\ Lists(A, F) /\ Described(A, Q) /\ Q \in [Sem -> Seq(Proc)]
      /\ s_semAdd' = s_semAdd /\ s_next' = s_next /\ semdFree_h' = semdFree_h
      /\ semdActive_h' = semdActive_h
  BY DEF SemFor, BlockedIn
<1>1. R[i] = q /\ \A t \in Sem : t # i => R[t] = Q[t]
  BY <1>0
<1>2. PICK n \in Nat : n = Len(A) /\ n > 1
  BY <1>0, InOrder
<1>3. PICK l \in 2..n - 1 : l = k + 1 /\ l \in 1..n /\ s_semAdd[A[l]] = i
  BY <1>2 DEF Stops
<1>4. /\ \A j \in 2..n - 1 : j \in 1..n /\ A[j] \in Semd
      /\ \A j \in 2..n - 1 : s_semAdd[A[j]] = i => j = l
  <2>1. \A j \in 2..n - 1 : j \in 1..n
    BY <1>2
  <2>2. /\ \A j \in 1..n : A[j] \in Semd
        /\ \A j, m \in 1..n : s_semAdd[A[j]] = s_semAdd[A[m]] => j = m
    BY <1>0, <1>2, InOrder
  <2> QED BY <1>3, <2>1, <2>2
<1>5. s_procQ'[A[l]] = q /\ \A d \in Semd : d # A[l] => s_procQ'[d] = s_procQ[d]
  BY <1>3, <1>4 DEF SemType
<1>6. s_procQ' \in [Semd -> Seq(Proc)]
  BY DEF SemType
<1>7. Lists(A, F)'
  BY <1>0 DEF Lists, Sorted
<1> HIDE DEF R
<1>8. ASSUME NEW j \in 2..n - 1
      PROVE  s_semAdd[A[j]] \in Sem /\ s_procQ'[A[j]] = R[s_semAdd[A[j]]]
             /\ R[s_semAdd[A[j]]] # <<>>
  <2>1. CASE j = l
    BY <1>1, <1>3, <1>5, <2>1
  <2>2. CASE j # l
    <3>1. s_semAdd[A[j]] # i /\ A[j] # A[l]
      BY <1>3, <1>4, <2>2
    <3>2. /\ s_semAdd[A[j]] \in Sem /\ s_procQ[A[j]] = Q[s_semAdd[A[j]]]
          /\ Q[s_semAdd[A[j]]] # <<>>
      BY <1>0, <1>2 DEF Described
    <3> QED BY <1>1, <1>4, <1>5, <3>1, <3>2
  <2> QED BY <2>1, <2>2
<1>9. ASSUME NEW t \in Sem, R[t] # <<>>
      PROVE  \E j \in 2..n - 1 : s_semAdd[A[j]] = t
  <2>1. CASE t = i
    BY <1>3, <2>1
  <2>2. CASE t # i
    BY <1>0, <1>1, <1>2, <1>9, <2>2 DEF Described
  <2> QED BY <2>1, <2>2
<1>10. Described(A, R)'
  BY <1>0, <1>2, <1>8, <1>9 DEF Described
<1> QED BY <1>6, <1>7, <1>10 DEF R

(* The descriptor of i goes to the free list.                              *)
Frees(prev, d) ==
  /\ s_next' = [s_next EXCEPT ![prev] = s_next[d], ![d] = semdFree_h]
  /\ s_semAdd' = [s_semAdd EXCEPT ![d] = NULL]
  /\ s_procQ' = [s_procQ EXCEPT ![d] = <<>>]
  /\ semdFree_h' = d

LEMMA QueueGone ==
  ASSUME SemType, NEW A, NEW F, NEW Q, SemFor(A, F, Q), NEW i \in Sem, NEW k,
         Stops(A, Q, i, k), Q[i] # <<>>, NEW d, d = A[k + 1],
         Frees(A[k], d), semdActive_h' = semdActive_h
  PROVE  /\ s_next' \in Links(Semd) /\ s_semAdd' \in [Semd -> 0..NULL]
         /\ s_procQ' \in [Semd -> Seq(Proc)] /\ semdFree_h' \in Semd \cup {NULL}
         /\ Lists(RemoveAt(A, k + 1), <<d>> \o F)'
         /\ Described(RemoveAt(A, k + 1), [Q EXCEPT ![i] = <<>>])'
<1> DEFINE R == [Q EXCEPT ![i] = <<>>]
           B == RemoveAt(A, k + 1)
           G == <<d>> \o F
<1>0. /\ Lists(A, F) /\ Described(A, Q) /\ Q \in [Sem -> Seq(Proc)]
      /\ NULL \in Nat /\ NULL \notin Semd
  BY SemFacts DEF SemFor, BlockedIn
<1>1. R[i] = <<>> /\ \A t \in Sem : t # i => R[t] = Q[t]
  BY <1>0
<1>2. PICK n \in Nat : n = Len(A) /\ n > 1
  BY <1>0, InOrder
<1>3. PICK l \in 2..n - 1 : /\ l = k + 1 /\ l \in 1..n /\ l - 1 = k /\ k \in 1..n /\ l # k
                            /\ s_semAdd[A[l]] = i /\ d = A[l]
  BY <1>2 DEF Stops
<1>4. /\ A \in Seq(Semd) /\ NoDup(A) /\ Chain(s_next, semdActive_h, A)
      /\ F \in Seq(Semd) /\ NoDup(F) /\ Chain(s_next, semdFree_h, F)
      /\ \A x \in Semd : InQ(A, x) <=> ~InQ(F, x)
      /\ n + Len(F) = NSemd + 2
  BY <1>0, <1>2 DEF Lists
<1>5. /\ \A j \in 1..n : A[j] \in Semd /\ InQ(A, A[j])
      /\ \A j, m \in 1..n : A[j] = A[m] => j = m
  BY <1>2, <1>4 DEF InQ, NoDup
<1>6. d \in Semd /\ A[k] \in Semd /\ A[k] # d /\ ~InQ(F, d) /\ ~InQ(F, A[k])
  BY <1>3, <1>4, <1>5
<1>7. /\ s_next' \in Links(Semd) /\ s_next'[A[k]] = s_next[d] /\ s_next'[d] = semdFree_h
      /\ \A x \in Semd : x # A[k] /\ x # d => s_next'[x] = s_next[x]
  BY <1>6 DEF SemType, Links, Frees
<1>8. /\ s_semAdd' \in [Semd -> 0..NULL]
      /\ \A x \in Semd : x # d => s_semAdd'[x] = s_semAdd[x]
  BY <1>0, <1>6 DEF SemType, Frees
<1>9. /\ s_procQ' \in [Semd -> Seq(Proc)]
      /\ \A x \in Semd : x # d => s_procQ'[x] = s_procQ[x]
  BY <1>6 DEF SemType, Frees
<1> HIDE DEF R, B, G
<1>10. /\ B \in Seq(Semd) /\ Len(B) = n - 1 /\ NoDup(B)
       /\ \A x : InQ(B, x) <=> InQ(A, x) /\ x # d
       /\ \A j \in 1..n - 1 : B[j] = IF j < l THEN A[j] ELSE A[j + 1]
  <2>1. l \in 1..Len(A) /\ B = RemoveAt(A, l)
    BY <1>2, <1>3 DEF B
  <2>2. /\ B \in Seq(Semd) /\ Len(B) = n - 1
        /\ \A j \in 1..n - 1 : B[j] = IF j < l THEN A[j] ELSE A[j + 1]
    BY <1>2, <1>4, <2>1, RemoveAtElements
  <2>3. /\ \A x : InQ(B, x) => InQ(A, x)
        /\ \A x : InQ(A, x) => x = A[l] \/ InQ(B, x)
        /\ NoDup(B) /\ ~InQ(B, A[l])
    BY <1>4, <2>1, RemoveAtPosition
  <2> QED BY <1>3, <2>2, <2>3
<1>11. /\ G \in Seq(Semd) /\ Len(G) = 1 + Len(F) /\ NoDup(G)
       /\ \A x : InQ(G, x) <=> x = d \/ InQ(F, x)
  <2>1. <<d>> \in Seq(Semd) /\ Len(<<d>>) = 1 /\ NoDup(<<d>>) /\ \A x : InQ(<<d>>, x) <=> x = d
    BY <1>6 DEF NoDup, InQ
  <2>2. \A x : ~(InQ(<<d>>, x) /\ InQ(F, x))
    BY <1>6, <2>1
  <2> QED BY <1>4, <2>1, <2>2, JoinQueues DEF G
<1>12. Chain(s_next', semdActive_h, B)
  <2>1. l \in 2..Len(A)
    BY <1>2, <1>3
  <2>2. s_next'[A[l - 1]] = s_next[A[l]]
    BY <1>3, <1>7
  <2>3. \A x \in Semd : InQ(A, x) /\ x # A[l - 1] /\ x # A[l] => s_next'[x] = s_next[x]
    BY <1>3, <1>7
  <2>4. Chain(s_next', semdActive_h, RemoveAt(A, l))
    BY ONLY <1>4, <2>1, <2>2, <2>3, ChainCut
  <2> QED BY <1>3, <2>4 DEF B
<1>13. Chain(s_next', d, G)
  <2> DEFINE g == [s_next EXCEPT ![A[k]] = s_next[d]]
  <2>1. \A x \in Semd : InQ(F, x) => g[x] = s_next[x]
    BY <1>6 DEF SemType, Links
  <2>2. \A x \in Semd : x # d => s_next'[x] = g[x]
    BY <1>6 DEF SemType, Links, Frees
  <2> HIDE DEF g
  <2>3. Chain(g, semdFree_h, F)
    BY ONLY <1>4, <2>1, ChainFrame
  <2>4. Chain(s_next', d, <<d>> \o F)
    BY ONLY <1>4, <1>6, <1>7, <2>2, <2>3, ChainPush
  <2> QED BY <2>4 DEF G
<1>14. \A x \in Semd : InQ(B, x) <=> ~InQ(G, x)
  BY <1>4, <1>10, <1>11
<1>15. Len(B) > 1 /\ Len(B) + Len(G) = NSemd + 2
  <2>1. NSemd \in Nat
    BY SemFacts
  <2>2. PICK m \in Nat : m = Len(F) /\ n + m = NSemd + 2
    BY <1>4
  <2>3. Len(B) = n - 1 /\ Len(G) = 1 + m /\ n - 1 > 1
    BY <1>2, <1>3, <1>10, <1>11, <2>2
  <2>4. (n - 1) + (1 + m) = n + m
    BY <1>2, <2>2
  <2> QED BY <2>2, <2>3, <2>4
<1> DEFINE at(j) == IF j < l THEN j ELSE j + 1
<1>16. /\ \A j \in 1..n - 1 : at(j) \in 1..n /\ at(j) # l
       /\ \A j, m \in 1..n - 1 : j < m => at(j) < at(m)
       /\ at(1) = 1 /\ at(n - 1) = n /\ 1 \in 1..n - 1 /\ n - 1 \in 1..n - 1
       /\ \A j \in 2..n - 2 : at(j) \in 2..n - 1 /\ j \in 1..n - 1
       /\ \A j \in 2..n - 1 : j # l => \E m \in 2..n - 2 : at(m) = j
  <2>1. l \in Nat /\ l > 1 /\ l < n
    BY <1>2, <1>3
  <2>2. ASSUME NEW j \in 2..n - 1, j # l PROVE \E m \in 2..n - 2 : at(m) = j
    <3>1. CASE j < l
      <4>1. j \in 2..n - 2 /\ at(j) = j
        BY <1>2, <2>1, <3>1
      <4> QED BY <4>1
    <3>2. CASE ~(j < l)
      <4>1. j - 1 \in 2..n - 2 /\ at(j - 1) = j
        BY <1>2, <2>1, <2>2, <3>2
      <4> HIDE DEF at
      <4> QED BY <4>1
    <3> QED BY <3>1, <3>2
  <2> QED BY <1>2, <2>1, <2>2
<1>17. \A j \in 1..n - 1 : B[j] = A[at(j)]
  BY <1>10
<1> HIDE DEF at
<1>18. \A j \in 1..n - 1 : /\ B[j] \in Semd /\ B[j] # d
                           /\ s_semAdd'[B[j]] = s_semAdd[A[at(j)]]
                           /\ s_procQ'[B[j]] = s_procQ[A[at(j)]]
  <2>1. \A j \in 1..n : j # l => A[j] \in Semd /\ A[j] # d
    BY <1>3, <1>5
  <2>2. \A j \in 1..n - 1 : B[j] \in Semd /\ B[j] # d
    BY <1>16, <1>17, <2>1
  <2> QED BY <1>8, <1>9, <1>17, <2>2
<1>19. Sorted(s_semAdd', B)
  <2>1. /\ s_semAdd[A[1]] = 0 /\ s_semAdd[A[n]] = NULL
        /\ \A j, m \in 1..n : j < m => s_semAdd[A[j]] < s_semAdd[A[m]]
    BY <1>0, <1>2 DEF Lists, Sorted
  <2>2. s_semAdd'[B[1]] = 0 /\ s_semAdd'[B[n - 1]] = NULL
    BY <1>16, <1>18, <2>1
  <2>3. ASSUME NEW j \in 1..n - 1, NEW m \in 1..n - 1, j < m
        PROVE  s_semAdd'[B[j]] < s_semAdd'[B[m]]
    <3>1. at(j) \in 1..n /\ at(m) \in 1..n /\ at(j) < at(m)
      BY <1>16, <2>3
    <3>2. s_semAdd[A[at(j)]] < s_semAdd[A[at(m)]]
      BY <2>1, <3>1
    <3> QED BY <1>18, <3>2
  <2> QED BY <1>10, <2>2, <2>3 DEF Sorted
<1>20. Lists(B, G)'
  <2>1. /\ semdActive_h' = semdActive_h /\ semdFree_h' = d
    BY DEF Frees
  <2> QED BY <1>10, <1>11, <1>12, <1>13, <1>14, <1>15, <1>19, <2>1 DEF Lists
<1>21. ASSUME NEW j \in 2..n - 2
       PROVE  s_semAdd'[B[j]] \in Sem /\ s_procQ'[B[j]] = R[s_semAdd'[B[j]]]
              /\ R[s_semAdd'[B[j]]] # <<>>
  <2>1. at(j) \in 2..n - 1 /\ at(j) \in 1..n /\ at(j) # l
    BY <1>16
  <2>2. s_semAdd[A[at(j)]] # i
    <3>1. \A m \in 1..n : s_semAdd[A[m]] = s_semAdd[A[l]] => m = l
      BY <1>0, <1>2, <1>3, InOrder
    <3> QED BY <1>3, <2>1, <3>1
  <2>3. /\ s_semAdd[A[at(j)]] \in Sem /\ s_procQ[A[at(j)]] = Q[s_semAdd[A[at(j)]]]
        /\ Q[s_semAdd[A[at(j)]]] # <<>>
    BY <1>0, <1>2, <2>1 DEF Described
  <2> QED BY <1>1, <1>16, <1>18, <2>2, <2>3
<1>22. ASSUME NEW t \in Sem, R[t] # <<>>
       PROVE  \E j \in 2..n - 2 : s_semAdd'[B[j]] = t
  <2>1. t # i /\ Q[t] # <<>>
    BY <1>1, <1>22
  <2>2. PICK j \in 2..n - 1 : s_semAdd[A[j]] = t
    BY <1>0, <1>2, <2>1 DEF Described
  <2>3. j # l
    BY <1>3, <2>1, <2>2
  <2>4. PICK m \in 2..n - 2 : at(m) = j
    BY <1>16, <2>3
  <2> QED BY <1>16, <1>18, <2>2, <2>4
<1>23. Len(B) - 1 = n - 2
  BY <1>2, <1>10
<1>24. Described(B, R)'
  BY <1>21, <1>22, <1>23 DEF Described
<1>25. semdFree_h' \in Semd \cup {NULL}
  BY <1>6 DEF Frees
<1> QED BY <1>7, <1>8, <1>9, <1>20, <1>25, <1>24 DEF R, B, G

(* A descriptor of the free list is taken for i.                           *)
Takes(prev, d, i, q) ==
  /\ s_next' = [s_next EXCEPT ![d] = s_next[prev], ![prev] = d]
  /\ s_semAdd' = [s_semAdd EXCEPT ![d] = i]
  /\ s_procQ' = [s_procQ EXCEPT ![d] = q]
  /\ semdFree_h' = s_next[d]

LEMMA QueueNew ==
  ASSUME SemType, NEW A, NEW F, NEW Q, SemFor(A, F, Q), NEW i \in Sem, NEW k,
         Stops(A, Q, i, k), Q[i] = <<>>, semdFree_h # NULL, NEW d, d = semdFree_h,
         NEW q \in Seq(Proc), q # <<>>,
         Takes(A[k], d, i, q), semdActive_h' = semdActive_h
  PROVE  /\ s_next' \in Links(Semd) /\ s_semAdd' \in [Semd -> 0..NULL]
         /\ s_procQ' \in [Semd -> Seq(Proc)] /\ semdFree_h' \in Semd \cup {NULL}
         /\ Lists(InsertAt(A, k + 1, d), Tail(F))'
         /\ Described(InsertAt(A, k + 1, d), [Q EXCEPT ![i] = q])'
<1> DEFINE R == [Q EXCEPT ![i] = q]
           B == InsertAt(A, k + 1, d)
           G == Tail(F)
<1>0. /\ Lists(A, F) /\ Described(A, Q) /\ Q \in [Sem -> Seq(Proc)]
      /\ NULL \in Nat /\ NULL \notin Semd /\ i \in Nat /\ 0 < i /\ i < NULL
  BY SemFacts DEF SemFor, BlockedIn
<1>1. R[i] = q /\ \A t \in Sem : t # i => R[t] = Q[t]
  BY <1>0
<1>2. PICK n \in Nat : n = Len(A) /\ n > 1
  BY <1>0, InOrder
<1>3. /\ k \in 1..n - 1 /\ k \in 1..n /\ k + 1 \in 1..n /\ k \in Nat
      /\ s_next[A[k]] = A[k + 1]
      /\ s_semAdd[A[k]] < i /\ i <= s_semAdd[A[k + 1]] /\ s_semAdd[A[k + 1]] # i
  <2>1. k \in 1..n - 1
    BY <1>2 DEF Stops
  <2>2. k \in 1..n /\ k + 1 \in 1..n /\ k \in Nat
    BY <1>2, <2>1
  <2> QED BY <2>1, <2>2 DEF Stops
<1>4. /\ A \in Seq(Semd) /\ NoDup(A) /\ Chain(s_next, semdActive_h, A)
      /\ F \in Seq(Semd) /\ NoDup(F) /\ Chain(s_next, semdFree_h, F)
      /\ \A x \in Semd : InQ(A, x) <=> ~InQ(F, x)
      /\ n + Len(F) = NSemd + 2
  BY <1>0, <1>2 DEF Lists
<1>5. /\ \A j \in 1..n : A[j] \in Semd /\ InQ(A, A[j])
  BY <1>2, <1>4 DEF InQ
<1>6. F # <<>>
  BY <1>4 DEF Chain
<1>7. /\ d \in Semd /\ ~InQ(A, d) /\ A[k] \in Semd /\ A[k] # d
      /\ G \in Seq(Semd) /\ Len(G) = Len(F) - 1 /\ NoDup(G) /\ ~InQ(G, d)
      /\ \A x : InQ(F, x) <=> x = d \/ InQ(G, x)
  <2>1. /\ headProcQ(F) = F[1] /\ headProcQ(F) \in Semd /\ InQ(F, headProcQ(F))
        /\ removeProcQ(F) \in Seq(Semd) /\ Len(removeProcQ(F)) = Len(F) - 1
        /\ NoDup(removeProcQ(F)) /\ ~InQ(removeProcQ(F), headProcQ(F))
        /\ \A x : InQ(removeProcQ(F), x) => InQ(F, x)
        /\ \A x : InQ(F, x) => x = headProcQ(F) \/ InQ(removeProcQ(F), x)
    BY <1>4, <1>6, RemoveProcQ
  <2>2. removeProcQ(F) = G
    BY <1>6 DEF removeProcQ, emptyProcQ
  <2>3. d = F[1]
    BY <1>4, <1>6 DEF Chain
  <2> HIDE DEF G
  <2>4. d \in Semd /\ InQ(F, d)
    BY <2>1, <2>3
  <2>5. ~InQ(A, d) /\ A[k] \in Semd /\ A[k] # d
    BY <1>3, <1>4, <1>5, <2>4
  <2> QED BY <2>1, <2>2, <2>3, <2>4, <2>5
<1>8. /\ s_next' \in Links(Semd) /\ s_next'[A[k]] = d /\ s_next'[d] = A[k + 1]
      /\ s_next[d] \in Semd \cup {NULL}
      /\ \A x \in Semd : x # A[k] /\ x # d => s_next'[x] = s_next[x]
  BY <1>3, <1>5, <1>7 DEF SemType, Links, Takes
<1>9. /\ s_semAdd' \in [Semd -> 0..NULL] /\ s_semAdd'[d] = i
      /\ \A x \in Semd : x # d => s_semAdd'[x] = s_semAdd[x]
  <2>1. i \in 0..NULL
    BY <1>0
  <2> QED BY <1>7, <2>1 DEF SemType, Takes
<1>10. /\ s_procQ' \in [Semd -> Seq(Proc)] /\ s_procQ'[d] = q
       /\ \A x \in Semd : x # d => s_procQ'[x] = s_procQ[x]
  BY <1>7 DEF SemType, Takes
<1> HIDE DEF R, B, G
<1>11. /\ B \in Seq(Semd) /\ Len(B) = n + 1 /\ NoDup(B)
       /\ \A x : InQ(B, x) <=> InQ(A, x) \/ x = d
       /\ \A j \in 1..n + 1 : B[j] = IF j <= k THEN A[j]
                                     ELSE IF j = k + 1 THEN d ELSE A[j - 1]
  <2>1. k \in 1..Len(A)
    BY <1>2, <1>3
  <2>2. /\ B \in Seq(Semd) /\ Len(B) = n + 1
        /\ \A j \in 1..n + 1 : B[j] = IF j <= k THEN A[j]
                                      ELSE IF j = k + 1 THEN d ELSE A[j - 1]
    <3>1. /\ B \in Seq(Semd) /\ Len(B) = Len(A) + 1
          /\ \A j \in 1..Len(A) + 1 : B[j] = IF j <= k THEN A[j]
                                             ELSE IF j = k + 1 THEN d ELSE A[j - 1]
      <4>1. d \in Semd /\ A \in Seq(Semd)
        BY <1>4, <1>7
      <4> QED BY ONLY <2>1, <4>1, InsertAtElements DEF B
    <3> QED BY <1>2, <3>1
  <2>3. /\ \A x : InQ(B, x) <=> x = d \/ InQ(A, x)
        /\ NoDup(B)
    BY <1>4, <1>7, <2>1, InsertAtPosition DEF B
  <2> QED BY <2>2, <2>3
<1>12. Chain(s_next', semdActive_h, B)
  <2>1. k \in 1..Len(A)
    BY <1>2, <1>3
  <2>2. s_next'[d] = s_next[A[k]]
    BY <1>3, <1>8
  <2>3. \A x \in Semd : InQ(A, x) /\ x # A[k] => s_next'[x] = s_next[x]
    BY <1>7, <1>8
  <2>4. Chain(s_next', semdActive_h, InsertAt(A, k + 1, d))
    BY ONLY <1>4, <1>7, <1>8, <2>1, <2>2, <2>3, ChainLink
  <2> QED BY <2>4 DEF B
<1>13. Chain(s_next', s_next[d], G)
  <2>1. \A x \in Semd : x # d => s_next[x] = s_next[x]
    OBVIOUS
  <2>2. Chain(s_next, s_next[d], G)
    <3>1. Chain(s_next, d, F)
      BY <1>4
    <3> QED BY ONLY <1>4, <1>6, <2>1, <3>1, ChainTail DEF G
  <2>3. \A x \in Semd : InQ(G, x) => s_next'[x] = s_next[x]
    BY <1>3, <1>4, <1>5, <1>7, <1>8
  <2> QED BY ONLY <1>7, <2>2, <2>3, ChainFrame
<1>14. \A x \in Semd : InQ(B, x) <=> ~InQ(G, x)
  BY <1>4, <1>7, <1>11
<1>15. Len(B) > 1 /\ Len(B) + Len(G) = NSemd + 2
  <2>1. NSemd \in Nat
    BY SemFacts
  <2>2. PICK m \in Nat : m = Len(F) /\ n + m = NSemd + 2
    BY <1>4
  <2>3. Len(B) = n + 1 /\ Len(G) = m - 1 /\ n + 1 > 1
    BY <1>2, <1>7, <1>11, <2>2
  <2>4. (n + 1) + (m - 1) = n + m
    BY <1>2, <2>2
  <2> QED BY <2>2, <2>3, <2>4
<1> DEFINE at(j) == IF j <= k THEN j ELSE j - 1
           T == {j \in 1..n + 1 : j # k + 1}
<1>16. /\ \A j \in T : at(j) \in 1..n
       /\ \A j, m \in T : j < m => at(j) < at(m)
       /\ at(1) = 1 /\ at(n + 1) = n /\ 1 \in T /\ n + 1 \in T
       /\ \A j \in 2..n : j # k + 1 => j \in T /\ at(j) \in 2..n - 1
       /\ \A j \in 2..n - 1 : \E m \in 2..n : m # k + 1 /\ at(m) = j
       /\ k + 1 \in 2..n /\ \A j \in 1..n + 1 : j \in T \/ j = k + 1
       /\ \A j \in T : (j < k + 1 => at(j) <= k) /\ (k + 1 < j => k + 1 <= at(j))
  <2>1. k \in Nat /\ k > 0 /\ k < n
    BY <1>2, <1>3
  <2>2. ASSUME NEW j \in 2..n - 1 PROVE \E m \in 2..n : m # k + 1 /\ at(m) = j
    <3>1. CASE j <= k
      <4>1. j \in 2..n /\ at(j) = j /\ j # k + 1
        BY <1>2, <2>1, <3>1
      <4> QED BY <4>1
    <3>2. CASE ~(j <= k)
      <4>1. j + 1 \in 2..n /\ at(j + 1) = j /\ j + 1 # k + 1
        BY <1>2, <2>1, <2>2, <3>2
      <4> HIDE DEF at
      <4> QED BY <4>1
    <3> QED BY <3>1, <3>2
  <2>3. /\ \A j \in T : at(j) \in 1..n
        /\ \A j, m \in T : j < m => at(j) < at(m)
        /\ \A j \in T : (j < k + 1 => at(j) <= k) /\ (k + 1 < j => k + 1 <= at(j))
    BY <1>2, <2>1
  <2>4. /\ at(1) = 1 /\ at(n + 1) = n /\ 1 \in T /\ n + 1 \in T /\ k + 1 \in 2..n
        /\ \A j \in 1..n + 1 : j \in T \/ j = k + 1
    BY <1>2, <2>1
  <2>5. \A j \in 2..n : j # k + 1 => j \in T /\ at(j) \in 2..n - 1
    BY <1>2, <2>1
  <2> QED BY <2>2, <2>3, <2>4, <2>5
<1>17. \A j \in T : B[j] = A[at(j)]
  BY <1>11
<1>18. B[k + 1] = d
  <2>1. k + 1 \in 1..n + 1 /\ ~(k + 1 <= k)
    BY <1>2, <1>3
  <2> QED BY <1>11, <2>1
<1> HIDE DEF at, T
<1>19. \A j \in T : /\ s_semAdd'[B[j]] = s_semAdd[A[at(j)]]
                    /\ s_procQ'[B[j]] = s_procQ[A[at(j)]]
  <2>1. \A j \in T : B[j] \in Semd /\ B[j] # d
    <3>1. \A j \in 1..n : A[j] \in Semd /\ A[j] # d
      BY <1>5, <1>7
    <3> QED BY <1>16, <1>17, <3>1
  <2> QED BY <1>9, <1>10, <1>17, <2>1
<1>20. Sorted(s_semAdd', B)
  <2>1. /\ s_semAdd[A[1]] = 0 /\ s_semAdd[A[n]] = NULL
        /\ \A j, m \in 1..n : j < m => s_semAdd[A[j]] < s_semAdd[A[m]]
        /\ \A j \in 1..n : s_semAdd[A[j]] \in Nat
    BY <1>0, <1>2, InOrder DEF Lists, Sorted
  <2>2. s_semAdd'[B[1]] = 0 /\ s_semAdd'[B[n + 1]] = NULL
    BY <1>16, <1>19, <2>1
  <2>3. ASSUME NEW j \in 1..n + 1, NEW m \in 1..n + 1, j < m
        PROVE  s_semAdd'[B[j]] < s_semAdd'[B[m]]
    <3>1. CASE j \in T /\ m \in T
      <4>1. at(j) \in 1..n /\ at(m) \in 1..n /\ at(j) < at(m)
        BY <1>16, <2>3, <3>1
      <4>2. s_semAdd[A[at(j)]] < s_semAdd[A[at(m)]]
        BY <2>1, <4>1
      <4> QED BY <1>19, <3>1, <4>2
    <3>2. CASE j = k + 1
      <4>1. m \in T /\ k + 1 <= at(m) /\ at(m) \in 1..n
        BY <1>16, <2>3, <3>2
      <4>2. s_semAdd[A[k + 1]] <= s_semAdd[A[at(m)]]
        <5>1. CASE at(m) = k + 1
          BY <1>3, <2>1, <5>1
        <5>2. CASE at(m) # k + 1
          <6>1. k + 1 < at(m)
            BY <1>3, <4>1, <5>2
          <6>2. s_semAdd[A[k + 1]] < s_semAdd[A[at(m)]]
            BY <1>3, <2>1, <4>1, <6>1
          <6> QED BY <1>3, <2>1, <4>1, <6>2
        <5> QED BY <5>1, <5>2
      <4>3. s_semAdd[A[k + 1]] \in Nat /\ s_semAdd[A[at(m)]] \in Nat
        BY <1>3, <2>1, <4>1
      <4>4. i < s_semAdd[A[at(m)]]
        BY <1>0, <1>3, <4>2, <4>3
      <4> QED BY <1>9, <1>18, <1>19, <3>2, <4>1, <4>4
    <3>3. CASE m = k + 1
      <4>1. j \in T /\ at(j) <= k /\ at(j) \in 1..n
        BY <1>16, <2>3, <3>3
      <4>2. s_semAdd[A[at(j)]] <= s_semAdd[A[k]]
        <5>1. CASE at(j) = k
          BY <1>3, <2>1, <5>1
        <5>2. CASE at(j) # k
          <6>1. at(j) < k
            BY <1>3, <4>1, <5>2
          <6>2. s_semAdd[A[at(j)]] < s_semAdd[A[k]]
            BY <1>3, <2>1, <4>1, <6>1
          <6> QED BY <1>3, <2>1, <4>1, <6>2
        <5> QED BY <5>1, <5>2
      <4>3. s_semAdd[A[k]] \in Nat /\ s_semAdd[A[at(j)]] \in Nat
        BY <1>3, <2>1, <4>1
      <4>4. s_semAdd[A[at(j)]] < i
        BY <1>0, <1>3, <4>2, <4>3
      <4> QED BY <1>9, <1>18, <1>19, <3>3, <4>1, <4>4
    <3> QED BY <1>16, <3>1, <3>2, <3>3
  <2> QED BY <1>11, <2>2, <2>3 DEF Sorted
<1>21. Lists(B, G)'
  <2>1. semdActive_h' = semdActive_h /\ semdFree_h' = s_next[d]
    BY DEF Takes
  <2> QED BY <1>7, <1>11, <1>12, <1>13, <1>14, <1>15, <1>20, <2>1 DEF Lists
<1>22. ASSUME NEW j \in 2..n
       PROVE  s_semAdd'[B[j]] \in Sem /\ s_procQ'[B[j]] = R[s_semAdd'[B[j]]]
              /\ R[s_semAdd'[B[j]]] # <<>>
  <2>1. CASE j = k + 1
    BY <1>1, <1>9, <1>10, <1>18, <2>1
  <2>2. CASE j # k + 1
    <3>1. j \in T /\ at(j) \in 2..n - 1
      BY <1>16, <2>2
    <3>2. /\ s_semAdd[A[at(j)]] \in Sem /\ s_procQ[A[at(j)]] = Q[s_semAdd[A[at(j)]]]
          /\ Q[s_semAdd[A[at(j)]]] # <<>>
      BY <1>0, <1>2, <3>1 DEF Described
    <3> QED BY <1>1, <1>19, <3>1, <3>2
  <2> QED BY <2>1, <2>2
<1>23. ASSUME NEW t \in Sem, R[t] # <<>>
       PROVE  \E j \in 2..n : s_semAdd'[B[j]] = t
  <2>1. CASE t = i
    BY <1>9, <1>16, <1>18, <2>1
  <2>2. CASE t # i
    <3>1. PICK j \in 2..n - 1 : s_semAdd[A[j]] = t
      BY <1>0, <1>1, <1>2, <1>23, <2>2 DEF Described
    <3>2. PICK m \in 2..n : m # k + 1 /\ at(m) = j
      BY <1>16
    <3>3. m \in T
      BY <1>16, <3>2
    <3> QED BY <1>19, <3>1, <3>2, <3>3
  <2> QED BY <2>1, <2>2
<1>24. Len(B) - 1 = n
  BY <1>2, <1>11
<1>25. Described(B, R)'
  BY <1>22, <1>23, <1>24 DEF Described
<1>26. semdFree_h' \in Semd \cup {NULL}
  BY <1>8 DEF Takes
<1> QED BY <1>8, <1>9, <1>10, <1>21, <1>25, <1>26 DEF R, B, G

(* The free list is empty when, and only when, all NSemd queues are in use. *)
LEMMA InUse ==
  ASSUME SemType, NEW A, NEW F, NEW Q, SemFor(A, F, Q)
  PROVE  Asl!Abstract!Cardinality({t \in Sem : Q[t] # <<>>}) = NSemd <=> semdFree_h = NULL
<1> DEFINE U == {t \in Sem : Q[t] # <<>>}
<1>0. Lists(A, F) /\ Described(A, Q) /\ NULL \notin Semd /\ NSemd \in Nat
  BY SemFacts DEF SemFor
<1>1. PICK n \in Nat : n = Len(A) /\ n > 1
  BY <1>0, InOrder
<1>2. PICK m \in Nat : m = Len(F) /\ n + m = NSemd + 2
  BY <1>0, <1>1 DEF Lists
<1>3. m = 0 <=> semdFree_h = NULL
  <2>1. m = 0 <=> F = <<>>
    BY <1>0, <1>2, EmptySeq DEF Lists
  <2>2. F # <<>> => semdFree_h = F[1] /\ F[1] \in Semd
    <3>1. F # <<>> => 1 \in 1..Len(F)
      BY <1>2, <2>1
    <3> QED BY <1>0, <3>1 DEF Lists, Chain
  <2>3. F = <<>> => semdFree_h = NULL
    BY <1>0 DEF Lists, Chain
  <2> QED BY <1>0, <2>1, <2>2, <2>3
<1> DEFINE f == [j \in 2..n - 1 |-> s_semAdd[A[j]]]
<1>4. f \in Bijection(2..n - 1, U)
  <2>1. \A j \in 2..n - 1 : f[j] \in U
    BY <1>0, <1>1 DEF Described
  <2>2. \A t \in U : \E j \in 2..n - 1 : f[j] = t
    BY <1>0, <1>1 DEF Described
  <2>3. \A j, l \in 2..n - 1 : f[j] = f[l] => j = l
    <3>1. \A j \in 2..n - 1 : j \in 1..n
      BY <1>1
    <3>2. \A j, l \in 1..n : s_semAdd[A[j]] = s_semAdd[A[l]] => j = l
      BY <1>0, <1>1, InOrder
    <3> QED BY <3>1, <3>2
  <2>4. f \in [2..n - 1 -> U]
    BY <2>1
  <2> HIDE DEF f, U
  <2> QED BY <2>2, <2>3, <2>4 DEF Bijection, Injection, Surjection, IsInjective
<1> HIDE DEF f, U
<1>5. IsFiniteSet(2..n - 1) /\ Cardinality(2..n - 1) = n - 2
  <2>1. /\ IsFiniteSet(2..n - 1)
        /\ Cardinality(2..n - 1) = IF 2 > n - 1 THEN 0 ELSE n - 1 - 2 + 1
    <3>1. PICK e \in Int : e = n - 1
      BY <1>1
    <3>2. IsFiniteSet(2..e) /\ Cardinality(2..e) = IF 2 > e THEN 0 ELSE e - 2 + 1
      BY FS_Interval
    <3> QED BY <3>1, <3>2
  <2>2. CASE n = 2
    BY <2>1, <2>2
  <2>3. CASE n # 2
    <3>1. ~(2 > n - 1) /\ n - 1 - 2 + 1 = n - 2
      BY <1>1, <2>3
    <3> QED BY <2>1, <3>1
  <2> QED BY <2>2, <2>3
<1>6. Cardinality(U) = n - 2
  <2>1. ExistsBijection(2..n - 1, U)
    BY <1>4 DEF ExistsBijection
  <2> QED BY <1>5, <2>1, FS_Bijection
<1>7. Asl!Abstract!Cardinality(U) = Cardinality(U)
  BY DEF Asl!Abstract!Cardinality, Cardinality
<1>8. n - 2 = NSemd <=> m = 0
  BY <1>0, <1>1, <1>2
<1> QED BY <1>3, <1>6, <1>7, <1>8 DEF U

-----------------------------------------------------------------------------
(* The calls of asl.c: the queues go from Q to R.                          *)

QueuesBecome(Q, R) ==
  /\ AslInv'
  /\ AslReads' => /\ [i \in Sem |-> Asl!queueOf(i)] = Q
                  /\ [i \in Sem |-> Asl!queueOf(i)]' = R

AslStep == Asl!Abstract!Next \/ UNCHANGED Asl!Abstract!vars

LEMMA AslUnchanged ==
  ASSUME SemType, AslReads, NEW A, NEW F, NEW Q, SemFor(A, F, Q),
         UNCHANGED <<s_next, s_semAdd, s_procQ, semdActive_h, semdFree_h, p_semAdd>>
  PROVE  QueuesBecome(Q, Q)
<1>1. SemType' /\ SemFor(A, F, Q)'
  BY DEF SemType, SemFor, Lists, Described, BlockedIn, Sorted
<1> QED BY <1>1 DEF QueuesBecome, AslInv, AslReads

(* The pcbs blocked on i are those of q.                                   *)
Reblocked(i, q) ==
  /\ p_semAdd' \in [Proc -> Sem \cup {NULL}]
  /\ q \in Seq(Proc) /\ NoDup(q)
  /\ \A x \in Proc : InQ(q, x) <=> p_semAdd'[x] = i
  /\ \A x \in Proc, t \in Sem : t # i => (p_semAdd'[x] = t <=> p_semAdd[x] = t)

LEMMA QueueSet ==
  ASSUME SemType, AslReads, NEW A, NEW F, NEW Q, SemFor(A, F, Q), NEW i \in Sem, NEW k,
         Stops(A, Q, i, k), Q[i] # <<>>, NEW q, Reblocked(i, q),
         Asl!keepOrFree(A[k], A[k + 1], q), semdActive_h' = semdActive_h
  PROVE  QueuesBecome(Q, [Q EXCEPT ![i] = q])
<1> DEFINE R == [Q EXCEPT ![i] = q]
<1>0. /\ SemType /\ SemFor(A, F, Q) /\ i \in Sem /\ Stops(A, Q, i, k) /\ Q[i] # <<>>
      /\ semdActive_h' = semdActive_h
  OBVIOUS
<1>1. BlockedIn(R)'
  <2>1. BlockedIn(Q) /\ R = [Q EXCEPT ![i] = q]
    BY DEF SemFor
  <2> HIDE DEF R
  <2> QED BY <2>1, BlockedChange DEF Reblocked
<1>2. q \in Seq(Proc) /\ p_semAdd' \in [Proc -> Sem \cup {NULL}] /\ semdActive_h' \in Semd
  BY DEF Reblocked, SemType
<1>3. \E B, G : SemType' /\ SemFor(B, G, R)'
  <2>1. CASE q = <<>>
    <3>1. PICK d : d = A[k + 1]
      OBVIOUS
    <3>2. Frees(A[k], d)
      BY <2>1, <3>1 DEF Asl!keepOrFree, Asl!emptyProcQ, Frees
    <3>3. /\ s_next' \in Links(Semd) /\ s_semAdd' \in [Semd -> 0..NULL]
          /\ s_procQ' \in [Semd -> Seq(Proc)] /\ semdFree_h' \in Semd \cup {NULL}
          /\ Lists(RemoveAt(A, k + 1), <<d>> \o F)'
          /\ Described(RemoveAt(A, k + 1), [Q EXCEPT ![i] = <<>>])'
      BY ONLY <1>0, <3>1, <3>2, QueueGone
    <3>4. R = [Q EXCEPT ![i] = <<>>]
      BY <2>1
    <3> HIDE DEF R
    <3>5. SemType'
      BY <1>2, <3>3 DEF SemType
    <3>6. SemFor(RemoveAt(A, k + 1), <<d>> \o F, R)'
      BY <1>1, <3>3, <3>4 DEF SemFor
    <3> QED BY <3>5, <3>6
  <2>2. CASE q # <<>>
    <3>1. /\ s_procQ' = [s_procQ EXCEPT ![A[k + 1]] = q]
          /\ UNCHANGED <<s_next, s_semAdd, semdFree_h, semdActive_h>>
      BY <2>2 DEF Asl!keepOrFree, Asl!emptyProcQ
    <3>2. /\ s_procQ' \in [Semd -> Seq(Proc)]
          /\ Lists(A, F)' /\ Described(A, R)'
      BY <1>2, <2>2, <3>1, QueueKept
    <3> HIDE DEF R
    <3>3. SemType'
      BY <1>2, <3>1, <3>2 DEF SemType
    <3>4. SemFor(A, F, R)'
      BY <1>1, <3>2 DEF SemFor
    <3> QED BY <3>3, <3>4
  <2> QED BY <2>1, <2>2
<1> HIDE DEF R
<1>4. AslReads => [t \in Sem |-> Asl!queueOf(t)] = Q
  BY DEF AslReads
<1>5. AslReads' => [t \in Sem |-> Asl!queueOf(t)]' = R
  BY <1>3 DEF AslReads
<1>6. QueuesBecome(Q, R)
  BY <1>3, <1>4, <1>5 DEF QueuesBecome, AslInv
<1> QED BY <1>6 DEF R

(* A pcb goes to the queue of a semaphore, or leaves it.                   *)
LEMMA Blocks ==
  ASSUME SemType, NEW Q, BlockedIn(Q), NEW i \in Sem, NEW p \in Proc, p_semAdd[p] = NULL,
         p_semAdd' = [p_semAdd EXCEPT ![p] = i]
  PROVE  Reblocked(i, insertProcQ(Q[i], p))
<1>0. NULL \notin Sem
  BY SemFacts
<1>1. /\ Q[i] \in Seq(Proc) /\ NoDup(Q[i]) /\ ~InQ(Q[i], p)
      /\ \A x \in Proc : InQ(Q[i], x) <=> p_semAdd[x] = i
  BY <1>0 DEF BlockedIn
<1>2. p_semAdd' \in [Proc -> Sem \cup {NULL}] /\ p_semAdd'[p] = i
      /\ \A x \in Proc : x # p => p_semAdd'[x] = p_semAdd[x]
  BY DEF SemType
<1>3. /\ insertProcQ(Q[i], p) \in Seq(Proc) /\ NoDup(insertProcQ(Q[i], p))
      /\ \A x : InQ(insertProcQ(Q[i], p), x) <=> x = p \/ InQ(Q[i], x)
  BY <1>1, InsertProcQ
<1>4. \A x \in Proc : InQ(insertProcQ(Q[i], p), x) <=> p_semAdd'[x] = i
  BY <1>1, <1>2, <1>3
<1>5. \A x \in Proc, t \in Sem : t # i => (p_semAdd'[x] = t <=> p_semAdd[x] = t)
  BY <1>0, <1>2
<1> QED BY <1>2, <1>3, <1>4, <1>5 DEF Reblocked

LEMMA Leaves ==
  ASSUME SemType, NEW Q, BlockedIn(Q), NEW i \in Sem, NEW p \in Proc, p_semAdd[p] = i,
         p_semAdd' = [p_semAdd EXCEPT ![p] = NULL],
         NEW q \in Seq(Proc), NoDup(q), ~InQ(q, p), \A x : InQ(q, x) => InQ(Q[i], x),
         \A x : InQ(Q[i], x) => x = p \/ InQ(q, x)
  PROVE  Reblocked(i, q)
<1>0. NULL \notin Sem
  BY SemFacts
<1>1. \A x \in Proc : InQ(Q[i], x) <=> p_semAdd[x] = i
  BY DEF BlockedIn
<1>2. p_semAdd' \in [Proc -> Sem \cup {NULL}] /\ p_semAdd'[p] = NULL
      /\ \A x \in Proc : x # p => p_semAdd'[x] = p_semAdd[x]
  BY DEF SemType
<1>3. \A x \in Proc : InQ(q, x) <=> p_semAdd'[x] = i
  BY <1>0, <1>1, <1>2
<1>4. \A x \in Proc, t \in Sem : t # i => (p_semAdd'[x] = t <=> p_semAdd[x] = t)
  BY <1>0, <1>2
<1> QED BY <1>2, <1>3, <1>4 DEF Reblocked

LEMMA InsertBlockedStep ==
  ASSUME SemType, AslReads, NEW A, NEW F, NEW Q, SemFor(A, F, Q),
         NEW i \in Sem, NEW p \in Proc, Asl!insertBlocked(i, p)
  PROVE  AslInv' /\ (AslReads' => AslStep)
<1>0. PICK k : Stops(A, Q, i, k)
  BY Find
<1> DEFINE d == A[k + 1]
           q == insertProcQ(Q[i], p)
           R == [Q EXCEPT ![i] = q]
<1>1. /\ Asl!findASemd(i) = A[k] /\ s_next[A[k]] = d
      /\ s_semAdd[d] = i <=> Q[i] # <<>>
      /\ s_semAdd[d] = i => s_procQ[d] = Q[i]
      /\ A[k] \in Semd /\ d \in Semd
  BY <1>0 DEF Stops
<1>2. /\ BlockedIn(Q) /\ Q \in [Sem -> Seq(Proc)] /\ NULL \notin Sem /\ p_semAdd[p] = NULL
      /\ semdActive_h' = semdActive_h
  BY SemFacts DEF SemFor, BlockedIn, Asl!insertBlocked
<1>3. \A t \in Sem : Asl!Abstract!BlockedOn(p, t)
                      <=> Asl!Abstract!InQ([s \in Sem |-> Asl!queueOf(s)][t], p)
  BY DEF Asl!Abstract!BlockedOn
<1>4. \A t \in Sem : ~Asl!Abstract!InQ(Q[t], p)
  <2>1. \A t \in Sem : ~InQ(Q[t], p)
    BY <1>2 DEF BlockedIn
  <2> QED BY <2>1 DEF InQ, Asl!Abstract!InQ
<1>5. \A s : /\ Asl!insertProcQ(s, p) = insertProcQ(s, p)
             /\ Asl!Abstract!insertProcQ(s, p) = insertProcQ(s, p)
  BY DEF Asl!insertProcQ, Asl!Abstract!insertProcQ, insertProcQ
<1>6. q \in Seq(Proc) /\ q # <<>>
  BY <1>2, InsertProcQ
<1>7. CASE Q[i] = <<>> /\ semdFree_h = NULL
  <2>1. /\ UNCHANGED <<s_next, s_semAdd, s_procQ, semdActive_h, semdFree_h, p_semAdd>>
        /\ aslRet' = 1
    BY <1>1, <1>7 DEF Asl!insertBlocked, Asl!fields
  <2>2. QueuesBecome(Q, Q)
    BY <2>1, AslUnchanged
  <2>3. ASSUME AslReads' PROVE AslStep
    <3>1. /\ [s \in Sem |-> Asl!queueOf(s)] = Q
          /\ [s \in Sem |-> Asl!queueOf(s)]' = Q
      BY <2>2, <2>3 DEF QueuesBecome
    <3>2. Asl!Abstract!Cardinality({t \in Sem : Q[t] # <<>>}) = NSemd
      BY <1>7, InUse
    <3>3. Asl!Abstract!InsertBlocked(i, p)
      BY <1>3, <1>4, <1>7, <2>1, <3>1, <3>2 DEF Asl!Abstract!InsertBlocked
    <3> QED BY <3>3 DEF AslStep, Asl!Abstract!Next
  <2> QED BY <2>2, <2>3 DEF QueuesBecome
<1>8. CASE Q[i] # <<>> \/ semdFree_h # NULL
  <2>1. p_semAdd' = [p_semAdd EXCEPT ![p] = i] /\ aslRet' = 0
    BY <1>1, <1>8 DEF Asl!insertBlocked
  <2>2. Reblocked(i, q)
    BY <1>2, <2>1, Blocks
  <2> HIDE DEF q
  <2>3. QueuesBecome(Q, R)
    <3>1. CASE Q[i] # <<>>
      <4>1. /\ s_procQ' = [s_procQ EXCEPT ![d] = q]
            /\ UNCHANGED <<s_next, s_semAdd, semdFree_h>>
        BY <1>1, <1>5, <3>1 DEF Asl!insertBlocked, q
      <4>2. Asl!keepOrFree(A[k], A[k + 1], q)
        BY <1>6, <4>1 DEF Asl!keepOrFree, Asl!emptyProcQ
      <4> QED BY <1>0, <1>2, <2>2, <3>1, <4>2, QueueSet
    <3>2. CASE Q[i] = <<>>
      <4>1. PICK f : f = semdFree_h /\ f # NULL
        BY <1>8, <3>2
      <4>2. Asl!linkSemd(A[k], i, p)
        BY <1>1, <1>8, <3>2 DEF Asl!insertBlocked
      <4>3. Asl!insertProcQ(<<>>, p) = q
        BY <1>5, <3>2 DEF q
      <4>4. Takes(A[k], f, i, q)
        BY <4>1, <4>2, <4>3 DEF Asl!linkSemd, Takes
      <4> HIDE DEF R
      <4>5. /\ s_next' \in Links(Semd) /\ s_semAdd' \in [Semd -> 0..NULL]
            /\ s_procQ' \in [Semd -> Seq(Proc)] /\ semdFree_h' \in Semd \cup {NULL}
            /\ Lists(InsertAt(A, k + 1, f), Tail(F))'
            /\ Described(InsertAt(A, k + 1, f), R)'
        <5>1. /\ SemType /\ SemFor(A, F, Q) /\ i \in Sem /\ Stops(A, Q, i, k)
              /\ semdActive_h' = semdActive_h /\ q \in Seq(Proc) /\ q # <<>>
          BY <1>0, <1>2, <1>6
        <5> QED BY ONLY <3>2, <4>1, <4>4, <5>1, QueueNew DEF R
      <4>6. BlockedIn(R)'
        BY <1>2, <2>2, BlockedChange DEF R, Reblocked
      <4>7. SemType'
        BY <1>2, <2>2, <4>5 DEF SemType, Reblocked
      <4>8. SemFor(InsertAt(A, k + 1, f), Tail(F), R)'
        BY <4>5, <4>6 DEF SemFor
      <4> QED BY <4>7, <4>8 DEF QueuesBecome, AslInv, AslReads
    <3> QED BY <3>1, <3>2
  <2>4. ASSUME AslReads' PROVE AslStep
    <3>1. /\ [s \in Sem |-> Asl!queueOf(s)] = Q
          /\ [s \in Sem |-> Asl!queueOf(s)]' = R
      BY <2>3, <2>4 DEF QueuesBecome
    <3>2. ~(Q[i] = <<>> /\ Asl!Abstract!Cardinality({t \in Sem : Q[t] # <<>>}) = NSemd)
      BY <1>8, InUse
    <3>3. R = [Q EXCEPT ![i] = Asl!Abstract!insertProcQ(Q[i], p)]
      BY <1>5 DEF q
    <3> HIDE DEF R
    <3>4. Asl!Abstract!InsertBlocked(i, p)
      BY <1>3, <1>4, <2>1, <3>1, <3>2, <3>3 DEF Asl!Abstract!InsertBlocked
    <3> QED BY <3>4 DEF AslStep, Asl!Abstract!Next
  <2> QED BY <2>3, <2>4 DEF QueuesBecome
<1> QED BY <1>7, <1>8

LEMMA RemoveBlockedStep ==
  ASSUME SemType, AslReads, NEW A, NEW F, NEW Q, SemFor(A, F, Q),
         NEW i \in Sem, Asl!removeBlocked(i)
  PROVE  AslInv' /\ (AslReads' => AslStep)
<1>0. PICK k : Stops(A, Q, i, k)
  BY Find
<1> DEFINE d == A[k + 1]
           q == removeProcQ(Q[i])
           R == [Q EXCEPT ![i] = q]
<1>1. /\ Asl!findASemd(i) = A[k] /\ s_next[A[k]] = d
      /\ s_semAdd[d] = i <=> Q[i] # <<>>
      /\ s_semAdd[d] = i => s_procQ[d] = Q[i]
  BY <1>0 DEF Stops
<1>2. BlockedIn(Q) /\ Q \in [Sem -> Seq(Proc)] /\ semdActive_h' = semdActive_h
  BY DEF SemFor, BlockedIn, Asl!removeBlocked
<1>3. /\ Asl!removeProcQ(Q[i]) = q /\ Asl!Abstract!removeProcQ(Q[i]) = q
      /\ Asl!headProcQ(Q[i]) = headProcQ(Q[i])
      /\ Asl!Abstract!headProcQ(Q[i]) = headProcQ(Q[i])
  BY DEF Asl!removeProcQ, Asl!Abstract!removeProcQ, Asl!headProcQ, Asl!Abstract!headProcQ,
         Asl!emptyProcQ, Asl!Abstract!emptyProcQ, removeProcQ, headProcQ, emptyProcQ
<1>4. /\ aslRet' = headProcQ(Q[i])
      /\ QueuesBecome(Q, R)
  <2>1. CASE Q[i] = <<>>
    <3>1. /\ UNCHANGED <<s_next, s_semAdd, s_procQ, semdActive_h, semdFree_h, p_semAdd>>
          /\ aslRet' = NULL
      BY <1>1, <2>1 DEF Asl!removeBlocked, Asl!fields
    <3>2. QueuesBecome(Q, Q)
      BY <3>1, AslUnchanged
    <3>3. headProcQ(Q[i]) = NULL /\ R = Q
      BY <1>2, <2>1 DEF headProcQ, removeProcQ, emptyProcQ
    <3> QED BY <3>1, <3>2, <3>3
  <2>2. CASE Q[i] # <<>>
    <3>1. PICK p : p = headProcQ(Q[i])
      OBVIOUS
    <3>2. /\ aslRet' = p /\ p_semAdd' = [p_semAdd EXCEPT ![p] = NULL]
          /\ Asl!keepOrFree(A[k], A[k + 1], q)
      BY <1>1, <1>3, <2>2, <3>1 DEF Asl!removeBlocked
    <3>3. /\ p \in Proc /\ InQ(Q[i], p) /\ q \in Seq(Proc) /\ NoDup(q) /\ ~InQ(q, p)
          /\ \A x : InQ(q, x) => InQ(Q[i], x)
          /\ \A x : InQ(Q[i], x) => x = p \/ InQ(q, x)
      <4>1. Q[i] \in Seq(Proc) /\ NoDup(Q[i])
        BY <1>2 DEF BlockedIn
      <4> HIDE DEF q
      <4> QED BY <2>2, <3>1, <4>1, RemoveProcQ DEF q
    <3>4. p_semAdd[p] = i
      BY <1>2, <3>3 DEF BlockedIn
    <3> HIDE DEF q
    <3>5. Reblocked(i, q)
      BY <1>2, <3>2, <3>3, <3>4, Leaves
    <3>6. QueuesBecome(Q, R)
      BY <1>0, <1>2, <2>2, <3>2, <3>5, QueueSet
    <3> QED BY <3>1, <3>2, <3>6
  <2> QED BY <2>1, <2>2
<1>5. ASSUME AslReads' PROVE AslStep
  <2>1. /\ [s \in Sem |-> Asl!queueOf(s)] = Q
        /\ [s \in Sem |-> Asl!queueOf(s)]' = R
    BY <1>4, <1>5 DEF QueuesBecome
  <2>2. R = [Q EXCEPT ![i] = Asl!Abstract!removeProcQ(Q[i])]
    BY <1>3
  <2> HIDE DEF R
  <2>3. Asl!Abstract!RemoveBlocked(i)
    BY <1>3, <1>4, <2>1, <2>2 DEF Asl!Abstract!RemoveBlocked
  <2> QED BY <2>3 DEF AslStep, Asl!Abstract!Next
<1> QED BY <1>4, <1>5 DEF QueuesBecome

LEMMA HeadBlockedStep ==
  ASSUME SemType, AslReads, NEW A, NEW F, NEW Q, SemFor(A, F, Q),
         NEW i \in Sem, Asl!headBlocked(i)
  PROVE  AslInv' /\ (AslReads' => AslStep)
<1>0. PICK k : Stops(A, Q, i, k)
  BY Find
<1>1. /\ Asl!findASemd(i) = A[k] /\ s_next[A[k]] = A[k + 1]
      /\ s_semAdd[A[k + 1]] = i <=> Q[i] # <<>>
      /\ s_semAdd[A[k + 1]] = i => s_procQ[A[k + 1]] = Q[i]
  BY <1>0 DEF Stops
<1>2. UNCHANGED <<s_next, s_semAdd, s_procQ, semdActive_h, semdFree_h, p_semAdd>>
  BY DEF Asl!headBlocked, Asl!fields
<1>3. QueuesBecome(Q, Q)
  BY <1>2, AslUnchanged
<1>4. aslRet' = Asl!Abstract!headProcQ(Q[i])
  BY <1>1 DEF Asl!headBlocked, Asl!headProcQ, Asl!Abstract!headProcQ, Asl!emptyProcQ,
              Asl!Abstract!emptyProcQ
<1>5. ASSUME AslReads' PROVE AslStep
  <2>1. /\ [s \in Sem |-> Asl!queueOf(s)] = Q
        /\ [s \in Sem |-> Asl!queueOf(s)]' = Q
    BY <1>3, <1>5 DEF QueuesBecome
  <2>2. Asl!Abstract!HeadBlocked(i)
    BY <1>4, <2>1 DEF Asl!Abstract!HeadBlocked
  <2> QED BY <2>2 DEF AslStep, Asl!Abstract!Next
<1> QED BY <1>3, <1>5 DEF QueuesBecome

LEMMA OutBlockedStep ==
  ASSUME SemType, AslReads, NEW A, NEW F, NEW Q, SemFor(A, F, Q),
         NEW p \in Proc, Asl!outBlocked(p)
  PROVE  AslInv' /\ (AslReads' => AslStep)
<1>1. /\ BlockedIn(Q) /\ Q \in [Sem -> Seq(Proc)] /\ NULL \notin Sem
      /\ semdActive_h' = semdActive_h
  BY SemFacts DEF SemFor, BlockedIn, Asl!outBlocked
<1>2. \A t \in Sem : Asl!Abstract!InQ(Q[t], p) <=> p_semAdd[p] = t
  <2>1. \A t \in Sem : InQ(Q[t], p) <=> p_semAdd[p] = t
    BY <1>1 DEF BlockedIn
  <2> QED BY <2>1 DEF InQ, Asl!Abstract!InQ
<1>3. CASE p_semAdd[p] = NULL
  <2>1. /\ UNCHANGED <<s_next, s_semAdd, s_procQ, semdActive_h, semdFree_h, p_semAdd>>
        /\ aslRet' = NULL
    BY <1>3 DEF Asl!outBlocked, Asl!fields
  <2>2. QueuesBecome(Q, Q)
    BY <2>1, AslUnchanged
  <2>3. ASSUME AslReads' PROVE AslStep
    <3>1. /\ [s \in Sem |-> Asl!queueOf(s)] = Q
          /\ [s \in Sem |-> Asl!queueOf(s)]' = Q
      BY <2>2, <2>3 DEF QueuesBecome
    <3>2. \A t \in Sem : ~Asl!Abstract!InQ(Q[t], p)
      BY <1>1, <1>2, <1>3
    <3>3. Asl!Abstract!OutBlocked(p)
      BY <2>1, <3>1, <3>2 DEF Asl!Abstract!OutBlocked, Asl!Abstract!BlockedOn
    <3> QED BY <3>3 DEF AslStep, Asl!Abstract!Next
  <2> QED BY <2>2, <2>3 DEF QueuesBecome
<1>4. CASE p_semAdd[p] # NULL
  <2>0. PICK i \in Sem : i = p_semAdd[p]
    BY <1>4 DEF SemType
  <2>1. PICK k : Stops(A, Q, i, k)
    BY Find
  <2> DEFINE d == A[k + 1]
             q == outProcQ(Q[i], p)
             R == [Q EXCEPT ![i] = q]
  <2>2. Q[i] \in Seq(Proc) /\ NoDup(Q[i]) /\ InQ(Q[i], p) /\ Q[i] # <<>>
    <3>1. Q[i] \in Seq(Proc) /\ NoDup(Q[i]) /\ InQ(Q[i], p)
      BY <1>1, <2>0 DEF BlockedIn
    <3>2. Len(<<>>) = 0
      OBVIOUS
    <3> QED BY <3>1, <3>2 DEF InQ
  <2>3. Asl!findASemd(i) = A[k] /\ s_next[A[k]] = d /\ s_semAdd[d] = i /\ s_procQ[d] = Q[i]
    BY <2>1, <2>2 DEF Stops
  <2>4. /\ Asl!outProcQ(Q[i], p) = q /\ Asl!Abstract!outProcQ(Q[i], p) = q
        /\ Asl!outFinds(Q[i], p) <=> outFinds(Q[i], p)
        /\ Asl!Abstract!outFinds(Q[i], p) <=> outFinds(Q[i], p)
    BY DEF Asl!outProcQ, Asl!Abstract!outProcQ, outProcQ, Asl!outFinds, Asl!Abstract!outFinds,
           outFinds, Asl!emptyProcQ, Asl!Abstract!emptyProcQ, emptyProcQ, Asl!Last, Last,
           Asl!Abstract!Last, Asl!Front, Asl!Abstract!Front, Front
  <2>5. /\ Asl!keepOrFree(A[k], A[k + 1], q)
        /\ IF outFinds(Q[i], p) THEN aslRet' = p /\ p_semAdd' = [p_semAdd EXCEPT ![p] = NULL]
                                ELSE aslRet' = Trap /\ p_semAdd' = p_semAdd
    BY <1>4, <2>0, <2>3, <2>4 DEF Asl!outBlocked
  <2>6. Reblocked(i, q)
    <3>1. CASE outFinds(Q[i], p)
      <4>1. /\ q \in Seq(Proc) /\ NoDup(q) /\ ~InQ(q, p)
            /\ \A x : InQ(q, x) => InQ(Q[i], x)
            /\ \A x : InQ(Q[i], x) => x = p \/ InQ(q, x)
        <5> HIDE DEF q
        <5> QED BY <2>2, <3>1, OutProcQ DEF q
      <4> HIDE DEF q
      <4> QED BY <1>1, <2>0, <2>5, <3>1, <4>1, Leaves
    <3>2. CASE ~outFinds(Q[i], p)
      <4>1. q = Q[i]
        BY <3>2 DEF outProcQ
      <4>2. p_semAdd' = p_semAdd
        BY <2>5, <3>2
      <4> HIDE DEF q
      <4> QED BY <1>1, <2>2, <4>1, <4>2 DEF Reblocked, BlockedIn, SemType
    <3> QED BY <3>1, <3>2
  <2> HIDE DEF q
  <2>7. QueuesBecome(Q, R)
    BY <1>1, <2>1, <2>2, <2>5, <2>6, QueueSet
  <2>8. ASSUME AslReads' PROVE AslStep
    <3>1. /\ [s \in Sem |-> Asl!queueOf(s)] = Q
          /\ [s \in Sem |-> Asl!queueOf(s)]' = R
      BY <2>7, <2>8 DEF QueuesBecome
    <3>2. R = [Q EXCEPT ![i] = Asl!Abstract!outProcQ(Q[i], p)]
      BY <2>4
    <3> HIDE DEF R
    <3>3. aslRet' = IF Asl!Abstract!outFinds(Q[i], p) THEN p ELSE Trap
      BY <2>4, <2>5
    <3>4. Asl!Abstract!BlockedOn(p, i)
      BY <1>2, <2>0, <3>1 DEF Asl!Abstract!BlockedOn
    <3>5. Asl!Abstract!OutBlocked(p)
      BY <3>1, <3>2, <3>3, <3>4 DEF Asl!Abstract!OutBlocked
    <3> QED BY <3>5 DEF AslStep, Asl!Abstract!Next
  <2> QED BY <2>7, <2>8 DEF QueuesBecome
<1> QED BY <1>3, <1>4

LEMMA AslInit ==
  ASSUME Asl!Init
  PROVE  AslInv /\ (AslReads => Asl!Abstract!Init)
<1> DEFINE Q == [i \in Sem |-> <<>>]
           A == <<NSemd + 2, NSemd + 1>>
           F == [j \in 1..NSemd |-> NSemd + 1 - j]
<1>0. PICK m \in Nat : /\ m = NSemd /\ m # 0 /\ Semd = 1..m + 2
                       /\ NULL \in Nat /\ NULL \notin Sem /\ NULL \notin Semd
  BY SemFacts
<1>1. /\ s_next = [d \in Semd |-> IF d = m + 2 THEN m + 1
                                  ELSE IF d \in {m + 1, 1} THEN NULL ELSE d - 1]
      /\ s_semAdd = [d \in Semd |-> IF d = m + 2 THEN 0 ELSE NULL]
      /\ s_procQ = [d \in Semd |-> <<>>]
      /\ semdActive_h = m + 2 /\ semdFree_h = m
      /\ p_semAdd = [p \in Proc |-> NULL]
      /\ aslRet = NULL
  BY <1>0 DEF Asl!Init, Asl!MININT, Asl!MAXINT, Semd
<1>2. \A d \in Semd : /\ d \in Nat /\ d # 0
                      /\ d # m + 2 /\ d # m + 1 /\ d # 1 => d - 1 \in Semd
  BY <1>0
<1>3. m + 2 \in Semd /\ m + 1 \in Semd /\ m \in Semd /\ m + 2 # m + 1 /\ m # m + 1 /\ m # m + 2
  BY <1>0
<1>4. SemType
  <2>1. s_next \in Links(Semd)
    BY <1>1, <1>2, <1>3 DEF Links
  <2>2. s_semAdd \in [Semd -> 0..NULL]
    BY <1>0, <1>1
  <2>3. s_procQ \in [Semd -> Seq(Proc)]
    BY <1>1
  <2> QED BY <1>1, <1>3, <2>1, <2>2, <2>3 DEF SemType
<1>5. /\ A \in Seq(Semd) /\ Len(A) = 2 /\ NoDup(A) /\ A[1] = m + 2 /\ A[2] = m + 1
      /\ \A d : InQ(A, d) <=> d = m + 2 \/ d = m + 1
  BY <1>0, <1>3 DEF NoDup, InQ
<1>6. /\ F \in Seq(Semd) /\ Len(F) = m /\ \A j \in 1..m : F[j] = m + 1 - j
  <2>1. \A j \in 1..m : m + 1 - j \in Semd
    BY <1>0
  <2> QED BY <1>0, <2>1
<1> HIDE DEF A, F
<1>7. NoDup(F) /\ \A d \in Semd : InQ(F, d) <=> d # m + 2 /\ d # m + 1
  <2>1. \A j \in 1..m : m + 1 - j # m + 2 /\ m + 1 - j # m + 1
    BY <1>0
  <2>2. ASSUME NEW d \in Semd, d # m + 2, d # m + 1 PROVE InQ(F, d)
    <3>1. m + 1 - d \in 1..m /\ m + 1 - (m + 1 - d) = d
      BY <1>0, <2>2
    <3> QED BY <1>6, <3>1 DEF InQ
  <2>3. NoDup(F)
    BY <1>0, <1>6 DEF NoDup
  <2> QED BY <1>6, <2>1, <2>2, <2>3 DEF InQ
<1>8. Chain(s_next, semdActive_h, A)
  <2>1. s_next[m + 2] = m + 1 /\ s_next[m + 1] = NULL
    BY <1>1, <1>3
  <2>2. A # <<>>
    <3>1. Len(<<>>) = 0
      OBVIOUS
    <3>2. Len(A) = 2
      BY <1>5
    <3> QED BY <3>1, <3>2
  <2> QED BY <1>1, <1>5, <2>1, <2>2 DEF Chain, Path
<1>9. Chain(s_next, semdFree_h, F)
  <2>1. F # <<>>
    <3>1. Len(<<>>) = 0
      OBVIOUS
    <3> QED BY <1>0, <1>6, <3>1
  <2>2. F[1] = m /\ F[m] = 1
    BY <1>0, <1>6
  <2>3. s_next[1] = NULL
    <3>1. 1 \in Semd /\ 1 # m + 2
      BY <1>0
    <3> QED BY <1>1, <3>1
  <2>4. ASSUME NEW j \in 1..m - 1 PROVE s_next[F[j]] = F[j + 1]
    <3>1. /\ j \in 1..m /\ j + 1 \in 1..m /\ m + 1 - j \in Semd
          /\ m + 1 - j # m + 2 /\ m + 1 - j # m + 1 /\ m + 1 - j # 1
          /\ (m + 1 - j) - 1 = m + 1 - (j + 1)
      BY <1>0
    <3>2. s_next[m + 1 - j] = (m + 1 - j) - 1
      BY <1>1, <3>1
    <3> QED BY <1>6, <3>1, <3>2
  <2> QED BY <1>1, <1>6, <2>1, <2>2, <2>3, <2>4 DEF Chain, Path
<1>10. Sorted(s_semAdd, A)
  <2>1. s_semAdd[m + 2] = 0 /\ s_semAdd[m + 1] = NULL /\ 0 < NULL
    BY <1>0, <1>1, <1>3, SemFacts
  <2>2. \A j, l \in 1..2 : j < l => j = 1 /\ l = 2
    OBVIOUS
  <2> QED BY <1>5, <2>1, <2>2 DEF Sorted
<1>11. Lists(A, F)
  <2>1. Len(A) > 1 /\ Len(A) + Len(F) = NSemd + 2
    BY <1>0, <1>5, <1>6
  <2>2. \A d \in Semd : InQ(A, d) <=> ~InQ(F, d)
    BY <1>5, <1>7
  <2> QED BY <1>5, <1>6, <1>7, <1>8, <1>9, <1>10, <2>1, <2>2 DEF Lists
<1>12. Described(A, Q)
  BY <1>5 DEF Described
<1>13. BlockedIn(Q)
  <2>1. \A x : ~InQ(<<>>, x)
    BY DEF InQ
  <2>2. NoDup(<<>>)
    BY DEF NoDup
  <2> QED BY <1>0, <1>1, <2>1, <2>2 DEF BlockedIn
<1>14. SemFor(A, F, Q)
  BY <1>11, <1>12, <1>13 DEF SemFor
<1>15. AslReads => Asl!Abstract!Init
  <2>1. AslReads => [i \in Sem |-> Asl!queueOf(i)] = Q
    BY <1>4, <1>14 DEF AslReads
  <2> QED BY <1>1, <2>1 DEF Asl!Abstract!Init
<1> QED BY <1>4, <1>14, <1>15 DEF AslInv

LEMMA AslNext ==
  ASSUME AslInv, AslReads, [Next]_vars
  PROVE  AslInv' /\ (AslReads' => AslStep)
<1> PICK A, F, Q : SemFor(A, F, Q)
  BY DEF AslInv
<1> SemType
  BY DEF AslInv
<1>1. CASE UNCHANGED aslVars
  <2>1. QueuesBecome(Q, Q) /\ aslRet' = aslRet
    BY <1>1, AslUnchanged DEF aslVars
  <2> QED BY <2>1 DEF QueuesBecome, AslStep, Asl!Abstract!vars
<1>2. CASE Asl!Next
  <2>1. ASSUME NEW i \in Sem, Asl!removeBlocked(i) PROVE AslInv' /\ (AslReads' => AslStep)
    BY <2>1, RemoveBlockedStep
  <2>2. ASSUME NEW i \in Sem, Asl!headBlocked(i) PROVE AslInv' /\ (AslReads' => AslStep)
    BY <2>2, HeadBlockedStep
  <2>3. ASSUME NEW p \in Proc, Asl!outBlocked(p) PROVE AslInv' /\ (AslReads' => AslStep)
    BY <2>3, OutBlockedStep
  <2>4. ASSUME NEW i \in Sem, NEW p \in Proc, Asl!insertBlocked(i, p)
        PROVE  AslInv' /\ (AslReads' => AslStep)
    BY <2>4, InsertBlockedStep
  <2> QED BY <1>2, <2>1, <2>2, <2>3, <2>4 DEF Asl!Next
<1> QED BY <1>1, <1>2 DEF Next, vars

(* The descriptors always stand for some queues of the semaphores, and a   *)
(* pcb is in the queue of the semaphore it names: the inductive invariant  *)
(* of the next two theorems.                                               *)
THEOREM AslInvariant == Spec => []AslInv
<1>1. Init => AslInv
  BY AslInit DEF Init
<1>2. AslInv /\ [Next]_vars => AslInv'
  BY AslNext, AslReadsAlways
<1> QED BY <1>1, <1>2, PTL DEF Spec

(* AslOK: the list of descriptors is sorted, from the one dummy to the     *)
(* other; those between them have queues that are not empty; and every     *)
(* descriptor is on this list or on the free list, once.                   *)
THEOREM AslOKCorrect == Spec => []AslOK
<1>1. ASSUME AslInv PROVE AslOK
  <2> PICK A, F, Q : SemFor(A, F, Q)
    BY <1>1 DEF AslInv
  <2>1. SemType /\ Lists(A, F) /\ Described(A, Q)
    BY <1>1 DEF AslInv, SemFor
  <2>2. Asl!active = A /\ Asl!listFrom(semdFree_h) = F
    BY <2>1, AslReadsAlways DEF AslReads
  <2>3. PICK n \in Nat : n = Len(A) /\ n > 1
    BY <2>1, InOrder
  <2>4. /\ \A j, l \in 1..n : j < l => s_semAdd[A[j]] < s_semAdd[A[l]]
        /\ s_semAdd[A[1]] = 0 /\ s_semAdd[A[n]] = NULL
    BY <2>1, <2>3 DEF Lists, Sorted
  <2>5. Asl!Last(A) = A[n]
    BY <2>3 DEF Asl!Last
  <2>6. \A j \in 1..n - 1 : s_semAdd[A[j]] < s_semAdd[A[j + 1]]
    <3>1. \A j \in 1..n - 1 : j \in 1..n /\ j + 1 \in 1..n /\ j < j + 1
      BY <2>3
    <3> QED BY <2>4, <3>1
  <2>7. \A j \in 2..n - 1 : s_procQ[A[j]] # <<>>
    BY <2>1, <2>3 DEF Described
  <2>8. Asl!ToSet(A) \cup Asl!ToSet(F) = Semd
    <3>1. A \in Seq(Semd) /\ F \in Seq(Semd) /\ \A d \in Semd : InQ(A, d) <=> ~InQ(F, d)
      BY <2>1 DEF Lists
    <3> QED BY <3>1 DEF Asl!ToSet, InQ
  <2>9. n + Len(F) = NSemd + 2
    BY <2>1, <2>3 DEF Lists
  <2> QED BY <2>2, <2>3, <2>4, <2>5, <2>6, <2>7, <2>8, <2>9
      DEF AslOK, Asl!AslOK, Asl!MININT, Asl!MAXINT, Semd
<1> QED BY <1>1, AslInvariant, PTL

(* The sorted list does for the queues of the semaphores what SemQueues    *)
(* says, and every call returns what it says.                              *)
THEOREM ImplementsSemQueuesCorrect == Spec => ImplementsSemQueues
<1>1. Init => Asl!Abstract!Init
  BY AslInit, AslReadsAlways DEF Init
<1>2. AslInv /\ AslReads /\ AslReads' /\ [Next]_vars
        => [Asl!Abstract!Next]_(Asl!Abstract!vars)
  BY AslNext DEF AslStep
<1>3. AslReads
  BY AslReadsAlways
<1> QED BY <1>1, <1>2, <1>3, AslInvariant, PTL
    DEF Spec, ImplementsSemQueues, Asl!ImplementsSemQueues, Asl!Abstract!Spec
=============================================================================
