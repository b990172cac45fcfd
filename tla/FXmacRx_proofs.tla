--------------------------- MODULE FXmacRx_proofs ---------------------------
(***************************************************************************)
(* The receive path for any number of BDs and pbufs, with all receive      *)
(* errors.  What is proved holds until the error handler has run while the *)
(* thread is in the ring code ("nested").  Until then the ring is either in *)
(* order (Good), also when SetupRxBds has left BDs without a pbuf, or a    *)
(* context has fetched BDs beyond the hw group and stops at a NULL pbuf    *)
(* (Wrecked).                                                              *)
(***************************************************************************)
EXTENDS FXmacRx, FXmacBdRing_proofs, FiniteSetTheorems

\* A context that is processing or freeing a set of BDs has one.
LocalInv ==
  \A c \in Ctx :
    /\ pc[c] = "proc" => k[c] < bd_processed[c]
    /\ pc[c] = "free" => bd_processed[c] > 0

\* The receive interrupt is enabled, or the thread will enable it.
WakeInv ==
  "RXCOMPL" \in ier \/ sem > 0 \/ pc["thread"] = "ier"

\* A context is between the fetch of a set and the end of its queue.
Active == {"proc", "free", "setup", "rearm", "setbuf", "drain"}

\* No other context is.
Solo(c) == \A d \in Ctx : d # c => pc[d] \notin Active

\* The interrupt is in FXmacRecvHandler only while the thread is outside.
Alone == pc["isr"] \notin {"idle", "err"} => pc["thread"] \notin Active

\* The groups partition the ring; the set c has fetched is the post group;
\* SetupRxBds knows how many BDs are free and re-arms the last one of the hw
\* group; what is to be delivered is in the queue.
RingPart(c) ==
  /\ RingConsistent(ring) /\ ring.pre_cnt = 0
  /\ pc[c] \in {"proc", "free"} =>
       rxbdset[c] = ring.post_head /\ bd_processed[c] = ring.post_cnt
  /\ pc[c] \notin {"proc", "free"} => ring.post_cnt = 0
  /\ pc[c] \in {"setup", "rearm", "setbuf"} => freebds[c] = ring.free_cnt
  /\ pc[c] \in {"rearm", "setbuf"} =>
       /\ ring.hw_cnt > 0
       /\ rxbdset[c] = SeekAhead(ring.hw_head, ring.hw_cnt - 1)
  /\ pc[c] = "drain" => rx_queue_len[c] <= Len(recv_q)

\* The BDs with a pbuf are the n BDs from head on.
Holds(head, n) == \A i \in BD : storage[i] <=> InGroup(i, head, n)

\* They are the hw group, with the fetched BDs still to be processed and
\* without the one that is being re-armed.
FirstHeld(c) ==
  IF pc[c] = "proc" THEN SeekAhead(rxbdset[c], k[c]) ELSE ring.hw_head
CountHeld(c) ==
  CASE pc[c] = "proc" -> ring.hw_cnt + bd_processed[c] - k[c]
    [] pc[c] \in {"rearm", "setbuf"} -> ring.hw_cnt - 1
    [] OTHER -> ring.hw_cnt
StoragePart(c) == Holds(FirstHeld(c), CountHeld(c))

\* BDs of the hw group the DMA may use: not yet one whose words are still to
\* be cleared.
Usable(c) == IF pc[c] = "rearm" THEN ring.hw_cnt - 1 ELSE ring.hw_cnt

\* The DMA was not given a queue pointer after the ring was rebuilt.
Deaf == hwptr = NullBd /\ \A i \in BD : ~new[i]

\* The DMA has filled the first p usable BDs; all other BDs of the ring are
\* still NEW, so that it stops there.  Until SetupRxBds fails it leaves no
\* free BD.
NewPart(p, c) ==
  /\ p <= Usable(c)
  /\ \A j \in 0 .. Usable(c) - 1 : new[SeekAhead(ring.hw_head, j)] <=> j < p
  /\ \/ Deaf
     \/ /\ hwptr = SeekAhead(ring.hw_head, p)
        /\ \A i \in BD : ~InGroup(i, ring.hw_head, Usable(c)) => new[i]
        /\ \/ "starved" \in trouble \/ pc[c] \in {"setup", "rearm", "setbuf"}
           \/ ring.free_cnt = 0

\* The frames are in the order of their arrival, up to frame m: the last one
\* delivered, and those of the queue.
Sorted(q) == \A i, j \in 1 .. Len(q) : i <= j => q[i] <= q[j]
Queued(d, q, m) ==
  /\ d <= m /\ Sorted(q)
  /\ \A i \in 1 .. Len(q) : d <= q[i] /\ q[i] <= m

\* Next come the frames still to be processed, then the filled BDs.
ToProcess(c) == IF pc[c] = "proc" THEN bd_processed[c] - k[c] ELSE 0
OrderPart(p, c) ==
  /\ Queued(delivered, recv_q, rcvd - p - ToProcess(c))
  /\ pc[c] = "proc" =>
       \A j \in k[c] .. bd_processed[c] - 1 :
         frame[SeekAhead(rxbdset[c], j)] = rcvd - p - bd_processed[c] + 1 + j
  /\ \A j \in 0 .. p - 1 : frame[SeekAhead(ring.hw_head, j)] = rcvd - p + 1 + j

\* A filled BD is announced to the thread, or the thread will look.
WakePart(p) ==
  \/ p = 0 \/ "RXCOMPL" \in isr \/ sem > 0
  \/ pc["thread"] \in {"ier", "recv", "fromhw", "walk"}

Core(p, c) ==
  RingPart(c) /\ StoragePart(c) /\ NewPart(p, c) /\ OrderPart(p, c)
Good(p, c) == Core(p, c) /\ WakePart(p)

\* Context c has fetched the whole ring although some BDs have no pbuf, and
\* will stop at the first of these; or a context has done so.
Wrecked(c) ==
  /\ "starved" \in trouble /\ delivered <= rcvd
  /\ \A i \in BD : new[i]
  /\ pc[c] \notin Active \ {"proc"}
  /\ pc[c] = "proc" =>
       /\ bd_processed[c] = N
       /\ \E m \in 0 .. N - 1 :
            k[c] <= m /\ Holds(SeekAhead(rxbdset[c], k[c]), m - k[c])
  /\ pc[c] # "proc" =>
       (\E d \in Ctx : pc[d] = "fault") /\ \A i \in BD : ~storage[i]
  /\ ring.hw_cnt # 0 \/ pc["isr"] \in {"proc", "fault"}

Shape(c) == (\E p \in 0 .. N : Good(p, c)) \/ Wrecked(c)

\* Until the contexts are nested.
Orderly ==
  /\ Alone
  /\ \E c \in Ctx : Solo(c) /\ Shape(c)
  /\ trouble \subseteq {"reset"} => \A c \in Ctx : pc[c] # "fault"
OrderlyInv == "nested" \notin trouble => Orderly

IInv == TypeOK /\ LocalInv /\ WakeInv /\ OrderlyInv /\ PbufsConserved

-----------------------------------------------------------------------------
(* Lemmas about the queue and pbufs *)

\* The frame that follows all others joins the queue, or is lost.
LEMMA QueuedEnqueue ==
  ASSUME NEW d \in Nat, NEW q \in Seq(Nat), NEW m \in Int, Queued(d, q, m),
         m + 1 \in Nat
  PROVE  /\ FXmacPqEnqueue(q, m + 1) \in Seq(Nat)
         /\ Queued(d, FXmacPqEnqueue(q, m + 1), m + 1)
<1>1. CASE Len(q) = PQ_QUEUE_SIZE
  BY <1>1 DEF Queued, Sorted, FXmacPqEnqueue
<1>2. CASE Len(q) # PQ_QUEUE_SIZE
  <2> DEFINE s == Append(q, m + 1)
  <2>1. /\ s \in Seq(Nat) /\ Len(s) = Len(q) + 1 /\ s[Len(q) + 1] = m + 1
        /\ \A i \in 1 .. Len(q) : s[i] = q[i]
    OBVIOUS
  <2>2. Len(q) \in Nat /\ \A i \in 1 .. Len(q) : q[i] \in Nat
    OBVIOUS
  <2>3. FXmacPqEnqueue(q, m + 1) = s
    BY <1>2 DEF FXmacPqEnqueue
  <2> HIDE DEF s
  <2>4. \A i \in 1 .. Len(s) : d <= s[i] /\ s[i] <= m + 1
    BY <2>1, <2>2 DEF Queued
  <2>5. Sorted(s)
    <3> SUFFICES ASSUME NEW i \in 1 .. Len(s), NEW j \in 1 .. Len(s), i <= j
                 PROVE  s[i] <= s[j]
      BY DEF Sorted
    <3>1. CASE j = Len(q) + 1
      BY <3>1, <2>1, <2>4
    <3>2. CASE j # Len(q) + 1
      <4>1. i \in 1 .. Len(q) /\ j \in 1 .. Len(q)
        BY <3>2, <2>1, <2>2
      <4> QED
        BY <4>1, <2>1 DEF Queued, Sorted
    <3> QED
      BY <3>1, <3>2
  <2> QED
    BY <2>1, <2>3, <2>4, <2>5 DEF Queued
<1> QED
  BY <1>1, <1>2

\* The head of the queue is the next frame.
LEMMA QueuedTail ==
  ASSUME NEW d \in Nat, NEW q \in Seq(Nat), NEW m \in Int, Queued(d, q, m),
         q # <<>>
  PROVE  /\ Tail(q) \in Seq(Nat) /\ Len(Tail(q)) = Len(q) - 1
         /\ Head(q) \in Nat /\ d <= Head(q)
         /\ Queued(Head(q), Tail(q), m)
<1> DEFINE s == Tail(q)
<1>1. /\ s \in Seq(Nat) /\ Len(s) = Len(q) - 1 /\ Len(q) \in Nat \ {0}
      /\ Len(s) \in Nat
      /\ \A i \in 1 .. Len(s) : s[i] = q[i + 1]
      /\ Head(q) = q[1] /\ Head(q) \in Nat
  OBVIOUS
<1> HIDE DEF s
<1>2. 1 \in 1 .. Len(q) /\ \A i \in 1 .. Len(s) : i + 1 \in 1 .. Len(q)
  BY <1>1
<1>3. d <= Head(q) /\ Head(q) <= m
  BY <1>1, <1>2 DEF Queued
<1>4. \A i \in 1 .. Len(s) : Head(q) <= s[i] /\ s[i] <= m
  <2> SUFFICES ASSUME NEW i \in 1 .. Len(s)
               PROVE  Head(q) <= s[i] /\ s[i] <= m
    OBVIOUS
  <2>1. i + 1 \in 1 .. Len(q) /\ 1 <= i + 1
    BY <1>1
  <2>2. q[1] <= q[i + 1] /\ q[i + 1] <= m
    BY <1>2, <2>1 DEF Queued, Sorted
  <2> QED
    BY <1>1, <2>2
<1>5. Sorted(s)
  <2> SUFFICES ASSUME NEW i \in 1 .. Len(s), NEW j \in 1 .. Len(s), i <= j
               PROVE  s[i] <= s[j]
    BY DEF Sorted
  <2>1. i + 1 \in 1 .. Len(q) /\ j + 1 \in 1 .. Len(q) /\ i + 1 <= j + 1
    BY <1>1
  <2> QED
    BY <2>1, <1>1 DEF Queued, Sorted
<1> QED
  BY <1>1, <1>3, <1>4, <1>5 DEF Queued, s

\* The number of BDs with a pbuf.
LEMMA BDFinite == IsFiniteSet(BD)
BY RingAssumption, FS_Interval DEF BD

LEMMA HeldNat ==
  ASSUME NEW P, P \subseteq BD
  PROVE  IsFiniteSet(P) /\ Cardinality(P) \in Nat
BY BDFinite, FS_Subset, FS_CardinalityType

LEMMA ArmedHeld ==
  ASSUME NEW m \in 0 .. N
  PROVE  Cardinality({i \in BD : Armed(m)[i]}) = m
<1>1. {i \in BD : Armed(m)[i]} = 0 .. m - 1
  <2>1. \A i \in BD : Armed(m)[i] <=> i < m
    BY Zenon DEF Armed
  <2>2. {i \in BD : Armed(m)[i]} = {i \in BD : i < m}
    BY <2>1, Zenon
  <2>3. {i \in BD : i < m} = 0 .. m - 1
    BY RingAssumption DEF BD
  <2> QED
    BY <2>2, <2>3
<1>2. Cardinality(0 .. m - 1) = m
  BY FS_Interval
<1> QED
  BY <1>1, <1>2

-----------------------------------------------------------------------------
(* Types *)

\* The counters and heads of a ring stay in range whatever the state of the
\* ring is: the counters wrap around.
LEMMA RingOpsType ==
  ASSUME NEW r \in Ring, NEW n \in 0 .. N, NEW bd \in BD
  PROVE  /\ TakeFromHw(r, n) \in Ring /\ FXmacBdRingAlloc(r, n) \in Ring
         /\ FXmacBdRingUnAlloc(r, n) \in Ring
         /\ FXmacBdRingToHw(r, n, bd) \in Ring
         /\ FXmacBdRingFree(r, n, bd) \in Ring
<1>1. /\ r.free_cnt \in 0 .. U32 - 1 /\ r.pre_cnt \in 0 .. U32 - 1
      /\ r.hw_cnt \in 0 .. U32 - 1 /\ r.post_cnt \in 0 .. U32 - 1
      /\ r.free_head \in BD /\ r.pre_head \in BD /\ r.hw_head \in BD
      /\ r.hw_tail \in BD /\ r.post_head \in BD
  BY DEF Ring
<1>2. \A a \in 0 .. U32 - 1 :
        AddU32(a, n) \in 0 .. U32 - 1 /\ SubU32(a, n) \in 0 .. U32 - 1
  BY RingAssumption DEF AddU32, SubU32
<1>3. \A h \in BD : SeekAhead(h, n) \in BD /\ SeekBack(h, n) \in BD
  BY RingAssumption DEF SeekAhead, SeekBack, BD
<1>4. TakeFromHw(r, n) \in Ring
  BY <1>1, <1>2, <1>3 DEF Ring, TakeFromHw
<1>5. FXmacBdRingAlloc(r, n) \in Ring
  BY <1>1, <1>2, <1>3 DEF Ring, FXmacBdRingAlloc
<1>6. FXmacBdRingUnAlloc(r, n) \in Ring
  BY <1>1, <1>2, <1>3 DEF Ring, FXmacBdRingUnAlloc
<1>7. FXmacBdRingToHw(r, n, bd) \in Ring
  BY <1>1, <1>2, <1>3 DEF Ring, FXmacBdRingToHw
<1>8. FXmacBdRingFree(r, n, bd) \in Ring
  BY <1>1, <1>2, <1>3 DEF Ring, FXmacBdRingFree
<1> QED
  BY <1>4, <1>5, <1>6, <1>7, <1>8

\* The ring FXmacInitDma builds with m pbufs.
LEMMA InitDmaRingType ==
  ASSUME NEW m \in 0 .. N
  PROVE  /\ InitDmaRing(m) \in Ring /\ RingConsistent(InitDmaRing(m))
         /\ InitDmaRing(m).hw_cnt = m /\ InitDmaRing(m).hw_head = 0
         /\ InitDmaRing(m).pre_cnt = 0 /\ InitDmaRing(m).post_cnt = 0
         /\ InitDmaRing(m).free_cnt = N - m
<1>1. 0 \in BD /\ SeekAhead(0, m) \in BD
  BY RingAssumption DEF BD, SeekAhead
<1>2. /\ FXmacBdRingCreate \in Ring /\ FXmacBdRingCreate.hw_head = 0
      /\ FXmacBdRingCreate.pre_cnt = 0 /\ FXmacBdRingCreate.post_cnt = 0
      /\ FXmacBdRingCreate.post_head = 0
  BY CreateConsistent DEF FXmacBdRingCreate
<1>3. /\ InitDmaRing(m) \in Ring
      /\ InitDmaRing(m).free_cnt = N - m /\ InitDmaRing(m).hw_cnt = m
      /\ InitDmaRing(m).pre_cnt = 0 /\ InitDmaRing(m).post_cnt = 0
      /\ InitDmaRing(m).hw_head = 0 /\ InitDmaRing(m).post_head = 0
      /\ InitDmaRing(m).pre_head = SeekAhead(0, m)
      /\ InitDmaRing(m).free_head = SeekAhead(0, m)
  <2>1. N - m \in 0 .. U32 - 1 /\ m \in 0 .. U32 - 1
    BY RingAssumption
  <2> QED
    BY <1>1, <1>2, <2>1 DEF InitDmaRing, Ring
<1>4. SeekAhead(0, 0) = 0 /\ SeekAhead(SeekAhead(0, m), 0) = SeekAhead(0, m)
  BY <1>1, SeekZero
<1> QED
  BY <1>3, <1>4, RingAssumption DEF RingConsistent

\* The pbufs FXmacHandleDmaTxError has at hand and those it arms BDs with.
LEMMA RebuildCount ==
  ASSUME TypeOK
  PROVE  LET have == pool + Held + Len(recv_q)
             m == IF have < N THEN have ELSE N
         IN have \in Nat /\ m \in 0 .. N /\ have - m \in Nat
<1>1. Held \in Nat
  BY HeldNat DEF Held
<1>2. Len(recv_q) \in Nat /\ pool \in Nat
  BY DEF TypeOK
<1> QED
  BY <1>1, <1>2, RingAssumption

\* A context moves to a location of the code.
LEMMA GotoType ==
  ASSUME pc \in [Ctx -> Locations], NEW c \in Ctx, NEW l \in Locations,
         Goto(c, l)
  PROVE  pc' \in [Ctx -> Locations]
BY DEF Goto

\* One value of a function changes.
LEMMA Update ==
  ASSUME NEW S, NEW T, NEW f \in [S -> T], NEW x \in S, NEW v \in T
  PROVE  [f EXCEPT ![x] = v] \in [S -> T]
OBVIOUS

\* The Boolean variables keep their type.
LEMMA BitsStep == TypeOK /\ [Next]_vars => BitsOK'
<1> SUFFICES ASSUME TypeOK, [Next]_vars PROVE BitsOK'
  OBVIOUS
<1> USE DEF BitsOK, TypeOK, Goto, At, bdVars, bufVars, hwVars, localVars,
     histVars
<1>1. CASE DmaReceive
  BY <1>1, Zenon DEF DmaReceive
<1>2. ASSUME NEW e \in AllErrors, DmaDrop(e) PROVE BitsOK'
  BY <1>2, Zenon DEF DmaDrop, ErrorInterrupt
<1>3. CASE StackFree
  BY <1>3, Zenon DEF StackFree
<1>4. CASE SemTake
  BY <1>4, Zenon DEF SemTake
<1>5. CASE SemEmpty
  BY <1>5, Zenon DEF SemEmpty
<1>6. CASE EnableRxIrq
  BY <1>6, Zenon DEF EnableRxIrq
<1>7. CASE FXmacIntrHandler
  BY <1>7, Zenon DEF FXmacIntrHandler, SemGive
<1>8. CASE FXmacErrorHandler
  BY <1>8, Zenon DEF FXmacErrorHandler
<1>9. CASE FXmacHandleDmaTxError
  <2> DEFINE have == pool + Held + Len(recv_q)
             m == IF have < N THEN have ELSE N
  <2>1. m \in 0 .. N
    BY RebuildCount
  <2>2. addr' = Armed(m) /\ storage' = Armed(m)
    BY <1>9 DEF FXmacHandleDmaTxError
  <2> HIDE DEF have, m
  <2>3. \A i \in BD : (i < m) \in BOOLEAN
    BY <2>1
  <2>4. Armed(m) \in [BD -> BOOLEAN]
    BY <2>3, Zenon DEF Armed
  <2> QED
    BY <1>9, <2>2, <2>4, Zenon DEF FXmacHandleDmaTxError
<1>10. ASSUME NEW c \in Ctx, ClearRxStatus(c) PROVE BitsOK'
  BY <1>10, Zenon DEF ClearRxStatus
<1>21. ASSUME NEW c \in Ctx, CallFromHwRx(c) PROVE BitsOK'
  BY <1>21, Zenon DEF CallFromHwRx
<1>11. ASSUME NEW c \in Ctx, FetchBds(c) PROVE BitsOK'
  BY <1>11, Zenon DEF FetchBds
<1>12. ASSUME NEW c \in Ctx, ProcessBd(c) PROVE BitsOK'
  BY <1>12, Zenon DEF ProcessBd
<1>13. ASSUME NEW c \in Ctx, FreeBds(c) PROVE BitsOK'
  BY <1>13, Zenon DEF FreeBds
<1>14. ASSUME NEW c \in Ctx, SetupDone(c) PROVE BitsOK'
  BY <1>14, Zenon DEF SetupDone, SetupReturn
<1>15. ASSUME NEW c \in Ctx, SetupBd(c) PROVE BitsOK'
  BY <1>15, Zenon DEF SetupBd, SetupReturn
<1>16. ASSUME NEW c \in Ctx, ClearBd(c) PROVE BitsOK'
  BY <1>16, Zenon DEF ClearBd
<1>17. ASSUME NEW c \in Ctx, SetBuffer(c) PROVE BitsOK'
  BY <1>17, Zenon DEF SetBuffer
<1>18. ASSUME NEW c \in Ctx, Deliver(c) PROVE BitsOK'
  BY <1>18, Zenon DEF Deliver
<1>19. ASSUME NEW c \in Ctx, Drained(c) PROVE BitsOK'
  BY <1>19, Zenon DEF Drained
<1>20. CASE UNCHANGED vars
  BY <1>20, Zenon DEF vars
<1> QED
  BY <1>1, <1>2, <1>3, <1>4, <1>5, <1>6, <1>7, <1>8, <1>9, <1>10, <1>11,
     <1>12, <1>13, <1>14, <1>15, <1>16, <1>17, <1>18, <1>19, <1>20, <1>21
  DEF Next, Thread, Isr, RecvHandler, Ctx

\* Every step keeps the types.
LEMMA TypeStep == TypeOK /\ LocalInv /\ BitsOK' /\ [Next]_vars => TypeOK'
<1> SUFFICES ASSUME TypeOK, LocalInv, BitsOK', [Next]_vars PROVE TypeOK'
  OBVIOUS
<1> USE RingAssumption, RxAssumption DEF TypeOK, Locations, Interrupts,
     AllErrors, Goto, At, bdVars, bufVars, hwVars, localVars, histVars
<1>1. CASE DmaReceive
  <2>1. hwptr' \in BD
    BY <1>1 DEF DmaReceive, SeekAhead, BD, NullBd
  <2> QED
    BY <1>1, <2>1 DEF DmaReceive
<1>2. ASSUME NEW e \in AllErrors, DmaDrop(e) PROVE TypeOK'
  BY <1>2 DEF DmaDrop, ErrorInterrupt
<1>3. CASE StackFree
  BY <1>3 DEF StackFree
<1>4. CASE SemTake
  <2>1. sem' \in 0 .. SEMAPHORE_MAXCOUNT
    BY <1>4 DEF SemTake
  <2> QED
    BY <1>4, <2>1 DEF SemTake
<1>5. CASE SemEmpty
  BY <1>5 DEF SemEmpty
<1>6. CASE EnableRxIrq
  BY <1>6 DEF EnableRxIrq
<1>7. CASE FXmacIntrHandler
  <2>1. sem' \in 0 .. SEMAPHORE_MAXCOUNT
    BY <1>7 DEF FXmacIntrHandler, SemGive
  <2> QED
    BY <1>7, <2>1 DEF FXmacIntrHandler
<1>8. CASE FXmacErrorHandler
  BY <1>8 DEF FXmacErrorHandler, Nested, Troubles
<1>9. CASE FXmacHandleDmaTxError
  <2> DEFINE have == pool + Held + Len(recv_q)
             m == IF have < N THEN have ELSE N
  <2>1. m \in 0 .. N /\ have - m \in Nat
    BY RebuildCount
  <2>2. ring' = InitDmaRing(m) /\ pool' = have - m /\ recv_q' = <<>>
    BY <1>9 DEF FXmacHandleDmaTxError
  <2> HIDE DEF have, m
  <2>3. ring' \in Ring
    BY <2>1, <2>2, InitDmaRingType
  <2>4. hwptr' \in BD \union {NullBd} /\ trouble' \subseteq Troubles
    BY <1>9 DEF FXmacHandleDmaTxError, Nested, Troubles, BD
  <2>5. pool' \in Nat /\ recv_q' \in Seq(Nat)
    BY <2>1, <2>2
  <2>6. /\ isr' = {} /\ ier' = Interrupts /\ rxsr' = {}
        /\ errw' = errw \ {"HRESPNOK"}
        /\ UNCHANGED <<frame, stack, sem, pc, rxbdset, bd_processed, k, freebds,
                       rx_queue_len, rcvd, drops, delivered>>
    BY <1>9 DEF FXmacHandleDmaTxError
  <2> QED
    BY <2>3, <2>4, <2>5, <2>6
<1>10. ASSUME NEW c \in Ctx, ClearRxStatus(c) PROVE TypeOK'
  BY <1>10 DEF ClearRxStatus
<1>21. ASSUME NEW c \in Ctx, CallFromHwRx(c) PROVE TypeOK'
  BY <1>21 DEF CallFromHwRx
<1>11. ASSUME NEW c \in Ctx, FetchBds(c) PROVE TypeOK'
  <2>1. PICK n \in 0 .. N :
          /\ bd_processed' = [bd_processed EXCEPT ![c] = n]
          /\ \/ UNCHANGED <<ring, rxbdset, k>>
             \/ /\ ring' = TakeFromHw(ring, n)
                /\ rxbdset' = [rxbdset EXCEPT ![c] = ring.hw_head]
                /\ k' = [k EXCEPT ![c] = 0]
    BY <1>11, Zenon DEF FetchBds
  <2>2. \/ freebds' = freebds
        \/ freebds' = [freebds EXCEPT ![c] = ring.free_cnt]
        \/ freebds' = [freebds EXCEPT ![c] = 0]
    BY <1>11, Zenon DEF FetchBds
  <2>3. Goto(c, "setup") \/ Goto(c, "semtry") \/ Goto(c, "proc")
    BY <1>11, Zenon DEF FetchBds
  <2>4. /\ ring.hw_head \in BD /\ ring.free_cnt \in 0 .. U32 - 1 /\ 0 \in BD
        /\ 0 \in 0 .. U32 - 1 /\ 0 \in 0 .. N
    BY DEF Ring, BD
  <2>5. TakeFromHw(ring, n) \in Ring
    BY <2>4, RingOpsType
  <2>6. ring' \in Ring
    BY <2>1, <2>5
  <2>7. rxbdset' \in [Ctx -> BD]
    BY <2>1, <2>4
  <2>8. k' \in [Ctx -> 0 .. N]
    <3>1. [k EXCEPT ![c] = 0] \in [Ctx -> 0 .. N]
      BY <2>4, Update
    <3> QED
      BY <2>1, <3>1, Zenon
  <2>9. bd_processed' \in [Ctx -> 0 .. N]
    BY <2>1, Update, Zenon
  <2>10. freebds' \in [Ctx -> 0 .. U32 - 1]
    <3>1. /\ [freebds EXCEPT ![c] = 0] \in [Ctx -> 0 .. U32 - 1]
          /\ [freebds EXCEPT ![c] = ring.free_cnt] \in [Ctx -> 0 .. U32 - 1]
      BY <2>4, Update
    <3> QED
      BY <2>2, <3>1, Zenon
  <2>11. pc' \in [Ctx -> Locations]
    BY <2>3, GotoType
  <2> QED
    BY <1>11, <2>6, <2>7, <2>8, <2>9, <2>10, <2>11 DEF FetchBds
<1>12. ASSUME NEW c \in Ctx, ProcessBd(c) PROVE TypeOK'
  <2> DEFINE i == SeekAhead(rxbdset[c], k[c])
  <2>1. k[c] + 1 \in 0 .. N \/ ~At(c, "proc")
    BY DEF LocalInv
  <2>2. i \in BD
    BY SeekAheadType
  <2>3. frame[i] \in Nat /\ Append(recv_q, frame[i]) \in Seq(Nat)
    BY <2>2
  <2> HIDE DEF i
  <2>4. recv_q' = recv_q \/ recv_q' = Append(recv_q, frame[i])
    BY <1>12 DEF ProcessBd, FXmacPqEnqueue, i
  <2>5. /\ pool' = pool \/ pool' = pool + 1
        /\ k' = k \/ k' = [k EXCEPT ![c] = k[c] + 1]
        /\ At(c, "proc")
    BY <1>12 DEF ProcessBd
  <2>6. Goto(c, "free") \/ Goto(c, "proc") \/ Goto(c, "fault")
    BY <1>12 DEF ProcessBd
  <2>7. recv_q' \in Seq(Nat)
    BY <2>3, <2>4, Zenon
  <2>8. k' \in [Ctx -> 0 .. N]
    BY <2>1, <2>5
  <2>9. pc' \in [Ctx -> Locations]
    BY <2>6, GotoType
  <2>10. pool' \in Nat
    BY <2>5
  <2> QED
    BY <1>12, <2>7, <2>8, <2>9, <2>10 DEF ProcessBd
<1>13. ASSUME NEW c \in Ctx, FreeBds(c) PROVE TypeOK'
  <2>1. ring' \in Ring
    BY <1>13, RingOpsType DEF FreeBds
  <2> QED
    BY <1>13, <2>1 DEF FreeBds, Ring
<1>14. ASSUME NEW c \in Ctx, SetupDone(c) PROVE TypeOK'
  <2>1. trouble' \subseteq Troubles
    BY <1>14 DEF SetupDone, Troubles
  <2>2. Len(recv_q) \in Nat
    OBVIOUS
  <2>3. /\ Goto(c, "err") \/ Goto(c, "drain")
        /\ \/ rx_queue_len' = rx_queue_len
           \/ rx_queue_len' = [rx_queue_len EXCEPT ![c] = Len(recv_q)]
    BY <1>14, Zenon DEF SetupDone, SetupReturn
  <2>4. pc' \in [Ctx -> Locations]
    BY <2>3, GotoType
  <2>5. rx_queue_len' \in [Ctx -> Nat]
    <3>1. [rx_queue_len EXCEPT ![c] = Len(recv_q)] \in [Ctx -> Nat]
      BY <2>2, Update
    <3> QED
      BY <2>3, <3>1, Zenon
  <2>6. freebds' \in [Ctx -> 0 .. U32 - 1]
    BY <1>14 DEF SetupDone
  <2> QED
    BY <1>14, <2>1, <2>4, <2>5, <2>6 DEF SetupDone
<1>15. ASSUME NEW c \in Ctx, SetupBd(c) PROVE TypeOK'
  <2>1. ring.free_head \in BD /\ 1 \in 0 .. N /\ Len(recv_q) \in Nat
    BY DEF Ring
  <2>2. FXmacBdRingAlloc(ring, 1) \in Ring
    BY <2>1, RingOpsType
  <2>3. /\ FXmacBdRingToHw(FXmacBdRingAlloc(ring, 1), 1, ring.free_head)
             \in Ring
        /\ FXmacBdRingUnAlloc(FXmacBdRingAlloc(ring, 1), 1) \in Ring
    BY <2>1, <2>2, RingOpsType
  <2>4. ring' \in Ring
    BY <1>15, <2>3 DEF SetupBd
  <2>5. pool > 0 /\ (pool' = pool \/ pool' = pool - 1)
    BY <1>15, Zenon DEF SetupBd
  <2>6. /\ freebds[c] > 0
        /\ \/ freebds' = [freebds EXCEPT ![c] = 0]
           \/ freebds' = [freebds EXCEPT ![c] = freebds[c] - 1]
    BY <1>15, Zenon DEF SetupBd
  <2>7. \/ rx_queue_len' = rx_queue_len
        \/ rx_queue_len' = [rx_queue_len EXCEPT ![c] = Len(recv_q)]
    BY <1>15, Zenon DEF SetupBd, SetupReturn
  <2>8. Goto(c, "err") \/ Goto(c, "drain") \/ Goto(c, "rearm")
    BY <1>15, Zenon DEF SetupBd, SetupReturn
  <2>9. pool' \in Nat
    BY <2>5
  <2>10. freebds' \in [Ctx -> 0 .. U32 - 1]
    <3>1. 0 \in 0 .. U32 - 1 /\ freebds[c] - 1 \in 0 .. U32 - 1
      BY <2>6
    <3>2. /\ [freebds EXCEPT ![c] = 0] \in [Ctx -> 0 .. U32 - 1]
          /\ [freebds EXCEPT ![c] = freebds[c] - 1] \in [Ctx -> 0 .. U32 - 1]
      BY <3>1, Update
    <3> QED
      BY <2>6, <3>2, Zenon
  <2>11. rx_queue_len' \in [Ctx -> Nat]
    BY <2>1, <2>7
  <2>12. pc' \in [Ctx -> Locations]
    BY <2>8, GotoType
  <2> QED
    BY <1>15, <2>1, <2>4, <2>9, <2>10, <2>11, <2>12 DEF SetupBd
<1>16. ASSUME NEW c \in Ctx, ClearBd(c) PROVE TypeOK'
  BY <1>16 DEF ClearBd
<1>17. ASSUME NEW c \in Ctx, SetBuffer(c) PROVE TypeOK'
  BY <1>17 DEF SetBuffer
<1>18. ASSUME NEW c \in Ctx, Deliver(c) PROVE TypeOK'
  <2>1. /\ pool' = pool \/ pool' = pool + 1
        /\ stack' = stack \/ stack' = stack + 1
    BY <1>18, Zenon DEF Deliver
  <2>2. \/ UNCHANGED <<recv_q, delivered>>
        \/ recv_q # <<>> /\ recv_q' = Tail(recv_q) /\ delivered' = Head(recv_q)
    BY <1>18, Zenon DEF Deliver
  <2>3. /\ rx_queue_len[c] > 0
        /\ \/ rx_queue_len' = rx_queue_len
           \/ rx_queue_len' = [rx_queue_len EXCEPT ![c] = rx_queue_len[c] - 1]
    BY <1>18, Zenon DEF Deliver
  <2>4. Goto(c, "fault") \/ pc' = pc
    BY <1>18, Zenon DEF Deliver
  <2>5. recv_q # <<>> => Tail(recv_q) \in Seq(Nat) /\ Head(recv_q) \in Nat
    OBVIOUS
  <2>6. recv_q' \in Seq(Nat) /\ delivered' \in Nat
    BY <2>2, <2>5, Zenon
  <2>7. stack' \in Nat /\ pool' \in Nat
    BY <2>1
  <2>8. rx_queue_len' \in [Ctx -> Nat]
    <3>1. rx_queue_len[c] - 1 \in Nat
      BY <2>3
    <3>2. [rx_queue_len EXCEPT ![c] = rx_queue_len[c] - 1] \in [Ctx -> Nat]
      BY <3>1, Update
    <3> QED
      BY <2>3, <3>2, Zenon
  <2>9. pc' \in [Ctx -> Locations]
    BY <2>4, GotoType
  <2> QED
    BY <1>18, <2>6, <2>7, <2>8, <2>9 DEF Deliver
<1>19. ASSUME NEW c \in Ctx, Drained(c) PROVE TypeOK'
  BY <1>19 DEF Drained
<1>20. CASE UNCHANGED vars
  BY <1>20 DEF vars
<1> QED
  BY <1>1, <1>2, <1>3, <1>4, <1>5, <1>6, <1>7, <1>8, <1>9, <1>10, <1>11,
     <1>12, <1>13, <1>14, <1>15, <1>16, <1>17, <1>18, <1>19, <1>20, <1>21
  DEF Next, Thread, Isr, RecvHandler, Ctx

\* Every step keeps the fetched sets non-empty.
LEMMA LocalStep == TypeOK /\ LocalInv /\ [Next]_vars => LocalInv'
<1> SUFFICES ASSUME TypeOK, LocalInv, [Next]_vars PROVE LocalInv'
  OBVIOUS
<1> USE DEF TypeOK, LocalInv, Locations, Goto, At, bdVars, bufVars, hwVars,
     localVars, histVars
<1>1. CASE DmaReceive
  BY <1>1 DEF DmaReceive
<1>2. ASSUME NEW e \in AllErrors, DmaDrop(e) PROVE LocalInv'
  BY <1>2 DEF DmaDrop, ErrorInterrupt
<1>3. CASE StackFree
  BY <1>3 DEF StackFree
<1>4. CASE SemTake
  BY <1>4 DEF SemTake
<1>5. CASE SemEmpty
  BY <1>5 DEF SemEmpty
<1>6. CASE EnableRxIrq
  BY <1>6 DEF EnableRxIrq
<1>7. CASE FXmacIntrHandler
  BY <1>7 DEF FXmacIntrHandler, SemGive
<1>8. CASE FXmacErrorHandler
  BY <1>8 DEF FXmacErrorHandler
<1>9. CASE FXmacHandleDmaTxError
  BY <1>9 DEF FXmacHandleDmaTxError
<1>10. ASSUME NEW c \in Ctx, ClearRxStatus(c) PROVE LocalInv'
  BY <1>10 DEF ClearRxStatus
<1>21. ASSUME NEW c \in Ctx, CallFromHwRx(c) PROVE LocalInv'
  BY <1>21 DEF CallFromHwRx
<1>11. ASSUME NEW c \in Ctx, FetchBds(c) PROVE LocalInv'
  BY <1>11 DEF FetchBds
<1>12. ASSUME NEW c \in Ctx, ProcessBd(c) PROVE LocalInv'
  BY <1>12 DEF ProcessBd
<1>13. ASSUME NEW c \in Ctx, FreeBds(c) PROVE LocalInv'
  BY <1>13 DEF FreeBds
<1>14. ASSUME NEW c \in Ctx, SetupDone(c) PROVE LocalInv'
  BY <1>14 DEF SetupDone, SetupReturn
<1>15. ASSUME NEW c \in Ctx, SetupBd(c) PROVE LocalInv'
  BY <1>15 DEF SetupBd, SetupReturn
<1>16. ASSUME NEW c \in Ctx, ClearBd(c) PROVE LocalInv'
  BY <1>16 DEF ClearBd
<1>17. ASSUME NEW c \in Ctx, SetBuffer(c) PROVE LocalInv'
  BY <1>17 DEF SetBuffer
<1>18. ASSUME NEW c \in Ctx, Deliver(c) PROVE LocalInv'
  BY <1>18 DEF Deliver
<1>19. ASSUME NEW c \in Ctx, Drained(c) PROVE LocalInv'
  BY <1>19 DEF Drained
<1>20. CASE UNCHANGED vars
  BY <1>20 DEF vars
<1> QED
  BY <1>1, <1>2, <1>3, <1>4, <1>5, <1>6, <1>7, <1>8, <1>9, <1>10, <1>11,
     <1>12, <1>13, <1>14, <1>15, <1>16, <1>17, <1>18, <1>19, <1>20, <1>21
  DEF Next, Thread, Isr, RecvHandler, Ctx

\* Every step keeps the receive interrupt enabled, or the thread on its
\* way to enable it.
LEMMA WakeStep == TypeOK /\ WakeInv /\ [Next]_vars => WakeInv'
<1> SUFFICES ASSUME TypeOK, WakeInv, [Next]_vars PROVE WakeInv'
  OBVIOUS
<1> USE DEF TypeOK, WakeInv, Ctx, Interrupts, Goto, At, bdVars, bufVars,
     hwVars, localVars, histVars
<1>1. CASE DmaReceive
  BY <1>1 DEF DmaReceive
<1>2. ASSUME NEW e \in AllErrors, DmaDrop(e) PROVE WakeInv'
  BY <1>2 DEF DmaDrop, ErrorInterrupt
<1>3. CASE StackFree
  BY <1>3 DEF StackFree
<1>4. CASE SemTake
  BY <1>4 DEF SemTake
<1>5. CASE SemEmpty
  BY <1>5 DEF SemEmpty
<1>6. CASE EnableRxIrq
  BY <1>6 DEF EnableRxIrq
<1>7. CASE FXmacIntrHandler
  BY <1>7, RxAssumption DEF FXmacIntrHandler, SemGive
<1>8. CASE FXmacErrorHandler
  BY <1>8 DEF FXmacErrorHandler
<1>9. CASE FXmacHandleDmaTxError
  BY <1>9 DEF FXmacHandleDmaTxError
<1>10. ASSUME NEW c \in Ctx, ClearRxStatus(c) PROVE WakeInv'
  BY <1>10 DEF ClearRxStatus
<1>21. ASSUME NEW c \in Ctx, CallFromHwRx(c) PROVE WakeInv'
  BY <1>21 DEF CallFromHwRx
<1>11. ASSUME NEW c \in Ctx, FetchBds(c) PROVE WakeInv'
  BY <1>11 DEF FetchBds
<1>12. ASSUME NEW c \in Ctx, ProcessBd(c) PROVE WakeInv'
  BY <1>12 DEF ProcessBd
<1>13. ASSUME NEW c \in Ctx, FreeBds(c) PROVE WakeInv'
  BY <1>13 DEF FreeBds
<1>14. ASSUME NEW c \in Ctx, SetupDone(c) PROVE WakeInv'
  BY <1>14 DEF SetupDone, SetupReturn
<1>15. ASSUME NEW c \in Ctx, SetupBd(c) PROVE WakeInv'
  BY <1>15 DEF SetupBd, SetupReturn
<1>16. ASSUME NEW c \in Ctx, ClearBd(c) PROVE WakeInv'
  BY <1>16 DEF ClearBd
<1>17. ASSUME NEW c \in Ctx, SetBuffer(c) PROVE WakeInv'
  BY <1>17 DEF SetBuffer
<1>18. ASSUME NEW c \in Ctx, Deliver(c) PROVE WakeInv'
  BY <1>18 DEF Deliver
<1>19. ASSUME NEW c \in Ctx, Drained(c) PROVE WakeInv'
  BY <1>19 DEF Drained
<1>20. CASE UNCHANGED vars
  BY <1>20 DEF vars
<1> QED
  BY <1>1, <1>2, <1>3, <1>4, <1>5, <1>6, <1>7, <1>8, <1>9, <1>10, <1>11,
     <1>12, <1>13, <1>14, <1>15, <1>16, <1>17, <1>18, <1>19, <1>20, <1>21
  DEF Next, Thread, Isr, RecvHandler, Ctx

\* Until the contexts are nested, the interrupt stays out of the way of the
\* thread.
LEMMA AloneStep ==
  TypeOK /\ Alone /\ "nested" \notin trouble' /\ [Next]_vars => Alone'
<1> SUFFICES ASSUME TypeOK, Alone, "nested" \notin trouble', [Next]_vars
             PROVE  Alone'
  OBVIOUS
<1> USE DEF TypeOK, Alone, Active, Ctx, Nested, ThreadInside, Goto, At,
     bdVars, bufVars, hwVars, localVars, histVars
<1>1. CASE DmaReceive
  BY <1>1 DEF DmaReceive
<1>2. ASSUME NEW e \in AllErrors, DmaDrop(e) PROVE Alone'
  BY <1>2 DEF DmaDrop, ErrorInterrupt
<1>3. CASE StackFree
  BY <1>3 DEF StackFree
<1>4. CASE SemTake
  BY <1>4 DEF SemTake
<1>5. CASE SemEmpty
  BY <1>5 DEF SemEmpty
<1>6. CASE EnableRxIrq
  BY <1>6 DEF EnableRxIrq
<1>7. CASE FXmacIntrHandler
  BY <1>7 DEF FXmacIntrHandler, SemGive
<1>8. CASE FXmacErrorHandler
  BY <1>8 DEF FXmacErrorHandler
<1>9. CASE FXmacHandleDmaTxError
  BY <1>9 DEF FXmacHandleDmaTxError
<1>10. ASSUME NEW c \in Ctx, ClearRxStatus(c) PROVE Alone'
  BY <1>10 DEF ClearRxStatus
<1>21. ASSUME NEW c \in Ctx, CallFromHwRx(c) PROVE Alone'
  BY <1>21 DEF CallFromHwRx
<1>11. ASSUME NEW c \in Ctx, FetchBds(c) PROVE Alone'
  BY <1>11 DEF FetchBds
<1>12. ASSUME NEW c \in Ctx, ProcessBd(c) PROVE Alone'
  BY <1>12 DEF ProcessBd
<1>13. ASSUME NEW c \in Ctx, FreeBds(c) PROVE Alone'
  BY <1>13 DEF FreeBds
<1>14. ASSUME NEW c \in Ctx, SetupDone(c) PROVE Alone'
  BY <1>14 DEF SetupDone, SetupReturn
<1>15. ASSUME NEW c \in Ctx, SetupBd(c) PROVE Alone'
  BY <1>15 DEF SetupBd, SetupReturn
<1>16. ASSUME NEW c \in Ctx, ClearBd(c) PROVE Alone'
  BY <1>16 DEF ClearBd
<1>17. ASSUME NEW c \in Ctx, SetBuffer(c) PROVE Alone'
  BY <1>17 DEF SetBuffer
<1>18. ASSUME NEW c \in Ctx, Deliver(c) PROVE Alone'
  BY <1>18 DEF Deliver
<1>19. ASSUME NEW c \in Ctx, Drained(c) PROVE Alone'
  BY <1>19 DEF Drained
<1>20. CASE UNCHANGED vars
  BY <1>20 DEF vars
<1> QED
  BY <1>1, <1>2, <1>3, <1>4, <1>5, <1>6, <1>7, <1>8, <1>9, <1>10, <1>11,
     <1>12, <1>13, <1>14, <1>15, <1>16, <1>17, <1>18, <1>19, <1>20, <1>21
  DEF Next, Thread, Isr, RecvHandler, Ctx


-----------------------------------------------------------------------------
(* The ring in order *)

\* Whoever executes FXmacRecvHandler is alone there.
LEMMA RunsSolo ==
  ASSUME TypeOK, Alone, NEW c \in Ctx, NEW l, At(c, l),
         l \notin {"idle", "err"}
  PROVE  Solo(c)
BY DEF TypeOK, Alone, At, Solo, Ctx, Active

\* Outside of FXmacRecvHandler it does not matter whose view is taken.
LEMMA SwitchShape ==
  ASSUME TypeOK, NEW c \in Ctx, NEW d \in Ctx, Solo(c), Solo(d), Shape(d)
  PROVE  Shape(c)
<1>1. CASE c = d
  BY <1>1
<1>2. CASE c # d
  <2>1. pc[c] \notin Active /\ pc[d] \notin Active
    BY <1>2 DEF Solo
  <2>2. ASSUME NEW p \in 0 .. N, Good(p, d) PROVE Good(p, c)
    <3>1. RingPart(c)
      BY <2>1, <2>2 DEF Good, Core, RingPart, Active
    <3>2. FirstHeld(c) = FirstHeld(d) /\ CountHeld(c) = CountHeld(d)
      BY <2>1 DEF FirstHeld, CountHeld, Active
    <3>3. StoragePart(c)
      BY <2>2, <3>2 DEF Good, Core, StoragePart
    <3>4. Usable(c) = Usable(d) /\ ToProcess(c) = ToProcess(d)
      BY <2>1 DEF Usable, ToProcess, Active
    <3>5. NewPart(p, c)
      BY <2>1, <2>2, <3>4 DEF Good, Core, NewPart, Active
    <3>6. OrderPart(p, c)
      BY <2>1, <2>2, <3>4 DEF Good, Core, OrderPart, Active
    <3> QED
      BY <2>2, <3>1, <3>3, <3>5, <3>6 DEF Good, Core
  <2>3. ASSUME Wrecked(d) PROVE Wrecked(c)
    BY <2>1, <2>3 DEF Wrecked, Active
  <2> QED
    BY <2>2, <2>3 DEF Shape
<1> QED
  BY <1>1, <1>2

\* What the groups are like in an orderly state.
LEMMA RingFacts ==
  ASSUME TypeOK, NEW c \in Ctx, RingPart(c)
  PROVE  /\ ring \in Ring /\ RingConsistent(ring) /\ ring.pre_cnt = 0
         /\ ring.free_cnt \in 0 .. N /\ ring.hw_cnt \in 0 .. N
         /\ ring.post_cnt \in 0 .. N
         /\ ring.free_cnt + ring.hw_cnt + ring.post_cnt = N
         /\ ring.hw_head \in BD /\ ring.post_head \in BD
         /\ ring.pre_head \in BD /\ ring.free_head = ring.pre_head
         /\ ring.pre_head = SeekAhead(ring.hw_head, ring.hw_cnt)
         /\ ring.hw_head = SeekAhead(ring.post_head, ring.post_cnt)
         /\ Usable(c) \in 0 .. ring.hw_cnt
<1>1. ring \in Ring /\ RingConsistent(ring) /\ ring.pre_cnt = 0
  BY DEF TypeOK, RingPart
<1>2. /\ ring.free_cnt \in 0 .. N /\ ring.hw_cnt \in 0 .. N
      /\ ring.post_cnt \in 0 .. N
  BY <1>1, CountersBounded
<1>3. /\ ring.hw_head \in BD /\ ring.post_head \in BD
      /\ ring.pre_head \in BD
  BY <1>1 DEF Ring
<1>4. ring.free_head = ring.pre_head
  BY <1>1, <1>3, SeekZero DEF RingConsistent
<1>5. Usable(c) \in 0 .. ring.hw_cnt
  BY <1>2, RingAssumption DEF Usable, RingPart
<1> QED
  BY <1>1, <1>2, <1>3, <1>4, <1>5, RingAssumption DEF RingConsistent

\* A step that leaves the ring, the queue and the frames alone.
LEMMA CoreStays ==
  ASSUME NEW c \in Ctx, NEW p \in 0 .. N, Core(p, c),
         UNCHANGED <<ring, new, storage, frame, recv_q, hwptr, rcvd, delivered,
                     rxbdset, bd_processed, k, freebds, rx_queue_len, trouble>>,
         \/ pc'[c] = pc[c]
         \/ pc[c] \notin Active /\ pc'[c] \notin Active
  PROVE  Core(p, c)'
<1>1. RingPart(c)'
  BY DEF Core, RingPart, Active
<1>2. FirstHeld(c)' = FirstHeld(c) /\ CountHeld(c)' = CountHeld(c)
  BY DEF FirstHeld, CountHeld, Active
<1>3. StoragePart(c)'
  BY <1>2 DEF Core, StoragePart, Holds
<1>4. Usable(c)' = Usable(c) /\ ToProcess(c)' = ToProcess(c)
  BY DEF Usable, ToProcess, Active
<1>5. NewPart(p, c)'
  BY <1>4 DEF Core, NewPart, Deaf, Active
<1>6. OrderPart(p, c)'
  BY <1>4 DEF Core, OrderPart, Active
<1> QED
  BY <1>1, <1>3, <1>5, <1>6 DEF Core

\* The DMA fills the next BD: there is one left in the hw group.
LEMMA ReceiveGood ==
  ASSUME TypeOK, NEW c \in Ctx, NEW p \in 0 .. N, Good(p, c), DmaReceive
  PROVE  p + 1 \in 0 .. N /\ Good(p + 1, c)'
<1> DEFINE h == ring.hw_head
           u == Usable(c)
<1>1. Core(p, c) /\ RingPart(c) /\ NewPart(p, c) /\ OrderPart(p, c)
  BY DEF Good, Core
<1>2. /\ h \in BD /\ u \in 0 .. N /\ ring.hw_cnt \in 0 .. N /\ u <= ring.hw_cnt
      /\ ring.post_head \in BD /\ ring.post_cnt \in 0 .. N
      /\ ring.hw_cnt + ring.post_cnt <= N
      /\ h = SeekAhead(ring.post_head, ring.post_cnt)
  BY <1>1, RingFacts, RingAssumption
<1>3. /\ ~new[hwptr] /\ hwptr # NullBd /\ rcvd' = rcvd + 1
      /\ hwptr' = SeekAhead(hwptr, 1)
      /\ new' = [new EXCEPT ![hwptr] = TRUE]
      /\ frame' = [frame EXCEPT ![hwptr] = rcvd + 1]
      /\ UNCHANGED <<ring, storage, recv_q, delivered, rxbdset, bd_processed,
                     k, freebds, rx_queue_len, pc, trouble>>
  BY DEF DmaReceive, bufVars, localVars
<1>4. /\ hwptr = SeekAhead(h, p)
      /\ \A i \in BD : ~InGroup(i, h, u) => new[i]
      /\ \/ "starved" \in trouble \/ pc[c] \in {"setup", "rearm", "setbuf"}
         \/ ring.free_cnt = 0
  BY <1>1, <1>3 DEF NewPart, Deaf
<1>5. /\ p <= u /\ p \in 0 .. N
      /\ \A j \in 0 .. u - 1 : new[SeekAhead(h, j)] <=> j < p
  BY <1>1 DEF NewPart
<1>6. hwptr \in BD
  BY <1>2, <1>4, SeekAheadType
<1> HIDE DEF h, u
<1>7. p < u
  <2> SUFFICES ASSUME p = u PROVE FALSE
    BY <1>2, <1>5
  <2>1. CASE u = N
    <3>1. hwptr = SeekAhead(h, 0)
      BY <1>2, <1>4, <2>1, SeekZero
    <3>2. 0 \in 0 .. u - 1 /\ 0 < p
      BY <2>1, RingAssumption
    <3> QED
      BY <1>3, <1>5, <3>1, <3>2
  <2>2. CASE u # N
    <3>1. u \in 0 .. N - 1
      BY <1>2, <2>2, RingAssumption
    <3>2. ~InGroup(hwptr, h, u)
      BY <1>2, <1>4, <3>1, GroupEnd
    <3> QED
      BY <1>3, <1>4, <1>6, <3>2
  <2> QED
    BY <2>1, <2>2
<1>8. p + 1 \in 0 .. N /\ p + 1 <= u /\ p \in 0 .. N - 1
  BY <1>2, <1>5, <1>7, RingAssumption
<1>9. \A i \in BD : new'[i] <=> new[i] \/ i = hwptr
  BY <1>3, <1>6, BitSet DEF TypeOK, BitsOK
<1>10. \A i \in BD : frame'[i] = IF i = hwptr THEN rcvd + 1 ELSE frame[i]
  BY <1>3, <1>6 DEF TypeOK
<1>11. \A j \in 0 .. N - 1 : SeekAhead(h, j) \in BD
                             /\ (SeekAhead(h, j) = hwptr <=> j = p)
  <2> SUFFICES ASSUME NEW j \in 0 .. N - 1
               PROVE  /\ SeekAhead(h, j) \in BD
                      /\ SeekAhead(h, j) = hwptr <=> j = p
    OBVIOUS
  <2>1. j \in 0 .. N
    BY RingAssumption
  <2>2. SeekAhead(h, j) \in BD
    BY <1>2, <2>1, SeekAheadType
  <2>3. SeekAhead(h, j) = hwptr <=> j = p
    BY <1>2, <1>4, <1>8, SeekInjective
  <2> QED
    BY <2>2, <2>3
<1>12. Usable(c)' = u /\ ToProcess(c)' = ToProcess(c) /\ ring'.hw_head = h
  BY <1>3 DEF Usable, ToProcess, u, h
<1>13. RingPart(c)'
  BY <1>1, <1>3 DEF RingPart
<1>14. StoragePart(c)'
  BY <1>1, <1>3 DEF Core, StoragePart, FirstHeld, CountHeld, Holds
<1>15. NewPart(p + 1, c)'
  <2>1. \A j \in 0 .. u - 1 : new'[SeekAhead(h, j)] <=> j < p + 1
    <3> SUFFICES ASSUME NEW j \in 0 .. u - 1
                 PROVE  new'[SeekAhead(h, j)] <=> j < p + 1
      OBVIOUS
    <3>1. j \in 0 .. N - 1
      BY <1>2, RingAssumption
    <3>2. new'[SeekAhead(h, j)] <=> new[SeekAhead(h, j)] \/ j = p
      BY <1>9, <1>11, <3>1
    <3> QED
      BY <1>5, <3>1, <3>2
  <2>2. hwptr' = SeekAhead(h, p + 1)
    BY <1>2, <1>3, <1>4, <1>8, SeekAheadAdd
  <2>3. \A i \in BD : ~InGroup(i, h, u) => new'[i]
    BY <1>4, <1>9
  <2> QED
    BY <1>3, <1>4, <1>8, <1>12, <2>1, <2>2, <2>3 DEF NewPart
<1>16. OrderPart(p + 1, c)'
  <2>1. rcvd \in Nat /\ rcvd' - (p + 1) = rcvd - p
    BY <1>3, <1>5 DEF TypeOK
  <2>3. ASSUME pc[c] = "proc", NEW j \in k[c] .. bd_processed[c] - 1
        PROVE  frame'[SeekAhead(rxbdset[c], j)] =
                 rcvd - p - bd_processed[c] + 1 + j
    <3>1. rxbdset[c] = ring.post_head /\ bd_processed[c] = ring.post_cnt
      BY <1>1, <2>3 DEF RingPart
    <3>2. k[c] \in 0 .. N
      BY DEF TypeOK
    <3>3. /\ j \in 0 .. N - 1 /\ j < ring.post_cnt
          /\ ring.post_cnt + p \in 0 .. N - 1
      BY <1>2, <1>5, <1>7, <2>3, <3>1, <3>2, RingAssumption
    <3>4. hwptr = SeekAhead(ring.post_head, ring.post_cnt + p)
      <4>1. p \in Nat /\ ring.post_cnt \in Nat /\ ring.post_cnt + p <= N
        BY <1>2, <1>5, <3>3, RingAssumption
      <4> QED
        BY <1>2, <1>4, <4>1, SeekAheadAdd
    <3>5. SeekAhead(ring.post_head, j) # hwptr
      BY <1>2, <3>3, <3>4, SeekInjective
    <3>6. SeekAhead(ring.post_head, j) \in BD
      <4>1. j \in 0 .. N
        BY <3>3, RingAssumption
      <4> QED
        BY <1>2, <4>1, SeekAheadType
    <3> QED
      BY <1>1, <1>10, <2>3, <3>1, <3>5, <3>6 DEF OrderPart
  <2>4. ASSUME NEW j \in 0 .. p
        PROVE  frame'[SeekAhead(h, j)] = rcvd - p + 1 + j
    <3>1. j \in 0 .. N - 1
      BY <1>8, RingAssumption
    <3>2. CASE j = p
      BY <1>6, <1>8, <1>10, <1>4, <2>1, <3>2
    <3>3. CASE j # p
      <4>1. j \in 0 .. p - 1 /\ frame'[SeekAhead(h, j)] = frame[SeekAhead(h, j)]
        BY <1>8, <1>10, <1>11, <3>1, <3>3
      <4> QED
        BY <1>1, <4>1 DEF OrderPart, h
    <3> QED
      BY <3>2, <3>3
  <2>5. 0 .. (p + 1) - 1 = 0 .. p
    BY <1>8
  <2>6. rcvd' - (p + 1) - ToProcess(c)' = rcvd - p - ToProcess(c)
    BY <1>12, <2>1
  <2>7. Queued(delivered', recv_q', rcvd' - (p + 1) - ToProcess(c)')
    BY <1>1, <1>3, <2>6 DEF OrderPart
  <2>8. pc'[c] = "proc" =>
          \A j \in k'[c] .. bd_processed'[c] - 1 :
            frame'[SeekAhead(rxbdset'[c], j)] =
              rcvd' - (p + 1) - bd_processed'[c] + 1 + j
    BY <1>3, <2>1, <2>3
  <2>9. \A j \in 0 .. (p + 1) - 1 :
          frame'[SeekAhead(h, j)] = rcvd' - (p + 1) + 1 + j
    BY <2>1, <2>4, <2>5
  <2> QED
    BY <1>12, <2>7, <2>8, <2>9 DEF OrderPart
<1>17. WakePart(p + 1)'
  BY DEF DmaReceive, WakePart
<1> QED
  BY <1>8, <1>13, <1>14, <1>15, <1>16, <1>17 DEF Good, Core

\* FXmacBdRingFromHwRx returns the filled BDs; or, when SetupRxBds has left
\* free BDs (whose NEW bits are still set) and all of the hw group is
\* filled, the whole ring.
LEMMA FetchCount ==
  ASSUME TypeOK, NEW c \in Ctx, NEW p \in 0 .. N, Good(p, c),
         pc[c] = "walk", NEW n \in 0 .. N, FromHwRxCount(ring, new, N, n)
  PROVE  \/ n = p
         \/ /\ n = N /\ p = ring.hw_cnt /\ ring.hw_cnt \in 1 .. N - 1
            /\ "starved" \in trouble /\ \A i \in BD : new[i]
<1> DEFINE h == ring.hw_head
<1>1. RingPart(c) /\ NewPart(p, c)
  BY DEF Good, Core
<1>2. /\ h \in BD /\ ring.hw_cnt \in 0 .. N /\ ring.free_cnt \in 0 .. N
      /\ ring.free_cnt + ring.hw_cnt + ring.post_cnt = N
  BY <1>1, RingFacts
<1>3. Usable(c) = ring.hw_cnt /\ ring.post_cnt = 0
  BY <1>1 DEF Usable, RingPart
<1>4. /\ p <= ring.hw_cnt
      /\ \A j \in 0 .. ring.hw_cnt - 1 : new[SeekAhead(h, j)] <=> j < p
  BY <1>1, <1>3 DEF NewPart
<1>5. CASE ring.hw_cnt = 0
  BY <1>4, <1>5 DEF FromHwRxCount
<1>6. CASE ring.hw_cnt # 0
  <2>1. /\ \A j \in 0 .. n - 1 : new[SeekAhead(h, j)]
        /\ n = N \/ ~new[SeekAhead(h, n)]
    BY <1>6 DEF FromHwRxCount
  <2> HIDE DEF h
  <2>2. ~(n < p)
    <3> SUFFICES ASSUME n < p PROVE FALSE
      OBVIOUS
    <3>1. n \in 0 .. ring.hw_cnt - 1 /\ n # N
      BY <1>2, <1>4, RingAssumption
    <3> QED
      BY <1>4, <2>1, <3>1
  <2>3. ASSUME n > p
        PROVE  /\ n = N /\ p = ring.hw_cnt /\ ring.hw_cnt \in 1 .. N - 1
               /\ "starved" \in trouble /\ \A i \in BD : new[i]
    <3>1. p = ring.hw_cnt
      <4> SUFFICES ASSUME p < ring.hw_cnt PROVE FALSE
        BY <1>2, <1>4
      <4>1. p \in 0 .. ring.hw_cnt - 1 /\ p \in 0 .. n - 1
        BY <1>2, <2>3
      <4> QED
        BY <1>4, <2>1, <4>1
    <3>2. ring.hw_cnt \in 1 .. N - 1 /\ ring.free_cnt # 0
      BY <1>2, <1>3, <1>6, <2>3, <3>1, RingAssumption
    <3>3. new[SeekAhead(h, 0)] /\ SeekAhead(h, 0) \in BD
      BY <1>2, <2>1, <2>3, <3>1, <3>2, SeekZero
    <3>4. /\ \A i \in BD : ~InGroup(i, h, ring.hw_cnt) => new[i]
          /\ "starved" \in trouble
      BY <1>1, <1>3, <3>2, <3>3 DEF NewPart, Deaf, h
    <3>5. ASSUME NEW i \in BD PROVE new[i]
      <4>1. CASE InGroup(i, h, ring.hw_cnt)
        <5>1. PICK j \in 0 .. ring.hw_cnt - 1 : i = SeekAhead(h, j)
          BY <1>2, <4>1, GroupIndex
        <5> QED
          BY <1>4, <3>1, <5>1
      <4>2. CASE ~InGroup(i, h, ring.hw_cnt)
        BY <3>4, <4>2
      <4> QED
        BY <4>1, <4>2
    <3>6. n = N
      BY <1>2, <2>1, <3>5, SeekAheadType
    <3> QED
      BY <3>1, <3>2, <3>4, <3>5, <3>6
  <2> QED
    BY <2>2, <2>3
<1> QED
  BY <1>5, <1>6

\* The fetched BDs move to the post group, and the DMA goes on behind them.
LEMMA FetchGood ==
  ASSUME TypeOK, NEW c \in Ctx, NEW p \in 0 .. N, Good(p, c), FetchBds(c)
  PROVE  pc'[c] # "fault" /\ Shape(c)'
<1> DEFINE h == ring.hw_head
<1>1. /\ Core(p, c) /\ RingPart(c) /\ StoragePart(c) /\ NewPart(p, c)
      /\ OrderPart(p, c) /\ pc[c] = "walk"
  BY DEF Good, Core, FetchBds, At
<1>2. /\ h \in BD /\ ring.hw_cnt \in 0 .. N /\ ring.free_cnt \in 0 .. N
      /\ ring.free_cnt + ring.hw_cnt = N /\ ring.post_cnt = 0
      /\ ring.post_head \in BD /\ ring.post_head = h
      /\ ring \in Ring /\ RingConsistent(ring) /\ ring.pre_cnt = 0
  BY <1>1, RingFacts, SeekZero DEF RingPart
<1>3. PICK n \in 0 .. N :
        /\ FromHwRxCount(ring, new, N, n)
        /\ bd_processed' = [bd_processed EXCEPT ![c] = n]
        /\ IF n = 0
             THEN /\ Goto(c, IF c = "isr" THEN "setup" ELSE "semtry")
                  /\ freebds' = [freebds EXCEPT
                                   ![c] = IF c = "isr" THEN ring.free_cnt
                                                       ELSE 0]
                  /\ UNCHANGED <<ring, rxbdset, k>>
             ELSE /\ ring' = TakeFromHw(ring, n)
                  /\ rxbdset' = [rxbdset EXCEPT ![c] = h]
                  /\ k' = [k EXCEPT ![c] = 0]
                  /\ Goto(c, "proc")
                  /\ UNCHANGED freebds
  BY DEF FetchBds
<1>4. UNCHANGED <<new, storage, frame, recv_q, hwptr, isr, sem, rcvd, delivered,
                  trouble>>
  BY DEF FetchBds, bufVars, hwVars, histVars
<1>5. Usable(c) = ring.hw_cnt /\ ToProcess(c) = 0
      /\ FirstHeld(c) = h /\ CountHeld(c) = ring.hw_cnt
  BY <1>1 DEF Usable, ToProcess, FirstHeld, CountHeld
<1>6. \/ n = p
      \/ /\ n = N /\ p = ring.hw_cnt /\ ring.hw_cnt \in 1 .. N - 1
         /\ "starved" \in trouble /\ \A i \in BD : new[i]
  BY <1>1, <1>3, FetchCount
<1>7. /\ bd_processed'[c] = n
      /\ n = 0 => pc'[c] \in {"setup", "semtry"}
                  /\ (pc'[c] = "setup" => freebds'[c] = ring.free_cnt)
      /\ n # 0 => pc'[c] = "proc" /\ rxbdset'[c] = h /\ k'[c] = 0
  BY <1>3 DEF TypeOK, Goto
<1> HIDE DEF h
<1>8. CASE n = 0
  <2>1. p = 0 /\ ring' = ring
    BY <1>3, <1>6, <1>8, RingAssumption
  <2>2. RingPart(c)'
    BY <1>1, <1>2, <1>7, <1>8, <2>1 DEF RingPart
  <2>3. StoragePart(c)'
    BY <1>1, <1>4, <1>5, <1>7, <1>8, <2>1
    DEF StoragePart, Holds, FirstHeld, CountHeld, h
  <2>4. Usable(c)' = ring.hw_cnt /\ ToProcess(c)' = 0
    BY <1>7, <1>8, <2>1 DEF Usable, ToProcess
  <2>5. NewPart(p, c)'
    BY <1>1, <1>4, <1>5, <1>7, <1>8, <2>1, <2>4 DEF NewPart, Deaf
  <2>6. OrderPart(p, c)'
    BY <1>1, <1>4, <1>5, <1>7, <1>8, <2>1, <2>4 DEF OrderPart
  <2>7. WakePart(p)'
    BY <2>1 DEF WakePart
  <2> QED
    BY <1>7, <1>8, <2>2, <2>3, <2>5, <2>6, <2>7 DEF Good, Core, Shape
<1>9. CASE n # 0 /\ n = p
  <2>1. p \in Nat /\ p <= ring.hw_cnt /\ ring' = TakeFromHw(ring, p)
    BY <1>1, <1>3, <1>5, <1>9 DEF NewPart
  <2>2. /\ ring' \in Ring /\ RingConsistent(ring')
        /\ ring' = [ring EXCEPT !.hw_cnt = ring.hw_cnt - p,
                                !.post_cnt = ring.post_cnt + p,
                                !.hw_head = SeekAhead(h, p)]
    BY <1>2, <2>1, TakeFromHwRing DEF h
  <2>3. /\ ring'.hw_cnt = ring.hw_cnt - p /\ ring'.post_cnt = p
        /\ ring'.hw_head = SeekAhead(h, p) /\ ring'.post_head = h
        /\ ring'.pre_cnt = 0 /\ ring'.free_cnt = ring.free_cnt
    BY <1>2, <2>1, <2>2 DEF Ring
  <2>4. RingPart(c)'
    BY <1>7, <1>9, <2>2, <2>3 DEF RingPart
  <2>5. FirstHeld(c)' = h /\ CountHeld(c)' = ring.hw_cnt
    BY <1>2, <1>7, <1>9, <2>1, <2>3, SeekZero DEF FirstHeld, CountHeld
  <2>6. StoragePart(c)'
    BY <1>1, <1>4, <1>5, <2>5 DEF StoragePart, Holds
  <2>7. Usable(c)' = ring.hw_cnt - p /\ ToProcess(c)' = p
    BY <1>7, <1>9, <2>1, <2>3 DEF Usable, ToProcess
  <2>8. \A j \in 0 .. ring.hw_cnt - 1 : new[SeekAhead(h, j)] <=> j < p
    BY <1>1, <1>5 DEF NewPart, h
  <2>9. NewPart(0, c)'
    <3>1. \A j \in 0 .. ring.hw_cnt - p - 1 :
            ~new[SeekAhead(SeekAhead(h, p), j)]
      <4> SUFFICES ASSUME NEW j \in 0 .. ring.hw_cnt - p - 1
                   PROVE  ~new[SeekAhead(SeekAhead(h, p), j)]
        OBVIOUS
      <4>1. /\ j \in Nat /\ p + j <= N /\ p + j \in 0 .. ring.hw_cnt - 1
            /\ ~(p + j < p)
        BY <1>2, <2>1, RingAssumption
      <4>2. SeekAhead(SeekAhead(h, p), j) = SeekAhead(h, p + j)
        BY <1>2, <2>1, <4>1, SeekAheadAdd
      <4> QED
        BY <2>8, <4>1, <4>2
    <3>2. ~Deaf
      <4>1. 0 \in 0 .. ring.hw_cnt - 1 /\ 0 < p
        BY <1>2, <1>9, <2>1
      <4>2. new[SeekAhead(h, 0)] /\ SeekAhead(h, 0) \in BD
        BY <1>2, <2>8, <4>1, SeekZero
      <4> QED
        BY <4>2 DEF Deaf
    <3>3. /\ hwptr = SeekAhead(h, p)
          /\ \A i \in BD : ~InGroup(i, h, ring.hw_cnt) => new[i]
          /\ "starved" \notin trouble => ring.free_cnt = 0
      BY <1>1, <1>5, <3>2 DEF NewPart, h
    <3>4. hwptr' = SeekAhead(SeekAhead(h, p), 0)
      BY <1>2, <1>4, <3>3, SeekAheadType, SeekZero
    <3>5. ASSUME NEW i \in BD,
                 ~InGroup(i, SeekAhead(h, p), ring.hw_cnt - p)
          PROVE  new'[i]
      <4>1. CASE ~InGroup(i, h, ring.hw_cnt)
        BY <1>4, <3>3, <4>1
      <4>2. CASE InGroup(i, h, ring.hw_cnt)
        <5>1. p \in 0 .. ring.hw_cnt
          BY <2>1
        <5>2. InGroup(i, h, p)
          BY <1>2, <3>5, <4>2, <5>1, GroupSplit
        <5>3. PICK j \in 0 .. p - 1 : i = SeekAhead(h, j)
          BY <1>2, <5>2, GroupIndex
        <5>4. j \in 0 .. ring.hw_cnt - 1 /\ j < p
          BY <1>2, <2>1
        <5> QED
          BY <1>4, <2>8, <5>3, <5>4
      <4> QED
        BY <4>1, <4>2
    <3>6. \A j \in 0 .. ring.hw_cnt - p - 1 :
            new'[SeekAhead(ring'.hw_head, j)] <=> j < 0
      BY <1>4, <2>3, <3>1
    <3>7. /\ hwptr' = SeekAhead(ring'.hw_head, 0)
          /\ \A i \in BD :
               ~InGroup(i, ring'.hw_head, ring.hw_cnt - p) => new'[i]
          /\ "starved" \notin trouble' => ring'.free_cnt = 0
      BY <1>4, <2>3, <3>3, <3>4, <3>5
    <3>8. 0 <= ring.hw_cnt - p
      BY <1>2, <2>1
    <3> QED
      BY <2>7, <3>6, <3>7, <3>8 DEF NewPart
  <2>10. OrderPart(0, c)'
    <3>1. /\ Queued(delivered, recv_q, rcvd - p)
          /\ \A j \in 0 .. p - 1 : frame[SeekAhead(h, j)] = rcvd - p + 1 + j
          /\ rcvd \in Nat
      BY <1>1, <1>5 DEF OrderPart, TypeOK, h
    <3>2. Queued(delivered', recv_q', rcvd' - 0 - ToProcess(c)')
      BY <1>4, <2>1, <2>7, <3>1
    <3>3. \A j \in k'[c] .. bd_processed'[c] - 1 :
            frame'[SeekAhead(rxbdset'[c], j)] =
              rcvd' - 0 - bd_processed'[c] + 1 + j
      BY <1>4, <1>7, <1>9, <2>1, <3>1
    <3> QED
      BY <3>2, <3>3 DEF OrderPart
  <2>11. WakePart(0)'
    BY DEF WakePart
  <2> QED
    BY <1>7, <1>9, <2>4, <2>6, <2>9, <2>10, <2>11, RingAssumption
    DEF Good, Core, Shape
<1>10. CASE n # p
  <2>1. /\ n = N /\ n # 0 /\ p = ring.hw_cnt /\ ring.hw_cnt \in 1 .. N - 1
        /\ "starved" \in trouble /\ \A i \in BD : new[i]
    BY <1>6, <1>10, RingAssumption
  <2>2. delivered' <= rcvd'
    BY <1>1, <1>2, <1>4, <1>5 DEF OrderPart, Queued, TypeOK
  <2>3. ring'.hw_cnt # 0
    <3>1. ring' = TakeFromHw(ring, N)
      BY <1>3, <2>1
    <3>2. ring'.hw_cnt = SubU32(ring.hw_cnt, N)
      BY <1>2, <3>1 DEF TakeFromHw, Ring
    <3> QED
      BY <2>1, <3>2, RingAssumption DEF SubU32
  <2>4. PICK m \in 0 .. N - 1 : m = ring.hw_cnt
    BY <2>1
  <2>5. k'[c] <= m /\ Holds(SeekAhead(rxbdset[c], k[c]), m - k[c])'
    <3>1. /\ SeekAhead(rxbdset'[c], k'[c]) = h /\ m - k'[c] = ring.hw_cnt
          /\ k'[c] <= m
      BY <1>2, <1>7, <2>1, <2>4, SeekZero
    <3> QED
      BY <1>1, <1>4, <1>5, <3>1 DEF StoragePart, Holds
  <2>6. "starved" \in trouble' /\ \A i \in BD : new'[i]
    BY <1>4, <2>1
  <2>7. pc'[c] = "proc" /\ bd_processed'[c] = N
    BY <1>7, <2>1
  <2>8. Wrecked(c)'
    BY <2>2, <2>3, <2>5, <2>6, <2>7 DEF Wrecked, Active
  <2> QED
    BY <2>7, <2>8 DEF Shape
<1> QED
  BY <1>8, <1>9, <1>10

\* Inside FXmacRecvHandler, a filled BD stays announced.
LEMMA WakeStays ==
  ASSUME TypeOK, NEW c \in Ctx, pc[c] \in Active,
         NEW p \in 0 .. N, WakePart(p), UNCHANGED <<isr, sem>>,
         NEW l, pc' = [pc EXCEPT ![c] = l]
  PROVE  WakePart(p)'
BY DEF WakePart, TypeOK, Active, Ctx

\* The next fetched BD has a pbuf, and its frame follows those of the queue.
LEMMA ProcessGood ==
  ASSUME TypeOK, LocalInv, NEW c \in Ctx, NEW p \in 0 .. N, Good(p, c),
         ProcessBd(c)
  PROVE  pc'[c] # "fault" /\ Good(p, c)'
<1> DEFINE i == SeekAhead(rxbdset[c], k[c])
           b == bd_processed[c]
           n == ring.hw_cnt + b - k[c]
<1>1. /\ Core(p, c) /\ RingPart(c) /\ StoragePart(c) /\ NewPart(p, c)
      /\ OrderPart(p, c) /\ WakePart(p) /\ pc[c] = "proc"
  BY DEF Good, Core, ProcessBd, At
<1>2. /\ rxbdset[c] = ring.post_head /\ b = ring.post_cnt
      /\ k[c] \in 0 .. N /\ b \in 0 .. N /\ k[c] < b
  BY <1>1 DEF RingPart, TypeOK, LocalInv
<1>3. /\ rxbdset[c] \in BD /\ ring.hw_cnt \in 0 .. N
      /\ ring.hw_cnt + b <= N /\ ring.hw_head \in BD
      /\ ring.hw_head = SeekAhead(rxbdset[c], b)
  BY <1>1, <1>2, RingFacts, RingAssumption
<1>4. n \in 1 .. N /\ n = ring.hw_cnt + b - k[c]
  BY <1>2, <1>3, RingAssumption
<1>5. i \in BD /\ i = SeekAhead(rxbdset[c], k[c])
  BY <1>2, <1>3, SeekAheadType
<1>6. Holds(i, n)
  BY <1>1 DEF StoragePart, FirstHeld, CountHeld
<1>7. storage[i]
  <2>1. InGroup(SeekAhead(i, 0), i, n) /\ SeekAhead(i, 0) = i
    BY <1>4, <1>5, GroupMember, SeekZero, RingAssumption
  <2> QED
    BY <1>5, <1>6, <2>1 DEF Holds
<1>8. /\ recv_q' = FXmacPqEnqueue(recv_q, frame[i])
      /\ storage' = [storage EXCEPT ![i] = FALSE]
      /\ k' = [k EXCEPT ![c] = k[c] + 1]
      /\ pc' = [pc EXCEPT ![c] = IF k[c] + 1 = b THEN "free" ELSE "proc"]
      /\ UNCHANGED <<ring, new, frame, hwptr, isr, sem, rxbdset, bd_processed,
                     freebds, rx_queue_len, rcvd, delivered, trouble>>
  BY <1>7 DEF ProcessBd, Goto, hwVars, histVars
<1> HIDE DEF i, b, n
<1>9. k'[c] = k[c] + 1
  BY <1>8 DEF TypeOK
<1>10. pc'[c] = IF k[c] + 1 = b THEN "free" ELSE "proc"
  BY <1>8 DEF TypeOK
<1>11. RingPart(c)'
  BY <1>1, <1>2, <1>8, <1>10 DEF RingPart, b
<1>12. StoragePart(c)'
  <2>1. /\ FirstHeld(c)' = SeekAhead(rxbdset[c], k[c] + 1)
        /\ CountHeld(c)' = ring.hw_cnt + b - (k[c] + 1)
    <3>1. CASE k[c] + 1 = b
      BY <1>2, <1>3, <1>8, <1>9, <1>10, <3>1 DEF FirstHeld, CountHeld, b
    <3>2. CASE k[c] + 1 # b
      BY <1>2, <1>3, <1>8, <1>9, <1>10, <3>2 DEF FirstHeld, CountHeld, b
    <3> QED
      BY <3>1, <3>2
  <2>2. SeekAhead(rxbdset[c], k[c] + 1) = SeekAhead(i, 1)
    <3>1. k[c] \in Nat /\ 1 \in Nat /\ k[c] + 1 <= N
      BY <1>2, RingAssumption
    <3> QED
      BY <1>3, <1>5, <3>1, SeekAheadAdd
  <2>3. ring.hw_cnt + b - (k[c] + 1) = n - 1
    BY <1>2, <1>3, <1>4
  <2>4. \A j \in BD : storage'[j] <=> storage[j] /\ j # i
    BY <1>5, <1>8, BitClear DEF TypeOK, BitsOK
  <2>5. \A j \in BD : storage'[j] <=> InGroup(j, SeekAhead(i, 1), n - 1)
    BY <1>4, <1>5, <1>6, <2>4, GroupShrink DEF Holds
  <2> QED
    BY <2>1, <2>2, <2>3, <2>5 DEF StoragePart, Holds
<1>13. NewPart(p, c)'
  <2>1. Usable(c)' = Usable(c)
    BY <1>1, <1>8, <1>10 DEF Usable
  <2> QED
    BY <1>1, <1>8, <1>10, <2>1 DEF NewPart, Deaf
<1>14. OrderPart(p, c)'
  <2> DEFINE m == rcvd - p - (b - k[c])
  <2>1. /\ Queued(delivered, recv_q, m)
        /\ \A j \in k[c] .. b - 1 :
             frame[SeekAhead(rxbdset[c], j)] = rcvd - p - b + 1 + j
        /\ \A j \in 0 .. p - 1 :
             frame[SeekAhead(ring.hw_head, j)] = rcvd - p + 1 + j
    BY <1>1 DEF OrderPart, ToProcess, b
  <2>2. m \in Int /\ rcvd \in Nat /\ p \in 0 .. N
    BY <1>2 DEF TypeOK
  <2>3. frame[i] = m + 1 /\ frame[i] \in Nat
    <3>1. k[c] \in k[c] .. b - 1
      BY <1>2
    <3>2. frame[i] = rcvd - p - b + 1 + k[c]
      BY <1>5, <2>1, <3>1
    <3>3. frame[i] \in Nat
      BY <1>5 DEF TypeOK
    <3>4. rcvd - p - b + 1 + k[c] = m + 1
      BY <1>2, <2>2
    <3> QED
      BY <3>2, <3>3, <3>4
  <2> HIDE DEF m
  <2>4. Queued(delivered, FXmacPqEnqueue(recv_q, m + 1), m + 1)
    BY <2>1, <2>2, <2>3, QueuedEnqueue DEF TypeOK
  <2>5. Queued(delivered', recv_q', m + 1)
    BY <1>8, <2>3, <2>4
  <2>6. rcvd - p - ToProcess(c)' = m + 1
    <3>1. CASE k[c] + 1 = b
      BY <1>2, <1>10, <2>2, <3>1 DEF ToProcess, m
    <3>2. CASE k[c] + 1 # b
      <4>1. ToProcess(c)' = b - (k[c] + 1)
        BY <1>8, <1>9, <1>10, <3>2 DEF ToProcess, b
      <4> QED
        BY <1>2, <2>2, <4>1 DEF m
    <3> QED
      BY <3>1, <3>2
  <2>7. \A j \in k[c] + 1 .. b - 1 : j \in k[c] .. b - 1
    BY <1>2
  <2> QED
    BY <1>8, <1>9, <2>1, <2>5, <2>6, <2>7 DEF OrderPart, b
<1>15. WakePart(p)'
  BY <1>1, <1>8, WakeStays DEF Active
<1> QED
  BY <1>10, <1>11, <1>12, <1>13, <1>14, <1>15 DEF Good, Core

\* The fetched BDs are freed, and SetupRxBds sees them.
LEMMA FreeGood ==
  ASSUME TypeOK, LocalInv, NEW c \in Ctx, NEW p \in 0 .. N, Good(p, c),
         FreeBds(c)
  PROVE  pc'[c] # "fault" /\ Good(p, c)'
<1>1. /\ Core(p, c) /\ RingPart(c) /\ StoragePart(c) /\ NewPart(p, c)
      /\ OrderPart(p, c) /\ WakePart(p) /\ pc[c] = "free"
  BY DEF Good, Core, FreeBds, At
<1>2. /\ rxbdset[c] = ring.post_head /\ bd_processed[c] = ring.post_cnt
      /\ ring \in Ring /\ RingConsistent(ring) /\ ring.pre_cnt = 0
      /\ ring.post_cnt \in Nat \ {0} /\ ring.free_cnt \in 0 .. N
  BY <1>1, RingFacts DEF RingPart, LocalInv
<1>3. FreeOk(ring, bd_processed[c], rxbdset[c])
  BY <1>2 DEF FreeOk
<1>4. /\ ring' = FXmacBdRingFree(ring, ring.post_cnt, ring.post_head)
      /\ freebds' = [freebds EXCEPT ![c] = ring'.free_cnt]
      /\ pc' = [pc EXCEPT ![c] = "setup"]
      /\ UNCHANGED <<new, storage, frame, recv_q, hwptr, isr, sem, rxbdset,
                     bd_processed, k, rx_queue_len, rcvd, delivered, trouble>>
  BY <1>2 DEF FreeBds, Goto, hwVars, bufVars, histVars
<1>5. /\ RingConsistent(ring')
      /\ ring' = [ring EXCEPT !.free_cnt = ring.free_cnt + ring.post_cnt,
                              !.post_cnt = ring.post_cnt - ring.post_cnt,
                              !.post_head =
                                 SeekAhead(ring.post_head, ring.post_cnt)]
  BY <1>2, <1>3, <1>4, FreeRing
<1>6. /\ ring'.post_cnt = 0 /\ ring'.pre_cnt = 0
      /\ ring'.hw_cnt = ring.hw_cnt /\ ring'.hw_head = ring.hw_head
  BY <1>2, <1>5 DEF Ring
<1>7. pc'[c] = "setup" /\ freebds'[c] = ring'.free_cnt
  BY <1>4 DEF TypeOK
<1>8. RingPart(c)'
  BY <1>5, <1>6, <1>7 DEF RingPart
<1>9. FirstHeld(c)' = FirstHeld(c) /\ CountHeld(c)' = CountHeld(c)
  BY <1>1, <1>6, <1>7 DEF FirstHeld, CountHeld
<1>10. StoragePart(c)'
  BY <1>1, <1>4, <1>9 DEF StoragePart, Holds
<1>11. Usable(c)' = Usable(c) /\ ToProcess(c)' = ToProcess(c)
  BY <1>1, <1>6, <1>7 DEF Usable, ToProcess
<1>12. NewPart(p, c)'
  BY <1>1, <1>4, <1>6, <1>7, <1>11 DEF NewPart, Deaf
<1>13. OrderPart(p, c)'
  BY <1>1, <1>4, <1>6, <1>7, <1>11 DEF OrderPart
<1>14. WakePart(p)'
  BY <1>1, <1>4, WakeStays DEF Active
<1> QED
  BY <1>7, <1>8, <1>10, <1>12, <1>13, <1>14 DEF Good, Core

\* SetupRxBds ends: all BDs are armed, or it is noted that some are not.
LEMMA SetupDoneGood ==
  ASSUME TypeOK, NEW c \in Ctx, NEW p \in 0 .. N, Good(p, c), SetupDone(c)
  PROVE  pc'[c] # "fault" /\ Good(p, c)'
<1>1. /\ Core(p, c) /\ RingPart(c) /\ StoragePart(c) /\ NewPart(p, c)
      /\ OrderPart(p, c) /\ WakePart(p) /\ pc[c] = "setup"
  BY DEF Good, Core, SetupDone, At
<1>2. PICK l \in {"err", "drain"} :
        /\ pc' = [pc EXCEPT ![c] = l]
        /\ l = "drain" =>
             rx_queue_len' = [rx_queue_len EXCEPT ![c] = Len(recv_q)]
  BY DEF SetupDone, SetupReturn, Goto
<1>3. /\ trouble' = IF freebds[c] = 0 THEN trouble
                                      ELSE trouble \union {"starved"}
      /\ UNCHANGED <<ring, new, storage, frame, recv_q, hwptr, isr, sem,
                     rxbdset, bd_processed, k, rcvd, delivered>>
  BY DEF SetupDone, bdVars, bufVars, hwVars
<1>4. pc'[c] = l /\ (l = "drain" => rx_queue_len'[c] = Len(recv_q))
  BY <1>2 DEF TypeOK
<1>5. Len(recv_q) \in Nat
  BY DEF TypeOK
<1>6. RingPart(c)'
  BY <1>1, <1>3, <1>4, <1>5 DEF RingPart
<1>7. FirstHeld(c)' = FirstHeld(c) /\ CountHeld(c)' = CountHeld(c)
  BY <1>1, <1>3, <1>4 DEF FirstHeld, CountHeld
<1>8. StoragePart(c)'
  BY <1>1, <1>3, <1>7 DEF StoragePart, Holds
<1>9. Usable(c)' = Usable(c) /\ ToProcess(c)' = ToProcess(c)
  BY <1>1, <1>3, <1>4 DEF Usable, ToProcess
<1>10. "starved" \notin trouble' => ring.free_cnt = 0
  BY <1>1, <1>3 DEF RingPart
<1>11. NewPart(p, c)'
  BY <1>1, <1>3, <1>9, <1>10 DEF NewPart, Deaf
<1>12. OrderPart(p, c)'
  BY <1>1, <1>3, <1>4, <1>9 DEF OrderPart
<1>13. WakePart(p)'
  BY <1>1, <1>2, <1>3, WakeStays DEF Active
<1> QED
  BY <1>4, <1>6, <1>8, <1>11, <1>12, <1>13 DEF Good, Core

\* The ring gives SetupRxBds the BD behind the hw group, and takes it.
LEMMA SetupBdGood ==
  ASSUME TypeOK, NEW c \in Ctx, NEW p \in 0 .. N, Good(p, c), SetupBd(c)
  PROVE  pc'[c] = "rearm" /\ Good(p, c)'
<1> DEFINE bd == ring.free_head
           r1 == FXmacBdRingAlloc(ring, 1)
<1>1. /\ Core(p, c) /\ RingPart(c) /\ StoragePart(c) /\ NewPart(p, c)
      /\ OrderPart(p, c) /\ WakePart(p) /\ pc[c] = "setup"
  BY DEF Good, Core, SetupBd, At
<1>2. /\ ring \in Ring /\ RingConsistent(ring) /\ ring.pre_cnt = 0
      /\ ring.free_cnt \in 0 .. N /\ ring.hw_cnt \in 0 .. N
      /\ bd = ring.pre_head
      /\ bd = SeekAhead(ring.hw_head, ring.hw_cnt) /\ ring.post_cnt = 0
  BY <1>1, RingFacts DEF RingPart
<1>3. freebds[c] = ring.free_cnt /\ ring.free_cnt > 0
  BY <1>1 DEF RingPart, SetupBd
<1>4. AllocOk(ring, 1)
  BY <1>2, <1>3 DEF AllocOk
<1>5. /\ r1 \in Ring /\ RingConsistent(r1)
      /\ r1 = [ring EXCEPT !.free_head = SeekAhead(ring.free_head, 1),
                           !.free_cnt = ring.free_cnt - 1,
                           !.pre_cnt = ring.pre_cnt + 1]
  BY <1>2, <1>4, AllocRing
<1> HIDE DEF r1, bd
<1>6. /\ r1.free_cnt = ring.free_cnt - 1 /\ r1.pre_cnt = 1
      /\ r1.hw_cnt = ring.hw_cnt /\ r1.hw_head = ring.hw_head
      /\ r1.post_cnt = 0 /\ r1.pre_head = bd
  <2>1. /\ r1.free_cnt = ring.free_cnt - 1 /\ r1.pre_cnt = ring.pre_cnt + 1
        /\ r1.hw_cnt = ring.hw_cnt /\ r1.hw_head = ring.hw_head
        /\ r1.post_cnt = ring.post_cnt /\ r1.pre_head = ring.pre_head
    BY <1>2, <1>5 DEF Ring
  <2>2. r1.pre_cnt = 1
    BY <1>2, <2>1
  <2>3. r1.post_cnt = 0
    BY <1>2, <2>1
  <2>4. r1.pre_head = bd
    BY <1>2, <2>1
  <2> QED
    BY <2>1, <2>2, <2>3, <2>4
<1>7. ToHwOk(r1, 1, bd)
  BY <1>6 DEF ToHwOk
<1>8. /\ ring' = FXmacBdRingToHw(r1, 1, bd)
      /\ freebds' = [freebds EXCEPT ![c] = freebds[c] - 1]
      /\ rxbdset' = [rxbdset EXCEPT ![c] = bd]
      /\ pc' = [pc EXCEPT ![c] = "rearm"]
      /\ UNCHANGED <<new, storage, frame, recv_q, hwptr, isr, sem, bd_processed,
                     k, rx_queue_len, rcvd, delivered, trouble>>
  BY <1>4, <1>7 DEF SetupBd, Goto, hwVars, histVars, r1, bd
<1>9. /\ RingConsistent(ring')
      /\ ring' = [r1 EXCEPT !.pre_head = SeekAhead(r1.pre_head, 1),
                            !.pre_cnt = r1.pre_cnt - 1,
                            !.hw_tail = SeekAhead(r1.pre_head, 1),
                            !.hw_cnt = r1.hw_cnt + 1]
  <2>1. 1 \in Nat \ {0}
    OBVIOUS
  <2> QED
    BY <1>5, <1>7, <1>8, <2>1, ToHwRing
<1>10. /\ ring'.free_cnt = ring.free_cnt - 1 /\ ring'.pre_cnt = 0
       /\ ring'.hw_cnt = ring.hw_cnt + 1 /\ ring'.hw_head = ring.hw_head
       /\ ring'.post_cnt = 0
  BY <1>5, <1>6, <1>9 DEF Ring
<1>11. /\ pc'[c] = "rearm" /\ rxbdset'[c] = bd
       /\ freebds'[c] = freebds[c] - 1
  BY <1>8 DEF TypeOK
<1>12. RingPart(c)'
  <2>1. ring'.hw_cnt > 0 /\ ring'.hw_cnt - 1 = ring.hw_cnt
    BY <1>2, <1>10
  <2> QED
    BY <1>2, <1>3, <1>9, <1>10, <1>11, <2>1 DEF RingPart
<1>13. FirstHeld(c)' = FirstHeld(c) /\ CountHeld(c)' = CountHeld(c)
  BY <1>1, <1>2, <1>10, <1>11 DEF FirstHeld, CountHeld
<1>14. StoragePart(c)'
  BY <1>1, <1>8, <1>13 DEF StoragePart, Holds
<1>15. Usable(c)' = Usable(c) /\ ToProcess(c)' = ToProcess(c)
  BY <1>1, <1>2, <1>10, <1>11 DEF Usable, ToProcess
<1>16. NewPart(p, c)'
  BY <1>1, <1>8, <1>10, <1>11, <1>15 DEF NewPart, Deaf
<1>17. OrderPart(p, c)'
  BY <1>1, <1>8, <1>10, <1>11, <1>15 DEF OrderPart
<1>18. WakePart(p)'
  BY <1>1, <1>8, WakeStays DEF Active
<1> QED
  BY <1>11, <1>12, <1>14, <1>16, <1>17, <1>18 DEF Good, Core

\* With its NEW bit the BD becomes the next one of the DMA's.
LEMMA ClearBdGood ==
  ASSUME TypeOK, NEW c \in Ctx, NEW p \in 0 .. N, Good(p, c), ClearBd(c)
  PROVE  pc'[c] # "fault" /\ Good(p, c)'
<1> DEFINE h == ring.hw_head
           n == ring.hw_cnt - 1
           bd == SeekAhead(h, n)
<1>1. /\ Core(p, c) /\ RingPart(c) /\ StoragePart(c) /\ NewPart(p, c)
      /\ OrderPart(p, c) /\ WakePart(p) /\ pc[c] = "rearm"
  BY DEF Good, Core, ClearBd, At
<1>2. h \in BD /\ ring.hw_cnt \in 0 .. N
  BY <1>1, RingFacts
<1>3. /\ n \in 0 .. N - 1 /\ ring.hw_cnt = n + 1
      /\ rxbdset[c] = bd /\ Usable(c) = n
  BY <1>1, <1>2, RingAssumption DEF RingPart, Usable
<1>4. bd \in BD /\ bd = SeekAhead(h, n)
  BY <1>2, <1>3, SeekAheadType, RingAssumption
<1>5. /\ new' = [new EXCEPT ![bd] = FALSE]
      /\ pc' = [pc EXCEPT ![c] = "setbuf"]
      /\ UNCHANGED <<ring, storage, frame, recv_q, hwptr, isr, sem, rxbdset,
                     bd_processed, k, freebds, rx_queue_len, rcvd, delivered,
                     trouble>>
  BY <1>3 DEF ClearBd, Goto, bufVars, hwVars, localVars, histVars
<1> HIDE DEF h, n, bd
<1>6. pc'[c] = "setbuf"
  BY <1>5 DEF TypeOK
<1>7. \A i \in BD : new'[i] <=> new[i] /\ i # bd
  BY <1>4, <1>5, BitClear DEF TypeOK, BitsOK
<1>8. RingPart(c)'
  BY <1>1, <1>5, <1>6 DEF RingPart
<1>9. FirstHeld(c)' = FirstHeld(c) /\ CountHeld(c)' = CountHeld(c)
  BY <1>1, <1>5, <1>6 DEF FirstHeld, CountHeld
<1>10. StoragePart(c)'
  BY <1>1, <1>5, <1>9 DEF StoragePart, Holds
<1>11. Usable(c)' = n + 1 /\ ToProcess(c)' = ToProcess(c)
  BY <1>1, <1>3, <1>5, <1>6 DEF Usable, ToProcess
<1>12. NewPart(p, c)'
  <2>1. /\ p \in 0 .. N /\ p <= n
        /\ \A j \in 0 .. n - 1 : new[SeekAhead(h, j)] <=> j < p
    BY <1>1, <1>3 DEF NewPart, h
  <2>2. ASSUME NEW j \in 0 .. n
        PROVE  new'[SeekAhead(h, j)] <=> j < p
    <3>1. j \in 0 .. N - 1 /\ j \in 0 .. N
      BY <1>3, RingAssumption
    <3>2. SeekAhead(h, j) \in BD /\ (SeekAhead(h, j) = bd <=> j = n)
      BY <1>2, <1>3, <1>4, <3>1, SeekAheadType, SeekInjective
    <3>3. CASE j = n
      BY <1>7, <2>1, <3>2, <3>3
    <3>4. CASE j # n
      <4>1. j \in 0 .. n - 1
        BY <1>3, <3>4
      <4> QED
        BY <1>7, <2>1, <3>2, <3>4, <4>1
    <3> QED
      BY <3>3, <3>4
  <2>3. \A j \in 0 .. (n + 1) - 1 : new'[SeekAhead(ring'.hw_head, j)] <=> j < p
    <3>1. 0 .. (n + 1) - 1 = 0 .. n /\ ring'.hw_head = h
      BY <1>3, <1>5 DEF h
    <3> QED
      BY <2>2, <3>1
  <2>4. CASE Deaf
    <3>1. Deaf'
      BY <1>5, <1>7, <2>4 DEF Deaf
    <3> QED
      BY <1>3, <1>11, <2>1, <2>3, <3>1 DEF NewPart
  <2>5. CASE ~Deaf
    <3>1. /\ hwptr = SeekAhead(h, p)
          /\ \A i \in BD : ~InGroup(i, h, n) => new[i]
      BY <1>1, <1>3, <2>5 DEF NewPart, h
    <3>2. \A i \in BD : ~InGroup(i, h, n + 1) => new'[i]
      BY <1>2, <1>3, <1>4, <1>7, <3>1, GroupGrow
    <3>3. /\ hwptr' = SeekAhead(ring'.hw_head, p)
          /\ \A i \in BD : ~InGroup(i, ring'.hw_head, n + 1) => new'[i]
      BY <1>5, <3>1, <3>2 DEF h
    <3> QED
      BY <1>3, <1>6, <1>11, <2>1, <2>3, <3>3 DEF NewPart
  <2> QED
    BY <2>4, <2>5
<1>13. OrderPart(p, c)'
  BY <1>1, <1>5, <1>6, <1>11 DEF OrderPart
<1>14. WakePart(p)'
  BY <1>1, <1>5, WakeStays DEF Active
<1> QED
  BY <1>6, <1>8, <1>10, <1>12, <1>13, <1>14 DEF Good, Core

\* Its pbuf makes it one of the BDs with a pbuf.
LEMMA SetBufferGood ==
  ASSUME TypeOK, NEW c \in Ctx, NEW p \in 0 .. N, Good(p, c), SetBuffer(c)
  PROVE  pc'[c] # "fault" /\ ~storage[rxbdset[c]] /\ Good(p, c)'
<1> DEFINE h == ring.hw_head
           n == ring.hw_cnt - 1
           bd == SeekAhead(h, n)
<1>1. /\ Core(p, c) /\ RingPart(c) /\ StoragePart(c) /\ NewPart(p, c)
      /\ OrderPart(p, c) /\ WakePart(p) /\ pc[c] = "setbuf"
  BY DEF Good, Core, SetBuffer, At
<1>2. h \in BD /\ ring.hw_cnt \in 0 .. N
  BY <1>1, RingFacts
<1>3. /\ n \in 0 .. N - 1 /\ ring.hw_cnt = n + 1
      /\ rxbdset[c] = bd /\ FirstHeld(c) = h /\ CountHeld(c) = n
  BY <1>1, <1>2, RingAssumption DEF RingPart, FirstHeld, CountHeld
<1>4. bd \in BD /\ bd = SeekAhead(h, n)
  BY <1>2, <1>3, SeekAheadType, RingAssumption
<1>5. /\ storage' = [storage EXCEPT ![bd] = TRUE]
      /\ pc' = [pc EXCEPT ![c] = "setup"]
      /\ UNCHANGED <<ring, new, frame, recv_q, hwptr, isr, sem, rxbdset,
                     bd_processed, k, freebds, rx_queue_len, rcvd, delivered,
                     trouble>>
  BY <1>3 DEF SetBuffer, Goto, bufVars, hwVars, localVars, histVars
<1> HIDE DEF h, n, bd
<1>6. pc'[c] = "setup"
  BY <1>5 DEF TypeOK
<1>7. \A i \in BD : storage'[i] <=> storage[i] \/ i = bd
  BY <1>4, <1>5, BitSet DEF TypeOK, BitsOK
<1>8. RingPart(c)'
  BY <1>1, <1>5, <1>6 DEF RingPart
<1>9. \A i \in BD : storage[i] <=> InGroup(i, h, n)
  BY <1>1, <1>3 DEF StoragePart, Holds
<1>10. ~storage[rxbdset[c]]
  BY <1>2, <1>3, <1>4, <1>9, GroupEnd
<1>11. StoragePart(c)'
  <2>1. FirstHeld(c)' = h /\ CountHeld(c)' = n + 1
    BY <1>3, <1>5, <1>6 DEF FirstHeld, CountHeld, h
  <2>2. \A i \in BD : storage'[i] <=> InGroup(i, h, n + 1)
    BY <1>2, <1>3, <1>4, <1>7, <1>9, GroupGrow
  <2> QED
    BY <2>1, <2>2 DEF StoragePart, Holds
<1>12. Usable(c)' = Usable(c) /\ ToProcess(c)' = ToProcess(c)
  BY <1>1, <1>5, <1>6 DEF Usable, ToProcess
<1>13. NewPart(p, c)'
  BY <1>1, <1>5, <1>6, <1>12 DEF NewPart, Deaf
<1>14. OrderPart(p, c)'
  BY <1>1, <1>5, <1>6, <1>12 DEF OrderPart
<1>15. WakePart(p)'
  BY <1>1, <1>5, WakeStays DEF Active
<1> QED
  BY <1>6, <1>8, <1>10, <1>11, <1>13, <1>14, <1>15 DEF Good, Core

\* lwIP gets the next frame of the queue, which is not empty.
LEMMA DeliverGood ==
  ASSUME TypeOK, NEW c \in Ctx, NEW p \in 0 .. N, Good(p, c), Deliver(c)
  PROVE  pc'[c] # "fault" /\ delivered <= delivered' /\ Good(p, c)'
<1>1. /\ Core(p, c) /\ RingPart(c) /\ StoragePart(c) /\ NewPart(p, c)
      /\ OrderPart(p, c) /\ WakePart(p) /\ pc[c] = "drain"
      /\ rx_queue_len[c] > 0 /\ rx_queue_len[c] \in Nat
  BY DEF Good, Core, Deliver, At, TypeOK
<1>2. recv_q # <<>> /\ recv_q \in Seq(Nat)
  <2>1. rx_queue_len[c] <= Len(recv_q)
    BY <1>1 DEF RingPart
  <2>2. Len(recv_q) # 0
    BY <1>1, <2>1
  <2> QED
    BY <2>2 DEF TypeOK
<1>3. /\ recv_q' = Tail(recv_q) /\ delivered' = Head(recv_q)
      /\ rx_queue_len' = [rx_queue_len EXCEPT ![c] = rx_queue_len[c] - 1]
      /\ UNCHANGED <<ring, new, storage, frame, hwptr, isr, sem, pc, rxbdset,
                     bd_processed, k, freebds, rcvd, trouble>>
  BY <1>2 DEF Deliver, bdVars, hwVars
<1>4. rx_queue_len'[c] = rx_queue_len[c] - 1
  BY <1>3 DEF TypeOK
<1>5. /\ Queued(delivered, recv_q, rcvd - p) /\ delivered \in Nat
      /\ rcvd - p \in Int /\ ToProcess(c) = 0 /\ ToProcess(c)' = 0
  BY <1>1, <1>3 DEF OrderPart, ToProcess, TypeOK
<1>6. /\ Len(recv_q') = Len(recv_q) - 1 /\ delivered <= delivered'
      /\ Queued(delivered', recv_q', rcvd - p)
  BY <1>2, <1>3, <1>5, QueuedTail
<1>7. Len(recv_q) \in Nat
  BY <1>2
<1>8. RingPart(c)'
  BY <1>1, <1>3, <1>4, <1>6, <1>7 DEF RingPart
<1>9. StoragePart(c)'
  BY <1>1, <1>3 DEF StoragePart, Holds, FirstHeld, CountHeld
<1>10. NewPart(p, c)'
  BY <1>1, <1>3 DEF NewPart, Deaf, Usable
<1>11. OrderPart(p, c)'
  <2>1. rcvd' - p - ToProcess(c)' = rcvd - p
    BY <1>3, <1>5
  <2>2. Queued(delivered', recv_q', rcvd' - p - ToProcess(c)')
    BY <1>6, <2>1
  <2>3. pc'[c] # "proc"
    BY <1>1, <1>3
  <2> QED
    BY <1>1, <1>3, <2>2, <2>3 DEF OrderPart
<1>12. WakePart(p)'
  BY <1>1, <1>3 DEF WakePart
<1> QED
  BY <1>1, <1>3, <1>6, <1>8, <1>9, <1>10, <1>11, <1>12 DEF Good, Core

\* The next turn of the loop of FXmacRecvHandler.
LEMMA DrainedGood ==
  ASSUME TypeOK, NEW c \in Ctx, NEW p \in 0 .. N, Good(p, c), Drained(c)
  PROVE  pc'[c] # "fault" /\ Good(p, c)'
<1>1. /\ Core(p, c) /\ RingPart(c) /\ StoragePart(c) /\ NewPart(p, c)
      /\ OrderPart(p, c) /\ WakePart(p) /\ pc[c] = "drain"
  BY DEF Good, Core, Drained, At
<1>2. /\ pc' = [pc EXCEPT ![c] = "fromhw"]
      /\ UNCHANGED <<ring, new, storage, frame, recv_q, hwptr, isr, sem,
                     rxbdset, bd_processed, k, freebds, rx_queue_len, rcvd,
                     delivered, trouble>>
  BY DEF Drained, Goto, bdVars, bufVars, hwVars, localVars, histVars
<1>3. pc'[c] = "fromhw"
  BY <1>2 DEF TypeOK
<1>4. RingPart(c)'
  BY <1>1, <1>2, <1>3 DEF RingPart
<1>5. FirstHeld(c)' = FirstHeld(c) /\ CountHeld(c)' = CountHeld(c)
  BY <1>1, <1>2, <1>3 DEF FirstHeld, CountHeld
<1>6. StoragePart(c)'
  BY <1>1, <1>2, <1>5 DEF StoragePart, Holds
<1>7. Usable(c)' = Usable(c) /\ ToProcess(c)' = ToProcess(c)
  BY <1>1, <1>2, <1>3 DEF Usable, ToProcess
<1>8. NewPart(p, c)'
  BY <1>1, <1>2, <1>3, <1>7 DEF NewPart, Deaf
<1>9. OrderPart(p, c)'
  BY <1>1, <1>2, <1>3, <1>7 DEF OrderPart
<1>10. WakePart(p)'
  BY <1>1, <1>2, WakeStays DEF Active
<1> QED
  BY <1>3, <1>4, <1>6, <1>8, <1>9, <1>10 DEF Good, Core

-----------------------------------------------------------------------------
(* The ring wrecked, and rebuilt *)

\* The second fetch of a wrecked ring also returns the whole ring.
LEMMA FetchWrecked ==
  ASSUME TypeOK, NEW c \in Ctx, Wrecked(c), FetchBds(c)
  PROVE  pc'[c] # "fault" /\ Wrecked(c)'
<1>1. /\ pc[c] = "walk" /\ (c = "thread" => pc["isr"] = "idle")
      /\ ring \in Ring /\ ring.hw_head \in BD
  BY DEF FetchBds, At, TypeOK, Ring
<1>2. /\ \A i \in BD : new[i]
      /\ \A i \in BD : ~storage[i]
      /\ c = "isr" /\ ring.hw_cnt # 0
  BY <1>1 DEF Wrecked, Ctx
<1>3. PICK n \in 0 .. N :
        /\ FromHwRxCount(ring, new, N, n)
        /\ bd_processed' = [bd_processed EXCEPT ![c] = n]
        /\ n # 0 => /\ rxbdset' = [rxbdset EXCEPT ![c] = ring.hw_head]
                    /\ k' = [k EXCEPT ![c] = 0]
                    /\ pc' = [pc EXCEPT ![c] = "proc"]
  BY DEF FetchBds, Goto
<1>4. n = N /\ n # 0
  <2>1. n = N \/ ~new[SeekAhead(ring.hw_head, n)]
    BY <1>2, <1>3 DEF FromHwRxCount
  <2>2. SeekAhead(ring.hw_head, n) \in BD
    BY <1>1, SeekAheadType
  <2> QED
    BY <1>2, <2>1, <2>2, RingAssumption
<1>5. /\ pc'[c] = "proc" /\ bd_processed'[c] = N /\ k'[c] = 0
      /\ rxbdset'[c] = ring.hw_head
  BY <1>3, <1>4 DEF TypeOK
<1>6. UNCHANGED <<new, storage, rcvd, delivered, trouble>>
  BY DEF FetchBds, histVars
<1>7. 0 \in 0 .. N - 1 /\ k'[c] <= 0
      /\ Holds(SeekAhead(rxbdset[c], k[c]), 0 - k[c])'
  <2>1. SeekAhead(rxbdset'[c], k'[c]) \in BD /\ 0 - k'[c] = 0
    BY <1>1, <1>5, SeekZero
  <2>2. \A i \in BD : ~InGroup(i, SeekAhead(rxbdset'[c], k'[c]), 0 - k'[c])
    BY <2>1, GroupEmpty
  <2>3. \A i \in BD : ~storage'[i]
    BY <1>2, <1>6
  <2> QED
    BY <1>5, <2>2, <2>3, RingAssumption DEF Holds
<1> QED
  BY <1>2, <1>5, <1>6, <1>7 DEF Wrecked, Active

\* The context that has fetched the whole ring finds a pbuf, or stops.
LEMMA ProcessWrecked ==
  ASSUME TypeOK, LocalInv, NEW c \in Ctx, Wrecked(c), ProcessBd(c)
  PROVE  Wrecked(c)'
<1> DEFINE i == SeekAhead(rxbdset[c], k[c])
<1>1. /\ pc[c] = "proc" /\ (c = "thread" => pc["isr"] = "idle")
      /\ bd_processed[c] = N /\ k[c] \in 0 .. N - 1 /\ rxbdset[c] \in BD
  BY RingAssumption DEF ProcessBd, At, Wrecked, TypeOK, LocalInv
<1>2. PICK m \in 0 .. N - 1 : k[c] <= m /\ Holds(i, m - k[c])
  BY <1>1 DEF Wrecked
<1>3. i \in BD /\ i = SeekAhead(rxbdset[c], k[c])
  BY <1>1, SeekAheadType, RingAssumption
<1>4. /\ UNCHANGED <<ring, new, rxbdset, bd_processed, rcvd, delivered,
                     trouble>>
      /\ storage[i] =>
           /\ storage' = [storage EXCEPT ![i] = FALSE]
           /\ k' = [k EXCEPT ![c] = k[c] + 1]
           /\ pc' = [pc EXCEPT ![c] = IF k[c] + 1 = N THEN "free" ELSE "proc"]
      /\ ~storage[i] =>
           storage' = storage /\ pc' = [pc EXCEPT ![c] = "fault"]
  BY <1>1 DEF ProcessBd, Goto, histVars
<1> HIDE DEF i
<1>5. \A j \in BD : storage[j] <=> InGroup(j, i, m - k[c])
  BY <1>2 DEF Holds
<1>6. storage[i] <=> 0 < m - k[c]
  <2>1. InGroup(SeekAhead(i, 0), i, m - k[c]) <=> 0 < m - k[c]
    BY <1>1, <1>2, <1>3, GroupMember, RingAssumption
  <2> QED
    BY <1>3, <1>5, <2>1, SeekZero
<1>7. CASE storage[i]
  <2>1. /\ m - k[c] \in 1 .. N /\ k[c] + 1 # N /\ k[c] + 1 <= m
        /\ (m - k[c]) - 1 = m - (k[c] + 1)
    BY <1>1, <1>2, <1>6, <1>7, RingAssumption
  <2>2. pc' = pc /\ k'[c] = k[c] + 1
    BY <1>1, <1>4, <1>7, <2>1 DEF TypeOK
  <2>3. \A j \in BD : storage'[j] <=> storage[j] /\ j # i
    BY <1>3, <1>4, <1>7, BitClear DEF TypeOK, BitsOK
  <2>4. \A j \in BD :
          storage'[j] <=> InGroup(j, SeekAhead(i, 1), (m - k[c]) - 1)
    BY <1>3, <1>5, <2>1, <2>3, GroupShrink
  <2>5. SeekAhead(i, 1) = SeekAhead(rxbdset[c], k[c] + 1)
    <3>1. k[c] \in Nat /\ 1 \in Nat /\ k[c] + 1 <= N
      BY <1>1, RingAssumption
    <3> QED
      BY <1>1, <1>3, <3>1, SeekAheadAdd
  <2>6. Holds(SeekAhead(rxbdset[c], k[c]), m - k[c])'
    BY <1>4, <2>1, <2>2, <2>4, <2>5 DEF Holds
  <2>7. k'[c] <= m
    BY <2>1, <2>2
  <2> QED
    BY <1>1, <1>4, <2>2, <2>6, <2>7 DEF Wrecked
<1>8. CASE ~storage[i]
  <2>1. m - k[c] = 0
    BY <1>1, <1>2, <1>6, <1>8
  <2>2. \A j \in BD : ~storage'[j]
    BY <1>3, <1>4, <1>5, <1>8, <2>1, GroupEmpty
  <2>3. pc'[c] = "fault" /\ \A d \in Ctx : d # c => pc'[d] = pc[d]
    BY <1>4, <1>8 DEF TypeOK
  <2>4. ring.hw_cnt # 0 \/ pc'["isr"] \in {"proc", "fault"}
    BY <1>1, <2>3 DEF Wrecked, Ctx
  <2> QED
    BY <1>4, <2>2, <2>3, <2>4 DEF Wrecked, Active
<1> QED
  BY <1>7, <1>8

\* No other operation of FXmacRecvHandler is under way.
LEMMA WreckedOnly ==
  ASSUME NEW c \in Ctx, Wrecked(c)
  PROVE  ~(\/ FreeBds(c) \/ SetupDone(c) \/ SetupBd(c) \/ ClearBd(c)
           \/ SetBuffer(c) \/ Deliver(c) \/ Drained(c))
BY DEF Wrecked, Active, At, FreeBds, SetupDone, SetupBd, ClearBd, SetBuffer,
       Deliver, Drained

\* Nothing is delivered that has not arrived.
LEMMA DeliveredArrived ==
  ASSUME TypeOK, LocalInv, NEW c \in Ctx, Shape(c)
  PROVE  delivered <= rcvd
<1>1. ASSUME NEW p \in 0 .. N, Good(p, c) PROVE delivered <= rcvd
  <2>1. delivered <= rcvd - p - ToProcess(c)
    BY <1>1 DEF Good, Core, OrderPart, Queued
  <2>2. ToProcess(c) \in Nat /\ delivered \in Nat /\ rcvd \in Nat
    BY DEF ToProcess, TypeOK, LocalInv
  <2> QED
    BY <2>1, <2>2
<1> QED
  BY <1>1 DEF Shape, Wrecked

\* FXmacHandleDmaTxError puts the ring in order, with the BDs it can arm.
LEMMA RebuildGood ==
  ASSUME TypeOK, delivered <= rcvd, "nested" \notin trouble',
         FXmacHandleDmaTxError
  PROVE  Solo("isr")' /\ Good(0, "isr")'
<1> DEFINE have == pool + Held + Len(recv_q)
           m == IF have < N THEN have ELSE N
<1>1. m \in 0 .. N
  BY RebuildCount
<1>2. /\ ring' = InitDmaRing(m) /\ new' = [i \in BD |-> FALSE]
      /\ storage' = Armed(m) /\ recv_q' = <<>>
      /\ hwptr' = IF m = N THEN 0 ELSE NullBd
      /\ UNCHANGED <<rcvd, delivered, pc>> /\ pc["isr"] = "err"
  BY DEF FXmacHandleDmaTxError, At
<1>3. pc'["thread"] \notin Active
  BY <1>2 DEF FXmacHandleDmaTxError, Nested, ThreadInside, Active
<1> HIDE DEF have, m
<1>4. /\ RingConsistent(ring') /\ ring'.hw_cnt = m /\ ring'.hw_head = 0
      /\ ring'.pre_cnt = 0 /\ ring'.post_cnt = 0 /\ ring'.free_cnt = N - m
  BY <1>1, <1>2, InitDmaRingType
<1>5. \A i \in BD : ~new'[i] /\ (storage'[i] <=> i < m)
  <2>1. \A i \in BD : ~new'[i]
    BY <1>2, Zenon
  <2>2. \A i \in BD : storage'[i] <=> i < m
    BY <1>2, Zenon DEF Armed
  <2> QED
    BY <2>1, <2>2
<1>6. Solo("isr")'
  BY <1>3 DEF Solo, Ctx
<1>7. RingPart("isr")'
  BY <1>2, <1>4 DEF RingPart
<1>8. StoragePart("isr")'
  <2>1. FirstHeld("isr")' = 0 /\ CountHeld("isr")' = m
    BY <1>2, <1>4 DEF FirstHeld, CountHeld
  <2>2. \A i \in BD : InGroup(i, 0, m) <=> i < m
    BY <1>1, RingAssumption DEF InGroup, BD
  <2>3. \A i \in BD : storage'[i] <=> InGroup(i, 0, m)
    BY <1>5, <2>2
  <2> QED
    BY <2>1, <2>3 DEF StoragePart, Holds
<1>9. NewPart(0, "isr")'
  <2>1. Usable("isr")' = m
    BY <1>2, <1>4 DEF Usable
  <2>2. 0 \in BD /\ SeekAhead(0, 0) = 0
    BY RingAssumption DEF BD, SeekAhead
  <2>3. \A j \in 0 .. m - 1 : new'[SeekAhead(ring'.hw_head, j)] <=> j < 0
    <3> SUFFICES ASSUME NEW j \in 0 .. m - 1
                 PROVE  ~new'[SeekAhead(0, j)] /\ ~(j < 0)
      BY <1>4
    <3>1. SeekAhead(0, j) \in BD
      BY <1>1, <2>2, SeekAheadType, RingAssumption
    <3> QED
      BY <1>5, <3>1
  <2>4. CASE m # N
    <3>1. Deaf'
      BY <1>2, <1>5, <2>4 DEF Deaf
    <3> QED
      BY <1>1, <2>1, <2>3, <3>1 DEF NewPart
  <2>5. CASE m = N
    <3>1. \A i \in BD : InGroup(i, 0, m)
      BY <2>2, <2>5, GroupFull
    <3>2. hwptr' = SeekAhead(ring'.hw_head, 0) /\ ring'.free_cnt = 0
      BY <1>2, <1>4, <2>2, <2>5, RingAssumption
    <3> QED
      BY <1>1, <1>4, <2>1, <2>3, <3>1, <3>2 DEF NewPart
  <2> QED
    BY <2>4, <2>5
<1>10. OrderPart(0, "isr")'
  <2>1. Len(recv_q') = 0 /\ ToProcess("isr")' = 0
    BY <1>2 DEF ToProcess
  <2>2. Queued(delivered', recv_q', rcvd' - 0 - ToProcess("isr")')
    BY <1>2, <2>1 DEF Queued, Sorted, TypeOK
  <2> QED
    BY <1>2, <2>2 DEF OrderPart
<1> QED
  BY <1>6, <1>7, <1>8, <1>9, <1>10 DEF Good, Core, WakePart

-----------------------------------------------------------------------------
(* Every step keeps the state orderly *)

\* Locations may change outside of FXmacRecvHandler.
QuietMove ==
  \A d \in Ctx :
    pc'[d] = pc[d] \/ (pc[d] \notin Active \union {"fault"}
                       /\ pc'[d] \notin Active \union {"fault"})

\* A step that leaves the ring, the queue and the frames alone.
LEMMA QuietStep ==
  ASSUME NEW c \in Ctx, Solo(c), Shape(c), QuietMove,
         UNCHANGED <<ring, new, storage, frame, recv_q, hwptr, rcvd, delivered,
                     rxbdset, bd_processed, k, freebds, rx_queue_len, trouble>>,
         \A p \in 0 .. N : WakePart(p) => WakePart(p)'
  PROVE  Solo(c)' /\ Shape(c)'
<1>1. Solo(c)'
  BY DEF Solo, QuietMove
<1>2. ASSUME NEW p \in 0 .. N, Good(p, c) PROVE Good(p, c)'
  <2>1. \/ pc'[c] = pc[c]
        \/ pc[c] \notin Active /\ pc'[c] \notin Active
    BY DEF QuietMove
  <2> QED
    BY <1>2, <2>1, CoreStays DEF Good
<1>3. ASSUME Wrecked(c) PROVE Wrecked(c)'
  <2>1. \/ pc'[c] = pc[c]
        \/ pc[c] \notin Active /\ pc'[c] \notin Active
    BY DEF QuietMove
  <2>2. (\E d \in Ctx : pc[d] = "fault") => \E d \in Ctx : pc'[d] = "fault"
    BY DEF QuietMove
  <2>3. pc["isr"] \in {"proc", "fault"} => pc'["isr"] = pc["isr"]
    BY DEF QuietMove, Ctx, Active
  <2>4. pc'[c] \notin Active \ {"proc"}
    BY <1>3, <2>1 DEF Wrecked
  <2>5. pc'[c] = "proc" => pc[c] = "proc"
    BY <2>1 DEF Active
  <2>6. pc[c] = "proc" => pc'[c] = "proc"
    BY <2>1 DEF Active
  <2> QED
    BY <1>3, <2>2, <2>3, <2>4, <2>5, <2>6 DEF Wrecked, Holds
<1> QED
  BY <1>1, <1>2, <1>3 DEF Shape

\* What has happened is not forgotten.
LEMMA TroubleGrows == [Next]_vars => trouble \subseteq trouble'
BY DEF Next, vars, Thread, Isr, RecvHandler, DmaReceive, DmaDrop, StackFree,
       SemTake, SemEmpty, EnableRxIrq, FXmacIntrHandler, FXmacErrorHandler,
       FXmacHandleDmaTxError, ClearRxStatus, CallFromHwRx, FetchBds, ProcessBd,
       FreeBds, SetupDone, SetupBd, ClearBd, SetBuffer, Deliver, Drained,
       histVars

\* An operation of FXmacRecvHandler in context c.
LEMMA RecvStep ==
  ASSUME TypeOK, LocalInv, Orderly, NEW c \in Ctx, RecvHandler(c)
  PROVE  /\ \E d \in Ctx : Solo(d)' /\ Shape(d)'
         /\ trouble' \subseteq {"reset"} => pc'[c] # "fault"
         /\ \A d \in Ctx : d # c => pc'[d] = pc[d]
         /\ trouble \subseteq trouble'
<1>1. PICK l : pc' = [pc EXCEPT ![c] = l]
  <2>1. CASE ClearRxStatus(c)
    BY <2>1, Zenon DEF ClearRxStatus, Goto
  <2>11. CASE CallFromHwRx(c)
    BY <2>11, Zenon DEF CallFromHwRx, Goto
  <2>2. CASE FetchBds(c)
    BY <2>2, Zenon DEF FetchBds, Goto
  <2>3. CASE ProcessBd(c)
    BY <2>3, Zenon DEF ProcessBd, Goto
  <2>4. CASE FreeBds(c)
    BY <2>4, Zenon DEF FreeBds, Goto
  <2>5. CASE SetupDone(c)
    BY <2>5, Zenon DEF SetupDone, SetupReturn, Goto
  <2>6. CASE SetupBd(c)
    BY <2>6, Zenon DEF SetupBd, SetupReturn, Goto
  <2>7. CASE ClearBd(c)
    BY <2>7, Zenon DEF ClearBd, Goto
  <2>8. CASE SetBuffer(c)
    BY <2>8, Zenon DEF SetBuffer, Goto
  <2>9. CASE Deliver(c)
    <3>1. CASE pc' = pc
      <4>1. pc' = [pc EXCEPT ![c] = pc[c]]
        BY <3>1 DEF TypeOK
      <4> QED
        BY <4>1
    <3>2. CASE pc' # pc
      BY <2>9, <3>2, Zenon DEF Deliver, Goto
    <3> QED
      BY <3>1, <3>2
  <2>10. CASE Drained(c)
    BY <2>10, Zenon DEF Drained, Goto
  <2> QED
    BY <2>1, <2>2, <2>3, <2>4, <2>5, <2>6, <2>7, <2>8, <2>9, <2>10,
       <2>11 DEF RecvHandler
<1>2. \A d \in Ctx : d # c => pc'[d] = pc[d]
  BY <1>1 DEF TypeOK
<1>3. trouble \subseteq trouble'
  BY DEF RecvHandler, ClearRxStatus, CallFromHwRx, FetchBds, ProcessBd,
         FreeBds, SetupDone, SetupBd, ClearBd, SetBuffer, Deliver, Drained,
         histVars
<1>4. Solo(c)
  <2>1. \E lc : At(c, lc) /\ lc \notin {"idle", "err"}
    BY DEF RecvHandler, ClearRxStatus, CallFromHwRx, FetchBds, ProcessBd,
           FreeBds, SetupDone, SetupBd, ClearBd, SetBuffer, Deliver, Drained
  <2> QED
    BY <2>1, RunsSolo DEF Orderly
<1>5. Shape(c)
  BY <1>4, SwitchShape DEF Orderly
<1>6. Solo(c)'
  BY <1>2, <1>4 DEF Solo
<1> SUFFICES Shape(c)' /\ (trouble' \subseteq {"reset"} => pc'[c] # "fault")
  BY <1>2, <1>3, <1>6
<1>7. CASE ClearRxStatus(c) \/ CallFromHwRx(c)
  <2>1. /\ pc[c] \in {"recv", "fromhw"}
        /\ pc' = [pc EXCEPT ![c] = IF pc[c] = "recv" THEN "fromhw" ELSE "walk"]
        /\ UNCHANGED <<ring, new, storage, frame, recv_q, hwptr, rcvd,
                       delivered, rxbdset, bd_processed, k, freebds,
                       rx_queue_len, trouble, isr, sem>>
    BY <1>7 DEF ClearRxStatus, CallFromHwRx, At, Goto, bdVars, bufVars, hwVars,
                localVars, histVars
  <2>2. pc'[c] \in {"fromhw", "walk"}
    BY <2>1 DEF TypeOK
  <2>3. QuietMove
    BY <1>2, <2>1, <2>2 DEF QuietMove, Active
  <2>4. \A p \in 0 .. N : WakePart(p) => WakePart(p)'
    BY <1>2, <2>1, <2>2 DEF WakePart, Ctx
  <2> QED
    BY <1>4, <1>5, <2>1, <2>2, <2>3, <2>4, QuietStep
<1>8. CASE ~ClearRxStatus(c) /\ ~CallFromHwRx(c) /\ \E p \in 0 .. N : Good(p, c)
  <2>1. PICK p \in 0 .. N : Good(p, c)
    BY <1>8
  <2>2. CASE FetchBds(c)
    BY <2>1, <2>2, FetchGood
  <2>3. CASE ~FetchBds(c)
    <3>1. Good(p, c)' /\ pc'[c] # "fault"
      BY <1>8, <2>1, <2>3, ProcessGood, FreeGood, SetupDoneGood, SetupBdGood,
         ClearBdGood, SetBufferGood, DeliverGood, DrainedGood DEF RecvHandler
    <3> QED
      BY <3>1 DEF Shape
  <2> QED
    BY <2>2, <2>3
<1>9. CASE ~ClearRxStatus(c) /\ ~CallFromHwRx(c) /\ Wrecked(c)
  <2>1. Wrecked(c)'
    BY <1>9, FetchWrecked, ProcessWrecked, WreckedOnly DEF RecvHandler
  <2>2. "starved" \in trouble'
    BY <2>1 DEF Wrecked
  <2> QED
    BY <2>1, <2>2 DEF Shape
<1> QED
  BY <1>5, <1>7, <1>8, <1>9 DEF Shape

\* Every step keeps the state orderly until the contexts are nested.
LEMMA OrderlyStep ==
  TypeOK /\ LocalInv /\ OrderlyInv /\ [Next]_vars => OrderlyInv'
<1> SUFFICES ASSUME TypeOK, LocalInv, OrderlyInv, [Next]_vars,
                    "nested" \notin trouble'
             PROVE  Orderly'
  BY DEF OrderlyInv
<1> DEFINE NoFaultYet ==
             trouble \subseteq {"reset"} => \A c \in Ctx : pc[c] # "fault"
           SomeShape == \E c \in Ctx : Solo(c) /\ Shape(c)
<1> SUFFICES ASSUME Orderly PROVE SomeShape' /\ NoFaultYet'
  <2>1. trouble \subseteq trouble'
    BY TroubleGrows
  <2>2. Orderly
    BY <2>1 DEF OrderlyInv
  <2>3. Alone'
    BY <2>2, AloneStep DEF Orderly
  <2> QED
    BY <2>2, <2>3 DEF Orderly
<1>1. PICK c \in Ctx : Solo(c) /\ Shape(c)
  BY DEF Orderly
<1>2. NoFaultYet
  BY DEF Orderly
<1>3. CASE DmaReceive
  <2>1. pc' = pc /\ trouble' = trouble
    BY <1>3 DEF DmaReceive
  <2>2. Solo(c)' /\ NoFaultYet'
    BY <1>1, <1>2, <2>1 DEF Solo
  <2>3. ~Wrecked(c)
    BY <1>3 DEF DmaReceive, Wrecked, TypeOK
  <2>4. Shape(c)'
    BY <1>1, <1>3, <2>3, ReceiveGood DEF Shape
  <2> QED
    BY <2>2, <2>4
<1> DEFINE Same == UNCHANGED
             <<ring, new, storage, frame, recv_q, hwptr, rcvd, delivered,
               rxbdset, bd_processed, k, freebds, rx_queue_len, trouble>>
           Awake == \A p \in 0 .. N : WakePart(p) => WakePart(p)'
<1>4. ASSUME Same, QuietMove, Awake PROVE SomeShape' /\ NoFaultYet'
  <2>1. Solo(c)' /\ Shape(c)'
    BY <1>1, <1>4, QuietStep
  <2>2. NoFaultYet'
    BY <1>2, <1>4 DEF QuietMove
  <2> QED
    BY <2>1, <2>2
<1>5. ASSUME NEW e \in AllErrors, DmaDrop(e) PROVE SomeShape' /\ NoFaultYet'
  <2>1. Same /\ QuietMove
    BY <1>5 DEF DmaDrop, bdVars, bufVars, localVars, QuietMove
  <2>2. Awake
    BY <1>5 DEF DmaDrop, WakePart
  <2> QED
    BY <1>4, <2>1, <2>2
<1>6. CASE StackFree
  <2>1. Same /\ QuietMove
    BY <1>6 DEF StackFree, bdVars, hwVars, localVars, histVars, QuietMove
  <2>2. Awake
    BY <1>6 DEF StackFree, WakePart, hwVars
  <2> QED
    BY <1>4, <2>1, <2>2
<1>7. CASE SemTake \/ SemEmpty \/ EnableRxIrq
  <2> USE DEF SemTake, SemEmpty, EnableRxIrq, At, Goto
  <2>1. Same
    BY <1>7 DEF bdVars, bufVars, hwVars, localVars, histVars
  <2>2. QuietMove
    BY <1>7 DEF QuietMove, Active, TypeOK
  <2>3. Awake
    BY <1>7 DEF WakePart, hwVars, TypeOK, Ctx
  <2> QED
    BY <1>4, <2>1, <2>2, <2>3
<1>8. CASE FXmacIntrHandler
  <2> USE DEF FXmacIntrHandler, SemGive, Goto
  <2>1. Same
    BY <1>8 DEF bdVars, bufVars, histVars
  <2>2. QuietMove
    BY <1>8 DEF QuietMove, Active, TypeOK
  <2>3. pc'["thread"] = pc["thread"]
    BY <1>8 DEF TypeOK, Ctx
  <2>4. Awake
    BY <1>8, <2>3, RxAssumption DEF WakePart, TypeOK
  <2> QED
    BY <1>4, <2>1, <2>2, <2>4
<1>9. CASE FXmacErrorHandler
  <2> USE DEF FXmacErrorHandler, Goto, At
  <2>1. Same
    BY <1>9 DEF bdVars, bufVars, hwVars, Nested
  <2>2. QuietMove
    BY <1>9 DEF QuietMove, Active, TypeOK
  <2>3. pc'["thread"] = pc["thread"]
    BY <1>9 DEF TypeOK, Ctx
  <2>4. Awake
    BY <1>9, <2>3 DEF WakePart, hwVars
  <2> QED
    BY <1>4, <2>1, <2>2, <2>4
<1>10. CASE FXmacHandleDmaTxError
  <2>1. delivered <= rcvd
    BY <1>1, DeliveredArrived
  <2>2. Solo("isr")' /\ Good(0, "isr")'
    BY <1>10, <2>1, RebuildGood
  <2>3. SomeShape'
    BY <2>2, RingAssumption DEF Shape, Ctx
  <2>4. NoFaultYet'
    BY <1>2, <1>10 DEF FXmacHandleDmaTxError
  <2> QED
    BY <2>3, <2>4
<1>11. ASSUME NEW d \in Ctx, RecvHandler(d) PROVE SomeShape' /\ NoFaultYet'
  BY <1>2, <1>11, RecvStep
<1>12. CASE UNCHANGED vars
  <2>1. Same /\ QuietMove
    BY <1>12 DEF vars, bdVars, bufVars, hwVars, localVars, histVars, QuietMove
  <2>2. Awake
    BY <1>12 DEF vars, WakePart, hwVars
  <2> QED
    BY <1>4, <2>1, <2>2
<1> QED
  BY <1>3, <1>5, <1>6, <1>7, <1>8, <1>9, <1>10, <1>11, <1>12
  DEF Next, Thread, Isr, Ctx

-----------------------------------------------------------------------------
(* Pbufs *)

\* A BD gives its pbuf away, or gets one.
LEMMA HeldClear ==
  ASSUME BitsOK, NEW i \in BD, storage[i],
         storage' = [storage EXCEPT ![i] = FALSE]
  PROVE  Held' = Held - 1
<1> DEFINE P == {j \in BD : storage[j]}
<1>1. {j \in BD : storage'[j]} = P \ {i}
  <2>1. \A j \in BD : storage'[j] <=> storage[j] /\ j # i
    BY BitClear DEF BitsOK
  <2> QED
    BY <2>1, Zenon
<1>2. IsFiniteSet(P) /\ i \in P
  BY HeldNat
<1>3. Cardinality(P \ {i}) = Cardinality(P) - 1
  BY <1>2, FS_RemoveElement
<1> QED
  BY <1>1, <1>3 DEF Held

LEMMA HeldSet ==
  ASSUME BitsOK, NEW i \in BD, ~storage[i],
         storage' = [storage EXCEPT ![i] = TRUE]
  PROVE  Held' = Held + 1
<1> DEFINE P == {j \in BD : storage[j]}
<1>1. {j \in BD : storage'[j]} = P \union {i}
  <2>1. \A j \in BD : storage'[j] <=> storage[j] \/ j = i
    BY BitSet DEF BitsOK
  <2> QED
    BY <2>1, Zenon
<1>2. IsFiniteSet(P) /\ i \notin P
  BY HeldNat
<1>3. Cardinality(P \union {i}) = Cardinality(P) + 1
  BY <1>2, FS_AddElement
<1> QED
  BY <1>1, <1>3 DEF Held

\* The pbufs in the hands of SetupRxBds.
LEMMA RearmingNat == IsFiniteSet(Rearming) /\ Cardinality(Rearming) \in Nat
<1>1. IsFiniteSet(Ctx)
  <2>1. IsFiniteSet({} \union {"thread"})
    BY FS_EmptySet, FS_AddElement
  <2>2. IsFiniteSet(({} \union {"thread"}) \union {"isr"})
    BY <2>1, FS_AddElement
  <2>3. Ctx = ({} \union {"thread"}) \union {"isr"}
    BY DEF Ctx
  <2> QED
    BY <2>2, <2>3
<1>2. Rearming \in SUBSET Ctx
  BY DEF Rearming
<1> QED
  BY <1>1, <1>2, FS_Subset, FS_CardinalityType

LEMMA RearmingSame ==
  ASSUME \A c \in Ctx :
           pc'[c] \in {"rearm", "setbuf"} <=> pc[c] \in {"rearm", "setbuf"}
  PROVE  Cardinality(Rearming)' = Cardinality(Rearming)
<1>1. Rearming' = Rearming
  BY DEF Rearming
<1> QED
  BY <1>1

LEMMA RearmingBegin ==
  ASSUME TypeOK, NEW c \in Ctx, pc[c] = "setup",
         pc' = [pc EXCEPT ![c] = "rearm"]
  PROVE  Cardinality(Rearming)' = Cardinality(Rearming) + 1
<1>1. Rearming' = Rearming \union {c} /\ c \notin Rearming
  BY DEF Rearming, TypeOK
<1> QED
  BY <1>1, RearmingNat, FS_AddElement

LEMMA RearmingEnd ==
  ASSUME TypeOK, NEW c \in Ctx, pc[c] = "setbuf",
         pc' = [pc EXCEPT ![c] = "setup"]
  PROVE  Cardinality(Rearming)' = Cardinality(Rearming) - 1
<1>1. Rearming' = Rearming \ {c} /\ c \in Rearming
  BY DEF Rearming, TypeOK
<1> QED
  BY <1>1, RearmingNat, FS_RemoveElement

\* No step loses a pbuf or frees one twice.
LEMMA PbufsStep ==
  TypeOK /\ LocalInv /\ OrderlyInv /\ PbufsConserved /\ [Next]_vars
    => PbufsConserved'
<1> SUFFICES ASSUME TypeOK, LocalInv, OrderlyInv, PbufsConserved, [Next]_vars,
                    "nested" \notin trouble'
             PROVE  PbufsConserved'
  BY DEF PbufsConserved
<1> DEFINE r == Cardinality(Rearming)
           InHand(c) == pc[c] \in {"rearm", "setbuf"}
<1>1. /\ pool \in Nat /\ stack \in Nat /\ Len(recv_q) \in Nat
      /\ Held \in Nat /\ r \in Nat /\ PoolSize \in Nat
  <2>1. Held \in Nat
    BY HeldNat DEF Held
  <2>2. pool \in Nat /\ stack \in Nat /\ Len(recv_q) \in Nat
    BY DEF TypeOK
  <2> QED
    BY <2>1, <2>2, RearmingNat, RxAssumption
<1>2. trouble \subseteq trouble'
  BY TroubleGrows
<1>3. Orderly /\ pool + stack + Len(recv_q) + Held + r = PoolSize
  BY <1>2 DEF OrderlyInv, PbufsConserved
<1> SUFFICES pool' + stack' + Len(recv_q') + Held' + r' = PoolSize
  BY DEF PbufsConserved
<1> HIDE DEF r
<1>4. ASSUME UNCHANGED <<pool, stack, recv_q, storage>>,
             \A c \in Ctx : InHand(c)' <=> InHand(c)
      PROVE  pool' + stack' + Len(recv_q') + Held' + r' = PoolSize
  <2>1. r' = r
    BY <1>4, RearmingSame DEF r
  <2>2. Held' = Held
    BY <1>4 DEF Held
  <2> QED
    BY <1>3, <1>4, <2>1, <2>2
<1>5. ASSUME pc' = pc PROVE r' = r
  BY <1>5, RearmingSame DEF r
<1>6. CASE \/ DmaReceive \/ (\E e \in AllErrors : DmaDrop(e))
           \/ SemTake \/ SemEmpty \/ EnableRxIrq
           \/ FXmacIntrHandler \/ FXmacErrorHandler \/ UNCHANGED vars
  <2> USE DEF DmaReceive, DmaDrop, SemTake, SemEmpty, EnableRxIrq,
        FXmacIntrHandler, FXmacErrorHandler, vars, bdVars, bufVars
  <2>1. UNCHANGED <<pool, stack, recv_q, storage>>
    BY <1>6
  <2>2. \A c \in Ctx : InHand(c)' <=> InHand(c)
    BY <1>6 DEF Goto, At, TypeOK
  <2> QED
    BY <1>4, <2>1, <2>2
<1>7. CASE StackFree
  <2>1. /\ stack > 0 /\ stack' = stack - 1 /\ pool' = pool + 1
        /\ UNCHANGED <<recv_q, storage, pc>>
    BY <1>7 DEF StackFree, bdVars
  <2>2. Held' = Held /\ r' = r
    BY <1>5, <2>1 DEF Held
  <2> QED
    BY <1>1, <1>3, <2>1, <2>2
<1>8. CASE FXmacHandleDmaTxError
  <2> DEFINE have == pool + Held + Len(recv_q)
             m == IF have < N THEN have ELSE N
  <2>1. m \in 0 .. N /\ have \in Nat
    BY RebuildCount
  <2>2. /\ storage' = Armed(m) /\ pool' = have - m /\ recv_q' = <<>>
        /\ UNCHANGED <<stack, pc>>
    BY <1>8 DEF FXmacHandleDmaTxError
  <2>3. have = pool + Held + Len(recv_q)
    OBVIOUS
  <2> HIDE DEF have, m
  <2>4. Held' = m
    BY <2>1, <2>2, ArmedHeld DEF Held
  <2>5. r' = r /\ Len(recv_q') = 0
    BY <1>5, <2>2
  <2> QED
    BY <1>1, <1>3, <2>1, <2>2, <2>3, <2>4, <2>5
<1>9. ASSUME NEW c \in Ctx,
             \/ ClearRxStatus(c) \/ CallFromHwRx(c) \/ FetchBds(c)
             \/ FreeBds(c) \/ SetupDone(c)
             \/ ClearBd(c) \/ Drained(c)
      PROVE  pool' + stack' + Len(recv_q') + Held' + r' = PoolSize
  <2> USE DEF ClearRxStatus, CallFromHwRx, FetchBds, FreeBds, SetupDone,
        SetupReturn, ClearBd, Drained, bdVars, bufVars
  <2>1. UNCHANGED <<pool, stack, recv_q, storage>>
    BY <1>9
  <2>2. \A d \in Ctx : InHand(d)' <=> InHand(d)
    <3>1. CASE ClearBd(c)
      BY <3>1 DEF Goto, At, TypeOK
    <3>2. CASE ~ClearBd(c)
      <4>1. /\ pc[c] \notin {"rearm", "setbuf"}
            /\ \E l : l \notin {"rearm", "setbuf"} /\ pc' = [pc EXCEPT ![c] = l]
        BY <1>9, <3>2 DEF Goto, At
      <4> QED
        BY <4>1 DEF TypeOK
    <3> QED
      BY <3>1, <3>2
  <2> QED
    BY <1>4, <2>1, <2>2
<1>10. ASSUME NEW c \in Ctx, ProcessBd(c)
       PROVE  pool' + stack' + Len(recv_q') + Held' + r' = PoolSize
  <2> DEFINE i == SeekAhead(rxbdset[c], k[c])
  <2>1. i \in BD
    BY SeekAheadType DEF TypeOK
  <2>2. r' = r
    <3>1. \A d \in Ctx : InHand(d)' <=> InHand(d)
      BY <1>10 DEF ProcessBd, Goto, At, TypeOK
    <3> QED
      BY <3>1, RearmingSame DEF r
  <2>3. stack' = stack
    BY <1>10 DEF ProcessBd
  <2>4. CASE storage[i]
    <3>1. /\ storage' = [storage EXCEPT ![i] = FALSE]
          /\ recv_q' = FXmacPqEnqueue(recv_q, frame[i])
          /\ pool' = IF Len(recv_q) = PQ_QUEUE_SIZE THEN pool + 1 ELSE pool
      BY <1>10, <2>4 DEF ProcessBd
    <3>2. Held' = Held - 1
      BY <2>1, <2>4, <3>1, HeldClear DEF TypeOK
    <3>3. CASE Len(recv_q) = PQ_QUEUE_SIZE
      <4>1. recv_q' = recv_q /\ pool' = pool + 1
        BY <3>1, <3>3 DEF FXmacPqEnqueue
      <4> QED
        BY <1>1, <1>3, <2>2, <2>3, <3>2, <4>1
    <3>4. CASE Len(recv_q) # PQ_QUEUE_SIZE
      <4>1. recv_q' = Append(recv_q, frame[i]) /\ pool' = pool
        BY <3>1, <3>4 DEF FXmacPqEnqueue
      <4>2. Len(recv_q') = Len(recv_q) + 1
        BY <4>1 DEF TypeOK
      <4> QED
        BY <1>1, <1>3, <2>2, <2>3, <3>2, <4>1, <4>2
    <3> QED
      BY <3>3, <3>4
  <2>5. CASE ~storage[i]
    <3>1. UNCHANGED <<recv_q, pool, storage>>
      BY <1>10, <2>5 DEF ProcessBd
    <3>2. Held' = Held
      BY <3>1 DEF Held
    <3> QED
      BY <1>3, <2>2, <2>3, <3>1, <3>2
  <2> QED
    BY <2>4, <2>5
<1>11. ASSUME NEW c \in Ctx, SetupBd(c)
       PROVE  pool' + stack' + Len(recv_q') + Held' + r' = PoolSize
  <2>1. /\ UNCHANGED <<stack, recv_q, storage>> /\ pc[c] = "setup" /\ pool > 0
        /\ \/ pool' = pool - 1 /\ Goto(c, "rearm")
           \/ pool' = pool /\ (Goto(c, "err") \/ Goto(c, "drain"))
    BY <1>11 DEF SetupBd, SetupReturn, At
  <2>2. Held' = Held
    BY <2>1 DEF Held
  <2>3. CASE pool' = pool - 1 /\ Goto(c, "rearm")
    <3>1. r' = r + 1
      BY <2>1, <2>3, RearmingBegin DEF Goto, r
    <3> QED
      BY <1>1, <1>3, <2>1, <2>2, <2>3, <3>1
  <2>4. CASE pool' = pool /\ (Goto(c, "err") \/ Goto(c, "drain"))
    <3>1. \A d \in Ctx : InHand(d)' <=> InHand(d)
      BY <2>1, <2>4 DEF Goto, TypeOK
    <3>2. r' = r
      BY <3>1, RearmingSame DEF r
    <3> QED
      BY <1>3, <2>1, <2>2, <2>4, <3>2
  <2> QED
    BY <2>1, <2>3, <2>4
<1>12. ASSUME NEW c \in Ctx, SetBuffer(c)
       PROVE  pool' + stack' + Len(recv_q') + Held' + r' = PoolSize
  <2>1. /\ UNCHANGED <<pool, stack, recv_q>>
        /\ pc[c] = "setbuf" /\ pc' = [pc EXCEPT ![c] = "setup"]
        /\ storage' = [storage EXCEPT ![rxbdset[c]] = TRUE]
        /\ At(c, "setbuf")
    BY <1>12 DEF SetBuffer, Goto, At, bufVars
  <2>2. Solo(c)
    BY <1>3, <2>1, RunsSolo DEF Orderly
  <2>3. Shape(c) /\ ~Wrecked(c)
    BY <1>3, <1>12, <2>2, SwitchShape, WreckedOnly DEF Orderly
  <2>4. ~storage[rxbdset[c]]
    BY <1>12, <2>3, SetBufferGood DEF Shape
  <2>5. rxbdset[c] \in BD
    BY DEF TypeOK
  <2>6. Held' = Held + 1
    BY <2>1, <2>4, <2>5, HeldSet DEF TypeOK
  <2>7. r' = r - 1
    BY <2>1, RearmingEnd DEF r
  <2> QED
    BY <1>1, <1>3, <2>1, <2>6, <2>7
<1>13. ASSUME NEW c \in Ctx, Deliver(c)
       PROVE  pool' + stack' + Len(recv_q') + Held' + r' = PoolSize
  <2>1. storage' = storage /\ \A d \in Ctx : InHand(d)' <=> InHand(d)
    BY <1>13 DEF Deliver, Goto, At, TypeOK, bdVars
  <2>2. r' = r /\ Held' = Held
    BY <2>1, RearmingSame DEF r, Held
  <2>3. CASE recv_q = <<>>
    <3>1. UNCHANGED <<pool, stack, recv_q>>
      BY <1>13, <2>3 DEF Deliver, bufVars
    <3> QED
      BY <1>3, <2>2, <3>1
  <2>4. CASE recv_q # <<>>
    <3>1. /\ recv_q' = Tail(recv_q)
          /\ \/ stack' = stack + 1 /\ pool' = pool
             \/ stack' = stack /\ pool' = pool + 1
      BY <1>13, <2>4 DEF Deliver
    <3>2. Len(recv_q') = Len(recv_q) - 1
      BY <2>4, <3>1 DEF TypeOK
    <3> DEFINE n == Len(recv_q)
               m == Len(recv_q')
    <3>3. n \in Nat /\ m = n - 1 /\ pool + stack + n + Held + r = PoolSize
      BY <1>1, <1>3, <3>2
    <3> HIDE DEF n, m
    <3>4. pool' + stack' + m + Held' + r' = PoolSize
      <4>1. CASE stack' = stack + 1 /\ pool' = pool
        BY <1>1, <2>2, <3>3, <4>1
      <4>2. CASE stack' = stack /\ pool' = pool + 1
        BY <1>1, <2>2, <3>3, <4>2
      <4> QED
        BY <3>1, <4>1, <4>2
    <3> QED
      BY <3>4 DEF m
  <2> QED
    BY <2>3, <2>4
<1> QED
  BY <1>6, <1>7, <1>8, <1>9, <1>10, <1>11, <1>12, <1>13
  DEF Next, Thread, Isr, RecvHandler, Ctx

-----------------------------------------------------------------------------
(* The invariant and what it implies *)

\* FXmacOsStart leaves a full ring, with the DMA at its first BD.
LEMMA InitIInv == Init => IInv
<1> SUFFICES ASSUME Init PROVE IInv
  OBVIOUS
<1>1. /\ ring = InitDmaRing(N) /\ storage = Armed(N) /\ addr = Armed(N)
      /\ new = [i \in BD |-> FALSE] /\ N \in 0 .. N /\ 0 \in BD
  BY RingAssumption DEF Init, BD
<1>2. /\ ring \in Ring /\ RingConsistent(ring) /\ ring.hw_cnt = N
      /\ ring.hw_head = 0 /\ ring.pre_cnt = 0 /\ ring.post_cnt = 0
      /\ ring.free_cnt = 0
  BY <1>1, InitDmaRingType, RingAssumption
<1>3. BitsOK
  <2>1. \A i \in BD : (i < N) \in BOOLEAN
    BY RingAssumption DEF BD
  <2>2. Armed(N) \in [BD -> BOOLEAN]
    BY <2>1, Zenon DEF Armed
  <2> QED
    BY <1>1, <2>2, Zenon DEF BitsOK, Init
<1>4. TypeOK
  <2>1. PoolSize - N \in Nat
    BY RingAssumption, RxAssumption
  <2>2. <<>> \in Seq(Nat)
    OBVIOUS
  <2> QED
    BY <1>1, <1>2, <1>3, <2>1, <2>2, RingAssumption
    DEF Init, TypeOK, Locations, Interrupts, Troubles
<1>5. LocalInv /\ WakeInv
  BY DEF Init, LocalInv, WakeInv, Interrupts
<1>6. pc["isr"] = "idle" /\ pc["thread"] = "idle"
  BY DEF Init, Ctx
<1>7. \A i \in BD : ~new[i] /\ storage[i]
  <2>1. \A i \in BD : ~new[i]
    BY <1>1, Zenon
  <2>2. \A i \in BD : i < N
    BY RingAssumption DEF BD
  <2>3. \A i \in BD : storage[i]
    BY <1>1, <2>2, Zenon DEF Armed
  <2> QED
    BY <2>1, <2>3
<1>8. Good(0, "isr")
  <2>1. RingPart("isr")
    BY <1>2, <1>6 DEF RingPart
  <2>2. \A i \in BD : InGroup(i, 0, N)
    BY <1>1, GroupFull
  <2>3. StoragePart("isr")
    <3>1. FirstHeld("isr") = 0 /\ CountHeld("isr") = N
      BY <1>2, <1>6 DEF FirstHeld, CountHeld
    <3> QED
      BY <1>7, <2>2, <3>1 DEF StoragePart, Holds
  <2>4. NewPart(0, "isr")
    <3>1. Usable("isr") = N
      BY <1>2, <1>6 DEF Usable
    <3>2. hwptr = SeekAhead(0, 0) /\ 0 <= N
      BY <1>1, SeekZero, RingAssumption DEF Init
    <3>3. \A j \in 0 .. N - 1 : new[SeekAhead(0, j)] <=> j < 0
      <4> SUFFICES ASSUME NEW j \in 0 .. N - 1
                   PROVE  ~new[SeekAhead(0, j)] /\ ~(j < 0)
        OBVIOUS
      <4>1. SeekAhead(0, j) \in BD
        BY <1>1, SeekAheadType, RingAssumption
      <4> QED
        BY <1>7, <4>1
    <3> QED
      BY <1>2, <2>2, <3>1, <3>2, <3>3 DEF NewPart
  <2>5. OrderPart(0, "isr")
    BY <1>6 DEF OrderPart, ToProcess, Queued, Sorted, Init
  <2> QED
    BY <2>1, <2>3, <2>4, <2>5 DEF Good, Core, WakePart
<1>9. OrderlyInv
  <2>1. Alone /\ Solo("isr")
    BY <1>6 DEF Alone, Solo, Ctx, Active
  <2>2. \A c \in Ctx : pc[c] # "fault"
    BY DEF Init
  <2> QED
    BY <1>8, <2>1, <2>2, RingAssumption DEF OrderlyInv, Orderly, Shape, Ctx
<1>10. PbufsConserved
  <2>1. Held = N
    BY <1>1, ArmedHeld DEF Held
  <2>2. Rearming = {}
    BY DEF Rearming, Init
  <2>3. Cardinality(Rearming) = 0
    BY <2>2, FS_EmptySet
  <2>4. pool = PoolSize - N /\ stack = 0 /\ Len(recv_q) = 0
    BY DEF Init
  <2> QED
    BY <2>1, <2>3, <2>4, RingAssumption, RxAssumption DEF PbufsConserved
<1> QED
  BY <1>4, <1>5, <1>9, <1>10 DEF IInv

\* Every step preserves the invariant.
LEMMA NextIInv == IInv /\ [Next]_vars => IInv'
BY BitsStep, TypeStep, LocalStep, WakeStep, OrderlyStep, PbufsStep DEF IInv

LEMMA SpecIInv == Spec => []IInv
BY InitIInv, NextIInv, PTL DEF Spec

\* Every variable keeps its type: no u32 counter leaves its range, and no
\* context leaves the ring or its locations, whatever the interrupt does.
THEOREM RxTypeCorrect == Spec => []TypeOK
<1>1. IInv => TypeOK
  BY DEF IInv
<1> QED
  BY <1>1, SpecIInv, PTL

\* The groups of the receive ring partition it while SetupRxBds finds its
\* pbufs and the error handler has not run inside FXmacRecvHandler.
THEOREM RxRingCorrect == Spec => []RingInv
<1>1. IInv => RingInv
  <2> SUFFICES ASSUME IInv, trouble \subseteq {"reset"} PROVE RingPartition
    BY DEF RingInv
  <2>1. PICK c \in Ctx : Shape(c)
    BY DEF IInv, OrderlyInv, Orderly
  <2>2. ~Wrecked(c)
    BY DEF Wrecked
  <2> QED
    BY <2>1, <2>2 DEF Shape, Good, Core, RingPart, RingPartition
<1> QED
  BY <1>1, SpecIInv, PTL

\* No context passes a NULL pbuf to pbuf_realloc or to FXmacOsRx then.
THEOREM RxNeverFaults == Spec => []NoFault
<1>1. IInv => NoFault
  BY DEF IInv, OrderlyInv, Orderly, NoFault
<1> QED
  BY <1>1, SpecIInv, PTL

\* No pbuf leaks and none is freed twice, even when SetupRxBds finds too few
\* of them, until the error handler has run inside FXmacRecvHandler.
THEOREM RxPbufsCorrect == Spec => []PbufsConserved
<1>1. IInv => PbufsConserved
  BY DEF IInv
<1> QED
  BY <1>1, SpecIInv, PTL

\* FXmacBdRingFree is called with the set at post_head, so that it never
\* refuses, also when BDs are missing.
THEOREM RxFreesInOrder == Spec => []FreedInOrder
<1>1. IInv => FreedInOrder
  <2> SUFFICES ASSUME IInv, "nested" \notin trouble, NEW c \in Ctx,
                      At(c, "free")
               PROVE  FreeOk(ring, bd_processed[c], rxbdset[c])
    BY DEF FreedInOrder, FreeInOrder
  <2>1. TypeOK /\ Orderly /\ pc[c] = "free"
    BY DEF IInv, OrderlyInv, At
  <2>2. Solo(c)
    BY <2>1, RunsSolo DEF Orderly
  <2>3. Shape(c)
    BY <2>1, <2>2, SwitchShape DEF Orderly
  <2>4. RingPart(c)
    BY <2>1, <2>3 DEF Shape, Wrecked, Active, Good, Core
  <2>5. ring.post_cnt \in 0 .. N
    BY <2>1, <2>4, RingFacts
  <2> QED
    BY <2>1, <2>4, <2>5 DEF RingPart, FreeOk
<1> QED
  BY <1>1, SpecIInv, PTL

\* A sleeping thread is not left alone with a filled BD: FXmacIntrHandler is
\* about to wake it, until the contexts have been in the ring code at once.
THEOREM RxNoLostWakeup == Spec => []NoLostWakeup
<1>1. IInv => NoLostWakeup
  <2> SUFFICES ASSUME IInv, "nested" \notin trouble, pc["thread"] = "idle",
                      pc["isr"] = "idle", sem = 0, ring.hw_cnt > 0,
                      new[ring.hw_head]
               PROVE  "RXCOMPL" \in isr \intersect ier
    BY DEF NoLostWakeup
  <2>1. TypeOK /\ Orderly /\ WakeInv
    BY DEF IInv, OrderlyInv
  <2>2. PICK c \in Ctx : Shape(c)
    BY <2>1 DEF Orderly
  <2>3. pc[c] = "idle" /\ \A d \in Ctx : pc[d] = "idle"
    BY DEF Ctx
  <2>4. PICK p \in 0 .. N : Good(p, c)
    BY <2>2, <2>3 DEF Shape, Wrecked
  <2>5. Usable(c) = ring.hw_cnt
    BY <2>3 DEF Usable
  <2>6. ring.hw_cnt \in 0 .. N /\ ring.hw_head = SeekAhead(ring.hw_head, 0)
    BY <2>1, <2>4, RingFacts, SeekZero DEF Good, Core
  <2>7. 0 \in 0 .. ring.hw_cnt - 1
    BY <2>6
  <2>8. p # 0
    BY <2>4, <2>5, <2>6, <2>7 DEF Good, Core, NewPart
  <2>9. "RXCOMPL" \in isr
    BY <2>4, <2>8 DEF Good, WakePart
  <2>10. "RXCOMPL" \in ier
    BY <2>1 DEF WakeInv
  <2> QED
    BY <2>9, <2>10
<1> QED
  BY <1>1, SpecIInv, PTL

\* lwIP gets the frames in the order of their arrival, also across a
\* rebuilt ring, until the contexts are nested.
THEOREM RxDeliversInOrder == Spec => InOrder
<1>1. IInv /\ [Next]_vars
        => [delivered' < delivered => "nested" \in trouble]_vars
  <2> SUFFICES ASSUME IInv, Next, "nested" \notin trouble
               PROVE  ~(delivered' < delivered)
    OBVIOUS
  <2>1. TypeOK /\ Orderly /\ delivered \in Nat
    BY DEF IInv, OrderlyInv, TypeOK
  <2>2. ASSUME NEW c \in Ctx, Deliver(c) PROVE delivered <= delivered'
    <3>1. At(c, "drain")
      BY <2>2 DEF Deliver
    <3>2. Solo(c)
      BY <2>1, <3>1, RunsSolo DEF Orderly
    <3>3. Shape(c) /\ ~Wrecked(c)
      BY <2>1, <2>2, <3>2, SwitchShape, WreckedOnly DEF Orderly
    <3> QED
      BY <2>1, <2>2, <3>3, DeliverGood DEF Shape
  <2>3. delivered' \in Nat
    BY BitsStep, TypeStep DEF IInv, TypeOK
  <2>4. CASE \E c \in Ctx : Deliver(c)
    BY <2>1, <2>2, <2>3, <2>4
  <2>5. CASE ~\E c \in Ctx : Deliver(c)
    <3>1. delivered' = delivered
      BY <2>5 DEF Next, Thread, Isr, RecvHandler, Ctx, DmaReceive, DmaDrop,
         StackFree, SemTake, SemEmpty, EnableRxIrq, FXmacIntrHandler,
         FXmacErrorHandler, FXmacHandleDmaTxError, ClearRxStatus, CallFromHwRx,
         FetchBds, ProcessBd, FreeBds, SetupDone, SetupBd, ClearBd, SetBuffer, Drained,
         histVars
    <3> QED
      BY <2>1, <3>1
  <2> QED
    BY <2>4, <2>5
<1> QED
  BY <1>1, SpecIInv, PTL DEF Spec, InOrder
=============================================================================
