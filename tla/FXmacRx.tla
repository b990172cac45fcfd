------------------------------ MODULE FXmacRx ------------------------------
(***************************************************************************)
(* The receive path of the XMAC Ethernet driver under FreeRTOS and lwIP:   *)
(* the DMA engine fills the BDs of the receive ring, the interrupt         *)
(* FXmacIntrHandler wakes the lwIP input thread, and FXmacRecvHandler      *)
(* fetches the filled BDs, queues their pbufs in recv_q, frees the BDs,    *)
(* re-arms them with fresh pbufs (SetupRxBds) and hands the queue to lwIP. *)
(*                                                                         *)
(* FXmacRecvHandler runs in two contexts: the input thread and, for the    *)
(* receive errors, the interrupt itself (FXmacErrorHandler).  They share   *)
(* every variable without a lock; the interrupt preempts the thread        *)
(* between any two steps and runs to its end before the thread resumes,    *)
(* while the DMA engine runs beside both.                                  *)
(*                                                                         *)
(* A call of a ring operation (FXmacBdRingFromHwRx, FXmacBdRingFree, Alloc *)
(* with ToHw) is one step.  That is exact as long as one context at a time *)
(* is in this code, and `trouble' records "nested" as soon as the error    *)
(* handler runs while the thread is anywhere from the call of              *)
(* FXmacBdRingFromHwRx to the end of the queue.  From then on the program  *)
(* has more behaviours than the model (an interrupt between the load and   *)
(* the store of hw_cnt, for one), and the properties claim nothing.        *)
(*                                                                         *)
(* Pbufs are counted, not named: `pool' is what pbuf_alloc can still give  *)
(* and `stack' what lwIP holds.  A frame is its arrival number.            *)
(***************************************************************************)
EXTENDS FXmacBdRing, FiniteSets, Sequences

CONSTANTS
  PoolSize,       \* PBUF_POOL_SIZE
  StackMax,       \* pbufs lwIP can hold: netif->input fails beyond it
  PQ_QUEUE_SIZE,  \* capacity of recv_q
  SEMAPHORE_MAXCOUNT,  \* maximum of sem_rx_data_available
  MaxFrames,      \* bound on the frames the DMA stores in a behaviour
  MaxDrops,       \* bound on the frames it drops
  RxErrors        \* receive errors that can occur: subset of AllErrors

NullBd == N     \* the queue pointer FXmacDmaReset sets: no reception
AllErrors == {"HRESPNOK", "RXOVR", "BUFFNA"}

ASSUME RxAssumption ==
  /\ PoolSize \in Nat /\ PoolSize >= N
  /\ StackMax \in Nat /\ MaxFrames \in Nat /\ MaxDrops \in Nat
  /\ PQ_QUEUE_SIZE \in Nat /\ PQ_QUEUE_SIZE >= N
  /\ SEMAPHORE_MAXCOUNT \in Nat \ {0}
  /\ RxErrors \subseteq AllErrors

Ctx == {"thread", "isr"}

\* History: SetupRxBds has left BDs without a pbuf, the error handler has
\* run while the thread was in the ring code, the ring was rebuilt.
Troubles == {"starved", "nested", "reset"}

VARIABLES
  ring,       \* bookkeeping of the receive ring
  new,        \* NEW bit of each BD: set by the DMA, cleared by the driver
  addr,       \* whether the address word of each BD names a buffer
  storage,    \* whether rx_pbufs_storage[i] is non-NULL
  frame,      \* the frame in the buffer of each BD
  pool, stack, recv_q,
  hwptr,      \* BD the DMA uses next, or NullBd
  isr, ier,   \* interrupt status and enabled interrupts
  rxsr,       \* receive status register
  sem,        \* count of sem_rx_data_available
  pc,         \* location of each context
  rxbdset, bd_processed, k,  \* locals of FXmacRecvHandler
  freebds,    \* local of SetupRxBds
  rx_queue_len,
  errw,       \* error bits FXmacErrorHandler has still to look at
  rcvd, drops, \* frames that were stored and dropped
  delivered,  \* last frame handed to lwIP
  wild,       \* the DMA has written through a BD without a buffer
  trouble     \* what has happened: subset of Troubles

bdVars == <<ring, new, addr, storage, frame>>
bufVars == <<pool, stack, recv_q>>
hwVars == <<hwptr, isr, ier, rxsr, sem>>
localVars == <<rxbdset, bd_processed, k, freebds, rx_queue_len, errw>>
histVars == <<rcvd, drops, delivered, wild, trouble>>
vars == <<bdVars, bufVars, hwVars, pc, localVars, histVars>>

Interrupts == {"RXCOMPL", "RXUSED", "RXOVR", "HRESPNOK"}
Locations == {"idle", "ier", "recv", "fromhw", "walk", "proc", "free",
              "setup", "rearm", "setbuf", "drain", "semtry", "err", "fault"}

BitsOK ==
  /\ new \in [BD -> BOOLEAN] /\ addr \in [BD -> BOOLEAN]
  /\ storage \in [BD -> BOOLEAN] /\ wild \in BOOLEAN

\* The type of every variable; the u32 counters of the ring and of
\* SetupRxBds stay in range.
TypeOK ==
  /\ ring \in Ring /\ BitsOK /\ frame \in [BD -> Nat]
  /\ pool \in Nat /\ stack \in Nat /\ recv_q \in Seq(Nat)
  /\ hwptr \in BD \union {NullBd}
  /\ isr \subseteq Interrupts /\ ier \subseteq Interrupts
  /\ rxsr \subseteq AllErrors /\ sem \in 0 .. SEMAPHORE_MAXCOUNT
  /\ pc \in [Ctx -> Locations]
  /\ rxbdset \in [Ctx -> BD] /\ bd_processed \in [Ctx -> 0 .. N]
  /\ k \in [Ctx -> 0 .. N] /\ freebds \in [Ctx -> 0 .. U32 - 1]
  /\ rx_queue_len \in [Ctx -> Nat] /\ errw \subseteq AllErrors
  /\ rcvd \in Nat /\ drops \in Nat /\ delivered \in Nat
  /\ trouble \subseteq Troubles

-----------------------------------------------------------------------------
(* Start-up *)

\* FXmacInitDma with m pbufs at hand: it arms BDs until pbuf_alloc fails.
Armed(m) == [i \in BD |-> i < m]
InitDmaRing(m) ==
  [FXmacBdRingCreate EXCEPT !.free_cnt = N - m, !.hw_cnt = m,
     !.free_head = SeekAhead(0, m), !.pre_head = SeekAhead(0, m),
     !.hw_tail = SeekAhead(0, m)]

\* The state after FXmacOsInit and FXmacOsStart.
Init ==
  /\ ring = InitDmaRing(N) /\ new = [i \in BD |-> FALSE]
  /\ addr = Armed(N) /\ storage = Armed(N) /\ frame = [i \in BD |-> 0]
  /\ pool = PoolSize - N /\ stack = 0 /\ recv_q = <<>>
  /\ hwptr = 0 /\ isr = {} /\ ier = Interrupts /\ rxsr = {} /\ sem = 0
  /\ pc = [c \in Ctx |-> "idle"]
  /\ rxbdset = [c \in Ctx |-> 0] /\ bd_processed = [c \in Ctx |-> 0]
  /\ k = [c \in Ctx |-> 0] /\ freebds = [c \in Ctx |-> 0]
  /\ rx_queue_len = [c \in Ctx |-> 0] /\ errw = {}
  /\ rcvd = 0 /\ drops = 0 /\ delivered = 0 /\ wild = FALSE
  /\ trouble = {}

-----------------------------------------------------------------------------
(* The DMA engine (external: what the driver expects of the hardware) *)

\* A frame arrives and the next BD is the hardware's.
DmaReceive ==
  /\ rcvd < MaxFrames /\ hwptr # NullBd /\ ~new[hwptr]
  /\ new' = [new EXCEPT ![hwptr] = TRUE]
  /\ frame' = [frame EXCEPT ![hwptr] = rcvd + 1]
  /\ wild' = (wild \/ ~addr[hwptr])
  /\ hwptr' = SeekAhead(hwptr, 1)
  /\ isr' = isr \union {"RXCOMPL"}
  /\ rcvd' = rcvd + 1
  /\ UNCHANGED <<ring, addr, storage, bufVars, ier, rxsr, sem, pc, localVars,
                 drops, delivered, trouble>>

\* A frame arrives and is dropped: the next BD is still the driver's
\* (BUFFNA), the receive FIFO overflows (RXOVR) or the bus fails (HRESPNOK).
ErrorInterrupt(e) == IF e = "BUFFNA" THEN "RXUSED" ELSE e

DmaDrop(e) ==
  /\ drops < MaxDrops /\ e \in RxErrors
  /\ e = "BUFFNA" => hwptr # NullBd /\ new[hwptr]
  /\ isr' = isr \union {ErrorInterrupt(e)}
  /\ rxsr' = rxsr \union {e}
  /\ drops' = drops + 1
  /\ UNCHANGED <<bdVars, bufVars, hwptr, ier, sem, pc, localVars, rcvd,
                 delivered, wild, trouble>>

\* lwIP is done with a pbuf and frees it.
StackFree ==
  /\ stack > 0
  /\ stack' = stack - 1 /\ pool' = pool + 1
  /\ UNCHANGED <<bdVars, recv_q, hwVars, pc, localVars, histVars>>

-----------------------------------------------------------------------------
(* Interrupt entry *)

Goto(c, l) == pc' = [pc EXCEPT ![c] = l]

\* The thread only runs while the interrupt does not.
At(c, l) == pc[c] = l /\ (c = "thread" => pc["isr"] = "idle")

\* xSemaphoreGiveFromISR: a give at the maximum is lost.
SemGive(n) == IF n = SEMAPHORE_MAXCOUNT THEN n ELSE n + 1

\* FXmacIntrHandler, receive part: RXCOMPL wakes the input thread through
\* FXmacRecvSemaphoreHandler, which also disables RXCOMPL, and clears the
\* BUFFNA bit of RXSR; a receive error that is left in RXSR is passed to
\* FXmacErrorHandler.
FXmacIntrHandler ==
  LET compl == "RXCOMPL" \in isr
      rxerr == isr \ {"RXCOMPL"} # {}
      left == IF compl THEN rxsr \ {"BUFFNA"} ELSE rxsr
  IN /\ pc["isr"] = "idle" /\ isr \intersect ier # {}
     /\ isr' = {}
     /\ ier' = IF compl THEN ier \ {"RXCOMPL"} ELSE ier
     /\ sem' = IF compl THEN SemGive(sem) ELSE sem
     /\ rxsr' = IF rxerr THEN {} ELSE left
     /\ errw' = IF rxerr THEN left ELSE {}
     /\ Goto("isr", IF rxerr /\ left # {} THEN "err" ELSE "idle")
     /\ UNCHANGED <<bdVars, bufVars, hwptr, rxbdset, bd_processed, k,
                    freebds, rx_queue_len, histVars>>

\* The thread is between the call of FXmacBdRingFromHwRx and the end of the
\* queue.
ThreadInside ==
  pc["thread"] \in
    {"walk", "proc", "free", "setup", "rearm", "setbuf", "drain"}
Nested == IF ThreadInside THEN {"nested"} ELSE {}

\* FXmacErrorHandler: receive overrun and missing buffers run
\* FXmacRecvHandler and then SetupRxBds, in this order of bits.
FXmacErrorHandler ==
  /\ At("isr", "err") /\ "HRESPNOK" \notin errw
  /\ \/ /\ errw = {} /\ Goto("isr", "idle") /\ UNCHANGED errw
     \/ /\ "RXOVR" \in errw /\ Goto("isr", "recv")
        /\ errw' = errw \ {"RXOVR"}
     \/ /\ errw = {"BUFFNA"} /\ Goto("isr", "recv") /\ errw' = {}
  /\ trouble' = IF errw = {} THEN trouble ELSE trouble \union Nested
  /\ UNCHANGED <<bdVars, bufVars, hwVars, rxbdset, bd_processed, k, freebds,
                 rx_queue_len, rcvd, drops, delivered, wild>>

\* FXmacHandleDmaTxError: free every pbuf of the ring and of recv_q, reset
\* the controller, build the ring again with the pbufs there are, restart.
\* FXmacInitDma sets the queue pointer only when all BDs could be armed, and
\* its result is ignored.
Held == Cardinality({i \in BD : storage[i]})

FXmacHandleDmaTxError ==
  LET have == pool + Held + Len(recv_q)
      m == IF have < N THEN have ELSE N
  IN /\ At("isr", "err") /\ "HRESPNOK" \in errw
     /\ errw' = errw \ {"HRESPNOK"}
     /\ ring' = InitDmaRing(m) /\ new' = [i \in BD |-> FALSE]
     /\ addr' = Armed(m) /\ storage' = Armed(m)
     /\ pool' = have - m /\ recv_q' = <<>>
     /\ hwptr' = IF m = N THEN 0 ELSE NullBd
     /\ isr' = {} /\ ier' = Interrupts /\ rxsr' = {}
     /\ trouble' = trouble \union Nested \union {"reset"}
     /\ UNCHANGED <<frame, stack, sem, pc, rxbdset, bd_processed, k, freebds,
                    rx_queue_len, rcvd, drops, delivered, wild>>

-----------------------------------------------------------------------------
(* The input thread: LwipPortInputThread and ethernetif_input *)

\* sys_arch_sem_wait, or the xSemaphoreTake(.., 0) that ends the do-loop.
SemTake ==
  /\ At("thread", "idle") \/ At("thread", "semtry")
  /\ sem > 0 /\ sem' = sem - 1 /\ Goto("thread", "ier")
  /\ UNCHANGED <<bdVars, bufVars, hwptr, isr, ier, rxsr, localVars, histVars>>

SemEmpty ==
  /\ At("thread", "semtry") /\ sem = 0 /\ Goto("thread", "idle")
  /\ UNCHANGED <<bdVars, bufVars, hwVars, localVars, histVars>>

\* Mutant: the receive interrupt stays disabled.
Mut_EnableRxIrq ==
  /\ At("thread", "ier") /\ Goto("thread", "recv")
  /\ UNCHANGED <<bdVars, bufVars, hwVars, localVars, histVars>>

EnableRxIrq ==
  /\ At("thread", "ier")
  /\ ier' = ier \union {"RXCOMPL"} /\ Goto("thread", "recv")
  /\ UNCHANGED <<bdVars, bufVars, hwptr, isr, rxsr, sem, localVars, histVars>>

-----------------------------------------------------------------------------
(* FXmacRecvHandler, in either context *)

ClearRxStatus(c) ==
  /\ At(c, "recv") /\ rxsr' = {} /\ Goto(c, "fromhw")
  /\ UNCHANGED <<bdVars, bufVars, hwptr, isr, ier, sem, localVars, histVars>>

\* FXmacBdRingFromHwRx is called: from here on the ring is in use.
CallFromHwRx(c) ==
  /\ At(c, "fromhw") /\ Goto(c, "walk")
  /\ UNCHANGED <<bdVars, bufVars, hwVars, localVars, histVars>>

\* It returns with the filled BDs; with none left the handler returns, and
\* the error handler goes on with SetupRxBds.  The DMA engine fills BDs in
\* the order of the walk, so what the walk finds is what it would find at
\* the moment of its last look.
FetchBds(c) ==
  /\ At(c, "walk")
  /\ \E n \in 0 .. N :
       /\ FromHwRxCount(ring, new, N, n)
       /\ bd_processed' = [bd_processed EXCEPT ![c] = n]
       /\ IF n = 0
            THEN /\ Goto(c, IF c = "isr" THEN "setup" ELSE "semtry")
                 /\ freebds' = [freebds EXCEPT
                                  ![c] = IF c = "isr" THEN ring.free_cnt
                                                      ELSE 0]
                 /\ UNCHANGED <<ring, rxbdset, k>>
            ELSE /\ ring' = TakeFromHw(ring, n)
                 /\ rxbdset' = [rxbdset EXCEPT ![c] = ring.hw_head]
                 /\ k' = [k EXCEPT ![c] = 0]
                 /\ Goto(c, "proc")
                 /\ UNCHANGED freebds
  /\ UNCHANGED <<new, addr, storage, frame, bufVars, hwVars, rx_queue_len,
                 errw, histVars>>

\* Mutant: the queue is a stack.
Mut_FXmacPqEnqueue(q, p) == IF Len(q) = PQ_QUEUE_SIZE THEN q ELSE <<p>> \o q

FXmacPqEnqueue(q, p) == IF Len(q) = PQ_QUEUE_SIZE THEN q ELSE Append(q, p)

\* The for-loop over the fetched BDs: the pbuf of BD k goes to recv_q, or is
\* freed when the queue is full.  pbuf_realloc does not survive a NULL pbuf.
ProcessBd(c) ==
  LET i == SeekAhead(rxbdset[c], k[c])
      full == Len(recv_q) = PQ_QUEUE_SIZE
  IN /\ At(c, "proc")
     /\ IF storage[i]
          THEN /\ recv_q' = FXmacPqEnqueue(recv_q, frame[i])
               /\ pool' = IF full THEN pool + 1 ELSE pool
               /\ storage' = [storage EXCEPT ![i] = FALSE]
               /\ k' = [k EXCEPT ![c] = @ + 1]
               /\ Goto(c, IF k[c] + 1 = bd_processed[c] THEN "free"
                                                        ELSE "proc")
          ELSE Goto(c, "fault") /\ UNCHANGED <<recv_q, pool, storage, k>>
     /\ UNCHANGED <<ring, new, addr, frame, stack, hwVars, rxbdset,
                    bd_processed, freebds, rx_queue_len, errw, histVars>>

\* FXmacBdRingFree, whose result is ignored, and the entry of SetupRxBds.
FreeBds(c) ==
  /\ At(c, "free")
  /\ ring' = FXmacBdRingFree(ring, bd_processed[c], rxbdset[c])
  /\ freebds' = [freebds EXCEPT ![c] = ring'.free_cnt]
  /\ Goto(c, "setup")
  /\ UNCHANGED <<new, addr, storage, frame, bufVars, hwVars, rxbdset,
                 bd_processed, k, rx_queue_len, errw, histVars>>

\* SetupRxBds returns: to the loop of FXmacRecvHandler, which reads the
\* length of recv_q, or (bd_processed = 0) to FXmacErrorHandler.
SetupReturn(c) ==
  IF bd_processed[c] = 0
    THEN Goto(c, "err") /\ UNCHANGED rx_queue_len
    ELSE /\ Goto(c, "drain")
         /\ rx_queue_len' = [rx_queue_len EXCEPT ![c] = Len(recv_q)]

SetupDone(c) ==
  /\ At(c, "setup")
  /\ freebds[c] = 0 \/ pool = 0
  /\ freebds' = [freebds EXCEPT ![c] = 0]
  /\ trouble' = IF freebds[c] = 0 THEN trouble ELSE trouble \union {"starved"}
  /\ SetupReturn(c)
  /\ UNCHANGED <<bdVars, bufVars, hwVars, rxbdset, bd_processed, k, errw,
                 rcvd, drops, delivered, wild>>

\* One turn of the loop of SetupRxBds: pbuf_alloc, Alloc and ToHw; if the
\* ring refuses, the pbuf is freed and SetupRxBds returns.
SetupBd(c) ==
  LET bd == ring.free_head
      r1 == FXmacBdRingAlloc(ring, 1)
  IN /\ At(c, "setup") /\ freebds[c] > 0 /\ pool > 0
     /\ rxbdset' = [rxbdset EXCEPT ![c] = bd]
     /\ \/ /\ AllocOk(ring, 1) /\ ToHwOk(r1, 1, bd)
           /\ ring' = FXmacBdRingToHw(r1, 1, bd)
           /\ pool' = pool - 1
           /\ freebds' = [freebds EXCEPT ![c] = @ - 1]
           /\ Goto(c, "rearm") /\ UNCHANGED rx_queue_len
        \/ /\ ~(AllocOk(ring, 1) /\ ToHwOk(r1, 1, bd))
           /\ ring' = IF AllocOk(ring, 1) THEN FXmacBdRingUnAlloc(r1, 1)
                                          ELSE ring
           /\ freebds' = [freebds EXCEPT ![c] = 0]
           /\ SetupReturn(c) /\ UNCHANGED pool
     /\ UNCHANGED <<new, addr, storage, frame, stack, recv_q, hwVars,
                    bd_processed, k, errw, histVars>>

\* The BD is already in the hw group when its words are cleared, NEW bit and
\* address together, ...
ClearBd(c) ==
  /\ At(c, "rearm")
  /\ new' = [new EXCEPT ![rxbdset[c]] = FALSE]
  /\ addr' = [addr EXCEPT ![rxbdset[c]] = FALSE]
  /\ Goto(c, "setbuf")
  /\ UNCHANGED <<ring, storage, frame, bufVars, hwVars, localVars, histVars>>

\* Mutant: the pbuf is not entered in rx_pbufs_storage.
Mut_SetBuffer(c) ==
  /\ At(c, "setbuf")
  /\ addr' = [addr EXCEPT ![rxbdset[c]] = TRUE]
  /\ Goto(c, "setup")
  /\ UNCHANGED <<ring, new, storage, frame, bufVars, hwVars, localVars,
                 histVars>>

\* ... and only then gets the address of its pbuf.
SetBuffer(c) ==
  /\ At(c, "setbuf")
  /\ addr' = [addr EXCEPT ![rxbdset[c]] = TRUE]
  /\ storage' = [storage EXCEPT ![rxbdset[c]] = TRUE]
  /\ Goto(c, "setup")
  /\ UNCHANGED <<ring, new, frame, bufVars, hwVars, localVars, histVars>>

\* The while-loop that hands recv_q to lwIP (FXmacOsRx): lwIP takes the
\* pbuf, or it is freed (unknown type, or netif->input fails).  FXmacOsRx
\* asserts that the pbuf is not NULL.
Deliver(c) ==
  /\ At(c, "drain") /\ rx_queue_len[c] > 0
  /\ IF recv_q = <<>>
       THEN Goto(c, "fault") /\ UNCHANGED <<bufVars, rx_queue_len, delivered>>
       ELSE /\ \/ /\ stack < StackMax
                  /\ stack' = stack + 1 /\ UNCHANGED pool
               \/ pool' = pool + 1 /\ UNCHANGED stack
            /\ recv_q' = Tail(recv_q)
            /\ delivered' = Head(recv_q)
            /\ rx_queue_len' = [rx_queue_len EXCEPT ![c] = @ - 1]
            /\ UNCHANGED pc
  /\ UNCHANGED <<bdVars, hwVars, rxbdset, bd_processed, k, freebds, errw,
                 rcvd, drops, wild, trouble>>

Drained(c) ==
  /\ At(c, "drain") /\ rx_queue_len[c] = 0 /\ Goto(c, "fromhw")
  /\ UNCHANGED <<bdVars, bufVars, hwVars, localVars, histVars>>

-----------------------------------------------------------------------------
RecvHandler(c) ==
  \/ ClearRxStatus(c) \/ CallFromHwRx(c) \/ FetchBds(c)
  \/ ProcessBd(c) \/ FreeBds(c)
  \/ SetupDone(c) \/ SetupBd(c) \/ ClearBd(c) \/ SetBuffer(c)
  \/ Deliver(c) \/ Drained(c)

Thread == SemTake \/ SemEmpty \/ EnableRxIrq \/ RecvHandler("thread")

Isr ==
  \/ FXmacIntrHandler \/ FXmacErrorHandler \/ FXmacHandleDmaTxError
  \/ RecvHandler("isr")

Next ==
  \/ DmaReceive \/ (\E e \in AllErrors : DmaDrop(e)) \/ StackFree
  \/ Thread \/ Isr

Spec == Init /\ [][Next]_vars

\* The scheduler runs a ready thread and an enabled interrupt is taken.
Fairness == WF_vars(Thread) /\ WF_vars(Isr) /\ WF_vars(StackFree)
FairSpec == Spec /\ Fairness

-----------------------------------------------------------------------------
(* Properties *)

\* The documentation of the ring: its groups always partition it.
RingPartition == RingConsistent(ring)

\* As long as SetupRxBds finds its pbufs and the error handler has not run
\* inside FXmacRecvHandler, the four groups of the receive ring partition
\* it: no BD is lost, counted twice or in a group that does not start where
\* the previous one ends.  Errors handled while the thread sleeps, and a
\* ring rebuilt then, do no harm.
RingInv == trouble \subseteq {"reset"} => RingPartition

\* Nor does a context pass a NULL pbuf to pbuf_realloc or FXmacOsRx: the BDs
\* FXmacBdRingFromHwRx returns all carry a pbuf, and the length of recv_q
\* that the handler has read is still there when it dequeues.
NoFault ==
  trouble \subseteq {"reset"} => \A c \in Ctx : pc[c] # "fault"

\* Every pbuf is in the pool, in lwIP, in recv_q, behind one BD or in the
\* hands of one SetupRxBds: none leaks and none is freed twice, even when
\* there are too few, unless the two contexts are in the ring code at once.
Rearming == {c \in Ctx : pc[c] \in {"rearm", "setbuf"}}
PbufsConserved ==
  "nested" \in trouble \/
    pool + stack + Len(recv_q) + Held + Cardinality(Rearming) = PoolSize

\* lwIP gets the frames in the order of their arrival (until the two
\* contexts have been in the ring code at once).
InOrder == [][delivered' < delivered => "nested" \in trouble]_vars

\* A sleeping input thread has nothing left to do: if the BD at hw_head is
\* filled, the interrupt that will wake the thread is pending and enabled
\* (until the two contexts have been in the ring code at once, where the
\* interrupt may also undo an update of hw_cnt or hw_head).
NoLostWakeup ==
  (/\ "nested" \notin trouble
   /\ pc["thread"] = "idle" /\ pc["isr"] = "idle" /\ sem = 0
   /\ ring.hw_cnt > 0 /\ new[ring.hw_head])
     => "RXCOMPL" \in isr \intersect ier

\* The documentation of the ring: sets of BDs are freed in the order they
\* were fetched.  When a context calls FXmacBdRingFree its set is at
\* post_head.
FreeInOrder ==
  \A c \in Ctx :
    At(c, "free") => FreeOk(ring, bd_processed[c], rxbdset[c])

\* The same while the two contexts are not in the ring code at once.
FreedInOrder == "nested" \notin trouble => FreeInOrder

\* The DMA never writes through a BD whose address word names no buffer.
NoWildDma == ~wild

\* When no more frames arrive, every frame the DMA has stored is in the end
\* delivered, unless it was discarded with the ring or one of the troubles
\* above came first.  (MaxFrames makes the traffic of every behaviour end.)
EventuallyDelivered ==
  <>[](trouble # {} \/ \A i \in BD : new[i] => frame[i] <= delivered)
=============================================================================
