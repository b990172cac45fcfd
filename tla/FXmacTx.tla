------------------------------ MODULE FXmacTx ------------------------------
(***************************************************************************)
(* The transmit path of the XMAC Ethernet driver: low_level_output calls   *)
(* FXmacOsTx inside a critical section, which first reclaims the BDs of    *)
(* transmitted packets (FXmacProcessSentBds) and then queues the packet    *)
(* (FXmacSgsend).  The transmit interrupt is masked by the critical        *)
(* section, so it only runs while no send is in progress; the DMA engine   *)
(* runs beside both, and the walk over the ring is a step per BD.          *)
(*                                                                         *)
(* A packet is a number; it has some number of Frags of pbufs, one BD for  *)
(* each.                                                                   *)
(***************************************************************************)
EXTENDS FXmacBdRing, FiniteSets

CONSTANTS
  MaxPkts,    \* bound on the packets of a behaviour
  Frags,      \* the numbers of pbufs a packet may have
  Window,     \* lwIP offers a packet only while fewer BDs are unreclaimed
  TxErrors    \* transmit errors that can occur: subset of AllTxErrors

AllTxErrors == {"HRESPNOK", "TXERR", "COLLISION"}

ASSUME TxAssumption ==
  /\ MaxPkts \in Nat /\ Frags \subseteq Nat \ {0} /\ Window \in Nat
  /\ TxErrors \subseteq AllTxErrors

Pkts == 1 .. MaxPkts

VARIABLES
  ring,      \* bookkeeping of the transmit ring
  used,      \* USED bit of each BD: set by the DMA and by the driver
  last,      \* LAST bit of each BD
  storage,   \* packet whose pbuf is in tx_pbufs_storage[i], 0 for NULL
  hwptr,     \* BD the DMA uses next
  pc,        \* location of the code that runs: a send or the interrupt
  caller,    \* who called FXmacProcessSentBds
  bdset, cur, bd_limit, bd_count, bd_partial, \* locals of the walk
  pkt, frags, \* packet being sent and its number of pbufs
  sent,      \* packets the DMA has transmitted
  early,     \* a pbuf was released before its packet was transmitted
  torn       \* the DMA fetched a packet that was not complete

ringVars == <<ring, used, last, storage>>
walkVars == <<bdset, cur, bd_limit, bd_count, bd_partial>>
histVars == <<sent, early, torn>>
vars == <<ringVars, hwptr, pc, caller, walkVars, pkt, frags, histVars>>

Locations == {"idle", "fromhw", "walk", "release", "space", "fill",
              "ready", "commit", "fault"}

BitsOK ==
  /\ used \in [BD -> BOOLEAN] /\ last \in [BD -> BOOLEAN]
  /\ early \in BOOLEAN /\ torn \in BOOLEAN

\* The type of every variable; the u32 counters of the ring stay in range.
TypeOK ==
  /\ BitsOK
  /\ ring \in Ring
  /\ storage \in [BD -> 0 .. MaxPkts] /\ hwptr \in BD
  /\ pc \in Locations /\ caller \in {"send", "isr"}
  /\ bdset \in BD /\ cur \in BD /\ bd_limit \in 0 .. N
  /\ bd_count \in 0 .. N /\ bd_partial \in 0 .. bd_count
  /\ pkt \in 0 .. MaxPkts /\ frags \in Frags \union {0}
  /\ sent \subseteq Pkts

\* FXmacInitDma, transmit part: an empty ring whose BDs are all USED.
Init ==
  /\ ring = FXmacBdRingCreate
  /\ used = [i \in BD |-> TRUE] /\ last = [i \in BD |-> FALSE]
  /\ storage = [i \in BD |-> 0] /\ hwptr = 0
  /\ pc = "idle" /\ caller = "send"
  /\ bdset = 0 /\ cur = 0 /\ bd_limit = 0 /\ bd_count = 0 /\ bd_partial = 0
  /\ pkt = 0 /\ frags = 0
  /\ sent = {} /\ early = FALSE /\ torn = FALSE

-----------------------------------------------------------------------------
(* The DMA engine (external) *)

\* Number of BDs after hwptr up to the first with the LAST bit.
FrameTail(m) ==
  /\ last[SeekAhead(hwptr, m)]
  /\ \A j \in 0 .. m - 1 : ~last[SeekAhead(hwptr, j)]

\* The DMA transmits the packet at hwptr and sets the USED bit of its first
\* BD (fxmac_bd.h: "for the first buffer of a frame").
DmaTransmit ==
  /\ pc # "fault" /\ ~used[hwptr]
  /\ \E m \in 0 .. N - 1 :
       /\ FrameTail(m)
       /\ used' = [used EXCEPT ![hwptr] = TRUE]
       /\ sent' = sent \union ({storage[hwptr]} \ {0})
       /\ torn' = (torn \/ \E j \in 0 .. m :
                     \/ used[SeekAhead(hwptr, j)]
                     \/ storage[SeekAhead(hwptr, j)] # storage[hwptr])
       /\ hwptr' = SeekAhead(hwptr, m + 1)
  /\ UNCHANGED <<ring, last, storage, pc, caller, walkVars, pkt,
                 frags, early>>

-----------------------------------------------------------------------------
(* FXmacOsTx, FXmacProcessSentBds and FXmacBdRingFromHwTx *)

\* lwIP sends a packet of n pbufs.
FXmacOsTx(n) ==
  /\ pc = "idle" /\ pkt < MaxPkts /\ ring.hw_cnt < Window
  /\ pkt' = pkt + 1 /\ frags' = n
  /\ caller' = "send" /\ pc' = "fromhw"
  /\ UNCHANGED <<ringVars, hwptr, walkVars, histVars>>

Return == pc' = IF caller = "send" THEN "space" ELSE "idle"

\* The walk starts at hw_head, for as many BDs as are given to hardware.
WalkStart ==
  /\ pc = "fromhw"
  /\ bd_count' = 0 /\ bd_partial' = 0 /\ cur' = ring.hw_head
  /\ bd_limit' = IF N > ring.hw_cnt THEN ring.hw_cnt ELSE N
  /\ IF ring.hw_cnt = 0 THEN Return ELSE pc' = "walk"
  /\ UNCHANGED <<ringVars, hwptr, caller, bdset, pkt, frags, histVars>>

\* Mutants: the walk waits at a BD that is not USED; it leaves the ring.
Mut_WalkNext == IF used[cur] THEN SeekAhead(cur, 1) ELSE cur
Mut_WalkOffEnd == cur + 1

WalkNext == SeekAhead(cur, 1)

\* One turn of the while-loop: a BD that is not USED is skipped, it does not
\* end the walk.
WalkBd ==
  LET cnt == IF used[cur] THEN bd_count + 1 ELSE bd_count
      part == IF used[cur] THEN bd_partial + 1 ELSE bd_partial
  IN /\ pc = "walk" /\ bd_count < bd_limit
     /\ bd_count' = cnt
     /\ bd_partial' = IF last[cur] THEN 0 ELSE part
     /\ cur' = WalkNext
     /\ UNCHANGED <<ringVars, hwptr, pc, caller, bdset, bd_limit, pkt, frags,
                    histVars>>

\* Mutant: the BDs of the partial packet are counted in.
Mut_WholePackets == bd_count

WholePackets == bd_count - bd_partial

\* The partial packet is subtracted; the rest moves to the post group.
WalkEnd ==
  LET n == WholePackets
  IN /\ pc = "walk" /\ bd_count >= bd_limit
     /\ bd_count' = n /\ bd_partial' = 0
     /\ IF n = 0
          THEN Return /\ UNCHANGED <<ring, bdset, cur>>
          ELSE /\ ring' = TakeFromHw(ring, n)
               /\ bdset' = ring.hw_head /\ cur' = ring.hw_head
               /\ pc' = "release"
     /\ UNCHANGED <<used, last, storage, hwptr, caller, bd_limit,
                    pkt, frags, histVars>>

\* Mutant: the released pbuf stays in tx_pbufs_storage.
Mut_ReleasedStorage == storage

ReleasedStorage == [storage EXCEPT ![cur] = 0]

\* The loop of FXmacProcessSentBds: BD cur is reset and its pbuf released.
ReleaseBd ==
  /\ pc = "release" /\ bd_partial < bd_count
  /\ used' = [used EXCEPT ![cur] = TRUE]
  /\ last' = [last EXCEPT ![cur] = FALSE]
  /\ early' = (early \/ (storage[cur] # 0 /\ storage[cur] \notin sent))
  /\ storage' = ReleasedStorage
  /\ cur' = SeekAhead(cur, 1)
  /\ bd_partial' = bd_partial + 1   \* BDs released so far
  /\ UNCHANGED <<ring, hwptr, pc, caller, bdset, bd_limit, bd_count,
                 pkt, frags, sent, torn>>

ReleaseEnd ==
  /\ pc = "release" /\ bd_partial = bd_count
  /\ ring' = FXmacBdRingFree(ring, bd_count, bdset)
  /\ bd_count' = 0 /\ bd_partial' = 0
  /\ Return
  /\ UNCHANGED <<used, last, storage, hwptr, caller, bdset, cur,
                 bd_limit, pkt, frags, histVars>>

-----------------------------------------------------------------------------
(* FXmacSgsend *)

\* No free BD, or fewer than the packet needs: the packet is dropped.
DropPacket ==
  /\ pc = "space" /\ ring.free_cnt < frags
  /\ pc' = "idle"
  /\ UNCHANGED <<ringVars, hwptr, caller, walkVars, pkt, frags, histVars>>

\* Otherwise frags BDs are allocated ...
AllocBds ==
  /\ pc = "space" /\ ring.free_cnt >= frags
  /\ bdset' = ring.free_head /\ cur' = ring.free_head
  /\ ring' = FXmacBdRingAlloc(ring, frags)
  /\ pc' = "fill"
  /\ UNCHANGED <<used, last, storage, hwptr, caller, bd_limit,
                 bd_count, bd_partial, pkt, frags, histVars>>

\* ... and filled in; a BD that still has a pbuf ends the send with the BDs
\* left allocated.  bd_count is the number of BDs filled so far.
FillBd ==
  /\ pc = "fill" /\ bd_count < frags
  /\ IF storage[cur] # 0
       THEN pc' = "idle" /\ bd_count' = 0 /\ UNCHANGED <<storage, last, cur>>
       ELSE /\ storage' = [storage EXCEPT ![cur] = pkt]
            /\ last' = [last EXCEPT ![cur] = FALSE]
            /\ cur' = SeekAhead(cur, 1)
            /\ bd_count' = bd_count + 1
            /\ UNCHANGED pc
  /\ UNCHANGED <<ring, used, hwptr, caller, bdset, bd_limit,
                 bd_partial, pkt, frags, histVars>>

\* The last BD gets the LAST bit.
SetLast ==
  /\ pc = "fill" /\ bd_count = frags
  /\ last' = [last EXCEPT ![SeekAhead(bdset, frags - 1)] = TRUE]
  /\ bd_count' = 0 /\ cur' = SeekAhead(bdset, 1) /\ pc' = "ready"
  /\ UNCHANGED <<ring, used, storage, hwptr, caller, bdset, bd_limit,
                 bd_partial, pkt, frags, histVars>>

\* Mutant: the USED bits are cleared in ring order, the first BD first.
Mut_NextToClear == SeekAhead(bdset, bd_count)

NextToClear == IF bd_count + 1 < frags THEN cur ELSE bdset

\* The USED bits are cleared, the one of the first BD last of all: from then
\* on the DMA may fetch the packet.
ClearUsed ==
  /\ pc = "ready"
  /\ used' = [used EXCEPT ![NextToClear] = FALSE]
  /\ IF bd_count + 1 < frags
       THEN bd_count' = bd_count + 1 /\ UNCHANGED pc
       ELSE bd_count' = 0 /\ pc' = "commit"
  /\ cur' = SeekAhead(cur, 1)
  /\ UNCHANGED <<ring, last, storage, hwptr, caller, bdset,
                 bd_limit, bd_partial, pkt, frags, histVars>>

\* FXmacBdRingToHw; a refusal is reported to lwIP and nothing is undone.
CommitBds ==
  /\ pc = "commit"
  /\ ring' = FXmacBdRingToHw(ring, frags, bdset)
  /\ pc' = "idle"
  /\ UNCHANGED <<used, last, storage, hwptr, caller, walkVars, pkt,
                 frags, histVars>>

-----------------------------------------------------------------------------
(* The transmit errors (FXmacErrorHandler), in the interrupt *)

\* A collision reclaims BDs.
TxCollision ==
  /\ pc = "idle" /\ "COLLISION" \in TxErrors
  /\ caller' = "isr" /\ pc' = "fromhw"
  /\ UNCHANGED <<ringVars, hwptr, walkVars, pkt, frags, histVars>>

\* FXmacHandleDmaTxError, after a bus error while the DMA fetches a packet:
\* all pbufs are freed and FXmacInitDma builds an empty ring (there are
\* pbufs for the receive ring; FXmacRx has the case that there are not).
FXmacHandleDmaTxError ==
  /\ pc = "idle" /\ "HRESPNOK" \in TxErrors /\ ~used[hwptr]
  /\ ring' = FXmacBdRingCreate
  /\ used' = [i \in BD |-> TRUE] /\ last' = [i \in BD |-> FALSE]
  /\ storage' = [i \in BD |-> 0] /\ hwptr' = 0
  /\ UNCHANGED <<pc, caller, walkVars, pkt, frags, histVars>>

\* FXmacHandleTxErrors (underrun, exhausted buffers, retry limit): all pbufs
\* are freed and CleanDmaTxdescs creates the ring with sizeof(tx_bdspace)
\* BDs.  FXmacBdRingCreate clears them all, the memory behind the ring
\* included: nothing is said of what follows.
FXmacHandleTxErrors ==
  /\ pc = "idle" /\ "TXERR" \in TxErrors /\ ~used[hwptr]
  /\ storage' = [i \in BD |-> 0]
  /\ pc' = "fault"
  /\ UNCHANGED <<ring, used, last, hwptr, caller, walkVars, pkt, frags,
                 histVars>>

-----------------------------------------------------------------------------
Send ==
  \/ WalkStart \/ WalkBd \/ WalkEnd \/ ReleaseBd \/ ReleaseEnd
  \/ DropPacket \/ AllocBds \/ FillBd \/ SetLast \/ ClearUsed \/ CommitBds

Next ==
  \/ DmaTransmit \/ (\E n \in Frags : FXmacOsTx(n)) \/ Send
  \/ TxCollision \/ FXmacHandleDmaTxError \/ FXmacHandleTxErrors

Spec == Init /\ [][Next]_vars

\* The code that runs goes on; nothing is assumed of the DMA engine, which
\* stops when the link is down.
FairSpec == Spec /\ WF_vars(Send)

-----------------------------------------------------------------------------
(* Properties *)

\* The four groups of the transmit ring partition it.
TxRingInv == RingConsistent(ring)

\* Even the longest packet that is sent leaves half of the ring free.
WindowFits == \A n \in Frags : n <= N => 2 * (Window - 1 + n) <= N

\* A pbuf is released only after its packet has been transmitted: the BDs
\* FXmacBdRingFromHwTx returns have been processed by hardware.
NoEarlyRelease == ~early

\* The DMA only ever fetches complete packets: the USED bit of the first BD
\* is the last to be cleared.
NoTornPacket == ~torn

\* BDs that are free or being filled hold no pbuf of a packet in flight, and
\* between sends every BD given to hardware holds one.
StorageMatchesRing ==
  pc = "idle" =>
    \A i \in BD : storage[i] # 0 <=> InGroup(i, ring.hw_head, ring.hw_cnt)

\* FXmacSgsend never meets a BD of its own allocation that still has a pbuf:
\* its "PBUFS not available" exit, which would leave the BDs allocated for
\* ever, is dead code.
FillNeverRefused == pc = "fill" /\ bd_count < frags => storage[cur] = 0

\* Every send ends, whatever the DMA engine does: the walk over the ring
\* counts its way to bd_limit although it skips unprocessed BDs.
SendTerminates == pc = "fromhw" ~> pc = "idle"
=============================================================================
