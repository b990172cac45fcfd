--------------------------- MODULE FXmacTx_proofs ---------------------------
(***************************************************************************)
(* The bookkeeping of the transmit path is right for every ring size,      *)
(* every packet length, every load and every behaviour of the DMA engine.  *)
(*                                                                         *)
(* The inductive invariant IInv says, for each location of the code, which *)
(* groups of the ring are empty and where the locals point (Locals), and   *)
(* that the BDs with a pbuf are one contiguous group (Live).  DmaInv adds  *)
(* what the bits of the BDs tell the DMA engine and the walk.              *)
(***************************************************************************)
EXTENDS FXmacTx, FXmacBdRing_proofs

\* What the groups and the local variables are at each location.
Locals ==
  /\ pc \in {"idle", "fromhw", "walk", "space"} =>
       ring.pre_cnt = 0 /\ ring.post_cnt = 0
  /\ pc \notin {"idle", "fault"} /\ caller = "send" => frags > 0 /\ pkt > 0
  /\ pc \in {"space", "fill", "ready", "commit"} =>
       frags > 0 /\ pkt > 0 /\ bd_partial = 0
  /\ pc = "space" => bd_count = 0
  /\ pc = "walk" => bd_limit <= ring.hw_cnt /\ bd_count <= bd_limit
  /\ pc = "release" =>
       /\ ring.pre_cnt = 0 /\ ring.post_cnt = bd_count
       /\ ring.post_head = bdset /\ bd_count > 0
       /\ cur = SeekAhead(bdset, bd_partial)
  /\ pc \in {"fill", "ready", "commit"} =>
       ring.post_cnt = 0 /\ ring.pre_cnt = frags /\ ring.pre_head = bdset
  /\ pc = "fill" => bd_count <= frags /\ cur = SeekAhead(bdset, bd_count)
  /\ pc = "ready" => bd_count < frags

\* The BDs that have a pbuf: those of the hw group, the fetched ones that
\* are still to be released, and the allocated ones already filled.
LiveHead == IF pc = "release" THEN cur ELSE ring.hw_head
LiveCnt ==
  ring.hw_cnt + (CASE pc = "release" -> bd_count - bd_partial
                   [] pc = "fill" -> bd_count
                   [] pc \in {"ready", "commit"} -> frags
                   [] OTHER -> 0)
Live ==
  pc # "fault" =>
    \A i \in BD : storage[i] # 0 <=> InGroup(i, LiveHead, LiveCnt)

IInv == TypeOK /\ TxRingInv /\ Locals /\ Live

\* The initial state satisfies the invariant.
LEMMA InitIInv == Init => IInv
<1> SUFFICES ASSUME Init PROVE IInv
  OBVIOUS
<1>1. TypeOK
  <2>1. BitsOK
    BY Zenon DEF Init, BitsOK
  <2> QED
    BY <2>1, CreateConsistent, RingAssumption, TxAssumption
    DEF Init, TypeOK, Locations, BD
<1>2. TxRingInv
  BY CreateConsistent DEF Init, TxRingInv
<1>3. Locals
  BY DEF Init, Locals, FXmacBdRingCreate
<1>4. Live
  <2> SUFFICES ASSUME NEW i \in BD PROVE ~InGroup(i, LiveHead, LiveCnt)
    BY DEF Live, Init
  <2>1. LiveHead = 0 /\ LiveCnt = 0 /\ 0 \in BD
    BY RingAssumption DEF Init, LiveHead, LiveCnt, FXmacBdRingCreate, BD
  <2> QED
    BY <2>1, GroupEmpty
<1> QED
  BY <1>1, <1>2, <1>3, <1>4 DEF IInv

\* The Boolean variables keep their type.
LEMMA NextBits == BitsOK /\ [Next]_vars => BitsOK'
<1> SUFFICES ASSUME BitsOK, [Next]_vars PROVE BitsOK'
  OBVIOUS
<1> USE DEF BitsOK, ringVars, walkVars, histVars
<1>1. CASE DmaTransmit
  BY <1>1, Zenon DEF DmaTransmit
<1>2. ASSUME NEW n \in Frags, FXmacOsTx(n) PROVE BitsOK'
  BY <1>2, Zenon DEF FXmacOsTx
<1>3. CASE Send
  <2>1. CASE WalkStart
    BY <2>1, Zenon DEF WalkStart
  <2>2. CASE WalkBd
    BY <2>2, Zenon DEF WalkBd
  <2>3. CASE WalkEnd
    BY <2>3, Zenon DEF WalkEnd
  <2>4. CASE ReleaseBd
    BY <2>4, Zenon DEF ReleaseBd
  <2>5. CASE ReleaseEnd
    BY <2>5, Zenon DEF ReleaseEnd
  <2>6. CASE DropPacket
    BY <2>6, Zenon DEF DropPacket
  <2>7. CASE AllocBds
    BY <2>7, Zenon DEF AllocBds
  <2>8. CASE FillBd
    BY <2>8, Zenon DEF FillBd
  <2>9. CASE SetLast
    BY <2>9, Zenon DEF SetLast
  <2>10. CASE ClearUsed
    BY <2>10, Zenon DEF ClearUsed
  <2>11. CASE CommitBds
    BY <2>11, Zenon DEF CommitBds
  <2> QED
    BY <1>3, <2>1, <2>2, <2>3, <2>4, <2>5, <2>6, <2>7, <2>8, <2>9, <2>10,
       <2>11 DEF Send
<1>4. CASE TxCollision
  BY <1>4, Zenon DEF TxCollision
<1>5. CASE FXmacHandleDmaTxError
  BY <1>5, Zenon DEF FXmacHandleDmaTxError
<1>6. CASE FXmacHandleTxErrors
  BY <1>6, Zenon DEF FXmacHandleTxErrors
<1>7. CASE UNCHANGED vars
  BY <1>7, Zenon DEF vars
<1> QED
  BY <1>1, <1>2, <1>3, <1>4, <1>5, <1>6, <1>7 DEF Next

\* Every step preserves the invariant.
LEMMA NextIInv == IInv /\ [Next]_vars => IInv'
<1> SUFFICES ASSUME IInv, [Next]_vars PROVE IInv'
  OBVIOUS
<1> USE DEF ringVars, walkVars, histVars
<1>1. TypeOK /\ TxRingInv /\ Locals /\ Live
  BY DEF IInv
<1>2. BitsOK'
  BY <1>1, NextBits DEF TypeOK
<1>3. /\ ring \in Ring /\ RingConsistent(ring)
      /\ ring.free_cnt \in 0 .. N /\ ring.pre_cnt \in 0 .. N
      /\ ring.hw_cnt \in 0 .. N /\ ring.post_cnt \in 0 .. N
      /\ ring.hw_head \in BD /\ ring.pre_head \in BD
      /\ ring.post_head \in BD /\ ring.free_head \in BD
  BY <1>1, CountersBounded DEF TypeOK, TxRingInv, Ring
<1> USE <1>1, <1>2, <1>3, RingAssumption, TxAssumption
<1>4. CASE DmaTransmit
  <2> USE <1>4 DEF DmaTransmit
  <2>1. TypeOK'
    <3>1. PICK m \in 0 .. N - 1 : hwptr' = SeekAhead(hwptr, m + 1)
      OBVIOUS
    <3>2. hwptr' \in BD
      BY <3>1, SeekAheadType DEF TypeOK
    <3>3. storage[hwptr] = 0 \/ storage[hwptr] \in Pkts
      BY DEF TypeOK, Pkts
    <3>4. sent' \subseteq Pkts
      <4> HIDE DEF DmaTransmit
      <4>1. sent' = sent \union ({storage[hwptr]} \ {0})
        BY DEF DmaTransmit
      <4>2. sent \subseteq Pkts
        BY DEF TypeOK
      <4> QED
        BY <3>3, <4>1, <4>2, Zenon
    <3> QED
      BY <3>2, <3>4 DEF TypeOK
  <2>2. TxRingInv'
    BY DEF TxRingInv
  <2>3. Locals'
    BY DEF Locals
  <2>4. Live'
    BY DEF Live, LiveHead, LiveCnt
  <2> QED
    BY <2>1, <2>2, <2>3, <2>4 DEF IInv
<1>5. ASSUME NEW n \in Frags, FXmacOsTx(n) PROVE IInv'
  <2> USE <1>5 DEF FXmacOsTx
  <2>1. TypeOK'
    BY SMT DEF TypeOK, Locations
  <2>2. TxRingInv'
    BY SMT DEF TxRingInv
  <2>3. Locals'
    BY SMT DEF Locals, TypeOK
  <2>4. Live'
    <3>1. pc' # "fault" /\ storage' = storage
          /\ LiveHead' = LiveHead /\ LiveCnt' = LiveCnt
      BY DEF LiveHead, LiveCnt, Locals, TypeOK
    <3> QED
      BY <3>1 DEF Live
  <2> QED
    BY <2>1, <2>2, <2>3, <2>4 DEF IInv
<1>6. CASE WalkStart
  <2> USE <1>6 DEF WalkStart, Return
  <2>1. TypeOK'
    BY SMT DEF TypeOK, Locations
  <2>2. TxRingInv'
    BY SMT DEF TxRingInv
  <2>3. Locals'
    BY SMT DEF Locals, TypeOK
  <2>4. Live'
    <3>1. pc' # "fault" /\ storage' = storage
          /\ LiveHead' = LiveHead /\ LiveCnt' = LiveCnt
      BY DEF LiveHead, LiveCnt, Locals, TypeOK
    <3> QED
      BY <3>1 DEF Live
  <2> QED
    BY <2>1, <2>2, <2>3, <2>4 DEF IInv
<1>7. CASE WalkBd
  <2> USE <1>7 DEF WalkBd, WalkNext
  <2>1. TypeOK'
    <3>1. cur' \in BD
      BY SeekAheadType DEF TypeOK
    <3>2. \/ bd_count' = bd_count + 1
             /\ bd_partial' \in {0, bd_partial + 1}
          \/ bd_count' = bd_count /\ bd_partial' \in {0, bd_partial}
      OBVIOUS
    <3> QED
      BY <3>1, <3>2 DEF TypeOK, Locals
  <2>2. TxRingInv'
    BY SMT DEF TxRingInv
  <2>3. Locals'
    BY SMT DEF Locals, TypeOK
  <2>4. Live'
    <3>1. pc' # "fault" /\ storage' = storage
          /\ LiveHead' = LiveHead /\ LiveCnt' = LiveCnt
      BY DEF LiveHead, LiveCnt, Locals, TypeOK
    <3> QED
      BY <3>1 DEF Live
  <2> QED
    BY <2>1, <2>2, <2>3, <2>4 DEF IInv
<1>8. CASE WalkEnd
  <2> USE <1>8 DEF WalkEnd, Return
  <2>1. CASE WholePackets = 0
    <3>1. TypeOK'
      BY <2>1 DEF TypeOK, Locations
    <3>2. TxRingInv'
      BY <2>1 DEF TxRingInv
    <3>3. Locals'
      BY <2>1 DEF Locals, TypeOK
    <3>4. Live'
      BY <2>1 DEF Live, LiveHead, LiveCnt, TypeOK
    <3> QED
      BY <3>1, <3>2, <3>3, <3>4 DEF IInv
  <2>2. CASE WholePackets # 0
    <3> DEFINE n == WholePackets
    <3>1. n \in 1 .. N /\ n <= ring.hw_cnt /\ n \in Nat
      BY <2>2 DEF WholePackets, TypeOK, Locals
    <3>2. /\ ring' \in Ring /\ RingConsistent(ring')
          /\ ring' = [ring EXCEPT !.hw_cnt = ring.hw_cnt - n,
                                  !.post_cnt = ring.post_cnt + n,
                                  !.hw_head = SeekAhead(ring.hw_head, n)]
      BY <2>2, <3>1, TakeFromHwRing
    <3>3. /\ pc' = "release" /\ bd_count' = n /\ bd_partial' = 0
          /\ bdset' = ring.hw_head /\ cur' = ring.hw_head
          /\ ring.pre_cnt = 0 /\ ring.post_cnt = 0
      BY <2>2 DEF Locals
    <3> HIDE DEF WalkEnd, n
    <3>4. TypeOK'
      BY <3>1, <3>2, <3>3 DEF TypeOK, Locations, WalkEnd
    <3>5. TxRingInv'
      BY <3>2 DEF TxRingInv
    <3>6. Locals'
      <4>1. ring.post_head = ring.hw_head
        BY <3>3 DEF RingConsistent, SeekAhead, BD
      <4>2. ring'.post_cnt = n /\ ring'.pre_cnt = 0
            /\ ring'.post_head = ring.hw_head
        BY <3>1, <3>2, <3>3, <4>1 DEF Ring
      <4>3. ring.hw_head = SeekAhead(ring.hw_head, 0)
        BY DEF SeekAhead, BD
      <4>4. caller' = caller /\ frags' = frags /\ pkt' = pkt /\ pc = "walk"
        BY DEF WalkEnd
      <4> QED
        BY <3>1, <3>3, <4>2, <4>3, <4>4 DEF Locals
    <3>7. Live'
      <4>1. LiveHead' = ring.hw_head
        BY <3>3 DEF LiveHead
      <4>2. LiveCnt' = ring.hw_cnt
        BY <3>1, <3>2, <3>3 DEF LiveCnt, Ring
      <4>3. LiveHead = ring.hw_head /\ LiveCnt = ring.hw_cnt
        BY DEF WalkEnd, LiveHead, LiveCnt
      <4>4. storage' = storage /\ pc = "walk"
        BY DEF WalkEnd
      <4> QED
        BY <4>1, <4>2, <4>3, <4>4 DEF Live
    <3> QED
      BY <3>4, <3>5, <3>6, <3>7 DEF IInv
  <2> QED
    BY <2>1, <2>2
<1>9. CASE ReleaseBd
  <2>1. /\ pc = "release" /\ bd_partial < bd_count
        /\ storage' = [storage EXCEPT ![cur] = 0]
        /\ cur' = SeekAhead(cur, 1) /\ bd_partial' = bd_partial + 1
        /\ UNCHANGED <<ring, hwptr, pc, caller, bdset, bd_limit,
                       bd_count, pkt, frags, sent>>
    BY <1>9 DEF ReleaseBd, ReleasedStorage
  <2>2. cur' = SeekAhead(bdset, bd_partial + 1)
    BY <2>1, SeekAheadAdd DEF Locals, TypeOK
  <2>3. TypeOK'
    <3>0. cur \in BD /\ 1 \in 0 .. N
      BY DEF TypeOK
    <3>1. cur' \in BD
      BY ONLY <2>1, <3>0, SeekAheadType
    <3> QED
      BY <2>1, <3>1 DEF TypeOK
  <2>4. TxRingInv'
    BY <2>1 DEF TxRingInv
  <2>5. Locals'
    BY <2>1, <2>2 DEF Locals
  <2>6. Live'
    <3>1. /\ LiveHead = cur /\ LiveHead' = SeekAhead(cur, 1)
          /\ LiveCnt \in 1 .. N /\ LiveCnt' = LiveCnt - 1
      BY <2>1 DEF LiveHead, LiveCnt, Locals, TypeOK, RingConsistent
    <3> SUFFICES ASSUME NEW i \in BD
                 PROVE  storage'[i] # 0 <=> InGroup(i, LiveHead', LiveCnt')
      BY DEF Live
    <3>2. InGroup(i, LiveHead', LiveCnt')
            <=> InGroup(i, LiveHead, LiveCnt) /\ i # cur
      BY <3>1, GroupShrink DEF TypeOK
    <3>3. storage'[i] = IF i = cur THEN 0 ELSE storage[i]
      BY <2>1 DEF TypeOK
    <3> QED
      BY <2>1, <3>2, <3>3 DEF Live
  <2> QED
    BY <2>3, <2>4, <2>5, <2>6 DEF IInv
<1>10. CASE ReleaseEnd
  <2>1. /\ pc = "release" /\ bd_partial = bd_count
        /\ ring' = FXmacBdRingFree(ring, bd_count, bdset)
        /\ bd_count' = 0 /\ bd_partial' = 0
        /\ pc' = IF caller = "send" THEN "space" ELSE "idle"
        /\ UNCHANGED <<storage, hwptr, caller, bdset, cur, bd_limit,
                       pkt, frags, sent>>
    BY <1>10 DEF ReleaseEnd, Return
  <2>2. bd_count \in Nat \ {0} /\ FreeOk(ring, bd_count, bdset)
    BY <2>1 DEF Locals, FreeOk, TypeOK
  <2>3. /\ ring' \in Ring /\ RingConsistent(ring')
        /\ ring' = [ring EXCEPT !.free_cnt = ring.free_cnt + bd_count,
                      !.post_cnt = ring.post_cnt - bd_count,
                      !.post_head = SeekAhead(ring.post_head, bd_count)]
    BY <2>1, <2>2, FreeRing
  <2>4. /\ ring'.pre_cnt = 0 /\ ring'.post_cnt = 0
        /\ ring'.hw_cnt = ring.hw_cnt /\ ring'.hw_head = ring.hw_head
    BY <2>1, <2>2, <2>3 DEF Ring, Locals
  <2>5. TypeOK'
    BY <2>1, <2>3 DEF TypeOK, Locations
  <2>6. TxRingInv'
    BY <2>3 DEF TxRingInv
  <2>7. Locals'
    BY <2>1, <2>4 DEF Locals, TypeOK
  <2>8. Live'
    <3>1. cur = ring.hw_head
      BY <2>1 DEF Locals, RingConsistent
    <3>2. LiveHead' = LiveHead /\ LiveCnt' = LiveCnt
      BY <2>1, <2>4, <3>1 DEF LiveHead, LiveCnt, TypeOK
    <3> QED
      BY <2>1, <3>2 DEF Live
  <2> QED
    BY <2>5, <2>6, <2>7, <2>8 DEF IInv
<1>11. CASE DropPacket
  <2> USE <1>11 DEF DropPacket
  <2>1. TypeOK'
    BY DEF TypeOK, Locations
  <2>2. TxRingInv'
    BY DEF TxRingInv
  <2>3. Locals'
    BY DEF Locals
  <2>4. Live'
    BY DEF Live, LiveHead, LiveCnt
  <2> QED
    BY <2>1, <2>2, <2>3, <2>4 DEF IInv
<1>12. CASE AllocBds
  <2>1. /\ pc = "space" /\ AllocOk(ring, frags)
        /\ bdset' = ring.free_head /\ cur' = ring.free_head
        /\ ring' = FXmacBdRingAlloc(ring, frags)
        /\ pc' = "fill"
        /\ UNCHANGED <<storage, hwptr, caller, bd_limit, bd_count,
                       bd_partial, pkt, frags, sent>>
    BY <1>12 DEF AllocBds, AllocOk
  <2>2. /\ ring' \in Ring /\ RingConsistent(ring') /\ frags <= N
        /\ ring' = [ring EXCEPT
                      !.free_head = SeekAhead(ring.free_head, frags),
                      !.free_cnt = ring.free_cnt - frags,
                      !.pre_cnt = ring.pre_cnt + frags]
    <3>1. frags \in Nat
      BY DEF TypeOK
    <3> QED
      BY <2>1, <3>1, AllocRing
  <2>3. /\ ring'.pre_cnt = frags /\ ring'.post_cnt = 0
        /\ ring'.pre_head = ring.pre_head
        /\ ring'.hw_cnt = ring.hw_cnt /\ ring'.hw_head = ring.hw_head
    BY <2>1, <2>2 DEF Ring, Locals, TypeOK
  <2>4. ring.free_head = ring.pre_head
        /\ ring.free_head = SeekAhead(ring.free_head, 0)
    BY <2>1 DEF RingConsistent, Locals, SeekAhead, BD
  <2>5. TypeOK'
    BY <2>1, <2>2 DEF TypeOK, Locations
  <2>6. TxRingInv'
    BY <2>2 DEF TxRingInv
  <2>7. Locals'
    BY <2>1, <2>3, <2>4 DEF Locals, TypeOK
  <2>8. Live'
    <3>1. LiveHead' = LiveHead /\ LiveCnt' = LiveCnt
      BY <2>1, <2>3 DEF LiveHead, LiveCnt, Locals
    <3> QED
      BY <2>1, <3>1 DEF Live
  <2> QED
    BY <2>5, <2>6, <2>7, <2>8 DEF IInv
<1>13. CASE FillBd
  <2>1. /\ pc = "fill" /\ bd_count < frags /\ frags <= N - ring.hw_cnt
        /\ ring.pre_head = bdset /\ cur = SeekAhead(bdset, bd_count)
    BY <1>13 DEF FillBd, Locals, RingConsistent
  <2>2. /\ LiveHead = ring.hw_head /\ LiveCnt = ring.hw_cnt + bd_count
        /\ LiveCnt \in 0 .. N - 1
    BY <2>1 DEF LiveHead, LiveCnt, TypeOK
  <2>3. cur = SeekAhead(ring.hw_head, ring.hw_cnt + bd_count)
    <3>1. cur = SeekAhead(SeekAhead(ring.hw_head, ring.hw_cnt), bd_count)
      BY <2>1 DEF RingConsistent
    <3>2. bd_count \in Nat /\ ring.hw_cnt \in Nat /\ ring.hw_cnt + bd_count <= N
      BY <2>1 DEF TypeOK
    <3> QED
      BY <3>1, <3>2, SeekAheadAdd
  <2>4. storage[cur] = 0
    BY <2>1, <2>2, <2>3, GroupEnd DEF Live, TypeOK
  <2>5. /\ storage' = [storage EXCEPT ![cur] = pkt]
        /\ cur' = SeekAhead(cur, 1) /\ bd_count' = bd_count + 1
        /\ UNCHANGED <<ring, hwptr, pc, caller, bdset, bd_limit,
                       bd_partial, pkt, frags, sent>>
    BY <1>13, <2>4 DEF FillBd
  <2>6. cur' = SeekAhead(bdset, bd_count + 1)
    <3>1. bd_count \in Nat /\ bd_count + 1 <= N /\ bdset \in BD
      BY <2>1 DEF TypeOK
    <3> QED
      BY <2>1, <2>5, <3>1, SeekAheadAdd
  <2>7. TypeOK'
    <3>1. cur' \in BD
      BY <2>5, SeekAheadType DEF TypeOK
    <3>2. bd_count' \in 0 .. N /\ bd_partial' \in 0 .. bd_count'
      BY <2>1, <2>5 DEF TypeOK
    <3> QED
      BY <2>5, <3>1, <3>2 DEF TypeOK
  <2>8. TxRingInv'
    BY <2>5 DEF TxRingInv
  <2>9. Locals'
    BY <2>1, <2>5, <2>6 DEF Locals, TypeOK
  <2>10. Live'
    <3>1. LiveHead' = LiveHead /\ LiveCnt' = LiveCnt + 1
      BY <2>1, <2>5 DEF LiveHead, LiveCnt, TypeOK
    <3> SUFFICES ASSUME NEW i \in BD
                 PROVE  storage'[i] # 0 <=> InGroup(i, LiveHead', LiveCnt')
      BY DEF Live
    <3>2. InGroup(i, LiveHead', LiveCnt')
            <=> InGroup(i, LiveHead, LiveCnt) \/ i = cur
      BY <2>2, <2>3, <3>1, GroupGrow
    <3>3. storage'[i] = IF i = cur THEN pkt ELSE storage[i]
      BY <2>5 DEF TypeOK
    <3>4. pkt # 0
      BY <2>1 DEF Locals, TypeOK
    <3> QED
      BY <2>1, <3>2, <3>3, <3>4 DEF Live
  <2> QED
    BY <2>7, <2>8, <2>9, <2>10 DEF IInv
<1>14. CASE SetLast
  <2>1. /\ pc = "fill" /\ bd_count = frags /\ pc' = "ready"
        /\ bd_count' = 0 /\ cur' = SeekAhead(bdset, 1)
        /\ UNCHANGED <<ring, storage, hwptr, caller, bdset,
                       bd_limit, bd_partial, pkt, frags, sent>>
    BY <1>14 DEF SetLast
  <2>2. TypeOK'
    <3>0. bdset \in BD /\ 1 \in 0 .. N
      BY DEF TypeOK
    <3>1. cur' \in BD
      BY ONLY <2>1, <3>0, SeekAheadType
    <3> QED
      BY <2>1, <3>1 DEF TypeOK, Locations, Locals
  <2>3. TxRingInv'
    BY <2>1 DEF TxRingInv
  <2>4. Locals'
    BY <2>1 DEF Locals
  <2>5. Live'
    <3>1. LiveHead' = LiveHead /\ LiveCnt' = LiveCnt
      BY <2>1 DEF LiveHead, LiveCnt
    <3> QED
      BY <2>1, <3>1 DEF Live
  <2> QED
    BY <2>2, <2>3, <2>4, <2>5 DEF IInv
<1>15. CASE ClearUsed
  <2>1. /\ pc = "ready" /\ cur' = SeekAhead(cur, 1)
        /\ \/ /\ bd_count + 1 < frags /\ bd_count' = bd_count + 1
              /\ pc' = pc
           \/ bd_count' = 0 /\ pc' = "commit"
        /\ UNCHANGED <<ring, storage, hwptr, caller, bdset,
                       bd_limit, bd_partial, pkt, frags, sent>>
    BY <1>15 DEF ClearUsed
  <2>2. TypeOK'
    <3>0. cur \in BD /\ 1 \in 0 .. N
      BY DEF TypeOK
    <3>1. cur' \in BD
      BY ONLY <2>1, <3>0, SeekAheadType
    <3>2. bd_count' \in 0 .. N /\ bd_partial' \in 0 .. bd_count'
      BY <2>1 DEF TypeOK, Locals
    <3> QED
      BY <2>1, <3>1, <3>2 DEF TypeOK, Locations
  <2>3. TxRingInv'
    BY <2>1 DEF TxRingInv
  <2>4. Locals'
    BY <2>1 DEF Locals
  <2>5. Live'
    <3>1. LiveHead' = LiveHead /\ LiveCnt' = LiveCnt
      BY <2>1 DEF LiveHead, LiveCnt
    <3> QED
      BY <2>1, <3>1 DEF Live
  <2> QED
    BY <2>2, <2>3, <2>4, <2>5 DEF IInv
<1>16. CASE CommitBds
  <2>1. /\ pc = "commit" /\ pc' = "idle"
        /\ ring' = FXmacBdRingToHw(ring, frags, bdset)
        /\ UNCHANGED <<storage, hwptr, caller, bdset, cur, bd_limit,
                       bd_count, bd_partial, pkt, frags, sent>>
    BY <1>16 DEF CommitBds
  <2>2. frags \in Nat \ {0} /\ ToHwOk(ring, frags, bdset)
    BY <2>1 DEF Locals, ToHwOk, TypeOK
  <2>3. /\ ring' \in Ring /\ RingConsistent(ring')
        /\ ring' = [ring EXCEPT
                      !.pre_head = SeekAhead(ring.pre_head, frags),
                      !.pre_cnt = ring.pre_cnt - frags,
                      !.hw_tail = SeekAhead(ring.pre_head, frags),
                      !.hw_cnt = ring.hw_cnt + frags]
    BY <2>1, <2>2, ToHwRing
  <2>4. /\ ring'.pre_cnt = 0 /\ ring'.post_cnt = 0
        /\ ring'.hw_cnt = ring.hw_cnt + frags /\ ring'.hw_head = ring.hw_head
    BY <2>1, <2>2, <2>3 DEF Ring, Locals
  <2>5. TypeOK'
    BY <2>1, <2>3 DEF TypeOK, Locations
  <2>6. TxRingInv'
    BY <2>3 DEF TxRingInv
  <2>7. Locals'
    BY <2>1, <2>4 DEF Locals
  <2>8. Live'
    <3>1. LiveHead' = LiveHead /\ LiveCnt' = LiveCnt
      BY <2>1, <2>2, <2>4 DEF LiveHead, LiveCnt
    <3> QED
      BY <2>1, <3>1 DEF Live
  <2> QED
    BY <2>5, <2>6, <2>7, <2>8 DEF IInv
<1>17. CASE TxCollision
  <2> USE <1>17 DEF TxCollision
  <2>1. TypeOK'
    BY DEF TypeOK, Locations
  <2>2. TxRingInv'
    BY DEF TxRingInv
  <2>3. Locals'
    BY DEF Locals
  <2>4. Live'
    BY DEF Live, LiveHead, LiveCnt
  <2> QED
    BY <2>1, <2>2, <2>3, <2>4 DEF IInv
<1>18. CASE FXmacHandleDmaTxError
  <2> USE <1>18 DEF FXmacHandleDmaTxError
  <2>1. TypeOK'
    <3>1. 0 \in BD /\ storage' \in [BD -> 0 .. MaxPkts]
      BY DEF BD
    <3> QED
      BY <3>1, CreateConsistent DEF TypeOK
  <2>2. TxRingInv'
    BY CreateConsistent DEF TxRingInv
  <2>3. Locals'
    BY DEF Locals, FXmacBdRingCreate
  <2>4. Live'
    <3>1. LiveHead' = 0 /\ LiveCnt' = 0 /\ 0 \in BD
      BY DEF LiveHead, LiveCnt, FXmacBdRingCreate, BD
    <3>2. ASSUME NEW i \in BD
          PROVE  storage'[i] = 0 /\ ~InGroup(i, LiveHead', LiveCnt')
      BY <3>1, <3>2, GroupEmpty
    <3> QED
      BY <3>2 DEF Live
  <2> QED
    BY <2>1, <2>2, <2>3, <2>4 DEF IInv
<1>19. CASE FXmacHandleTxErrors
  <2> USE <1>19 DEF FXmacHandleTxErrors
  <2>1. TypeOK'
    BY DEF TypeOK, Locations
  <2>2. TxRingInv'
    BY DEF TxRingInv
  <2>3. Locals'
    BY DEF Locals
  <2>4. Live'
    BY DEF Live
  <2> QED
    BY <2>1, <2>2, <2>3, <2>4 DEF IInv
<1>20. CASE UNCHANGED vars
  <2> USE <1>20 DEF vars
  <2>1. TypeOK'
    BY DEF TypeOK
  <2>2. TxRingInv' /\ Locals'
    BY DEF TxRingInv, Locals
  <2>3. Live'
    BY DEF Live, LiveHead, LiveCnt
  <2> QED
    BY <2>1, <2>2, <2>3 DEF IInv
<1> QED
  BY <1>4, <1>5, <1>6, <1>7, <1>8, <1>9, <1>10, <1>11, <1>12, <1>13, <1>14,
     <1>15, <1>16, <1>17, <1>18, <1>19, <1>20 DEF Next, Send

\* The invariant holds throughout every behaviour of the transmit path.
LEMMA SpecIInv == Spec => []IInv
BY InitIInv, NextIInv, PTL DEF Spec

\* Types are kept: no counter of the transmit ring ever wraps around and no
\* head leaves the ring, whatever is sent and whatever the DMA does.
THEOREM TxTypeCorrect == Spec => []TypeOK
BY SpecIInv, PTL DEF IInv

\* FXmacBdRingAlloc, ToHw, FromHwTx and Free as FXmacSgsend and
\* FXmacProcessSentBds call them keep the ring partitioned into its groups.
THEOREM TxRingCorrect == Spec => []TxRingInv
BY SpecIInv, PTL DEF IInv

\* Between sends exactly the BDs of the hw group hold a pbuf: no pbuf is
\* leaked in a free BD, none is missing from one given to hardware.
THEOREM TxStorageCorrect == Spec => []StorageMatchesRing
<1>1. IInv => StorageMatchesRing
  BY RingAssumption
  DEF IInv, Live, LiveHead, LiveCnt, StorageMatchesRing, TypeOK, Ring
<1> QED
  BY <1>1, SpecIInv, PTL

\* A BD that FXmacSgsend allocates is outside the group of those with a pbuf.
LEMMA FillInv == IInv => FillNeverRefused
<1> SUFFICES ASSUME IInv, pc = "fill", bd_count < frags
             PROVE  storage[cur] = 0
  BY DEF FillNeverRefused
<1>1. /\ ring.hw_cnt \in 0 .. N /\ ring.pre_cnt \in 0 .. N
      /\ ring.free_cnt \in 0 .. N /\ ring.post_cnt \in 0 .. N
      /\ ring.hw_head \in BD /\ bd_count \in Nat /\ cur \in BD
  BY CountersBounded DEF IInv, TypeOK, TxRingInv, Ring
<1>2. ring.hw_cnt + bd_count \in 0 .. N - 1
  BY <1>1, RingAssumption
  DEF IInv, Locals, TxRingInv, RingConsistent, TypeOK
<1>3. cur = SeekAhead(SeekAhead(ring.hw_head, ring.hw_cnt), bd_count)
  BY DEF IInv, Locals, TxRingInv, RingConsistent
<1>4. cur = SeekAhead(ring.hw_head, ring.hw_cnt + bd_count)
  BY <1>1, <1>2, <1>3, SeekAheadAdd, RingAssumption
<1> QED
  BY <1>1, <1>2, <1>4, GroupEnd DEF IInv, Live, LiveHead, LiveCnt

\* The "PBUFS not available" exit of FXmacSgsend is never taken.
THEOREM TxFillNeverRefused == Spec => []FillNeverRefused
BY FillInv, SpecIInv, PTL

-----------------------------------------------------------------------------
(***************************************************************************)
(* The DMA engine's side.  DmaInv counts the BDs from hw_head on: the      *)
(* engine has transmitted the first s of those it was given, the rest are  *)
(* whole packets that are not USED, and the free BDs behind them are blank.*)
(* As half of the ring is blank, a walk that skips BDs of packets still to *)
(* be transmitted ends before it is once round the ring.                   *)
(***************************************************************************)

(* The DMA engine's view of the ring: the BD j places behind hw_head. *)
Nth(j) == SeekAhead(ring.hw_head, j)
UsedAt(j) == used[Nth(j)]
LastAt(j) == last[Nth(j)]
PktAt(j) == storage[Nth(j)]

\* Half of the ring is free, and a send that is looking for BDs has found
\* fewer than Window of them taken.
Room ==
  /\ 2 * (ring.hw_cnt + ring.pre_cnt + ring.post_cnt) <= N
  /\ pc \in {"fromhw", "walk", "release", "space"} /\ caller = "send" =>
       ring.hw_cnt + ring.post_cnt < Window
  /\ pc = "space" => caller = "send"

\* The fetched BDs that are still to be released: the last ones of the ring
\* as seen from hw_head.  Their packets have been transmitted.
Unreleased == IF pc = "release" THEN bd_count - bd_partial ELSE 0
Fetched == \A j \in N - Unreleased .. N - 1 : PktAt(j) \in sent \union {0}

\* Free and released BDs are USED and not LAST.
Blank ==
  \A j \in ring.hw_cnt + ring.pre_cnt .. N - 1 - Unreleased :
    UsedAt(j) /\ ~LastAt(j)

\* The allocated BDs while FXmacSgsend fills them in, and while it clears
\* their USED bits, that of the first one last.
Filled ==
  /\ pc = "fill" =>
       /\ \A j \in ring.hw_cnt .. ring.hw_cnt + frags - 1 :
            UsedAt(j) /\ ~LastAt(j)
       /\ \A j \in ring.hw_cnt .. ring.hw_cnt + bd_count - 1 : PktAt(j) = pkt
  /\ pc = "ready" =>
       /\ cur = Nth(ring.hw_cnt + bd_count + 1) /\ UsedAt(ring.hw_cnt)
       /\ \A j \in ring.hw_cnt + 1 .. ring.hw_cnt + bd_count : ~UsedAt(j)
       /\ \A j \in ring.hw_cnt .. ring.hw_cnt + frags - 1 :
            PktAt(j) = pkt /\ (LastAt(j) <=> j = ring.hw_cnt + frags - 1)

\* The DMA engine has transmitted the first s BDs of those it was given.  The
\* others are whole packets that are not USED.
Given == ring.hw_cnt + (IF pc = "commit" THEN frags ELSE 0)
SamePkt(s, g) ==
  \A a, b \in s .. g - 1 :
    a <= b /\ (\A j \in a .. b - 1 : ~LastAt(j)) => PktAt(a) = PktAt(b)
Transmitted(s) ==
  /\ s <= Given /\ hwptr = Nth(s)
  /\ \A j \in 0 .. s - 1 : PktAt(j) \in sent \union {0}
  /\ \A j \in s .. Given - 1 : ~UsedAt(j)
  /\ s < Given => LastAt(Given - 1)
  /\ SamePkt(s, Given)

\* The walk has made w turns.  What it has counted in the hw group is
\* transmitted; what it counts behind it belongs to no packet.
Walked(s, w) ==
  /\ cur = Nth(w) /\ bd_limit = ring.hw_cnt
  /\ bd_count <= w /\ w <= ring.hw_cnt + bd_count
  /\ bd_count - bd_partial <= s
  /\ w <= ring.hw_cnt => bd_count <= s

Order ==
  \E s \in 0 .. N :
    Transmitted(s) /\ (pc = "walk" => \E w \in 0 .. N : Walked(s, w))

DmaInv ==
  /\ ~early /\ ~torn
  /\ pc # "fault" => Room /\ Fetched /\ Blank /\ Filled /\ Order

-----------------------------------------------------------------------------
\* What IInv says about the numbers.
LEMMA Facts ==
  ASSUME IInv
  PROVE  /\ ring \in Ring /\ ring.hw_head \in BD /\ ring.free_cnt \in 0 .. N
         /\ ring.pre_cnt \in 0 .. N /\ ring.hw_cnt \in 0 .. N
         /\ ring.post_cnt \in 0 .. N
         /\ ring.free_cnt + ring.pre_cnt + ring.hw_cnt + ring.post_cnt = N
         /\ ring.hw_head = SeekAhead(ring.post_head, ring.post_cnt)
         /\ ring.pre_head = SeekAhead(ring.hw_head, ring.hw_cnt)
         /\ ring.free_head = SeekAhead(ring.pre_head, ring.pre_cnt)
         /\ frags \in Nat /\ pkt \in 0 .. MaxPkts /\ bd_count \in 0 .. N
         /\ bd_partial \in 0 .. bd_count /\ bd_limit \in 0 .. N
         /\ cur \in BD /\ bdset \in BD /\ hwptr \in BD
         /\ used \in [BD -> BOOLEAN] /\ last \in [BD -> BOOLEAN]
         /\ storage \in [BD -> 0 .. MaxPkts]
         /\ frags > 0 => frags \in Frags
<1>1. TypeOK /\ RingConsistent(ring)
  BY DEF IInv, TxRingInv
<1>2. used \in [BD -> BOOLEAN] /\ last \in [BD -> BOOLEAN]
  BY <1>1 DEF TypeOK, BitsOK
<1>3. ring \in Ring /\ ring.hw_head \in BD
  BY <1>1 DEF TypeOK, Ring
<1>4. frags \in Nat /\ (frags > 0 => frags \in Frags)
  BY <1>1, TxAssumption DEF TypeOK
<1> QED
  BY <1>1, <1>2, <1>3, <1>4, CountersBounded DEF TypeOK, RingConsistent

\* Setting the USED bit of the BD p places behind hw_head.
LEMMA UsedSet ==
  ASSUME ring.hw_head \in BD, ring'.hw_head = ring.hw_head,
         used \in [BD -> BOOLEAN], NEW p \in 0 .. N - 1,
         used' = [used EXCEPT ![Nth(p)] = TRUE]
  PROVE  \A j \in 0 .. N - 1 : UsedAt(j)' <=> UsedAt(j) \/ j = p
<1> SUFFICES ASSUME NEW j \in 0 .. N - 1
             PROVE  used'[Nth(j)] <=> used[Nth(j)] \/ j = p
  BY DEF UsedAt, Nth
<1>1. Nth(j) \in BD /\ Nth(p) \in BD
  BY SeekAheadType, RingAssumption DEF Nth
<1>2. Nth(j) = Nth(p) <=> j = p
  BY SeekInjective DEF Nth
<1> QED
  BY <1>1, <1>2, Zenon

\* Clearing the USED bit of the BD p places behind hw_head.
LEMMA UsedClear ==
  ASSUME ring.hw_head \in BD, ring'.hw_head = ring.hw_head,
         used \in [BD -> BOOLEAN], NEW p \in 0 .. N - 1,
         used' = [used EXCEPT ![Nth(p)] = FALSE]
  PROVE  \A j \in 0 .. N - 1 : UsedAt(j)' <=> UsedAt(j) /\ j # p
<1> SUFFICES ASSUME NEW j \in 0 .. N - 1
             PROVE  used'[Nth(j)] <=> used[Nth(j)] /\ j # p
  BY DEF UsedAt, Nth
<1>1. Nth(j) \in BD /\ Nth(p) \in BD
  BY SeekAheadType, RingAssumption DEF Nth
<1>2. Nth(j) = Nth(p) <=> j = p
  BY SeekInjective DEF Nth
<1> QED
  BY <1>1, <1>2, Zenon

\* Setting its LAST bit.
LEMMA LastSet ==
  ASSUME ring.hw_head \in BD, ring'.hw_head = ring.hw_head,
         last \in [BD -> BOOLEAN], NEW p \in 0 .. N - 1,
         last' = [last EXCEPT ![Nth(p)] = TRUE]
  PROVE  \A j \in 0 .. N - 1 : LastAt(j)' <=> LastAt(j) \/ j = p
<1> SUFFICES ASSUME NEW j \in 0 .. N - 1
             PROVE  last'[Nth(j)] <=> last[Nth(j)] \/ j = p
  BY DEF LastAt, Nth
<1>1. Nth(j) \in BD /\ Nth(p) \in BD
  BY SeekAheadType, RingAssumption DEF Nth
<1>2. Nth(j) = Nth(p) <=> j = p
  BY SeekInjective DEF Nth
<1> QED
  BY <1>1, <1>2, Zenon

\* Clearing its LAST bit.
LEMMA LastClear ==
  ASSUME ring.hw_head \in BD, ring'.hw_head = ring.hw_head,
         last \in [BD -> BOOLEAN], NEW p \in 0 .. N - 1,
         last' = [last EXCEPT ![Nth(p)] = FALSE]
  PROVE  \A j \in 0 .. N - 1 : LastAt(j)' <=> LastAt(j) /\ j # p
<1> SUFFICES ASSUME NEW j \in 0 .. N - 1
             PROVE  last'[Nth(j)] <=> last[Nth(j)] /\ j # p
  BY DEF LastAt, Nth
<1>1. Nth(j) \in BD /\ Nth(p) \in BD
  BY SeekAheadType, RingAssumption DEF Nth
<1>2. Nth(j) = Nth(p) <=> j = p
  BY SeekInjective DEF Nth
<1> QED
  BY <1>1, <1>2, Zenon

\* Entering a packet, or none, in tx_pbufs_storage for it.
LEMMA PktPut ==
  ASSUME ring.hw_head \in BD, ring'.hw_head = ring.hw_head,
         storage \in [BD -> 0 .. MaxPkts], NEW p \in 0 .. N - 1, NEW v,
         storage' = [storage EXCEPT ![Nth(p)] = v]
  PROVE  \A j \in 0 .. N - 1 : PktAt(j)' = IF j = p THEN v ELSE PktAt(j)
<1> SUFFICES ASSUME NEW j \in 0 .. N - 1
             PROVE  storage'[Nth(j)] = IF j = p THEN v ELSE storage[Nth(j)]
  BY DEF PktAt, Nth
<1>1. Nth(j) \in BD /\ Nth(p) \in BD
  BY SeekAheadType, RingAssumption DEF Nth
<1>2. Nth(j) = Nth(p) <=> j = p
  BY SeekInjective DEF Nth
<1> QED
  BY <1>1, <1>2

\* A BD of the n BDs before hw_head is almost once round the ring behind it.
LEMMA SeekBehind ==
  ASSUME NEW bd \in BD, NEW n \in 0 .. N, NEW m \in 0 .. n - 1
  PROVE  SeekAhead(bd, m) = SeekAhead(SeekAhead(bd, n), N - n + m)
BY RingAssumption DEF SeekAhead, BD

\* Nothing changes for the DMA engine.
LEMMA SameView ==
  ASSUME ring'.hw_head = ring.hw_head, NEW j
  PROVE  /\ Nth(j)' = Nth(j)
         /\ used' = used => (UsedAt(j)' <=> UsedAt(j))
         /\ last' = last => (LastAt(j)' <=> LastAt(j))
         /\ storage' = storage => PktAt(j)' = PktAt(j)
BY DEF Nth, UsedAt, LastAt, PktAt

\* FXmacInitDma: nothing is given to the DMA engine.
LEMMA InitDma == Init => DmaInv
<1> SUFFICES ASSUME Init PROVE DmaInv
  OBVIOUS
<1>1. /\ ring.hw_cnt = 0 /\ ring.pre_cnt = 0 /\ ring.post_cnt = 0
      /\ ring.hw_head = 0 /\ pc = "idle" /\ hwptr = 0
  BY DEF Init, FXmacBdRingCreate
<1>2. \A j \in 0 .. N - 1 : UsedAt(j) /\ ~LastAt(j)
  <2>1. \A j \in 0 .. N - 1 : Nth(j) \in BD
    BY <1>1, RingAssumption DEF Nth, SeekAhead, BD
  <2> QED
    BY <2>1, Zenon DEF UsedAt, LastAt, Init
<1>3. Nth(0) = 0
  BY <1>1, RingAssumption DEF Nth, SeekAhead
<1>4. Transmitted(0)
  BY <1>1, <1>3 DEF Transmitted, Given, SamePkt
<1>5. Room /\ Fetched /\ Blank /\ Filled
  BY <1>1, <1>2, RingAssumption DEF Room, Fetched, Blank, Filled, Unreleased
<1>6. Order
  BY <1>1, <1>4, RingAssumption DEF Order
<1>7. ~early /\ ~torn
  BY DEF Init
<1> QED
  BY <1>5, <1>6, <1>7 DEF DmaInv

\* A step that leaves the ring and its BDs alone.
LEMMA QuietView ==
  ASSUME UNCHANGED <<ring, used, last, storage, hwptr, sent>>,
         Given' = Given, Unreleased' = Unreleased
  PROVE  /\ Fetched => Fetched'
         /\ Blank => Blank'
         /\ \A s : Transmitted(s) => Transmitted(s)'
<1>1. \A j : /\ Nth(j)' = Nth(j) /\ (UsedAt(j)' <=> UsedAt(j))
             /\ (LastAt(j)' <=> LastAt(j)) /\ PktAt(j)' = PktAt(j)
  BY SameView
<1>2. Fetched => Fetched'
  BY <1>1 DEF Fetched
<1>3. Blank => Blank'
  BY <1>1 DEF Blank
<1>4. ASSUME NEW s, Transmitted(s) PROVE Transmitted(s)'
  <2>1. SamePkt(s, Given)'
    BY <1>1, <1>4 DEF Transmitted, SamePkt
  <2> QED
    BY <1>1, <1>4, <2>1 DEF Transmitted
<1> QED
  BY <1>2, <1>3, <1>4

\* lwIP offers a packet only while fewer than Window BDs are taken.
LEMMA DmaOsTx ==
  ASSUME IInv, DmaInv, NEW n \in Frags, FXmacOsTx(n)
  PROVE  DmaInv'
<1>1. /\ pc = "idle" /\ pc' = "fromhw" /\ ring.hw_cnt < Window
      /\ UNCHANGED <<ring, used, last, storage, hwptr, sent, early, torn>>
  BY DEF FXmacOsTx, ringVars, histVars
<1>2. ring.post_cnt = 0 /\ ring.hw_cnt \in 0 .. N
  BY <1>1, Facts DEF IInv, Locals
<1>3. Given' = Given /\ Unreleased' = Unreleased
  BY <1>1 DEF Given, Unreleased
<1>4. Room'
  BY <1>1, <1>2 DEF DmaInv, Room
<1>5. Filled'
  BY <1>1 DEF Filled
<1>6. Order'
  BY <1>1, <1>3, QuietView DEF DmaInv, Order
<1> QED
  BY <1>1, <1>3, <1>4, <1>5, <1>6, QuietView DEF DmaInv

\* The interrupt starts a walk: no BD changes.
LEMMA DmaCollision ==
  ASSUME IInv, DmaInv, TxCollision
  PROVE  DmaInv'
<1>1. /\ pc = "idle" /\ pc' = "fromhw" /\ caller' = "isr"
      /\ UNCHANGED <<ring, used, last, storage, hwptr, sent, early, torn>>
  BY DEF TxCollision, ringVars, histVars
<1>3. Given' = Given /\ Unreleased' = Unreleased
  BY <1>1 DEF Given, Unreleased
<1>4. Room'
  BY <1>1 DEF DmaInv, Room
<1>5. Filled'
  BY <1>1 DEF Filled
<1>6. Order'
  BY <1>1, <1>3, QuietView DEF DmaInv, Order
<1> QED
  BY <1>1, <1>3, <1>4, <1>5, <1>6, QuietView DEF DmaInv

\* A packet that is dropped changes no BD.
LEMMA DmaDropPacket ==
  ASSUME IInv, DmaInv, DropPacket
  PROVE  DmaInv'
<1>1. /\ pc = "space" /\ pc' = "idle"
      /\ UNCHANGED <<ring, used, last, storage, hwptr, sent, early, torn>>
  BY DEF DropPacket, ringVars, histVars
<1>3. Given' = Given /\ Unreleased' = Unreleased
  BY <1>1 DEF Given, Unreleased
<1>4. Room'
  BY <1>1 DEF DmaInv, Room
<1>5. Filled'
  BY <1>1 DEF Filled
<1>6. Order'
  BY <1>1, <1>3, QuietView DEF DmaInv, Order
<1> QED
  BY <1>1, <1>3, <1>4, <1>5, <1>6, QuietView DEF DmaInv

\* The walk starts at hw_head with nothing counted.
LEMMA DmaWalkStart ==
  ASSUME IInv, DmaInv, WalkStart
  PROVE  DmaInv'
<1>1. /\ pc = "fromhw" /\ pc' \in {"walk", "space", "idle"}
      /\ (pc' = "space" => caller = "send")
      /\ bd_count' = 0 /\ bd_partial' = 0 /\ cur' = ring.hw_head
      /\ bd_limit' = IF N > ring.hw_cnt THEN ring.hw_cnt ELSE N
      /\ UNCHANGED <<ring, used, last, storage, hwptr, caller, sent, early,
                     torn>>
  BY DEF WalkStart, ringVars, histVars, Return
<1>2. ring.hw_cnt \in 0 .. N /\ ring.hw_head \in BD
  BY Facts
<1>3. Given' = Given /\ Unreleased' = Unreleased
  BY <1>1 DEF Given, Unreleased
<1>4. Room'
  BY <1>1 DEF DmaInv, Room
<1>5. Filled'
  BY <1>1 DEF Filled
<1>6. Order'
  <2>1. PICK s \in 0 .. N : Transmitted(s)
    BY <1>1 DEF DmaInv, Order
  <2>2. Transmitted(s)'
    BY <1>1, <1>3, <2>1, QuietView
  <2>3. Walked(s, 0)'
    <3>1. Nth(0)' = ring.hw_head
      BY <1>1, <1>2, SeekZero DEF Nth
    <3> QED
      BY <1>1, <1>2, <3>1, RingAssumption DEF Walked
  <2> QED
    BY <2>2, <2>3, RingAssumption DEF Order
<1> QED
  BY <1>1, <1>3, <1>4, <1>5, <1>6, QuietView DEF DmaInv

\* A turn of the walk: a USED BD of the hw group is one that was transmitted,
\* and behind the hw group every BD is USED and none is LAST.
LEMMA DmaWalkBd ==
  ASSUME IInv, DmaInv, WalkBd
  PROVE  DmaInv'
<1>1. /\ pc = "walk" /\ pc' = "walk" /\ bd_count < bd_limit
      /\ cur' = SeekAhead(cur, 1)
      /\ UNCHANGED <<ring, used, last, storage, hwptr, caller, bd_limit, sent,
                     early, torn>>
  BY DEF WalkBd, WalkNext, ringVars, histVars
<1>2. /\ used[cur] => bd_count' = bd_count + 1
      /\ ~used[cur] => bd_count' = bd_count
      /\ last[cur] => bd_partial' = 0
      /\ ~last[cur] => bd_partial' = bd_partial + (bd_count' - bd_count)
  BY Facts DEF WalkBd
<1>3. Given' = Given /\ Unreleased' = Unreleased
  BY <1>1 DEF Given, Unreleased
<1>4. Room'
  BY <1>1 DEF DmaInv, Room
<1>5. Filled'
  BY <1>1 DEF Filled
<1>6. Order'
  <2>1. PICK s \in 0 .. N, w \in 0 .. N : Transmitted(s) /\ Walked(s, w)
    BY <1>1 DEF DmaInv, Order
  <2>2. Transmitted(s)'
    BY <1>1, <1>3, <2>1, QuietView
  <2>3. /\ ring.hw_cnt \in 0 .. N /\ ring.hw_head \in BD
        /\ bd_count \in 0 .. N /\ bd_partial \in 0 .. bd_count
        /\ 2 * ring.hw_cnt <= N /\ ring.pre_cnt = 0 /\ w < 2 * ring.hw_cnt
    BY <1>1, <2>1, Facts DEF DmaInv, Room, IInv, Locals, Walked
  <2>4. w + 1 \in 0 .. N /\ cur' = Nth(w + 1)'
    BY <1>1, <2>1, <2>3, SeekAheadAdd, RingAssumption DEF Walked, Nth
  <2>5. (used[cur] <=> UsedAt(w)) /\ (last[cur] <=> LastAt(w))
    BY <2>1 DEF Walked, UsedAt, LastAt
  <2>6. CASE w < ring.hw_cnt
    <3>1. UsedAt(w) => w < s
      BY <1>1, <2>1, <2>6, <2>3 DEF Transmitted, Given
    <3> QED
      BY <1>1, <1>2, <2>1, <2>2, <2>3, <2>4, <2>5, <2>6, <3>1 DEF Order, Walked
  <2>7. CASE w >= ring.hw_cnt
    <3>1. UsedAt(w) /\ ~LastAt(w)
      BY <1>1, <2>3, <2>7, RingAssumption DEF DmaInv, Blank, Unreleased
    <3> QED
      BY <1>1, <1>2, <2>1, <2>2, <2>3, <2>4, <2>5, <2>7, <3>1 DEF Order, Walked
  <2> QED
    BY <2>3, <2>6, <2>7
<1> QED
  BY <1>1, <1>3, <1>4, <1>5, <1>6, QuietView DEF DmaInv

\* The DMA engine transmits one whole packet: its BDs up to LAST all belong to
\* the packet at hwptr, and none of them is USED.
LEMMA DmaTransmitStep ==
  ASSUME IInv, DmaInv, DmaTransmit
  PROVE  DmaInv'
<1>1. /\ pc # "fault" /\ ~used[hwptr]
      /\ used' = [used EXCEPT ![hwptr] = TRUE]
      /\ sent' = sent \union ({storage[hwptr]} \ {0})
      /\ UNCHANGED <<ring, last, storage, pc, caller, bdset, cur, bd_limit,
                     bd_count, bd_partial, pkt, frags, early>>
  BY DEF DmaTransmit, walkVars
<1>2. PICK m \in 0 .. N - 1 :
        /\ FrameTail(m) /\ hwptr' = SeekAhead(hwptr, m + 1)
        /\ torn' = (torn \/ \E j \in 0 .. m :
                     \/ used[SeekAhead(hwptr, j)]
                     \/ storage[SeekAhead(hwptr, j)] # storage[hwptr])
  BY DEF DmaTransmit
<1>3. /\ ring.hw_head \in BD /\ ring.hw_cnt \in 0 .. N
      /\ ring.pre_cnt \in 0 .. N /\ ring.post_cnt \in 0 .. N
      /\ frags \in Nat /\ used \in [BD -> BOOLEAN]
      /\ bd_count \in 0 .. N /\ bd_partial \in 0 .. bd_count
  BY Facts
<1>4. /\ pc = "commit" => ring.pre_cnt = frags
      /\ pc \in {"fill", "ready"} => frags > 0
      /\ pc \notin {"fill", "ready", "commit"} => ring.pre_cnt = 0
      /\ pc = "release" => bd_count = ring.post_cnt
  BY <1>1 DEF IInv, Locals, TypeOK, Locations
<1>5. Room /\ Fetched /\ Blank /\ Filled /\ Order
  BY <1>1 DEF DmaInv
<1>6. /\ Given \in 0 .. N - 1 /\ Given' = Given /\ Unreleased' = Unreleased
      /\ Given < N - Unreleased /\ Unreleased \in 0 .. N
      /\ ring.hw_cnt + ring.pre_cnt <= N
  BY <1>1, <1>3, <1>4, <1>5, RingAssumption DEF Room, Given, Unreleased
<1>7. PICK s \in 0 .. N :
        Transmitted(s) /\ (pc = "walk" => \E w \in 0 .. N : Walked(s, w))
  BY <1>5 DEF Order
<1>8. s <= Given /\ hwptr = Nth(s)
  BY <1>7 DEF Transmitted
<1>9. s < Given
  <2>1. ~UsedAt(s)
    BY <1>1, <1>8 DEF UsedAt
  <2> SUFFICES ASSUME s = Given PROVE FALSE
    BY <1>6, <1>8
  <2>2. CASE pc \in {"fill", "ready"}
    BY <1>3, <1>4, <1>5, <2>1, <2>2 DEF Filled, Given
  <2>3. CASE pc \notin {"fill", "ready"}
    <3>1. s = ring.hw_cnt + ring.pre_cnt
      BY <1>3, <1>4, <2>3 DEF Given
    <3> QED
      BY <1>3, <1>5, <1>6, <2>1, <3>1, RingAssumption DEF Blank
  <2> QED
    BY <2>2, <2>3
<1>10. ASSUME NEW j \in 0 .. N, s + j <= N
       PROVE  SeekAhead(hwptr, j) = Nth(s + j)
  BY <1>3, <1>8, <1>10, SeekAheadAdd, RingAssumption DEF Nth
<1>11. s + m < Given
  <2> SUFFICES ASSUME s + m >= Given PROVE FALSE
    BY <1>6
  <2> DEFINE i == Given - 1 - s
  <2>1. i \in 0 .. m - 1 /\ i \in 0 .. N /\ s + i = Given - 1 /\ s + i <= N
    BY <1>6, <1>9, RingAssumption
  <2>2. SeekAhead(hwptr, i) = Nth(Given - 1)
    BY <1>10, <2>1
  <2>3. ~last[Nth(Given - 1)]
    BY <1>2, <2>1, <2>2 DEF FrameTail
  <2> QED
    BY <1>7, <1>9, <2>3 DEF Transmitted, LastAt
<1>12. \A j \in 0 .. m : ~UsedAt(s + j) /\ PktAt(s + j) = PktAt(s)
  <2> SUFFICES ASSUME NEW j \in 0 .. m
               PROVE  ~UsedAt(s + j) /\ PktAt(s + j) = PktAt(s)
    OBVIOUS
  <2>1. s + j \in s .. Given - 1 /\ s \in s .. Given - 1 /\ s <= s + j
    BY <1>6, <1>9, <1>11, RingAssumption
  <2>2. ASSUME NEW i \in s .. s + j - 1 PROVE ~LastAt(i)
    <3>1. i - s \in 0 .. m - 1 /\ i - s \in 0 .. N /\ s + (i - s) <= N
          /\ s + (i - s) = i
      BY <1>6, <1>11, <2>1, RingAssumption
    <3>2. SeekAhead(hwptr, i - s) = Nth(i)
      BY <1>10, <3>1
    <3> QED
      BY <1>2, <3>1, <3>2 DEF FrameTail, LastAt
  <2>3. PktAt(s) = PktAt(s + j)
    BY <1>7, <2>1, <2>2 DEF Transmitted, SamePkt
  <2> QED
    BY <1>7, <2>1, <2>3 DEF Transmitted
<1>13. ~early' /\ ~torn'
  <2>1. \A j \in 0 .. m : ~used[SeekAhead(hwptr, j)]
                         /\ storage[SeekAhead(hwptr, j)] = storage[hwptr]
    <3> SUFFICES ASSUME NEW j \in 0 .. m
                 PROVE  ~used[SeekAhead(hwptr, j)]
                         /\ storage[SeekAhead(hwptr, j)] = storage[hwptr]
      OBVIOUS
    <3>1. SeekAhead(hwptr, j) = Nth(s + j)
      BY <1>6, <1>10, <1>11, RingAssumption
    <3> QED
      BY <1>8, <1>12, <3>1 DEF UsedAt, PktAt
  <2> QED
    BY <1>1, <1>2, <2>1, Zenon DEF DmaInv
<1>14. \A j : /\ Nth(j)' = Nth(j) /\ (LastAt(j)' <=> LastAt(j))
              /\ PktAt(j)' = PktAt(j)
  BY <1>1, SameView
<1>15. \A j \in 0 .. N - 1 : UsedAt(j)' <=> UsedAt(j) \/ j = s
  <2>1. s \in 0 .. N - 1
    BY <1>6, <1>9, RingAssumption
  <2>2. ring'.hw_head = ring.hw_head /\ used' = [used EXCEPT ![Nth(s)] = TRUE]
    BY <1>1, <1>8
  <2>3. ring.hw_head \in BD /\ used \in [BD -> BOOLEAN]
    BY <1>3
  <2> QED
    BY ONLY <2>1, <2>2, <2>3, UsedSet
<1>16. /\ sent \union {0} \subseteq sent' \union {0}
       /\ PktAt(s) \in sent' \union {0}
  BY <1>1, <1>8 DEF PktAt
<1>17. Room'
  BY <1>1, <1>5 DEF Room
<1>18. Fetched'
  BY <1>5, <1>6, <1>14, <1>16 DEF Fetched
<1>19. Blank'
  BY <1>1, <1>3, <1>5, <1>6, <1>14, <1>15, RingAssumption DEF Blank
<1>20. Filled'
  <2>1. CASE pc = "fill"
    <3>1. ring.hw_cnt + frags - 1 \in Int /\ ring.hw_cnt + frags <= N
      BY <1>3, <1>5, <1>4, <2>1, RingAssumption DEF Room, IInv, Locals
    <3>2. \A j \in ring.hw_cnt .. ring.hw_cnt + frags - 1 :
            UsedAt(j)' /\ ~LastAt(j)'
      BY <1>3, <1>5, <1>14, <1>15, <2>1, <3>1, RingAssumption DEF Filled
    <3> QED
      BY <1>1, <1>5, <1>14, <2>1, <3>2 DEF Filled
  <2>2. CASE pc = "ready"
    <3>1. /\ ring.hw_cnt + frags <= N /\ Given = ring.hw_cnt
          /\ bd_count < frags
      BY <1>3, <1>5, <1>4, <2>2, RingAssumption DEF Room, IInv, Locals, Given
    <3>2. UsedAt(ring.hw_cnt)' /\
          \A j \in ring.hw_cnt + 1 .. ring.hw_cnt + bd_count : ~UsedAt(j)'
      BY <1>1, <1>3, <1>5, <1>9, <1>15, <2>2, <3>1, RingAssumption DEF Filled
    <3> QED
      BY <1>1, <1>5, <1>14, <2>2, <3>2 DEF Filled
  <2> QED
    BY <1>1, <2>1, <2>2 DEF Filled
<1>21. Order'
  <2> DEFINE t == s + m + 1
  <2>1. t \in 0 .. N /\ t <= Given /\ s <= t
    BY <1>6, <1>11, RingAssumption
  <2>2. hwptr' = Nth(t)'
    BY <1>2, <1>10, <1>14, <2>1, RingAssumption
  <2>3. \A j \in 0 .. t - 1 : PktAt(j)' \in sent' \union {0}
    <3> SUFFICES ASSUME NEW j \in 0 .. t - 1 PROVE PktAt(j) \in sent' \union {0}
      BY <1>14
    <3>1. CASE j < s
      BY <1>7, <1>16, <3>1 DEF Transmitted
    <3>2. CASE j >= s
      <4>1. j - s \in 0 .. m /\ s + (j - s) = j
        BY <3>2
      <4> QED
        BY <1>12, <1>16, <4>1
    <3> QED
      BY <3>1, <3>2
  <2>4. \A j \in t .. Given - 1 : ~UsedAt(j)'
    BY <1>6, <1>7, <1>15, <2>1, RingAssumption DEF Transmitted
  <2>5. t < Given => LastAt(Given - 1)'
    BY <1>6, <1>7, <1>9, <1>14 DEF Transmitted
  <2>6. SamePkt(t, Given)'
    <3>1. SamePkt(s, Given)
      BY <1>7 DEF Transmitted
    <3>2. SamePkt(t, Given)
      BY <2>1, <3>1 DEF SamePkt
    <3> QED
      BY <1>6, <1>14, <3>2 DEF SamePkt
  <2>7. Transmitted(t)'
    BY <1>6, <2>1, <2>2, <2>3, <2>4, <2>5, <2>6 DEF Transmitted
  <2>8. \A w \in 0 .. N : Walked(s, w) => Walked(t, w)'
    BY <1>1, <1>3, <1>14, <2>1 DEF Walked
  <2> QED
    BY <1>1, <1>7, <2>1, <2>7, <2>8 DEF Order
<1> QED
  BY <1>13, <1>17, <1>18, <1>19, <1>20, <1>21 DEF DmaInv

\* What the walk moves to the post group has been transmitted.
LEMMA DmaWalkEnd ==
  ASSUME IInv, DmaInv, WalkEnd
  PROVE  DmaInv'
<1>1. /\ pc = "walk" /\ bd_count >= bd_limit
      /\ bd_count' = WholePackets /\ bd_partial' = 0
      /\ UNCHANGED <<used, last, storage, hwptr, caller, sent, early, torn>>
  BY DEF WalkEnd, histVars
<1>2. /\ ring \in Ring /\ RingConsistent(ring)
      /\ ring.hw_head \in BD /\ ring.hw_cnt \in 0 .. N
      /\ bd_count \in 0 .. N /\ bd_partial \in 0 .. bd_count
      /\ ring.pre_cnt = 0 /\ ring.post_cnt = 0
  BY <1>1, Facts DEF IInv, Locals, TxRingInv
<1>3. Room /\ Fetched /\ Blank /\ Filled /\ Order
  BY <1>1 DEF DmaInv
<1>4. PICK s \in 0 .. N, w \in 0 .. N : Transmitted(s) /\ Walked(s, w)
  BY <1>1, <1>3 DEF Order
<1>5. Given = ring.hw_cnt /\ Unreleased = 0
  BY <1>1, <1>2 DEF Given, Unreleased
<1>6. /\ WholePackets \in 0 .. N /\ WholePackets <= s
      /\ s <= ring.hw_cnt /\ 2 * ring.hw_cnt <= N
  BY <1>2, <1>3, <1>4, <1>5, RingAssumption
  DEF WholePackets, Walked, Transmitted, Room
<1>7. CASE WholePackets = 0
  <2>1. /\ ring' = ring /\ pc' \in {"space", "idle"}
        /\ pc' = "space" => caller = "send"
    BY <1>7 DEF WalkEnd, Return
  <2>2. Given' = Given /\ Unreleased' = Unreleased
    BY <1>1, <1>2, <1>5, <2>1 DEF Given, Unreleased
  <2>3. Room'
    BY <1>1, <1>3, <2>1 DEF Room
  <2>4. Filled'
    BY <2>1 DEF Filled
  <2>5. Order'
    BY <1>1, <1>4, <2>1, <2>2, QuietView DEF Order
  <2> QED
    BY <1>1, <1>3, <2>1, <2>2, <2>3, <2>4, <2>5, QuietView DEF DmaInv
<1>8. CASE WholePackets # 0
  <2>0. PICK n \in 0 .. N : n = WholePackets
    BY <1>6
  <2>1. ring' = TakeFromHw(ring, n) /\ pc' = "release"
    BY <1>8, <2>0 DEF WalkEnd
  <2>2. n \in 1 .. N /\ n <= s /\ n <= ring.hw_cnt /\ n \in Nat
    BY <1>2, <1>6, <1>8, <2>0
  <2>3. bd_count' = n
    BY <1>1, <2>0
  <2>4. ring' = [ring EXCEPT !.hw_cnt = ring.hw_cnt - n,
                             !.post_cnt = ring.post_cnt + n,
                             !.hw_head = SeekAhead(ring.hw_head, n)]
    BY <1>2, <2>1, <2>2, TakeFromHwRing
  <2>5. /\ ring'.hw_cnt = ring.hw_cnt - n /\ ring'.post_cnt = n
        /\ ring'.pre_cnt = 0 /\ ring'.hw_head = SeekAhead(ring.hw_head, n)
    BY <1>2, <2>2, <2>4 DEF Ring
  <2>6. Given' = ring.hw_cnt - n /\ Unreleased' = n
    BY <1>1, <1>2, <2>1, <2>2, <2>3, <2>5 DEF Given, Unreleased
  <2>7. ASSUME NEW j \in 0 .. N - n
        PROVE  Nth(j)' = Nth(j + n)
    BY <1>2, <2>2, <2>5, SeekAheadAdd, RingAssumption DEF Nth
  <2>8. ASSUME NEW j \in 0 .. N - 1 - n
        PROVE  /\ UsedAt(j)' <=> UsedAt(j + n)
               /\ LastAt(j)' <=> LastAt(j + n)
               /\ PktAt(j)' = PktAt(j + n)
    <3>1. Nth(j)' = Nth(j + n)
      BY <2>2, <2>7, RingAssumption
    <3> QED
      BY <1>1, <3>1 DEF UsedAt, LastAt, PktAt
  <2>9. ASSUME NEW j \in N - n .. N - 1
        PROVE  PktAt(j)' = PktAt(j + n - N)
    <3>1. Nth(j)' = Nth(j + n - N)
      BY <1>2, <2>2, <2>5, RingAssumption DEF Nth, SeekAhead, BD
    <3> QED
      BY <1>1, <3>1 DEF PktAt
  <2>10. Room'
    BY <1>1, <1>2, <1>3, <2>1, <2>2, <2>5 DEF Room
  <2>11. Fetched'
    <3> SUFFICES ASSUME NEW j \in N - n .. N - 1
                 PROVE  PktAt(j + n - N) \in sent \union {0}
      BY <1>1, <2>6, <2>9 DEF Fetched
    <3>1. j + n - N \in 0 .. s - 1
      BY <2>2, RingAssumption
    <3> QED
      BY <1>4, <3>1 DEF Transmitted
  <2>12. Blank'
    <3> SUFFICES ASSUME NEW j \in ring.hw_cnt - n .. N - 1 - n
                 PROVE  UsedAt(j)' /\ ~LastAt(j)'
      BY <1>2, <2>2, <2>5, <2>6, RingAssumption DEF Blank
    <3>1. j \in 0 .. N - 1 - n /\ j + n \in ring.hw_cnt .. N - 1
      BY <1>2, <2>2, RingAssumption
    <3>2. UsedAt(j + n) /\ ~LastAt(j + n)
      BY <1>2, <1>3, <1>5, <3>1, RingAssumption DEF Blank
    <3> QED
      BY <2>8, <3>1, <3>2
  <2>13. Filled'
    BY <2>1 DEF Filled
  <2>14. Transmitted(s - n)'
    <3>1. hwptr' = Nth(s - n)'
      <4>1. s - n \in 0 .. N - n /\ (s - n) + n = s
        BY <1>2, <1>6, <2>2, RingAssumption
      <4> QED
        BY <1>1, <1>4, <2>7, <4>1 DEF Transmitted
    <3>2. \A j \in 0 .. (s - n) - 1 : PktAt(j)' \in sent' \union {0}
      <4> SUFFICES ASSUME NEW j \in 0 .. (s - n) - 1
                   PROVE  PktAt(j)' \in sent \union {0}
        BY <1>1
      <4>1. j \in 0 .. N - 1 - n /\ j + n \in 0 .. s - 1
        BY <1>2, <1>6, <2>2, RingAssumption
      <4> QED
        BY <1>4, <2>8, <4>1 DEF Transmitted
    <3>3. ASSUME NEW j \in s - n .. (ring.hw_cnt - n) - 1
          PROVE  j \in 0 .. N - 1 - n /\ j + n \in s .. ring.hw_cnt - 1
      BY <1>2, <1>6, <2>2, RingAssumption
    <3>4. \A j \in s - n .. Given' - 1 : ~UsedAt(j)'
      BY <1>4, <1>5, <2>6, <2>8, <3>3 DEF Transmitted
    <3>5. s - n < Given' => LastAt(Given - 1)'
      <4> SUFFICES ASSUME s - n < ring.hw_cnt - n
                   PROVE  LastAt(Given - 1)'
        BY <2>6
      <4>1. /\ ring.hw_cnt - n - 1 \in 0 .. N - 1 - n
            /\ (ring.hw_cnt - n - 1) + n = ring.hw_cnt - 1 /\ s < ring.hw_cnt
        BY <1>2, <1>6, <2>2, RingAssumption
      <4>2. LastAt(ring.hw_cnt - 1)
        BY <1>4, <1>5, <4>1 DEF Transmitted
      <4>3. (Given - 1)' = ring.hw_cnt - n - 1
        BY <2>6
      <4> DEFINE q == ring.hw_cnt - n - 1
      <4>4. last'[SeekAhead(ring'.hw_head, q)]
        <5>1. SeekAhead(ring'.hw_head, q) = Nth(q + n)
          <6>1. q \in 0 .. N - n
            BY <1>2, <2>2, <4>1, RingAssumption
          <6> QED
            BY <1>2, <2>2, <2>5, <6>1, SeekAheadAdd, RingAssumption DEF Nth
        <5> QED
          BY <1>1, <4>1, <4>2, <5>1 DEF LastAt
      <4> QED
        BY <4>3, <4>4 DEF LastAt, Nth
    <3>6. SamePkt(s - n, Given)'
      <4> SUFFICES ASSUME NEW a \in s - n .. (ring.hw_cnt - n) - 1,
                          NEW b \in s - n .. (ring.hw_cnt - n) - 1, a <= b,
                          \A j \in a .. b - 1 : ~LastAt(j)'
                   PROVE  PktAt(a)' = PktAt(b)'
        BY <1>2, <1>6, <2>2, <2>6 DEF SamePkt
      <4>1. /\ a + n \in s .. ring.hw_cnt - 1 /\ b + n \in s .. ring.hw_cnt - 1
            /\ a + n <= b + n
        BY <1>2, <1>6, <2>2, <3>3
      <4>2. ASSUME NEW j \in a + n .. (b + n) - 1 PROVE ~LastAt(j)
        <5>1. /\ j - n \in a .. b - 1 /\ (j - n) + n = j
              /\ j - n \in 0 .. N - 1 - n
          BY <1>2, <1>6, <2>2, RingAssumption
        <5> QED
          BY <2>8, <5>1
      <4>3. PktAt(a + n) = PktAt(b + n)
        BY <1>4, <1>5, <4>1, <4>2 DEF Transmitted, SamePkt
      <4> QED
        BY <2>8, <3>3, <4>3
    <3> QED
      BY <1>2, <1>6, <2>2, <2>6, <3>1, <3>2, <3>4, <3>5, <3>6 DEF Transmitted
  <2>15. Order'
    <3>1. s - n \in 0 .. N
      BY <2>2, RingAssumption
    <3> QED
      BY <2>1, <2>14, <3>1 DEF Order
  <2> QED
    BY <1>1, <2>10, <2>11, <2>12, <2>13, <2>15 DEF DmaInv
<1> QED
  BY <1>7, <1>8

\* A step that does not touch the BDs given to the DMA engine.
LEMMA TransmittedKept ==
  ASSUME NEW s \in 0 .. N, Transmitted(s), NEW g \in 0 .. N,
         Given = g, Given' = g, ring'.hw_head = ring.hw_head,
         UNCHANGED <<hwptr, sent>>,
         \A j \in 0 .. g - 1 : /\ UsedAt(j)' <=> UsedAt(j)
                               /\ LastAt(j)' <=> LastAt(j)
                               /\ PktAt(j)' = PktAt(j)
  PROVE  Transmitted(s)'
<1>1. s <= g /\ hwptr' = Nth(s)'
  BY DEF Transmitted, Nth
<1>2. \A j \in 0 .. s - 1 : PktAt(j)' \in sent' \union {0}
  BY <1>1, RingAssumption DEF Transmitted
<1>3. \A j \in s .. g - 1 : ~UsedAt(j)'
  BY <1>1, RingAssumption DEF Transmitted
<1>4. s < g => LastAt(g - 1)'
  BY <1>1, RingAssumption DEF Transmitted
<1>5. SamePkt(s, g)'
  BY <1>1, RingAssumption DEF Transmitted, SamePkt
<1>6. (s < Given => LastAt(Given - 1))' /\ SamePkt(s, Given)'
  BY <1>4, <1>5 DEF LastAt, SamePkt, Nth
<1> QED
  BY <1>1, <1>2, <1>3, <1>6 DEF Transmitted

\* The first of the fetched BDs is released and blank.
LEMMA DmaReleaseBd ==
  ASSUME IInv, DmaInv, ReleaseBd
  PROVE  DmaInv'
<1>1. /\ pc = "release" /\ bd_partial < bd_count
      /\ used' = [used EXCEPT ![cur] = TRUE]
      /\ last' = [last EXCEPT ![cur] = FALSE]
      /\ early' = (early \/ (storage[cur] # 0 /\ storage[cur] \notin sent))
      /\ storage' = [storage EXCEPT ![cur] = 0]
      /\ bd_partial' = bd_partial + 1
      /\ UNCHANGED <<ring, hwptr, pc, caller, bd_count, sent, torn>>
  BY DEF ReleaseBd, ReleasedStorage
<1>2. /\ ring.hw_head \in BD /\ ring.hw_cnt \in 0 .. N
      /\ bd_count \in 0 .. N /\ bd_partial \in 0 .. bd_count
      /\ ring.pre_cnt = 0 /\ ring.post_cnt = bd_count
      /\ ring.free_cnt + ring.hw_cnt + ring.post_cnt = N
      /\ ring.free_cnt \in 0 .. N
      /\ used \in [BD -> BOOLEAN] /\ last \in [BD -> BOOLEAN]
      /\ storage \in [BD -> 0 .. MaxPkts]
  BY <1>1, Facts DEF IInv, Locals
<1>3. Room /\ Fetched /\ Blank /\ Order
  BY <1>1 DEF DmaInv
<1>0. PICK p \in 0 .. N - 1 : p = N - bd_count + bd_partial
  BY <1>1, <1>2, RingAssumption
<1>4. /\ p = N - Unreleased /\ p >= ring.hw_cnt /\ Unreleased' = N - p - 1
      /\ Unreleased \in 0 .. N
  BY <1>0, <1>1, <1>2, RingAssumption DEF Unreleased
<1>5. cur = Nth(p)
  <2>1. /\ cur = SeekAhead(ring.post_head, bd_partial)
        /\ ring.hw_head = SeekAhead(ring.post_head, bd_count)
        /\ ring.post_head \in BD
    BY <1>1, Facts DEF IInv, Locals, Ring
  <2> QED
    BY <1>0, <1>1, <1>2, <2>1, SeekBehind DEF Nth
<1>6. ring'.hw_head = ring.hw_head
  BY <1>1
<1>7. \A j \in 0 .. N - 1 : UsedAt(j)' <=> UsedAt(j) \/ j = p
  <2>1. used' = [used EXCEPT ![Nth(p)] = TRUE]
    BY <1>1, <1>5
  <2> QED
    BY ONLY <1>0, <1>2, <1>6, <2>1, UsedSet
<1>8. \A j \in 0 .. N - 1 : LastAt(j)' <=> LastAt(j) /\ j # p
  <2>1. last' = [last EXCEPT ![Nth(p)] = FALSE]
    BY <1>1, <1>5
  <2> QED
    BY ONLY <1>0, <1>2, <1>6, <2>1, LastClear
<1>9. \A j \in 0 .. N - 1 : PktAt(j)' = IF j = p THEN 0 ELSE PktAt(j)
  <2>1. PICK v : v = 0
    OBVIOUS
  <2>2. /\ storage' = [storage EXCEPT ![Nth(p)] = v]
        /\ ring.hw_head \in BD /\ storage \in [BD -> 0 .. MaxPkts]
    BY <1>1, <1>2, <1>5, <2>1
  <2>3. \A j \in 0 .. N - 1 : PktAt(j)' = IF j = p THEN v ELSE PktAt(j)
    BY ONLY <1>0, <1>6, <2>2, PktPut
  <2> QED
    BY <2>1, <2>3
<1>10. ~early' /\ ~torn'
  <2>1. PktAt(p) \in sent \union {0}
    BY <1>3, <1>4, RingAssumption DEF Fetched
  <2>2. storage[cur] = 0 \/ storage[cur] \in sent
    BY <1>5, <2>1 DEF PktAt
  <2> QED
    BY <1>1, <2>2, Zenon DEF DmaInv
<1>11. Room'
  BY <1>1, <1>3 DEF Room
<1>12. Fetched'
  BY <1>1, <1>3, <1>4, <1>9, RingAssumption DEF Fetched
<1>13. Blank'
  <2> SUFFICES ASSUME NEW j \in ring.hw_cnt .. p PROVE UsedAt(j)' /\ ~LastAt(j)'
    BY <1>1, <1>2, <1>4, RingAssumption DEF Blank
  <2>1. j \in 0 .. N - 1
    BY <1>2, <1>4, RingAssumption
  <2>2. CASE j = p
    BY <1>7, <1>8, <2>1, <2>2
  <2>3. CASE j # p
    <3>1. UsedAt(j) /\ ~LastAt(j)
      BY <1>2, <1>3, <1>4, <2>3, RingAssumption DEF Blank
    <3> QED
      BY <1>7, <1>8, <2>1, <3>1
  <2> QED
    BY <2>2, <2>3
<1>14. Filled'
  BY <1>1 DEF Filled
<1>15. Order'
  <2>1. PICK s \in 0 .. N : Transmitted(s)
    BY <1>3 DEF Order
  <2>2. Given = ring.hw_cnt /\ Given' = ring.hw_cnt
    BY <1>1, <1>2 DEF Given
  <2>4. ASSUME NEW j \in 0 .. ring.hw_cnt - 1
        PROVE  /\ UsedAt(j)' <=> UsedAt(j)
               /\ LastAt(j)' <=> LastAt(j)
               /\ PktAt(j)' = PktAt(j)
    <3>1. j \in 0 .. N - 1 /\ j # p
      BY <1>2, <1>4, RingAssumption
    <3> QED
      BY <1>7, <1>8, <1>9, <3>1
  <2>5. PICK g \in 0 .. N : g = ring.hw_cnt
    BY <1>2
  <2>6. Transmitted(s)'
    BY <1>1, <2>1, <2>2, <2>4, <2>5, TransmittedKept
  <2> QED
    BY <1>1, <2>6 DEF Order
<1> QED
  BY <1>10, <1>11, <1>12, <1>13, <1>14, <1>15 DEF DmaInv

\* FXmacBdRingFree: the released BDs are free.
LEMMA DmaReleaseEnd ==
  ASSUME IInv, DmaInv, ReleaseEnd
  PROVE  DmaInv'
<1>1. /\ pc = "release" /\ bd_partial = bd_count
      /\ ring' = FXmacBdRingFree(ring, bd_count, bdset)
      /\ pc' \in {"space", "idle"} /\ (pc' = "space" => caller = "send")
      /\ UNCHANGED <<used, last, storage, hwptr, caller, sent, early, torn>>
  BY DEF ReleaseEnd, Return, histVars
<1>2. /\ ring \in Ring /\ RingConsistent(ring) /\ bd_count \in Nat \ {0}
      /\ ring.hw_cnt \in 0 .. N /\ ring.post_cnt = bd_count
      /\ ring.pre_cnt = 0 /\ ring.hw_head \in BD
      /\ FreeOk(ring, bd_count, bdset)
  BY <1>1, Facts DEF IInv, Locals, TxRingInv, FreeOk
<1>3. ring' = [ring EXCEPT !.free_cnt = ring.free_cnt + bd_count,
                 !.post_cnt = ring.post_cnt - bd_count,
                 !.post_head = SeekAhead(ring.post_head, bd_count)]
  BY <1>1, <1>2, FreeRing
<1>4. /\ ring'.hw_cnt = ring.hw_cnt /\ ring'.hw_head = ring.hw_head
      /\ ring'.pre_cnt = 0 /\ ring'.post_cnt = 0
  BY <1>2, <1>3 DEF Ring
<1>5. Room /\ Fetched /\ Blank /\ Order
  BY <1>1 DEF DmaInv
<1>6. /\ Unreleased = 0 /\ Unreleased' = 0
      /\ Given = ring.hw_cnt /\ Given' = ring.hw_cnt
  BY <1>1, <1>2, <1>4 DEF Unreleased, Given
<1>7. \A j : /\ UsedAt(j)' <=> UsedAt(j)
             /\ LastAt(j)' <=> LastAt(j)
             /\ PktAt(j)' = PktAt(j)
  BY <1>1, <1>4, SameView
<1>8. Room'
  <2>1. 2 * ring.hw_cnt <= N /\ (caller = "send" => ring.hw_cnt < Window)
    BY <1>1, <1>2, <1>5, RingAssumption, TxAssumption DEF Room
  <2> QED
    BY <1>1, <1>2, <1>4, <2>1 DEF Room
<1>9. Fetched' /\ Blank'
  BY <1>1, <1>2, <1>4, <1>5, <1>6, <1>7 DEF Fetched, Blank
<1>10. Filled'
  BY <1>1 DEF Filled
<1>11. Order'
  <2>1. PICK s \in 0 .. N : Transmitted(s)
    BY <1>5 DEF Order
  <2>2. PICK g \in 0 .. N : g = ring.hw_cnt
    BY <1>2
  <2>3. Transmitted(s)'
    BY <1>1, <1>4, <1>6, <1>7, <2>1, <2>2, TransmittedKept
  <2> QED
    BY <1>1, <2>3 DEF Order
<1> QED
  BY <1>1, <1>8, <1>9, <1>10, <1>11 DEF DmaInv

\* FXmacBdRingAlloc: WindowFits keeps half of the ring free.
LEMMA DmaAllocBds ==
  ASSUME WindowFits, IInv, DmaInv, AllocBds
  PROVE  DmaInv'
<1>1. /\ pc = "space" /\ pc' = "fill" /\ ring.free_cnt >= frags
      /\ ring' = FXmacBdRingAlloc(ring, frags)
      /\ UNCHANGED <<used, last, storage, hwptr, bd_count, frags, sent, early,
                     torn>>
  BY DEF AllocBds, histVars
<1>2. /\ ring \in Ring /\ RingConsistent(ring) /\ frags \in Nat
      /\ AllocOk(ring, frags) /\ frags \in Frags /\ bd_count = 0
      /\ ring.hw_cnt \in 0 .. N /\ ring.free_cnt \in 0 .. N
      /\ ring.pre_cnt = 0 /\ ring.post_cnt = 0 /\ ring.hw_head \in BD
  BY <1>1, Facts DEF IInv, Locals, TxRingInv, AllocOk
<1>3. /\ frags <= N
      /\ ring' = [ring EXCEPT
                    !.free_head = SeekAhead(ring.free_head, frags),
                    !.free_cnt = ring.free_cnt - frags,
                    !.pre_cnt = ring.pre_cnt + frags]
  BY <1>1, <1>2, AllocRing
<1>4. /\ ring'.hw_cnt = ring.hw_cnt /\ ring'.hw_head = ring.hw_head
      /\ ring'.pre_cnt = frags /\ ring'.post_cnt = 0
  BY <1>2, <1>3 DEF Ring
<1>5. Room /\ Fetched /\ Blank /\ Order
  BY <1>1 DEF DmaInv
<1>6. /\ Unreleased = 0 /\ Unreleased' = 0
      /\ Given = ring.hw_cnt /\ Given' = ring.hw_cnt
  BY <1>1, <1>2, <1>4 DEF Unreleased, Given
<1>7. \A j : /\ UsedAt(j)' <=> UsedAt(j)
             /\ LastAt(j)' <=> LastAt(j)
             /\ PktAt(j)' = PktAt(j)
  BY <1>1, <1>4, SameView
<1>8. 2 * (ring.hw_cnt + frags) <= N
  <2>1. ring.hw_cnt < Window
    BY <1>1, <1>2, <1>5 DEF Room
  <2>2. 2 * (Window - 1 + frags) <= N
    BY <1>2, <1>3 DEF WindowFits
  <2> QED
    BY <1>2, <2>1, <2>2, TxAssumption, RingAssumption
<1>9. Room'
  BY <1>1, <1>2, <1>4, <1>8 DEF Room
<1>10. Fetched' /\ Blank'
  BY <1>1, <1>2, <1>4, <1>5, <1>6, <1>7, RingAssumption DEF Fetched, Blank
<1>11. Filled'
  <2> SUFFICES ASSUME NEW j \in ring.hw_cnt .. ring.hw_cnt + frags - 1
               PROVE  UsedAt(j)' /\ ~LastAt(j)'
    BY <1>1, <1>2, <1>4 DEF Filled
  <2>1. j \in ring.hw_cnt + ring.pre_cnt .. N - 1 - Unreleased
    BY <1>2, <1>6, <1>8, RingAssumption
  <2> QED
    BY <1>5, <1>7, <2>1 DEF Blank
<1>12. Order'
  <2>1. PICK s \in 0 .. N : Transmitted(s)
    BY <1>5 DEF Order
  <2>2. PICK g \in 0 .. N : g = ring.hw_cnt
    BY <1>2
  <2>3. Transmitted(s)'
    BY <1>1, <1>4, <1>6, <1>7, <2>1, <2>2, TransmittedKept
  <2> QED
    BY <1>1, <2>3 DEF Order
<1> QED
  BY <1>1, <1>9, <1>10, <1>11, <1>12 DEF DmaInv

\* A BD of the packet is filled in; it stays USED.
LEMMA DmaFillBd ==
  ASSUME IInv, DmaInv, FillBd, FillNeverRefused
  PROVE  DmaInv'
<1>1. /\ pc = "fill" /\ bd_count < frags /\ pc' = pc
      /\ storage' = [storage EXCEPT ![cur] = pkt]
      /\ last' = [last EXCEPT ![cur] = FALSE]
      /\ bd_count' = bd_count + 1
      /\ UNCHANGED <<ring, used, hwptr, caller, pkt, frags, sent, early, torn>>
  BY DEF FillBd, FillNeverRefused, histVars
<1>2. /\ ring.hw_head \in BD /\ ring.hw_cnt \in 0 .. N /\ frags \in Nat
      /\ bd_count \in 0 .. N /\ ring.pre_cnt = frags /\ ring.post_cnt = 0
      /\ last \in [BD -> BOOLEAN] /\ storage \in [BD -> 0 .. MaxPkts]
      /\ cur = SeekAhead(SeekAhead(ring.hw_head, ring.hw_cnt), bd_count)
  BY <1>1, Facts DEF IInv, Locals
<1>3. Room /\ Fetched /\ Blank /\ Filled /\ Order
  BY <1>1 DEF DmaInv
<1>4. 2 * (ring.hw_cnt + frags) <= N
  BY <1>2, <1>3 DEF Room
<1>5. PICK p \in 0 .. N - 1 : p = ring.hw_cnt + bd_count
  BY <1>1, <1>2, <1>4, RingAssumption
<1>6. cur = Nth(p)
  BY <1>2, <1>5, SeekAheadAdd, RingAssumption DEF Nth
<1>7. ring'.hw_head = ring.hw_head
  BY <1>1
<1>8. \A j \in 0 .. N - 1 : LastAt(j)' <=> LastAt(j) /\ j # p
  <2>1. last' = [last EXCEPT ![Nth(p)] = FALSE]
    BY <1>1, <1>6
  <2> QED
    BY ONLY <1>2, <1>5, <1>7, <2>1, LastClear
<1>9. \A j \in 0 .. N - 1 : PktAt(j)' = IF j = p THEN pkt ELSE PktAt(j)
  <2>1. PICK v : v = pkt
    OBVIOUS
  <2>2. /\ storage' = [storage EXCEPT ![Nth(p)] = v]
        /\ ring.hw_head \in BD /\ storage \in [BD -> 0 .. MaxPkts]
    BY <1>1, <1>2, <1>6, <2>1
  <2>3. \A j \in 0 .. N - 1 : PktAt(j)' = IF j = p THEN v ELSE PktAt(j)
    BY ONLY <1>5, <1>7, <2>2, PktPut
  <2> QED
    BY <2>1, <2>3
<1>10. \A j : UsedAt(j)' <=> UsedAt(j)
  BY <1>1, <1>7, SameView
<1>11. /\ Unreleased = 0 /\ Unreleased' = 0
       /\ Given = ring.hw_cnt /\ Given' = ring.hw_cnt
  BY <1>1, <1>2 DEF Unreleased, Given
<1>12. Room'
  BY <1>1, <1>3 DEF Room
<1>13. Fetched' /\ Blank'
  BY <1>1, <1>2, <1>3, <1>4, <1>5, <1>8, <1>10, <1>11, RingAssumption
  DEF Fetched, Blank
<1>14. Filled'
  <2>1. \A j \in ring.hw_cnt .. ring.hw_cnt + frags - 1 :
          UsedAt(j)' /\ ~LastAt(j)'
    BY <1>1, <1>2, <1>3, <1>4, <1>8, <1>10, RingAssumption DEF Filled
  <2>2. \A j \in ring.hw_cnt .. ring.hw_cnt + (bd_count + 1) - 1 :
          PktAt(j)' = pkt
    BY <1>1, <1>2, <1>3, <1>4, <1>5, <1>9, RingAssumption DEF Filled
  <2> QED
    BY <1>1, <2>1, <2>2 DEF Filled
<1>15. Order'
  <2>1. PICK s \in 0 .. N : Transmitted(s)
    BY <1>3 DEF Order
  <2>2. PICK g \in 0 .. N : g = ring.hw_cnt
    BY <1>2
  <2>3. \A j \in 0 .. g - 1 : /\ UsedAt(j)' <=> UsedAt(j)
                              /\ LastAt(j)' <=> LastAt(j)
                              /\ PktAt(j)' = PktAt(j)
    BY <1>2, <1>5, <1>8, <1>9, <1>10, <2>2, RingAssumption
  <2>4. Transmitted(s)'
    BY <1>1, <1>11, <2>1, <2>2, <2>3, TransmittedKept
  <2> QED
    BY <1>1, <2>4 DEF Order
<1> QED
  BY <1>1, <1>12, <1>13, <1>14, <1>15 DEF DmaInv

\* The last BD of the packet gets its LAST bit.
LEMMA DmaSetLast ==
  ASSUME IInv, DmaInv, SetLast
  PROVE  DmaInv'
<1>1. /\ pc = "fill" /\ bd_count = frags /\ pc' = "ready"
      /\ last' = [last EXCEPT ![SeekAhead(bdset, frags - 1)] = TRUE]
      /\ bd_count' = 0 /\ cur' = SeekAhead(bdset, 1)
      /\ UNCHANGED <<ring, used, storage, hwptr, caller, pkt, frags, sent,
                     early, torn>>
  BY DEF SetLast, histVars
<1>2. /\ ring.hw_head \in BD /\ ring.hw_cnt \in 0 .. N /\ frags \in Nat
      /\ frags > 0 /\ ring.pre_cnt = frags /\ ring.post_cnt = 0
      /\ last \in [BD -> BOOLEAN]
      /\ bdset = SeekAhead(ring.hw_head, ring.hw_cnt)
  BY <1>1, Facts DEF IInv, Locals
<1>3. Room /\ Fetched /\ Blank /\ Filled /\ Order
  BY <1>1 DEF DmaInv
<1>4. 2 * (ring.hw_cnt + frags) <= N
  BY <1>2, <1>3 DEF Room
<1>5. PICK p \in 0 .. N - 1 : p = ring.hw_cnt + frags - 1
  BY <1>2, <1>4, RingAssumption
<1>6. SeekAhead(bdset, frags - 1) = Nth(p) /\ cur' = Nth(ring.hw_cnt + 1)
  BY <1>1, <1>2, <1>4, <1>5, SeekAheadAdd, RingAssumption DEF Nth
<1>7. ring'.hw_head = ring.hw_head
  BY <1>1
<1>8. \A j \in 0 .. N - 1 : LastAt(j)' <=> LastAt(j) \/ j = p
  <2>1. last' = [last EXCEPT ![Nth(p)] = TRUE]
    BY <1>1, <1>6
  <2> QED
    BY ONLY <1>2, <1>5, <1>7, <2>1, LastSet
<1>9. \A j : /\ Nth(j)' = Nth(j) /\ (UsedAt(j)' <=> UsedAt(j))
             /\ PktAt(j)' = PktAt(j)
  BY <1>1, <1>7, SameView
<1>10. /\ Unreleased = 0 /\ Unreleased' = 0
       /\ Given = ring.hw_cnt /\ Given' = ring.hw_cnt
  BY <1>1, <1>2 DEF Unreleased, Given
<1>11. Room'
  BY <1>1, <1>3 DEF Room
<1>12. Fetched' /\ Blank'
  BY <1>1, <1>2, <1>3, <1>4, <1>5, <1>8, <1>9, <1>10, RingAssumption
  DEF Fetched, Blank
<1>13. Filled'
  <2>1. ASSUME NEW j \in ring.hw_cnt .. ring.hw_cnt + frags - 1
        PROVE  PktAt(j)' = pkt /\ (LastAt(j)' <=> j = p)
    BY <1>1, <1>2, <1>3, <1>4, <1>8, <1>9, RingAssumption DEF Filled
  <2>2. UsedAt(ring.hw_cnt)'
    <3>1. used'[SeekAhead(ring'.hw_head, ring.hw_cnt)]
      BY <1>1, <1>2, <1>3 DEF Filled, UsedAt, Nth
    <3> QED
      BY <1>1, <3>1 DEF UsedAt, Nth
  <2>3. cur' = Nth(ring.hw_cnt + 0 + 1)
    BY <1>2, <1>6
  <2> QED
    BY <1>1, <1>2, <1>5, <1>9, <2>1, <2>2, <2>3 DEF Filled, Nth
<1>14. Order'
  <2>1. PICK s \in 0 .. N : Transmitted(s)
    BY <1>3 DEF Order
  <2>2. PICK g \in 0 .. N : g = ring.hw_cnt
    BY <1>2
  <2>3. \A j \in 0 .. g - 1 : LastAt(j)' <=> LastAt(j)
    BY <1>2, <1>5, <1>8, <2>2, RingAssumption
  <2>4. Transmitted(s)'
    BY <1>1, <1>9, <1>10, <2>1, <2>2, <2>3, TransmittedKept
  <2> QED
    BY <1>1, <2>4 DEF Order
<1> QED
  BY <1>1, <1>11, <1>12, <1>13, <1>14 DEF DmaInv

\* The USED bits of all BDs but the first are cleared, one in each step.
LEMMA DmaClearNext ==
  ASSUME IInv, DmaInv, ClearUsed, bd_count + 1 < frags
  PROVE  DmaInv'
<1>1. /\ pc = "ready" /\ pc' = "ready"
      /\ used' = [used EXCEPT ![cur] = FALSE]
      /\ bd_count' = bd_count + 1 /\ cur' = SeekAhead(cur, 1)
      /\ UNCHANGED <<ring, last, storage, hwptr, caller, pkt, frags, sent,
                     early, torn>>
  BY DEF ClearUsed, NextToClear, histVars
<1>2. /\ ring.hw_head \in BD /\ ring.hw_cnt \in 0 .. N /\ frags \in Nat
      /\ bd_count \in 0 .. N /\ ring.pre_cnt = frags /\ ring.post_cnt = 0
      /\ used \in [BD -> BOOLEAN]
  BY <1>1, Facts DEF IInv, Locals
<1>3. Room /\ Fetched /\ Blank /\ Filled /\ Order
  BY <1>1 DEF DmaInv
<1>4. 2 * (ring.hw_cnt + frags) <= N
  BY <1>2, <1>3 DEF Room
<1>5. PICK p \in 0 .. N - 1 : p = ring.hw_cnt + bd_count + 1
  BY <1>2, <1>4, RingAssumption
<1>6. cur = Nth(p) /\ cur' = Nth(p + 1)
  BY <1>1, <1>2, <1>3, <1>5, SeekAheadAdd, RingAssumption DEF Filled, Nth
<1>7. ring'.hw_head = ring.hw_head
  BY <1>1
<1>8. \A j \in 0 .. N - 1 : UsedAt(j)' <=> UsedAt(j) /\ j # p
  <2>1. used' = [used EXCEPT ![Nth(p)] = FALSE]
    BY <1>1, <1>6
  <2> QED
    BY ONLY <1>2, <1>5, <1>7, <2>1, UsedClear
<1>9. \A j : /\ Nth(j)' = Nth(j) /\ (LastAt(j)' <=> LastAt(j))
             /\ PktAt(j)' = PktAt(j)
  BY <1>1, <1>7, SameView
<1>10. /\ Unreleased = 0 /\ Unreleased' = 0
       /\ Given = ring.hw_cnt /\ Given' = ring.hw_cnt
  BY <1>1, <1>2 DEF Unreleased, Given
<1>11. Room'
  BY <1>1, <1>3 DEF Room
<1>12. Fetched' /\ Blank'
  BY <1>1, <1>2, <1>3, <1>4, <1>5, <1>8, <1>9, <1>10, RingAssumption
  DEF Fetched, Blank
<1>13. Filled'
  <2>1. PICK h \in 0 .. N - 1 : h = ring.hw_cnt
    BY <1>2, <1>5, RingAssumption
  <2>2. UsedAt(h)'
    BY <1>1, <1>2, <1>3, <1>5, <1>8, <2>1 DEF Filled
  <2>3. \A j \in h + 1 .. h + (bd_count + 1) : ~UsedAt(j)'
    BY <1>1, <1>2, <1>3, <1>4, <1>5, <1>8, <2>1, RingAssumption DEF Filled
  <2>4. \A j \in h .. h + frags - 1 :
          PktAt(j)' = pkt /\ (LastAt(j)' <=> j = h + frags - 1)
    BY <1>1, <1>3, <1>9, <2>1 DEF Filled
  <2>5. UsedAt(ring.hw_cnt)'
    BY <1>1, <2>1, <2>2 DEF UsedAt, Nth
  <2>6. cur' = Nth(ring.hw_cnt + bd_count + 1)'
    <3>1. p + 1 = ring.hw_cnt + (bd_count + 1) + 1
      BY <1>2, <1>5
    <3> QED
      BY <1>1, <1>6, <3>1 DEF Nth
  <2> QED
    BY <1>1, <2>1, <2>3, <2>4, <2>5, <2>6 DEF Filled
<1>14. Order'
  <2>1. PICK s \in 0 .. N : Transmitted(s)
    BY <1>3 DEF Order
  <2>2. PICK g \in 0 .. N : g = ring.hw_cnt
    BY <1>2
  <2>3. \A j \in 0 .. g - 1 : UsedAt(j)' <=> UsedAt(j)
    BY <1>2, <1>5, <1>8, <2>2, RingAssumption
  <2>4. Transmitted(s)'
    BY <1>1, <1>9, <1>10, <2>1, <2>2, <2>3, TransmittedKept
  <2> QED
    BY <1>1, <2>4 DEF Order
<1> QED
  BY <1>1, <1>11, <1>12, <1>13, <1>14 DEF DmaInv

\* The USED bit of the first BD is cleared: the DMA engine has the packet.
LEMMA DmaClearFirst ==
  ASSUME IInv, DmaInv, ClearUsed, ~(bd_count + 1 < frags)
  PROVE  DmaInv'
<1>1. /\ pc = "ready" /\ pc' = "commit"
      /\ used' = [used EXCEPT ![bdset] = FALSE]
      /\ UNCHANGED <<ring, last, storage, hwptr, caller, pkt, frags, sent,
                     early, torn>>
  BY DEF ClearUsed, NextToClear, histVars
<1>2. /\ ring.hw_head \in BD /\ ring.hw_cnt \in 0 .. N /\ frags \in Nat
      /\ frags > 0 /\ bd_count \in 0 .. N /\ bd_count = frags - 1
      /\ ring.pre_cnt = frags /\ ring.post_cnt = 0
      /\ used \in [BD -> BOOLEAN]
      /\ bdset = SeekAhead(ring.hw_head, ring.hw_cnt)
  BY <1>1, Facts DEF IInv, Locals
<1>3. Room /\ Fetched /\ Blank /\ Filled /\ Order
  BY <1>1 DEF DmaInv
<1>4. 2 * (ring.hw_cnt + frags) <= N
  BY <1>2, <1>3 DEF Room
<1>5. PICK h \in 0 .. N - 1 : h = ring.hw_cnt
  BY <1>2, <1>4, RingAssumption
<1>6. bdset = Nth(h)
  BY <1>2, <1>5 DEF Nth
<1>7. ring'.hw_head = ring.hw_head
  BY <1>1
<1>8. \A j \in 0 .. N - 1 : UsedAt(j)' <=> UsedAt(j) /\ j # h
  <2>1. used' = [used EXCEPT ![Nth(h)] = FALSE]
    BY <1>1, <1>6
  <2> QED
    BY ONLY <1>2, <1>5, <1>7, <2>1, UsedClear
<1>9. \A j : /\ Nth(j)' = Nth(j) /\ (LastAt(j)' <=> LastAt(j))
             /\ PktAt(j)' = PktAt(j)
  BY <1>1, <1>7, SameView
<1>10. PICK g \in 0 .. N : g = h + frags
  BY <1>2, <1>4, <1>5, RingAssumption
<1>11. Unreleased = 0 /\ Unreleased' = 0 /\ Given = h /\ Given' = g
  BY <1>1, <1>2, <1>5, <1>10 DEF Unreleased, Given
<1>12. Room'
  BY <1>1, <1>3 DEF Room
<1>13. Fetched' /\ Blank'
  BY <1>1, <1>2, <1>3, <1>4, <1>5, <1>8, <1>9, <1>11, RingAssumption
  DEF Fetched, Blank
<1>14. Filled'
  BY <1>1 DEF Filled
<1>15. PICK s \in 0 .. N : Transmitted(s)
  BY <1>3 DEF Order
<1>16. /\ s <= h /\ hwptr' = Nth(s)'
       /\ \A j \in 0 .. s - 1 : PktAt(j)' \in sent' \union {0}
       /\ s < h => LastAt(h - 1)
       /\ SamePkt(s, h)
  BY <1>1, <1>9, <1>11, <1>15 DEF Transmitted
<1>17. \A j \in s .. g - 1 : ~UsedAt(j)'
  <2> SUFFICES ASSUME NEW j \in s .. g - 1 PROVE ~UsedAt(j)'
    OBVIOUS
  <2>1. j \in 0 .. N - 1
    BY <1>16, RingAssumption
  <2>2. CASE j < h
    BY <1>8, <1>11, <1>15, <2>1, <2>2 DEF Transmitted
  <2>3. CASE j = h
    BY <1>8, <2>1, <2>3
  <2>4. CASE j > h
    <3>1. j \in ring.hw_cnt + 1 .. ring.hw_cnt + bd_count
      BY <1>2, <1>5, <1>10, <2>4
    <3> QED
      BY <1>1, <1>3, <1>8, <2>1, <3>1 DEF Filled
  <2> QED
    BY <2>1, <2>2, <2>3, <2>4
<1>18. \A j \in h .. g - 1 : PktAt(j) = pkt /\ (LastAt(j) <=> j = g - 1)
  BY <1>1, <1>2, <1>3, <1>5, <1>10 DEF Filled
<1>19. SamePkt(s, g)
  <2> SUFFICES ASSUME NEW a \in s .. g - 1, NEW b \in s .. g - 1, a <= b,
                      \A j \in a .. b - 1 : ~LastAt(j)
               PROVE  PktAt(a) = PktAt(b)
    BY DEF SamePkt
  <2>1. CASE b < h
    <3>1. a \in s .. h - 1 /\ b \in s .. h - 1
      BY <2>1
    <3> QED
      BY <1>16, <3>1 DEF SamePkt
  <2>2. CASE a >= h
    BY <1>18, <2>2
  <2>3. CASE a < h /\ h <= b
    <3>1. h - 1 \in a .. b - 1 /\ s < h
      BY <2>3
    <3> QED
      BY <1>16, <3>1
  <2> QED
    BY <2>1, <2>2, <2>3
<1>20. Transmitted(s)'
  <2>1. LastAt(g - 1)
    BY <1>2, <1>10, <1>18
  <2>2. LastAt(Given - 1)'
    BY <1>1, <1>11, <2>1 DEF LastAt, Nth
  <2>3. SamePkt(s, Given)'
    BY <1>9, <1>11, <1>19 DEF SamePkt
  <2>4. s <= g
    BY <1>2, <1>10, <1>16
  <2> QED
    BY <1>11, <1>16, <1>17, <2>2, <2>3, <2>4 DEF Transmitted
<1>21. Order'
  BY <1>1, <1>20 DEF Order
<1> QED
  BY <1>1, <1>12, <1>13, <1>14, <1>21 DEF DmaInv

\* FXmacBdRingToHw: the BDs the DMA engine already has join the hw group.
LEMMA DmaCommit ==
  ASSUME IInv, DmaInv, CommitBds
  PROVE  DmaInv'
<1>1. /\ pc = "commit" /\ pc' = "idle"
      /\ ring' = FXmacBdRingToHw(ring, frags, bdset)
      /\ UNCHANGED <<used, last, storage, hwptr, caller, frags, sent, early,
                     torn>>
  BY DEF CommitBds, histVars
<1>2. /\ ring \in Ring /\ RingConsistent(ring) /\ frags \in Nat \ {0}
      /\ ring.hw_cnt \in 0 .. N /\ ring.pre_cnt = frags
      /\ ring.post_cnt = 0 /\ ring.hw_head \in BD
      /\ ToHwOk(ring, frags, bdset)
  BY <1>1, Facts DEF IInv, Locals, TxRingInv, ToHwOk
<1>3. /\ ring'.hw_cnt = ring.hw_cnt + frags /\ ring'.pre_cnt = 0
      /\ ring'.hw_head = ring.hw_head /\ ring'.post_cnt = 0
  <2>1. ring' = [ring EXCEPT !.pre_head = SeekAhead(ring.pre_head, frags),
                   !.pre_cnt = ring.pre_cnt - frags,
                   !.hw_tail = SeekAhead(ring.pre_head, frags),
                   !.hw_cnt = ring.hw_cnt + frags]
    BY <1>1, <1>2, ToHwRing
  <2> QED
    BY <1>2, <2>1 DEF Ring
<1>4. Room /\ Fetched /\ Blank /\ Order
  BY <1>1 DEF DmaInv
<1>5. /\ Unreleased = 0 /\ Unreleased' = 0
      /\ Given = ring.hw_cnt + frags /\ Given' = ring.hw_cnt + frags
  BY <1>1, <1>2, <1>3 DEF Unreleased, Given
<1>6. \A j : /\ UsedAt(j)' <=> UsedAt(j)
             /\ LastAt(j)' <=> LastAt(j)
             /\ PktAt(j)' = PktAt(j)
  BY <1>1, <1>3, SameView
<1>7. 2 * (ring.hw_cnt + frags) <= N
  BY <1>2, <1>4 DEF Room
<1>8. Room'
  BY <1>1, <1>2, <1>3, <1>7 DEF Room
<1>9. Fetched' /\ Blank'
  BY <1>1, <1>2, <1>3, <1>4, <1>5, <1>6, RingAssumption DEF Fetched, Blank
<1>10. Filled'
  BY <1>1 DEF Filled
<1>11. Order'
  <2>1. PICK s \in 0 .. N : Transmitted(s)
    BY <1>4 DEF Order
  <2>2. PICK g \in 0 .. N : g = ring.hw_cnt + frags
    BY <1>2, <1>7, RingAssumption
  <2>3. Transmitted(s)'
    BY <1>1, <1>3, <1>5, <1>6, <2>1, <2>2, TransmittedKept
  <2> QED
    BY <1>1, <2>3 DEF Order
<1> QED
  BY <1>1, <1>8, <1>9, <1>10, <1>11 DEF DmaInv

\* FXmacInitDma leaves a ring as blank as the initial one.
LEMMA DmaReset ==
  ASSUME DmaInv, FXmacHandleDmaTxError
  PROVE  DmaInv'
<1>1. /\ ring'.hw_cnt = 0 /\ ring'.pre_cnt = 0 /\ ring'.post_cnt = 0
      /\ ring'.hw_head = 0 /\ pc' = "idle" /\ hwptr' = 0
      /\ used' = [i \in BD |-> TRUE] /\ last' = [i \in BD |-> FALSE]
      /\ UNCHANGED <<early, torn>>
  BY DEF FXmacHandleDmaTxError, FXmacBdRingCreate, histVars
<1>2. \A j \in 0 .. N - 1 : UsedAt(j)' /\ ~LastAt(j)'
  <2>1. \A j \in 0 .. N - 1 : SeekAhead(ring'.hw_head, j) \in BD
    BY <1>1, RingAssumption DEF SeekAhead, BD
  <2> QED
    BY <1>1, <2>1, Zenon DEF UsedAt, LastAt, Nth
<1>3. Nth(0)' = 0
  BY <1>1, RingAssumption DEF Nth, SeekAhead
<1>4. Transmitted(0)'
  BY <1>1, <1>3 DEF Transmitted, Given, SamePkt
<1>5. Room' /\ Fetched' /\ Blank' /\ Filled'
  BY <1>1, <1>2, RingAssumption DEF Room, Fetched, Blank, Filled, Unreleased
<1>6. Order'
  BY <1>1, <1>4, RingAssumption DEF Order
<1> QED
  BY <1>1, <1>5, <1>6 DEF DmaInv


\* Every step preserves DmaInv.
LEMMA NextDma == WindowFits /\ IInv /\ DmaInv /\ [Next]_vars => DmaInv'
<1> SUFFICES ASSUME WindowFits, IInv, DmaInv, [Next]_vars PROVE DmaInv'
  OBVIOUS
<1>1. CASE DmaTransmit
  BY <1>1, DmaTransmitStep
<1>2. ASSUME NEW n \in Frags, FXmacOsTx(n) PROVE DmaInv'
  BY <1>2, DmaOsTx
<1>3. CASE Send
  <2>1. ClearUsed => DmaInv'
    BY DmaClearNext, DmaClearFirst
  <2>2. FillBd => DmaInv'
    BY FillInv, DmaFillBd
  <2> QED
    BY <1>3, <2>1, <2>2, DmaWalkStart, DmaWalkBd, DmaWalkEnd, DmaReleaseBd,
       DmaReleaseEnd, DmaDropPacket, DmaAllocBds, DmaSetLast, DmaCommit
    DEF Send
<1>4. CASE TxCollision
  BY <1>4, DmaCollision
<1>5. CASE FXmacHandleDmaTxError
  BY <1>5, DmaReset
<1>6. CASE FXmacHandleTxErrors
  BY <1>6 DEF FXmacHandleTxErrors, histVars, DmaInv
<1>7. CASE UNCHANGED vars
  <2>1. UNCHANGED <<ring, used, last, storage, hwptr, sent, early, torn, pc,
                    caller, bdset, cur, bd_limit, bd_count, bd_partial, pkt,
                    frags>>
    BY <1>7 DEF vars, ringVars, walkVars, histVars
  <2>2. Given' = Given /\ Unreleased' = Unreleased
    BY <2>1 DEF Given, Unreleased
  <2>3. /\ Room => Room'
        /\ Filled => Filled'
        /\ \A s, w : Walked(s, w) => Walked(s, w)'
    BY <2>1 DEF Room, Filled, Walked, UsedAt, LastAt, PktAt, Nth
  <2>4. Order => Order'
    BY <2>1, <2>2, <2>3, QuietView DEF Order
  <2> QED
    BY <2>1, <2>2, <2>3, <2>4, QuietView DEF DmaInv
<1> QED
  BY <1>1, <1>2, <1>3, <1>4, <1>5, <1>6, <1>7 DEF Next

\* DmaInv holds throughout every behaviour.
LEMMA SpecDma == WindowFits => (Spec => []DmaInv)
<1> SUFFICES ASSUME WindowFits PROVE Spec => []DmaInv
  OBVIOUS
<1>1. IInv /\ DmaInv /\ [Next]_vars => DmaInv'
  BY NextDma
<1> QED
  BY <1>1, InitDma, SpecIInv, PTL DEF Spec

\* FXmacProcessSentBds releases a pbuf only after the DMA engine has
\* transmitted its packet, although FXmacBdRingFromHwTx skips BDs that are not
\* USED and walks on behind the hw group: for every ring of which the longest
\* packet leaves half free.
THEOREM TxNoEarlyRelease == WindowFits => (Spec => []NoEarlyRelease)
<1>1. DmaInv => NoEarlyRelease
  BY DEF DmaInv, NoEarlyRelease
<1> QED
  BY <1>1, SpecDma, PTL

\* The DMA engine fetches whole packets only, however FXmacSgsend and the
\* reclaiming of sent BDs interleave with it: FXmacSgsend clears the USED bit
\* of the first BD last, and released BDs are USED again before they are free.
THEOREM TxNoTornPacket == WindowFits => (Spec => []NoTornPacket)
<1>1. DmaInv => NoTornPacket
  BY DEF DmaInv, NoTornPacket
<1> QED
  BY <1>1, SpecDma, PTL

-----------------------------------------------------------------------------
(***************************************************************************)
(* Why every send ends.  A send goes through its stages in one direction,  *)
(* and inside a stage every turn of a loop leaves fewer turns to make.     *)
(***************************************************************************)

\* The loops of FXmacOsTx in the order in which they run.
Stage ==
  CASE pc = "fromhw" -> 7 [] pc = "walk" -> 6 [] pc = "release" -> 5
    [] pc = "space" -> 4 [] pc = "fill" -> 3 [] pc = "ready" -> 2
    [] pc = "commit" -> 1 [] OTHER -> 0

\* Places between hw_head and the BD the walk is at; BDs of the hw group the
\* walk has still to pass, each of which it may skip.
Ahead ==
  IF cur >= ring.hw_head THEN cur - ring.hw_head ELSE cur + N - ring.hw_head
ToPass == IF Ahead < ring.hw_cnt THEN ring.hw_cnt - Ahead ELSE 0

\* Turns left in the loop at pc, at most.
TurnsLeft ==
  CASE pc = "walk" /\ bd_count < bd_limit -> ToPass + bd_limit - bd_count
    [] pc = "release" -> bd_count - bd_partial
    [] pc \in {"fill", "ready"} -> frags - bd_count
    [] OTHER -> 0

\* The step ends a stage, or it is a turn that leaves fewer.
Nearer == Stage' < Stage \/ (Stage' = Stage /\ TurnsLeft' < TurnsLeft)

\* The places of the BDs behind hw_head.
LEMMA AheadNth ==
  ASSUME NEW w \in 0 .. N - 1, ring.hw_head \in BD, cur = Nth(w)
  PROVE  Ahead = w
BY RingAssumption DEF Ahead, Nth, SeekAhead, BD

\* There are never fewer than no turns left.
LEMMA TurnsType ==
  ASSUME IInv
  PROVE  Stage \in 0 .. 7 /\ TurnsLeft \in Nat
<1>1. Stage \in 0 .. 7
  BY DEF Stage
<1> SUFFICES TurnsLeft \in Nat
  BY <1>1
<1>2. ToPass \in Nat
  <2>1. cur \in BD /\ ring.hw_head \in BD /\ ring.hw_cnt \in 0 .. N
    BY Facts
  <2>2. Ahead \in Nat
    BY <2>1, RingAssumption DEF Ahead, BD
  <2> QED
    BY <2>1, <2>2, RingAssumption DEF ToPass
<1>3. CASE pc = "walk"
  BY <1>2, <1>3, Facts, RingAssumption DEF TurnsLeft
<1>4. CASE pc = "release"
  BY <1>4, Facts DEF TurnsLeft
<1>5. CASE pc \in {"fill", "ready"}
  BY <1>5, Facts DEF TurnsLeft, IInv, Locals
<1>6. CASE pc \notin {"walk", "release", "fill", "ready"}
  BY <1>6 DEF TurnsLeft
<1> QED
  BY <1>3, <1>4, <1>5, <1>6

\* A turn of the walk counts a BD, or it skips one of the hw group; before it
\* is once round the ring it has counted enough.
LEMMA WalkNearer ==
  ASSUME IInv, DmaInv, WalkBd
  PROVE  Nearer
<1>1. /\ pc = "walk" /\ pc' = "walk" /\ bd_count < bd_limit
      /\ cur' = SeekAhead(cur, 1) /\ ring' = ring /\ bd_limit' = bd_limit
  BY DEF WalkBd, WalkNext, ringVars
<1>2. /\ used[cur] => bd_count' = bd_count + 1
      /\ ~used[cur] => bd_count' = bd_count
  BY DEF WalkBd
<1>3. PICK s \in 0 .. N, w \in 0 .. N : Transmitted(s) /\ Walked(s, w)
  BY <1>1 DEF DmaInv, Order
<1>4. /\ ring.hw_cnt \in 0 .. N /\ ring.hw_head \in BD
      /\ bd_count \in 0 .. N /\ bd_limit = ring.hw_cnt /\ cur = Nth(w)
      /\ 2 * ring.hw_cnt <= N /\ ring.pre_cnt = 0
      /\ w <= ring.hw_cnt + bd_count
  BY <1>1, <1>3, Facts DEF DmaInv, Room, IInv, Locals, Walked
<1>5. w \in 0 .. N - 1 /\ w < 2 * ring.hw_cnt
  BY <1>1, <1>4, RingAssumption
<1>6. Ahead = w
  BY <1>4, <1>5, AheadNth
<1>7. w + 1 < N => Ahead' = w + 1
  <2> SUFFICES ASSUME w + 1 < N PROVE Ahead' = w + 1
    OBVIOUS
  <2>1. cur' = SeekAhead(ring.hw_head, w + 1)
    BY <1>1, <1>4, <1>5, SeekAheadAdd, RingAssumption DEF Nth
  <2> QED
    BY <1>1, <1>4, <1>5, <2>1, RingAssumption DEF Ahead, SeekAhead, BD
<1>8. TurnsLeft = ToPass + bd_limit - bd_count
  BY <1>1 DEF TurnsLeft
<1>9. ToPass = IF w < ring.hw_cnt THEN ring.hw_cnt - w ELSE 0
  BY <1>6 DEF ToPass
<1>10. Stage' = Stage
  BY <1>1 DEF Stage
<1>11. CASE bd_count' >= bd_limit
  <2>1. TurnsLeft' = 0
    BY <1>1, <1>2, <1>4, <1>11 DEF TurnsLeft
  <2>2. TurnsLeft > 0
    BY <1>1, <1>4, <1>5, <1>8, <1>9, RingAssumption
  <2> QED
    BY <1>10, <2>1, <2>2 DEF Nearer
<1>12. CASE bd_count' < bd_limit
  <2>1. TurnsLeft' = ToPass' + bd_limit - bd_count'
    BY <1>1, <1>12 DEF TurnsLeft
  <2>2. w < ring.hw_cnt \/ used[cur]
    <3>1. w >= ring.hw_cnt => UsedAt(w)
      BY <1>1, <1>4, <1>5, RingAssumption DEF DmaInv, Blank, Unreleased
    <3> QED
      BY <1>4, <1>5, <3>1 DEF UsedAt
  <2>3. w + 1 < N
    BY <1>1, <1>2, <1>4, <1>5, <1>12, <2>2, RingAssumption
  <2>4. ToPass' = IF w + 1 < ring.hw_cnt THEN ring.hw_cnt - (w + 1) ELSE 0
    BY <1>1, <1>7, <2>3 DEF ToPass
  <2>5. TurnsLeft' < TurnsLeft
    BY <1>2, <1>4, <1>5, <1>8, <1>9, <2>1, <2>2, <2>4, RingAssumption
  <2> QED
    BY <1>10, <2>5 DEF Nearer
<1> QED
  BY <1>2, <1>4, <1>11, <1>12

\* Every step of a send brings it nearer to its end.
LEMMA SendNearer ==
  ASSUME IInv, DmaInv, Send
  PROVE  Nearer
<1>1. CASE WalkBd
  BY <1>1, WalkNearer
<1>2. CASE WalkStart \/ WalkEnd \/ ReleaseEnd \/ DropPacket \/ AllocBds
           \/ SetLast \/ CommitBds
  <2>1. Stage' < Stage
    BY <1>2 DEF WalkStart, WalkEnd, ReleaseEnd, DropPacket, AllocBds, SetLast,
       CommitBds, Return, Stage
  <2> QED
    BY <2>1 DEF Nearer
<1>3. CASE ReleaseBd
  <2>1. /\ pc = "release" /\ pc' = "release" /\ bd_count' = bd_count
        /\ bd_partial' = bd_partial + 1
    BY <1>3 DEF ReleaseBd
  <2> QED
    BY <2>1, Facts DEF Nearer, Stage, TurnsLeft
<1>4. CASE FillBd
  <2>1. storage[cur] = 0
    BY <1>4, FillInv DEF FillNeverRefused, FillBd
  <2>2. /\ pc = "fill" /\ pc' = "fill" /\ frags' = frags
        /\ bd_count' = bd_count + 1
    BY <1>4, <2>1 DEF FillBd
  <2> QED
    BY <2>2, Facts DEF Nearer, Stage, TurnsLeft
<1>5. CASE ClearUsed
  <2>1. /\ pc = "ready" /\ frags' = frags
        /\ \/ pc' = "ready" /\ bd_count' = bd_count + 1
           \/ pc' = "commit"
    BY <1>5 DEF ClearUsed
  <2> QED
    BY <2>1, Facts DEF Nearer, Stage, TurnsLeft
<1> QED
  BY <1>1, <1>2, <1>3, <1>4, <1>5 DEF Send

\* The DMA engine cannot send it back.
LEMMA DmaNoFurther ==
  ASSUME DmaTransmit
  PROVE  Stage' = Stage /\ TurnsLeft' = TurnsLeft
<1>1. UNCHANGED <<ring, pc, cur, bd_limit, bd_count, bd_partial, frags>>
  BY DEF DmaTransmit, walkVars
<1>2. ToPass' = ToPass
  BY <1>1 DEF ToPass, Ahead
<1> QED
  BY <1>1, <1>2 DEF Stage, TurnsLeft

\* FXmacOsTx cannot loop for ever, whatever the DMA engine transmits in the
\* meantime: Stage and TurnsLeft are natural numbers, every step of the send
\* makes the pair smaller in lexicographic order, although
\* FXmacBdRingFromHwTx skips BDs without counting them, and no step of the DMA
\* engine makes it larger.
THEOREM TxSendShrinks ==
  WindowFits =>
    (Spec => /\ [](Stage \in Nat /\ TurnsLeft \in Nat)
             /\ [][/\ Send => Nearer
                   /\ DmaTransmit => UNCHANGED <<Stage, TurnsLeft>>]_vars)
<1> SUFFICES ASSUME WindowFits
             PROVE  Spec => /\ [](Stage \in Nat /\ TurnsLeft \in Nat)
                            /\ [][/\ Send => Nearer
                                  /\ DmaTransmit =>
                                       UNCHANGED <<Stage, TurnsLeft>>]_vars
  OBVIOUS
<1>1. IInv => Stage \in Nat /\ TurnsLeft \in Nat
  BY TurnsType
<1>2. IInv /\ DmaInv /\ [Next]_vars =>
        [/\ Send => Nearer
         /\ DmaTransmit => UNCHANGED <<Stage, TurnsLeft>>]_vars
  BY SendNearer, DmaNoFurther
<1> QED
  BY <1>1, <1>2, SpecIInv, SpecDma, PTL DEF Spec
=============================================================================
