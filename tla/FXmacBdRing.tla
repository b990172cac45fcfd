---------------------------- MODULE FXmacBdRing ----------------------------
(***************************************************************************)
(* The buffer-descriptor (BD) ring of the XMAC Ethernet driver, as the     *)
(* operators of fxmac_bdring.c: every operator takes the bookkeeping part  *)
(* of an FXmacBdRing structure and returns the updated one.                *)
(*                                                                         *)
(* A BD is named by its index in the ring, so base_bd_addr is 0,           *)
(* high_bd_addr is N - 1 and a step of `separation' bytes is a step of 1.  *)
(* The ring is cut into four consecutive groups, in ring order:            *)
(* post (processed by hardware and fetched), hw (given to hardware),       *)
(* pre (allocated, being filled in) and free.                              *)
(***************************************************************************)
EXTENDS Integers

CONSTANTS
  N,    \* number of BDs in the ring (bd_count of FXmacBdRingCreate)
  U32   \* number of values of a u32 counter: 2^32 in the code

ASSUME RingAssumption == N \in Nat \ {0} /\ U32 \in Nat /\ U32 > 2 * N

BD == 0 .. N - 1

\* What the driver keeps about a ring; the counters are u32.
Ring == [free_cnt : 0 .. U32 - 1, pre_cnt : 0 .. U32 - 1,
         hw_cnt : 0 .. U32 - 1, post_cnt : 0 .. U32 - 1,
         free_head : BD, pre_head : BD, hw_head : BD, hw_tail : BD,
         post_head : BD]

\* Unsigned 32-bit arithmetic: a result out of range wraps around.
AddU32(a, b) == IF a + b >= U32 THEN a + b - U32 ELSE a + b
SubU32(a, b) == IF a < b THEN a - b + U32 ELSE a - b

\* Mutant: the comparison with high_bd_addr is off by one.
Mut_SeekAhead(bd, num_bd) ==
  IF bd + num_bd > N THEN bd + num_bd - N ELSE bd + num_bd

\* FXMAC_RING_SEEKAHEAD and FXMAC_RING_SEEKBACK: at most one wrap-around.
SeekAhead(bd, num_bd) ==
  IF bd + num_bd > N - 1 THEN bd + num_bd - N ELSE bd + num_bd

SeekBack(bd, num_bd) ==
  IF bd - num_bd < 0 THEN bd - num_bd + N ELSE bd - num_bd

\* The ring FXmacBdRingCreate leaves: every BD free, every head at the base.
FXmacBdRingCreate ==
  [free_cnt |-> N, pre_cnt |-> 0, hw_cnt |-> 0, post_cnt |-> 0,
   free_head |-> 0, pre_head |-> 0, hw_head |-> 0, hw_tail |-> 0,
   post_head |-> 0]

\* FXmacBdRingAlloc: refused when there are not enough free BDs, else the
\* caller gets the num_bd BDs from free_head on.
AllocOk(r, num_bd) == r.free_cnt >= num_bd

FXmacBdRingAlloc(r, num_bd) ==
  IF AllocOk(r, num_bd)
    THEN [r EXCEPT !.free_head = SeekAhead(@, num_bd),
                   !.free_cnt = SubU32(@, num_bd),
                   !.pre_cnt = AddU32(@, num_bd)]
    ELSE r

\* FXmacBdRingUnAlloc: undo the last num_bd allocations.
FXmacBdRingUnAlloc(r, num_bd) ==
  IF r.pre_cnt >= num_bd
    THEN [r EXCEPT !.free_head = SeekBack(@, num_bd),
                   !.free_cnt = AddU32(@, num_bd),
                   !.pre_cnt = SubU32(@, num_bd)]
    ELSE r

\* FXmacBdRingToHw: refused unless the set starts at pre_head.
ToHwOk(r, num_bd, bd_set) == r.pre_cnt >= num_bd /\ r.pre_head = bd_set

FXmacBdRingToHw(r, num_bd, bd_set) ==
  IF num_bd # 0 /\ ToHwOk(r, num_bd, bd_set)
    THEN [r EXCEPT !.pre_head = SeekAhead(@, num_bd),
                   !.pre_cnt = SubU32(@, num_bd),
                   !.hw_tail = SeekAhead(bd_set, num_bd),
                   !.hw_cnt = AddU32(@, num_bd)]
    ELSE r

\* The end of FXmacBdRingFromHwRx/Tx: num_bd BDs move from hw to post.
TakeFromHw(r, num_bd) ==
  [r EXCEPT !.hw_cnt = SubU32(@, num_bd),
            !.post_cnt = AddU32(@, num_bd),
            !.hw_head = SeekAhead(@, num_bd)]

\* The walk of FXmacBdRingFromHwRx stops after num_bd BDs: it meets a BD
\* whose NEW bit is clear, or the limit.  Nothing stops it at the end of the
\* hw group.  (Every received frame fits one BD, so its EOF bit is set and
\* no partial packet is subtracted.)
FromHwRxCount(r, new, bd_limit, num_bd) ==
  /\ num_bd \in 0 .. bd_limit
  /\ r.hw_cnt = 0 => num_bd = 0
  /\ r.hw_cnt # 0 =>
       /\ \A j \in 0 .. num_bd - 1 : new[SeekAhead(r.hw_head, j)]
       /\ num_bd = bd_limit \/ ~new[SeekAhead(r.hw_head, num_bd)]

\* FXmacBdRingFree: refused unless the set starts at post_head.
FreeOk(r, num_bd, bd_set) == r.post_cnt >= num_bd /\ r.post_head = bd_set

\* Mutants: post_head stays behind; one BD is forgotten.
Mut_FreeKeepsHead(r, num_bd, bd_set) ==
  IF num_bd # 0 /\ FreeOk(r, num_bd, bd_set)
    THEN [r EXCEPT !.free_cnt = AddU32(@, num_bd),
                   !.post_cnt = SubU32(@, num_bd)]
    ELSE r

Mut_FreeAllButOne(r, num_bd, bd_set) ==
  IF num_bd # 0 /\ FreeOk(r, num_bd, bd_set)
    THEN [r EXCEPT !.free_cnt = AddU32(@, num_bd - 1),
                   !.post_cnt = SubU32(@, num_bd - 1),
                   !.post_head = SeekAhead(@, num_bd - 1)]
    ELSE r

FXmacBdRingFree(r, num_bd, bd_set) ==
  IF num_bd # 0 /\ FreeOk(r, num_bd, bd_set)
    THEN [r EXCEPT !.free_cnt = AddU32(@, num_bd),
                   !.post_cnt = SubU32(@, num_bd),
                   !.post_head = SeekAhead(@, num_bd)]
    ELSE r

-----------------------------------------------------------------------------
\* BD i is one of the cnt BDs that start at head.
InGroup(i, head, cnt) == (head <= i /\ i < head + cnt) \/ i + N < head + cnt

\* The four groups partition the ring: each starts where the previous one
\* ends, and together they have exactly N BDs.
RingConsistent(r) ==
  /\ r.free_cnt + r.pre_cnt + r.hw_cnt + r.post_cnt = N
  /\ r.hw_head = SeekAhead(r.post_head, r.post_cnt)
  /\ r.pre_head = SeekAhead(r.hw_head, r.hw_cnt)
  /\ r.free_head = SeekAhead(r.pre_head, r.pre_cnt)
=============================================================================
