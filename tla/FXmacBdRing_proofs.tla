------------------------- MODULE FXmacBdRing_proofs -------------------------
(***************************************************************************)
(* What the operations on a BD ring do to a consistent ring: which group   *)
(* grows, which one shrinks, where the heads go, and that the four groups  *)
(* still partition the ring.  The counters never wrap around there.        *)
(***************************************************************************)
EXTENDS FXmacBdRing, TLAPS

\* FXMAC_RING_SEEKAHEAD stays in the ring.
LEMMA SeekAheadType ==
  ASSUME NEW bd \in BD, NEW n \in 0 .. N
  PROVE  SeekAhead(bd, n) \in BD
BY RingAssumption DEF SeekAhead, BD

\* Two moves ahead are one, as long as together they go round at most once.
LEMMA SeekAheadAdd ==
  ASSUME NEW bd \in BD, NEW m \in Nat, NEW n \in Nat, m + n <= N
  PROVE  SeekAhead(SeekAhead(bd, m), n) = SeekAhead(bd, m + n)
BY RingAssumption DEF SeekAhead, BD

\* A ring in which the groups partition the BDs has counters up to N only.
LEMMA CountersBounded ==
  ASSUME NEW r \in Ring, RingConsistent(r)
  PROVE  /\ r.free_cnt \in 0 .. N /\ r.pre_cnt \in 0 .. N
         /\ r.hw_cnt \in 0 .. N /\ r.post_cnt \in 0 .. N
BY RingAssumption DEF Ring, RingConsistent

\* A freshly created ring is consistent.
LEMMA CreateConsistent ==
  /\ FXmacBdRingCreate \in Ring
  /\ RingConsistent(FXmacBdRingCreate)
BY RingAssumption DEF FXmacBdRingCreate, Ring, RingConsistent, SeekAhead, BD

\* FXmacBdRingAlloc moves num_bd BDs from the free to the pre group.
LEMMA AllocRing ==
  ASSUME NEW r \in Ring, RingConsistent(r), NEW n \in Nat, AllocOk(r, n)
  PROVE  LET s == FXmacBdRingAlloc(r, n)
         IN /\ s \in Ring /\ RingConsistent(s) /\ n <= N
            /\ s = [r EXCEPT !.free_head = SeekAhead(r.free_head, n),
                             !.free_cnt = r.free_cnt - n,
                             !.pre_cnt = r.pre_cnt + n]
<1> DEFINE s == [r EXCEPT !.free_head = SeekAhead(r.free_head, n),
                          !.free_cnt = r.free_cnt - n,
                          !.pre_cnt = r.pre_cnt + n]
<1>1. /\ r.free_cnt \in 0 .. N /\ r.pre_cnt \in 0 .. N
      /\ r.hw_cnt \in 0 .. N /\ r.post_cnt \in 0 .. N
  BY CountersBounded
<1>2. n <= r.free_cnt /\ n <= N
  BY <1>1, RingAssumption DEF AllocOk
<1>3. /\ SubU32(r.free_cnt, n) = r.free_cnt - n
      /\ AddU32(r.pre_cnt, n) = r.pre_cnt + n
  BY <1>1, <1>2, RingAssumption DEF AddU32, SubU32
<1>4. FXmacBdRingAlloc(r, n) = s
  BY <1>3 DEF FXmacBdRingAlloc
<1>5. s \in Ring
  <2>1. r.free_cnt - n \in 0 .. U32 - 1 /\ r.pre_cnt + n \in 0 .. U32 - 1
    BY <1>1, <1>2, RingAssumption
  <2>2. r.free_head \in BD /\ n \in 0 .. N
    BY <1>2, RingAssumption DEF Ring
  <2>3. SeekAhead(r.free_head, n) \in BD
    BY <2>2, SeekAheadType
  <2> QED
    BY <2>1, <2>3 DEF Ring
<1>6. RingConsistent(s)
  BY <1>1, <1>2, RingAssumption DEF Ring, RingConsistent, SeekAhead, BD
<1> QED
  BY <1>2, <1>4, <1>5, <1>6

\* FXmacBdRingToHw moves the num_bd BDs at pre_head to the hw group.
LEMMA ToHwRing ==
  ASSUME NEW r \in Ring, RingConsistent(r), NEW n \in Nat \ {0},
         NEW bd, ToHwOk(r, n, bd)
  PROVE  LET s == FXmacBdRingToHw(r, n, bd)
         IN /\ s \in Ring /\ RingConsistent(s) /\ n <= N
            /\ s = [r EXCEPT !.pre_head = SeekAhead(r.pre_head, n),
                             !.pre_cnt = r.pre_cnt - n,
                             !.hw_tail = SeekAhead(r.pre_head, n),
                             !.hw_cnt = r.hw_cnt + n]
<1> DEFINE s == [r EXCEPT !.pre_head = SeekAhead(r.pre_head, n),
                          !.pre_cnt = r.pre_cnt - n,
                          !.hw_tail = SeekAhead(r.pre_head, n),
                          !.hw_cnt = r.hw_cnt + n]
<1>1. /\ r.free_cnt \in 0 .. N /\ r.pre_cnt \in 0 .. N
      /\ r.hw_cnt \in 0 .. N /\ r.post_cnt \in 0 .. N
  BY CountersBounded
<1>2. n <= r.pre_cnt /\ n <= N /\ bd = r.pre_head
  BY <1>1, RingAssumption DEF ToHwOk
<1>3. /\ SubU32(r.pre_cnt, n) = r.pre_cnt - n
      /\ AddU32(r.hw_cnt, n) = r.hw_cnt + n
  BY <1>1, <1>2, RingAssumption DEF AddU32, SubU32
<1>4. FXmacBdRingToHw(r, n, bd) = s
  BY <1>2, <1>3 DEF FXmacBdRingToHw
<1>5. s \in Ring
  <2>1. r.pre_cnt - n \in 0 .. U32 - 1 /\ r.hw_cnt + n \in 0 .. U32 - 1
    BY <1>1, <1>2, RingAssumption
  <2>2. r.pre_head \in BD /\ n \in 0 .. N
    BY <1>2, RingAssumption DEF Ring
  <2>3. SeekAhead(r.pre_head, n) \in BD
    BY <2>2, SeekAheadType
  <2> QED
    BY <2>1, <2>3 DEF Ring
<1>6. RingConsistent(s)
  BY <1>1, <1>2, RingAssumption DEF Ring, RingConsistent, SeekAhead, BD
<1> QED
  BY <1>2, <1>4, <1>5, <1>6

\* Fetching at most hw_cnt BDs moves them from the hw to the post group.
LEMMA TakeFromHwRing ==
  ASSUME NEW r \in Ring, RingConsistent(r), NEW n \in Nat, n <= r.hw_cnt
  PROVE  LET s == TakeFromHw(r, n)
         IN /\ s \in Ring /\ RingConsistent(s) /\ n <= N
            /\ s = [r EXCEPT !.hw_cnt = r.hw_cnt - n,
                             !.post_cnt = r.post_cnt + n,
                             !.hw_head = SeekAhead(r.hw_head, n)]
<1> DEFINE s == [r EXCEPT !.hw_cnt = r.hw_cnt - n,
                          !.post_cnt = r.post_cnt + n,
                          !.hw_head = SeekAhead(r.hw_head, n)]
<1>1. /\ r.free_cnt \in 0 .. N /\ r.pre_cnt \in 0 .. N
      /\ r.hw_cnt \in 0 .. N /\ r.post_cnt \in 0 .. N
  BY CountersBounded
<1>2. n <= N
  BY <1>1, RingAssumption
<1>3. /\ SubU32(r.hw_cnt, n) = r.hw_cnt - n
      /\ AddU32(r.post_cnt, n) = r.post_cnt + n
  BY <1>1, <1>2, RingAssumption DEF AddU32, SubU32
<1>4. TakeFromHw(r, n) = s
  BY <1>3 DEF TakeFromHw
<1>5. s \in Ring
  <2>1. r.hw_cnt - n \in 0 .. U32 - 1 /\ r.post_cnt + n \in 0 .. U32 - 1
    BY <1>1, <1>2, RingAssumption
  <2>2. r.hw_head \in BD /\ n \in 0 .. N
    BY <1>2, RingAssumption DEF Ring
  <2>3. SeekAhead(r.hw_head, n) \in BD
    BY <2>2, SeekAheadType
  <2> QED
    BY <2>1, <2>3 DEF Ring
<1>6. RingConsistent(s)
  BY <1>1, <1>2, RingAssumption DEF Ring, RingConsistent, SeekAhead, BD
<1> QED
  BY <1>2, <1>4, <1>5, <1>6

\* FXmacBdRingFree moves the num_bd BDs at post_head to the free group.
LEMMA FreeRing ==
  ASSUME NEW r \in Ring, RingConsistent(r), NEW n \in Nat \ {0},
         NEW bd, FreeOk(r, n, bd)
  PROVE  LET s == FXmacBdRingFree(r, n, bd)
         IN /\ s \in Ring /\ RingConsistent(s) /\ n <= N
            /\ s = [r EXCEPT !.free_cnt = r.free_cnt + n,
                             !.post_cnt = r.post_cnt - n,
                             !.post_head = SeekAhead(r.post_head, n)]
<1> DEFINE s == [r EXCEPT !.free_cnt = r.free_cnt + n,
                          !.post_cnt = r.post_cnt - n,
                          !.post_head = SeekAhead(r.post_head, n)]
<1>1. /\ r.free_cnt \in 0 .. N /\ r.pre_cnt \in 0 .. N
      /\ r.hw_cnt \in 0 .. N /\ r.post_cnt \in 0 .. N
  BY CountersBounded
<1>2. n <= r.post_cnt /\ n <= N
  BY <1>1, RingAssumption DEF FreeOk
<1>3. /\ SubU32(r.post_cnt, n) = r.post_cnt - n
      /\ AddU32(r.free_cnt, n) = r.free_cnt + n
  BY <1>1, <1>2, RingAssumption DEF AddU32, SubU32
<1>4. FXmacBdRingFree(r, n, bd) = s
  BY <1>3 DEF FXmacBdRingFree
<1>5. s \in Ring
  <2>1. r.free_cnt + n \in 0 .. U32 - 1 /\ r.post_cnt - n \in 0 .. U32 - 1
    BY <1>1, <1>2, RingAssumption
  <2>2. r.post_head \in BD /\ n \in 0 .. N
    BY <1>2, RingAssumption DEF Ring
  <2>3. SeekAhead(r.post_head, n) \in BD
    BY <2>2, SeekAheadType
  <2> QED
    BY <2>1, <2>3 DEF Ring
<1>6. RingConsistent(s)
  BY <1>1, <1>2, RingAssumption DEF Ring, RingConsistent, SeekAhead, BD
<1> QED
  BY <1>2, <1>4, <1>5, <1>6

\* A group that loses its first BD.
LEMMA GroupShrink ==
  ASSUME NEW i \in BD, NEW head \in BD, NEW cnt \in 1 .. N
  PROVE  InGroup(i, SeekAhead(head, 1), cnt - 1)
           <=> InGroup(i, head, cnt) /\ i # head
BY RingAssumption DEF InGroup, SeekAhead, BD

\* The BD behind the last one joins.
LEMMA GroupGrow ==
  ASSUME NEW i \in BD, NEW head \in BD, NEW cnt \in 0 .. N - 1
  PROVE  InGroup(i, head, cnt + 1)
           <=> InGroup(i, head, cnt) \/ i = SeekAhead(head, cnt)
BY RingAssumption DEF InGroup, SeekAhead, BD

\* The BD behind the last one is not in a group smaller than the ring.
LEMMA GroupEnd ==
  ASSUME NEW head \in BD, NEW cnt \in 0 .. N - 1
  PROVE  ~InGroup(SeekAhead(head, cnt), head, cnt)
BY RingAssumption DEF InGroup, SeekAhead, BD

\* An empty group has no BD.
LEMMA GroupEmpty ==
  ASSUME NEW i \in BD, NEW head \in BD
  PROVE  ~InGroup(i, head, 0)
BY RingAssumption DEF InGroup, BD

\* The BD j places behind the head of a group is in it when j < cnt.
LEMMA GroupMember ==
  ASSUME NEW head \in BD, NEW cnt \in 0 .. N, NEW j \in 0 .. N - 1
  PROVE  InGroup(SeekAhead(head, j), head, cnt) <=> j < cnt
BY RingAssumption DEF InGroup, SeekAhead, BD

\* Every BD of a group is some places behind its head.
LEMMA GroupIndex ==
  ASSUME NEW head \in BD, NEW cnt \in 0 .. N, NEW i \in BD,
         InGroup(i, head, cnt)
  PROVE  \E j \in 0 .. cnt - 1 : i = SeekAhead(head, j)
<1>1. CASE head <= i
  <2>1. i - head \in 0 .. cnt - 1 /\ SeekAhead(head, i - head) = i
    BY <1>1, RingAssumption DEF InGroup, SeekAhead, BD
  <2> QED
    BY <2>1
<1>2. CASE ~(head <= i)
  <2>1. i + N - head \in 0 .. cnt - 1 /\ SeekAhead(head, i + N - head) = i
    BY <1>2, RingAssumption DEF InGroup, SeekAhead, BD
  <2> QED
    BY <2>1
<1> QED
  BY <1>1, <1>2

\* Two places behind a BD are different as long as they are less than N.
LEMMA SeekInjective ==
  ASSUME NEW head \in BD, NEW i \in 0 .. N - 1, NEW j \in 0 .. N - 1,
         SeekAhead(head, i) = SeekAhead(head, j)
  PROVE  i = j
BY RingAssumption DEF SeekAhead, BD

\* No move, and a move round the whole ring, end where they start.
LEMMA SeekZero ==
  ASSUME NEW bd \in BD
  PROVE  SeekAhead(bd, 0) = bd /\ SeekAhead(bd, N) = bd
BY RingAssumption DEF SeekAhead, BD

\* The BDs that a group loses when it starts n places later.
LEMMA GroupSplit ==
  ASSUME NEW head \in BD, NEW cnt \in 0 .. N, NEW n \in 0 .. cnt, NEW i \in BD
  PROVE  InGroup(i, head, cnt)
           <=> InGroup(i, head, n) \/ InGroup(i, SeekAhead(head, n), cnt - n)
BY RingAssumption DEF InGroup, SeekAhead, BD

\* A group of N BDs is the ring.
LEMMA GroupFull ==
  ASSUME NEW head \in BD, NEW i \in BD
  PROVE  InGroup(i, head, N)
BY RingAssumption DEF InGroup, BD

\* Setting and clearing one bit.
LEMMA BitSet ==
  ASSUME NEW S, NEW f \in [S -> BOOLEAN], NEW i \in S
  PROVE  /\ [f EXCEPT ![i] = TRUE] \in [S -> BOOLEAN]
         /\ \A j \in S : [f EXCEPT ![i] = TRUE][j] <=> f[j] \/ j = i
BY Zenon

LEMMA BitClear ==
  ASSUME NEW S, NEW f \in [S -> BOOLEAN], NEW i \in S
  PROVE  /\ [f EXCEPT ![i] = FALSE] \in [S -> BOOLEAN]
         /\ \A j \in S : [f EXCEPT ![i] = FALSE][j] <=> f[j] /\ j # i
BY Zenon
=============================================================================
