----------------------------- MODULE FI2c_proofs -----------------------------
(***************************************************************************)
(* The I2C master driver for any number of tasks, transfers of any length  *)
(* and any depth of the FIFOs.  Polled transfers are counted without any   *)
(* condition; interrupt-mode transfers are what they should be within the  *)
(* limits of SafeUse and until an abort or an event got lost.              *)
(***************************************************************************)
EXTENDS FI2c, TLAPS

\* The places of the polling modes and of the interrupt modes.
PollLocations == {"start", "rpush", "rdrain", "wpush", "stop"}
IntrLocations == {"intr", "istat", "begin", "setup", "wait", "mask"}

\* The mutex is held by the task between its take and its give, and the
\* interrupt is open only in an interrupt-mode call, which has been noted.
LockInv ==
  /\ \A t \in Tasks : locker = t <=> pc[t] \notin {"idle", "lock"}
  /\ locker = "null" <=> ~ready
  /\ ~ready => AllIdle
  /\ gic => \E t \in Tasks : pc[t] \in IntrLocations
  /\ \A t \in Tasks :
       /\ pc[t] \in IntrLocations => op[t].mode = "intr" /\ op[t] \in used
       /\ pc[t] \in PollLocations => op[t].mode = "poll"
       /\ pc[t] \in {"rpush", "rdrain"} => op[t].dir = "read"
       /\ pc[t] = "wpush" => op[t].dir = "write"
       /\ pc[t] \in {"start", "intr", "istat", "begin"} => ret[t] = "OK"

\* The words a polled read still waits for: those to be asked for, those
\* asked for and those in the receive FIFO are no more than the bytes to be
\* read; after an abort there are fewer, so that the loop cannot end.
ReadCount ==
  IF abrt THEN rxf < rx_len
          ELSE /\ txf + rxf + tx_len <= rx_len + addr
               /\ addr > 0 => rxf = 0 /\ rx_len > 0

\* Polled transfers: the bytes moved and those left are all bytes, and an
\* abort stays latched until it is reported.
PollInv ==
  /\ abrt => txf = 0
  /\ addr <= 1
  /\ \A t \in Tasks :
       /\ pc[t] \in {"rpush", "rdrain"} =>
            src = op[t] /\ moved + rx_len = total /\ ReadCount
       /\ pc[t] = "wpush" => moved + tx_len = total
       /\ pc[t] = "stop" => moved = total
       /\ pc[t] \in {"start", "rpush", "rdrain"} /\ nack => abrt
       /\ pc[t] = "stop" /\ op[t].dir = "read" => txf = 0 /\ ~nack
       /\ /\ pc[t] = "give" /\ op[t].mode = "poll" /\ op[t].dir = "read"
          /\ ret[t] = "OK"
          => txf = 0 /\ ~nack

\* The event e is in the queue q of requests, and at most once.
Has(e, q) == \E i \in DOMAIN q : q[i] = e
Once(e, q) == \A i, j \in DOMAIN q : q[i] = e /\ q[j] = e => i = j
Raised(e) == e \in bits \/ Has(e, pended)
RaisedOnce(e) == Once(e, pended) /\ (e \in bits => ~Has(e, pended))

\* The driver is used within its limits and nothing has been lost.
Safe == ready /\ ~trouble /\ SafeUse
ReadsUsed == \E o \in used : o.dir = "read"

\* A transfer waits for its event: before and after its words have been
\* pushed, and, for a read, after the byte has been taken.
WriteWaits ==
  /\ rxf = 0 /\ "RX_FULL" \notin mask
  /\ IF "TX_EMPTY" \in mask
       THEN status = "WRITE" /\ moved = 0 /\ ~Raised("WRITE_DONE")
       ELSE moved = total
ReadWaits ==
  IF "RX_FULL" \in mask
    THEN /\ status = "READ" /\ moved = 0 /\ ~Raised("READ_DONE")
         /\ IF "TX_EMPTY" \in mask THEN txf = addr /\ rxf = 0
                                   ELSE addr = 0 /\ txf + rxf <= 1
    ELSE "TX_EMPTY" \notin mask /\ moved = total

\* The fields of the driver are those of the transfer o.
Entered(o) ==
  /\ src = o /\ ~abrt /\ live /\ total = o.len /\ tx_total = o.len
  /\ o.dir = "read" => rx_cnt = 0 /\ rx_total = o.len

\* Interrupt-mode transfers within the limits: the handler finds work only
\* while a task waits, and it raises the event a task waits for once, when
\* all bytes have moved.
IntrInv ==
  Safe =>
    /\ tx_cnt = 0
    /\ mask \intersect {"TX_EMPTY", "RX_FULL"} # {} =>
         \E t \in Tasks : pc[t] = "wait"
    /\ \A t \in Tasks :
         /\ pc[t] \in {"setup", "wait"} => Entered(op[t])
         /\ pc[t] = "setup" => moved = 0 /\ txf = addr /\ rxf = 0
         /\ pc[t] = "wait" =>
              IF op[t].dir = "read" THEN ReadWaits ELSE WriteWaits
    /\ ~Raised("ABORTED")
    /\ Raised("READ_DONE") =>
         \E t \in Tasks : pc[t] = "wait" /\ op[t].dir = "read"
    /\ RaisedOnce("READ_DONE")
    /\ Raised("WRITE_DONE") =>
         ReadsUsed \/ \E t \in Tasks : pc[t] = "wait" /\ op[t].dir = "write"
    /\ ReadsUsed \/ RaisedOnce("WRITE_DONE")

IInv == TypeOK /\ LockInv /\ PollInv /\ IntrInv /\ NoForeignAccess

\* The numbers a transfer can have.
LEMMA OpsFields ==
  ASSUME NEW o \in Ops
  PROVE  /\ o.dir \in {"read", "write"} /\ o.mode \in {"poll", "intr"}
         /\ o.len \in Nat \ {0} /\ o.len < U32
<1>1. /\ o.dir \in {"read", "write"} /\ o.mode \in {"poll", "intr"}
      /\ o.len \in Lengths
  BY DEF Ops
<1>2. o.len \in Nat \ {0} /\ o.len + Depth < U32 /\ Depth \in Nat
  BY <1>1, I2cAssumption
<1>3. U32 \in Nat
  BY I2cAssumption
<1> QED
  BY <1>1, <1>2, <1>3

\* The smallest of two or three numbers.
LEMMA LeastOfTwo ==
  ASSUME NEW a \in Int, NEW b \in Int
  PROVE  /\ Least({a, b}) \in {a, b}
         /\ Least({a, b}) <= a /\ Least({a, b}) <= b
<1>1. \E x \in {a, b} : \A y \in {a, b} : x <= y
  <2>1. CASE a <= b
    BY <2>1
  <2>2. CASE ~(a <= b)
    BY <2>2
  <2> QED
    BY <2>1, <2>2
<1> QED
  BY <1>1 DEF Least

\* The smallest of three.
LEMMA LeastOfThree ==
  ASSUME NEW a \in Int, NEW b \in Int, NEW c \in Int
  PROVE  /\ Least({a, b, c}) \in {a, b, c}
         /\ Least({a, b, c}) <= a /\ Least({a, b, c}) <= b
         /\ Least({a, b, c}) <= c
<1>1. \E x \in {a, b, c} : \A y \in {a, b, c} : x <= y
  <2>1. CASE a <= b /\ a <= c
    BY <2>1
  <2>2. CASE b <= a /\ b <= c
    BY <2>2
  <2>3. CASE c <= a /\ c <= b
    BY <2>3
  <2> QED
    BY <2>1, <2>2, <2>3
<1> QED
  BY <1>1 DEF Least

\* What the loops move: never more than is left, is there or fits.
LEMMA RoundsFit ==
  ASSUME TypeOK
  PROVE  /\ \A n : n = Least({tx_len, Depth - rxf, Depth - txf}) =>
              n \in Nat /\ n <= tx_len /\ n <= Depth - txf
         /\ \A n : n = Least({rx_len, rxf}) =>
              n \in Nat /\ n <= rx_len /\ n <= rxf /\ n \in {rx_len, rxf}
         /\ \A n : n = Least({tx_len, Depth - txf}) =>
              n \in Nat /\ n <= tx_len /\ n <= Depth - txf
<1> DEFINE a == Depth - rxf
           b == Depth - txf
<1>1. tx_len \in Nat /\ rx_len \in Nat /\ rxf \in Nat /\ a \in Nat /\ b \in Nat
  BY I2cAssumption DEF TypeOK
<1> HIDE DEF a, b
<1>2. /\ Least({tx_len, a, b}) \in {tx_len, a, b}
      /\ Least({tx_len, a, b}) <= tx_len /\ Least({tx_len, a, b}) <= b
  BY <1>1, LeastOfThree
<1>3. /\ Least({rx_len, rxf}) \in {rx_len, rxf}
      /\ Least({rx_len, rxf}) <= rx_len /\ Least({rx_len, rxf}) <= rxf
  BY <1>1, LeastOfTwo
<1>4. /\ Least({tx_len, b}) \in {tx_len, b}
      /\ Least({tx_len, b}) <= tx_len /\ Least({tx_len, b}) <= b
  BY <1>1, LeastOfTwo
<1> QED
  BY <1>1, <1>2, <1>3, <1>4 DEF a, b

\* What the handler pushes.
LEMMA TxRoundFits ==
  ASSUME TypeOK
  PROVE  /\ BufLen \in 0 .. U32 - 1
         /\ TxRound \in Nat /\ TxRound <= BufLen /\ TxRound <= Depth - txf
         /\ TxRound \in {BufLen, Depth - rxf, Depth - txf}
<1>1. /\ tx_total - tx_cnt \in Int /\ U32 \in Nat \ {0}
      /\ Depth - rxf \in Nat /\ Depth - txf \in Nat
  BY I2cAssumption DEF TypeOK
<1>2. BufLen \in 0 .. U32 - 1
  BY <1>1 DEF BufLen
<1> HIDE DEF BufLen
<1>3. /\ TxRound \in {BufLen, Depth - rxf, Depth - txf}
      /\ TxRound <= BufLen /\ TxRound <= Depth - txf
  BY <1>1, <1>2, LeastOfThree DEF TxRound
<1> QED
  BY <1>1, <1>2, <1>3

-----------------------------------------------------------------------------
(* The queue of requests *)

\* One request appended.
LEMMA AppendEvent ==
  ASSUME NEW q \in Seq(Events), NEW e \in Events
  PROVE  /\ Append(q, e) \in Seq(Events)
         /\ \A f : Has(f, Append(q, e)) <=> Has(f, q) \/ f = e
         /\ \A f : Once(f, q) /\ (f = e => ~Has(f, q)) => Once(f, Append(q, e))
<1> DEFINE s == Append(q, e)
<1> HIDE DEF Events
<1>1. /\ s \in Seq(Events) /\ Len(s) = Len(q) + 1 /\ Len(q) \in Nat
      /\ \A i \in 1 .. Len(q) : s[i] = q[i]
      /\ s[Len(q) + 1] = e
  OBVIOUS
<1>2. DOMAIN s = 1 .. Len(q) + 1 /\ DOMAIN q = 1 .. Len(q)
  BY <1>1
<1>3. \A i \in 1 .. Len(q) + 1 : i \in 1 .. Len(q) \/ i = Len(q) + 1
  BY <1>1
<1>4. /\ Len(q) + 1 \in 1 .. Len(q) + 1
      /\ \A i \in 1 .. Len(q) : i \in 1 .. Len(q) + 1
  BY <1>1
<1> HIDE DEF s
<1>5. \A f : Has(f, s) <=> Has(f, q) \/ f = e
  BY <1>1, <1>2, <1>3, <1>4 DEF Has
<1>6. \A f : Once(f, q) /\ (f = e => ~Has(f, q)) => Once(f, s)
  BY <1>1, <1>2, <1>3, <1>4 DEF Has, Once
<1> QED
  BY <1>1, <1>5, <1>6 DEF s

\* The oldest request taken off.
LEMMA OldestServed ==
  ASSUME NEW q \in Seq(Events), q # <<>>
  PROVE  /\ Head(q) \in Events /\ Tail(q) \in Seq(Events)
         /\ \A f : Has(f, q) <=> Has(f, Tail(q)) \/ f = Head(q)
         /\ \A f : Once(f, q) => Once(f, Tail(q))
                                 /\ (f = Head(q) => ~Has(f, Tail(q)))
<1> DEFINE s == Tail(q)
<1> HIDE DEF Events
<1>1. /\ s \in Seq(Events) /\ Len(s) = Len(q) - 1 /\ Len(q) \in Nat \ {0}
      /\ \A i \in 1 .. Len(s) : s[i] = q[i + 1]
      /\ Head(q) = q[1] /\ q[1] \in Events
  OBVIOUS
<1>2. DOMAIN s = 1 .. Len(q) - 1 /\ DOMAIN q = 1 .. Len(q)
  BY <1>1
<1>3. /\ 1 \in DOMAIN q
      /\ \A i \in DOMAIN s : i + 1 \in DOMAIN q /\ i + 1 # 1
      /\ \A i \in DOMAIN s : s[i] = q[i + 1]
      /\ \A i \in DOMAIN q : i # 1 => i - 1 \in DOMAIN s /\ s[i - 1] = q[i]
      /\ \A i, j \in DOMAIN s : i + 1 = j + 1 => i = j
  BY <1>1, <1>2
<1> HIDE DEF s
<1>4. \A f : Has(f, q) <=> Has(f, s) \/ f = Head(q)
  <2>1. ASSUME NEW i \in DOMAIN q, i # 1 PROVE Has(q[i], s)
    BY <1>3, <2>1 DEF Has
  <2>2. ASSUME NEW i \in DOMAIN s PROVE Has(s[i], q)
    BY <1>3 DEF Has
  <2>3. Has(Head(q), q)
    BY <1>1, <1>3 DEF Has
  <2>4. ASSUME NEW f, Has(f, q) PROVE Has(f, s) \/ f = Head(q)
    BY <1>1, <2>1, <2>4 DEF Has
  <2>5. ASSUME NEW f, Has(f, s) \/ f = Head(q) PROVE Has(f, q)
    <3>1. CASE Has(f, s)
      BY <2>2, <3>1 DEF Has
    <3> QED
      BY <2>3, <2>5, <3>1
  <2> QED
    BY <2>4, <2>5
<1>5. \A f : Once(f, q) => Once(f, s)
  BY <1>3 DEF Once
<1>6. \A f : Once(f, q) => (f = Head(q) => ~Has(f, s))
  BY <1>1, <1>3 DEF Once, Has
<1> QED
  BY <1>1, <1>4, <1>5, <1>6 DEF s

\* A request that the queue takes or loses.
LEMMA RaiseKind ==
  ASSUME TypeOK, NEW e \in Events, Raise(e)
  PROVE  /\ pended' \in Seq(Events)
         /\ trouble' = trouble \/ trouble' = TRUE
         /\ ~trouble' => ~trouble /\ pended' = Append(pended, e)
<1>1. Append(pended, e) \in Seq(Events) /\ pended \in Seq(Events)
  BY AppendEvent DEF TypeOK
<1>2. trouble \in BOOLEAN
  BY DEF TypeOK, FlagsOK
<1>3. CASE pended' = Append(pended, e) /\ trouble' = trouble
  BY <1>1, <1>2, <1>3
<1>4. CASE trouble' = TRUE /\ pended' = pended
  BY <1>1, <1>4
<1> QED
  BY <1>3, <1>4 DEF Raise

-----------------------------------------------------------------------------
(* The limits *)

\* Within the limits all transfers in use are of one kind.
LEMMA SafeKinds ==
  ASSUME TypeOK, SafeUse, NEW o \in used
  PROVE  /\ o.len <= Depth
         /\ o.dir = "read" => o.len = 1 /\ ReadsUsed
         /\ o.dir = "write" => ~ReadsUsed
  BY DEF SafeUse, ReadsUsed, TypeOK

\* Only an initialisation brings the driver back within the limits.
LEMMA LimitsKept ==
  [Next]_vars /\ ~FFreeRTOSI2cInit =>
    /\ ready' => ready
    /\ ~trouble' => ~trouble
    /\ SafeUse' => SafeUse
<1> SUFFICES ASSUME [Next]_vars, ~FFreeRTOSI2cInit
             PROVE  /\ ready' => ready
                    /\ ~trouble' => ~trouble
                    /\ SafeUse' => SafeUse
  OBVIOUS
<1>1. /\ ready' => ready
      /\ ~trouble' => ~trouble
      /\ used \subseteq used'
  <2> USE DEF osVars, hwVars, ctrlVars, taskVars, histVars
  <2>1. ASSUME NEW t \in Tasks, Task(t)
        PROVE  /\ ready' = ready /\ (~trouble' => ~trouble)
               /\ used \subseteq used'
    <3>1. CASE TakeMutex(t)
      BY <3>1 DEF TakeMutex
    <3>2. CASE PollStart(t) \/ ReadPush(t) \/ ReadDrain(t) \/ WritePush(t)
      BY <3>2 DEF PollStart, ReadPush, ReadDrain, WritePush
    <3>3. CASE StopTrans(t) \/ SetupIntr(t)
      BY <3>3 DEF StopTrans, SetupIntr
    <3>4. CASE WaitBits(t) \/ MaskIrq(t) \/ GiveMutex(t)
      BY <3>4 DEF WaitBits, MaskIrq, GiveMutex
    <3>5. CASE CheckStatus(t) \/ AwaitStatus(t) \/ BeginTrans(t)
      <4>1. ready' = ready /\ used' = used
        BY <3>5 DEF CheckStatus, AwaitStatus, BeginTrans
      <4>2. ~trouble' => ~trouble
        BY <3>5, Zenon DEF CheckStatus, AwaitStatus, BeginTrans
      <4> QED
        BY <4>1, <4>2
    <3> QED
      BY <2>1, <3>1, <3>2, <3>3, <3>4, <3>5 DEF Task
  <2>2. CASE IntrAbort \/ IntrRxFull \/ IntrTxEmpty
    BY <2>2 DEF IntrAbort, IntrRxFull, IntrTxEmpty, Raise
  <2>3. CASE FFreeRTOSI2cDeinit \/ SetBits \/ BusStep
    BY <2>3 DEF FFreeRTOSI2cDeinit, SetBits, BusStep
  <2>6. CASE BusAbort
    <3>1. ready' = ready /\ used' = used
      BY <2>6 DEF BusAbort
    <3>2. ~trouble' => ~trouble
      BY <2>6, Zenon DEF BusAbort
    <3> QED
      BY <3>1, <3>2
  <2>4. ASSUME NEW t \in Tasks, NEW o \in Ops, Call(t, o)
        PROVE  UNCHANGED <<ready, trouble, used>>
    BY <2>4 DEF Call
  <2>5. CASE UNCHANGED vars
    BY <2>5 DEF vars
  <2> QED
    BY <2>1, <2>2, <2>3, <2>4, <2>5, <2>6 DEF Next, FI2cMasterIntrHandler
<1>2. SafeUse' => SafeUse
  BY <1>1 DEF SafeUse
<1> QED
  BY <1>1, <1>2

\* The same of the condition of the invariant.
LEMMA SafeKept == [Next]_vars /\ ~FFreeRTOSI2cInit /\ Safe' => Safe
  BY LimitsKept DEF Safe

-----------------------------------------------------------------------------
(* Interrupt-mode transfers *)

\* One task at a time is inside.
LEMMA OneInside ==
  ASSUME LockInv, NEW t \in Tasks, pc[t] \notin {"idle", "lock"}
  PROVE  \A u \in Tasks : u # t => pc[u] \in {"idle", "lock"}
  BY DEF LockInv

\* The events and what is to be pushed between two transfers.
Between ==
  /\ tx_cnt = 0 /\ mask \intersect {"TX_EMPTY", "RX_FULL"} = {}
  /\ \A t \in Tasks : pc[t] \notin {"setup", "wait"}
  /\ ~Raised("ABORTED") /\ ~Raised("READ_DONE") /\ RaisedOnce("READ_DONE")
  /\ ReadsUsed \/ (~Raised("WRITE_DONE") /\ RaisedOnce("WRITE_DONE"))

\* It is the invariant when no task waits.
LEMMA BetweenInv ==
  /\ Between => IntrInv
  /\ IntrInv /\ Safe /\ (\A t \in Tasks : pc[t] \notin {"setup", "wait"}) =>
       Between
  BY DEF Between, IntrInv

\* A step of a task before or after its transfer.
LEMMA Elsewhere ==
  ASSUME IInv, Safe' => Safe,
         \A t \in Tasks : pc[t] \notin {"setup", "wait"},
         Safe' => \A t \in Tasks : pc'[t] \notin {"setup", "wait"},
         UNCHANGED <<bits, pended, tx_cnt, mask>>, used \subseteq used'
  PROVE  IntrInv'
<1> SUFFICES ASSUME Safe' PROVE IntrInv'
  BY DEF IntrInv
<1>1. Between
  BY BetweenInv DEF IInv
<1>2. /\ \A e : Raised(e)' <=> Raised(e)
      /\ \A e : RaisedOnce(e)' <=> RaisedOnce(e)
      /\ ReadsUsed => ReadsUsed'
  BY DEF Raised, RaisedOnce, Has, Once, ReadsUsed
<1>3. Between'
  BY <1>1, <1>2 DEF Between
<1> QED
  BY <1>3, BetweenInv, PTL

\* A step that the waiting task, the handler and the bus do not notice.
LEMMA Unnoticed ==
  ASSUME IInv, Safe' => Safe,
         UNCHANGED <<bits, pended, mask, tx_cnt, tx_total, rx_cnt, rx_total,
                     status, src, abrt, live, total, moved, txf, addr, rxf,
                     used>>,
         \A t \in Tasks :
           /\ pc'[t] = "setup" <=> pc[t] = "setup"
           /\ pc'[t] = "wait" <=> pc[t] = "wait"
           /\ pc[t] \in {"setup", "wait"} => op'[t] = op[t]
  PROVE  IntrInv'
<1> SUFFICES ASSUME Safe' PROVE IntrInv'
  BY DEF IntrInv
<1>1. /\ \A e : Raised(e)' <=> Raised(e)
      /\ \A e : RaisedOnce(e)' <=> RaisedOnce(e)
      /\ ReadsUsed <=> ReadsUsed'
  BY DEF Raised, RaisedOnce, Has, Once, ReadsUsed
<1>2. ASSUME NEW t \in Tasks, op'[t] = op[t]
      PROVE  /\ Entered(op[t])' <=> Entered(op[t])
             /\ ReadWaits' <=> ReadWaits
             /\ WriteWaits' <=> WriteWaits
  <2>1. Entered(op[t])' <=> Entered(op[t])
    BY <1>2 DEF Entered
  <2>2. ReadWaits' <=> ReadWaits
    BY <1>1, <1>2 DEF ReadWaits
  <2>3. WriteWaits' <=> WriteWaits
    BY <1>1, <1>2 DEF WriteWaits
  <2> QED
    BY <2>1, <2>2, <2>3
<1>3. Safe /\ IntrInv
  BY DEF IInv
<1>4. ASSUME NEW t \in Tasks
      PROVE  /\ pc'[t] \in {"setup", "wait"} => Entered(op[t])'
             /\ pc'[t] = "setup" => moved' = 0 /\ txf' = addr' /\ rxf' = 0
             /\ pc'[t] = "wait" =>
                  IF op'[t].dir = "read" THEN ReadWaits'
                                         ELSE WriteWaits'
  BY <1>2, <1>3 DEF IntrInv
<1>5. ASSUME NEW d, \E t \in Tasks : pc[t] = "wait" /\ op[t].dir = d
      PROVE  \E t \in Tasks : pc'[t] = "wait" /\ op'[t].dir = d
  BY <1>5
<1>6. /\ tx_cnt' = 0
      /\ mask' \intersect {"TX_EMPTY", "RX_FULL"} # {} =>
           \E t \in Tasks : pc'[t] = "wait"
  BY <1>3 DEF IntrInv
<1> QED
  BY <1>1, <1>3, <1>4, <1>5, <1>6 DEF IntrInv

\* Within the limits the handler takes the only byte of a read that waits
\* for it.
LEMMA RxFullTakes ==
  ASSUME IInv, Safe, IntrRxFull
  PROVE  \E t \in Tasks :
           /\ pc[t] = "wait" /\ op[t].dir = "read" /\ Entered(op[t])
           /\ "TX_EMPTY" \notin mask /\ mask' = mask \ {"RX_FULL"}
           /\ ~Raised("READ_DONE") /\ moved = 0 /\ moved' = total /\ total = 1
           /\ rx_cnt' = 0 /\ foreign' = foreign
<1> USE DEF IInv
<1>1. gic /\ "RX_FULL" \in mask /\ rxf > 0
  BY DEF IntrRxFull, RxFull
<1>2. PICK t \in Tasks : pc[t] = "wait"
  BY <1>1 DEF IntrInv
<1>3. op[t] \in used /\ op[t].dir \in {"read", "write"}
  BY <1>2, OpsFields DEF LockInv, IntrLocations, TypeOK
<1>4. /\ Entered(op[t])
      /\ IF op[t].dir = "read" THEN ReadWaits ELSE WriteWaits
  BY <1>2 DEF IntrInv
<1>5. op[t].dir = "read" /\ ReadWaits
  BY <1>1, <1>3, <1>4 DEF WriteWaits
<1>6. op[t].len = 1
  BY <1>3, <1>5, SafeKinds DEF Safe
<1>7. txf \in Nat /\ rxf \in Nat
  BY DEF TypeOK
<1>8. /\ "TX_EMPTY" \notin mask /\ rxf = 1 /\ moved = 0
      /\ ~Raised("READ_DONE")
  BY <1>1, <1>5, <1>7 DEF ReadWaits
<1>9. live /\ total = 1 /\ rx_cnt = 0 /\ rx_total = 1
  BY <1>4, <1>5, <1>6 DEF Entered
<1>10. LastByte
  BY <1>8, <1>9 DEF LastByte
<1>11. /\ mask' = mask \ {"RX_FULL"} /\ moved' = 1 /\ rx_cnt' = 0
       /\ foreign' = foreign
  <2>1. foreign' = (foreign \/ FALSE) /\ foreign \in BOOLEAN
    BY <1>9 DEF IntrRxFull, TypeOK, FlagsOK
  <2> QED
    BY <1>8, <1>9, <1>10, <2>1 DEF IntrRxFull
<1> QED
  BY <1>2, <1>4, <1>5, <1>8, <1>9, <1>11

\* Within the limits the handler pushes all of a transfer that waits.
LEMMA TxEmptyPushes ==
  ASSUME IInv, Safe, IntrTxEmpty
  PROVE  \E t \in Tasks :
           /\ pc[t] = "wait" /\ Entered(op[t]) /\ op[t] \in used
           /\ mask' = mask \ {"TX_EMPTY"} /\ tx_cnt' = 0 /\ moved = 0
           /\ foreign' = foreign
           /\ \/ /\ op[t].dir = "read" /\ ReadWaits
                 /\ "RX_FULL" \in mask /\ status' = "READ"
                 /\ addr = 0 /\ txf' = 1 /\ rxf = 0 /\ moved' = 0
              \/ /\ op[t].dir = "write" /\ WriteWaits
                 /\ ~Raised("WRITE_DONE") /\ moved' = total
<1> USE DEF IInv
<1>1. gic /\ "TX_EMPTY" \in mask /\ txf = 0
  BY DEF IntrTxEmpty
<1>2. PICK t \in Tasks : pc[t] = "wait"
  BY <1>1 DEF IntrInv
<1>3. op[t] \in used /\ op[t].dir \in {"read", "write"}
  BY <1>2, OpsFields DEF LockInv, IntrLocations, TypeOK
<1>4. /\ Entered(op[t]) /\ tx_cnt = 0
      /\ op[t].dir = "read" => ReadWaits
      /\ op[t].dir = "write" => WriteWaits
  BY <1>2, <1>3 DEF IntrInv
<1>5. /\ op[t].len \in Nat \ {0} /\ op[t].len < U32 /\ op[t].len <= Depth
      /\ op[t].dir = "read" => op[t].len = 1
  BY <1>3, OpsFields, SafeKinds DEF Safe, TypeOK
<1>6. /\ ~abrt /\ live /\ total = op[t].len /\ tx_total = op[t].len
  BY <1>4 DEF Entered
<1>7. addr = 0 /\ rxf = 0
  BY <1>1, <1>3, <1>4 DEF ReadWaits, WriteWaits, TypeOK
<1>8. BufLen = op[t].len
  BY <1>4, <1>5, <1>6, I2cAssumption DEF BufLen
<1>9. TxRound = op[t].len
  BY <1>1, <1>5, <1>7, <1>8, TxRoundFits, I2cAssumption
<1>10. /\ mask' = mask \ {"TX_EMPTY"} /\ tx_cnt' = 0 /\ txf' = op[t].len
  BY <1>6, <1>8, <1>9 DEF IntrTxEmpty, MaskTx
<1>11. /\ status \in {"READ", "WRITE"} /\ moved = 0
       /\ op[t].dir = "read" => "RX_FULL" \in mask /\ status = "READ"
       /\ op[t].dir = "write" => status = "WRITE" /\ ~Raised("WRITE_DONE")
  BY <1>1, <1>3, <1>4 DEF ReadWaits, WriteWaits
<1>12. foreign' = foreign
  <2>1. foreign \in BOOLEAN
    BY DEF TypeOK, FlagsOK
  <2>2. foreign' = (foreign \/ FALSE \/ FALSE)
    BY <1>6, <1>11 DEF IntrTxEmpty
  <2> QED
    BY <2>1, <2>2
<1>13. CASE op[t].dir = "read"
  <2>1. moved' = 0 /\ status' = "READ"
    BY <1>11, <1>13 DEF IntrTxEmpty
  <2> QED
    BY <1>2, <1>3, <1>4, <1>5, <1>7, <1>10, <1>11, <1>12, <1>13, <2>1
<1>14. CASE op[t].dir = "write"
  <2>1. moved' = total
    BY <1>5, <1>6, <1>9, <1>11, <1>14 DEF IntrTxEmpty
  <2> QED
    BY <1>2, <1>3, <1>4, <1>10, <1>11, <1>12, <1>14, <2>1
<1> QED
  BY <1>3, <1>13, <1>14

-----------------------------------------------------------------------------

\* The Boolean variables keep their type.
LEMMA FlagsStep == FlagsOK /\ [Next]_vars => FlagsOK'
<1> SUFFICES ASSUME FlagsOK, [Next]_vars PROVE FlagsOK'
  OBVIOUS
<1> USE DEF FlagsOK, Goto, osVars, hwVars, ctrlVars, taskVars, histVars
<1>1. CASE FFreeRTOSI2cInit
  BY <1>1, Zenon DEF FFreeRTOSI2cInit, FI2cDeInitialize
<1>2. CASE FFreeRTOSI2cDeinit
  BY <1>2, Zenon DEF FFreeRTOSI2cDeinit, FI2cDeInitialize
<1>3. ASSUME NEW t \in Tasks, NEW o \in Ops, Call(t, o) PROVE FlagsOK'
  BY <1>3, Zenon DEF Call
<1>4. ASSUME NEW t \in Tasks, TakeMutex(t) PROVE FlagsOK'
  BY <1>4, Zenon DEF TakeMutex
<1>5. ASSUME NEW t \in Tasks, PollStart(t) PROVE FlagsOK'
  BY <1>5, Zenon DEF PollStart, Started, StartFailed, Fail
<1>6. ASSUME NEW t \in Tasks, ReadPush(t) PROVE FlagsOK'
  BY <1>6, Zenon DEF ReadPush, ReadAborted, ReadFail, Fail
<1>7. ASSUME NEW t \in Tasks, ReadDrain(t) PROVE FlagsOK'
  BY <1>7, Zenon DEF ReadDrain
<1>8. ASSUME NEW t \in Tasks, WritePush(t) PROVE FlagsOK'
  BY <1>8, Zenon DEF WritePush, Fail
<1>9. ASSUME NEW t \in Tasks, StopTrans(t) PROVE FlagsOK'
  BY <1>9, Zenon DEF StopTrans, Fail
<1>10. ASSUME NEW t \in Tasks, CheckStatus(t) PROVE FlagsOK'
  BY <1>10, Zenon DEF CheckStatus, Fail
<1>10a. ASSUME NEW t \in Tasks, AwaitStatus(t) PROVE FlagsOK'
  BY <1>10a, Zenon DEF AwaitStatus
<1>11. ASSUME NEW t \in Tasks, BeginTrans(t) PROVE FlagsOK'
  BY <1>11, Zenon DEF BeginTrans, Started, StartFailed, Fail
<1>12. ASSUME NEW t \in Tasks, SetupIntr(t) PROVE FlagsOK'
  BY <1>12, Zenon DEF SetupIntr
<1>13. ASSUME NEW t \in Tasks, WaitBits(t) PROVE FlagsOK'
  BY <1>13, Zenon DEF WaitBits
<1>14. ASSUME NEW t \in Tasks, MaskIrq(t) PROVE FlagsOK'
  BY <1>14, Zenon DEF MaskIrq
<1>15. ASSUME NEW t \in Tasks, GiveMutex(t) PROVE FlagsOK'
  BY <1>15, Zenon DEF GiveMutex
<1>16. CASE IntrAbort
  BY <1>16, Zenon DEF IntrAbort
<1>17. CASE IntrRxFull
  BY <1>17, Zenon DEF IntrRxFull, Raise
<1>18. CASE IntrTxEmpty
  BY <1>18, Zenon DEF IntrTxEmpty, Raise
<1>19. CASE SetBits
  BY <1>19, Zenon DEF SetBits
<1>20. CASE BusStep
  BY <1>20, Zenon DEF BusStep
<1>21. CASE BusAbort
  BY <1>21, Zenon DEF BusAbort
<1>22. CASE UNCHANGED vars
  BY <1>22, Zenon DEF vars
<1> QED
  BY <1>1, <1>2, <1>3, <1>4, <1>5, <1>6, <1>7, <1>8, <1>9, <1>10, <1>10a,
     <1>11, <1>12, <1>13, <1>14, <1>15, <1>16, <1>17, <1>18, <1>19, <1>20,
     <1>21, <1>22 DEF Next, Task, FI2cMasterIntrHandler

\* Every step keeps the types.
LEMMA TypeStep == TypeOK /\ [Next]_vars => TypeOK'
<1> SUFFICES ASSUME TypeOK, [Next]_vars PROVE TypeOK'
  OBVIOUS
<1> USE I2cAssumption, FlagsStep DEF TypeOK, Locations, Goto, osVars, hwVars,
     ctrlVars, taskVars, histVars
<1>1. CASE FFreeRTOSI2cInit
  BY <1>1 DEF FFreeRTOSI2cInit, FI2cDeInitialize
<1>2. CASE FFreeRTOSI2cDeinit
  BY <1>2 DEF FFreeRTOSI2cDeinit, FI2cDeInitialize
<1>3. ASSUME NEW t \in Tasks, NEW o \in Ops, Call(t, o) PROVE TypeOK'
  BY <1>3 DEF Call
<1>4. ASSUME NEW t \in Tasks, TakeMutex(t) PROVE TypeOK'
  BY <1>4 DEF TakeMutex
<1>5. ASSUME NEW t \in Tasks, PollStart(t) PROVE TypeOK'
  <2>1. op[t] \in Ops /\ op[t].len \in Nat
    BY OpsFields
  <2>2. pc' \in [Tasks -> Locations] /\ ret' \in [Tasks -> {"OK", "ERROR"}]
    BY <1>5 DEF PollStart, Fail
  <2>3. /\ txf' \in 0 .. Depth /\ addr' \in 0 .. txf' /\ rxf' \in 0 .. Depth
        /\ src' \in Ops /\ moved' \in Nat /\ total' \in Nat
    BY <1>5, <2>1 DEF PollStart, Started, StartFailed
  <2> QED
    BY <1>5, <2>1, <2>2, <2>3 DEF PollStart
<1>6. ASSUME NEW t \in Tasks, ReadPush(t) PROVE TypeOK'
  <2> DEFINE n == Least({tx_len, Depth - rxf, Depth - txf})
  <2>1. n \in Nat /\ n <= tx_len /\ n <= Depth - txf
    BY RoundsFit
  <2> HIDE DEF n
  <2>2. /\ txf' \in {txf, txf + n} /\ tx_len' \in {tx_len, tx_len - n}
        /\ ret' \in [Tasks -> {"OK", "ERROR"}] /\ pc' \in [Tasks -> Locations]
    BY <1>6 DEF ReadPush, ReadFail, Fail, n
  <2>3. txf' \in 0 .. Depth /\ addr \in 0 .. txf' /\ tx_len' \in Nat
    BY <2>1, <2>2
  <2> QED
    BY <1>6, <2>2, <2>3 DEF ReadPush
<1>7. ASSUME NEW t \in Tasks, ReadDrain(t) PROVE TypeOK'
  <2> DEFINE n == Least({rx_len, rxf})
  <2>1. n \in Nat /\ n <= rx_len /\ n <= rxf
    BY RoundsFit
  <2> HIDE DEF n
  <2>2. rxf' = rxf - n /\ rx_len' = rx_len - n /\ moved' = moved + n
    BY <1>7 DEF ReadDrain, n
  <2>3. rxf' \in 0 .. Depth /\ rx_len' \in Nat /\ moved' \in Nat
    BY <2>1, <2>2
  <2> QED
    BY <1>7, <2>3 DEF ReadDrain
<1>8. ASSUME NEW t \in Tasks, WritePush(t) PROVE TypeOK'
  <2> DEFINE n == Least({tx_len, Depth - txf})
  <2>1. n \in Nat /\ n <= tx_len /\ n <= Depth - txf
    BY RoundsFit
  <2> HIDE DEF n
  <2>2. /\ txf' \in {txf, txf + n} /\ tx_len' \in {tx_len, tx_len - n}
        /\ moved' \in {moved, moved + n}
        /\ ret' \in [Tasks -> {"OK", "ERROR"}] /\ pc' \in [Tasks -> Locations]
    BY <1>8 DEF WritePush, Fail, n
  <2>3. /\ txf' \in 0 .. Depth /\ addr \in 0 .. txf' /\ tx_len' \in Nat
        /\ moved' \in Nat
    BY <2>1, <2>2
  <2> QED
    BY <1>8, <2>2, <2>3 DEF WritePush
<1>9. ASSUME NEW t \in Tasks, StopTrans(t) PROVE TypeOK'
  BY <1>9 DEF StopTrans, Fail
<1>10. ASSUME NEW t \in Tasks, CheckStatus(t) PROVE TypeOK'
  BY <1>10 DEF CheckStatus, Fail
<1>10a. ASSUME NEW t \in Tasks, AwaitStatus(t) PROVE TypeOK'
  BY <1>10a DEF AwaitStatus
<1>11. ASSUME NEW t \in Tasks, BeginTrans(t) PROVE TypeOK'
  <2>1. op[t] \in Ops /\ op[t].len \in 0 .. U32 - 1 /\ op[t].len \in Nat
    BY OpsFields
  <2>2. /\ tx_total' \in 0 .. U32 - 1 /\ rx_total' \in 0 .. U32 - 1
        /\ rx_cnt' \in 0 .. U32 - 1 /\ tx_cnt' \in 0 .. U32 - 1
    BY <1>11, <2>1 DEF BeginTrans
  <2>3. /\ status' \in {"IDLE", "READ", "WRITE", "ERROR"}
        /\ pc' \in [Tasks -> Locations] /\ ret' \in [Tasks -> {"OK", "ERROR"}]
    BY <1>11 DEF BeginTrans, Fail
  <2>4. /\ txf' \in 0 .. Depth /\ addr' \in 0 .. txf' /\ rxf' \in 0 .. Depth
        /\ src' \in Ops /\ moved' \in Nat /\ total' \in Nat
    BY <1>11, <2>1 DEF BeginTrans, Started, StartFailed
  <2> QED
    BY <1>11, <2>2, <2>3, <2>4 DEF BeginTrans
<1>12. ASSUME NEW t \in Tasks, SetupIntr(t) PROVE TypeOK'
  BY <1>12 DEF SetupIntr
<1>13. ASSUME NEW t \in Tasks, WaitBits(t) PROVE TypeOK'
  BY <1>13 DEF WaitBits
<1>14. ASSUME NEW t \in Tasks, MaskIrq(t) PROVE TypeOK'
  BY <1>14 DEF MaskIrq
<1>15. ASSUME NEW t \in Tasks, GiveMutex(t) PROVE TypeOK'
  BY <1>15 DEF GiveMutex
<1>16. CASE IntrAbort
  <2>1. "ABORTED" \in Events
    BY DEF Events
  <2>2. pended' \in Seq(Events)
    BY <1>16, <2>1, AppendEvent DEF IntrAbort
  <2> QED
    BY <1>16, <2>2 DEF IntrAbort
<1>17. CASE IntrRxFull
  <2>1. "READ_DONE" \in Events
    BY DEF Events
  <2>2. pended' \in Seq(Events)
    BY <1>17, <2>1, RaiseKind DEF IntrRxFull
  <2>3. rx_cnt' \in 0 .. U32 - 1
    BY <1>17 DEF IntrRxFull, LastByte
  <2> QED
    BY <1>17, <2>2, <2>3 DEF IntrRxFull
<1>18. CASE IntrTxEmpty
  <2>1. "WRITE_DONE" \in Events
    BY DEF Events
  <2>2. pended' \in Seq(Events)
    BY <1>18, <2>1, RaiseKind DEF IntrTxEmpty, TxEvent
  <2>3. TxRound \in Nat /\ TxRound <= Depth - txf
    BY TxRoundFits
  <2>4. U32 \in Nat \ {0}
    BY OpsFields
  <2>5. txf' \in 0 .. Depth /\ addr \in 0 .. txf' /\ moved' \in Nat
    BY <1>18, <2>3 DEF IntrTxEmpty
  <2>6. tx_cnt' \in 0 .. U32 - 1
    BY <1>18, <2>3, <2>4 DEF IntrTxEmpty
  <2> QED
    BY <1>18, <2>2, <2>5, <2>6 DEF IntrTxEmpty, MaskTx
<1>19. CASE SetBits
  BY <1>19 DEF SetBits
<1>20. CASE BusStep
  BY <1>20 DEF BusStep
<1>21. CASE BusAbort
  BY <1>21 DEF BusAbort
<1>22. CASE UNCHANGED vars
  BY <1>22 DEF vars
<1> QED
  BY <1>1, <1>2, <1>3, <1>4, <1>5, <1>6, <1>7, <1>8, <1>9, <1>10, <1>10a,
     <1>11, <1>12, <1>13, <1>14, <1>15, <1>16, <1>17, <1>18, <1>19, <1>20,
     <1>21, <1>22 DEF Next, Task, FI2cMasterIntrHandler

\* Every step keeps the mutex with the task inside.
LEMMA LockStep == TypeOK /\ LockInv /\ [Next]_vars => LockInv'
<1> SUFFICES ASSUME TypeOK, LockInv, [Next]_vars PROVE LockInv'
  OBVIOUS
<1> USE I2cAssumption DEF TypeOK, FlagsOK, LockInv, AllIdle, PollLocations,
     IntrLocations, Goto, osVars, hwVars, ctrlVars, taskVars, histVars
<1>1. CASE FFreeRTOSI2cInit
  BY <1>1 DEF FFreeRTOSI2cInit, FI2cDeInitialize
<1>2. CASE FFreeRTOSI2cDeinit
  BY <1>2 DEF FFreeRTOSI2cDeinit, FI2cDeInitialize
<1>3. ASSUME NEW t \in Tasks, NEW o \in Ops, Call(t, o) PROVE LockInv'
  BY <1>3 DEF Call
<1>4. ASSUME NEW t \in Tasks, TakeMutex(t) PROVE LockInv'
  <2>1. used \subseteq used' /\ (op[t].mode = "intr" => op[t] \in used')
    BY <1>4 DEF TakeMutex, Noted
  <2>2. op[t].mode \in {"poll", "intr"}
    BY OpsFields
  <2>3. /\ pc' = [pc EXCEPT ![t] =
                     IF op[t].mode = "intr" THEN "intr" ELSE "start"]
        /\ locker' = t /\ op' = op /\ ready' = ready /\ pc[t] = "lock"
        /\ locker = "free" /\ ret' = [ret EXCEPT ![t] = "OK"]
        /\ gic' = (gic \/ op[t].mode = "intr")
    BY <1>4 DEF TakeMutex
  <2>4. \A u \in Tasks : pc[u] \in {"idle", "lock"}
    BY <2>3
  <2>5. ready
    BY <2>3
  <2> QED
    BY <2>1, <2>2, <2>3, <2>4, <2>5
<1>5. ASSUME NEW t \in Tasks, PollStart(t) PROVE LockInv'
  <2>1. /\ pc[t] = "start" /\ UNCHANGED <<locker, ready, gic, op, used>>
        /\ \E l \in {"rpush", "wpush", "give"} :
              /\ Goto(t, l)
              /\ l = "rpush" <=> l # "give" /\ op[t].dir = "read"
        /\ \A u \in Tasks : u # t => ret'[u] = ret[u]
    BY <1>5 DEF PollStart, Fail
  <2>2. op[t].dir \in {"read", "write"}
    BY OpsFields
  <2> QED
    BY <2>1, <2>2
<1>6. ASSUME NEW t \in Tasks, ReadPush(t) PROVE LockInv'
  BY <1>6 DEF ReadPush, ReadAborted, ReadFail, Fail
<1>7. ASSUME NEW t \in Tasks, ReadDrain(t) PROVE LockInv'
  BY <1>7 DEF ReadDrain
<1>8. ASSUME NEW t \in Tasks, WritePush(t) PROVE LockInv'
  BY <1>8 DEF WritePush, Fail
<1>9. ASSUME NEW t \in Tasks, StopTrans(t) PROVE LockInv'
  BY <1>9 DEF StopTrans, Fail
<1>10. ASSUME NEW t \in Tasks, CheckStatus(t) PROVE LockInv'
  BY <1>10 DEF CheckStatus, Fail
<1>10a. ASSUME NEW t \in Tasks, AwaitStatus(t) PROVE LockInv'
  BY <1>10a DEF AwaitStatus
<1>11. ASSUME NEW t \in Tasks, BeginTrans(t) PROVE LockInv'
  BY <1>11 DEF BeginTrans, Started, StartFailed, Fail
<1>12. ASSUME NEW t \in Tasks, SetupIntr(t) PROVE LockInv'
  BY <1>12 DEF SetupIntr
<1>13. ASSUME NEW t \in Tasks, WaitBits(t) PROVE LockInv'
  BY <1>13 DEF WaitBits
<1>14. ASSUME NEW t \in Tasks, MaskIrq(t) PROVE LockInv'
  BY <1>14 DEF MaskIrq
<1>15. ASSUME NEW t \in Tasks, GiveMutex(t) PROVE LockInv'
  BY <1>15 DEF GiveMutex
<1>16. CASE IntrAbort
  BY <1>16 DEF IntrAbort
<1>17. CASE IntrRxFull
  BY <1>17 DEF IntrRxFull
<1>18. CASE IntrTxEmpty
  BY <1>18 DEF IntrTxEmpty
<1>19. CASE SetBits
  BY <1>19 DEF SetBits
<1>20. CASE BusStep
  BY <1>20 DEF BusStep
<1>21. CASE BusAbort
  BY <1>21 DEF BusAbort
<1>22. CASE UNCHANGED vars
  BY <1>22 DEF vars
<1> QED
  BY <1>1, <1>2, <1>3, <1>4, <1>5, <1>6, <1>7, <1>8, <1>9, <1>10, <1>10a,
     <1>11, <1>12, <1>13, <1>14, <1>15, <1>16, <1>17, <1>18, <1>19, <1>20,
     <1>21, <1>22 DEF Next, Task, FI2cMasterIntrHandler

\* Every step keeps count of the bytes of polled transfers.
LEMMA PollStep == TypeOK /\ LockInv /\ PollInv /\ [Next]_vars => PollInv'
<1> SUFFICES ASSUME TypeOK, LockInv, PollInv, [Next]_vars PROVE PollInv'
  OBVIOUS
<1> USE I2cAssumption DEF TypeOK, FlagsOK, LockInv, AllIdle, PollInv,
     ReadCount, PollLocations, IntrLocations, Goto, osVars, hwVars, ctrlVars,
     taskVars, histVars
<1>1. CASE FFreeRTOSI2cInit
  BY <1>1 DEF FFreeRTOSI2cInit, FI2cDeInitialize
<1>2. CASE FFreeRTOSI2cDeinit
  <2>1. \A t \in Tasks : pc'[t] = "idle"
    BY <1>2 DEF FFreeRTOSI2cDeinit
  <2> QED
    BY <1>2, <2>1 DEF FFreeRTOSI2cDeinit
<1>3. ASSUME NEW t \in Tasks, NEW o \in Ops, Call(t, o) PROVE PollInv'
  BY <1>3 DEF Call
<1>4. ASSUME NEW t \in Tasks, TakeMutex(t) PROVE PollInv'
  BY <1>4 DEF TakeMutex
<1>5. ASSUME NEW t \in Tasks, PollStart(t) PROVE PollInv'
  <2>1. \A u \in Tasks : u # t => pc'[u] \in {"idle", "lock"}
    BY <1>5 DEF PollStart
  <2>2. op[t].len \in Nat \ {0} /\ op[t] \in Ops /\ op' = op
    BY <1>5, OpsFields DEF PollStart
  <2>3. CASE Started(op[t]) /\ pc'[t] \in {"rpush", "wpush"}
    <3>1. /\ ~abrt' /\ txf' = 1 /\ addr' = 1 /\ rxf' = 0 /\ src' = op[t]
          /\ tx_len' = op[t].len /\ rx_len' = op[t].len /\ ~nack'
          /\ moved' = 0 /\ total' = op[t].len
      BY <1>5, <2>3 DEF PollStart, Started, Fail
    <3> QED
      BY <2>1, <2>2, <2>3, <3>1
  <2>4. CASE StartFailed /\ pc'[t] = "give" /\ ret'[t] = "ERROR"
    <3>1. (abrt' => txf' = 0) /\ addr' <= 1
      BY <1>5, <2>4 DEF PollStart, StartFailed
    <3> QED
      BY <2>1, <2>4, <3>1
  <2> QED
    BY <1>5, <2>3, <2>4 DEF PollStart, Fail
<1>6. ASSUME NEW t \in Tasks, ReadPush(t) PROVE PollInv'
  <2>1. \A u \in Tasks : u # t => pc'[u] \in {"idle", "lock"}
    BY <1>6 DEF ReadPush
  <2> DEFINE n == Least({tx_len, Depth - rxf, Depth - txf})
  <2>2. n \in Nat /\ n <= tx_len /\ n <= Depth - txf
    BY RoundsFit
  <2> HIDE DEF n
  <2>3. /\ pc[t] = "rpush" /\ ReadCount /\ src = op[t]
        /\ moved + rx_len = total /\ (nack => abrt)
        /\ UNCHANGED <<abrt, addr, rxf, src, op, rx_len, moved, total, nack>>
    BY <1>6 DEF ReadPush
  <2>4. CASE tx_len = 0 /\ rx_len = 0 /\ Goto(t, "stop") /\ UNCHANGED txf
    <3>1. ~abrt /\ addr = 0 /\ txf = 0
      BY <2>3, <2>4
    <3> QED
      BY <2>1, <2>3, <2>4, <3>1
  <2>5. CASE abrt /\ Fail(t) /\ Goto(t, "give") /\ UNCHANGED txf
    BY <2>1, <2>3, <2>5 DEF Fail
  <2>6. CASE /\ ~abrt /\ txf' = txf + n /\ tx_len' = tx_len - n
             /\ Goto(t, "rdrain")
    BY <2>1, <2>2, <2>3, <2>6
  <2> QED
    BY <1>6, <2>4, <2>5, <2>6 DEF ReadPush, ReadAborted, ReadFail, n
<1>7. ASSUME NEW t \in Tasks, ReadDrain(t) PROVE PollInv'
  <2>1. \A u \in Tasks : u # t => pc'[u] \in {"idle", "lock"}
    BY <1>7 DEF ReadDrain
  <2> DEFINE n == Least({rx_len, rxf})
  <2>2. n \in Nat /\ n <= rx_len /\ n <= rxf /\ n \in {rx_len, rxf}
    BY RoundsFit
  <2> HIDE DEF n
  <2>3. /\ pc[t] = "rdrain" /\ ReadCount /\ src = op[t]
        /\ moved + rx_len = total /\ (nack => abrt)
        /\ UNCHANGED <<abrt, addr, txf, src, op, tx_len, total, nack>>
        /\ rxf' = rxf - n /\ rx_len' = rx_len - n /\ moved' = moved + n
        /\ pc' = [pc EXCEPT ![t] = "rpush"]
    BY <1>7 DEF ReadDrain, n
  <2>4. ReadCount' /\ moved' + rx_len' = total'
    BY <2>2, <2>3
  <2> HIDE DEF ReadCount
  <2>5. pc'[t] = "rpush" /\ op'[t] = op[t]
    BY <2>3
  <2> QED
    BY <2>1, <2>3, <2>4, <2>5
<1>8. ASSUME NEW t \in Tasks, WritePush(t) PROVE PollInv'
  <2>1. \A u \in Tasks : u # t => pc'[u] \in {"idle", "lock"}
    BY <1>8 DEF WritePush
  <2> DEFINE n == Least({tx_len, Depth - txf})
  <2>2. n \in Nat /\ n <= tx_len /\ n <= Depth - txf
    BY RoundsFit
  <2> HIDE DEF n
  <2>3. /\ pc[t] = "wpush" /\ moved + tx_len = total /\ op[t].dir = "write"
        /\ UNCHANGED <<abrt, addr, op, total>>
    BY <1>8 DEF WritePush
  <2>4. CASE tx_len = 0 /\ Goto(t, "stop") /\ UNCHANGED <<txf, moved>>
    BY <2>1, <2>3, <2>4
  <2>5. CASE abrt /\ Goto(t, "give") /\ UNCHANGED txf
    BY <2>1, <2>3, <2>5
  <2>6. CASE /\ ~abrt /\ tx_len' = tx_len - n /\ moved' = moved + n
             /\ UNCHANGED pc
    BY <2>1, <2>2, <2>3, <2>6
  <2> QED
    BY <1>8, <2>4, <2>5, <2>6 DEF WritePush, n
<1>9. ASSUME NEW t \in Tasks, StopTrans(t) PROVE PollInv'
  BY <1>9 DEF StopTrans, Fail
<1>10. ASSUME NEW t \in Tasks, CheckStatus(t) PROVE PollInv'
  BY <1>10 DEF CheckStatus, Fail
<1>10a. ASSUME NEW t \in Tasks, AwaitStatus(t) PROVE PollInv'
  BY <1>10a DEF AwaitStatus
<1>11. ASSUME NEW t \in Tasks, BeginTrans(t) PROVE PollInv'
  <2>1. pc[t] = "begin" /\ \E l \in {"setup", "wait"} : Goto(t, l)
    BY <1>11 DEF BeginTrans
  <2>2. \A u \in Tasks : u # t => pc'[u] \in {"idle", "lock"}
    BY <2>1, OneInside
  <2>3. pc'[t] \in {"setup", "wait"}
    BY <2>1
  <2>4. (abrt' => txf' = 0) /\ addr' <= 1
    BY <1>11 DEF BeginTrans, Started, StartFailed
  <2> QED
    BY <2>2, <2>3, <2>4
<1>12. ASSUME NEW t \in Tasks, SetupIntr(t) PROVE PollInv'
  BY <1>12 DEF SetupIntr
<1>13. ASSUME NEW t \in Tasks, WaitBits(t) PROVE PollInv'
  BY <1>13 DEF WaitBits
<1>14. ASSUME NEW t \in Tasks, MaskIrq(t) PROVE PollInv'
  BY <1>14 DEF MaskIrq
<1>15. ASSUME NEW t \in Tasks, GiveMutex(t) PROVE PollInv'
  BY <1>15 DEF GiveMutex
<1>16. CASE IntrAbort
  BY <1>16 DEF IntrAbort
<1>17. CASE IntrRxFull
  BY <1>17 DEF IntrRxFull
<1>18. CASE IntrTxEmpty
  BY <1>18 DEF IntrTxEmpty
<1>19. CASE SetBits
  BY <1>19 DEF SetBits
<1>20. CASE BusStep
  BY <1>20 DEF BusStep
<1>21. CASE BusAbort
  BY <1>21 DEF BusAbort
<1>22. CASE UNCHANGED vars
  BY <1>22 DEF vars
<1> QED
  BY <1>1, <1>2, <1>3, <1>4, <1>5, <1>6, <1>7, <1>8, <1>9, <1>10, <1>10a,
     <1>11, <1>12, <1>13, <1>14, <1>15, <1>16, <1>17, <1>18, <1>19, <1>20,
     <1>21, <1>22 DEF Next, Task, FI2cMasterIntrHandler

\* Every step keeps the interrupt-mode transfers in order.
LEMMA IntrStep == IInv /\ [Next]_vars => IntrInv'
<1> SUFFICES ASSUME IInv, [Next]_vars PROVE IntrInv'
  OBVIOUS
<1> USE DEF IInv, Goto, osVars, hwVars, ctrlVars, taskVars, histVars
<1>1. CASE FFreeRTOSI2cInit
  <2> SUFFICES ASSUME Safe' PROVE IntrInv'
    BY DEF IntrInv
  <2>1. pended' = <<>> /\ bits' = {}
    BY <1>1 DEF FFreeRTOSI2cInit, Safe
  <2>2. \A e : ~Raised(e)' /\ RaisedOnce(e)'
    BY <2>1 DEF Raised, RaisedOnce, Has, Once
  <2>3. Between'
    BY <1>1, <2>2 DEF Between, FFreeRTOSI2cInit, FI2cDeInitialize, AllIdle
  <2> QED
    BY <2>3, BetweenInv, PTL
<1>2. CASE FFreeRTOSI2cDeinit
  BY <1>2 DEF FFreeRTOSI2cDeinit, IntrInv, Safe
<1>3. ASSUME NEW t \in Tasks, NEW o \in Ops, Call(t, o) PROVE IntrInv'
  <2>1. Safe' => Safe
    BY <1>3, SafeKept DEF FFreeRTOSI2cInit, Call
  <2>2. \A u \in Tasks :
          /\ pc'[u] = "setup" <=> pc[u] = "setup"
          /\ pc'[u] = "wait" <=> pc[u] = "wait"
          /\ pc[u] \in {"setup", "wait"} => op'[u] = op[u]
    BY <1>3 DEF Call, TypeOK
  <2> QED
    BY <1>3, <2>1, <2>2, Unnoticed DEF Call
<1>4. ASSUME NEW t \in Tasks, TakeMutex(t) PROVE IntrInv'
  <2>1. Safe' => Safe
    BY <1>4, SafeKept DEF FFreeRTOSI2cInit, AllIdle, TakeMutex
  <2>2. pc[t] = "lock" /\ UNCHANGED <<bits, pended, tx_cnt, mask>>
    BY <1>4 DEF TakeMutex
  <2>3. \A u \in Tasks : pc[u] \in {"idle", "lock"}
    BY <1>4, I2cAssumption DEF TakeMutex, LockInv
  <2>4. used \subseteq used'
    BY <1>4 DEF TakeMutex
  <2>5. Safe' => \A u \in Tasks : pc'[u] \notin {"setup", "wait"}
    BY <1>4, <2>2, <2>3 DEF TakeMutex, TypeOK
  <2> QED
    BY <2>1, <2>2, <2>3, <2>4, <2>5, Elsewhere
<1>5. ASSUME NEW t \in Tasks, PollStart(t) PROVE IntrInv'
  <2>1. Safe' => Safe
    BY <1>5, SafeKept DEF FFreeRTOSI2cInit, AllIdle, PollStart
  <2>2. pc[t] = "start" /\ UNCHANGED <<bits, pended, tx_cnt, mask>>
    BY <1>5 DEF PollStart
  <2>3. \A u \in Tasks : u # t => pc[u] \in {"idle", "lock"}
    BY <2>2, OneInside
  <2>4. used \subseteq used'
    BY <1>5 DEF PollStart
  <2>5. Safe' => \A u \in Tasks : pc'[u] \notin {"setup", "wait"}
    BY <1>5, <2>2, <2>3 DEF PollStart, TypeOK
  <2> QED
    BY <2>1, <2>2, <2>3, <2>4, <2>5, Elsewhere
<1>6. ASSUME NEW t \in Tasks, ReadPush(t) PROVE IntrInv'
  <2>1. Safe' => Safe
    BY <1>6, SafeKept DEF FFreeRTOSI2cInit, AllIdle, ReadPush
  <2>2. pc[t] = "rpush" /\ UNCHANGED <<bits, pended, tx_cnt, mask>>
    BY <1>6 DEF ReadPush
  <2>3. \A u \in Tasks : u # t => pc[u] \in {"idle", "lock"}
    BY <2>2, OneInside
  <2>4. used \subseteq used'
    BY <1>6 DEF ReadPush
  <2>5. Safe' => \A u \in Tasks : pc'[u] \notin {"setup", "wait"}
    BY <1>6, <2>2, <2>3 DEF ReadPush, TypeOK
  <2> QED
    BY <2>1, <2>2, <2>3, <2>4, <2>5, Elsewhere
<1>7. ASSUME NEW t \in Tasks, ReadDrain(t) PROVE IntrInv'
  <2>1. Safe' => Safe
    BY <1>7, SafeKept DEF FFreeRTOSI2cInit, AllIdle, ReadDrain
  <2>2. pc[t] = "rdrain" /\ UNCHANGED <<bits, pended, tx_cnt, mask>>
    BY <1>7 DEF ReadDrain
  <2>3. \A u \in Tasks : u # t => pc[u] \in {"idle", "lock"}
    BY <2>2, OneInside
  <2>4. used \subseteq used'
    BY <1>7 DEF ReadDrain
  <2>5. Safe' => \A u \in Tasks : pc'[u] \notin {"setup", "wait"}
    BY <1>7, <2>2, <2>3 DEF ReadDrain, TypeOK
  <2> QED
    BY <2>1, <2>2, <2>3, <2>4, <2>5, Elsewhere
<1>8. ASSUME NEW t \in Tasks, WritePush(t) PROVE IntrInv'
  <2>1. Safe' => Safe
    BY <1>8, SafeKept DEF FFreeRTOSI2cInit, AllIdle, WritePush
  <2>2. pc[t] = "wpush" /\ UNCHANGED <<bits, pended, tx_cnt, mask>>
    BY <1>8 DEF WritePush
  <2>3. \A u \in Tasks : u # t => pc[u] \in {"idle", "lock"}
    BY <2>2, OneInside
  <2>4. used \subseteq used'
    BY <1>8 DEF WritePush
  <2>5. Safe' => \A u \in Tasks : pc'[u] \notin {"setup", "wait"}
    BY <1>8, <2>2, <2>3 DEF WritePush, TypeOK
  <2> QED
    BY <2>1, <2>2, <2>3, <2>4, <2>5, Elsewhere
<1>9. ASSUME NEW t \in Tasks, StopTrans(t) PROVE IntrInv'
  <2>1. Safe' => Safe
    BY <1>9, SafeKept DEF FFreeRTOSI2cInit, AllIdle, StopTrans
  <2>2. pc[t] = "stop" /\ UNCHANGED <<bits, pended, tx_cnt, mask>>
    BY <1>9 DEF StopTrans
  <2>3. \A u \in Tasks : u # t => pc[u] \in {"idle", "lock"}
    BY <2>2, OneInside
  <2>4. used \subseteq used'
    BY <1>9 DEF StopTrans
  <2>5. Safe' => \A u \in Tasks : pc'[u] \notin {"setup", "wait"}
    BY <1>9, <2>2, <2>3 DEF StopTrans, TypeOK
  <2> QED
    BY <2>1, <2>2, <2>3, <2>4, <2>5, Elsewhere
<1>10. ASSUME NEW t \in Tasks, CheckStatus(t) PROVE IntrInv'
  <2>1. Safe' => Safe
    BY <1>10, SafeKept DEF FFreeRTOSI2cInit, AllIdle, CheckStatus
  <2>2. pc[t] = "intr" /\ UNCHANGED <<bits, pended, tx_cnt, mask>>
    BY <1>10 DEF CheckStatus
  <2>3. \A u \in Tasks : u # t => pc[u] \in {"idle", "lock"}
    BY <2>2, OneInside
  <2>4. used \subseteq used'
    BY <1>10 DEF CheckStatus
  <2>5. Safe' => \A u \in Tasks : pc'[u] \notin {"setup", "wait"}
    BY <1>10, <2>2, <2>3 DEF CheckStatus, TypeOK, Safe
  <2> QED
    BY <2>1, <2>2, <2>3, <2>4, <2>5, Elsewhere
<1>10a. ASSUME NEW t \in Tasks, AwaitStatus(t) PROVE IntrInv'
  <2>1. Safe' => Safe
    BY <1>10a, SafeKept DEF FFreeRTOSI2cInit, AllIdle, AwaitStatus
  <2>2. pc[t] = "istat" /\ UNCHANGED <<bits, pended, tx_cnt, mask>>
    BY <1>10a DEF AwaitStatus
  <2>3. \A u \in Tasks : u # t => pc[u] \in {"idle", "lock"}
    BY <2>2, OneInside
  <2>4. used \subseteq used'
    BY <1>10a DEF AwaitStatus
  <2>5. Safe' => \A u \in Tasks : pc'[u] \notin {"setup", "wait"}
    BY <1>10a, <2>2, <2>3 DEF AwaitStatus, TypeOK, Safe
  <2> QED
    BY <2>1, <2>2, <2>3, <2>4, <2>5, Elsewhere
<1>11. ASSUME NEW t \in Tasks, BeginTrans(t) PROVE IntrInv'
  <2> SUFFICES ASSUME Safe' PROVE IntrInv'
    BY DEF IntrInv
  <2>1. Safe
    BY <1>11, SafeKept DEF FFreeRTOSI2cInit, AllIdle, BeginTrans
  <2>2. pc[t] = "begin" /\ UNCHANGED <<bits, pended, mask, used, abrt, op>>
    BY <1>11 DEF BeginTrans
  <2>3. \A u \in Tasks : u # t => pc[u] \in {"idle", "lock"}
    BY <2>2, OneInside
  <2>4. Between
    BY <2>1, <2>2, <2>3, BetweenInv
  <2>5. Started(op[t]) /\ Goto(t, "setup") /\ moved' = 0 /\ total' = op[t].len
    BY <1>11 DEF BeginTrans, Safe
  <2>6. /\ pc'[t] = "setup"
        /\ \A u \in Tasks : u # t => pc'[u] \in {"idle", "lock"}
    BY <2>2, <2>3, <2>5 DEF TypeOK
  <2>7. Entered(op[t])' /\ moved' = 0 /\ txf' = addr' /\ rxf' = 0
    BY <1>11, <2>2, <2>5 DEF BeginTrans, Started, Entered
  <2>8. tx_cnt' = 0
    BY <1>11, <2>4 DEF BeginTrans, Between
  <2>9. /\ \A e : Raised(e)' <=> Raised(e)
        /\ \A e : RaisedOnce(e)' <=> RaisedOnce(e)
        /\ ReadsUsed <=> ReadsUsed'
    BY <2>2 DEF Raised, RaisedOnce, Has, Once, ReadsUsed
  <2> QED
    BY <2>2, <2>4, <2>6, <2>7, <2>8, <2>9 DEF IntrInv, Between
<1>12. ASSUME NEW t \in Tasks, SetupIntr(t) PROVE IntrInv'
  <2> SUFFICES ASSUME Safe' PROVE IntrInv'
    BY DEF IntrInv
  <2>1. Safe
    BY <1>12, SafeKept DEF FFreeRTOSI2cInit, AllIdle, SetupIntr
  <2>2. /\ pc[t] = "setup" /\ pc' = [pc EXCEPT ![t] = "wait"]
        /\ UNCHANGED <<bits, pended, used, op, addr, txf, rxf, src, tx_cnt,
                       tx_total, rx_cnt, rx_total, moved, total, live>>
        /\ ~abrt' /\ {"TX_EMPTY", "TX_ABRT"} \subseteq mask'
    BY <1>12 DEF SetupIntr
  <2>3. \A u \in Tasks : u # t => pc[u] \in {"idle", "lock"}
    BY <2>2, OneInside
  <2>4. /\ pc'[t] = "wait"
        /\ \A u \in Tasks : u # t => pc'[u] \in {"idle", "lock"}
    BY <2>2, <2>3 DEF TypeOK
  <2>5. /\ tx_cnt = 0 /\ Entered(op[t]) /\ moved = 0 /\ txf = addr /\ rxf = 0
        /\ mask \intersect {"TX_EMPTY", "RX_FULL"} = {}
        /\ ~Raised("ABORTED") /\ ~Raised("READ_DONE")
        /\ RaisedOnce("READ_DONE")
        /\ ReadsUsed \/ (~Raised("WRITE_DONE") /\ RaisedOnce("WRITE_DONE"))
    BY <2>1, <2>2, <2>3 DEF IntrInv
  <2>6. /\ \A e : Raised(e)' <=> Raised(e)
        /\ \A e : RaisedOnce(e)' <=> RaisedOnce(e)
        /\ ReadsUsed <=> ReadsUsed'
    BY <2>2 DEF Raised, RaisedOnce, Has, Once, ReadsUsed
  <2>7. Entered(op[t])'
    BY <2>2, <2>5 DEF Entered
  <2>8. op[t] \in used /\ op[t].dir \in {"read", "write"}
    BY <2>2, OpsFields DEF LockInv, IntrLocations, TypeOK
  <2>9. CASE op[t].dir = "read"
    <3>1. ReadWaits'
      BY <1>12, <2>2, <2>5, <2>6, <2>9 DEF SetupIntr, ReadWaits
    <3> QED
      BY <2>2, <2>4, <2>5, <2>6, <2>7, <2>9, <3>1 DEF IntrInv
  <2>10. CASE op[t].dir = "write"
    <3>1. ~Raised("WRITE_DONE")
      BY <2>1, <2>5, <2>8, <2>10, SafeKinds DEF Safe
    <3>2. WriteWaits'
      BY <1>12, <2>2, <2>5, <2>6, <2>10, <3>1 DEF SetupIntr, WriteWaits
    <3> QED
      BY <2>2, <2>4, <2>5, <2>6, <2>7, <2>10, <3>2 DEF IntrInv
  <2> QED
    BY <2>8, <2>9, <2>10
<1>13. ASSUME NEW t \in Tasks, WaitBits(t) PROVE IntrInv'
  <2> SUFFICES ASSUME Safe' PROVE IntrInv'
    BY DEF IntrInv
  <2>1. Safe
    BY <1>13, SafeKept DEF FFreeRTOSI2cInit, AllIdle, WaitBits
  <2> DEFINE d == DoneBit(op[t])
  <2>2. /\ pc[t] = "wait" /\ pc' = [pc EXCEPT ![t] = "mask"]
        /\ bits \intersect {"ABORTED", d} # {} /\ bits' = bits \ {"ABORTED", d}
        /\ UNCHANGED <<pended, mask, used, op, tx_cnt>>
    BY <1>13 DEF WaitBits
  <2>3. \A u \in Tasks : u # t => pc[u] \in {"idle", "lock"}
    BY <2>2, OneInside
  <2>4. \A u \in Tasks : pc'[u] \notin {"setup", "wait"}
    BY <2>2, <2>3 DEF TypeOK
  <2>5. /\ d \in bits /\ ~Has("ABORTED", pended) /\ "ABORTED" \notin bits
    BY <2>1, <2>2 DEF IntrInv, Raised
  <2>6. op[t] \in used /\ op[t].dir \in {"read", "write"}
    BY <2>2, OpsFields DEF LockInv, IntrLocations, TypeOK
  <2>7. /\ tx_cnt = 0 /\ RaisedOnce("READ_DONE")
        /\ ReadsUsed \/ RaisedOnce("WRITE_DONE")
        /\ IF op[t].dir = "read" THEN ReadWaits ELSE WriteWaits
    BY <2>1, <2>2 DEF IntrInv
  <2>8. ReadsUsed <=> ReadsUsed'
    BY <2>2 DEF ReadsUsed
  <2>9. CASE op[t].dir = "read"
    <3>1. d = "READ_DONE" /\ ReadsUsed
      BY <2>6, <2>9 DEF DoneBit, ReadsUsed
    <3>2. mask \intersect {"TX_EMPTY", "RX_FULL"} = {}
      BY <2>5, <2>7, <2>9, <3>1 DEF ReadWaits, Raised
    <3>3. ~Has("READ_DONE", pended) /\ Once("READ_DONE", pended)
      BY <2>5, <2>7, <3>1 DEF RaisedOnce
    <3>4. /\ ~Raised("ABORTED")' /\ ~Raised("READ_DONE")'
          /\ RaisedOnce("READ_DONE")'
      BY <2>2, <2>5, <3>1, <3>3 DEF Raised, RaisedOnce, Has, Once
    <3>5. Between'
      BY <2>2, <2>4, <2>7, <2>8, <3>1, <3>2, <3>4 DEF Between
    <3> QED
      BY <3>5, BetweenInv, PTL
  <2>10. CASE op[t].dir = "write"
    <3>1. d = "WRITE_DONE" /\ ~ReadsUsed
      BY <2>1, <2>6, <2>10, SafeKinds DEF DoneBit, Safe
    <3>2. mask \intersect {"TX_EMPTY", "RX_FULL"} = {}
      BY <2>5, <2>7, <2>10, <3>1 DEF WriteWaits, Raised
    <3>3. ~Has("WRITE_DONE", pended) /\ Once("WRITE_DONE", pended)
      BY <2>5, <2>7, <3>1 DEF RaisedOnce
    <3>4. ~Raised("READ_DONE")
      BY <2>1, <2>2, <2>3, <2>10 DEF IntrInv
    <3>5. /\ ~Raised("ABORTED")' /\ ~Raised("READ_DONE")'
          /\ RaisedOnce("READ_DONE")'
          /\ ~Raised("WRITE_DONE")' /\ RaisedOnce("WRITE_DONE")'
      BY <2>2, <2>5, <2>7, <3>1, <3>3, <3>4 DEF Raised, RaisedOnce, Has, Once
    <3>6. Between'
      BY <2>2, <2>4, <2>7, <2>8, <3>1, <3>2, <3>5 DEF Between
    <3> QED
      BY <3>6, BetweenInv, PTL
  <2> QED
    BY <2>6, <2>9, <2>10
<1>14. ASSUME NEW t \in Tasks, MaskIrq(t) PROVE IntrInv'
  <2>1. Safe' => Safe
    BY <1>14, SafeKept DEF FFreeRTOSI2cInit, AllIdle, MaskIrq
  <2>2. pc[t] = "mask" /\ UNCHANGED <<bits, pended, tx_cnt, mask>>
    BY <1>14 DEF MaskIrq
  <2>3. \A u \in Tasks : u # t => pc[u] \in {"idle", "lock"}
    BY <2>2, OneInside
  <2>4. used \subseteq used'
    BY <1>14 DEF MaskIrq
  <2>5. Safe' => \A u \in Tasks : pc'[u] \notin {"setup", "wait"}
    BY <1>14, <2>2, <2>3 DEF MaskIrq, TypeOK
  <2> QED
    BY <2>1, <2>2, <2>3, <2>4, <2>5, Elsewhere
<1>15. ASSUME NEW t \in Tasks, GiveMutex(t) PROVE IntrInv'
  <2>1. Safe' => Safe
    BY <1>15, SafeKept DEF FFreeRTOSI2cInit, AllIdle, GiveMutex
  <2>2. pc[t] = "give" /\ UNCHANGED <<bits, pended, tx_cnt, mask>>
    BY <1>15 DEF GiveMutex
  <2>3. \A u \in Tasks : u # t => pc[u] \in {"idle", "lock"}
    BY <2>2, OneInside
  <2>4. used \subseteq used'
    BY <1>15 DEF GiveMutex
  <2>5. Safe' => \A u \in Tasks : pc'[u] \notin {"setup", "wait"}
    BY <1>15, <2>2, <2>3 DEF GiveMutex, TypeOK
  <2> QED
    BY <2>1, <2>2, <2>3, <2>4, <2>5, Elsewhere
<1>16. CASE IntrAbort
  BY <1>16 DEF IntrAbort, IntrInv, Safe
<1>17. CASE IntrRxFull
  <2> SUFFICES ASSUME Safe' PROVE IntrInv'
    BY DEF IntrInv
  <2>1. Safe
    BY <1>17, SafeKept DEF FFreeRTOSI2cInit, IntrRxFull, Safe
  <2>2. PICK t \in Tasks :
          /\ pc[t] = "wait" /\ op[t].dir = "read" /\ Entered(op[t])
          /\ "TX_EMPTY" \notin mask /\ mask' = mask \ {"RX_FULL"}
          /\ ~Raised("READ_DONE") /\ moved' = total /\ rx_cnt' = 0
    BY <1>17, <2>1, RxFullTakes
  <2>3. \A u \in Tasks : u # t => pc[u] \in {"idle", "lock"}
    BY <2>2, OneInside
  <2>4. UNCHANGED <<bits, tx_cnt, used, pc, op, src, abrt, live, total,
                    tx_total, rx_total>>
    BY <1>17 DEF IntrRxFull
  <2>5. "READ_DONE" \in Events
    BY DEF Events
  <2>6. pended' = Append(pended, "READ_DONE")
    BY <1>17, <2>5, RaiseKind DEF IntrRxFull, Safe
  <2>7. /\ \A f : Has(f, pended') <=> Has(f, pended) \/ f = "READ_DONE"
        /\ \A f : Once(f, pended) /\ (f = "READ_DONE" => ~Has(f, pended)) =>
                   Once(f, pended')
    BY <2>5, <2>6, AppendEvent DEF TypeOK
  <2>8. /\ \A e : Raised(e)' <=> (e \in bits' \/ Has(e, pended'))
        /\ \A e : RaisedOnce(e)' <=>
                   Once(e, pended') /\ (e \in bits' => ~Has(e, pended'))
    BY DEF Raised, RaisedOnce, Has, Once
  <2>9. /\ ~Raised("ABORTED")' /\ RaisedOnce("READ_DONE")'
        /\ Raised("WRITE_DONE")' <=> Raised("WRITE_DONE")
        /\ RaisedOnce("WRITE_DONE") => RaisedOnce("WRITE_DONE")'
    BY <2>1, <2>2, <2>4, <2>7, <2>8 DEF IntrInv, Raised, RaisedOnce
  <2>10. ReadsUsed <=> ReadsUsed'
    BY <2>4 DEF ReadsUsed
  <2>11. Entered(op[t])' /\ ReadWaits'
    BY <2>2, <2>4 DEF Entered, ReadWaits
  <2> QED
    BY <2>1, <2>2, <2>3, <2>4, <2>9, <2>10, <2>11 DEF IntrInv
<1>18. CASE IntrTxEmpty
  <2> SUFFICES ASSUME Safe' PROVE IntrInv'
    BY DEF IntrInv
  <2>1. Safe
    BY <1>18, SafeKept DEF FFreeRTOSI2cInit, IntrTxEmpty, Safe
  <2>2. PICK t \in Tasks :
          /\ pc[t] = "wait" /\ Entered(op[t]) /\ op[t] \in used
          /\ mask' = mask \ {"TX_EMPTY"} /\ tx_cnt' = 0
          /\ \/ /\ op[t].dir = "read" /\ ReadWaits
                /\ "RX_FULL" \in mask /\ status' = "READ"
                /\ addr = 0 /\ txf' = 1 /\ rxf = 0 /\ moved' = 0
             \/ /\ op[t].dir = "write" /\ WriteWaits
                /\ ~Raised("WRITE_DONE") /\ moved' = total
    BY <1>18, <2>1, TxEmptyPushes
  <2>3. \A u \in Tasks : u # t => pc[u] \in {"idle", "lock"}
    BY <2>2, OneInside
  <2>4. UNCHANGED <<bits, used, pc, op, src, abrt, addr, rxf, live, total,
                    tx_total, rx_cnt, rx_total>>
    BY <1>18 DEF IntrTxEmpty
  <2>5. "WRITE_DONE" \in Events
    BY DEF Events
  <2>6. pended' = Append(pended, "WRITE_DONE")
    BY <1>18, <2>5, RaiseKind DEF IntrTxEmpty, TxEvent, Safe
  <2>7. /\ \A f : Has(f, pended') <=> Has(f, pended) \/ f = "WRITE_DONE"
        /\ \A f : Once(f, pended) /\ (f = "WRITE_DONE" => ~Has(f, pended)) =>
                   Once(f, pended')
    BY <2>5, <2>6, AppendEvent DEF TypeOK
  <2>8. /\ \A e : Raised(e)' <=> (e \in bits' \/ Has(e, pended'))
        /\ \A e : RaisedOnce(e)' <=>
                   Once(e, pended') /\ (e \in bits' => ~Has(e, pended'))
    BY DEF Raised, RaisedOnce, Has, Once
  <2>9. /\ ~Raised("ABORTED")'
        /\ Raised("READ_DONE")' <=> Raised("READ_DONE")
        /\ RaisedOnce("READ_DONE")'
        /\ RaisedOnce("WRITE_DONE") /\ ~Raised("WRITE_DONE") =>
             RaisedOnce("WRITE_DONE")'
    BY <2>1, <2>4, <2>7, <2>8 DEF IntrInv, Raised, RaisedOnce
  <2>10. ReadsUsed <=> ReadsUsed'
    BY <2>4 DEF ReadsUsed
  <2>11. Entered(op[t])'
    BY <2>2, <2>4 DEF Entered
  <2>12. CASE op[t].dir = "read"
    <3>1. ReadsUsed
      BY <2>2, <2>12 DEF ReadsUsed
    <3>2. ReadWaits'
      BY <2>2, <2>4, <2>9, <2>12 DEF ReadWaits
    <3> QED
      BY <2>1, <2>2, <2>3, <2>4, <2>9, <2>10, <2>11, <2>12, <3>1, <3>2
      DEF IntrInv
  <2>13. CASE op[t].dir = "write"
    <3>1. ~ReadsUsed /\ RaisedOnce("WRITE_DONE")
      BY <2>1, <2>2, <2>13, SafeKinds DEF Safe, IntrInv
    <3>2. WriteWaits'
      BY <2>2, <2>4, <2>9, <2>13 DEF WriteWaits
    <3> QED
      BY <2>1, <2>2, <2>3, <2>4, <2>9, <2>10, <2>11, <2>13, <3>1, <3>2
      DEF IntrInv
  <2> QED
    BY <2>2, <2>12, <2>13
<1>19. CASE SetBits
  <2> SUFFICES ASSUME Safe' PROVE IntrInv'
    BY DEF IntrInv
  <2>1. Safe
    BY <1>19, SafeKept DEF FFreeRTOSI2cInit, SetBits, Safe
  <2>2. /\ pended # <<>> /\ pended' = Tail(pended)
        /\ bits' = bits \union {Head(pended)}
        /\ UNCHANGED <<mask, tx_cnt, tx_total, rx_cnt, rx_total, status, src,
                       abrt, live, total, moved, txf, addr, rxf, used, pc, op>>
    BY <1>19, <2>1 DEF SetBits, Safe
  <2>3. /\ \A f : Has(f, pended) <=> Has(f, pended') \/ f = Head(pended)
        /\ \A f : Once(f, pended) => Once(f, pended')
                        /\ (f = Head(pended) => ~Has(f, pended'))
    BY <2>2, OldestServed DEF TypeOK
  <2>4. /\ \A e : Raised(e)' <=> Raised(e)
        /\ \A e : RaisedOnce(e) => RaisedOnce(e)'
        /\ ReadsUsed <=> ReadsUsed'
    <3>1. \A e : Raised(e)' <=> (e \in bits' \/ Has(e, pended'))
      BY DEF Raised, Has
    <3>2. \A e : RaisedOnce(e)' <=>
                   Once(e, pended') /\ (e \in bits' => ~Has(e, pended'))
      BY DEF RaisedOnce, Has, Once
    <3> QED
      BY <2>2, <2>3, <3>1, <3>2 DEF Raised, RaisedOnce, ReadsUsed
  <2>5. \A t \in Tasks :
          /\ Entered(op[t])' <=> Entered(op[t])
          /\ ReadWaits' <=> ReadWaits
          /\ WriteWaits' <=> WriteWaits
    BY <2>2, <2>4 DEF Entered, ReadWaits, WriteWaits
  <2> QED
    BY <2>1, <2>2, <2>4, <2>5 DEF IntrInv
<1>20. CASE BusStep
  <2> SUFFICES ASSUME Safe' PROVE IntrInv'
    BY DEF IntrInv
  <2>1. Safe
    BY <1>20, SafeKept DEF FFreeRTOSI2cInit, BusStep, Safe
  <2>2. UNCHANGED <<bits, pended, mask, tx_cnt, tx_total, rx_cnt, rx_total,
                    status, src, abrt, live, total, moved, used, pc, op>>
    BY <1>20 DEF BusStep
  <2>3. /\ \A e : Raised(e)' <=> Raised(e)
        /\ \A e : RaisedOnce(e)' <=> RaisedOnce(e)
        /\ ReadsUsed <=> ReadsUsed'
    BY <2>2 DEF Raised, RaisedOnce, Has, Once, ReadsUsed
  <2>4. ASSUME NEW t \in Tasks, pc[t] \in {"setup", "wait"}
        PROVE  /\ Entered(op[t])'
               /\ pc[t] = "setup" => txf' = addr' /\ rxf' = 0
               /\ pc[t] = "wait" =>
                    /\ op[t].dir = "read" => ReadWaits'
                    /\ op[t].dir # "read" => WriteWaits'
    <3>1. Entered(op[t])
      BY <2>1, <2>4 DEF IntrInv
    <3>2. Entered(op[t])'
      BY <2>2, <3>1 DEF Entered
    <3>3. src = op[t] /\ addr \in 0 .. 1 /\ txf \in Nat /\ rxf \in Nat
      BY <3>1 DEF Entered, PollInv, TypeOK
    <3>4. ASSUME txf = addr, rxf = 0 PROVE txf' = addr' /\ rxf' = 0
      BY <1>20, <3>3, <3>4 DEF BusStep
    <3>5. ASSUME addr = 0, txf + rxf <= 1 PROVE addr' = 0 /\ txf' + rxf' <= 1
      BY <1>20, <3>3, <3>5, I2cAssumption DEF BusStep
    <3>6. ASSUME pc[t] = "wait", op[t].dir = "read" PROVE ReadWaits'
      <4>1. ReadWaits
        BY <2>1, <3>6 DEF IntrInv
      <4> QED
        BY <2>2, <2>3, <3>4, <3>5, <4>1 DEF ReadWaits
    <3>7. ASSUME pc[t] = "wait", op[t].dir # "read" PROVE WriteWaits'
      <4>1. WriteWaits
        BY <2>1, <3>7 DEF IntrInv
      <4>2. rxf' = rxf
        BY <1>20, <3>3, <3>7 DEF BusStep
      <4> QED
        BY <2>2, <2>3, <4>1, <4>2 DEF WriteWaits
    <3>8. ASSUME pc[t] = "setup" PROVE txf' = addr' /\ rxf' = 0
      BY <2>1, <3>4, <3>8 DEF IntrInv
    <3> QED
      BY <3>2, <3>6, <3>7, <3>8
  <2> QED
    BY <2>1, <2>2, <2>3, <2>4 DEF IntrInv
<1>21. CASE BusAbort
  <2> SUFFICES ASSUME Safe' PROVE IntrInv'
    BY DEF IntrInv
  <2>1. Safe
    BY <1>21, SafeKept DEF FFreeRTOSI2cInit, BusAbort, Safe
  <2>2. /\ UNCHANGED <<bits, pended, mask, tx_cnt, used, pc, op>>
        /\ src.mode # "intr"
    BY <1>21 DEF BusAbort, Safe
  <2>3. \A t \in Tasks : pc[t] \notin {"setup", "wait"}
    BY <2>1, <2>2 DEF IntrInv, Entered, LockInv, IntrLocations
  <2> QED
    BY <2>1, <2>2, <2>3, Elsewhere
<1>22. CASE UNCHANGED vars
  <2>1. Safe' => Safe
    BY <1>22 DEF vars, Safe, SafeUse
  <2> QED
    BY <1>22, <2>1, Unnoticed DEF vars
<1> QED
  BY <1>1, <1>2, <1>3, <1>4, <1>5, <1>6, <1>7, <1>8, <1>9, <1>10, <1>10a,
     <1>11, <1>12, <1>13, <1>14, <1>15, <1>16, <1>17, <1>18, <1>19, <1>20,
     <1>21, <1>22 DEF Next, Task, FI2cMasterIntrHandler

\* Within the limits no step of the handler uses the buffer of a call that
\* has returned.
LEMMA ForeignStep == IInv /\ [Next]_vars => NoForeignAccess'
<1> SUFFICES ASSUME IInv, [Next]_vars, ~trouble', SafeUse' PROVE ~foreign'
  BY DEF NoForeignAccess
<1> USE DEF osVars, hwVars, ctrlVars, taskVars, histVars
<1>1. CASE FFreeRTOSI2cInit
  BY <1>1 DEF FFreeRTOSI2cInit
<1>2. ASSUME ~FFreeRTOSI2cInit PROVE ~foreign
  <2>1. ~trouble /\ SafeUse
    BY <1>2, LimitsKept
  <2> QED
    BY <2>1 DEF IInv, NoForeignAccess
<1>3. CASE IntrRxFull \/ IntrTxEmpty
  <2>1. ~FFreeRTOSI2cInit
    <3>1. ready
      BY <1>3
      DEF IntrRxFull, IntrTxEmpty, IInv, LockInv, AllIdle, IntrLocations
    <3> QED
      BY <3>1 DEF FFreeRTOSI2cInit
  <2>2. Safe
    BY <1>3, <2>1, LimitsKept
    DEF Safe, IntrRxFull, IntrTxEmpty, IInv, LockInv, AllIdle, IntrLocations
  <2>3. foreign' = foreign
    BY <1>3, <2>2, RxFullTakes, TxEmptyPushes
  <2> QED
    BY <1>2, <2>1, <2>3
<1>4. ASSUME NEW t \in Tasks, Task(t) \/ \E o \in Ops : Call(t, o)
      PROVE  foreign' = foreign
  <2>1. CASE \E o \in Ops : Call(t, o)
    BY <2>1 DEF Call
  <2>2. CASE TakeMutex(t) \/ PollStart(t) \/ ReadPush(t) \/ ReadDrain(t)
    BY <2>2 DEF TakeMutex, PollStart, ReadPush, ReadDrain
  <2>3. CASE \/ WritePush(t) \/ StopTrans(t) \/ CheckStatus(t)
             \/ AwaitStatus(t) \/ BeginTrans(t)
    BY <2>3 DEF WritePush, StopTrans, CheckStatus, AwaitStatus, BeginTrans
  <2>4. CASE SetupIntr(t) \/ WaitBits(t) \/ MaskIrq(t) \/ GiveMutex(t)
    BY <2>4 DEF SetupIntr, WaitBits, MaskIrq, GiveMutex
  <2> QED
    BY <1>4, <2>1, <2>2, <2>3, <2>4 DEF Task
<1>5. ASSUME \/ FFreeRTOSI2cDeinit \/ SetBits \/ BusStep \/ BusAbort
             \/ IntrAbort
      PROVE  foreign' = foreign
  BY <1>5 DEF FFreeRTOSI2cDeinit, SetBits, BusStep, BusAbort, IntrAbort
<1>6. ASSUME UNCHANGED vars PROVE foreign' = foreign
  BY <1>6 DEF vars
<1> QED
  <2>1. CASE foreign' = foreign
    BY <1>1, <1>2, <2>1
  <2> QED
    BY <1>1, <1>3, <1>4, <1>5, <1>6, <2>1 DEF Next, FI2cMasterIntrHandler

\* The invariant holds in the initial state, and every step keeps it.
LEMMA InvInit == Init => IInv
<1> SUFFICES ASSUME Init PROVE IInv
  OBVIOUS
<1> USE I2cAssumption DEF Init
<1>1. TypeOK
  <2>1. PICK n \in Lengths : TRUE
    OBVIOUS
  <2>2. [dir |-> "read", mode |-> "poll", len |-> n] \in Ops
    BY DEF Ops
  <2>3. src \in Ops
    BY <2>2
  <2>4. pended \in Seq(Events)
    OBVIOUS
  <2>6. FlagsOK
    BY DEF FlagsOK
  <2>5. U32 \in Nat \ {0}
    BY <2>3, OpsFields
  <2> QED
    BY <2>3, <2>4, <2>5, <2>6 DEF TypeOK, Locations
<1>2. LockInv
  BY DEF LockInv, AllIdle, PollLocations, IntrLocations
<1>3. PollInv
  BY DEF PollInv
<1>4. IntrInv
  BY DEF IntrInv, Safe
<1>5. NoForeignAccess
  BY DEF NoForeignAccess
<1> QED
  BY <1>1, <1>2, <1>3, <1>4, <1>5 DEF IInv

\* Hence it always holds.
LEMMA Inductive == Spec => []IInv
<1>1. IInv /\ [Next]_vars => IInv'
  BY TypeStep, LockStep, PollStep, IntrStep, ForeignStep DEF IInv
<1> QED
  BY InvInit, <1>1, PTL DEF Spec

\* The FIFOs hold no more than fits and the u32 counters of the handler never
\* leave their range, although BufLen is a difference of two of them.
THEOREM I2cTypeCorrect == Spec => []TypeOK
<1>1. IInv => TypeOK
  BY DEF IInv
<1> QED
  BY Inductive, <1>1, PTL

\* Within the limits of SafeUse, FI2cMasterIntrHandler reads from and writes to
\* the buffer of the call that waits, and to no other.
THEOREM I2cNoForeignAccess == Spec => []NoForeignAccess
<1>1. IInv => NoForeignAccess
  BY DEF IInv
<1> QED
  BY Inductive, <1>1, PTL

\* FI2cMasterReadPoll reports a read that was not acknowledged, whichever
\* byte it was: the loop cannot end before it has seen the abort.
THEOREM I2cReadAbortReported == Spec => ReadAbortReported
<1>1. ASSUME IInv, NEW t \in Tasks, GiveMutex(t), nack, op[t].dir = "read",
             op[t].mode = "poll"
      PROVE  ret[t] # "OK"
  BY <1>1 DEF GiveMutex, IInv, PollInv
<1> DEFINE A == \A t \in Tasks :
                  GiveMutex(t) /\ nack /\ op[t].dir = "read" /\
                  op[t].mode = "poll" => ret[t] # "OK"
<1>2. IInv => A
  BY <1>1
<1> QED
  BY Inductive, <1>2, PTL DEF ReadAbortReported

-----------------------------------------------------------------------------
(* The refinement *)

\* What the contract sees.
Owner == IF locker \in Tasks THEN locker ELSE "free"
Phases == {"rpush", "rdrain", "wpush", "stop", "setup", "wait"}
Ok == locker \in Tasks => ret[locker] = "OK"
Void == trouble \/ ~SafeUse

\* These are the variables of the contract.
LEMMA ContractVars ==
  /\ Contract!vars = <<Owner, InTransfer, Ok, moved, total, Void>>
  /\ Contract!vars' = <<Owner', InTransfer', Ok', moved', total', Void'>>
  BY DEF Contract!vars, Owner, Ok, Void

\* Initially nobody is inside and no byte has moved.
LEMMA ContractInit == Init => Contract!Init
<1> SUFFICES ASSUME Init PROVE Contract!Init
  OBVIOUS
<1>1. ~InTransfer /\ InTransfer \in BOOLEAN
  BY DEF Init, InTransfer
<1>2. locker \notin Tasks
  BY I2cAssumption DEF Init
<1>3. ~(trouble \/ ~SafeUse)
  BY DEF Init, SafeUse
<1> QED
  BY <1>1, <1>2, <1>3 DEF Init, Contract!Init

\* A step that leaves the task inside, its result and the counters alone is a
\* stuttering step of the contract.
LEMMA Stutter ==
  ASSUME UNCHANGED <<Owner, moved, total>>, InTransfer' <=> InTransfer,
         Ok' <=> Ok, Void' <=> Void
  PROVE  UNCHANGED Contract!vars
<1>1. InTransfer' = InTransfer
  BY DEF InTransfer
<1>2. Void' = Void
  BY DEF Void
<1>3. Ok' = Ok
  BY DEF Ok
<1> QED
  BY <1>1, <1>2, <1>3, ContractVars

\* A phase runs when the task inside is in one.
LEMMA TaskMoves ==
  ASSUME IInv, NEW t \in Tasks, NEW l, Goto(t, l),
         pc[t] \notin {"idle", "lock"}
  PROVE  /\ Owner = t /\ t # "free" /\ locker = t
         /\ InTransfer <=> pc[t] \in Phases
         /\ InTransfer' <=> l \in Phases
<1>1. \A u \in Tasks : pc'[u] = IF u = t THEN l ELSE pc[u]
  BY DEF Goto, IInv, TypeOK
<1>2. /\ Owner = t /\ t # "free" /\ locker = t
      /\ \A u \in Tasks : u # t => pc[u] \notin Phases
  BY I2cAssumption, OneInside DEF IInv, LockInv, Owner, Phases
<1>3. InTransfer <=> pc[t] \in Phases
  BY <1>2 DEF InTransfer, Phases
<1>4. InTransfer' <=> l \in Phases
  BY <1>1, <1>2 DEF InTransfer, Phases
<1> QED
  BY <1>2, <1>3, <1>4

\* Within the limits every step of the driver is a step of the contract or
\* leaves it alone.
LEMMA ContractStep == IInv /\ [Next]_vars => [Contract!Next]_(Contract!vars)
<1> SUFFICES ASSUME IInv, [Next]_vars PROVE [Contract!Next]_(Contract!vars)
  OBVIOUS
<1> USE DEF osVars, hwVars, ctrlVars, taskVars, histVars
<1>void. CASE Void'
  BY <1>void DEF Void, Contract!Next
<1> SUFFICES ASSUME ~Void' PROVE [Contract!Next]_(Contract!vars)
  BY <1>void
<1>type. /\ moved \in Nat /\ total \in Nat /\ rx_len \in Nat /\ tx_len \in Nat
  BY DEF IInv, TypeOK
<1>maps. /\ Owner = IF locker \in Tasks THEN locker ELSE "free"
         /\ Owner' = IF locker' \in Tasks THEN locker' ELSE "free"
         /\ Ok = (locker \in Tasks => ret[locker] = "OK")
         /\ Ok' = (locker' \in Tasks => ret'[locker'] = "OK")
         /\ Void = (trouble \/ ~SafeUse) /\ Void' = (trouble' \/ ~SafeUse')
  BY DEF Owner, Ok, Void
<1>1. CASE FFreeRTOSI2cInit
  <2>1. /\ locker \notin Tasks /\ locker' \notin Tasks
        /\ \A t \in Tasks : pc'[t] = "idle"
    BY <1>1, I2cAssumption DEF FFreeRTOSI2cInit, IInv, LockInv, AllIdle
  <2>2. ~InTransfer'
    BY <2>1 DEF InTransfer
  <2>3. Contract!Reset
    BY <1>1, <2>1, <2>2, <1>maps DEF FFreeRTOSI2cInit, Contract!Reset
  <2> QED
    BY <2>3 DEF Contract!Next
<1>2. CASE FFreeRTOSI2cDeinit
  <2>1. /\ locker \notin Tasks /\ locker' \notin Tasks
        /\ \A t \in Tasks : pc'[t] = "idle"
    BY <1>2, I2cAssumption DEF FFreeRTOSI2cDeinit, IInv, LockInv, AllIdle
  <2>2. ~InTransfer'
    BY <2>1 DEF InTransfer
  <2>3. Contract!Reset
    BY <1>2, <2>1, <2>2, <1>maps DEF FFreeRTOSI2cDeinit, Contract!Reset
  <2> QED
    BY <2>3 DEF Contract!Next
<1> SUFFICES ASSUME ~FFreeRTOSI2cInit, ~FFreeRTOSI2cDeinit
             PROVE  [Contract!Next]_(Contract!vars)
  BY <1>1, <1>2
<1>kept. ~Void /\ (ready' => ready) /\ ~trouble /\ SafeUse
  BY LimitsKept DEF Void
<1>same. Void' = Void
  BY <1>kept DEF Void
<1>quiet. ASSUME UNCHANGED <<locker, moved, total>>,
                 InTransfer' <=> InTransfer,
                 locker \in Tasks => ret'[locker] = ret[locker]
          PROVE  [Contract!Next]_(Contract!vars)
  <2>1. UNCHANGED Owner /\ (Ok' <=> Ok)
    BY <1>quiet DEF Owner, Ok
  <2> QED
    BY <1>quiet, <2>1, <1>same, Stutter
<1>move. ASSUME InTransfer, InTransfer', UNCHANGED <<locker, ret, total>>,
                moved' \in moved + 1 .. total
         PROVE  [Contract!Next]_(Contract!vars)
  <2>1. InTransfer' = InTransfer
    BY <1>move DEF InTransfer
  <2>2. Contract!Move
    BY <1>move, <1>maps, <1>same, <2>1, Zenon DEF Contract!Move
  <2> QED
    BY <2>2 DEF Contract!Next
<1>end. ASSUME InTransfer, ~InTransfer', moved = total,
               UNCHANGED <<locker, ret, moved, total>>
        PROVE  [Contract!Next]_(Contract!vars)
  <2>1. InTransfer' = FALSE
    BY <1>end DEF InTransfer
  <2>2. Contract!EndPhase
    BY <1>end, <1>maps, <1>same, <2>1, Zenon DEF Contract!EndPhase
  <2> QED
    BY <2>2 DEF Contract!Next
<1>fail. ASSUME NEW t \in Tasks, locker = t, Fail(t), InTransfer, ~InTransfer',
                UNCHANGED <<locker, moved, total>>
         PROVE  [Contract!Next]_(Contract!vars)
  <2>1. InTransfer' = FALSE
    BY <1>fail DEF InTransfer
  <2>2. ~Ok' /\ Ok' = FALSE
    BY <1>fail DEF Ok, Fail, IInv, TypeOK
  <2>3. Contract!FailPhase
    BY <1>fail, <1>maps, <1>same, <2>1, <2>2, Zenon DEF Contract!FailPhase
  <2> QED
    BY <2>3 DEF Contract!Next
<1>3. ASSUME NEW t \in Tasks, NEW o \in Ops, Call(t, o)
      PROVE  [Contract!Next]_(Contract!vars)
  <2>1. InTransfer' <=> InTransfer
    BY <1>3 DEF Call, Goto, InTransfer, IInv, TypeOK
  <2> QED
    BY <1>3, <2>1, <1>quiet DEF Call
<1>4. ASSUME NEW t \in Tasks, TakeMutex(t)
      PROVE  [Contract!Next]_(Contract!vars)
  <2>1. InTransfer' = InTransfer
    <3>1. InTransfer' <=> InTransfer
      BY <1>4 DEF TakeMutex, Goto, InTransfer, IInv, TypeOK
    <3> QED
      BY <3>1 DEF InTransfer
  <2>2. locker = "free" /\ locker' = t /\ ret'[t] = "OK" /\ "free" \notin Tasks
    BY <1>4, I2cAssumption DEF TakeMutex, IInv, TypeOK
  <2>3. Ok' = TRUE
    BY <2>2 DEF Ok
  <2>4. UNCHANGED <<moved, total>>
    BY <1>4 DEF TakeMutex
  <2>5. Contract!Enter(t)
    BY <2>1, <2>2, <2>3, <2>4, <1>maps, <1>same DEF Contract!Enter
  <2> QED
    BY <2>5 DEF Contract!Next
<1>5. ASSUME NEW t \in Tasks,
             \/ /\ pc[t] \in {"start", "begin"} /\ Goto(t, "give") /\ Fail(t)
                /\ UNCHANGED <<locker, moved, total>>
             \/ /\ pc[t] \in {"start", "begin"}
                /\ \E l \in {"rpush", "wpush", "setup"} : Goto(t, l)
                /\ moved' = 0 /\ total' = op[t].len
                /\ UNCHANGED <<locker, ret>>
      PROVE  [Contract!Next]_(Contract!vars)
  <2>1. CASE /\ pc[t] \in {"start", "begin"} /\ Goto(t, "give") /\ Fail(t)
             /\ UNCHANGED <<locker, moved, total>>
    <3>1. Owner = t /\ t # "free" /\ locker = t /\ ~InTransfer /\ ~InTransfer'
      BY <2>1, TaskMoves DEF Phases
    <3>2. InTransfer' = InTransfer
      BY <3>1 DEF InTransfer
    <3>3. ~Ok' /\ Ok' = FALSE
      BY <2>1, <3>1 DEF Ok, Fail, IInv, TypeOK
    <3>4. Contract!Refuse
      BY <2>1, <3>1, <3>2, <3>3, <1>maps, <1>same, Zenon DEF Contract!Refuse
    <3> QED
      BY <3>4 DEF Contract!Next
  <2>2. CASE /\ pc[t] \in {"start", "begin"}
             /\ \E l \in {"rpush", "wpush", "setup"} : Goto(t, l)
             /\ moved' = 0 /\ total' = op[t].len
             /\ UNCHANGED <<locker, ret>>
    <3>1. Owner = t /\ t # "free" /\ locker = t /\ ~InTransfer /\ InTransfer'
      BY <2>2, TaskMoves DEF Phases
    <3>2. InTransfer' = TRUE
      BY <3>1 DEF InTransfer
    <3>3. Ok /\ total' \in Nat
      BY <2>2, <3>1, OpsFields DEF Ok, IInv, LockInv, TypeOK
    <3>4. Contract!StartPhase
      BY <2>2, <3>1, <3>2, <3>3, <1>maps, <1>same, Zenon
      DEF Contract!StartPhase
    <3> QED
      BY <3>4 DEF Contract!Next
  <2> QED
    BY <1>5, <2>1, <2>2
<1>6. ASSUME NEW t \in Tasks, PollStart(t)
      PROVE  [Contract!Next]_(Contract!vars)
  BY <1>5, <1>6 DEF PollStart
<1>7. ASSUME NEW t \in Tasks, BeginTrans(t)
      PROVE  [Contract!Next]_(Contract!vars)
  <2>1. /\ pc[t] = "begin" /\ Goto(t, "setup") /\ UNCHANGED <<locker, ret>>
        /\ moved' = 0 /\ total' = op[t].len
    BY <1>7 DEF BeginTrans, Void
  <2> QED
    BY <1>5, <2>1
<1>8. ASSUME NEW t \in Tasks, ReadPush(t)
      PROVE  [Contract!Next]_(Contract!vars)
  <2>1. pc[t] = "rpush" /\ UNCHANGED <<locker, moved, total>>
    BY <1>8 DEF ReadPush
  <2>2. CASE UNCHANGED ret /\ \E l \in {"stop", "rdrain"} : Goto(t, l)
    <3>1. InTransfer' <=> InTransfer
      BY <2>1, <2>2, TaskMoves DEF Phases
    <3> QED
      BY <2>1, <2>2, <3>1, <1>quiet
  <2>3. CASE Fail(t) /\ Goto(t, "give")
    <3>1. locker = t /\ InTransfer /\ ~InTransfer'
      BY <2>1, <2>3, TaskMoves DEF Phases
    <3> QED
      BY <2>1, <2>3, <3>1, <1>fail
  <2> QED
    BY <1>8, <2>2, <2>3 DEF ReadPush, ReadFail
<1>9. ASSUME NEW t \in Tasks, ReadDrain(t)
      PROVE  [Contract!Next]_(Contract!vars)
  <2> DEFINE n == Least({rx_len, rxf})
  <2>1. n \in Nat /\ n <= rx_len
    BY RoundsFit DEF IInv
  <2> HIDE DEF n
  <2>2. /\ pc[t] = "rdrain" /\ Goto(t, "rpush") /\ moved' = moved + n
        /\ UNCHANGED <<locker, ret, total>>
    BY <1>9 DEF ReadDrain, n
  <2>3. InTransfer /\ InTransfer'
    BY <2>2, TaskMoves DEF Phases
  <2>4. moved + rx_len = total
    BY <2>2 DEF IInv, PollInv
  <2>5. CASE n = 0
    BY <2>2, <2>3, <2>5, <1>type, <1>quiet
  <2>6. CASE n > 0
    BY <2>1, <2>2, <2>3, <2>4, <2>6, <1>type, <1>move
  <2> QED
    BY <2>1, <2>5, <2>6
<1>10. ASSUME NEW t \in Tasks, WritePush(t)
       PROVE  [Contract!Next]_(Contract!vars)
  <2> DEFINE n == Least({tx_len, Depth - txf})
  <2>1. n \in Nat /\ n <= tx_len
    BY RoundsFit DEF IInv
  <2> HIDE DEF n
  <2>2. /\ pc[t] = "wpush" /\ moved + tx_len = total
        /\ UNCHANGED <<locker, total>>
    BY <1>10 DEF WritePush, IInv, PollInv
  <2>3. CASE UNCHANGED <<ret, moved>> /\ Goto(t, "stop")
    <3>1. InTransfer' <=> InTransfer
      BY <2>2, <2>3, TaskMoves DEF Phases
    <3> QED
      BY <2>2, <2>3, <3>1, <1>quiet
  <2>4. CASE Fail(t) /\ Goto(t, "give") /\ UNCHANGED moved
    <3>1. locker = t /\ InTransfer /\ ~InTransfer'
      BY <2>2, <2>4, TaskMoves DEF Phases
    <3> QED
      BY <2>2, <2>4, <3>1, <1>fail
  <2>5. CASE moved' = moved + n /\ UNCHANGED <<pc, ret>>
    <3>1. InTransfer /\ InTransfer'
      BY <2>2, <2>5 DEF InTransfer
    <3>2. CASE n = 0
      BY <2>2, <2>5, <3>1, <3>2, <1>type, <1>quiet
    <3>3. CASE n > 0
      BY <2>1, <2>2, <2>5, <3>1, <3>3, <1>type, <1>move
    <3> QED
      BY <2>1, <3>2, <3>3
  <2> QED
    BY <1>10, <2>3, <2>4, <2>5 DEF WritePush, n
<1>11. ASSUME NEW t \in Tasks, StopTrans(t)
       PROVE  [Contract!Next]_(Contract!vars)
  <2>1. /\ pc[t] = "stop" /\ moved = total
        /\ UNCHANGED <<locker, moved, total>>
        /\ Goto(t, "give") /\ (Fail(t) \/ UNCHANGED ret)
    BY <1>11 DEF StopTrans, IInv, PollInv
  <2>2. locker = t /\ InTransfer /\ ~InTransfer'
    BY <2>1, TaskMoves DEF Phases
  <2> QED
    BY <2>1, <2>2, <1>end, <1>fail
<1>12. ASSUME NEW t \in Tasks, CheckStatus(t)
       PROVE  [Contract!Next]_(Contract!vars)
  <2>1. /\ pc[t] = "intr" /\ Goto(t, "istat")
        /\ UNCHANGED <<locker, moved, total, ret>>
    BY <1>12 DEF CheckStatus, Void
  <2>2. InTransfer' <=> InTransfer
    BY <2>1, TaskMoves DEF Phases
  <2> QED
    BY <2>1, <2>2, <1>quiet
<1>12a. ASSUME NEW t \in Tasks, AwaitStatus(t)
        PROVE  [Contract!Next]_(Contract!vars)
  <2>1. /\ pc[t] = "istat" /\ Goto(t, "begin")
        /\ UNCHANGED <<locker, moved, total, ret>>
    BY <1>12a DEF AwaitStatus
  <2>2. InTransfer' <=> InTransfer
    BY <2>1, TaskMoves DEF Phases
  <2> QED
    BY <2>1, <2>2, <1>quiet
<1>13. ASSUME NEW t \in Tasks, SetupIntr(t)
       PROVE  [Contract!Next]_(Contract!vars)
  <2>1. /\ pc[t] = "setup" /\ Goto(t, "wait")
        /\ UNCHANGED <<locker, moved, total, ret>>
    BY <1>13 DEF SetupIntr
  <2>2. InTransfer' <=> InTransfer
    BY <2>1, TaskMoves DEF Phases
  <2> QED
    BY <2>1, <2>2, <1>quiet
<1>14. ASSUME NEW t \in Tasks, WaitBits(t)
       PROVE  [Contract!Next]_(Contract!vars)
  <2>1. /\ pc[t] = "wait" /\ Goto(t, "mask")
        /\ UNCHANGED <<locker, moved, total>>
        /\ bits \intersect {"ABORTED", DoneBit(op[t])} # {}
        /\ IF "ABORTED" \in bits THEN Fail(t) ELSE UNCHANGED ret
    BY <1>14 DEF WaitBits, Fail
  <2>2. locker = t /\ InTransfer /\ ~InTransfer'
    BY <2>1, TaskMoves DEF Phases
  <2>3. Safe
    BY <2>1, <1>kept DEF Safe, IInv, LockInv, AllIdle
  <2>4. "ABORTED" \notin bits /\ DoneBit(op[t]) \in bits
    BY <2>1, <2>3 DEF IInv, IntrInv, Raised
  <2>5. op[t] \in used /\ op[t].dir \in {"read", "write"}
    BY <2>1, OpsFields DEF IInv, LockInv, IntrLocations, TypeOK
  <2>6. IF op[t].dir = "read" THEN ReadWaits ELSE WriteWaits
    BY <2>1, <2>3 DEF IInv, IntrInv
  <2>7. moved = total
    BY <2>4, <2>5, <2>6 DEF ReadWaits, WriteWaits, Raised, DoneBit
  <2> QED
    BY <2>1, <2>2, <2>4, <2>7, <1>end
<1>15. ASSUME NEW t \in Tasks, MaskIrq(t)
       PROVE  [Contract!Next]_(Contract!vars)
  <2>1. /\ pc[t] = "mask" /\ Goto(t, "give")
        /\ UNCHANGED <<locker, moved, total, ret>>
    BY <1>15 DEF MaskIrq
  <2>2. InTransfer' <=> InTransfer
    BY <2>1, TaskMoves DEF Phases
  <2> QED
    BY <2>1, <2>2, <1>quiet
<1>16. ASSUME NEW t \in Tasks, GiveMutex(t)
       PROVE  [Contract!Next]_(Contract!vars)
  <2>1. pc[t] = "give" /\ Goto(t, "idle") /\ locker' = "free"
    BY <1>16 DEF GiveMutex
  <2>2. Owner = t /\ t # "free" /\ ~InTransfer /\ ~InTransfer'
    BY <2>1, TaskMoves DEF Phases
  <2>3. InTransfer' = InTransfer
    BY <2>2 DEF InTransfer
  <2>4. locker' \notin Tasks /\ Ok' = TRUE /\ UNCHANGED <<moved, total>>
    BY <1>16, <2>1, I2cAssumption DEF Ok, GiveMutex
  <2>5. Contract!Leave
    BY <2>2, <2>3, <2>4, <1>maps, <1>same, Zenon DEF Contract!Leave
  <2> QED
    BY <2>5 DEF Contract!Next
<1>17. CASE IntrRxFull \/ IntrTxEmpty
  <2>1. Safe
    BY <1>17, <1>kept
    DEF Safe, IntrRxFull, IntrTxEmpty, IInv, LockInv, AllIdle, IntrLocations
  <2>2. UNCHANGED <<locker, ret, pc, total>>
    BY <1>17 DEF IntrRxFull, IntrTxEmpty
  <2>3. PICK t \in Tasks :
          /\ pc[t] = "wait" /\ Entered(op[t]) /\ moved = 0
          /\ moved' = 0 \/ moved' = total
    BY <1>17, <2>1, RxFullTakes, TxEmptyPushes
  <2>4. total > 0
    BY <2>3, OpsFields DEF Entered, IInv, TypeOK
  <2>5. InTransfer /\ InTransfer'
    BY <2>2, <2>3 DEF InTransfer
  <2>6. CASE moved' = 0
    BY <2>2, <2>3, <2>5, <2>6, <1>quiet
  <2>7. CASE moved' = total
    BY <2>2, <2>3, <2>4, <2>5, <2>7, <1>type, <1>move
  <2> QED
    BY <2>3, <2>6, <2>7
<1>18. CASE IntrAbort \/ SetBits \/ BusStep \/ BusAbort \/ UNCHANGED vars
  <2>1. UNCHANGED <<locker, ret, pc, moved, total>>
    BY <1>18 DEF IntrAbort, SetBits, BusStep, BusAbort, vars
  <2>2. InTransfer' <=> InTransfer
    BY <2>1 DEF InTransfer
  <2> QED
    BY <2>1, <2>2, <1>quiet
<1> QED
  BY <1>3, <1>4, <1>6, <1>7, <1>8, <1>9, <1>10, <1>11, <1>12, <1>12a, <1>13,
     <1>14, <1>15, <1>16, <1>17, <1>18 DEF Next, Task, FI2cMasterIntrHandler

\* FFreeRTOSI2cTransfer implements the blocking transfer within the limits of
\* SafeUse: one task at a time, bytes move only during its call, and a call
\* that reports success has moved all of them; in the interrupt modes because
\* the handler raises the event once, with the last byte.
THEOREM I2cImplementsContract == Spec => ImplementsContract
<1>1. IInv /\ [Next]_vars => [Contract!Next]_(Contract!vars)
  BY ContractStep
<1> QED
  BY Inductive, ContractInit, <1>1, PTL
  DEF Spec, ImplementsContract, Contract!Spec
=============================================================================
