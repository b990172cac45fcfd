---------------------------- MODULE FPl011_proofs ----------------------------
(***************************************************************************)
(* The UART driver for any number of tasks and calls, any buffer lengths   *)
(* and any depth of the FIFOs.  What is proved of receiving holds until    *)
(* the interrupt has met a task in the middle of its work on the same      *)
(* buffer description ("raced"), what is proved of sending also until      *)
(* COMPLETE was raised for a send that did not wait for it ("stale").      *)
(***************************************************************************)
EXTENDS FPl011, TLAPS

\* Each mutex is held by the task between its take and its give.  A receiver
\* without receive interrupts never enters a buffer.
LockInv ==
  /\ \A t \in Tasks : rx_semaphore = t <=> pc[t] \in RxLocations
  /\ \A t \in Tasks : tx_semaphore = t <=> pc[t] \in TxLocations
  /\ rx_semaphore = "null" <=> tx_semaphore = "null"
  /\ config \intersect {"RT", "RX"} = {} =>
       /\ rx_rem = 0
       /\ \A t \in Tasks :
            pc[t] \notin {"rreq", "rrem", "rloop", "rend", "rarm", "rwait"}
  /\ \A t \in Tasks : pc[t] = "rpoll" => config \intersect {"RT", "RX"} = {}

\* Until a race: once the stores of FPl011Receive are done, the free part of
\* the receive buffer is where byte_p points, and the bytes
\* the receiver will report are those stored while it looks.
RxInv ==
  "raced" \notin trouble =>
    /\ ~beyond
    /\ \/ rx_req = length /\ rx_pos + rx_rem = rx_req
       \/ \E t \in Tasks : pc[t] \in {"rreq", "rrem"}
    /\ rx_semaphore \notin Tasks =>
         received_count = 0 /\ filled = 0 /\ ~live
    /\ \A t \in Tasks :
         /\ pc[t] \in {"rreq", "rrem"} =>
              live /\ rx_pos = 0 /\ received_count = 0 /\ filled = 0
         /\ pc[t] = "rrem" => rx_req = length
         /\ pc[t] \in {"rloop", "rend"} =>
              /\ live /\ rx_rem = rx_req
              /\ received_count <= rx_rem /\ filled = received_count
         /\ pc[t] \in {"rarm", "rwait"} => live /\ filled + rx_rem = rx_req
         /\ pc[t] = "rpoll" => filled = 0
         /\ pc[t] = "rgive" => ~live /\ (ret[t] = "OK" => rx_len = filled)

\* A sender has entered its buffer and has not yet returned.
Entered == \E t \in Tasks : pc[t] \in {"sbusy", "sloop", "sput", "swait"}

\* COMPLETE is in the queue q of requests, and at most once.
Announced(q) == \E i \in DOMAIN q : q[i] = "TX_COMPLETE"
Once(q) ==
  \A i, j \in DOMAIN q :
    q[i] = "TX_COMPLETE" /\ q[j] = "TX_COMPLETE" => i = j

\* Until a race: a byte about to be sent is still there.  Until a stale
\* COMPLETE too: sent and unsent bytes are all bytes, there are unsent ones
\* only inside a send, and COMPLETE is raised once, for a sender that waits
\* and has none left.
TxInv ==
  /\ "raced" \notin trouble => \A t \in Tasks : pc[t] = "sput" => tx_rem > 0
  /\ "raced" \notin trouble /\ "stale" \notin trouble =>
       /\ Entered => moved + tx_rem = total
       /\ tx_rem > 0 => Entered
       /\ \A t \in Tasks : pc[t] = "srem" => moved = 0 /\ total = tx_req
       /\ \A t \in Tasks : pc[t] = "spoll" => moved <= total
       /\ tx_event # {} \/ Announced(pended) =>
            tx_rem = 0 /\ \E t \in Tasks : pc[t] = "swait"
       /\ tx_event # {} => ~Announced(pended)
       /\ Once(pended)

IInv == TypeOK /\ LockInv /\ RxInv /\ TxInv

\* Other requests appended to a queue.
LEMMA AppendOther ==
  ASSUME NEW q \in Seq(Events), NEW r \in Seq(Events), ~Announced(r)
  PROVE  /\ q \o r \in Seq(Events)
         /\ Announced(q \o r) <=> Announced(q)
         /\ Once(q) => Once(q \o r)
<1>1. /\ q \o r \in Seq(Events) /\ Len(q \o r) = Len(q) + Len(r)
      /\ \A i \in 1 .. Len(q \o r) :
           (q \o r)[i] = IF i <= Len(q) THEN q[i] ELSE r[i - Len(q)]
  OBVIOUS
<1>2. \A i \in 1 .. Len(q \o r) :
        (q \o r)[i] = "TX_COMPLETE" => i \in 1 .. Len(q) /\ (q \o r)[i] = q[i]
  BY <1>1 DEF Announced
<1>3. \A i \in 1 .. Len(q) : i \in 1 .. Len(q \o r) /\ (q \o r)[i] = q[i]
  BY <1>1
<1>4. DOMAIN q = 1 .. Len(q) /\ DOMAIN (q \o r) = 1 .. Len(q \o r)
  BY <1>1
<1> QED
  BY <1>1, <1>2, <1>3, <1>4 DEF Announced, Once

\* COMPLETE appended.
LEMMA AppendComplete ==
  ASSUME NEW q \in Seq(Events), ~Announced(q)
  PROVE  /\ q \o <<"TX_COMPLETE">> \in Seq(Events)
         /\ Once(q \o <<"TX_COMPLETE">>)
<1> DEFINE s == q \o <<"TX_COMPLETE">>
<1>1. /\ s \in Seq(Events) /\ Len(s) = Len(q) + 1
      /\ \A i \in 1 .. Len(q) : s[i] = q[i]
  BY DEF Events
<1>2. \A i \in 1 .. Len(s) : s[i] = "TX_COMPLETE" => i = Len(q) + 1
  BY <1>1 DEF Announced
<1>3. DOMAIN s = 1 .. Len(s)
  BY <1>1
<1> QED
  BY <1>1, <1>2, <1>3 DEF Once

\* The oldest request taken off.
LEMMA OldestServed ==
  ASSUME NEW q \in Seq(Events), q # <<>>
  PROVE  /\ Head(q) \in Events /\ Tail(q) \in Seq(Events)
         /\ Announced(q) <=> Head(q) = "TX_COMPLETE" \/ Announced(Tail(q))
         /\ Once(q) => /\ Once(Tail(q))
                       /\ Head(q) = "TX_COMPLETE" => ~Announced(Tail(q))
<1>1. /\ Tail(q) \in Seq(Events) /\ Len(Tail(q)) = Len(q) - 1 /\ Len(q) > 0
      /\ \A i \in 1 .. Len(Tail(q)) : Tail(q)[i] = q[i + 1]
      /\ Head(q) = q[1] /\ q[1] \in Events
  OBVIOUS
<1>2. \A i \in 1 .. Len(q) : i = 1 \/ (i - 1 \in 1 .. Len(Tail(q)))
  BY <1>1
<1>3. \A i \in 1 .. Len(Tail(q)) : i + 1 \in 1 .. Len(q) /\ i + 1 # 1
  BY <1>1
<1>4. DOMAIN q = 1 .. Len(q) /\ DOMAIN Tail(q) = 1 .. Len(Tail(q))
  BY <1>1
<1>5. Announced(q) <=> Head(q) = "TX_COMPLETE" \/ Announced(Tail(q))
  <2>1. ASSUME NEW i \in 1 .. Len(q), q[i] = "TX_COMPLETE", i # 1
        PROVE  Announced(Tail(q))
    <3>1. i - 1 \in 1 .. Len(Tail(q)) /\ Tail(q)[i - 1] = q[i]
      BY <1>1, <1>2, <2>1
    <3> QED
      BY <3>1, <2>1, <1>4 DEF Announced
  <2>2. ASSUME NEW i \in 1 .. Len(Tail(q)), Tail(q)[i] = "TX_COMPLETE"
        PROVE  Announced(q)
    BY <1>1, <1>3, <1>4, <2>2 DEF Announced
  <2>3. 1 \in 1 .. Len(q)
    BY <1>1
  <2> QED
    BY <1>1, <1>4, <2>1, <2>2, <2>3 DEF Announced
<1>6. ASSUME Once(q) PROVE Once(Tail(q))
  <2>1. ASSUME NEW i \in 1 .. Len(Tail(q)), NEW j \in 1 .. Len(Tail(q)),
               Tail(q)[i] = "TX_COMPLETE", Tail(q)[j] = "TX_COMPLETE"
        PROVE  i = j
    <3>1. i + 1 = j + 1
      BY <1>1, <1>3, <1>4, <1>6, <2>1 DEF Once
    <3> QED
      BY <3>1
  <2> QED
    BY <1>4, <2>1 DEF Once
<1>7. ASSUME Once(q), Head(q) = "TX_COMPLETE" PROVE ~Announced(Tail(q))
  <2>1. ASSUME NEW i \in 1 .. Len(Tail(q)), Tail(q)[i] = "TX_COMPLETE"
        PROVE  FALSE
    <3>1. 1 \in 1 .. Len(q) /\ i + 1 \in 1 .. Len(q) /\ i + 1 # 1
      BY <1>1, <1>3
    <3> QED
      BY <1>1, <1>4, <1>7, <2>1, <3>1 DEF Once
  <2> QED
    BY <1>4, <2>1 DEF Announced
<1> QED
  BY <1>1, <1>5, <1>6, <1>7

\* What the callback asks of the timer queue, whatever gets through.
LEMMA RequestsKind ==
  ASSUME NEW es \in Seq(Events), ~Announced(es), NEW req \in Requests(es)
  PROVE  req \in Seq(Events) /\ ~Announced(req)
<1>1. <<>> \in Seq(Events) /\ ~Announced(<<>>)
  BY DEF Announced
<1>2. ASSUME NEW i \in DOMAIN es
      PROVE  <<es[i]>> \in Seq(Events) /\ ~Announced(<<es[i]>>)
  <2>1. es[i] \in Events /\ es[i] # "TX_COMPLETE"
    BY DEF Announced
  <2> DEFINE e == es[i]
  <2> HIDE DEF Events, e
  <2>2. <<e>> \in Seq(Events) /\ DOMAIN <<e>> = 1 .. 1 /\ <<e>>[1] = e
    BY <2>1 DEF e
  <2> QED
    BY <2>1, <2>2 DEF Announced, e
<1> QED
  BY <1>1, <1>2 DEF Requests

\* The requests of the sending side.
LEMMA RequestsTx ==
  ASSUME NEW es \in {<<>>, <<"TX_COMPLETE">>}, NEW req \in Requests(es)
  PROVE  req = <<>> \/ (req = <<"TX_COMPLETE">> /\ es = <<"TX_COMPLETE">>)
  BY DEF Requests

\* Requests of the receiving side.
LEMMA RxRequests ==
  /\ <<>> \in Seq(Events) /\ ~Announced(<<>>)
  /\ <<"RX_COMPLETE">> \in Seq(Events) /\ ~Announced(<<"RX_COMPLETE">>)
  /\ <<"RX_ERROR">> \in Seq(Events) /\ ~Announced(<<"RX_ERROR">>)
<1>1. /\ <<>> \in Seq(Events) /\ <<"RX_COMPLETE">> \in Seq(Events)
      /\ <<"RX_ERROR">> \in Seq(Events)
  BY DEF Events
<1>2. ~Announced(<<>>)
  BY DEF Announced
<1>3. ~Announced(<<"RX_COMPLETE">>)
  BY DEF Announced
<1>4. ~Announced(<<"RX_ERROR">>)
  BY DEF Announced
<1> QED
  BY <1>1, <1>2, <1>3, <1>4

\* A counter that does not pass zero does not wrap.
LEMMA NoWrap ==
  ASSUME NEW a \in 0 .. U32 - 1, NEW b \in Nat, b <= a
  PROVE  (a - b) % U32 = a - b
  BY Pl011Assumption

-----------------------------------------------------------------------------
(* What the handler does *)

\* A receiving part of the handler stores n bytes, which is a race when a
\* receiver is at work, and asks for nothing on behalf of a sender.
ReceiveIsr(n) ==
  /\ n <= rxf /\ n <= rx_rem /\ Take(n)
  /\ trouble \subseteq trouble' /\ trouble' \subseteq Troubles
  /\ "stale" \in trouble' => "stale" \in trouble
  /\ RxRace(n) => "raced" \in trouble'
  /\ pended' \in Seq(Events) /\ (Announced(pended') <=> Announced(pended))
  /\ Once(pended) => Once(pended')
  /\ mask' \subseteq Irqs /\ ris' \subseteq Irqs /\ stat' \subseteq Irqs
  /\ isr' \in {"off", "tx", "rest"}
  /\ UNCHANGED <<config, rx_semaphore, tx_semaphore, rx_event, tx_event, txf,
                 rx_req, length, txVars, taskVars, arrived, live, txHist>>

\* FPl011ReceiveBuffer in the handler takes no more than is there and fits.
LEMMA TakenFits ==
  ASSUME TypeOK
  PROVE  Taken \in Nat /\ Taken <= rxf /\ Taken <= rx_rem
  BY Pl011Assumption DEF TypeOK, Taken, Smaller

\* The first receiving part, at the entry, and the second, before the exit.
LEMMA IsrEnterReceives ==
  ASSUME TypeOK, IsrEnter PROVE \E n \in Nat : ReceiveIsr(n)
<1> DEFINE s == mask \intersect ris
           n == IF "RX" \in s THEN Taken ELSE 0
           es == IF "RX" \in s /\ rx_rem = n THEN <<"RX_COMPLETE">> ELSE <<>>
<1>1. n \in Nat /\ n <= rxf /\ n <= rx_rem
  BY TakenFits, Pl011Assumption DEF TypeOK
<1>2. es \in Seq(Events) /\ ~Announced(es)
  BY RxRequests
<1> HIDE DEF n, es
<1>3. PICK req \in Requests(es) :
        /\ pended' = pended \o req
        /\ trouble' = trouble \union Noted(es, req)
                        \union IF RxRace(n) THEN {"raced"} ELSE {}
  BY DEF IsrEnter, n, es
<1>4. /\ pended' \in Seq(Events) /\ (Announced(pended') <=> Announced(pended))
      /\ Once(pended) => Once(pended')
  BY <1>2, <1>3, RequestsKind, AppendOther DEF TypeOK
<1>5. /\ trouble \subseteq trouble' /\ trouble' \subseteq Troubles
      /\ "stale" \in trouble' => "stale" \in trouble
      /\ RxRace(n) => "raced" \in trouble'
  BY <1>3 DEF Noted, TypeOK, Troubles
<1>6. Take(n)
  BY DEF IsrEnter, n
<1>7. /\ mask' \subseteq Irqs /\ ris' \subseteq Irqs /\ stat' \subseteq Irqs
      /\ isr' \in {"off", "tx", "rest"}
  BY DEF IsrEnter, TypeOK
<1>8. UNCHANGED <<config, rx_semaphore, tx_semaphore, rx_event, tx_event, txf,
                  rx_req, length, txVars, taskVars, arrived, live, txHist>>
  BY DEF IsrEnter
<1> QED
  BY <1>1, <1>4, <1>5, <1>6, <1>7, <1>8 DEF ReceiveIsr

\* The part before the exit.
LEMMA IsrLeaveReceives ==
  ASSUME TypeOK, IsrLeave PROVE \E n \in Nat : ReceiveIsr(n)
<1> DEFINE n == IF stat \intersect {"ERR", "RT"} # {} THEN Taken ELSE 0
           ea == IF "ERR" \in stat THEN <<"RX_ERROR">> ELSE <<>>
           eb == IF "RT" \in stat THEN <<"RX_COMPLETE">> ELSE <<>>
           es == ea \o eb
<1>1. n \in Nat /\ n <= rxf /\ n <= rx_rem
  BY TakenFits, Pl011Assumption DEF TypeOK
<1>2. es \in Seq(Events) /\ ~Announced(es)
  <2>1. /\ ea \in Seq(Events) /\ ~Announced(ea)
        /\ eb \in Seq(Events) /\ ~Announced(eb)
    BY RxRequests
  <2> HIDE DEF ea, eb
  <2> QED
    BY <2>1, AppendOther
<1> HIDE DEF n, es
<1>3. PICK req \in Requests(es) :
        /\ pended' = pended \o req
        /\ trouble' = trouble \union Noted(es, req)
             \union (IF RxRace(n) THEN {"raced"} ELSE {})
             \union (IF "TX" \in stat \intersect ris /\ tx_rem > 0
                       THEN {"cleared"} ELSE {})
  BY DEF IsrLeave, n, es
<1>4. /\ pended' \in Seq(Events) /\ (Announced(pended') <=> Announced(pended))
      /\ Once(pended) => Once(pended')
  BY <1>2, <1>3, RequestsKind, AppendOther DEF TypeOK
<1>5. /\ trouble \subseteq trouble' /\ trouble' \subseteq Troubles
      /\ "stale" \in trouble' => "stale" \in trouble
      /\ RxRace(n) => "raced" \in trouble'
  BY <1>3 DEF Noted, TypeOK, Troubles
<1>6. Take(n)
  BY DEF IsrLeave, n
<1>7. /\ mask' \subseteq Irqs /\ ris' \subseteq Irqs /\ stat' \subseteq Irqs
      /\ isr' \in {"off", "tx", "rest"}
  BY DEF IsrLeave, TypeOK
<1>8. UNCHANGED <<config, rx_semaphore, tx_semaphore, rx_event, tx_event, txf,
                  rx_req, length, txVars, taskVars, arrived, live, txHist>>
  BY DEF IsrLeave
<1> QED
  BY <1>1, <1>4, <1>5, <1>6, <1>7, <1>8 DEF ReceiveIsr

\* The sending part sends n bytes, which is a race when a sender enters
\* its buffer or holds a byte in its hand, and may ask for COMPLETE when none
\* is left, which is stale unless a sender waits for it.
SendIsr(n) ==
  /\ n <= tx_rem /\ tx_rem' = tx_rem - n
  /\ txf' \in 0 .. Depth /\ ris' \subseteq Irqs
  /\ moved' = IF "raced" \in trouble THEN moved ELSE moved + n
  /\ trouble \subseteq trouble' /\ trouble' \subseteq Troubles
  /\ tx_rem' = 0 /\ ~TxAwaited => "stale" \in trouble'
  /\ TxRace(n) => "raced" \in trouble'
  /\ \/ pended' = pended
     \/ tx_rem' = 0 /\ pended' = pended \o <<"TX_COMPLETE">>
  /\ pended' \in Seq(Events) /\ isr' = "rest"
  /\ UNCHANGED <<config, rx_semaphore, tx_semaphore, rx_event, tx_event,
                 mask, rxf, stat, rxVars, tx_req, taskVars, arrived,
                 rxHist, total>>

\* IsrSend is such a step.
LEMMA IsrSendSends ==
  ASSUME TypeOK, IsrSend PROVE \E n \in Nat : SendIsr(n)
<1> DEFINE n == Refill
           es == IF Sent(tx_rem - n) THEN <<"TX_COMPLETE">> ELSE <<>>
<1>1. n \in Nat /\ n <= tx_rem /\ n <= Depth
  BY Pl011Assumption DEF TypeOK, Refill, Smaller
<1>2. es \in {<<>>, <<"TX_COMPLETE">>}
  OBVIOUS
<1>3. /\ es = <<"TX_COMPLETE">> <=> tx_rem - n = 0
      /\ es # <<>> <=> tx_rem - n = 0
  BY <1>1 DEF Sent
<1> HIDE DEF n, es
<1>4. PICK req \in Requests(es) :
        /\ pended' = pended \o req
        /\ trouble' = trouble \union Noted(es, req)
             \union (IF es # <<>> /\ ~TxAwaited THEN {"stale"} ELSE {})
             \union (IF TxRace(n) THEN {"raced"} ELSE {})
  BY DEF IsrSend, n, es
<1>5. tx_rem' = tx_rem - n /\ isr' = "rest" /\ WriteFifo(0, n)
  BY DEF IsrSend, n
<1>6. \/ pended' = pended
      \/ tx_rem' = 0 /\ pended' = pended \o <<"TX_COMPLETE">>
  <2>1. req = <<>> \/ (req = <<"TX_COMPLETE">> /\ tx_rem - n = 0)
    BY <1>2, <1>3, RequestsTx
  <2>2. pended \o <<>> = pended
    BY DEF TypeOK
  <2> QED
    BY <1>4, <1>5, <2>1, <2>2
<1>7. pended' \in Seq(Events)
  <2>1. "TX_COMPLETE" \in Events
    BY DEF Events
  <2>2. pended \in Seq(Events)
    BY DEF TypeOK
  <2> HIDE DEF Events
  <2>3. pended \o <<"TX_COMPLETE">> \in Seq(Events)
    BY <2>1, <2>2
  <2> QED
    BY <1>6, <2>2, <2>3
<1>8. /\ trouble \subseteq trouble' /\ trouble' \subseteq Troubles
      /\ tx_rem' = 0 /\ ~TxAwaited => "stale" \in trouble'
      /\ TxRace(n) => "raced" \in trouble'
  BY <1>3, <1>4, <1>5 DEF Noted, TypeOK, Troubles
<1>9. txf' \in 0 .. Depth /\ ris' \subseteq Irqs
  BY <1>1, <1>5, Pl011Assumption DEF WriteFifo, Smaller, TypeOK
<1>10. /\ moved' = IF "raced" \in trouble THEN moved ELSE moved + n
       /\ UNCHANGED <<config, rx_semaphore, tx_semaphore, rx_event, tx_event,
                      mask, rxf, stat, rxVars, tx_req, taskVars, arrived,
                      rxHist, total>>
  BY DEF IsrSend, n
<1> QED
  BY <1>1, <1>5, <1>6, <1>7, <1>8, <1>9, <1>10 DEF SendIsr

\* Bytes stored by the handler keep the receive buffer in order, unless they
\* race with a receiver.
LEMMA ReceiveIsrStep ==
  ASSUME IInv, \E n \in Nat : ReceiveIsr(n) PROVE RxInv'
<1> PICK n \in Nat : ReceiveIsr(n)
  OBVIOUS
<1> USE DEF IInv, ReceiveIsr, taskVars
<1> SUFFICES ASSUME "raced" \notin trouble' PROVE RxInv'
  BY DEF RxInv
<1>1. "raced" \notin trouble /\ ~RxRace(n)
  BY DEF RxInv
<1>2. /\ rxf \in Nat /\ rx_rem \in Nat /\ rx_req \in Nat /\ rx_pos \in Nat
      /\ filled \in Nat /\ length \in Nat
  BY Pl011Assumption DEF TypeOK
<1>3. rx_pos' = rx_pos + n /\ rx_rem' = rx_rem - n /\ rx_req' = rx_req
  BY DEF Take
<1>4. \/ rx_req' = length' /\ rx_pos' + rx_rem' = rx_req'
      \/ \E t \in Tasks : pc'[t] \in {"rreq", "rrem"}
  BY <1>1, <1>2, <1>3 DEF RxInv
<1>5. ~beyond'
  <2>1. ~(n > 0 /\ rx_pos + n > length)
    BY <1>1, <1>2, <1>3 DEF RxInv, RxRace
  <2>2. ~beyond
    BY <1>1 DEF RxInv
  <2> QED
    BY <2>1, <2>2 DEF Take, Store
<1>6. CASE n = 0
  <2>1. rx_rem' = rx_rem /\ filled' = filled /\ rx_pos' = rx_pos
    BY <1>2, <1>3, <1>6 DEF Take, Store, TypeOK, FlagsOK
  <2> QED
    BY <1>1, <1>4, <1>5, <2>1 DEF RxInv
<1>7. CASE n # 0
  <2>1. \A t \in Tasks : pc[t] \notin {"rreq", "rrem", "rloop", "rend"}
    BY <1>1, <1>7 DEF RxRace
  <2>2. config \intersect {"RT", "RX"} # {}
    BY <1>2, <1>7 DEF LockInv
  <2>3. \A t \in Tasks : pc[t] # "rpoll"
    BY <2>2 DEF LockInv
  <2>4. live => filled' = filled + n
    BY DEF Take, Store
  <2>5. ~live => filled' = filled
    BY DEF Take, Store
  <2>6. rx_semaphore \notin Tasks => ~live
    BY <1>1 DEF RxInv
  <2> QED
    BY <1>1, <1>2, <1>3, <1>4, <1>5, <2>1, <2>3, <2>4, <2>5, <2>6 DEF RxInv
<1> QED
  BY <1>6, <1>7

\* The Boolean variables keep their type.
LEMMA FlagsStep == FlagsOK /\ [Next]_vars => FlagsOK'
<1> SUFFICES ASSUME FlagsOK, [Next]_vars PROVE FlagsOK'
  OBVIOUS
<1> USE DEF FlagsOK, At, Goto, osVars, hwVars, isrVars, rxVars, txVars,
     taskVars, rxHist, txHist
<1>1. CASE FtFreertosUartInit
  BY <1>1, Zenon DEF FtFreertosUartInit
<1>2. ASSUME NEW t \in Tasks, NEW n \in Lengths, CallReceive(t, n)
      PROVE  FlagsOK'
  BY <1>2, Zenon DEF CallReceive
<1>25. ASSUME NEW t \in Tasks, SetRxRequested(t) PROVE FlagsOK'
  BY <1>25, Zenon DEF SetRxRequested
<1>26. ASSUME NEW t \in Tasks, SetRxRemaining(t) PROVE FlagsOK'
  BY <1>26, Zenon DEF SetRxRemaining
<1>27. ASSUME NEW t \in Tasks, SetTxRemaining(t) PROVE FlagsOK'
  BY <1>27, Zenon DEF SetTxRemaining
<1>3. ASSUME NEW t \in Tasks, ReadByte(t) PROVE FlagsOK'
  BY <1>3, Zenon DEF ReadByte, MoreToRead, Store
<1>4. ASSUME NEW t \in Tasks, EndReceive(t) PROVE FlagsOK'
  BY <1>4, Zenon DEF EndReceive
<1>5. ASSUME NEW t \in Tasks, ArmReceiveTimeout(t) PROVE FlagsOK'
  BY <1>5, Zenon DEF ArmReceiveTimeout, IrqEnableReciveTimeOut
<1>6. ASSUME NEW t \in Tasks, WaitRx(t) PROVE FlagsOK'
  BY <1>6, Zenon DEF WaitRx, ReceivedLength
<1>7. ASSUME NEW t \in Tasks, PollReceive(t) PROVE FlagsOK'
  BY <1>7, Zenon DEF PollReceive
<1>8. ASSUME NEW t \in Tasks, GiveRxMutex(t) PROVE FlagsOK'
  BY <1>8, Zenon DEF GiveRxMutex
<1>9. ASSUME NEW t \in Tasks, CallSend(t) PROVE FlagsOK'
  BY <1>9, Zenon DEF CallSend
<1>10. ASSUME NEW t \in Tasks, NEW n \in Lengths, StartSend(t, n)
       PROVE  FlagsOK'
  BY <1>10, Zenon DEF StartSend
<1>11. ASSUME NEW t \in Tasks, AwaitIdle(t) PROVE FlagsOK'
  BY <1>11, Zenon DEF AwaitIdle
<1>12. ASSUME NEW t \in Tasks, NextByte(t) PROVE FlagsOK'
  BY <1>12, Zenon DEF NextByte, Unsent
<1>13. ASSUME NEW t \in Tasks, PutByte(t) PROVE FlagsOK'
  BY <1>13, Zenon DEF PutByte, WriteFifo, Smaller
<1>14. ASSUME NEW t \in Tasks, WaitTx(t) PROVE FlagsOK'
  BY <1>14, Zenon DEF WaitTx
<1>15. ASSUME NEW t \in Tasks, PollSend(t) PROVE FlagsOK'
  BY <1>15, Zenon DEF PollSend, WriteFifo, Smaller
<1>16. ASSUME NEW t \in Tasks, GiveTxMutex(t) PROVE FlagsOK'
  BY <1>16, Zenon DEF GiveTxMutex
<1>17. CASE IsrEnter
  BY <1>17, Zenon DEF IsrEnter, Take, Taken, Store, Smaller, RxRace, Noted
<1>18. CASE IsrSend
  BY <1>18, Zenon DEF IsrSend, Refill, Sent, TxAwaited, TxRace, WriteFifo,
     Smaller, Noted
<1>19. CASE IsrLeave
  BY <1>19, Zenon DEF IsrLeave, Take, Taken, Store, Smaller, RxRace, Noted
<1>20. CASE SetBits
  BY <1>20, Zenon DEF SetBits
<1>21. CASE Arrive
  BY <1>21, Zenon DEF Arrive, Smaller
<1>22. CASE ReceiveTimeout
  BY <1>22, Zenon DEF ReceiveTimeout
<1>23. CASE Transmit
  BY <1>23, Zenon DEF Transmit
<1>24. CASE UNCHANGED vars
  BY <1>24, Zenon DEF vars
<1> QED
  BY <1>1, <1>2, <1>3, <1>4, <1>5, <1>6, <1>7, <1>8, <1>9, <1>10, <1>11,
     <1>12, <1>13, <1>14, <1>15, <1>16, <1>17, <1>18, <1>19, <1>20, <1>21,
     <1>22, <1>23, <1>24, <1>25, <1>26, <1>27
  DEF Next, System, Task, FPl011InterruptHandler

\* Every step keeps the types.
LEMMA TypeStep == IInv /\ [Next]_vars => TypeOK'
<1> SUFFICES ASSUME IInv, [Next]_vars PROVE TypeOK'
  OBVIOUS
<1> USE Pl011Assumption, FlagsStep DEF IInv, TypeOK, Entering, RxInv, TxInv,
     RxLocations, TxLocations, At, Goto, osVars, hwVars, isrVars, rxVars,
     txVars, taskVars, rxHist, txHist
<1>1. CASE FtFreertosUartInit
  BY <1>1 DEF FtFreertosUartInit
<1>2. ASSUME NEW t \in Tasks, NEW n \in Lengths, CallReceive(t, n)
      PROVE  TypeOK'
  BY <1>2 DEF CallReceive
<1>25. ASSUME NEW t \in Tasks, SetRxRequested(t) PROVE TypeOK'
  BY <1>25 DEF SetRxRequested
<1>26. ASSUME NEW t \in Tasks, SetRxRemaining(t) PROVE TypeOK'
  BY <1>26 DEF SetRxRemaining
<1>27. ASSUME NEW t \in Tasks, SetTxRemaining(t) PROVE TypeOK'
  BY <1>27 DEF SetTxRemaining
<1>3. ASSUME NEW t \in Tasks, ReadByte(t) PROVE TypeOK'
  BY <1>3 DEF ReadByte, MoreToRead, Store
<1>4. ASSUME NEW t \in Tasks, EndReceive(t) PROVE TypeOK'
  <2>1. rx_rem' \in 0 .. U32 - 1 /\ rx_pos' \in Nat /\ rx_len' \in Nat
    BY <1>4 DEF EndReceive
  <2>2. "raced" \notin trouble => rx_rem' <= rx_rem
    BY <1>4, NoWrap DEF EndReceive
  <2>3. "raced" \notin trouble => rx_rem' <= rx_req'
    BY <1>4, <2>1, <2>2 DEF EndReceive
  <2>4. Entering("srem") => Entering("srem")'
    BY <1>4 DEF EndReceive
  <2>5. pc' \in [Tasks -> {"idle"} \union RxLocations \union TxLocations]
    BY <1>4 DEF EndReceive
  <2> QED
    BY <1>4, <2>1, <2>3, <2>4, <2>5 DEF EndReceive
<1>5. ASSUME NEW t \in Tasks, ArmReceiveTimeout(t) PROVE TypeOK'
  <2>1. mask' \subseteq Irqs
    BY <1>5 DEF ArmReceiveTimeout, IrqEnableReciveTimeOut, Irqs
  <2> QED
    BY <1>5, <2>1 DEF ArmReceiveTimeout
<1>6. ASSUME NEW t \in Tasks, WaitRx(t) PROVE TypeOK'
  BY <1>6 DEF WaitRx, ReceivedLength
<1>7. ASSUME NEW t \in Tasks, PollReceive(t) PROVE TypeOK'
  BY <1>7 DEF PollReceive
<1>8. ASSUME NEW t \in Tasks, GiveRxMutex(t) PROVE TypeOK'
  BY <1>8 DEF GiveRxMutex
<1>9. ASSUME NEW t \in Tasks, CallSend(t) PROVE TypeOK'
  BY <1>9 DEF CallSend
<1>10. ASSUME NEW t \in Tasks, NEW n \in Lengths, StartSend(t, n)
       PROVE  TypeOK'
  BY <1>10 DEF StartSend
<1>11. ASSUME NEW t \in Tasks, AwaitIdle(t) PROVE TypeOK'
  BY <1>11 DEF AwaitIdle
<1>12. ASSUME NEW t \in Tasks, NextByte(t) PROVE TypeOK'
  BY <1>12 DEF NextByte, Unsent
<1>13. ASSUME NEW t \in Tasks, PutByte(t) PROVE TypeOK'
  BY <1>13 DEF PutByte, WriteFifo, Smaller
<1>14. ASSUME NEW t \in Tasks, WaitTx(t) PROVE TypeOK'
  BY <1>14 DEF WaitTx
<1>15. ASSUME NEW t \in Tasks, PollSend(t) PROVE TypeOK'
  BY <1>15 DEF PollSend, WriteFifo, Smaller
<1>16. ASSUME NEW t \in Tasks, GiveTxMutex(t) PROVE TypeOK'
  BY <1>16 DEF GiveTxMutex
<1>17. CASE IsrEnter
  <2>1. PICK n \in Nat : ReceiveIsr(n)
    BY <1>17, IsrEnterReceives
  <2> QED
    BY <2>1 DEF ReceiveIsr, Take, Store, RxRace
<1>18. CASE IsrSend
  <2>1. PICK n \in Nat : SendIsr(n)
    BY <1>18, IsrSendSends
  <2> QED
    BY <2>1 DEF SendIsr
<1>19. CASE IsrLeave
  <2>1. PICK n \in Nat : ReceiveIsr(n)
    BY <1>19, IsrLeaveReceives
  <2> QED
    BY <2>1 DEF ReceiveIsr, Take, Store, RxRace
<1>20. CASE SetBits
  <2>1. Head(pended) \in Events /\ Tail(pended) \in Seq(Events)
    BY <1>20, OldestServed DEF SetBits
  <2>2. rx_event' \subseteq {"RX_COMPLETE", "RX_ERROR"}
    BY <1>20, <2>1 DEF SetBits, Events
  <2>3. tx_event' \subseteq {"TX_COMPLETE"} /\ pended' \in Seq(Events)
    BY <1>20, <2>1 DEF SetBits
  <2>4. UNCHANGED <<config, rx_semaphore, tx_semaphore, hwVars, isrVars, rxVars,
                    txVars, taskVars, arrived, rxHist, txHist, trouble>>
    BY <1>20 DEF SetBits
  <2> QED
    BY <2>2, <2>3, <2>4
<1>21. CASE Arrive
  <2>1. rxf' \in 0 .. Depth
    BY <1>21 DEF Arrive, Smaller
  <2>2. ris' \subseteq Irqs
    BY <1>21 DEF Arrive, Irqs
  <2>3. arrived' \in 0 .. MaxRx
    BY <1>21 DEF Arrive
  <2> QED
    BY <1>21, <2>1, <2>2, <2>3 DEF Arrive
<1>22. CASE ReceiveTimeout
  BY <1>22 DEF ReceiveTimeout
<1>23. CASE Transmit
  <2>1. ris' \subseteq Irqs
    BY <1>23 DEF Transmit, Irqs
  <2> QED
    BY <1>23, <2>1 DEF Transmit
<1>24. CASE UNCHANGED vars
  BY <1>24 DEF vars
<1> QED
  BY <1>1, <1>2, <1>3, <1>4, <1>5, <1>6, <1>7, <1>8, <1>9, <1>10, <1>11,
     <1>12, <1>13, <1>14, <1>15, <1>16, <1>17, <1>18, <1>19, <1>20, <1>21,
     <1>22, <1>23, <1>24, <1>25, <1>26, <1>27
  DEF Next, System, Task, FPl011InterruptHandler

\* Every step keeps the mutexes with the tasks inside.
LEMMA LockStep == TypeOK /\ LockInv /\ [Next]_vars => LockInv'
<1> SUFFICES ASSUME TypeOK, LockInv, [Next]_vars PROVE LockInv'
  OBVIOUS
<1> USE Pl011Assumption DEF TypeOK, FlagsOK, LockInv, RxLocations,
     TxLocations, At, Goto, osVars, hwVars, isrVars, rxVars, txVars,
     taskVars, rxHist, txHist
<1>1. CASE FtFreertosUartInit
  BY <1>1 DEF FtFreertosUartInit
<1>2. ASSUME NEW t \in Tasks, NEW n \in Lengths, CallReceive(t, n)
      PROVE  LockInv'
  BY <1>2 DEF CallReceive
<1>25. ASSUME NEW t \in Tasks, SetRxRequested(t) PROVE LockInv'
  BY <1>25 DEF SetRxRequested
<1>26. ASSUME NEW t \in Tasks, SetRxRemaining(t) PROVE LockInv'
  BY <1>26 DEF SetRxRemaining
<1>27. ASSUME NEW t \in Tasks, SetTxRemaining(t) PROVE LockInv'
  BY <1>27 DEF SetTxRemaining
<1>3. ASSUME NEW t \in Tasks, ReadByte(t) PROVE LockInv'
  BY <1>3 DEF ReadByte, MoreToRead, Store
<1>4. ASSUME NEW t \in Tasks, EndReceive(t) PROVE LockInv'
  BY <1>4 DEF EndReceive
<1>5. ASSUME NEW t \in Tasks, ArmReceiveTimeout(t) PROVE LockInv'
  BY <1>5 DEF ArmReceiveTimeout, IrqEnableReciveTimeOut
<1>6. ASSUME NEW t \in Tasks, WaitRx(t) PROVE LockInv'
  BY <1>6 DEF WaitRx, ReceivedLength
<1>7. ASSUME NEW t \in Tasks, PollReceive(t) PROVE LockInv'
  BY <1>7 DEF PollReceive
<1>8. ASSUME NEW t \in Tasks, GiveRxMutex(t) PROVE LockInv'
  BY <1>8 DEF GiveRxMutex
<1>9. ASSUME NEW t \in Tasks, CallSend(t) PROVE LockInv'
  BY <1>9 DEF CallSend
<1>10. ASSUME NEW t \in Tasks, NEW n \in Lengths, StartSend(t, n)
       PROVE  LockInv'
  BY <1>10 DEF StartSend
<1>11. ASSUME NEW t \in Tasks, AwaitIdle(t) PROVE LockInv'
  BY <1>11 DEF AwaitIdle
<1>12. ASSUME NEW t \in Tasks, NextByte(t) PROVE LockInv'
  BY <1>12 DEF NextByte, Unsent
<1>13. ASSUME NEW t \in Tasks, PutByte(t) PROVE LockInv'
  BY <1>13 DEF PutByte, WriteFifo, Smaller
<1>14. ASSUME NEW t \in Tasks, WaitTx(t) PROVE LockInv'
  BY <1>14 DEF WaitTx
<1>15. ASSUME NEW t \in Tasks, PollSend(t) PROVE LockInv'
  BY <1>15 DEF PollSend, WriteFifo, Smaller
<1>16. ASSUME NEW t \in Tasks, GiveTxMutex(t) PROVE LockInv'
  BY <1>16 DEF GiveTxMutex
<1>17. CASE IsrEnter
  BY <1>17 DEF IsrEnter, Take, Taken, Store, Smaller, RxRace, Noted
<1>18. CASE IsrSend
  BY <1>18 DEF IsrSend, Refill, Sent, TxAwaited, TxRace, WriteFifo, Smaller,
     Noted
<1>19. CASE IsrLeave
  BY <1>19 DEF IsrLeave, Take, Taken, Store, Smaller, RxRace, Noted
<1>20. CASE SetBits
  BY <1>20 DEF SetBits
<1>21. CASE Arrive
  BY <1>21 DEF Arrive, Smaller
<1>22. CASE ReceiveTimeout
  BY <1>22 DEF ReceiveTimeout
<1>23. CASE Transmit
  BY <1>23 DEF Transmit
<1>24. CASE UNCHANGED vars
  BY <1>24 DEF vars
<1> QED
  BY <1>1, <1>2, <1>3, <1>4, <1>5, <1>6, <1>7, <1>8, <1>9, <1>10, <1>11,
     <1>12, <1>13, <1>14, <1>15, <1>16, <1>17, <1>18, <1>19, <1>20, <1>21,
     <1>22, <1>23, <1>24, <1>25, <1>26, <1>27
  DEF Next, System, Task, FPl011InterruptHandler

\* Every step keeps count of the bytes received.
LEMMA RxStep == IInv /\ [Next]_vars => RxInv'
<1> SUFFICES ASSUME IInv, [Next]_vars PROVE RxInv'
  OBVIOUS
<1> USE Pl011Assumption DEF IInv, TypeOK, FlagsOK, LockInv, RxInv,
     RxLocations, TxLocations, At, Goto, osVars, hwVars, isrVars, rxVars,
     txVars, taskVars, rxHist, txHist
<1>1. CASE FtFreertosUartInit
  BY <1>1 DEF FtFreertosUartInit
<1>2. ASSUME NEW t \in Tasks, NEW n \in Lengths, CallReceive(t, n)
      PROVE  RxInv'
  BY <1>2 DEF CallReceive
<1>25. ASSUME NEW t \in Tasks, SetRxRequested(t) PROVE RxInv'
  BY <1>25 DEF SetRxRequested
<1>26. ASSUME NEW t \in Tasks, SetRxRemaining(t) PROVE RxInv'
  BY <1>26 DEF SetRxRemaining
<1>27. ASSUME NEW t \in Tasks, SetTxRemaining(t) PROVE RxInv'
  BY <1>27 DEF SetTxRemaining
<1>3. ASSUME NEW t \in Tasks, ReadByte(t) PROVE RxInv'
  BY <1>3 DEF ReadByte, MoreToRead, Store
<1>4. ASSUME NEW t \in Tasks, EndReceive(t) PROVE RxInv'
  <2> SUFFICES ASSUME "raced" \notin trouble PROVE RxInv'
    BY <1>4 DEF EndReceive
  <2>1. (rx_rem - received_count) % U32 = rx_rem - received_count
    BY <1>4, NoWrap DEF EndReceive
  <2>3. rx_req = length /\ rx_pos + rx_rem = rx_req /\ ~beyond
    <3>1. pc[t] = "rend" /\ \A u \in Tasks : pc[u] \in RxLocations => u = t
      BY <1>4 DEF EndReceive
    <3>2. \A u \in Tasks : pc[u] \notin {"rreq", "rrem"}
      BY <3>1
    <3> QED
      BY <3>2
  <2>2. rx_req' = length' /\ rx_pos' + rx_rem' = rx_req' /\ ~beyond'
    BY <1>4, <2>1, <2>3 DEF EndReceive
  <2> QED
    BY <1>4, <2>1, <2>2 DEF EndReceive
<1>5. ASSUME NEW t \in Tasks, ArmReceiveTimeout(t) PROVE RxInv'
  BY <1>5 DEF ArmReceiveTimeout, IrqEnableReciveTimeOut
<1>6. ASSUME NEW t \in Tasks, WaitRx(t) PROVE RxInv'
  BY <1>6 DEF WaitRx, ReceivedLength
<1>7. ASSUME NEW t \in Tasks, PollReceive(t) PROVE RxInv'
  BY <1>7 DEF PollReceive
<1>8. ASSUME NEW t \in Tasks, GiveRxMutex(t) PROVE RxInv'
  BY <1>8 DEF GiveRxMutex
<1>9. ASSUME NEW t \in Tasks, CallSend(t) PROVE RxInv'
  BY <1>9 DEF CallSend
<1>10. ASSUME NEW t \in Tasks, NEW n \in Lengths, StartSend(t, n) PROVE RxInv'
  BY <1>10 DEF StartSend
<1>11. ASSUME NEW t \in Tasks, AwaitIdle(t) PROVE RxInv'
  BY <1>11 DEF AwaitIdle
<1>12. ASSUME NEW t \in Tasks, NextByte(t) PROVE RxInv'
  BY <1>12 DEF NextByte, Unsent
<1>13. ASSUME NEW t \in Tasks, PutByte(t) PROVE RxInv'
  BY <1>13 DEF PutByte, WriteFifo, Smaller
<1>14. ASSUME NEW t \in Tasks, WaitTx(t) PROVE RxInv'
  BY <1>14 DEF WaitTx
<1>15. ASSUME NEW t \in Tasks, PollSend(t) PROVE RxInv'
  BY <1>15 DEF PollSend, WriteFifo, Smaller
<1>16. ASSUME NEW t \in Tasks, GiveTxMutex(t) PROVE RxInv'
  BY <1>16 DEF GiveTxMutex
<1>17. CASE IsrEnter
  BY <1>17, IsrEnterReceives, ReceiveIsrStep
<1>18. CASE IsrSend
  <2>1. PICK n \in Nat : SendIsr(n)
    BY <1>18, IsrSendSends
  <2> QED
    BY <2>1 DEF SendIsr
<1>19. CASE IsrLeave
  BY <1>19, IsrLeaveReceives, ReceiveIsrStep
<1>20. CASE SetBits
  BY <1>20 DEF SetBits
<1>21. CASE Arrive
  BY <1>21 DEF Arrive, Smaller
<1>22. CASE ReceiveTimeout
  BY <1>22 DEF ReceiveTimeout
<1>23. CASE Transmit
  BY <1>23 DEF Transmit
<1>24. CASE UNCHANGED vars
  BY <1>24 DEF vars
<1> QED
  BY <1>1, <1>2, <1>3, <1>4, <1>5, <1>6, <1>7, <1>8, <1>9, <1>10, <1>11,
     <1>12, <1>13, <1>14, <1>15, <1>16, <1>17, <1>18, <1>19, <1>20, <1>21,
     <1>22, <1>23, <1>24, <1>25, <1>26, <1>27
  DEF Next, System, Task, FPl011InterruptHandler

\* Every step keeps count of the bytes to be sent.
LEMMA TxStep == IInv /\ [Next]_vars => TxInv'
<1> SUFFICES ASSUME IInv, [Next]_vars PROVE TxInv'
  OBVIOUS
<1> USE Pl011Assumption DEF IInv, TypeOK, FlagsOK, LockInv, TxInv, Entered,
     RxLocations, TxLocations, At, Goto, osVars, hwVars, isrVars, rxVars,
     txVars, taskVars, rxHist, txHist
<1>1. CASE FtFreertosUartInit
  BY <1>1 DEF FtFreertosUartInit
<1>2. ASSUME NEW t \in Tasks, NEW n \in Lengths, CallReceive(t, n)
      PROVE  TxInv'
  BY <1>2 DEF CallReceive
<1>25. ASSUME NEW t \in Tasks, SetRxRequested(t) PROVE TxInv'
  BY <1>25 DEF SetRxRequested
<1>26. ASSUME NEW t \in Tasks, SetRxRemaining(t) PROVE TxInv'
  BY <1>26 DEF SetRxRemaining
<1>27. ASSUME NEW t \in Tasks, SetTxRemaining(t) PROVE TxInv'
  BY <1>27 DEF SetTxRemaining
<1>3. ASSUME NEW t \in Tasks, ReadByte(t) PROVE TxInv'
  BY <1>3 DEF ReadByte, MoreToRead, Store
<1>4. ASSUME NEW t \in Tasks, EndReceive(t) PROVE TxInv'
  BY <1>4 DEF EndReceive
<1>5. ASSUME NEW t \in Tasks, ArmReceiveTimeout(t) PROVE TxInv'
  BY <1>5 DEF ArmReceiveTimeout, IrqEnableReciveTimeOut
<1>6. ASSUME NEW t \in Tasks, WaitRx(t) PROVE TxInv'
  BY <1>6 DEF WaitRx, ReceivedLength
<1>7. ASSUME NEW t \in Tasks, PollReceive(t) PROVE TxInv'
  BY <1>7 DEF PollReceive
<1>8. ASSUME NEW t \in Tasks, GiveRxMutex(t) PROVE TxInv'
  BY <1>8 DEF GiveRxMutex
<1>9. ASSUME NEW t \in Tasks, CallSend(t) PROVE TxInv'
  BY <1>9 DEF CallSend
<1>10. ASSUME NEW t \in Tasks, NEW n \in Lengths, StartSend(t, n) PROVE TxInv'
  BY <1>10 DEF StartSend
<1>11. ASSUME NEW t \in Tasks, AwaitIdle(t) PROVE TxInv'
  BY <1>11 DEF AwaitIdle
<1>12. ASSUME NEW t \in Tasks, NextByte(t) PROVE TxInv'
  BY <1>12 DEF NextByte, Unsent
<1>13. ASSUME NEW t \in Tasks, PutByte(t) PROVE TxInv'
  <2> SUFFICES ASSUME "raced" \notin trouble PROVE TxInv'
    BY <1>13 DEF PutByte
  <2>1. tx_rem' = tx_rem - 1 /\ tx_rem > 0
    <3>1. tx_rem > 0 /\ tx_rem \in 0 .. U32 - 1
      BY <1>13 DEF PutByte
    <3>2. (tx_rem - 1) % U32 = tx_rem - 1
      BY <3>1, NoWrap
    <3> QED
      BY <1>13, <3>1, <3>2 DEF PutByte
  <2>2. Entered /\ Entered'
    BY <1>13 DEF PutByte
  <2> QED
    BY <1>13, <2>1, <2>2 DEF PutByte
<1>14. ASSUME NEW t \in Tasks, WaitTx(t) PROVE TxInv'
  BY <1>14 DEF WaitTx
<1>15. ASSUME NEW t \in Tasks, PollSend(t) PROVE TxInv'
  BY <1>15 DEF PollSend, WriteFifo, Smaller
<1>16. ASSUME NEW t \in Tasks, GiveTxMutex(t) PROVE TxInv'
  BY <1>16 DEF GiveTxMutex
<1>17. CASE IsrEnter
  <2>1. PICK n \in Nat : ReceiveIsr(n)
    BY <1>17, IsrEnterReceives
  <2> QED
    BY <2>1 DEF ReceiveIsr, Take, Store, RxRace
<1>18. CASE IsrSend
  <2>1. PICK n \in Nat : SendIsr(n)
    BY <1>18, IsrSendSends
  <2> SUFFICES ASSUME "raced" \notin trouble' PROVE TxInv'
    OBVIOUS
  <2>2. \A t \in Tasks : pc'[t] = "sput" => tx_rem' > 0
    BY <2>1 DEF SendIsr, TxRace
  <2>3. Entered' <=> Entered
    BY <2>1 DEF SendIsr
  <2> SUFFICES ASSUME "stale" \notin trouble' PROVE TxInv'
    BY <2>2
  <2>4. "raced" \notin trouble /\ "stale" \notin trouble
    BY <2>1 DEF SendIsr
  <2>5. /\ moved' + tx_rem' = moved + tx_rem
        /\ total' = total /\ tx_event' = tx_event
    BY <2>1, <2>4 DEF SendIsr
  <2>6. /\ \A t \in Tasks : pc'[t] = "spoll" => moved' <= total'
        /\ \A t \in Tasks : pc'[t] = "srem" => moved' = 0 /\ total' = tx_req'
    BY <2>1, <2>4 DEF SendIsr, TxRace
  <2>7. CASE tx_rem' = 0
    <3>1. TxAwaited
      BY <2>1, <2>7 DEF SendIsr
    <3>2. /\ tx_event = {} /\ ~Announced(pended)
          /\ \E t \in Tasks : pc'[t] = "swait"
      BY <2>1, <3>1 DEF SendIsr, TxAwaited, Announced
    <3>3. Once(pended')
      <4>1. Once(pended) /\ Once(pended \o <<"TX_COMPLETE">>)
        BY <2>4, <3>2, AppendComplete
      <4>2. pended' = pended \/ pended' = pended \o <<"TX_COMPLETE">>
        BY <2>1 DEF SendIsr
      <4>3. CASE pended' = pended
        BY <4>1, <4>3 DEF Once
      <4>4. CASE pended' = pended \o <<"TX_COMPLETE">>
        <5> DEFINE q == pended \o <<"TX_COMPLETE">>
        <5>1. Once(q) /\ pended' = q
          BY <4>1, <4>4
        <5> HIDE DEF q
        <5> QED
          BY <5>1, Zenon DEF Once
      <4> QED
        BY <4>2, <4>3, <4>4
    <3> QED
      BY <2>2, <2>3, <2>4, <2>5, <2>6, <2>7, <3>2, <3>3
  <2>8. CASE tx_rem' # 0
    <3>1. pended' = pended
      BY <2>1, <2>8 DEF SendIsr
    <3>2. tx_rem > 0
      BY <2>1, <2>8 DEF SendIsr
    <3> QED
      BY <2>2, <2>3, <2>4, <2>5, <2>6, <2>8, <3>1, <3>2
  <2> QED
    BY <2>7, <2>8
<1>19. CASE IsrLeave
  <2>1. PICK n \in Nat : ReceiveIsr(n)
    BY <1>19, IsrLeaveReceives
  <2> QED
    BY <2>1 DEF ReceiveIsr, Take, Store, RxRace
<1>20. CASE SetBits
  <2>1. /\ Announced(pended) <=>
             Head(pended) = "TX_COMPLETE" \/ Announced(pended')
        /\ Once(pended) =>
             /\ Once(pended')
             /\ Head(pended) = "TX_COMPLETE" => ~Announced(pended')
    BY <1>20, OldestServed DEF SetBits
  <2> QED
    BY <1>20, <2>1 DEF SetBits
<1>21. CASE Arrive
  BY <1>21 DEF Arrive, Smaller
<1>22. CASE ReceiveTimeout
  BY <1>22 DEF ReceiveTimeout
<1>23. CASE Transmit
  BY <1>23 DEF Transmit
<1>24. CASE UNCHANGED vars
  BY <1>24 DEF vars
<1> QED
  BY <1>1, <1>2, <1>3, <1>4, <1>5, <1>6, <1>7, <1>8, <1>9, <1>10, <1>11,
     <1>12, <1>13, <1>14, <1>15, <1>16, <1>17, <1>18, <1>19, <1>20, <1>21,
     <1>22, <1>23, <1>24, <1>25, <1>26, <1>27
  DEF Next, System, Task, FPl011InterruptHandler

\* It holds in the initial state, and every step keeps it.
LEMMA InvInit == Init => IInv
<1> SUFFICES ASSUME Init PROVE IInv
  OBVIOUS
<1> USE Pl011Assumption DEF Init
<1>1. TypeOK
  <2>1. pended \in Seq(Events)
    OBVIOUS
  <2>2. FlagsOK
    BY DEF FlagsOK
  <2> QED
    BY <2>1, <2>2 DEF TypeOK
<1>2. LockInv
  BY DEF LockInv, RxLocations, TxLocations
<1>3. RxInv
  BY DEF RxInv
<1>4. TxInv
  <2>1. ~Announced(pended) /\ Once(pended)
    BY DEF Announced, Once
  <2> QED
    BY <2>1 DEF TxInv
<1> QED
  BY <1>1, <1>2, <1>3, <1>4 DEF IInv

\* Hence it always holds.
LEMMA Inductive == Spec => []IInv
<1>1. IInv /\ [Next]_vars => IInv'
  BY TypeStep, LockStep, RxStep, TxStep DEF IInv
<1> QED
  BY InvInit, <1>1, PTL DEF Spec

\* The FIFOs hold no more than fits, and until a race no count of bytes left
\* wraps.
THEOREM UartTypeCorrect == Spec => []TypeOK
<1>1. IInv => TypeOK
  BY DEF IInv
<1> QED
  BY Inductive, <1>1, PTL

\* FPl011ReceiveBuffer stores no byte behind the buffer, called by a task or
\* by the handler, unless the handler stores bytes while a task is inside
\* FPl011Receive, be it between the stores that enter the buffer.
THEOREM UartRxInBuffer == Spec => []RxInBuffer
<1>1. IInv => RxInBuffer
  BY DEF IInv, RxInv, RxInBuffer
<1> QED
  BY Inductive, <1>1, PTL

\* The length FtFreertosUartReceiveBuffer returns is the number of bytes in the
\* buffer, whether the task or the handler has put them there, with the same
\* exception.
THEOREM UartTruthful == Spec => []Truthful
<1>1. IInv => Truthful
  BY DEF IInv, RxInv, Truthful
<1> QED
  BY Inductive, <1>1, PTL

-----------------------------------------------------------------------------
(* The refinement *)

\* What the contract sees of the sending side.
Owner == IF tx_semaphore \in Tasks THEN tx_semaphore ELSE "free"
Phases == {"srem", "sbusy", "sloop", "sput", "swait", "spoll"}
Busy == \E t \in Tasks : pc[t] \in Phases
Void == trouble \intersect {"raced", "stale"} # {}

\* These are the variables of the contract.
LEMMA SendContractVars ==
  /\ SendContract!vars = <<Owner, Busy, TRUE, moved, total, Void>>
  /\ SendContract!vars' = <<Owner', Busy', TRUE, moved', total', Void'>>
  BY DEF SendContract!vars, Owner, Busy, Phases, Void

\* Initially nobody sends and no byte has moved.
LEMMA SendContractInit == Init => SendContract!Init
  BY Pl011Assumption DEF Init, SendContract!Init

\* A step that leaves the senders, their mutex and their counters alone is a
\* stuttering step of the contract.
LEMMA SendStutter ==
  ASSUME UNCHANGED <<Owner, moved, total>>, Busy' <=> Busy, Void' <=> Void
  PROVE  UNCHANGED SendContract!vars
<1>1. Busy' = Busy
  BY DEF Busy
<1>2. Void' = Void
  BY DEF Void
<1> QED
  BY <1>1, <1>2, SendContractVars

\* A phase runs when the holder of the send mutex is in one.
LEMMA TaskMoves ==
  ASSUME IInv, NEW t \in Tasks, NEW l, Goto(t, l)
  PROVE  /\ (l \in Phases <=> pc[t] \in Phases) => (Busy' <=> Busy)
         /\ pc[t] \in TxLocations =>
              /\ Owner = t /\ t # "free"
              /\ Busy <=> pc[t] \in Phases
              /\ Busy' <=> l \in Phases
<1>1. \A u \in Tasks : pc'[u] = IF u = t THEN l ELSE pc[u]
  BY DEF Goto, IInv, TypeOK
<1>2. (l \in Phases <=> pc[t] \in Phases) => (Busy' <=> Busy)
  BY <1>1 DEF Busy
<1>3. ASSUME pc[t] \in TxLocations
      PROVE  /\ Owner = t /\ t # "free"
             /\ \A u \in Tasks : pc[u] \in Phases => u = t
  BY <1>3, Pl011Assumption DEF IInv, LockInv, Owner, Phases, TxLocations
<1> QED
  BY <1>1, <1>2, <1>3 DEF Busy

\* Until trouble every step of the driver is a step of the contract or leaves
\* it alone.
LEMMA SendContractStep ==
  IInv /\ [Next]_vars => [SendContract!Next]_(SendContract!vars)
<1> SUFFICES ASSUME IInv, [Next]_vars
             PROVE  [SendContract!Next]_(SendContract!vars)
  OBVIOUS
<1> USE DEF At, osVars, hwVars, isrVars, rxVars, txVars, taskVars, rxHist,
      txHist
<1>void. CASE Void'
  BY <1>void DEF Void, SendContract!Next
<1>kept. trouble \subseteq trouble'
  <2>1. ASSUME NEW t \in Tasks, Task(t) PROVE UNCHANGED trouble
    BY <2>1 DEF Task, SetRxRequested, SetRxRemaining, SetTxRemaining,
       ReadByte, EndReceive, ArmReceiveTimeout, WaitRx, PollReceive,
       GiveRxMutex, StartSend, AwaitIdle, NextByte, PutByte,
       WaitTx, PollSend, GiveTxMutex
  <2>2. CASE IsrEnter \/ IsrLeave
    BY <2>2, IsrEnterReceives, IsrLeaveReceives DEF ReceiveIsr, IInv
  <2>3. CASE IsrSend
    BY <2>3, IsrSendSends DEF SendIsr, IInv
  <2>4. CASE \/ FtFreertosUartInit \/ SetBits \/ ReceiveTimeout
             \/ Transmit \/ Arrive
    BY <2>4 DEF FtFreertosUartInit, SetBits, ReceiveTimeout, Transmit, Arrive
  <2>5. ASSUME NEW t \in Tasks,
               CallSend(t) \/ \E n \in Lengths : CallReceive(t, n)
        PROVE  UNCHANGED trouble
    BY <2>5 DEF CallSend, CallReceive
  <2>6. CASE UNCHANGED vars
    BY <2>6 DEF vars
  <2> QED
    BY <2>1, <2>2, <2>3, <2>4, <2>5, <2>6
    DEF Next, System, FPl011InterruptHandler
<1> SUFFICES ASSUME ~Void, ~Void'
             PROVE  [SendContract!Next]_(SendContract!vars)
  BY <1>void, <1>kept DEF Void
<1>still. "raced" \notin trouble /\ "stale" \notin trouble
  BY DEF Void
<1>type. /\ tx_rem \in Nat /\ moved \in Nat /\ total \in Nat
  BY Pl011Assumption DEF IInv, TypeOK
<1>maps. /\ Owner = IF tx_semaphore \in Tasks THEN tx_semaphore ELSE "free"
         /\ Owner' = IF tx_semaphore' \in Tasks THEN tx_semaphore' ELSE "free"
         /\ Busy = \E t \in Tasks : pc[t] \in {"srem", "sbusy", "sloop",
                                                 "sput", "swait", "spoll"}
         /\ Busy' = \E t \in Tasks : pc'[t] \in {"srem", "sbusy", "sloop",
                                                   "sput", "swait", "spoll"}
  BY DEF Owner, Busy, Phases
<1>quiet. ASSUME UNCHANGED <<tx_semaphore, moved, total>>, Busy' <=> Busy
          PROVE  [SendContract!Next]_(SendContract!vars)
  <2>1. UNCHANGED Owner
    BY <1>quiet DEF Owner
  <2> QED
    BY <1>quiet, <2>1, SendStutter
<1>move. ASSUME Busy, Busy', UNCHANGED <<tx_semaphore, total>>,
                moved' \in moved + 1 .. total
         PROVE  [SendContract!Next]_(SendContract!vars)
  <2>1. SendContract!Move
    BY <1>move, <1>maps, Zenon DEF SendContract!Move, Void
  <2> QED
    BY <2>1 DEF SendContract!Next
<1>end. ASSUME Busy, ~Busy', UNCHANGED <<tx_semaphore, moved, total>>,
               moved = total
        PROVE  [SendContract!Next]_(SendContract!vars)
  <2>1. SendContract!EndPhase
    BY <1>end, <1>maps DEF SendContract!EndPhase, Void
  <2> QED
    BY <2>1 DEF SendContract!Next
<1>1. CASE FtFreertosUartInit
  <2>1. Owner = "free" /\ Owner' = "free"
    BY <1>1, Pl011Assumption DEF FtFreertosUartInit, Owner, IInv, LockInv
  <2>2. UNCHANGED <<Owner, moved, total>> /\ (Busy' <=> Busy)
    BY <1>1, <2>1 DEF FtFreertosUartInit, Busy
  <2> QED
    BY <2>2, SendStutter
<1>2. ASSUME NEW t \in Tasks, NEW n \in Lengths, CallReceive(t, n)
      PROVE  [SendContract!Next]_(SendContract!vars)
  <2>1. \E l \in {"rreq", "rpoll"} : Goto(t, l)
    BY <1>2 DEF CallReceive
  <2>2. Busy' <=> Busy
    BY <1>2, <2>1, TaskMoves DEF CallReceive, Phases
  <2> QED
    BY <1>2, <2>2, <1>quiet DEF CallReceive
<1>3. ASSUME NEW t \in Tasks,
             \/ SetRxRequested(t) \/ SetRxRemaining(t)
             \/ ReadByte(t) \/ EndReceive(t) \/ ArmReceiveTimeout(t)
             \/ WaitRx(t) \/ PollReceive(t) \/ GiveRxMutex(t)
      PROVE  [SendContract!Next]_(SendContract!vars)
  <2>1. /\ pc[t] \in RxLocations /\ UNCHANGED <<tx_semaphore, moved, total>>
        /\ \/ UNCHANGED pc
           \/ \E l \in {"rrem", "rloop", "rend", "rarm", "rwait", "rgive",
                        "idle"} : Goto(t, l)
    BY <1>3 DEF SetRxRequested, SetRxRemaining, ReadByte, EndReceive,
       ArmReceiveTimeout, WaitRx, PollReceive, GiveRxMutex, RxLocations
  <2>2. Busy' <=> Busy
    <3>1. CASE UNCHANGED pc
      BY <3>1 DEF Busy
    <3>2. CASE \E l \in {"rrem", "rloop", "rend", "rarm", "rwait", "rgive",
                         "idle"} : Goto(t, l)
      BY <2>1, <3>2, TaskMoves DEF Phases, RxLocations
    <3> QED
      BY <2>1, <3>1, <3>2
  <2> QED
    BY <2>1, <2>2, <1>quiet
<1>4. ASSUME NEW t \in Tasks, CallSend(t)
      PROVE  [SendContract!Next]_(SendContract!vars)
  <2>1. Goto(t, "sstart") /\ pc[t] = "idle"
    BY <1>4 DEF CallSend
  <2>2. Busy' <=> Busy
    BY <2>1, TaskMoves DEF Phases
  <2>3. Busy' = Busy
    BY <2>2 DEF Busy
  <2>4. SendContract!Enter(t)
    BY <1>4, <2>3, <1>maps, Pl011Assumption
    DEF CallSend, SendContract!Enter, Void
  <2> QED
    BY <2>4 DEF SendContract!Next
<1>5. ASSUME NEW t \in Tasks, NEW n \in Lengths, StartSend(t, n)
      PROVE  [SendContract!Next]_(SendContract!vars)
  <2>1. pc[t] = "sstart" /\ \E l \in {"srem", "spoll"} : Goto(t, l)
    BY <1>5 DEF StartSend
  <2>2. Owner = t /\ t # "free" /\ ~Busy /\ Busy'
    BY <2>1, TaskMoves DEF Phases, TxLocations
  <2>3. moved' = 0 /\ total' \in Nat /\ UNCHANGED tx_semaphore
    BY <1>5, Pl011Assumption DEF StartSend
  <2>4. SendContract!StartPhase
    BY <2>2, <2>3, <1>maps DEF SendContract!StartPhase, Void
  <2> QED
    BY <2>4 DEF SendContract!Next
<1>6. ASSUME NEW t \in Tasks, SetTxRemaining(t) \/ AwaitIdle(t)
      PROVE  [SendContract!Next]_(SendContract!vars)
  <2>1. Busy' <=> Busy
    BY <1>6, TaskMoves DEF SetTxRemaining, AwaitIdle, Phases
  <2> QED
    BY <1>6, <2>1, <1>quiet DEF SetTxRemaining, AwaitIdle
<1>7. ASSUME NEW t \in Tasks, NextByte(t)
      PROVE  [SendContract!Next]_(SendContract!vars)
  <2>1. pc[t] = "sloop" /\ UNCHANGED <<tx_semaphore, moved, total>>
    BY <1>7 DEF NextByte
  <2>2. CASE \E l \in {"sput", "swait"} : Goto(t, l)
    <3>1. Busy' <=> Busy
      BY <2>1, <2>2, TaskMoves DEF Phases
    <3> QED
      BY <2>1, <3>1, <1>quiet
  <2>3. CASE tx_rem = 0 /\ Goto(t, "sgive")
    <3>1. Busy /\ ~Busy'
      BY <2>1, <2>3, TaskMoves DEF Phases, TxLocations
    <3>2. moved + tx_rem = total
      BY <2>1, <1>still DEF IInv, TxInv, Entered
    <3> QED
      BY <2>1, <2>3, <3>1, <3>2, <1>type, <1>end
  <2> QED
    BY <1>7, <2>2, <2>3, <1>type DEF NextByte, Unsent
<1>8. ASSUME NEW t \in Tasks, PutByte(t)
      PROVE  [SendContract!Next]_(SendContract!vars)
  <2>1. pc[t] = "sput" /\ Goto(t, "sloop") /\ UNCHANGED <<tx_semaphore, total>>
    BY <1>8 DEF PutByte
  <2>2. Busy /\ Busy'
    BY <2>1, TaskMoves DEF Phases, TxLocations
  <2>3. moved + tx_rem = total /\ tx_rem > 0
    BY <2>1, <1>still DEF IInv, TxInv, Entered
  <2>4. moved' = moved + 1
    BY <1>8, <1>still DEF PutByte
  <2> QED
    BY <2>1, <2>2, <2>3, <2>4, <1>type, <1>move
<1>9. ASSUME NEW t \in Tasks, WaitTx(t)
      PROVE  [SendContract!Next]_(SendContract!vars)
  <2>1. /\ pc[t] = "swait" /\ Goto(t, "sgive") /\ tx_event # {}
        /\ UNCHANGED <<tx_semaphore, moved, total>>
    BY <1>9 DEF WaitTx
  <2>2. Busy /\ ~Busy'
    BY <2>1, TaskMoves DEF Phases, TxLocations
  <2>3. moved + tx_rem = total /\ tx_rem = 0
    BY <2>1, <1>still DEF IInv, TxInv, Entered
  <2> QED
    BY <2>1, <2>2, <2>3, <1>type, <1>end
<1>10. ASSUME NEW t \in Tasks, PollSend(t)
       PROVE  [SendContract!Next]_(SendContract!vars)
  <2>1. pc[t] = "spoll" /\ UNCHANGED <<tx_semaphore, total>> /\ moved <= total
    BY <1>10, <1>still DEF PollSend, IInv, TxInv
  <2>2. CASE moved = total /\ Goto(t, "sgive") /\ UNCHANGED moved
    <3>1. Busy /\ ~Busy'
      BY <2>1, <2>2, TaskMoves DEF Phases, TxLocations
    <3> QED
      BY <2>1, <2>2, <3>1, <1>end
  <2>3. CASE moved # total /\ moved' = moved + 1 /\ UNCHANGED pc
    <3>1. Busy /\ Busy'
      BY <2>1, <2>3 DEF Busy, Phases
    <3> QED
      BY <2>1, <2>3, <3>1, <1>type, <1>move
  <2> QED
    BY <1>10, <2>2, <2>3 DEF PollSend
<1>11. ASSUME NEW t \in Tasks, GiveTxMutex(t)
       PROVE  [SendContract!Next]_(SendContract!vars)
  <2>1. pc[t] = "sgive" /\ Goto(t, "idle") /\ tx_semaphore' = "free"
    BY <1>11 DEF GiveTxMutex
  <2>2. Owner = t /\ t # "free" /\ ~Busy /\ ~Busy'
    BY <2>1, TaskMoves DEF Phases, TxLocations
  <2>3. Busy' = Busy
    BY <2>2 DEF Busy
  <2>4. SendContract!Leave
    BY <1>11, <2>1, <2>2, <2>3, <1>maps, Pl011Assumption
    DEF GiveTxMutex, SendContract!Leave, Void
  <2> QED
    BY <2>4 DEF SendContract!Next
<1>12. CASE IsrEnter \/ IsrLeave
  <2>1. UNCHANGED <<tx_semaphore, moved, total, pc>>
    BY <1>12 DEF IsrEnter, IsrLeave
  <2>2. Busy' <=> Busy
    BY <2>1 DEF Busy
  <2> QED
    BY <2>1, <2>2, <1>quiet
<1>13. CASE IsrSend
  <2>1. PICK n \in Nat : SendIsr(n)
    BY <1>13, IsrSendSends DEF IInv
  <2>2. /\ moved' = moved + n /\ n <= tx_rem
        /\ UNCHANGED <<tx_semaphore, total, pc>>
    BY <2>1, <1>still DEF SendIsr
  <2>3. Busy' <=> Busy
    BY <2>2 DEF Busy
  <2>4. CASE n = 0
    BY <2>2, <2>3, <2>4, <1>type, <1>quiet
  <2>5. CASE n > 0
    <3>1. Entered
      BY <2>2, <2>5, <1>type, <1>still DEF IInv, TxInv
    <3>2. moved + tx_rem = total
      BY <3>1, <1>still DEF IInv, TxInv
    <3>3. Busy
      BY <3>1 DEF Entered, Busy, Phases
    <3> QED
      BY <2>2, <2>3, <2>5, <3>2, <3>3, <1>type, <1>move
  <2> QED
    BY <2>4, <2>5
<1>14. CASE SetBits \/ Arrive \/ ReceiveTimeout \/ Transmit \/ UNCHANGED vars
  <2>1. UNCHANGED <<tx_semaphore, moved, total, pc>>
    BY <1>14 DEF SetBits, Arrive, ReceiveTimeout, Transmit, vars
  <2>2. Busy' <=> Busy
    BY <2>1 DEF Busy
  <2> QED
    BY <2>1, <2>2, <1>quiet
<1> QED
  BY <1>1, <1>2, <1>3, <1>4, <1>5, <1>6, <1>7, <1>8, <1>9, <1>10, <1>11,
     <1>12, <1>13, <1>14
  DEF Next, System, Task, FPl011InterruptHandler

\* FtFreertosUartBlcokingSend implements the blocking transfer: one sender at
\* a time, bytes move only during its call and never more than it has, and it
\* returns when all have moved, until a race or a stale COMPLETE.
THEOREM UartSendImplementsContract == Spec => SendImplementsContract
<1>1. IInv /\ [Next]_vars => [SendContract!Next]_(SendContract!vars)
  BY SendContractStep
<1> QED
  BY Inductive, SendContractInit, <1>1, PTL
  DEF Spec, SendImplementsContract, SendContract!Spec
=============================================================================
