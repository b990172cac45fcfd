------------------------------- MODULE FPl011 -------------------------------
(***************************************************************************)
(* The PL011 UART driver: FtFreertosUartReceiveBuffer and                  *)
(* FtFreertosUartBlcokingSend (fpl011_os.c), called by several tasks, on   *)
(* FPl011Receive, FPl011Send (fpl011.c) and the interrupt handler of       *)
(* fpl011_intr.c.  Receivers share one mutex, senders another; nothing     *)
(* protects the buffer descriptions receive_buffer and send_buffer from    *)
(* the interrupt, which runs between any two steps of a task.  The stores  *)
(* that enter a buffer are steps of their own; a turn of a task's loop     *)
(* over the bytes, and the end of FPl011ReceiveBuffer, are one step each.  *)
(* An interrupt that moves bytes while a task is at any of these points is *)
(* recorded in `trouble' as "raced", and the properties claim nothing of   *)
(* what it then does to the task's work.  The handler sets events with     *)
(* xEventGroupSetBitsFromISR, which queues the request for the timer task  *)
(* (`pended').                                                             *)
(*                                                                         *)
(* Bytes are counted, their values are not modelled.  Which interrupts are *)
(* raised when, and which accesses withdraw them, is the PL011's.          *)
(***************************************************************************)
EXTENDS Integers, Sequences

CONSTANTS
  Tasks,          \* tasks that share the instance
  Lengths,        \* bytes of their calls
  Masks,          \* values of config.isr_event_mask
  Depth,          \* bytes of each FIFO
  RxLevel, TxLevel,  \* fill levels that raise RX and TX
  U32,            \* 2^32, scaled down
  MaxCalls, MaxRx,   \* bounds on the calls and on the bytes that arrive
  Faults          \* subset of {"LINE", "LOST"}: line errors, full timer queue

Irqs == {"RX", "RT", "TX", "ERR"}

ASSUME Pl011Assumption ==
  /\ Lengths \subseteq Nat /\ Masks \subseteq SUBSET Irqs /\ Masks # {}
  /\ Depth \in Nat /\ RxLevel \in 1 .. Depth /\ TxLevel \in 0 .. Depth - 1
  /\ MaxCalls \in Nat /\ MaxRx \in Nat /\ Faults \subseteq {"LINE", "LOST"}
  /\ U32 \in Nat \ {0} /\ \A n \in Lengths : n + Depth < U32
  /\ "null" \notin Tasks /\ "free" \notin Tasks

VARIABLES
  config,      \* config.isr_event_mask, {} before FtFreertosUartInit
  rx_semaphore, tx_semaphore,  \* "null", "free" or the task that holds it
  rx_event, tx_event,          \* bits that are set
  pended,      \* requests to set a bit, queued for the timer task
  mask, ris,   \* IMSC and RIS: interrupts that are open, and raised
  rxf, txf,    \* bytes in the FIFOs
  isr, stat,   \* what the handler does next, and the status it has read
  rx_req, rx_rem, rx_pos,  \* receive_buffer; byte_p relative to the buffer
  length,      \* size of the buffer byte_p points into
  tx_req, tx_rem,          \* send_buffer
  pc, ret, calls,     \* the tasks
  received_count, rx_len,  \* locals of the receiver
  arrived,     \* bytes that have arrived
  live,        \* the receiver still looks at its buffer
  filled,      \* bytes put into the buffer while it did
  stray,       \* a byte was taken from the FIFO that no call reports
  beyond,      \* a byte was stored behind the end of the buffer
  moved, total,  \* bytes of the last send: in the FIFO, and all of them
  trouble      \* what has happened that the code does not allow for

osVars == <<config, rx_semaphore, tx_semaphore, rx_event, tx_event, pended>>
hwVars == <<mask, ris, rxf, txf>>
isrVars == <<isr, stat>>
rxVars == <<rx_req, rx_rem, rx_pos, length>>
txVars == <<tx_req, tx_rem>>
taskVars == <<pc, ret, calls, received_count, rx_len>>
rxHist == <<live, filled, stray, beyond>>
txHist == <<moved, total>>
vars == <<osVars, hwVars, isrVars, rxVars, txVars, taskVars, arrived,
          rxHist, txHist, trouble>>

\* Trouble: the interrupt moved bytes while a task was entering or working
\* on the same buffer description; COMPLETE was raised for a send that did
\* not wait for it; the timer queue was full; the handler cleared a TX
\* interrupt raised after it had refilled the FIFO.
Troubles == {"raced", "stale", "lost", "cleared"}
Events == {"RX_COMPLETE", "RX_ERROR", "TX_COMPLETE"}
RxLocations == {"rreq", "rrem", "rloop", "rend", "rarm", "rwait", "rpoll",
                "rgive"}
TxLocations == {"sstart", "srem", "sbusy", "sloop", "sput", "swait",
                "spoll", "sgive"}

\* A task is at l, between two stores that enter its buffer.
Entering(l) == \E t \in Tasks : pc[t] = l

\* The type of every variable: the FIFOs hold no more than fits, and the
\* counts of bytes left never pass zero, nor (but for the moment between
\* two stores) what was asked for, unless the interrupt has raced with a
\* task.
FlagsOK == live \in BOOLEAN /\ stray \in BOOLEAN /\ beyond \in BOOLEAN
TypeOK ==
  /\ config \subseteq Irqs /\ mask \subseteq Irqs /\ ris \subseteq Irqs
  /\ stat \subseteq Irqs /\ isr \in {"off", "tx", "rest"}
  /\ rx_semaphore \in Tasks \union {"null", "free"}
  /\ tx_semaphore \in Tasks \union {"null", "free"}
  /\ rx_event \subseteq {"RX_COMPLETE", "RX_ERROR"}
  /\ tx_event \subseteq {"TX_COMPLETE"} /\ pended \in Seq(Events)
  /\ rxf \in 0 .. Depth /\ txf \in 0 .. Depth
  /\ rx_rem \in 0 .. U32 - 1 /\ tx_rem \in 0 .. U32 - 1
  /\ "raced" \notin trouble =>
       /\ rx_rem <= rx_req \/ Entering("rrem")
       /\ tx_rem <= tx_req \/ Entering("srem")
  /\ rx_req \in Lengths \union {0} /\ tx_req \in Lengths \union {0}
  /\ length \in Lengths \union {0}
  /\ rx_pos \in Nat /\ received_count \in Nat /\ rx_len \in Nat
  /\ filled \in Nat /\ moved \in Nat /\ total \in Nat
  /\ pc \in [Tasks -> {"idle"} \union RxLocations \union TxLocations]
  /\ ret \in [Tasks -> {"OK", "ERROR"}]
  /\ calls \in 0 .. MaxCalls /\ arrived \in 0 .. MaxRx
  /\ FlagsOK /\ trouble \subseteq Troubles

Init ==
  /\ config = {} /\ rx_semaphore = "null" /\ tx_semaphore = "null"
  /\ rx_event = {} /\ tx_event = {} /\ pended = <<>>
  /\ mask = {} /\ ris = {} /\ rxf = 0 /\ txf = 0 /\ isr = "off" /\ stat = {}
  /\ rx_req = 0 /\ rx_rem = 0 /\ rx_pos = 0 /\ length = 0
  /\ tx_req = 0 /\ tx_rem = 0
  /\ pc = [t \in Tasks |-> "idle"]
  /\ ret = [t \in Tasks |-> "OK"] /\ calls = 0
  /\ received_count = 0 /\ rx_len = 0 /\ arrived = 0
  /\ live = FALSE /\ filled = 0 /\ stray = FALSE /\ beyond = FALSE
  /\ moved = 0 /\ total = 0 /\ trouble = {}

\* Behaviours end where the code leaves a buffer: what it meets there is not
\* modelled.
InBuffers == ~beyond /\ (tx_rem <= tx_req \/ Entering("srem"))

\* The handler runs on the core of the tasks.
At(t, l) == pc[t] = l /\ isr = "off" /\ InBuffers
Goto(t, l) == pc' = [pc EXCEPT ![t] = l]
Smaller(a, b) == IF a <= b THEN a ELSE b

\* FtFreertosUartInit, before the tasks use the instance.
FtFreertosUartInit ==
  /\ rx_semaphore = "null"
  /\ rx_semaphore' = "free" /\ tx_semaphore' = "free"
  /\ \E m \in Masks : config' = m /\ mask' = m
  /\ rx_event' = {} /\ tx_event' = {}
  /\ rx_req' = 0 /\ rx_rem' = 0 /\ rx_pos' = 0 /\ length' = 0
  /\ tx_req' = 0 /\ tx_rem' = 0
  /\ UNCHANGED <<pended, ris, rxf, txf, isrVars, taskVars, arrived, rxHist,
                 txHist, trouble>>

-----------------------------------------------------------------------------
(* Receiving *)

\* n bytes are read from the FIFO: RX goes below its level, RT with the last.
Withdrawn(n) ==
  (IF rxf - n < RxLevel THEN {"RX"} ELSE {})
    \union (IF rxf = n THEN {"RT"} ELSE {})

\* n bytes are stored at offset i of the buffer.
Store(i, n) ==
  /\ filled' = IF live THEN filled + n ELSE filled
  /\ stray' = (stray \/ (~live /\ n > 0))
  /\ beyond' = (beyond \/ (n > 0 /\ i + n > length))

\* A call for no bytes returns at once; another takes the mutex, and
\* FPl011Receive enters the buffer: byte_p, ...
CallReceive(t, n) ==
  /\ At(t, "idle") /\ calls < MaxCalls /\ n > 0
  /\ rx_semaphore = "free" /\ rx_semaphore' = t
  /\ calls' = calls + 1 /\ live' = TRUE
  /\ IF config \intersect {"RT", "RX"} # {}
       THEN rx_pos' = 0 /\ length' = n /\ Goto(t, "rreq")
       ELSE Goto(t, "rpoll") /\ UNCHANGED <<rx_pos, length>>
  /\ UNCHANGED <<config, tx_semaphore, rx_event, tx_event, pended, hwVars,
                 isrVars, rx_req, rx_rem, txVars, ret, received_count,
                 rx_len, arrived, filled, stray, beyond, txHist, trouble>>

\* ... requested_bytes ...
SetRxRequested(t) ==
  /\ At(t, "rreq") /\ rx_req' = length /\ Goto(t, "rrem")
  /\ UNCHANGED <<osVars, hwVars, isrVars, rx_rem, rx_pos, length, txVars,
                 ret, calls, received_count, rx_len, arrived, rxHist, txHist,
                 trouble>>

\* ... and remaining_bytes, until then that of an earlier call.
SetRxRemaining(t) ==
  /\ At(t, "rrem") /\ rx_rem' = length /\ Goto(t, "rloop")
  /\ UNCHANGED <<osVars, hwVars, isrVars, rx_req, rx_pos, length, txVars,
                 ret, calls, received_count, rx_len, arrived, rxHist, txHist,
                 trouble>>

\* One turn of the loop of FPl011ReceiveBuffer.
Mut_MoreToRead == received_count <= rx_rem /\ rxf > 0
MoreToRead == received_count < rx_rem /\ rxf > 0

ReadByte(t) ==
  /\ At(t, "rloop")
  /\ IF MoreToRead
       THEN /\ rxf' = rxf - 1 /\ ris' = ris \ Withdrawn(1)
            /\ Store(rx_pos + received_count, 1)
            /\ received_count' = received_count + 1 /\ UNCHANGED pc
       ELSE /\ Goto(t, "rend")
            /\ UNCHANGED <<rxf, ris, received_count, filled, stray, beyond>>
  /\ UNCHANGED <<osVars, mask, txf, isrVars, rxVars, txVars, ret, calls,
                 rx_len, arrived, live, txHist, trouble>>

\* Its end: the description is brought up to date.  Bytes that were there
\* are returned at once, whether or not they are as many as were asked for.
EndReceive(t) ==
  /\ At(t, "rend")
  /\ rx_pos' = rx_pos + received_count
  /\ rx_rem' = (rx_rem - received_count) % U32
  /\ IF received_count > 0
       THEN rx_len' = received_count /\ live' = FALSE /\ Goto(t, "rgive")
       ELSE Goto(t, "rarm") /\ UNCHANGED <<rx_len, live>>
  /\ UNCHANGED <<osVars, hwVars, isrVars, rx_req, length, txVars, ret, calls,
                 received_count, arrived, filled, stray, beyond, txHist,
                 trouble>>

\* FPl011IrqEnableReciveTimeOut.
Mut_IrqEnableReciveTimeOut == UNCHANGED mask
IrqEnableReciveTimeOut == mask' = mask \union {"RT"}

ArmReceiveTimeout(t) ==
  /\ At(t, "rarm") /\ IrqEnableReciveTimeOut /\ Goto(t, "rwait")
  /\ UNCHANGED <<osVars, ris, rxf, txf, isrVars, rxVars, txVars, ret,
                 calls, received_count, rx_len, arrived, rxHist, txHist,
                 trouble>>

\* xEventGroupWaitBits, for ever; the length is what the interrupt has left.
Mut_ReceivedLength == rx_req
ReceivedLength == (rx_req - rx_rem) % U32

WaitRx(t) ==
  /\ At(t, "rwait") /\ rx_event # {} /\ rx_event' = {}
  /\ live' = FALSE /\ Goto(t, "rgive")
  /\ IF "RX_COMPLETE" \in rx_event
       THEN rx_len' = ReceivedLength /\ UNCHANGED <<ret, stray>>
       ELSE /\ ret' = [ret EXCEPT ![t] = "ERROR"] /\ rx_len' = 0
            /\ stray' = (stray \/ filled > 0)
  /\ UNCHANGED <<config, rx_semaphore, tx_semaphore, tx_event, pended,
                 hwVars, isrVars, rxVars, txVars, calls, received_count,
                 arrived, filled, beyond, txHist, trouble>>

\* Without receive interrupts one byte is polled for (FPl011BlockReceive).
PollReceive(t) ==
  /\ At(t, "rpoll") /\ rxf > 0
  /\ rxf' = rxf - 1 /\ ris' = ris \ Withdrawn(1)
  /\ filled' = filled + 1 /\ rx_len' = 1 /\ live' = FALSE /\ Goto(t, "rgive")
  /\ UNCHANGED <<osVars, mask, txf, isrVars, rxVars, txVars, ret, calls,
                 received_count, arrived, stray, beyond, txHist, trouble>>

GiveRxMutex(t) ==
  /\ At(t, "rgive") /\ rx_semaphore' = "free" /\ Goto(t, "idle")
  /\ received_count' = 0 /\ rx_len' = 0 /\ filled' = 0
  /\ ret' = [ret EXCEPT ![t] = "OK"]
  /\ UNCHANGED <<config, tx_semaphore, rx_event, tx_event, pended, hwVars,
                 isrVars, rxVars, txVars, calls, arrived, live, stray,
                 beyond, txHist, trouble>>

-----------------------------------------------------------------------------
(* Sending *)

\* n bytes are written to the FIFO: TX is withdrawn above its level.
WriteFifo(old, n) ==
  /\ txf' = Smaller(old + n, Depth)
  /\ ris' = IF old + n > TxLevel THEN ris \ {"TX"} ELSE ris

CallSend(t) ==
  /\ At(t, "idle") /\ calls < MaxCalls /\ calls' = calls + 1
  /\ tx_semaphore = "free" /\ tx_semaphore' = t /\ Goto(t, "sstart")
  /\ UNCHANGED <<config, rx_semaphore, rx_event, tx_event, pended, hwVars,
                 isrVars, rxVars, txVars, ret, received_count, rx_len,
                 arrived, rxHist, txHist, trouble>>

\* FPl011Send enters the buffer, remaining_bytes last; FPl011BlockSend polls
\* instead.
StartSend(t, n) ==
  /\ At(t, "sstart") /\ moved' = 0 /\ total' = n
  /\ IF "TX" \in config
       THEN tx_req' = n /\ Goto(t, "srem")
       ELSE Goto(t, "spoll") /\ UNCHANGED tx_req
  /\ UNCHANGED <<osVars, hwVars, isrVars, rxVars, tx_rem, ret, calls,
                 received_count, rx_len, arrived, rxHist, trouble>>

SetTxRemaining(t) ==
  /\ At(t, "srem") /\ tx_rem' = tx_req /\ Goto(t, "sbusy")
  /\ UNCHANGED <<osVars, hwVars, isrVars, rxVars, tx_req, ret, calls,
                 received_count, rx_len, arrived, rxHist, txHist, trouble>>

\* FPl011SendBuffer waits until the transmitter is idle, ...
AwaitIdle(t) ==
  /\ At(t, "sbusy") /\ txf = 0 /\ Goto(t, "sloop")
  /\ UNCHANGED <<osVars, hwVars, isrVars, rxVars, txVars, ret, calls,
                 received_count, rx_len, arrived, rxHist, txHist, trouble>>

\* ... looks whether there is room and something left, and which byte is
\* next, ...
Mut_Unsent == FALSE
Unsent == tx_rem # 0

NextByte(t) ==
  /\ At(t, "sloop")
  /\ Goto(t, IF txf < Depth /\ tx_rem > 0 THEN "sput"
             ELSE IF Unsent THEN "swait" ELSE "sgive")
  /\ UNCHANGED <<osVars, hwVars, isrVars, rxVars, txVars, ret, calls,
                 received_count, rx_len, arrived, rxHist, txHist, trouble>>

\* ... counts the byte and writes it.
PutByte(t) ==
  /\ At(t, "sput") /\ tx_rem' = (tx_rem - 1) % U32 /\ WriteFifo(txf, 1)
  /\ moved' = IF "raced" \in trouble THEN moved ELSE moved + 1
  /\ Goto(t, "sloop")
  /\ UNCHANGED <<osVars, mask, rxf, isrVars, rxVars, tx_req, ret, calls,
                 received_count, rx_len, arrived, rxHist, total, trouble>>

\* xEventGroupWaitBits, for ever.
WaitTx(t) ==
  /\ At(t, "swait") /\ tx_event # {} /\ tx_event' = {} /\ Goto(t, "sgive")
  /\ UNCHANGED <<config, rx_semaphore, tx_semaphore, rx_event, pended,
                 hwVars, isrVars, rxVars, txVars, ret, calls,
                 received_count, rx_len, arrived, rxHist, txHist, trouble>>

PollSend(t) ==
  /\ At(t, "spoll")
  /\ IF moved = total
       THEN Goto(t, "sgive") /\ UNCHANGED <<txf, ris, moved>>
       ELSE /\ txf < Depth /\ WriteFifo(txf, 1) /\ moved' = moved + 1
            /\ UNCHANGED pc
  /\ UNCHANGED <<osVars, mask, rxf, isrVars, rxVars, txVars, ret, calls,
                 received_count, rx_len, arrived, rxHist, total, trouble>>

GiveTxMutex(t) ==
  /\ At(t, "sgive") /\ tx_semaphore' = "free" /\ Goto(t, "idle")
  /\ UNCHANGED <<config, rx_semaphore, rx_event, tx_event, pended, hwVars,
                 isrVars, rxVars, txVars, ret, calls, received_count,
                 rx_len, arrived, rxHist, txHist, trouble>>

-----------------------------------------------------------------------------
(* FPl011InterruptHandler and FtFreeRtosUartCallback *)

\* Requests the callback makes of the timer queue, each of which may fail.
Requests(es) ==
  IF "LOST" \in Faults
    THEN {<<>>, es} \union {<<es[i]>> : i \in DOMAIN es}
    ELSE {es}

\* FPl011ReceiveBuffer in the handler takes what is there and fits.
Taken == Smaller(rxf, rx_rem)
Take(n) ==
  /\ rxf' = rxf - n /\ Store(rx_pos, n)
  /\ rx_pos' = rx_pos + n /\ rx_rem' = rx_rem - n
RxRace(n) ==
  n > 0 /\ \E t \in Tasks : pc[t] \in {"rreq", "rrem", "rloop", "rend"}

TxRace(n) == n > 0 /\ \E t \in Tasks : pc[t] \in {"srem", "sput"}

Noted(es, req) == IF req = es THEN {} ELSE {"lost"}

\* The status is read.  FPl011ReceiveDataHandler raises RECV_DATA only when
\* nothing is left to receive.
IsrEnter ==
  LET s == mask \intersect ris
      n == IF "RX" \in s THEN Taken ELSE 0
      es == IF "RX" \in s /\ rx_rem = n THEN <<"RX_COMPLETE">> ELSE <<>>
  IN /\ isr = "off" /\ InBuffers /\ s # {} /\ stat' = s
     /\ Take(n) /\ ris' = ris \ IF n > 0 THEN Withdrawn(n) ELSE {}
     /\ mask' = IF es # <<>> THEN mask \ {"RT"} ELSE mask
     /\ \E req \in Requests(es) :
          /\ pended' = pended \o req
          /\ trouble' = trouble \union Noted(es, req)
                          \union IF RxRace(n) THEN {"raced"} ELSE {}
     /\ isr' = IF "TX" \in s THEN "tx" ELSE "rest"
     /\ UNCHANGED <<config, rx_semaphore, tx_semaphore, rx_event, tx_event,
                    txf, rx_req, length, txVars, taskVars, arrived, live,
                    txHist>>

\* FPl011SendDataHandler: wait until the transmitter is idle, refill the
\* FIFO; SENT_DATA is raised whenever nothing is left to send.
Mut_Sent(left) == left = tx_req
Sent(left) == left = 0
Mut_Refill == Depth
Refill == Smaller(Depth, tx_rem)

TxAwaited ==
  /\ \E t \in Tasks : pc[t] = "swait"
  /\ tx_event = {} /\ \A i \in DOMAIN pended : pended[i] # "TX_COMPLETE"

IsrSend ==
  LET n == Refill
      es == IF Sent(tx_rem - n) THEN <<"TX_COMPLETE">> ELSE <<>>
  IN /\ isr = "tx" /\ txf = 0 /\ isr' = "rest"
     /\ tx_rem' = tx_rem - n /\ WriteFifo(0, n)
     /\ moved' = IF "raced" \in trouble THEN moved ELSE moved + n
     /\ \E req \in Requests(es) :
          /\ pended' = pended \o req
          /\ trouble' = trouble \union Noted(es, req)
               \union (IF es # <<>> /\ ~TxAwaited THEN {"stale"} ELSE {})
               \union (IF TxRace(n) THEN {"raced"} ELSE {})
     /\ UNCHANGED <<config, rx_semaphore, tx_semaphore, rx_event, tx_event,
                    mask, rxf, stat, rxVars, tx_req, taskVars, arrived,
                    rxHist, total>>

\* FPl011ReceiveErrorHandler and FPl011ReceiveTimeoutHandler; then the
\* status that was read is cleared.  (The requests FPl011ReceiveBuffer makes
\* for single damaged bytes set the bit of the RX_ERROR that follows them;
\* they are left out.)
IsrLeave ==
  LET n == IF stat \intersect {"ERR", "RT"} # {} THEN Taken ELSE 0
      es == (IF "ERR" \in stat THEN <<"RX_ERROR">> ELSE <<>>)
              \o (IF "RT" \in stat THEN <<"RX_COMPLETE">> ELSE <<>>)
  IN /\ isr = "rest" /\ isr' = "off" /\ stat' = {}
     /\ Take(n) /\ ris' = (ris \ stat) \ IF n > 0 THEN Withdrawn(n) ELSE {}
     /\ mask' = IF es # <<>> THEN mask \ {"RT"} ELSE mask
     /\ \E req \in Requests(es) :
          /\ pended' = pended \o req
          /\ trouble' = trouble \union Noted(es, req)
               \union (IF RxRace(n) THEN {"raced"} ELSE {})
               \union (IF "TX" \in stat \intersect ris /\ tx_rem > 0
                         THEN {"cleared"} ELSE {})
     /\ UNCHANGED <<config, rx_semaphore, tx_semaphore, rx_event, tx_event,
                    txf, rx_req, length, txVars, taskVars, arrived, live,
                    txHist>>

\* The timer task serves the oldest request.
SetBits ==
  /\ isr = "off" /\ InBuffers /\ pended # <<>> /\ pended' = Tail(pended)
  /\ IF Head(pended) = "TX_COMPLETE"
       THEN tx_event' = {"TX_COMPLETE"} /\ UNCHANGED rx_event
       ELSE rx_event' = rx_event \union {Head(pended)} /\ UNCHANGED tx_event
  /\ UNCHANGED <<config, rx_semaphore, tx_semaphore, hwVars, isrVars, rxVars,
                 txVars, taskVars, arrived, rxHist, txHist, trouble>>

-----------------------------------------------------------------------------
(* The UART (external) *)

\* A byte arrives, possibly damaged; without room it is lost.
Arrive ==
  /\ InBuffers /\ rx_semaphore # "null"
  /\ arrived < MaxRx /\ arrived' = arrived + 1
  /\ rxf' = Smaller(rxf + 1, Depth)
  /\ \E damaged \in {FALSE, "LINE" \in Faults} :
       ris' = ris \union (IF rxf + 1 = RxLevel THEN {"RX"} ELSE {})
                  \union (IF damaged \/ rxf = Depth THEN {"ERR"} ELSE {})
  /\ UNCHANGED <<osVars, mask, txf, isrVars, rxVars, txVars, taskVars,
                 rxHist, txHist, trouble>>

\* Bytes have been waiting for as long as 32 bits take.  (It makes no
\* difference when RT is raised while it is masked.)
ReceiveTimeout ==
  /\ InBuffers /\ rxf > 0 /\ "RT" \in mask \ ris /\ ris' = ris \union {"RT"}
  /\ UNCHANGED <<osVars, mask, rxf, txf, isrVars, rxVars, txVars, taskVars,
                 arrived, rxHist, txHist, trouble>>

\* A byte has been sent.
Transmit ==
  /\ InBuffers /\ txf > 0 /\ txf' = txf - 1
  /\ ris' = IF txf - 1 = TxLevel THEN ris \union {"TX"} ELSE ris
  /\ UNCHANGED <<osVars, mask, rxf, isrVars, rxVars, txVars, taskVars,
                 arrived, rxHist, txHist, trouble>>

-----------------------------------------------------------------------------
Task(t) ==
  \/ SetRxRequested(t) \/ SetRxRemaining(t)
  \/ ReadByte(t) \/ EndReceive(t) \/ ArmReceiveTimeout(t) \/ WaitRx(t)
  \/ PollReceive(t) \/ GiveRxMutex(t)
  \/ (\E n \in Lengths : StartSend(t, n)) \/ SetTxRemaining(t)
  \/ AwaitIdle(t) \/ NextByte(t)
  \/ PutByte(t) \/ WaitTx(t) \/ PollSend(t) \/ GiveTxMutex(t)

FPl011InterruptHandler == IsrEnter \/ IsrSend \/ IsrLeave

\* Everything but new calls and new bytes.
System ==
  \/ FtFreertosUartInit \/ (\E t \in Tasks : Task(t))
  \/ FPl011InterruptHandler \/ SetBits \/ ReceiveTimeout \/ Transmit

Next ==
  \/ System \/ Arrive
  \/ \E t \in Tasks : CallSend(t) \/ \E n \in Lengths : CallReceive(t, n)

Spec == Init /\ [][Next]_vars

\* Calls and bytes are bounded, so it is enough that the system does not
\* stop while a task or the timer task is ready, an interrupt is pending or
\* the line is busy.
Fairness == WF_vars(System)
FairSpec == Spec /\ Fairness

-----------------------------------------------------------------------------
(* Properties *)

\* FPl011ReceiveBuffer: no byte is stored behind the end of the caller's
\* buffer, unless the interrupt stores bytes while a task is inside
\* FPl011Receive (there remaining_bytes may still be that of an earlier,
\* larger buffer).
RxInBuffer == beyond => "raced" \in trouble

\* What a receive call reports is what is in its buffer, again unless the
\* interrupt stores bytes while a task is inside FPl011Receive; bytes that
\* arrive later are not counted.
Truthful ==
  \A t \in Tasks :
    pc[t] = "rgive" /\ ret[t] = "OK" => rx_len = filled \/ "raced" \in trouble

\* fpl011_os.c: the current transfer is finished when the next one is
\* enabled; so every byte taken from the FIFO is in a buffer when the call
\* reports its length.
NoByteLost == ~stray

\* A send keeps the promise of BlockingTransfer, until COMPLETE is raised
\* for a send that does not wait for it or the interrupt races with a sender.
SendContract == INSTANCE BlockingTransfer WITH
  None <- "free",
  owner <- IF tx_semaphore \in Tasks THEN tx_semaphore ELSE "free",
  busy <- \E t \in Tasks : pc[t] \in {"srem", "sbusy", "sloop", "sput",
                                       "swait", "spoll"},
  ok <- TRUE,
  void <- trouble \intersect {"raced", "stale"} # {}
SendImplementsContract == SendContract!Spec

\* No receiver is left waiting with bytes in the FIFO or with a full buffer.
Starving ==
  (\E t \in Tasks : pc[t] = "rwait") /\ (rxf > 0 \/ rx_rem = 0)
ReceiverWakes ==
  Starving ~> (~Starving \/ trouble \intersect {"lost", "raced"} # {})

\* Every send returns, unless its event was lost or the interrupt that is
\* to send the rest was cleared.
Sending == \E t \in Tasks : pc[t] = "swait"
SendReturns ==
  Sending ~>
    (~Sending \/ trouble \intersect {"lost", "raced", "cleared"} # {})
=============================================================================
