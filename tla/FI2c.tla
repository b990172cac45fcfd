-------------------------------- MODULE FI2c --------------------------------
(***************************************************************************)
(* The I2C master driver: FFreeRTOSI2cTransfer (fi2c_os.c), run by several *)
(* tasks under one mutex, in its polling modes (FI2cMasterReadPoll,        *)
(* FI2cMasterWritePoll) and its interrupt modes (FI2cMasterReadIntr,       *)
(* FI2cMasterWriteIntr and FI2cMasterIntrHandler).  In the interrupt modes *)
(* the task waits for an event without a timeout; the callbacks of the     *)
(* application set the events with xEventGroupSetBitsFromISR, which queues *)
(* the request for the timer task (`pended').                              *)
(*                                                                         *)
(* Bytes are counted, their values are not modelled.  The memory address   *)
(* of a message is one byte; it goes through the transmit FIFO before the  *)
(* data (writes) or read commands (reads).  A transmission that is not     *)
(* acknowledged aborts: the transmit FIFO is emptied and stays empty until *)
(* the abort is cleared.                                                   *)
(***************************************************************************)
EXTENDS Integers, Sequences

CONSTANTS
  Tasks,      \* tasks that share the instance
  Lengths,    \* bytes of their transfers
  Depth,      \* FI2C_IIC_FIFO_MAX_LV
  U32,        \* 2^32, scaled down
  QueueLength,  \* configTIMER_QUEUE_LENGTH
  MaxCalls,   \* bound on the transfers of a behaviour
  Faults      \* subset of AllFaults

\* A missing acknowledgement, a timer queue that others have filled, a clock
\* held for too long.
AllFaults == {"NACK", "LOST", "STUCK"}
Ops == [dir : {"read", "write"}, mode : {"poll", "intr"}, len : Lengths]

ASSUME I2cAssumption ==
  /\ Lengths \subseteq Nat \ {0} /\ Lengths # {}
  /\ Depth \in Nat \ {0} /\ QueueLength \in Nat \ {0} /\ MaxCalls \in Nat
  /\ U32 \in Nat /\ \A n \in Lengths : n + Depth < U32
  /\ Faults \subseteq AllFaults
  /\ "null" \notin Tasks /\ "free" \notin Tasks

VARIABLES
  ready,      \* is_ready
  locker,     \* wr_semaphore: "null", "free" or the task that holds it
  bits,       \* event bits that are set
  pended,     \* requests to set an event bit, queued for the timer task
  gic,        \* the interrupt is unmasked at the interrupt controller
  mask,       \* FI2C_INTR_MASK: interrupts that are open
  abrt,       \* an abort is latched
  addr, txf, rxf,  \* address bytes in the transmit FIFO, words in the FIFOs
  src,        \* the transfer the words in the FIFOs belong to
  status, tx_cnt, tx_total, rx_cnt, rx_total,  \* fields of FI2c
  pc, op, ret, calls,  \* the tasks
  tx_len, rx_len,      \* locals of the polling loops
  moved, total,  \* bytes of the last transfer: moved, and all of them
  live,       \* the buffer the interrupt handler uses is that of this call
  nack,       \* this call has met an abort
  used,       \* interrupt-mode transfers and long reads since Init
  trouble,    \* an abort or an event got lost on an interrupt-mode or write
  foreign     \* the handler has used a buffer of a call that has returned

osVars == <<ready, locker, bits, pended, gic>>
hwVars == <<mask, abrt, addr, txf, rxf, src>>
ctrlVars == <<status, tx_cnt, tx_total, rx_cnt, rx_total>>
taskVars == <<pc, op, ret, calls, tx_len, rx_len>>
histVars == <<moved, total, live, nack, used, trouble, foreign>>
vars == <<osVars, hwVars, ctrlVars, taskVars, histVars>>

Events == {"ABORTED", "READ_DONE", "WRITE_DONE"}
Locations == {"idle", "lock", "start", "rpush", "rdrain", "wpush", "stop",
              "intr", "istat", "begin", "setup", "wait", "mask", "give"}

FlagsOK ==
  /\ ready \in BOOLEAN /\ gic \in BOOLEAN /\ abrt \in BOOLEAN
  /\ live \in BOOLEAN /\ nack \in BOOLEAN /\ trouble \in BOOLEAN
  /\ foreign \in BOOLEAN

\* The type of every variable; the FIFOs hold no more than fits, and the
\* u32 counters of the handler stay in range.
TypeOK ==
  /\ FlagsOK
  /\ locker \in Tasks \union {"null", "free"}
  /\ bits \subseteq Events /\ pended \in Seq(Events)
  /\ mask \subseteq {"TX_EMPTY", "TX_ABRT", "RX_FULL"}
  /\ txf \in 0 .. Depth /\ rxf \in 0 .. Depth /\ addr \in 0 .. txf
  /\ status \in {"IDLE", "READ", "WRITE", "ERROR"}
  /\ tx_cnt \in 0 .. U32 - 1 /\ tx_total \in 0 .. U32 - 1
  /\ rx_cnt \in 0 .. U32 - 1 /\ rx_total \in 0 .. U32 - 1
  /\ pc \in [Tasks -> Locations] /\ op \in [Tasks -> Ops] /\ src \in Ops
  /\ ret \in [Tasks -> {"OK", "ERROR"}] /\ calls \in 0 .. MaxCalls
  /\ tx_len \in Nat /\ rx_len \in Nat /\ moved \in Nat /\ total \in Nat
  /\ used \subseteq Ops

Init ==
  /\ ready = FALSE /\ locker = "null" /\ bits = {} /\ pended = <<>>
  /\ gic = FALSE /\ mask = {} /\ abrt = FALSE
  /\ addr = 0 /\ txf = 0 /\ rxf = 0
  /\ status = "IDLE" /\ tx_cnt = 0 /\ tx_total = 0
  /\ rx_cnt = 0 /\ rx_total = 0
  /\ src = CHOOSE o \in Ops : TRUE
  /\ pc = [t \in Tasks |-> "idle"] /\ op = [t \in Tasks |-> src]
  /\ ret = [t \in Tasks |-> "OK"] /\ calls = 0
  /\ tx_len = 0 /\ rx_len = 0 /\ moved = 0 /\ total = 0
  /\ live = FALSE /\ nack = FALSE /\ used = {} /\ trouble = FALSE
  /\ foreign = FALSE

Goto(t, l) == pc' = [pc EXCEPT ![t] = l]
AllIdle == \A t \in Tasks : pc[t] = "idle"
Least(S) == CHOOSE x \in S : \A y \in S : x <= y

-----------------------------------------------------------------------------
(* Initialisation *)

\* FI2cDeInitialize clears the structure.
FI2cDeInitialize ==
  /\ status' = "IDLE" /\ tx_cnt' = 0 /\ tx_total' = 0
  /\ rx_cnt' = 0 /\ rx_total' = 0

\* FI2cSetAddress masks the interrupts of the controller and restarts it.
\* (The call for an instance that is ready, which replaces the mutex and the
\* event group before it is refused, is not made by the tasks modelled here.)
FFreeRTOSI2cInit ==
  /\ ~ready /\ AllIdle
  /\ locker' = "free" /\ bits' = {}
  /\ FI2cDeInitialize /\ ready' = TRUE
  /\ mask' = {} /\ addr' = 0 /\ txf' = 0 /\ rxf' = 0
  /\ moved' = 0 /\ total' = 0
  /\ used' = {} /\ trouble' = (pended # <<>>)
  /\ foreign' = FALSE
  /\ UNCHANGED <<pended, gic, abrt, src, taskVars, live, nack>>

\* The interrupt is masked and the abort cleared; the timer task may still
\* have requests for the deleted event group.
FFreeRTOSI2cDeinit ==
  /\ ready /\ AllIdle
  /\ gic' = FALSE /\ abrt' = FALSE
  /\ FI2cDeInitialize /\ ready' = FALSE
  /\ locker' = "null" /\ bits' = {}
  /\ moved' = 0 /\ total' = 0
  /\ UNCHANGED <<pended, mask, addr, txf, rxf, src, taskVars, live, nack,
                 used, trouble, foreign>>

-----------------------------------------------------------------------------
(* FFreeRTOSI2cTransfer *)

Call(t, o) ==
  /\ pc[t] = "idle" /\ ready /\ calls < MaxCalls
  /\ op' = [op EXCEPT ![t] = o] /\ calls' = calls + 1
  /\ Goto(t, "lock")
  /\ UNCHANGED <<osVars, hwVars, ctrlVars, ret, tx_len, rx_len, histVars>>

\* The mutex is taken; an interrupt-mode transfer opens the interrupt, on
\* which a request of an earlier transfer may be pending.
Noted(o) == o.mode = "intr" \/ (o.dir = "read" /\ o.len > Depth)

TakeMutex(t) ==
  /\ pc[t] = "lock" /\ locker = "free"
  /\ locker' = t /\ ret' = [ret EXCEPT ![t] = "OK"] /\ nack' = FALSE
  /\ gic' = (gic \/ op[t].mode = "intr")
  /\ used' = used \union {o \in {op[t]} : Noted(o)}
  /\ Goto(t, IF op[t].mode = "intr" THEN "intr" ELSE "start")
  /\ UNCHANGED <<ready, bits, pended, hwVars, ctrlVars, op, calls, tx_len,
                 rx_len, moved, total, live, trouble, foreign>>

\* FI2cMasterStartTrans: wait until the transmit FIFO is empty, set the
\* target address (which restarts the controller and empties the FIFOs),
\* push the memory address.
Started(o) ==
  /\ txf = 0 /\ ~abrt /\ src' = o
  /\ txf' = 1 /\ addr' = 1 /\ rxf' = 0
StartFailed ==
  \/ abrt /\ rxf' = 0 /\ UNCHANGED <<txf, addr, src>>
  \/ "STUCK" \in Faults /\ txf > 0 /\ UNCHANGED <<txf, addr, rxf, src>>

Fail(t) == ret' = [ret EXCEPT ![t] = "ERROR"]

-----------------------------------------------------------------------------
(* The polling modes *)

PollStart(t) ==
  /\ pc[t] = "start"
  /\ \/ /\ Started(op[t]) /\ UNCHANGED ret
        /\ Goto(t, IF op[t].dir = "read" THEN "rpush" ELSE "wpush")
        /\ moved' = 0 /\ total' = op[t].len
     \/ /\ StartFailed /\ Fail(t) /\ Goto(t, "give")
        /\ UNCHANGED <<moved, total>>
  /\ tx_len' = op[t].len /\ rx_len' = op[t].len
  /\ UNCHANGED <<osVars, mask, abrt, ctrlVars, op, calls, live, nack, used,
                 trouble, foreign>>

\* FI2cMasterReadPoll: the abort is checked on every turn, as many read
\* commands are pushed as seem to fit, ...
Mut_ReadAborted == FALSE
ReadAborted == abrt

Mut_ReadFail(t) == UNCHANGED ret
ReadFail(t) == Fail(t)

ReadPush(t) ==
  LET n == Least({tx_len, Depth - rxf, Depth - txf})
  IN /\ pc[t] = "rpush"
     /\ \/ /\ tx_len = 0 /\ rx_len = 0 /\ Goto(t, "stop")
           /\ UNCHANGED <<txf, tx_len, ret>>
        \/ /\ tx_len + rx_len > 0 /\ ReadAborted
           /\ ReadFail(t) /\ Goto(t, "give") /\ UNCHANGED <<txf, tx_len>>
        \/ /\ tx_len + rx_len > 0 /\ ~ReadAborted
           /\ txf' = IF abrt THEN txf ELSE txf + n
           /\ tx_len' = tx_len - n
           /\ Goto(t, "rdrain") /\ UNCHANGED ret
     /\ UNCHANGED <<osVars, mask, abrt, addr, rxf, src, ctrlVars, op, calls,
                    rx_len, histVars>>

\* ... and the bytes that have come are read.
ReadDrain(t) ==
  LET n == Least({rx_len, rxf})
  IN /\ pc[t] = "rdrain"
     /\ rxf' = rxf - n /\ rx_len' = rx_len - n /\ moved' = moved + n
     /\ Goto(t, "rpush")
     /\ UNCHANGED <<osVars, mask, abrt, addr, txf, src, ctrlVars, op, ret,
                    calls, tx_len, total, live, nack, used, trouble, foreign>>

\* FI2cMasterWritePoll: no abort is looked for after the last byte.
WritePush(t) ==
  LET n == Least({tx_len, Depth - txf})
  IN /\ pc[t] = "wpush"
     /\ \/ /\ tx_len = 0 /\ Goto(t, "stop")
           /\ UNCHANGED <<txf, tx_len, ret, moved>>
        \/ /\ tx_len > 0 /\ abrt /\ Fail(t) /\ Goto(t, "give")
           /\ UNCHANGED <<txf, tx_len, moved>>
        \/ /\ tx_len > 0 /\ ~abrt
           /\ txf' = txf + n /\ tx_len' = tx_len - n /\ moved' = moved + n
           /\ UNCHANGED <<pc, ret>>
     /\ UNCHANGED <<osVars, mask, abrt, addr, rxf, src, ctrlVars, op, calls,
                    rx_len, total, live, nack, used, trouble, foreign>>

\* FI2cMasterStopTrans: wait for the end of the transmission, empty the
\* receive FIFO.
StopTrans(t) ==
  /\ pc[t] = "stop"
  /\ \/ txf = 0 /\ rxf' = 0 /\ UNCHANGED ret
     \/ "STUCK" \in Faults /\ txf > 0 /\ Fail(t) /\ UNCHANGED rxf
  /\ Goto(t, "give")
  /\ UNCHANGED <<osVars, mask, abrt, addr, txf, src, ctrlVars, op, calls,
                 tx_len, rx_len, histVars>>

-----------------------------------------------------------------------------
(* The interrupt modes *)

Busy == \/ gic /\ mask # {} /\ (abrt \/ rxf > 0 \/ txf = 0)
        \/ txf > 0

\* FI2cMasterReadIntr and FI2cMasterWriteIntr: an instance in STATUS_ERROR
\* is refused, but the caller goes on to wait for events.
CheckStatus(t) ==
  /\ pc[t] = "intr"
  /\ IF status = "ERROR" THEN Fail(t) /\ Goto(t, "wait")
                         ELSE Goto(t, "istat") /\ UNCHANGED ret
  /\ trouble' = (trouble \/ status = "ERROR")
  /\ UNCHANGED <<osVars, hwVars, ctrlVars, op, calls, tx_len, rx_len, moved,
                 total, live, nack, used, foreign>>

\* Another status is waited for half a second and then ignored, also when it
\* has become STATUS_ERROR meanwhile.
AwaitStatus(t) ==
  /\ pc[t] = "istat" /\ (status = "IDLE" \/ ~Busy) /\ Goto(t, "begin")
  /\ UNCHANGED <<osVars, hwVars, ctrlVars, op, ret, calls, tx_len, rx_len,
                 histVars>>

\* The buffer is entered and the transfer started; a read keeps the tx_cnt
\* it finds, and has its status set even when the start has failed.
BeginTrans(t) ==
  LET o == op[t]
  IN /\ pc[t] = "begin"
     /\ tx_total' = o.len
     /\ IF o.dir = "read" THEN rx_total' = o.len /\ rx_cnt' = 0
                          ELSE UNCHANGED <<rx_total, rx_cnt>>
     /\ tx_cnt' = IF o.dir = "read" THEN tx_cnt ELSE 0
     /\ \/ /\ Started(o) /\ Goto(t, "setup")
           /\ moved' = 0 /\ total' = o.len
           /\ UNCHANGED <<status, ret, trouble>>
        \/ /\ StartFailed /\ Fail(t) /\ Goto(t, "wait")
           /\ status' = IF o.dir = "read" THEN "READ" ELSE status
           /\ trouble' = TRUE
           /\ UNCHANGED <<moved, total>>
     /\ live' = TRUE
     /\ UNCHANGED <<osVars, mask, abrt, op, calls, tx_len, rx_len, nack,
                    used, foreign>>

\* The status is set, FI2cMasterSetupIntr clears a latched abort and opens
\* the interrupts.
SetupIntr(t) ==
  /\ pc[t] = "setup"
  /\ status' = IF op[t].dir = "read" THEN "READ" ELSE "WRITE"
  /\ abrt' = FALSE
  /\ mask' = mask \union {"TX_EMPTY", "TX_ABRT"}
                  \union IF op[t].dir = "read" THEN {"RX_FULL"} ELSE {}
  /\ Goto(t, "wait")
  /\ UNCHANGED <<osVars, addr, txf, rxf, src, tx_cnt, tx_total, rx_cnt,
                 rx_total, op, ret, calls, tx_len, rx_len, histVars>>

\* xEventGroupWaitBits, for ever: the bits it waits for are cleared.
DoneBit(o) == IF o.dir = "read" THEN "READ_DONE" ELSE "WRITE_DONE"

WaitBits(t) ==
  LET want == {"ABORTED", DoneBit(op[t])}
  IN /\ pc[t] = "wait" /\ bits \intersect want # {}
     /\ bits' = bits \ want
     /\ ret' = IF "ABORTED" \in bits THEN [ret EXCEPT ![t] = "ERROR"] ELSE ret
     /\ Goto(t, "mask")
     /\ UNCHANGED <<ready, locker, pended, gic, hwVars, ctrlVars, op, calls,
                    tx_len, rx_len, histVars>>

\* FI2cOsResetInterrupt.
MaskIrq(t) ==
  /\ pc[t] = "mask" /\ gic' = FALSE /\ Goto(t, "give")
  /\ UNCHANGED <<ready, locker, bits, pended, hwVars, ctrlVars, op, ret,
                 calls, tx_len, rx_len, histVars>>

GiveMutex(t) ==
  /\ pc[t] = "give" /\ locker = t
  /\ locker' = "free" /\ live' = FALSE /\ Goto(t, "idle")
  /\ UNCHANGED <<ready, bits, pended, gic, hwVars, ctrlVars, op, ret, calls,
                 tx_len, rx_len, moved, total, nack, used, trouble, foreign>>

-----------------------------------------------------------------------------
(* FI2cMasterIntrHandler *)

\* The callback of the application queues an event; a full queue loses it.
Room == Len(pended) < QueueLength
MayLose == "LOST" \in Faults \/ ~Room

Raise(e) ==
  \/ Room /\ pended' = Append(pended, e) /\ UNCHANGED trouble
  \/ MayLose /\ trouble' = TRUE /\ UNCHANGED pended

IntrAbort ==
  /\ gic /\ "TX_ABRT" \in mask /\ abrt
  /\ status' = "ERROR" /\ mask' = {} /\ abrt' = FALSE
  /\ trouble' = TRUE
  /\ \/ Room /\ pended' = Append(pended, "ABORTED")
     \/ MayLose /\ UNCHANGED pended
  /\ UNCHANGED <<ready, locker, bits, gic, addr, txf, rxf, src, tx_cnt,
                 tx_total, rx_cnt, rx_total, taskVars, moved, total, live,
                 nack, used, foreign>>

RxFull == "RX_FULL" \in mask /\ rxf > 0

\* FI2cMasterIntrRxFullHandler takes all bytes there are; READ_DONE is
\* raised whether or not these were the last.
LastByte == rx_cnt + rxf >= rx_total

IntrRxFull ==
  /\ gic /\ ~("TX_ABRT" \in mask /\ abrt) /\ RxFull
  /\ rxf' = 0
  /\ moved' = IF live THEN moved + rxf ELSE moved
  /\ foreign' = (foreign \/ ~live)
  /\ rx_cnt' = IF LastByte THEN 0 ELSE rx_cnt + rxf
  /\ status' = IF LastByte THEN "IDLE" ELSE status
  /\ mask' = IF LastByte THEN mask \ {"RX_FULL"} ELSE mask
  /\ Raise("READ_DONE")
  /\ UNCHANGED <<ready, locker, bits, gic, abrt, addr, txf, src, tx_cnt,
                 tx_total, rx_total, taskVars, total, live, nack, used>>

\* FI2cMasterIntrTxEmptyHandler pushes data or read commands; WRITE_DONE is
\* raised whether or not these were the last, and for reads as well.
BufLen == (tx_total - tx_cnt) % U32

Mut_TxRound == Least({BufLen, Depth - rxf, Depth - txf}) + 1
TxRound == Least({BufLen, Depth - rxf, Depth - txf})

\* With everything pushed the interrupt is closed.
Mut_MaskTx(over) == mask
MaskTx(over) == IF over THEN mask \ {"TX_EMPTY"} ELSE mask

Mut_TxEvent == IF status = "READ" THEN "READ_DONE" ELSE "WRITE_DONE"
TxEvent == "WRITE_DONE"

IntrTxEmpty ==
  LET n == TxRound
      over == n = BufLen
  IN /\ gic /\ ~("TX_ABRT" \in mask /\ abrt) /\ ~RxFull
     /\ "TX_EMPTY" \in mask /\ txf = 0
     /\ txf' = IF abrt THEN txf ELSE n
     /\ moved' = IF live /\ status = "WRITE" THEN moved + n ELSE moved
     /\ foreign' = (foreign \/ (n > 0 /\ ~live)
                            \/ (n > 0 /\ status \notin {"READ", "WRITE"}))
     /\ tx_cnt' = IF over THEN 0 ELSE (tx_cnt + n) % U32
     /\ status' = IF over /\ status = "WRITE" THEN "IDLE" ELSE status
     /\ mask' = MaskTx(over)
     /\ Raise(TxEvent)
     /\ UNCHANGED <<ready, locker, bits, gic, abrt, addr, rxf, src, tx_total,
                    rx_cnt, rx_total, taskVars, total, live, nack, used>>

\* The timer task serves the oldest request.
SetBits ==
  /\ pended # <<>> /\ pended' = Tail(pended)
  /\ bits' = IF ready THEN bits \union {Head(pended)} ELSE bits
  /\ UNCHANGED <<ready, locker, gic, hwVars, ctrlVars, taskVars, histVars>>

-----------------------------------------------------------------------------
(* The controller and the slave (external) *)

\* A word is sent; a read command fetches a byte, which is lost when the
\* receive FIFO is full.
BusStep ==
  /\ txf > 0 /\ txf' = txf - 1
  /\ addr' = IF addr > 0 THEN addr - 1 ELSE 0
  /\ IF addr = 0 /\ src.dir = "read"
       THEN rxf' = IF rxf < Depth THEN rxf + 1 ELSE rxf
       ELSE UNCHANGED rxf
  /\ UNCHANGED <<osVars, mask, abrt, src, ctrlVars, taskVars, moved, total,
                 live, nack, used, trouble, foreign>>

\* A byte is not acknowledged.
BusAbort ==
  /\ "NACK" \in Faults /\ txf > 0 /\ ~abrt
  /\ abrt' = TRUE /\ txf' = 0 /\ addr' = 0 /\ nack' = TRUE
  /\ trouble' = (trouble \/ src.mode = "intr" \/ src.dir = "write")
  /\ UNCHANGED <<osVars, mask, rxf, src, ctrlVars, taskVars, moved, total,
                 live, used, foreign>>

-----------------------------------------------------------------------------
Task(t) ==
  \/ TakeMutex(t) \/ PollStart(t) \/ ReadPush(t) \/ ReadDrain(t)
  \/ WritePush(t) \/ StopTrans(t) \/ CheckStatus(t) \/ AwaitStatus(t)
  \/ BeginTrans(t) \/ SetupIntr(t) \/ WaitBits(t) \/ MaskIrq(t)
  \/ GiveMutex(t)

FI2cMasterIntrHandler == IntrAbort \/ IntrRxFull \/ IntrTxEmpty

Next ==
  \/ FFreeRTOSI2cInit \/ FFreeRTOSI2cDeinit
  \/ \E t \in Tasks : (\E o \in Ops : Call(t, o)) \/ Task(t)
  \/ FI2cMasterIntrHandler \/ SetBits \/ BusStep \/ BusAbort

Spec == Init /\ [][Next]_vars

\* Ready tasks and the timer task are scheduled, a pending interrupt is
\* taken, the bus moves.
Fairness ==
  /\ \A t \in Tasks : WF_vars(Task(t))
  /\ WF_vars(FI2cMasterIntrHandler) /\ WF_vars(SetBits) /\ WF_vars(BusStep)
FairSpec == Spec /\ Fairness

-----------------------------------------------------------------------------
(* Properties *)

\* What the driver can be used for: in the interrupt modes either only reads
\* of one byte or only writes that fit the FIFO, and no read that does not
\* fit the FIFO.
SafeUse ==
  /\ \A o \in used : o.len <= Depth
  /\ \/ \A o \in used : o.dir = "read" /\ o.len = 1
     \/ \A o \in used : o.dir = "write"

\* Within these limits, and until an interrupt-mode transfer or a write is
\* aborted, the driver keeps the promise of BlockingTransfer; polled reads
\* keep it although they are aborted.
InTransfer ==
  \E t \in Tasks : pc[t] \in {"rpush", "rdrain", "wpush", "stop", "setup",
                               "wait"}
Contract == INSTANCE BlockingTransfer WITH
  None <- "free",
  owner <- IF locker \in Tasks THEN locker ELSE "free",
  busy <- InTransfer,
  ok <- locker \in Tasks => ret[locker] = "OK",
  void <- trouble \/ ~SafeUse
ImplementsContract == Contract!Spec

\* Within the same limits the interrupt handler never uses the buffer of a
\* call that has returned, nor pushes words that belong to no transfer.
NoForeignAccess == foreign => trouble \/ ~SafeUse

\* A polled read that was not acknowledged is never reported as a success.
ReadAbortReported ==
  [][\A t \in Tasks :
       GiveMutex(t) /\ nack /\ op[t].dir = "read" /\ op[t].mode = "poll"
         => ret[t] # "OK"]_vars

\* Within the limits above every transfer ends and the mutex is given back.
TransferEnds ==
  \A t \in Tasks : locker = t ~> locker # t \/ trouble \/ ~SafeUse

\* fi2c_os.c: after each transfer, failed or not, the next one is enabled.
MutexGivenBack == \A t \in Tasks : locker = t ~> locker # t
=============================================================================
