------------------------------- MODULE FSpim -------------------------------
(***************************************************************************)
(* The SPI master driver: FFreeRTOSSpimTransfer and its helpers            *)
(* (fspim_os.c), run by several tasks under one mutex, on top of the       *)
(* interrupt-driven transfer of fspim.c and fspim_intr.c.                  *)
(*                                                                         *)
(* A task starts a phase (transmit, then receive), and blocks on an event  *)
(* group for at most five seconds; the interrupt moves words between the   *)
(* buffers and the FIFOs and, when as many words are back as were to be    *)
(* sent, acknowledges the transfer.  xEventGroupSetBitsFromISR only queues *)
(* the request: the FreeRTOS timer task sets the bit later (`pended').     *)
(*                                                                         *)
(* Words have one byte (n_bytes is FSPIM_1_BYTE) and are counted, their    *)
(* values are not modelled.  The interrupt runs on the core of the tasks,  *)
(* so no task moves until it returns, but the controller shifts words      *)
(* between the handler's FSpimFifoRx and FSpimFifoTx.                      *)
(***************************************************************************)
EXTENDS Integers, FiniteSets

CONSTANTS
  Tasks,       \* tasks that share the instance
  Lengths,     \* lengths of the phases, in words
  Depth,       \* tx_fifo_len and rx_fifo_len
  MaxCalls,    \* bound on the transfers of a task
  Faults,      \* whether the controller or the timer queue may fail
  Late         \* whether a wait may time out before its transfer has ended

NoBuf == -1    \* a message without a buffer for the phase

ASSUME SpimAssumption ==
  /\ Lengths \subseteq Nat /\ Depth \in Nat \ {0} /\ MaxCalls \in Nat
  /\ Faults \in BOOLEAN /\ Late \in BOOLEAN
  /\ "null" \notin Tasks /\ "free" \notin Tasks

VARIABLES
  ready,      \* ctrl.is_ready
  locker,     \* "null", "free" or the task that holds the mutex
  evt,        \* whether the event group exists
  bit,        \* its FFREERTOS_TRANS_DONE bit
  pended,     \* a request to set the bit is queued for the timer task
  enabled, txe, err_irq,  \* controller enabled, TXEIS and error masks open
  cs,         \* chip selection
  txf, rxf,   \* words in the FIFOs
  errflag,    \* TXOIR, RXOIR or RXUIR is set
  isr,        \* what the interrupt handler does next: "off" or "tx"
  tx_count, rx_count, length,  \* fields of FSpim
  pc, msg, err, calls,         \* the tasks
  failed,     \* an assertion or a memory access has failed
  misused     \* the instance was deinitialised under a transfer

osVars == <<ready, locker, evt, bit, pended>>
hwVars == <<enabled, txe, err_irq, cs, txf, rxf, errflag, isr>>
ctrlVars == <<tx_count, rx_count, length>>
taskVars == <<pc, msg, err, calls>>
vars == <<osVars, hwVars, ctrlVars, taskVars, failed, misused>>

Locations == {"idle", "lock", "tx", "txwait", "rx", "rxwait", "end"}
Errors == {"OK", "NOT_READY", "TIMEOUT"}
Message == [tx : Lengths \union {NoBuf}, rx : Lengths \union {NoBuf}]

FlagsOK ==
  /\ ready \in BOOLEAN /\ evt \in BOOLEAN /\ bit \in BOOLEAN
  /\ pended \in BOOLEAN /\ enabled \in BOOLEAN /\ txe \in BOOLEAN
  /\ err_irq \in BOOLEAN /\ cs \in BOOLEAN /\ errflag \in BOOLEAN
  /\ failed \in BOOLEAN /\ misused \in BOOLEAN

\* The type of every variable; no FIFO holds more words than fit.
TypeOK ==
  /\ FlagsOK
  /\ locker \in Tasks \union {"null", "free"}
  /\ txf \in 0 .. Depth /\ rxf \in 0 .. Depth
  /\ isr \in {"off", "tx"}
  /\ length \in Lengths \union {0}
  /\ tx_count \in 0 .. length /\ rx_count \in 0 .. length
  /\ pc \in [Tasks -> Locations] /\ msg \in [Tasks -> Message]
  /\ err \in [Tasks -> Errors] /\ calls \in [Tasks -> 0 .. MaxCalls]

Init ==
  /\ ready = FALSE /\ locker = "null" /\ evt = FALSE
  /\ bit = FALSE /\ pended = FALSE
  /\ enabled = FALSE /\ txe = FALSE /\ err_irq = FALSE /\ cs = FALSE
  /\ txf = 0 /\ rxf = 0 /\ errflag = FALSE /\ isr = "off"
  /\ tx_count = 0 /\ rx_count = 0 /\ length = 0
  /\ pc = [t \in Tasks |-> "idle"]
  /\ msg = [t \in Tasks |-> [tx |-> NoBuf, rx |-> NoBuf]]
  /\ err = [t \in Tasks |-> "OK"] /\ calls = [t \in Tasks |-> 0]
  /\ failed = FALSE /\ misused = FALSE

-----------------------------------------------------------------------------
(* Initialisation, in a critical section *)

\* FSpimReset: disabling the controller empties its FIFOs, its interrupts are
\* masked, and FSpimSetSpeed leaves it enabled.
FSpimReset ==
  /\ enabled' = TRUE /\ txe' = FALSE /\ err_irq' = FALSE
  /\ txf' = 0 /\ rxf' = 0 /\ errflag' = FALSE

\* FSpimDeInitialize clears the whole structure.
FSpimDeInitialize == tx_count' = 0 /\ rx_count' = 0 /\ length' = 0

\* The application initialises when no transfer is running.
FFreeRTOSSpimInit ==
  /\ ~ready /\ \A t \in Tasks : pc[t] = "idle"
  /\ FSpimDeInitialize /\ FSpimReset /\ ready' = TRUE
  /\ failed' = (failed \/ locker # "null" \/ evt)
  /\ locker' = "free" /\ evt' = TRUE /\ bit' = FALSE
  /\ UNCHANGED <<pended, cs, isr, taskVars, misused>>

\* The mutex and the event group are deleted whoever uses them, and the
\* interrupts of the controller stay as they are.  A request that the timer
\* task has not served holds a handle to freed memory.
Mut_FFreeRTOSSpimDeInit ==
  /\ ready
  /\ FSpimDeInitialize /\ ready' = FALSE
  /\ evt' = FALSE /\ bit' = FALSE /\ pended' = FALSE
  /\ failed' = (failed \/ pended)
  /\ misused' = (misused \/ \E t \in Tasks : pc[t] # "idle")
  /\ UNCHANGED <<locker, hwVars, taskVars>>
FFreeRTOSSpimDeInit ==
  /\ ready
  /\ FSpimDeInitialize /\ ready' = FALSE
  /\ locker' = "null" /\ evt' = FALSE /\ bit' = FALSE /\ pended' = FALSE
  /\ failed' = (failed \/ pended)
  /\ misused' = (misused \/ \E t \in Tasks : pc[t] # "idle")
  /\ UNCHANGED <<hwVars, taskVars>>

-----------------------------------------------------------------------------
(* FFreeRTOSSpimTransfer *)

Goto(t, l) == pc' = [pc EXCEPT ![t] = l]

\* An application calls it with a message.
Call(t, m) ==
  /\ pc[t] = "idle" /\ ready /\ calls[t] < MaxCalls
  /\ msg' = [msg EXCEPT ![t] = m]
  /\ calls' = [calls EXCEPT ![t] = @ + 1]
  /\ Goto(t, "lock")
  /\ UNCHANGED <<osVars, hwVars, ctrlVars, err, failed, misused>>

\* FSpimOsTakeSema and the chip selection.  A mutex that has been deleted
\* fails the assertion or is used after it was freed.
FSpimOsTakeSema(t) ==
  /\ pc[t] = "lock" /\ ~failed
  /\ \/ /\ locker = "free" /\ locker' = t
        /\ cs' = TRUE /\ err' = [err EXCEPT ![t] = "OK"]
        /\ Goto(t, "tx") /\ UNCHANGED failed
     \/ /\ locker = "null" /\ failed' = TRUE
        /\ UNCHANGED <<locker, cs, err, pc>>
  /\ UNCHANGED <<ready, evt, bit, pended, enabled, txe, err_irq, txf, rxf,
                 errflag, isr, ctrlVars, msg, calls, misused>>

\* FSpimTransferByInterrupt: the controller is disabled (its FIFOs are
\* emptied), the counters are set, the interrupts unmasked.  The event group
\* keeps the bit it has.
FSpimTransferByInterrupt(len) ==
  /\ tx_count' = 0 /\ rx_count' = 0 /\ length' = len
  /\ enabled' = TRUE /\ txe' = TRUE /\ err_irq' = TRUE
  /\ txf' = 0 /\ rxf' = 0 /\ errflag' = FALSE

\* A phase is skipped, refused or started.
Phase(t, len, wait, next) ==
  \/ /\ len = NoBuf \/ err[t] # "OK"
     /\ Goto(t, next)
     /\ UNCHANGED <<hwVars, ctrlVars, err>>
  \/ /\ len # NoBuf /\ err[t] = "OK" /\ ~ready
     /\ err' = [err EXCEPT ![t] = "NOT_READY"] /\ Goto(t, next)
     /\ UNCHANGED <<hwVars, ctrlVars>>
  \/ /\ len # NoBuf /\ err[t] = "OK" /\ ready
     /\ FSpimTransferByInterrupt(len) /\ Goto(t, wait)
     /\ UNCHANGED <<cs, isr, err>>

FSpimOsTx(t) ==
  /\ pc[t] = "tx" /\ Phase(t, msg[t].tx, "txwait", "rx")
  /\ UNCHANGED <<osVars, msg, calls, failed, misused>>

FSpimOsRx(t) ==
  /\ pc[t] = "rx" /\ Phase(t, msg[t].rx, "rxwait", "end")
  /\ UNCHANGED <<osVars, msg, calls, failed, misused>>

AfterWait(t) == Goto(t, IF pc[t] = "txwait" THEN "rx" ELSE "end")

\* FSpimOsWaitTransDone finds the bit, and clears it, ...
WaitDone(t) ==
  /\ pc[t] \in {"txwait", "rxwait"} /\ evt /\ bit
  /\ bit' = FALSE /\ AfterWait(t)
  /\ UNCHANGED <<ready, locker, evt, pended, hwVars, ctrlVars, msg, err,
                 calls, failed, misused>>

\* ... or gives up after five seconds, or because the event group is
\* deleted.  The transfer is not stopped.  Unless Late, five seconds are
\* more than a transfer needs that can still end.
Hopeless == ~bit /\ ~pended /\ ~(txe /\ cs)

Mut_TimedOut == ~evt
TimedOut == ~evt \/ Hopeless \/ (Late /\ ~bit)

WaitTimeout(t) ==
  /\ pc[t] \in {"txwait", "rxwait"} /\ TimedOut
  /\ err' = [err EXCEPT ![t] = "TIMEOUT"] /\ AfterWait(t)
  /\ UNCHANGED <<osVars, hwVars, ctrlVars, msg, calls, failed, misused>>

\* Chip selection off (refused when not ready) and FSpimOsGiveSema, whose
\* assertion fails when the mutex has been deleted.
FSpimOsGiveSema(t) ==
  /\ pc[t] = "end" /\ ~failed
  /\ cs' = (cs /\ ~ready)
  /\ \/ /\ locker = t /\ locker' = "free" /\ Goto(t, "idle")
        /\ UNCHANGED failed
     \/ locker = "null" /\ failed' = TRUE /\ UNCHANGED <<locker, pc>>
  /\ UNCHANGED <<ready, evt, bit, pended, enabled, txe, err_irq, txf, rxf,
                 errflag, isr, ctrlVars, msg, err, calls, misused>>

-----------------------------------------------------------------------------
(* The controller (external) and the interrupt *)

\* The controller shifts a word out and one in, while a slave is selected.
Shift ==
  /\ enabled /\ cs /\ txf > 0
  /\ txf' = txf - 1 /\ rxf' = rxf + 1
  /\ UNCHANGED <<osVars, enabled, txe, err_irq, cs, errflag, isr, ctrlVars,
                 taskVars, failed, misused>>

\* It reports an overflow or underflow.
FifoFault ==
  /\ Faults /\ enabled /\ err_irq /\ txf + rxf > 0 /\ ~errflag
  /\ errflag' = TRUE
  /\ UNCHANGED <<osVars, enabled, txe, err_irq, cs, txf, rxf, isr, ctrlVars,
                 taskVars, failed, misused>>

Least(S) == CHOOSE x \in S : \A y \in S : x <= y

\* The transmit FIFO is at or below the level FSpimTransferByInterrupt sets.
TxEmpty == txf <= Least({Depth \div 2 + 1, length})

Pending == enabled /\ isr = "off" /\ ((txe /\ TxEmpty) \/ (err_irq /\ errflag))

\* How many words FSpimFifoRx takes from its FIFO, ...
FSpimGetRxRound == Least({length - rx_count, rxf})

\* ... and FSpimFifoTx puts into its FIFO: those left, those that fit the
\* FIFO, and those whose answers will fit the receive FIFO.
Mut_FSpimGetTxRound == Least({length - tx_count, Depth - txf})
FSpimGetTxRound ==
  Least({length - tx_count, Depth - txf, Depth - (tx_count - rx_count)})

\* The test that ends a transfer, when FSpimFifoRx has read rx words.
Mut_AllBack(rx) == tx_count >= length
AllBack(rx) == rx_count + rx >= length

\* FSpimInterruptHandler finds an error, resets and does not wake the task.
IntrError ==
  /\ Pending /\ ready /\ errflag
  /\ FSpimReset
  /\ UNCHANGED <<osVars, cs, isr, ctrlVars, taskVars, failed, misused>>

\* FSpimFifoRx; with all words back, TXEIS is masked and
\* FSpimOsAckTransDone queues the event, which fails when the queue of the
\* timer task is full.
IntrRx ==
  LET rx == FSpimGetRxRound
  IN /\ Pending /\ ready /\ ~errflag
     /\ rx_count' = rx_count + rx /\ rxf' = rxf - rx
     /\ \/ /\ AllBack(rx) /\ txe' = FALSE
           /\ \/ pended' = TRUE
              \/ Faults /\ UNCHANGED pended
           /\ UNCHANGED isr
        \/ /\ ~AllBack(rx) /\ isr' = "tx"
           /\ UNCHANGED <<txe, pended>>
     /\ UNCHANGED <<ready, locker, evt, bit, enabled, err_irq, cs, txf,
                    errflag, tx_count, length, taskVars, failed, misused>>

\* FSpimFifoTx: the handler was entered with TXEIR set.
IntrTx ==
  /\ isr = "tx" /\ isr' = "off"
  /\ tx_count' = tx_count + FSpimGetTxRound
  /\ txf' = txf + FSpimGetTxRound
  /\ UNCHANGED <<osVars, enabled, txe, err_irq, cs, rxf, errflag, rx_count,
                 length, taskVars, failed, misused>>

\* The handler of a deinitialised instance works on a cleared structure.
IntrUnready ==
  /\ Pending /\ ~ready /\ ~failed /\ failed' = TRUE
  /\ UNCHANGED <<osVars, hwVars, ctrlVars, taskVars, misused>>

\* The timer task serves the request.
SetBits ==
  /\ pended /\ pended' = FALSE /\ bit' = TRUE
  /\ UNCHANGED <<ready, locker, evt, hwVars, ctrlVars, taskVars, failed, misused>>

-----------------------------------------------------------------------------
Task(t) ==
  \/ FSpimOsTakeSema(t) \/ FSpimOsTx(t) \/ WaitDone(t) \/ WaitTimeout(t)
  \/ FSpimOsRx(t) \/ FSpimOsGiveSema(t)

FSpimInterruptHandler == IntrError \/ IntrRx \/ IntrTx \/ IntrUnready

\* Tasks run while the interrupt handler does not.
Scheduled ==
  /\ isr = "off"
  /\ \/ FFreeRTOSSpimInit \/ FFreeRTOSSpimDeInit \/ SetBits
     \/ \E t \in Tasks : (\E m \in Message : Call(t, m)) \/ Task(t)

Next == Scheduled \/ Shift \/ FifoFault \/ FSpimInterruptHandler

Spec == Init /\ [][Next]_vars

\* Ready tasks and the timer task are scheduled, a pending interrupt is
\* taken, an enabled controller shifts, and time passes.
Fairness ==
  /\ \A t \in Tasks : WF_vars(isr = "off" /\ Task(t))
  /\ WF_vars(FSpimInterruptHandler) /\ WF_vars(Shift)
  /\ WF_vars(isr = "off" /\ SetBits)
FairSpec == Spec /\ Fairness

-----------------------------------------------------------------------------
(* Properties *)

\* The promise of BlockingTransfer: one transfer at a time, words move only
\* while its owner waits, and a phase that is not reported as failed has
\* moved all its words.  It is void once the instance was deinitialised
\* under a transfer.
Waiting == \E t \in Tasks : pc[t] \in {"txwait", "rxwait"}
Contract == INSTANCE BlockingTransfer WITH
  None <- "free",
  owner <- IF locker \in Tasks THEN locker ELSE "free",
  busy <- Waiting,
  ok <- locker \in Tasks => err[locker] = "OK",
  moved <- rx_count, total <- length,
  void <- misused
ImplementsContract == Contract!Spec

\* A wait that ends well ends after the last word of its own phase: the bit
\* it finds was not left by an earlier transfer.
SuccessMeansDone ==
  [][\A t \in Tasks : WaitDone(t) => rx_count >= length]_vars

\* The FIFOs cannot overflow: the words on their way, sent and not yet read
\* back, fit the receive FIFO.
InFlightFits ==
  txe /\ ~misused =>
    tx_count - rx_count = txf + rxf /\ txf + rxf <= Depth

\* While no task is in a transfer the interrupt handler has no word left to
\* move: it does not touch a buffer its owner has got back, and the chip
\* selection is not dropped in the middle of a word.
BuffersReturned ==
  (~misused /\ \A t \in Tasks : pc[t] \in {"idle", "lock"}) =>
    ~(txe /\ rx_count < length) /\ txf = 0

\* Every call of FFreeRTOSSpimTransfer returns, to the task that waits for the
\* event as to those that wait for the mutex it holds, even when the
\* controller was reset by an error interrupt, the event was lost or the
\* instance has been deinitialised under them (unless the program has failed
\* by then).
CallReturns ==
  \A t \in Tasks : pc[t] # "idle" ~> failed \/ pc[t] = "idle"

\* No assertion on the mutex or the event group fails and neither is used
\* after it has been deleted, unless that was done under a transfer.
AssertsHold == failed => misused
=============================================================================
