---------------------------- MODULE FSpim_proofs ----------------------------
(***************************************************************************)
(* The SPI master driver for any number of tasks and calls, any lengths    *)
(* and any FIFO depth: its FIFOs cannot overflow, a task that gets its     *)
(* buffers back gets them for good, and the driver implements              *)
(* BlockingTransfer.                                                       *)
(*                                                                         *)
(* What the timeout has nothing to do with (LockInv, FifoInv) is proved    *)
(* for every value of Late; the rest needs that five seconds are enough    *)
(* for a transfer that can still end (~Late), and spim_late shows why.     *)
(***************************************************************************)
EXTENDS FSpim, TLAPS

Inside == {"tx", "txwait", "rx", "rxwait", "end"}

\* The mutex exists while the instance is ready, and its holder is the task
\* inside a transfer; a misused instance never becomes ready again, because
\* some task never returns.
LockInv ==
  /\ (ready <=> evt) /\ (ready <=> locker # "null")
  /\ misused => ~ready /\ \E t \in Tasks : pc[t] # "idle"
  /\ \A t \in Tasks :
       /\ pc[t] \in Inside => locker = t \/ misused
       /\ locker = t => pc[t] \in Inside
       /\ pc[t] # "idle" /\ ~ready => misused
  /\ isr = "tx" => ready /\ txe

\* The words on their way are those in the FIFOs, and there are none when no
\* transfer is running.
FifoInv ==
  /\ txf + rxf <= Depth /\ rx_count <= tx_count
  /\ ready /\ txe => tx_count - rx_count = txf + rxf
  /\ ready /\ ~txe => txf = 0 /\ rxf = 0 /\ ~errflag

\* When waits last long enough: a transfer runs, or its event is on its way
\* or set, only while a task waits for it.
OnTimeInv ==
  /\ ~ready => ~bit /\ ~pended
  /\ ~ready /\ ~misused => ~txe /\ ~errflag /\ txf = 0 /\ rxf = 0
  /\ ready /\ ~Waiting => ~bit /\ ~pended /\ ~txe
  /\ ready => ~(bit /\ pended)
  /\ ready /\ (bit \/ pended) => ~txe /\ rx_count = length
  /\ ready /\ locker # "free" => cs
  /\ failed => misused

IInv == TypeOK /\ LockInv /\ FifoInv

\* The smallest of two or three numbers.
LEMMA LeastOfTwo ==
  ASSUME NEW a \in Int, NEW b \in Int
  PROVE  /\ Least({a, b}) \in {a, b}
         /\ Least({a, b}) <= a /\ Least({a, b}) <= b
<1>1. \E x \in {a, b} : \A y \in {a, b} : x <= y
  <2>1. CASE a <= b
    BY <2>1
  <2>2. CASE b <= a
    BY <2>2
  <2> QED
    BY <2>1, <2>2
<1>2. Least({a, b}) \in {a, b} /\ \A y \in {a, b} : Least({a, b}) <= y
  BY <1>1 DEF Least
<1> QED
  BY <1>2

LEMMA LeastOfThree ==
  ASSUME NEW a \in Int, NEW b \in Int, NEW c \in Int
  PROVE  /\ Least({a, b, c}) \in {a, b, c} /\ Least({a, b, c}) <= a
         /\ Least({a, b, c}) <= b /\ Least({a, b, c}) <= c
<1>1. \E x \in {a, b, c} : \A y \in {a, b, c} : x <= y
  <2>1. CASE a <= b /\ a <= c
    BY <2>1
  <2>2. CASE b <= a /\ b <= c
    BY <2>2
  <2>3. CASE c <= a /\ c <= b
    BY <2>3
  <2> QED
    BY <2>1, <2>2, <2>3
<1>2. /\ Least({a, b, c}) \in {a, b, c}
      /\ \A y \in {a, b, c} : Least({a, b, c}) <= y
  BY <1>1 DEF Least
<1> QED
  BY <1>2

\* FSpimGetRxRound takes all that is there, or all that is missing.
LEMMA RxRound ==
  ASSUME TypeOK
  PROVE  /\ FSpimGetRxRound \in 0 .. rxf
         /\ FSpimGetRxRound <= length - rx_count
         /\ FSpimGetRxRound = rxf \/ FSpimGetRxRound = length - rx_count
<1>1. /\ length \in Nat /\ rx_count \in Nat /\ rxf \in Nat
      /\ rx_count <= length
  BY SpimAssumption DEF TypeOK
<1>2. /\ Least({length - rx_count, rxf}) \in {length - rx_count, rxf}
      /\ Least({length - rx_count, rxf}) <= length - rx_count
      /\ Least({length - rx_count, rxf}) <= rxf
  BY <1>1, LeastOfTwo
<1> QED
  BY <1>1, <1>2 DEF FSpimGetRxRound

\* FSpimGetTxRound overfills neither FIFO.
LEMMA TxRound ==
  ASSUME TypeOK, FifoInv, tx_count - rx_count <= Depth
  PROVE  /\ FSpimGetTxRound \in Nat
         /\ FSpimGetTxRound <= length - tx_count
         /\ FSpimGetTxRound <= Depth - txf
         /\ FSpimGetTxRound <= Depth - (tx_count - rx_count)
<1>1. /\ length \in Nat /\ rx_count \in Nat /\ tx_count \in Nat
      /\ txf \in Nat /\ Depth \in Nat
      /\ tx_count <= length /\ txf <= Depth
  BY SpimAssumption DEF TypeOK
<1> DEFINE a == length - tx_count
           b == Depth - txf
           c == Depth - (tx_count - rx_count)
<1>2. a \in Nat /\ b \in Nat /\ c \in Nat
  BY <1>1 DEF FifoInv
<1> HIDE DEF a, b, c
<1>3. /\ Least({a, b, c}) \in {a, b, c} /\ Least({a, b, c}) <= a
      /\ Least({a, b, c}) <= b /\ Least({a, b, c}) <= c
  BY <1>2, LeastOfThree
<1>4. FSpimGetTxRound = Least({a, b, c})
  BY DEF FSpimGetTxRound, a, b, c
<1> QED
  BY <1>2, <1>3, <1>4 DEF a, b, c

\* The Boolean variables keep their type.
LEMMA FlagsStep == FlagsOK /\ [Next]_vars => FlagsOK'
<1> SUFFICES ASSUME FlagsOK, [Next]_vars PROVE FlagsOK'
  OBVIOUS
<1> USE DEF FlagsOK, osVars, hwVars, ctrlVars, taskVars
<1>1. CASE FFreeRTOSSpimInit
  BY <1>1, Zenon DEF FFreeRTOSSpimInit, FSpimDeInitialize, FSpimReset
<1>2. CASE isr = "off" /\ FFreeRTOSSpimDeInit
  BY <1>2, Zenon DEF FFreeRTOSSpimDeInit, FSpimDeInitialize
<1>3. CASE isr = "off" /\ SetBits
  BY <1>3, Zenon DEF SetBits
<1>4. ASSUME NEW t \in Tasks, NEW m \in Message, Call(t, m) PROVE FlagsOK'
  BY <1>4, Zenon DEF Call, Goto
<1>5. ASSUME NEW t \in Tasks, FSpimOsTakeSema(t) PROVE FlagsOK'
  BY <1>5, Zenon DEF FSpimOsTakeSema, Goto
<1>6. ASSUME NEW t \in Tasks, FSpimOsTx(t) PROVE FlagsOK'
  BY <1>6, ZenonT(40) DEF FSpimOsTx, Phase, FSpimTransferByInterrupt, Goto
<1>7. ASSUME NEW t \in Tasks, FSpimOsRx(t) PROVE FlagsOK'
  BY <1>7, ZenonT(40) DEF FSpimOsRx, Phase, FSpimTransferByInterrupt, Goto
<1>8. ASSUME NEW t \in Tasks, WaitDone(t) PROVE FlagsOK'
  BY <1>8, Zenon DEF WaitDone, AfterWait, Goto
<1>9. ASSUME NEW t \in Tasks, WaitTimeout(t) PROVE FlagsOK'
  BY <1>9, Zenon DEF WaitTimeout, TimedOut, Hopeless, AfterWait, Goto
<1>10. ASSUME NEW t \in Tasks, FSpimOsGiveSema(t) PROVE FlagsOK'
  BY <1>10, Zenon DEF FSpimOsGiveSema, Goto
<1>11. CASE Shift
  BY <1>11, Zenon DEF Shift
<1>12. CASE FifoFault
  BY <1>12, Zenon DEF FifoFault
<1>13. CASE IntrError
  BY <1>13, Zenon DEF IntrError, FSpimReset
<1>14. CASE IntrRx
  BY <1>14, Zenon DEF IntrRx
<1>15. CASE IntrTx
  BY <1>15, Zenon DEF IntrTx
<1>16. CASE IntrUnready
  BY <1>16, Zenon DEF IntrUnready
<1>17. CASE UNCHANGED vars
  BY <1>17, Zenon DEF vars
<1> QED
  BY <1>1, <1>2, <1>3, <1>4, <1>5, <1>6, <1>7, <1>8, <1>9, <1>10, <1>11,
     <1>12, <1>13, <1>14, <1>15, <1>16, <1>17 DEF Next, Scheduled, Task,
     FSpimInterruptHandler

\* Every step keeps the types.
LEMMA TypeStep == TypeOK /\ LockInv /\ FifoInv /\ [Next]_vars => TypeOK'
<1> SUFFICES ASSUME TypeOK, LockInv, FifoInv, [Next]_vars PROVE TypeOK'
  OBVIOUS
<1> USE SpimAssumption, FlagsStep DEF TypeOK, FifoInv, osVars, hwVars,
     ctrlVars, taskVars
<1>1. CASE FFreeRTOSSpimInit
  BY <1>1 DEF FFreeRTOSSpimInit, FSpimDeInitialize, FSpimReset
<1>2. CASE isr = "off" /\ FFreeRTOSSpimDeInit
  BY <1>2 DEF FFreeRTOSSpimDeInit, FSpimDeInitialize
<1>3. CASE isr = "off" /\ SetBits
  BY <1>3 DEF SetBits
<1>4. ASSUME NEW t \in Tasks, NEW m \in Message, Call(t, m) PROVE TypeOK'
  BY <1>4 DEF Call, Goto, Locations
<1>5. ASSUME NEW t \in Tasks, FSpimOsTakeSema(t) PROVE TypeOK'
  BY <1>5 DEF FSpimOsTakeSema, Goto, Locations, Errors
<1>6. ASSUME NEW t \in Tasks, FSpimOsTx(t) PROVE TypeOK'
  <2>1. msg[t].tx \in Lengths \union {NoBuf}
    BY DEF Message
  <2>2. length' \in Lengths \union {0}
    BY <1>6, <2>1 DEF FSpimOsTx, Phase, FSpimTransferByInterrupt
  <2>3. /\ tx_count' \in 0 .. length' /\ rx_count' \in 0 .. length'
        /\ txf' \in 0 .. Depth /\ rxf' \in 0 .. Depth
    BY <1>6, <2>2 DEF FSpimOsTx, Phase, FSpimTransferByInterrupt
  <2>4. pc' \in [Tasks -> Locations] /\ err' \in [Tasks -> Errors]
    BY <1>6 DEF FSpimOsTx, Phase, Goto, Locations, Errors
  <2>5. UNCHANGED <<locker, isr, msg, calls>>
    BY <1>6 DEF FSpimOsTx, Phase
  <2> QED
    BY <2>2, <2>3, <2>4, <2>5
<1>7. ASSUME NEW t \in Tasks, FSpimOsRx(t) PROVE TypeOK'
  <2>1. msg[t].rx \in Lengths \union {NoBuf}
    BY DEF Message
  <2>2. length' \in Lengths \union {0}
    BY <1>7, <2>1 DEF FSpimOsRx, Phase, FSpimTransferByInterrupt
  <2>3. /\ tx_count' \in 0 .. length' /\ rx_count' \in 0 .. length'
        /\ txf' \in 0 .. Depth /\ rxf' \in 0 .. Depth
    BY <1>7, <2>2 DEF FSpimOsRx, Phase, FSpimTransferByInterrupt
  <2>4. pc' \in [Tasks -> Locations] /\ err' \in [Tasks -> Errors]
    BY <1>7 DEF FSpimOsRx, Phase, Goto, Locations, Errors
  <2>5. UNCHANGED <<locker, isr, msg, calls>>
    BY <1>7 DEF FSpimOsRx, Phase
  <2> QED
    BY <2>2, <2>3, <2>4, <2>5
<1>8. ASSUME NEW t \in Tasks, WaitDone(t) PROVE TypeOK'
  BY <1>8 DEF WaitDone, AfterWait, Goto, Locations
<1>9. ASSUME NEW t \in Tasks, WaitTimeout(t) PROVE TypeOK'
  BY <1>9 DEF WaitTimeout, TimedOut, Hopeless, AfterWait, Goto, Locations,
     Errors
<1>10. ASSUME NEW t \in Tasks, FSpimOsGiveSema(t) PROVE TypeOK'
  BY <1>10 DEF FSpimOsGiveSema, Goto, Locations
<1>11. CASE Shift
  BY <1>11 DEF Shift
<1>12. CASE FifoFault
  BY <1>12 DEF FifoFault
<1>13. CASE IntrError
  BY <1>13 DEF IntrError, FSpimReset
<1>14. CASE IntrRx
  <2>1. /\ rx_count' \in 0 .. length' /\ rxf' \in 0 .. Depth
        /\ UNCHANGED <<length, tx_count, txf>>
    BY <1>14, RxRound DEF IntrRx
  <2>2. isr' \in {"off", "tx"} /\ UNCHANGED <<locker, pc, msg, err, calls>>
    BY <1>14 DEF IntrRx
  <2> QED
    BY <2>1, <2>2
<1>15. CASE IntrTx
  <2>1. tx_count - rx_count <= Depth
    BY <1>15 DEF IntrTx, LockInv
  <2>2. /\ tx_count' \in 0 .. length' /\ txf' \in 0 .. Depth
        /\ UNCHANGED <<length, rx_count, rxf>>
    BY <1>15, <2>1, TxRound DEF IntrTx
  <2>3. isr' = "off" /\ UNCHANGED <<locker, pc, msg, err, calls>>
    BY <1>15 DEF IntrTx
  <2> QED
    BY <2>2, <2>3
<1>16. CASE IntrUnready
  BY <1>16 DEF IntrUnready
<1>17. CASE UNCHANGED vars
  BY <1>17 DEF vars
<1> QED
  BY <1>1, <1>2, <1>3, <1>4, <1>5, <1>6, <1>7, <1>8, <1>9, <1>10, <1>11,
     <1>12, <1>13, <1>14, <1>15, <1>16, <1>17 DEF Next, Scheduled, Task,
     FSpimInterruptHandler

\* Every step keeps the mutex with the task inside a transfer.
LEMMA LockStep == TypeOK /\ LockInv /\ [Next]_vars => LockInv'
<1> SUFFICES ASSUME TypeOK, LockInv, [Next]_vars PROVE LockInv'
  OBVIOUS
<1> USE SpimAssumption DEF TypeOK, FlagsOK, LockInv, Inside, Locations,
     osVars, hwVars, ctrlVars, taskVars
<1>1. CASE FFreeRTOSSpimInit
  BY <1>1 DEF FFreeRTOSSpimInit, FSpimDeInitialize, FSpimReset
<1>2. CASE isr = "off" /\ FFreeRTOSSpimDeInit
  <2>1. misused' <=> (misused \/ \E t \in Tasks : pc[t] # "idle")
    BY <1>2 DEF FFreeRTOSSpimDeInit
  <2>2. /\ ready' = FALSE /\ evt' = FALSE /\ locker' = "null"
        /\ UNCHANGED <<pc, isr, txe>>
    BY <1>2 DEF FFreeRTOSSpimDeInit
  <2>3. isr # "tx"
    BY <1>2
  <2> QED
    BY <2>1, <2>2, <2>3
<1>3. CASE isr = "off" /\ SetBits
  BY <1>3 DEF SetBits
<1>4. ASSUME NEW t \in Tasks, NEW m \in Message, Call(t, m) PROVE LockInv'
  BY <1>4 DEF Call, Goto
<1>5. ASSUME NEW t \in Tasks, FSpimOsTakeSema(t) PROVE LockInv'
  BY <1>5 DEF FSpimOsTakeSema, Goto
<1>6. ASSUME NEW t \in Tasks, FSpimOsTx(t) PROVE LockInv'
  BY <1>6 DEF FSpimOsTx, Phase, FSpimTransferByInterrupt, Goto
<1>7. ASSUME NEW t \in Tasks, FSpimOsRx(t) PROVE LockInv'
  BY <1>7 DEF FSpimOsRx, Phase, FSpimTransferByInterrupt, Goto
<1>8. ASSUME NEW t \in Tasks, WaitDone(t) PROVE LockInv'
  BY <1>8 DEF WaitDone, AfterWait, Goto
<1>9. ASSUME NEW t \in Tasks, WaitTimeout(t) PROVE LockInv'
  BY <1>9 DEF WaitTimeout, TimedOut, Hopeless, AfterWait, Goto
<1>10. ASSUME NEW t \in Tasks, FSpimOsGiveSema(t) PROVE LockInv'
  BY <1>10 DEF FSpimOsGiveSema, Goto
<1>11. CASE Shift
  BY <1>11 DEF Shift
<1>12. CASE FifoFault
  BY <1>12 DEF FifoFault
<1>13. CASE IntrError
  BY <1>13 DEF IntrError, FSpimReset, Pending
<1>14. CASE IntrRx
  BY <1>14 DEF IntrRx, Pending
<1>15. CASE IntrTx
  BY <1>15 DEF IntrTx
<1>16. CASE IntrUnready
  BY <1>16 DEF IntrUnready
<1>17. CASE UNCHANGED vars
  BY <1>17 DEF vars
<1> QED
  BY <1>1, <1>2, <1>3, <1>4, <1>5, <1>6, <1>7, <1>8, <1>9, <1>10, <1>11,
     <1>12, <1>13, <1>14, <1>15, <1>16, <1>17 DEF Next, Scheduled, Task,
     FSpimInterruptHandler

\* Every step keeps count of the words on their way.
LEMMA FifoStep == TypeOK /\ LockInv /\ FifoInv /\ [Next]_vars => FifoInv'
<1> SUFFICES ASSUME TypeOK, LockInv, FifoInv, [Next]_vars PROVE FifoInv'
  OBVIOUS
<1> USE SpimAssumption DEF TypeOK, FlagsOK, LockInv, FifoInv, osVars, hwVars,
     ctrlVars, taskVars
<1>1. CASE FFreeRTOSSpimInit
  BY <1>1 DEF FFreeRTOSSpimInit, FSpimDeInitialize, FSpimReset
<1>2. CASE isr = "off" /\ FFreeRTOSSpimDeInit
  BY <1>2 DEF FFreeRTOSSpimDeInit, FSpimDeInitialize
<1>3. CASE isr = "off" /\ SetBits
  BY <1>3 DEF SetBits
<1>4. ASSUME NEW t \in Tasks, NEW m \in Message, Call(t, m) PROVE FifoInv'
  BY <1>4 DEF Call, Goto
<1>5. ASSUME NEW t \in Tasks, FSpimOsTakeSema(t) PROVE FifoInv'
  BY <1>5 DEF FSpimOsTakeSema, Goto
<1>6. ASSUME NEW t \in Tasks, FSpimOsTx(t) PROVE FifoInv'
  BY <1>6 DEF FSpimOsTx, Phase, FSpimTransferByInterrupt, Goto
<1>7. ASSUME NEW t \in Tasks, FSpimOsRx(t) PROVE FifoInv'
  BY <1>7 DEF FSpimOsRx, Phase, FSpimTransferByInterrupt, Goto
<1>8. ASSUME NEW t \in Tasks, WaitDone(t) PROVE FifoInv'
  BY <1>8 DEF WaitDone, AfterWait, Goto
<1>9. ASSUME NEW t \in Tasks, WaitTimeout(t) PROVE FifoInv'
  BY <1>9 DEF WaitTimeout, TimedOut, Hopeless, AfterWait, Goto
<1>10. ASSUME NEW t \in Tasks, FSpimOsGiveSema(t) PROVE FifoInv'
  BY <1>10 DEF FSpimOsGiveSema, Goto
<1>11. CASE Shift
  BY <1>11 DEF Shift
<1>12. CASE FifoFault
  BY <1>12 DEF FifoFault
<1>13. CASE IntrError
  BY <1>13 DEF IntrError, FSpimReset
<1>14. CASE IntrRx
  <2> DEFINE rx == FSpimGetRxRound
  <2>1. /\ rx \in 0 .. rxf /\ rx <= length - rx_count
        /\ rx = rxf \/ rx = length - rx_count
    BY RxRound
  <2>2. /\ ready /\ txe /\ ~errflag /\ rx_count' = rx_count + rx
        /\ rxf' = rxf - rx /\ UNCHANGED <<ready, txf, errflag, tx_count>>
        /\ txe' = txe \/ (rx_count + rx >= length /\ txe' = FALSE)
    BY <1>14 DEF IntrRx, Pending, AllBack
  <2>3. rx = rxf
    BY <2>1, <2>2
  <2>4. txf' \in Nat /\ rxf' = 0 /\ rx_count' <= tx_count'
        /\ tx_count' - rx_count' = txf' + rxf' /\ txf' + rxf' <= Depth
    BY <2>2, <2>3
  <2>5. ready' /\ (txe' \/ rx_count' >= length) /\ ~errflag'
    BY <2>2
  <2>6. ~txe' => txf' = 0
    BY <2>2, <2>4, <2>5
  <2> QED
    BY <2>4, <2>5, <2>6
<1>15. CASE IntrTx
  <2>1. tx_count - rx_count = txf + rxf /\ txe
    BY <1>15 DEF IntrTx
  <2>2. /\ FSpimGetTxRound \in Nat
        /\ FSpimGetTxRound <= Depth - (tx_count - rx_count)
    BY <2>1, TxRound
  <2> QED
    BY <1>15, <2>1, <2>2 DEF IntrTx
<1>16. CASE IntrUnready
  BY <1>16 DEF IntrUnready
<1>17. CASE UNCHANGED vars
  BY <1>17 DEF vars
<1> QED
  BY <1>1, <1>2, <1>3, <1>4, <1>5, <1>6, <1>7, <1>8, <1>9, <1>10, <1>11,
     <1>12, <1>13, <1>14, <1>15, <1>16, <1>17 DEF Next, Scheduled, Task,
     FSpimInterruptHandler

\* Every step leaves the events with the task that waits.
LEMMA OnTimeStep ==
  ASSUME ~Late PROVE IInv /\ OnTimeInv /\ [Next]_vars => OnTimeInv'
<1> SUFFICES ASSUME IInv, OnTimeInv, [Next]_vars PROVE OnTimeInv'
  OBVIOUS
<1> USE SpimAssumption DEF IInv, TypeOK, FlagsOK, LockInv, FifoInv,
     OnTimeInv, Inside, Waiting, osVars, hwVars, ctrlVars, taskVars
<1>1. CASE FFreeRTOSSpimInit
  BY <1>1 DEF FFreeRTOSSpimInit, FSpimDeInitialize, FSpimReset
<1>2. CASE isr = "off" /\ FFreeRTOSSpimDeInit
  BY <1>2 DEF FFreeRTOSSpimDeInit, FSpimDeInitialize
<1>3. CASE isr = "off" /\ SetBits
  BY <1>3 DEF SetBits
<1>4. ASSUME NEW t \in Tasks, NEW m \in Message, Call(t, m) PROVE OnTimeInv'
  BY <1>4 DEF Call, Goto
<1>5. ASSUME NEW t \in Tasks, FSpimOsTakeSema(t) PROVE OnTimeInv'
  BY <1>5 DEF FSpimOsTakeSema, Goto
<1>6. ASSUME NEW t \in Tasks, FSpimOsTx(t) PROVE OnTimeInv'
  BY <1>6 DEF FSpimOsTx, Phase, FSpimTransferByInterrupt, Goto
<1>7. ASSUME NEW t \in Tasks, FSpimOsRx(t) PROVE OnTimeInv'
  BY <1>7 DEF FSpimOsRx, Phase, FSpimTransferByInterrupt, Goto
<1>8. ASSUME NEW t \in Tasks, WaitDone(t) PROVE OnTimeInv'
  BY <1>8 DEF WaitDone, AfterWait, Goto
<1>9. ASSUME NEW t \in Tasks, WaitTimeout(t) PROVE OnTimeInv'
  BY <1>9 DEF WaitTimeout, TimedOut, Hopeless, AfterWait, Goto
<1>10. ASSUME NEW t \in Tasks, FSpimOsGiveSema(t) PROVE OnTimeInv'
  BY <1>10 DEF FSpimOsGiveSema, Goto
<1>11. CASE Shift
  BY <1>11 DEF Shift
<1>12. CASE FifoFault
  BY <1>12 DEF FifoFault
<1>13. CASE IntrError
  BY <1>13 DEF IntrError, FSpimReset
<1>14. CASE IntrRx
  <2>1. /\ ready /\ txe /\ ~errflag
        /\ UNCHANGED <<ready, misused, bit, locker, length, cs, failed, pc>>
    BY <1>14 DEF IntrRx, Pending
  <2>2. Waiting /\ Waiting' /\ ~bit /\ ~pended /\ ~misused
    BY <2>1
  <2>3. \/ txe' /\ ~pended'
        \/ ~txe' /\ rx_count' = length
    <3>1. CASE AllBack(FSpimGetRxRound)
      BY <1>14, <3>1, RxRound DEF IntrRx, AllBack
    <3>2. CASE ~AllBack(FSpimGetRxRound)
      BY <1>14, <2>1, <2>2, <3>2 DEF IntrRx
    <3> QED
      BY <3>1, <3>2
  <2>4. ready' /\ Waiting' /\ ~bit' /\ (locker' # "free" => cs')
    BY <2>1, <2>2
  <2>5. failed' => misused'
    BY <2>1
  <2>6. pended' => ~txe' /\ rx_count' = length'
    BY <2>1, <2>3
  <2> QED
    BY <2>4, <2>5, <2>6
<1>15. CASE IntrTx
  BY <1>15 DEF IntrTx
<1>16. CASE IntrUnready
  <2>1. misused
    BY <1>16 DEF IntrUnready, Pending
  <2> QED
    BY <1>16, <2>1 DEF IntrUnready
<1>17. CASE UNCHANGED vars
  BY <1>17 DEF vars
<1> QED
  BY <1>1, <1>2, <1>3, <1>4, <1>5, <1>6, <1>7, <1>8, <1>9, <1>10, <1>11,
     <1>12, <1>13, <1>14, <1>15, <1>16, <1>17 DEF Next, Scheduled, Task,
     FSpimInterruptHandler

\* The initial state satisfies the invariants.
LEMMA InitIInv == Init => IInv /\ OnTimeInv
<1> SUFFICES ASSUME Init PROVE IInv /\ OnTimeInv
  OBVIOUS
<1>1. FlagsOK
  BY Zenon DEF Init, FlagsOK
<1>2. [tx |-> NoBuf, rx |-> NoBuf] \in Message
  BY DEF Message
<1>3. TypeOK
  BY <1>1, <1>2, SpimAssumption DEF Init, TypeOK, Locations, Errors
<1>4. LockInv /\ FifoInv /\ OnTimeInv
  BY SpimAssumption DEF Init, LockInv, FifoInv, OnTimeInv, Inside, Waiting
<1> QED
  BY <1>3, <1>4 DEF IInv

\* IInv holds in every reachable state, whatever the timeout.
LEMMA Inductive == Spec => []IInv
<1>1. IInv /\ [Next]_vars => IInv'
  BY TypeStep, LockStep, FifoStep DEF IInv
<1> QED
  BY InitIInv, <1>1, PTL DEF Spec

LEMMA OnTime == ASSUME ~Late PROVE Spec => []OnTimeInv
<1>1. IInv /\ OnTimeInv /\ [Next]_vars => OnTimeInv'
  BY OnTimeStep
<1> QED
  BY InitIInv, Inductive, <1>1, PTL DEF Spec

\* The types of all variables: in particular neither FIFO ever holds more
\* than Depth words and the counters never pass the length of the transfer.
THEOREM SpimTypeCorrect == Spec => []TypeOK
<1>1. IInv => TypeOK
  BY DEF IInv
<1> QED
  BY Inductive, <1>1, PTL

\* FSpimGetTxRound never lets more words on their way than the receive FIFO
\* can take, although the controller goes on between FSpimFifoRx and
\* FSpimFifoTx.
THEOREM SpimInFlightFits == ASSUME ~Late PROVE Spec => []InFlightFits
<1>1. IInv /\ OnTimeInv => InFlightFits
  BY DEF IInv, TypeOK, FlagsOK, FifoInv, OnTimeInv, InFlightFits
<1> QED
  BY Inductive, OnTime, <1>1, PTL

\* When no task is inside FFreeRTOSSpimTransfer, the interrupt handler has
\* nothing left to do with a buffer.
THEOREM SpimBuffersReturned == ASSUME ~Late PROVE Spec => []BuffersReturned
<1>1. IInv /\ OnTimeInv => BuffersReturned
  BY DEF IInv, TypeOK, FlagsOK, LockInv, FifoInv, OnTimeInv, BuffersReturned,
     Waiting
<1> QED
  BY Inductive, OnTime, <1>1, PTL

\* No assertion fails and no deleted mutex or event group is used, unless the
\* instance was deinitialised under a transfer.
THEOREM SpimAssertsHold == ASSUME ~Late PROVE Spec => []AssertsHold
<1>1. OnTimeInv => AssertsHold
  BY DEF OnTimeInv, AssertsHold
<1> QED
  BY OnTime, <1>1, PTL

\* A wait of FSpimOsWaitTransDone that ends well ends after the last word of
\* its own phase.
THEOREM SpimSuccessMeansDone == ASSUME ~Late PROVE Spec => SuccessMeansDone
<1>1. IInv /\ OnTimeInv =>
        [\A t \in Tasks : WaitDone(t) => rx_count >= length]_vars
  BY SpimAssumption DEF IInv, TypeOK, LockInv, OnTimeInv, WaitDone
<1> QED
  BY Inductive, OnTime, <1>1, PTL DEF Spec, SuccessMeansDone

-----------------------------------------------------------------------------
(* The refinement *)

\* Initially nobody owns the instance and no word has moved.
LEMMA ContractInit == Init => Contract!Init
  BY SpimAssumption DEF Init, Contract!Init, Waiting

\* A step that leaves the mutex, the tasks and the counters alone is a
\* stuttering step of the contract.
LEMMA ContractStutter ==
  ASSUME UNCHANGED <<locker, pc, err, rx_count, length, misused>>
  PROVE  UNCHANGED Contract!vars
  BY DEF Contract!vars, Waiting

\* While the promise holds, only the holder of the mutex waits.
LEMMA OneInside ==
  ASSUME IInv, ~misused, NEW t \in Tasks, pc[t] \in Inside
  PROVE  /\ locker = t /\ locker # "free" /\ ready
         /\ \A u \in Tasks : pc[u] \in {"txwait", "rxwait"} => u = t
         /\ Waiting <=> pc[t] \in {"txwait", "rxwait"}
<1>1. \A u \in Tasks : pc[u] \in Inside => locker = u
  BY DEF IInv, LockInv
<1>2. locker = t /\ locker # "free" /\ locker # "null"
  BY <1>1, SpimAssumption
<1>3. ready
  BY <1>2 DEF IInv, LockInv
<1>4. \A u \in Tasks : pc[u] \in {"txwait", "rxwait"} => u = t
  BY <1>1, <1>2 DEF Inside
<1> QED
  BY <1>2, <1>3, <1>4 DEF Waiting

\* What the contract sees of a step by which the task inside moves from
\* one place inside to another.
LEMMA InsideStep ==
  ASSUME IInv, ~misused, NEW t \in Tasks, pc[t] \in Inside,
         NEW l \in Inside, Goto(t, l), UNCHANGED <<locker, misused>>
  PROVE  /\ locker = t /\ locker' = t /\ t # "free"
         /\ Waiting <=> pc[t] \in {"txwait", "rxwait"}
         /\ Waiting' <=> l \in {"txwait", "rxwait"}
<1>1. /\ locker = t /\ locker # "free"
      /\ \A u \in Tasks : pc[u] \in {"txwait", "rxwait"} => u = t
      /\ Waiting <=> pc[t] \in {"txwait", "rxwait"}
  BY OneInside
<1>2. \A u \in Tasks : pc'[u] = IF u = t THEN l ELSE pc[u]
  BY DEF Goto, IInv, TypeOK
<1> QED
  BY <1>1, <1>2 DEF Waiting

\* A phase of the task inside is skipped, refused or started.
LEMMA ContractPhase ==
  ASSUME IInv, ~misused, NEW t \in Tasks, pc[t] \in {"tx", "rx"},
         NEW len \in Lengths \union {NoBuf},
         NEW wait \in {"txwait", "rxwait"}, NEW next \in {"rx", "end"},
         Phase(t, len, wait, next), UNCHANGED <<locker, misused>>
  PROVE  [Contract!Next]_(Contract!vars)
<1>1. locker = t /\ ready /\ ~Waiting
  BY OneInside DEF Inside
<1>2. CASE Goto(t, next) /\ UNCHANGED <<hwVars, ctrlVars, err>>
  <2>1. locker' = t /\ ~Waiting'
    BY <1>2, InsideStep DEF Inside
  <2>2. UNCHANGED Waiting
    BY <1>1, <2>1 DEF Waiting
  <2> QED
    BY <1>1, <1>2, <2>1, <2>2 DEF Contract!vars, ctrlVars
<1>3. CASE /\ len # NoBuf /\ err[t] = "OK"
           /\ FSpimTransferByInterrupt(len) /\ Goto(t, wait)
           /\ UNCHANGED <<cs, isr, err>>
  <2>1. locker' = t /\ Waiting' /\ t # "free"
    BY <1>3, InsideStep DEF Inside
  <2>2. rx_count' = 0 /\ length' \in Nat
    BY <1>3, SpimAssumption DEF FSpimTransferByInterrupt
  <2>3. Contract!StartPhase
    BY <1>1, <1>3, <2>1, <2>2 DEF Contract!StartPhase
  <2> QED
    BY <2>3 DEF Contract!Next
<1> QED
  BY <1>1, <1>2, <1>3 DEF Phase

\* While the promise holds, every step of the driver is a step of the
\* contract or leaves it alone.
LEMMA ContractStep ==
  ASSUME ~Late
  PROVE  IInv /\ OnTimeInv /\ [Next]_vars => [Contract!Next]_(Contract!vars)
<1> SUFFICES ASSUME IInv, OnTimeInv, [Next]_vars
             PROVE  [Contract!Next]_(Contract!vars)
  OBVIOUS
<1>void. CASE misused'
  BY <1>void DEF Contract!Next
<1>kept. misused => misused'
  <2>1. CASE FFreeRTOSSpimDeInit
    BY <2>1 DEF FFreeRTOSSpimDeInit
  <2>2. ASSUME NEW t \in Tasks, (\E m \in Message : Call(t, m)) \/ Task(t)
        PROVE  misused' = misused
    BY <2>2 DEF Task, Call, FSpimOsTakeSema, FSpimOsTx, FSpimOsRx, WaitDone,
       WaitTimeout, FSpimOsGiveSema
  <2>3. CASE FFreeRTOSSpimInit \/ SetBits \/ Shift \/ FifoFault
    BY <2>3 DEF FFreeRTOSSpimInit, SetBits, Shift, FifoFault
  <2>4. CASE FSpimInterruptHandler
    BY <2>4 DEF FSpimInterruptHandler, IntrError, IntrRx, IntrTx, IntrUnready
  <2>5. CASE UNCHANGED vars
    BY <2>5 DEF vars
  <2> QED
    BY <2>1, <2>2, <2>3, <2>4, <2>5 DEF Next, Scheduled
<1> SUFFICES ASSUME ~misused, ~misused' PROVE [Contract!Next]_(Contract!vars)
  BY <1>void, <1>kept
<1> USE SpimAssumption
<1>1. CASE FFreeRTOSSpimInit
  <2>1. ~Waiting'
    BY <1>1 DEF FFreeRTOSSpimInit, Waiting, taskVars
  <2>2. locker \notin Tasks /\ locker' \notin Tasks
    BY <1>1 DEF FFreeRTOSSpimInit, IInv, LockInv
  <2>3. Contract!Reset
    BY <1>1, <2>1, <2>2 DEF FFreeRTOSSpimInit, FSpimDeInitialize, Contract!Reset
  <2> QED
    BY <2>3 DEF Contract!Next
<1>2. CASE FFreeRTOSSpimDeInit
  <2>1. \A t \in Tasks : pc[t] = "idle"
    BY <1>2 DEF FFreeRTOSSpimDeInit
  <2>2. ~Waiting'
    BY <1>2, <2>1 DEF FFreeRTOSSpimDeInit, Waiting, taskVars
  <2>3. locker \notin Tasks /\ locker' \notin Tasks
    BY <1>2, <2>1 DEF FFreeRTOSSpimDeInit, IInv, LockInv, Inside
  <2>4. Contract!Reset
    BY <1>2, <2>2, <2>3 DEF FFreeRTOSSpimDeInit, FSpimDeInitialize,
       Contract!Reset
  <2> QED
    BY <2>4 DEF Contract!Next
<1>3. CASE SetBits
  BY <1>3, ContractStutter DEF SetBits, ctrlVars, taskVars
<1>4. ASSUME NEW t \in Tasks, NEW m \in Message, Call(t, m)
      PROVE  UNCHANGED Contract!vars
  <2>1. Waiting' <=> Waiting
    BY <1>4 DEF Call, Goto, Waiting, IInv, TypeOK
  <2> QED
    BY <1>4, <2>1 DEF Call, osVars, ctrlVars, Contract!vars
<1>5. ASSUME NEW t \in Tasks, FSpimOsTakeSema(t)
      PROVE  [Contract!Next]_(Contract!vars)
  <2>1. CASE locker = "free" /\ locker' = t
    <3>1. /\ err' = [err EXCEPT ![t] = "OK"] /\ Goto(t, "tx") /\ pc[t] = "lock"
          /\ UNCHANGED <<rx_count, length, misused>>
      BY <1>5, <2>1 DEF FSpimOsTakeSema, ctrlVars
    <3>2. Waiting' <=> Waiting
      BY <3>1 DEF Goto, Waiting, IInv, TypeOK
    <3>3. err'[t] = "OK"
      BY <3>1 DEF IInv, TypeOK
    <3>4. Contract!Enter(t)
      BY <2>1, <3>1, <3>2, <3>3 DEF Contract!Enter
    <3> QED
      BY <3>4 DEF Contract!Next
  <2>2. CASE UNCHANGED <<locker, cs, err, pc>>
    BY <1>5, <2>2, ContractStutter DEF FSpimOsTakeSema, ctrlVars
  <2> QED
    BY <1>5, <2>1, <2>2 DEF FSpimOsTakeSema
<1>6. ASSUME NEW t \in Tasks, FSpimOsTx(t)
      PROVE  [Contract!Next]_(Contract!vars)
  <2>1. msg[t].tx \in Lengths \union {NoBuf}
    BY DEF IInv, TypeOK, Message
  <2> QED
    BY <1>6, <2>1, ContractPhase DEF FSpimOsTx, osVars
<1>7. ASSUME NEW t \in Tasks, FSpimOsRx(t)
      PROVE  [Contract!Next]_(Contract!vars)
  <2>1. msg[t].rx \in Lengths \union {NoBuf}
    BY DEF IInv, TypeOK, Message
  <2> QED
    BY <1>7, <2>1, ContractPhase DEF FSpimOsRx, osVars
<1>8. ASSUME NEW t \in Tasks, WaitDone(t)
      PROVE  [Contract!Next]_(Contract!vars)
  <2>1. PICK l \in {"rx", "end"} : Goto(t, l)
    BY <1>8 DEF WaitDone, AfterWait
  <2>2. /\ pc[t] \in {"txwait", "rxwait"}
        /\ UNCHANGED <<locker, misused, err, rx_count, length>>
    BY <1>8 DEF WaitDone, ctrlVars
  <2>3. locker = t /\ locker' = t /\ Waiting /\ ~Waiting'
    BY <2>1, <2>2, InsideStep DEF Inside
  <2>4. rx_count = length
    BY <1>8 DEF WaitDone, IInv, LockInv, OnTimeInv
  <2>5. Contract!EndPhase
    BY <2>2, <2>3, <2>4 DEF Contract!EndPhase
  <2> QED
    BY <2>5 DEF Contract!Next
<1>9. ASSUME NEW t \in Tasks, WaitTimeout(t)
      PROVE  [Contract!Next]_(Contract!vars)
  <2>1. PICK l \in {"rx", "end"} : Goto(t, l)
    BY <1>9 DEF WaitTimeout, AfterWait
  <2>2. /\ pc[t] \in {"txwait", "rxwait"} /\ err' = [err EXCEPT ![t] = "TIMEOUT"]
        /\ UNCHANGED <<locker, misused, rx_count, length>>
    BY <1>9 DEF WaitTimeout, osVars, ctrlVars
  <2>3. locker = t /\ locker' = t /\ Waiting /\ ~Waiting'
    BY <2>1, <2>2, InsideStep DEF Inside
  <2>4. err'[t] # "OK"
    BY <2>2 DEF IInv, TypeOK
  <2>5. Contract!FailPhase
    BY <2>2, <2>3, <2>4 DEF Contract!FailPhase
  <2> QED
    BY <2>5 DEF Contract!Next
<1>10. ASSUME NEW t \in Tasks, FSpimOsGiveSema(t)
       PROVE  [Contract!Next]_(Contract!vars)
  <2>1. CASE locker = t /\ locker' = "free" /\ Goto(t, "idle")
    <3>1. pc[t] = "end" /\ UNCHANGED <<err, rx_count, length, misused>>
      BY <1>10 DEF FSpimOsGiveSema, ctrlVars
    <3>2. ~Waiting /\ t # "free"
      BY <3>1, OneInside DEF Inside
    <3>3. ~Waiting'
      BY <2>1, <3>2 DEF Goto, Waiting, IInv, TypeOK
    <3>4. UNCHANGED Waiting
      BY <3>2, <3>3 DEF Waiting
    <3>5. Contract!Leave
      BY <2>1, <3>1, <3>2, <3>3, <3>4 DEF Contract!Leave
    <3> QED
      BY <3>5 DEF Contract!Next
  <2>2. CASE UNCHANGED <<locker, pc>>
    BY <1>10, <2>2, ContractStutter DEF FSpimOsGiveSema, ctrlVars
  <2> QED
    BY <1>10, <2>1, <2>2 DEF FSpimOsGiveSema
<1>11. CASE \/ Shift \/ FifoFault \/ IntrError \/ IntrTx \/ IntrUnready
            \/ UNCHANGED vars
  BY <1>11, ContractStutter DEF Shift, FifoFault, IntrError, IntrTx,
     IntrUnready, vars, osVars, ctrlVars, taskVars
<1>12. CASE IntrRx
  <2>1. /\ FSpimGetRxRound \in Nat /\ FSpimGetRxRound <= length - rx_count
        /\ rx_count \in Nat /\ length \in Nat
    BY RxRound DEF IInv, TypeOK
  <2>2. /\ ready /\ txe /\ rx_count' = rx_count + FSpimGetRxRound
        /\ UNCHANGED <<locker, pc, err, length, misused>>
    BY <1>12 DEF IntrRx, Pending, taskVars, IInv, FifoInv, TypeOK, FlagsOK
  <2>3. Waiting /\ Waiting'
    BY <2>2 DEF OnTimeInv, Waiting
  <2>4. CASE FSpimGetRxRound = 0
    BY <2>1, <2>2, <2>4, ContractStutter
  <2>5. CASE FSpimGetRxRound > 0
    <3>1. rx_count' \in rx_count + 1 .. length
      BY <2>1, <2>2, <2>5
    <3>2. Contract!Move
      BY <2>2, <2>3, <3>1 DEF Contract!Move
    <3> QED
      BY <3>2 DEF Contract!Next
  <2> QED
    BY <2>1, <2>4, <2>5
<1> QED
  BY <1>1, <1>2, <1>3, <1>4, <1>5, <1>6, <1>7, <1>8, <1>9, <1>10, <1>11, <1>12
     DEF Next, Scheduled, Task, FSpimInterruptHandler

\* FFreeRTOSSpimTransfer keeps the promise of BlockingTransfer, for any number
\* of tasks, any messages and any interleaving with the interrupt.
THEOREM SpimImplementsContract ==
  ASSUME ~Late PROVE Spec => ImplementsContract
<1>1. IInv /\ OnTimeInv /\ [Next]_vars => [Contract!Next]_(Contract!vars)
  BY ContractStep
<1> QED
  BY ContractInit, <1>1, Inductive, OnTime, PTL
     DEF Spec, ImplementsContract, Contract!Spec
=============================================================================
