---------------------------- MODULE FGdma_proofs ----------------------------
(***************************************************************************)
(* What the GDMA driver guarantees for every number of channels, blocks    *)
(* and calls: who owns the blocks of the descriptor pool, which            *)
(* descriptors a working channel reads, and which interrupts are open.     *)
(*                                                                         *)
(* The mutex is the heart of it: of all tasks only its holder is inside a  *)
(* call (TypeOK), so an operation meets nothing but the controller and the *)
(* interrupt between its steps.                                            *)
(***************************************************************************)
EXTENDS FGdma, TLAPS

\* channel_first_desc_addr and the pool agree.
TableInv ==
  /\ \A c \in Chans :
       pc[c] = "malloc" => table[c] = Null \/ "twice" \in trouble
  /\ "leftover" \notin trouble =>
       /\ \A c \in Chans : table[c] # Null => table[c] \in alloc
       /\ \A c, d \in Chans : c # d /\ table[c] # Null => table[c] # table[d]
       /\ "twice" \notin trouble =>
            \A b \in alloc : \E c \in Chans : table[c] = b

\* Only configured channels work, and only their interrupts are served.
FlagInv ==
  /\ busy \subseteq flag
  /\ done \intersect irqs \subseteq flag
  /\ \A c \in Chans :
       /\ asked[c] # Null => c \in flag
       /\ pc[c] = "start" => asked[c] # Null
       /\ pc[c] \in {"free", "close", "off"} => asked[c] = Null
       /\ pc[c] = "off" => c \notin irqs
       /\ pc[c] = "program" /\ c \in done => c \in flag

\* While channels stop when they are told to, TRANS_END belongs to the
\* configuration in use.
ReportInv ==
  "stuck" \notin trouble =>
    /\ busy \subseteq en
    /\ done \subseteq finished
    /\ \A c \in Chans :
         /\ pc[c] \in {"quiet", "program"} => c \notin busy
         /\ pc[c] = "program" => c \notin done

\* The descriptors of a configured channel are its own, and nobody else will
\* free them; those of a configuration under way have been written.
DescInv ==
  trouble \subseteq {"twice"} =>
    \A c \in Chans :
      /\ c \in busy => asked[c] # Null
      /\ asked[c] # Null /\ hw[c].mode = "bdl" =>
           /\ hw[c].at \in alloc /\ mem[hw[c].at] = asked[c]
           /\ \A d \in Chans \ {c} : table[d] # hw[c].at
      /\ req[c].mode = "bdl" =>
           /\ pc[c] \in {"malloc", "abort", "quiet", "program"} =>
                req[c].aligned /\ req[c].id # Null
           /\ pc[c] \in {"abort", "quiet", "program"} =>
                table[c] # Null /\ mem[table[c]] = req[c].id

IInv == TypeOK /\ TableInv /\ FlagInv /\ ReportInv /\ DescInv

\* The values of the constants that must not be mistaken for one another.
LEMMA Apart ==
  /\ NoMutex \notin Chans /\ FreeMutex \notin Chans /\ NoMutex # FreeMutex
  /\ Null \notin Blocks /\ Null \in 0 .. MaxOps
  /\ Blocks \subseteq 0 .. MaxOps + NumBlocks
  /\ 0 .. MaxOps \subseteq 0 .. MaxOps + NumBlocks
  /\ \A n \in 0 .. MaxOps :
       n < MaxOps => n + 1 \in 0 .. MaxOps /\ n + 1 # Null
BY GdmaAssumption DEF Chans, Blocks, Null, NoMutex, FreeMutex


\* Every step keeps the types, and the mutex with the task that is in a call.
LEMMA TypeStep == TypeOK /\ [Next]_vars => TypeOK'
<1> SUFFICES ASSUME TypeOK, [Next]_vars PROVE TypeOK'
  OBVIOUS
<1> USE Apart DEF TypeOK, hwVars, histVars
<1>1. CASE FFreeRTOSGdmaInit
  BY <1>1 DEF FFreeRTOSGdmaInit, FGdmaReset
<1>2. CASE FFreeRTOSGdmaDeInit
  <2>1. flag' \subseteq Chans /\ en' \subseteq Chans /\ irqs' \subseteq Chans
        /\ busy' \subseteq Chans /\ done' \subseteq Chans /\ finished' \subseteq Chans
    BY <1>2 DEF FFreeRTOSGdmaDeInit, FGdmaReset
  <2>2. asked' \in [Chans -> 0 .. MaxOps] /\ UNCHANGED <<pc, table, req>>
    BY <1>2 DEF FFreeRTOSGdmaDeInit, FGdmaReset
  <2>3. locker' \in Chans \union {NoMutex, FreeMutex} /\ alloc' \subseteq Blocks
        /\ UNCHANGED <<mem, hw>> /\ calls' \in 0 .. MaxOps
    BY <1>2 DEF FFreeRTOSGdmaDeInit, FGdmaReset
  <2>4. \A d \in Chans : pc'[d] = "idle"
    BY <1>2, <2>2 DEF FFreeRTOSGdmaDeInit, AllIdle
  <2>5. trouble' \subseteq {"hasty", "leftover", "twice", "unaligned", "stuck"}
    BY <1>2 DEF FFreeRTOSGdmaDeInit
  <2>6. ctl' \in BOOLEAN
    BY <1>2 DEF FFreeRTOSGdmaDeInit, FGdmaReset
  <2> QED
    BY <2>1, <2>2, <2>3, <2>4, <2>5, <2>6
<1>3. ASSUME NEW c \in Chans, FFreeRTOSGdmaChanConfigure(c) PROVE TypeOK'
  BY <1>3 DEF FFreeRTOSGdmaChanConfigure, Call, Requests, Modes
<1>4. ASSUME NEW c \in Chans, FFreeRTOSGdmaChanStart(c) PROVE TypeOK'
  BY <1>4 DEF FFreeRTOSGdmaChanStart, Call
<1>5. ASSUME NEW c \in Chans, FFreeRTOSGdmaChanStop(c) PROVE TypeOK'
  BY <1>5 DEF FFreeRTOSGdmaChanStop, Call
<1>6. ASSUME NEW c \in Chans, FFreeRTOSGdmaChanDeconfigure(c) PROVE TypeOK'
  BY <1>6 DEF FFreeRTOSGdmaChanDeconfigure, Call
<1>7. ASSUME NEW c \in Chans, Malloc(c) PROVE TypeOK'
  <2>1. req[c].id \in 0 .. MaxOps
    BY DEF Requests
  <2>2. mem' \in [Blocks -> 0 .. MaxOps]
    BY <1>7, <2>1 DEF Malloc, Written
  <2>3. alloc' \subseteq Blocks /\ table' \in [Chans -> Blocks \union {Null}]
    <3>1. CASE \E b \in Blocks \ alloc :
                 /\ alloc' = alloc \union {b}
                 /\ table' = [table EXCEPT ![c] = b]
      BY <3>1
    <3>2. CASE UNCHANGED <<table, alloc>>
      BY <3>2
    <3> QED
      BY <1>7, <3>1, <3>2 DEF Malloc
  <2>4. pc' \in [Chans -> {"idle", "malloc", "abort", "quiet", "program",
                         "start", "stop", "free", "close", "off"}]
    BY <1>7 DEF Malloc, Step
  <2>5. \A d \in Chans : pc'[d] # "idle" => locker' = d
    BY <1>7 DEF Malloc, Step
  <2>6. locker' \in Chans \union {NoMutex, FreeMutex}
    BY <1>7 DEF Malloc, Step
  <2>7. UNCHANGED <<flag, en, irqs, busy, done, finished, ctl, hw, req, calls,
                    asked, trouble>>
    BY <1>7 DEF Malloc, Step, hwVars, histVars
  <2> QED
    BY <2>2, <2>3, <2>4, <2>5, <2>6, <2>7
<1>8. ASSUME NEW c \in Chans, Abort(c) PROVE TypeOK'
  BY <1>8 DEF Abort, Step, Aborted, AbortFailed, NothingToAbort
<1>9. ASSUME NEW c \in Chans, Quiet(c) PROVE TypeOK'
  BY <1>9 DEF Quiet, Step, Quieten
<1>10. ASSUME NEW c \in Chans, Program(c) PROVE TypeOK'
  <2>1. /\ req[c].mode \in Modes /\ req[c].id \in 0 .. MaxOps
        /\ table[c] \in 0 .. MaxOps + NumBlocks
    BY DEF Requests
  <2>2. hw' \in [Chans -> Setups]
    BY <1>10, <2>1 DEF Program, Setups
  <2>3. asked' \in [Chans -> 0 .. MaxOps]
    BY <1>10, <2>1 DEF Program
  <2>4. /\ flag' \subseteq Chans /\ irqs' \subseteq Chans /\ busy' \subseteq Chans
        /\ finished' \subseteq Chans
    BY <1>10 DEF Program, OpenIrq
  <2>5. /\ pc' = [pc EXCEPT ![c] = "idle"] /\ locker' = FreeMutex
        /\ UNCHANGED <<req, calls, table, alloc, mem, ctl, en, done, trouble>>
    BY <1>10 DEF Program, Step
  <2> QED
    BY <1>10, <2>2, <2>3, <2>4, <2>5 DEF Program, Step
<1>11. ASSUME NEW c \in Chans, Start(c) PROVE TypeOK'
  BY <1>11 DEF Start, Step
<1>12. ASSUME NEW c \in Chans, Stop(c) PROVE TypeOK'
  BY <1>12 DEF Stop, Step, Aborted, AbortFailed, NothingToAbort
<1>13. ASSUME NEW c \in Chans, Free(c) PROVE TypeOK'
  BY <1>13 DEF Free, Step, Forget
<1>14. ASSUME NEW c \in Chans, Close(c) PROVE TypeOK'
  BY <1>14 DEF Close, Step, Quieten
<1>15. ASSUME NEW c \in Chans, Off(c) PROVE TypeOK'
  BY <1>15 DEF Off, Step
<1>16. ASSUME NEW c \in Chans, Transfer(c) PROVE TypeOK'
  BY <1>16 DEF Transfer
<1>17. ASSUME NEW c \in Chans, FGdmaChanIrqHandler(c) PROVE TypeOK'
  BY <1>17 DEF FGdmaChanIrqHandler
<1>18. CASE UNCHANGED vars
  BY <1>18 DEF vars
<1> QED
  BY <1>1, <1>2, <1>3, <1>4, <1>5, <1>6, <1>7, <1>8, <1>9, <1>10, <1>11,
     <1>12, <1>13, <1>14, <1>15, <1>16, <1>17, <1>18 DEF Next, Calls, Task

\* Every step keeps the table and the pool in agreement.
LEMMA TableStep == TypeOK /\ TableInv /\ [Next]_vars => TableInv'
<1> SUFFICES ASSUME TypeOK, TableInv, [Next]_vars PROVE TableInv'
  OBVIOUS
<1> USE Apart DEF TypeOK, TableInv, hwVars, histVars
<1>1. CASE FFreeRTOSGdmaInit
  BY <1>1 DEF FFreeRTOSGdmaInit, FGdmaReset
<1>2. CASE FFreeRTOSGdmaDeInit
  BY <1>2 DEF FFreeRTOSGdmaDeInit, FGdmaReset, AllIdle, Stoppable
<1>3. ASSUME NEW c \in Chans, FFreeRTOSGdmaChanConfigure(c) PROVE TableInv'
  BY <1>3 DEF FFreeRTOSGdmaChanConfigure, Call
<1>4. ASSUME NEW c \in Chans, FFreeRTOSGdmaChanStart(c) PROVE TableInv'
  BY <1>4 DEF FFreeRTOSGdmaChanStart, Call
<1>5. ASSUME NEW c \in Chans, FFreeRTOSGdmaChanStop(c) PROVE TableInv'
  BY <1>5 DEF FFreeRTOSGdmaChanStop, Call
<1>6. ASSUME NEW c \in Chans, FFreeRTOSGdmaChanDeconfigure(c) PROVE TableInv'
  BY <1>6 DEF FFreeRTOSGdmaChanDeconfigure, Call
<1>7. ASSUME NEW c \in Chans, Malloc(c) PROVE TableInv'
  <2>1. CASE Blocks = alloc /\ Step(c, "malloc", "idle")
                /\ UNCHANGED <<table, alloc, mem, flag, hwVars, histVars>>
    BY <2>1 DEF Step
  <2>2. ASSUME Step(c, "malloc", "abort"), UNCHANGED trouble,
               NEW b \in Blocks \ alloc, alloc' = alloc \union {b},
               table' = [table EXCEPT ![c] = b]
        PROVE  TableInv'
    <3>1. table'[c] = b /\ \A d \in Chans \ {c} : table'[d] = table[d]
      BY <2>2
    <3>2. "leftover" \notin trouble =>
            /\ \A d \in Chans : table'[d] # Null => table'[d] \in alloc'
            /\ \A d, e \in Chans :
                 d # e /\ table'[d] # Null => table'[d] # table'[e]
      BY <2>2, <3>1
    <3>3. ASSUME "leftover" \notin trouble, "twice" \notin trouble,
                 NEW x \in alloc'
          PROVE  \E d \in Chans : table'[d] = x
      BY <2>2, <3>1, <3>3 DEF Step
    <3> QED
      BY <2>2, <3>2, <3>3 DEF Step
  <2> QED
    BY <1>7, <2>1, <2>2 DEF Malloc
<1>8. ASSUME NEW c \in Chans, Abort(c) PROVE TableInv'
  BY <1>8 DEF Abort, Step, Aborted, AbortFailed, NothingToAbort
<1>9. ASSUME NEW c \in Chans, Quiet(c) PROVE TableInv'
  BY <1>9 DEF Quiet, Step, Quieten
<1>10. ASSUME NEW c \in Chans, Program(c) PROVE TableInv'
  BY <1>10 DEF Program, Step, OpenIrq, Accepted
<1>11. ASSUME NEW c \in Chans, Start(c) PROVE TableInv'
  BY <1>11 DEF Start, Step
<1>12. ASSUME NEW c \in Chans, Stop(c) PROVE TableInv'
  BY <1>12 DEF Stop, Step, Aborted, AbortFailed, NothingToAbort
<1>13. ASSUME NEW c \in Chans, Free(c) PROVE TableInv'
  BY <1>13 DEF Free, Step, Forget
<1>14. ASSUME NEW c \in Chans, Close(c) PROVE TableInv'
  BY <1>14 DEF Close, Step, Quieten
<1>15. ASSUME NEW c \in Chans, Off(c) PROVE TableInv'
  BY <1>15 DEF Off, Step
<1>16. ASSUME NEW c \in Chans, Transfer(c) PROVE TableInv'
  BY <1>16 DEF Transfer
<1>17. ASSUME NEW c \in Chans, FGdmaChanIrqHandler(c) PROVE TableInv'
  BY <1>17 DEF FGdmaChanIrqHandler
<1>18. CASE UNCHANGED vars
  BY <1>18 DEF vars
<1> QED
  BY <1>1, <1>2, <1>3, <1>4, <1>5, <1>6, <1>7, <1>8, <1>9, <1>10, <1>11,
     <1>12, <1>13, <1>14, <1>15, <1>16, <1>17, <1>18 DEF Next, Calls, Task

\* Every step leaves working channels configured.
LEMMA FlagStep == TypeOK /\ FlagInv /\ [Next]_vars => FlagInv'
<1> SUFFICES ASSUME TypeOK, FlagInv, [Next]_vars PROVE FlagInv'
  OBVIOUS
<1> USE Apart DEF TypeOK, FlagInv, hwVars, histVars
<1>1. CASE FFreeRTOSGdmaInit
  BY <1>1 DEF FFreeRTOSGdmaInit, FGdmaReset
<1>2. CASE FFreeRTOSGdmaDeInit
  BY <1>2 DEF FFreeRTOSGdmaDeInit, FGdmaReset, AllIdle, Stoppable
<1>3. ASSUME NEW c \in Chans, FFreeRTOSGdmaChanConfigure(c) PROVE FlagInv'
  BY <1>3 DEF FFreeRTOSGdmaChanConfigure, Call
<1>4. ASSUME NEW c \in Chans, FFreeRTOSGdmaChanStart(c) PROVE FlagInv'
  BY <1>4 DEF FFreeRTOSGdmaChanStart, Call
<1>5. ASSUME NEW c \in Chans, FFreeRTOSGdmaChanStop(c) PROVE FlagInv'
  BY <1>5 DEF FFreeRTOSGdmaChanStop, Call
<1>6. ASSUME NEW c \in Chans, FFreeRTOSGdmaChanDeconfigure(c) PROVE FlagInv'
  BY <1>6 DEF FFreeRTOSGdmaChanDeconfigure, Call
<1>7. ASSUME NEW c \in Chans, Malloc(c) PROVE FlagInv'
  BY <1>7 DEF Malloc, Step, Written
<1>8. ASSUME NEW c \in Chans, Abort(c) PROVE FlagInv'
  BY <1>8 DEF Abort, Step, Aborted, AbortFailed, NothingToAbort
<1>9. ASSUME NEW c \in Chans, Quiet(c) PROVE FlagInv'
  BY <1>9 DEF Quiet, Step, Quieten
<1>10. ASSUME NEW c \in Chans, Program(c) PROVE FlagInv'
  BY <1>10 DEF Program, Step, OpenIrq, Accepted
<1>11. ASSUME NEW c \in Chans, Start(c) PROVE FlagInv'
  BY <1>11 DEF Start, Step
<1>12. ASSUME NEW c \in Chans, Stop(c) PROVE FlagInv'
  BY <1>12 DEF Stop, Step, Aborted, AbortFailed, NothingToAbort
<1>13. ASSUME NEW c \in Chans, Free(c) PROVE FlagInv'
  BY <1>13 DEF Free, Step, Forget
<1>14. ASSUME NEW c \in Chans, Close(c) PROVE FlagInv'
  BY <1>14 DEF Close, Step, Quieten
<1>15. ASSUME NEW c \in Chans, Off(c) PROVE FlagInv'
  BY <1>15 DEF Off, Step
<1>16. ASSUME NEW c \in Chans, Transfer(c) PROVE FlagInv'
  BY <1>16 DEF Transfer
<1>17. ASSUME NEW c \in Chans, FGdmaChanIrqHandler(c) PROVE FlagInv'
  BY <1>17 DEF FGdmaChanIrqHandler
<1>18. CASE UNCHANGED vars
  BY <1>18 DEF vars
<1> QED
  BY <1>1, <1>2, <1>3, <1>4, <1>5, <1>6, <1>7, <1>8, <1>9, <1>10, <1>11,
     <1>12, <1>13, <1>14, <1>15, <1>16, <1>17, <1>18 DEF Next, Calls, Task

\* Every step keeps TRANS_END with the configuration it belongs to.
LEMMA ReportStep == TypeOK /\ FlagInv /\ ReportInv /\ [Next]_vars => ReportInv'
<1> SUFFICES ASSUME TypeOK, FlagInv, ReportInv, [Next]_vars PROVE ReportInv'
  OBVIOUS
<1> USE Apart DEF TypeOK, FlagInv, ReportInv, hwVars, histVars
<1>1. CASE FFreeRTOSGdmaInit
  BY <1>1 DEF FFreeRTOSGdmaInit, FGdmaReset
<1>2. CASE FFreeRTOSGdmaDeInit
  BY <1>2 DEF FFreeRTOSGdmaDeInit, FGdmaReset, AllIdle, Stoppable
<1>3. ASSUME NEW c \in Chans, FFreeRTOSGdmaChanConfigure(c) PROVE ReportInv'
  BY <1>3 DEF FFreeRTOSGdmaChanConfigure, Call
<1>4. ASSUME NEW c \in Chans, FFreeRTOSGdmaChanStart(c) PROVE ReportInv'
  BY <1>4 DEF FFreeRTOSGdmaChanStart, Call
<1>5. ASSUME NEW c \in Chans, FFreeRTOSGdmaChanStop(c) PROVE ReportInv'
  BY <1>5 DEF FFreeRTOSGdmaChanStop, Call
<1>6. ASSUME NEW c \in Chans, FFreeRTOSGdmaChanDeconfigure(c) PROVE ReportInv'
  BY <1>6 DEF FFreeRTOSGdmaChanDeconfigure, Call
<1>7. ASSUME NEW c \in Chans, Malloc(c) PROVE ReportInv'
  BY <1>7 DEF Malloc, Step, Written
<1>8. ASSUME NEW c \in Chans, Abort(c) PROVE ReportInv'
  BY <1>8 DEF Abort, Step, Aborted, AbortFailed, NothingToAbort
<1>9. ASSUME NEW c \in Chans, Quiet(c) PROVE ReportInv'
  BY <1>9 DEF Quiet, Step, Quieten
<1>10. ASSUME NEW c \in Chans, Program(c) PROVE ReportInv'
  BY <1>10 DEF Program, Step, OpenIrq, Accepted
<1>11. ASSUME NEW c \in Chans, Start(c) PROVE ReportInv'
  BY <1>11 DEF Start, Step
<1>12. ASSUME NEW c \in Chans, Stop(c) PROVE ReportInv'
  BY <1>12 DEF Stop, Step, Aborted, AbortFailed, NothingToAbort
<1>13. ASSUME NEW c \in Chans, Free(c) PROVE ReportInv'
  BY <1>13 DEF Free, Step, Forget
<1>14. ASSUME NEW c \in Chans, Close(c) PROVE ReportInv'
  BY <1>14 DEF Close, Step, Quieten
<1>15. ASSUME NEW c \in Chans, Off(c) PROVE ReportInv'
  BY <1>15 DEF Off, Step
<1>16. ASSUME NEW c \in Chans, Transfer(c) PROVE ReportInv'
  BY <1>16 DEF Transfer
<1>17. ASSUME NEW c \in Chans, FGdmaChanIrqHandler(c) PROVE ReportInv'
  BY <1>17 DEF FGdmaChanIrqHandler
<1>18. CASE UNCHANGED vars
  BY <1>18 DEF vars
<1> QED
  BY <1>1, <1>2, <1>3, <1>4, <1>5, <1>6, <1>7, <1>8, <1>9, <1>10, <1>11,
     <1>12, <1>13, <1>14, <1>15, <1>16, <1>17, <1>18 DEF Next, Calls, Task

\* Every step leaves the descriptors of configured channels alone.
LEMMA DescStep == IInv /\ [Next]_vars => DescInv'
<1> SUFFICES ASSUME IInv, [Next]_vars PROVE DescInv'
  OBVIOUS
<1> USE Apart DEF IInv, TypeOK, FlagInv, DescInv, hwVars, histVars
<1>1. CASE FFreeRTOSGdmaInit
  BY <1>1 DEF FFreeRTOSGdmaInit, FGdmaReset
<1>2. CASE FFreeRTOSGdmaDeInit
  BY <1>2 DEF FFreeRTOSGdmaDeInit, FGdmaReset, AllIdle, Stoppable
<1>3. ASSUME NEW c \in Chans, FFreeRTOSGdmaChanConfigure(c) PROVE DescInv'
  BY <1>3 DEF FFreeRTOSGdmaChanConfigure, Call
<1>4. ASSUME NEW c \in Chans, FFreeRTOSGdmaChanStart(c) PROVE DescInv'
  BY <1>4 DEF FFreeRTOSGdmaChanStart, Call
<1>5. ASSUME NEW c \in Chans, FFreeRTOSGdmaChanStop(c) PROVE DescInv'
  BY <1>5 DEF FFreeRTOSGdmaChanStop, Call
<1>6. ASSUME NEW c \in Chans, FFreeRTOSGdmaChanDeconfigure(c) PROVE DescInv'
  <2> SUFFICES ASSUME trouble' \subseteq {"twice"} PROVE DescInv'
    OBVIOUS
  <2>1. c \notin busy
    BY <1>6 DEF FFreeRTOSGdmaChanDeconfigure, ReportInv
  <2>2. trouble \subseteq {"twice"}
    BY <1>6 DEF FFreeRTOSGdmaChanDeconfigure
  <2> QED
    BY <1>6, <2>1, <2>2 DEF FFreeRTOSGdmaChanDeconfigure, Call
<1>7. ASSUME NEW c \in Chans, Malloc(c) PROVE DescInv'
  <2> SUFFICES ASSUME trouble' \subseteq {"twice"} PROVE DescInv'
    OBVIOUS
  <2>1. CASE Blocks = alloc /\ Step(c, "malloc", "idle")
                /\ UNCHANGED <<table, alloc, mem, flag, hwVars, histVars>>
    BY <2>1 DEF Step
  <2>2. ASSUME Step(c, "malloc", "abort"), NEW b \in Blocks \ alloc,
               alloc' = alloc \union {b}, table' = [table EXCEPT ![c] = b],
               mem' = Written(c, b), UNCHANGED <<flag, hwVars, histVars>>
        PROVE  DescInv'
    <3>1. trouble \subseteq {"twice"}
      BY <2>2
    <3>2. mem'[b] = req[c].id \/ req[c].mode # "bdl"
      BY <2>2, <3>1 DEF Written, Step
    <3>3. \A x \in alloc : mem'[x] = mem[x]
      BY <2>2 DEF Written
    <3>4. table'[c] = b /\ \A d \in Chans \ {c} : table'[d] = table[d]
      BY <2>2
    <3>5. \A d \in Chans \ {c} : pc'[d] = pc[d] /\ pc[d] = "idle"
      BY <2>2 DEF Step
    <3>6. pc'[c] = "abort" /\ pc[c] = "malloc"
      BY <2>2 DEF Step
    <3>7. ASSUME NEW d \in Chans, asked[d] # Null, hw[d].mode = "bdl"
          PROVE  /\ hw[d].at \in alloc' /\ mem'[hw[d].at] = asked[d]
                 /\ \A e \in Chans \ {d} : table'[e] # hw[d].at
      <4>1. /\ hw[d].at \in alloc /\ mem[hw[d].at] = asked[d]
            /\ \A e \in Chans \ {d} : table[e] # hw[d].at
        BY <3>1, <3>7
      <4>2. hw[d].at \in alloc' /\ mem'[hw[d].at] = asked[d]
        BY <2>2, <3>3, <4>1
      <4>3. b # hw[d].at
        BY <4>1
      <4>4. \A e \in Chans \ {d} : table'[e] # hw[d].at
        BY <3>4, <4>1, <4>3
      <4> QED
        BY <4>2, <4>4
    <3> QED
      BY <2>2, <3>1, <3>2, <3>4, <3>5, <3>6, <3>7 DEF Step
  <2> QED
    BY <1>7, <2>1, <2>2 DEF Malloc
<1>8. ASSUME NEW c \in Chans, Abort(c) PROVE DescInv'
  BY <1>8 DEF Abort, Step, Aborted, AbortFailed, NothingToAbort
<1>9. ASSUME NEW c \in Chans, Quiet(c) PROVE DescInv'
  BY <1>9 DEF Quiet, Step, Quieten
<1>10. ASSUME NEW c \in Chans, Program(c) PROVE DescInv'
  <2> SUFFICES ASSUME trouble' \subseteq {"twice"} PROVE DescInv'
    OBVIOUS
  <2>1. trouble \subseteq {"twice"} /\ pc[c] = "program"
    BY <1>10 DEF Program, Step
  <2>2. \A d \in Chans \ {c} : /\ pc'[d] = pc[d] /\ pc[d] = "idle"
                               /\ asked'[d] = asked[d] /\ hw'[d] = hw[d]
    BY <1>10 DEF Program, Step
  <2>3. pc'[c] = "idle" /\ UNCHANGED <<req, table, alloc, mem>>
    BY <1>10 DEF Program, Step
  <2>4. busy' = busy \ {c}
    BY <1>10 DEF Program
  <2>5. ASSUME asked'[c] # Null, hw'[c].mode = "bdl"
        PROVE  /\ hw'[c].at \in alloc /\ mem[hw'[c].at] = asked'[c]
               /\ \A d \in Chans \ {c} : table[d] # hw'[c].at
    <3>1. /\ req[c].mode = "bdl" /\ hw'[c].at = table[c]
          /\ asked'[c] = req[c].id
      BY <1>10, <2>5 DEF Program
    <3> QED
      BY <2>1, <3>1 DEF TableInv
  <2> QED
    BY <2>1, <2>2, <2>3, <2>4, <2>5
<1>11. ASSUME NEW c \in Chans, Start(c) PROVE DescInv'
  BY <1>11 DEF Start, Step
<1>12. ASSUME NEW c \in Chans, Stop(c) PROVE DescInv'
  BY <1>12 DEF Stop, Step, Aborted, AbortFailed, NothingToAbort
<1>13. ASSUME NEW c \in Chans, Free(c) PROVE DescInv'
  BY <1>13 DEF Free, Step, Forget
<1>14. ASSUME NEW c \in Chans, Close(c) PROVE DescInv'
  BY <1>14 DEF Close, Step, Quieten
<1>15. ASSUME NEW c \in Chans, Off(c) PROVE DescInv'
  BY <1>15 DEF Off, Step
<1>16. ASSUME NEW c \in Chans, Transfer(c) PROVE DescInv'
  BY <1>16 DEF Transfer
<1>17. ASSUME NEW c \in Chans, FGdmaChanIrqHandler(c) PROVE DescInv'
  BY <1>17 DEF FGdmaChanIrqHandler
<1>18. CASE UNCHANGED vars
  BY <1>18 DEF vars
<1> QED
  BY <1>1, <1>2, <1>3, <1>4, <1>5, <1>6, <1>7, <1>8, <1>9, <1>10, <1>11,
     <1>12, <1>13, <1>14, <1>15, <1>16, <1>17, <1>18 DEF Next, Calls, Task

\* The initial state satisfies the invariant.
LEMMA InitIInv == Init => IInv
<1> SUFFICES ASSUME Init PROVE IInv
  OBVIOUS
<1> USE Apart DEF Init
<1>1. TypeOK
  <2>1. NoRequest \in Requests
    BY DEF NoRequest, Requests, Modes
  <2>2. [mode |-> "direct", at |-> Null] \in Setups
    BY DEF Setups, Modes
  <2>3. calls \in 0 .. MaxOps
    BY GdmaAssumption
  <2> QED
    BY <2>1, <2>2, <2>3 DEF TypeOK
<1>2. TableInv /\ FlagInv /\ ReportInv /\ DescInv
  BY DEF TableInv, FlagInv, ReportInv, DescInv
<1> QED
  BY <1>1, <1>2 DEF IInv

\* The invariant holds in every reachable state.
LEMMA Inductive == Spec => []IInv
<1>1. IInv /\ [Next]_vars => IInv'
  BY TypeStep, TableStep, FlagStep, ReportStep, DescStep DEF IInv
<1> QED
  BY InitIInv, <1>1, PTL DEF Spec

\* The types of all variables; and a task that is inside a call of the driver
\* holds the mutex, so that no two are.
THEOREM GdmaTypeCorrect == Spec => []TypeOK
<1>1. IInv => TypeOK
  BY DEF IInv
<1> QED
  BY Inductive, <1>1, PTL

\* FFreeRTOSGdmaChanConfigure and FFreeRTOSGdmaChanDeconfigure never lose a
\* block of the descriptor pool and never give one to two channels, whether
\* or not the configuration succeeds.
THEOREM GdmaBlocksOwned == Spec => []BlocksOwned
<1>1. IInv => BlocksOwned
  <2> SUFFICES ASSUME IInv, trouble \intersect {"twice", "leftover"} = {}
               PROVE  /\ alloc = {table[c] : c \in Chans} \ {Null}
                      /\ \A c, d \in Chans :
                           table[c] = table[d] /\ c # d => table[c] = Null
    BY DEF BlocksOwned
  <2>1. alloc \subseteq Blocks /\ Null \notin alloc
    BY Apart DEF IInv, TypeOK
  <2> QED
    BY <2>1 DEF IInv, TableInv
<1> QED
  BY Inductive, <1>1, PTL

\* A working channel in BDL mode reads the descriptors of its own
\* configuration, in memory that nobody has freed or written since.
THEOREM GdmaDescriptorsLive == Spec => []DescriptorsLive
<1>1. IInv => DescriptorsLive
  BY DEF IInv, TypeOK, DescInv, DescriptorsLive
<1> QED
  BY Inductive, <1>1, PTL

\* FGdmaIrqHandler never leaves an open interrupt uncleared: whatever stops,
\* fails or is deconfigured, it belongs to a configured channel.
THEOREM GdmaNoStorm == Spec => []NoStorm
<1>1. IInv => NoStorm
  BY DEF IInv, FlagInv, NoStorm
<1> QED
  BY Inductive, <1>1, PTL

\* The handler of a channel is told of the end of a transfer only when the
\* transfer the channel is configured for has ended.
THEOREM GdmaReportTruthful == Spec => ReportTruthful
<1>1. IInv /\ [Next]_vars =>
        [\A c \in Chans : FGdmaChanIrqHandler(c) =>
           c \in finished \/ "stuck" \in trouble]_vars
  BY DEF IInv, ReportInv, FGdmaChanIrqHandler
<1> QED
  BY Inductive, <1>1, PTL DEF Spec, ReportTruthful
=============================================================================
