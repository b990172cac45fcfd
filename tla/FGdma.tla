------------------------------- MODULE FGdma -------------------------------
(***************************************************************************)
(* The GDMA driver (fgdma_os.c on fgdma.c and fgdma_intr.c): one task per  *)
(* channel configures, starts, stops and deconfigures its channel under a  *)
(* mutex, while the controller works and interrupts.  In BDL mode the      *)
(* descriptors of a channel are in a block of the instance's memory pool;  *)
(* channel_first_desc_addr remembers it for the day it is freed.           *)
(*                                                                         *)
(* A configuration is known by the number of the call that made it.        *)
(* Addresses and lengths are only well aligned or not.                     *)
(***************************************************************************)
EXTENDS Integers, FiniteSets

CONSTANTS
  NumChans,   \* FGDMA_NUM_OF_CHAN
  NumBlocks,  \* descriptor lists that fit the memory pool
  MaxOps,     \* bound on the calls of a behaviour
  Faults      \* whether a channel may fail to stop in time

ASSUME GdmaAssumption ==
  /\ NumChans \in Nat \ {0} /\ NumBlocks \in Nat /\ MaxOps \in Nat
  /\ Faults \in BOOLEAN

Chans == 0 .. NumChans - 1
Blocks == 1 .. NumBlocks
Null == 0    \* no block; also the number of no call, and of zeroed memory

VARIABLES
  locker,     \* -2: NULL, -1: free, or the channel whose task holds it
  table,      \* channel_first_desc_addr
  alloc,      \* blocks of the pool that are allocated
  mem,        \* by block: the call that wrote the descriptors in it
  flag,       \* chan_ready_flag
  ctl,        \* FGDMA_CTL_ENABLE
  en, irqs,   \* channels that are enabled; whose interrupt is open
  busy, done, \* channels with work to do; with TRANS_END in their status
  hw,         \* by channel: how its registers are set up
  pc, req,    \* by task: its place in a call; the configuration it asks for
  calls,      \* calls so far
  asked,      \* by channel: last configuration reported as done, or Null
  finished,   \* channels whose configured transfer has ended
  trouble     \* what a caller has done that the driver cannot stand

histVars == <<asked, finished, trouble>>
hwVars == <<ctl, en, irqs, busy, done, hw>>
vars == <<locker, table, alloc, mem, flag, hwVars, pc, req, calls, histVars>>

NoMutex == -2
FreeMutex == -1

Modes == {"direct", "bdl"}
Requests == [mode : Modes, aligned : BOOLEAN, id : 0 .. MaxOps]
\* In BDL mode a channel has the address of its descriptors, otherwise the
\* transfer itself.
Setups == [mode : Modes, at : 0 .. MaxOps + NumBlocks]

\* The type of every variable.
TypeOK ==
  /\ locker \in Chans \union {NoMutex, FreeMutex}
  /\ table \in [Chans -> Blocks \union {Null}]
  /\ alloc \subseteq Blocks /\ mem \in [Blocks -> 0 .. MaxOps]
  /\ flag \subseteq Chans /\ en \subseteq Chans /\ irqs \subseteq Chans
  /\ busy \subseteq Chans /\ done \subseteq Chans /\ finished \subseteq Chans
  /\ ctl \in BOOLEAN /\ hw \in [Chans -> Setups]
  /\ pc \in [Chans -> {"idle", "malloc", "abort", "quiet", "program",
                       "start", "stop", "free", "close", "off"}]
  /\ req \in [Chans -> Requests] /\ calls \in 0 .. MaxOps
  /\ asked \in [Chans -> 0 .. MaxOps]
  /\ trouble \subseteq {"hasty", "leftover", "twice", "unaligned", "stuck"}
  /\ \A c \in Chans : pc[c] # "idle" => locker = c

NoRequest == [mode |-> "direct", aligned |-> TRUE, id |-> Null]

Init ==
  /\ locker = NoMutex /\ table = [c \in Chans |-> Null] /\ alloc = {}
  /\ mem = [b \in Blocks |-> Null] /\ flag = {} /\ ctl = FALSE /\ en = {}
  /\ irqs = {} /\ busy = {} /\ done = {}
  /\ hw = [c \in Chans |-> [mode |-> "direct", at |-> Null]]
  /\ pc = [c \in Chans |-> "idle"] /\ req = [c \in Chans |-> NoRequest]
  /\ calls = 0 /\ asked = [c \in Chans |-> Null] /\ finished = {}
  /\ trouble = {}

-----------------------------------------------------------------------------
(* The instance *)

AllIdle == \A c \in Chans : pc[c] = "idle"

\* FGdmaReset; the table is not touched.  It clears the interrupts of the
\* channels that are ready, and its soft reset those of the others.
FGdmaReset ==
  /\ ctl' = FALSE /\ en' = {} /\ irqs' = {} /\ busy' = {} /\ done' = {}
  /\ flag' = {} /\ asked' = [c \in Chans |-> Null] /\ finished' = {}
  /\ UNCHANGED <<mem, hw, pc, req>>

\* Called once; a second call fails an assertion.
FFreeRTOSGdmaInit ==
  /\ locker = NoMutex /\ calls < MaxOps /\ calls' = calls + 1
  /\ FGdmaReset /\ locker' = FreeMutex
  /\ UNCHANGED <<table, alloc, trouble>>

\* FGdmaGlobalStop goes through the channels up to the first that is not
\* configured.
Stoppable == {c \in Chans : 0 .. c \subseteq flag}

\* The tasks are done with the instance.  A channel that does not stop is
\* reported and ends the call; those before it have been stopped.
FFreeRTOSGdmaDeInit ==
  /\ locker = FreeMutex /\ AllIdle /\ calls < MaxOps /\ calls' = calls + 1
  /\ \/ /\ FGdmaReset /\ locker' = NoMutex /\ alloc' = {}
        /\ trouble' = trouble \union
             (IF \E c \in Chans : table[c] # Null THEN {"leftover"} ELSE {})
     \/ /\ Faults
        /\ \E c \in Stoppable \intersect busy :
             en' = en \ (0 .. c) /\ busy' = busy \ (0 .. c - 1)
        /\ trouble' = trouble \union {"stuck"}
        /\ UNCHANGED <<locker, alloc, mem, flag, ctl, irqs, done, hw, pc,
                       req, asked, finished>>
  /\ UNCHANGED table

-----------------------------------------------------------------------------
(* Calls of the task of channel c *)

\* The mutex is taken.
Call(c, first) ==
  /\ locker = FreeMutex /\ locker' = c /\ calls < MaxOps
  /\ calls' = calls + 1 /\ pc' = [pc EXCEPT ![c] = first]
  /\ UNCHANGED <<table, alloc, mem, flag, hwVars>>

Step(c, from, to) ==
  /\ pc[c] = from /\ pc' = [pc EXCEPT ![c] = to]
  /\ locker' = IF to = "idle" THEN FreeMutex ELSE locker
  /\ UNCHANGED <<req, calls>>

FFreeRTOSGdmaChanConfigure(c) ==
  \E m \in Modes, a \in BOOLEAN :
    /\ Call(c, IF m = "bdl" THEN "malloc" ELSE "abort")
    /\ req' = [req EXCEPT ![c] = [mode |-> m, aligned |-> a, id |-> calls + 1]]
    /\ trouble' = trouble
         \union (IF m = "bdl" /\ ~a THEN {"unaligned"} ELSE {})
         \union (IF m = "bdl" /\ table[c] # Null THEN {"twice"} ELSE {})
    /\ UNCHANGED <<asked, finished>>

\* FGdmaBDLSetDesc refuses bad addresses and leaves what was there before;
\* nobody looks at its result.
Written(c, b) ==
  [mem EXCEPT ![b] = IF req[c].aligned THEN req[c].id ELSE @]

Malloc(c) ==
  \/ /\ Step(c, "malloc", "abort")
     /\ \E b \in Blocks \ alloc :
          /\ alloc' = alloc \union {b} /\ table' = [table EXCEPT ![c] = b]
          /\ mem' = Written(c, b)
     /\ UNCHANGED <<flag, hwVars, histVars>>
  \/ /\ Blocks = alloc /\ Step(c, "malloc", "idle")
     /\ UNCHANGED <<table, alloc, mem, flag, hwVars, histVars>>

\* FGdmaChanAbort: a channel that was configured is disabled, and given time
\* to finish what it does.
Mut_Aborted(c) == c \in flag /\ en' = en \ {c} /\ UNCHANGED busy
Aborted(c) == c \in flag /\ en' = en \ {c} /\ busy' = busy \ {c}
AbortFailed(c) ==
  /\ Faults /\ c \in flag \intersect busy
  /\ en' = en \ {c} /\ UNCHANGED busy /\ trouble' = trouble \union {"stuck"}
NothingToAbort(c) == c \notin flag /\ UNCHANGED <<en, busy>>

\* Nobody looks at its result here.
Abort(c) ==
  /\ Step(c, "abort", "quiet")
  /\ \/ (Aborted(c) \/ NothingToAbort(c)) /\ UNCHANGED trouble
     \/ AbortFailed(c)
  /\ UNCHANGED <<table, alloc, mem, flag, ctl, irqs, done, hw, asked,
                 finished>>

\* FGdmaChanIrqDisable, FGdmaClearChanStatus.
Mut_QuietenLate(c) == done' = done \ {c} /\ UNCHANGED irqs
Mut_Quieten(c) == irqs' = irqs \ {c} /\ UNCHANGED done
Quieten(c) == irqs' = irqs \ {c} /\ done' = done \ {c}

Quiet(c) ==
  /\ Step(c, "quiet", "program") /\ Quieten(c)
  /\ UNCHANGED <<table, alloc, mem, flag, ctl, en, busy, hw, histVars>>

\* FGdmaChanBDLSetTrans only looks for descriptors that are zero.
Accepted(c) ==
  IF req[c].mode = "bdl" THEN mem[table[c]] # Null ELSE req[c].aligned

\* FGdmaChanSoftReset discards what the channel still has to do; then the
\* registers are set up.  The interrupt of a BDL channel is opened before
\* the descriptors are looked at.
Mut_OpenIrq(c, ok) == irqs
OpenIrq(c, ok) ==
  IF ok \/ req[c].mode = "bdl" THEN irqs \union {c} ELSE irqs

Program(c) ==
  LET m == req[c].mode  ok == Accepted(c)
  IN /\ Step(c, "program", "idle") /\ busy' = busy \ {c}
     /\ irqs' = OpenIrq(c, ok)
     /\ IF ok
          THEN /\ hw' = [hw EXCEPT ![c] =
                    [mode |-> m,
                     at |-> IF m = "bdl" THEN table[c] ELSE req[c].id]]
               /\ flag' = flag \union {c}
               /\ asked' = [asked EXCEPT ![c] = req[c].id]
               /\ finished' = finished \ {c}
          ELSE /\ asked' = [asked EXCEPT ![c] = Null]
               /\ UNCHANGED <<hw, flag, finished>>
     /\ UNCHANGED <<table, alloc, mem, ctl, en, done, trouble>>

\* The caller has configured the channel, and starts it only if its last
\* configuration was accepted.  The code asserts less: chan_ready_flag is
\* still set when an earlier configuration was accepted and the last was not.
FFreeRTOSGdmaChanStart(c) ==
  /\ asked[c] # Null /\ Call(c, "start") /\ UNCHANGED <<req, histVars>>

\* FGdmaChanStartTrans.  Its soft reset of the controller is for instances
\* whose capability has FGDMA_TRANS_NEED_RESET_MASK, which none of the SoCs
\* sets (FGDMA0_CAPACITY); it is left out.
Start(c) ==
  /\ Step(c, "start", "idle")
  /\ en' = en \union {c} /\ ctl' = TRUE /\ busy' = busy \union {c}
  /\ UNCHANGED <<table, alloc, mem, flag, irqs, done, hw, histVars>>

FFreeRTOSGdmaChanStop(c) ==
  Call(c, "stop") /\ UNCHANGED <<req, histVars>>

Stop(c) ==
  /\ Step(c, "stop", "idle")
  /\ \/ (Aborted(c) \/ NothingToAbort(c)) /\ UNCHANGED trouble
     \/ AbortFailed(c)
  /\ UNCHANGED <<table, alloc, mem, flag, ctl, irqs, done, hw, asked,
                 finished>>

FFreeRTOSGdmaChanDeconfigure(c) ==
  /\ Call(c, "free") /\ UNCHANGED <<req, finished>>
  /\ asked' = [asked EXCEPT ![c] = Null]
  /\ trouble' = trouble \union (IF c \in busy \intersect en
                                    THEN {"hasty"} ELSE {})

\* The descriptors are freed first, ...
Mut_Forget(c) == table
Forget(c) == [table EXCEPT ![c] = Null]

Free(c) ==
  /\ Step(c, "free", IF c \in flag THEN "close" ELSE "idle")
  /\ alloc' = alloc \ {table[c]} /\ table' = Forget(c)
  /\ UNCHANGED <<mem, flag, hwVars, histVars>>

\* ... then FGdmaChanDeconfigure closes the interrupt, ...
Close(c) ==
  /\ Step(c, "close", "off") /\ Quieten(c)
  /\ UNCHANGED <<table, alloc, mem, flag, ctl, en, busy, hw, histVars>>

\* ... and stops and resets the channel.
Off(c) ==
  /\ Step(c, "off", "idle")
  /\ en' = en \ {c} /\ busy' = busy \ {c} /\ flag' = flag \ {c}
  /\ UNCHANGED <<table, alloc, mem, ctl, irqs, done, hw, histVars>>

-----------------------------------------------------------------------------
\* The controller (external) ends the transfer of a channel.
Transfer(c) ==
  /\ ctl /\ c \in busy
  /\ busy' = busy \ {c} /\ done' = done \union {c}
  /\ finished' = finished \union {c}
  /\ UNCHANGED <<locker, table, alloc, mem, flag, ctl, en, irqs, hw, pc, req,
                 calls, asked, trouble>>

\* FGdmaIrqHandler and FGdmaChanIrqHandler report the end to the user and
\* clear the status.  The status of a channel that is not configured stays.
FGdmaChanIrqHandler(c) ==
  /\ c \in done \intersect irqs \intersect flag /\ done' = done \ {c}
  /\ UNCHANGED <<locker, table, alloc, mem, flag, ctl, en, irqs, busy, hw,
                 pc, req, calls, histVars>>

Task(c) ==
  \/ Malloc(c) \/ Abort(c) \/ Quiet(c) \/ Program(c) \/ Start(c) \/ Stop(c)
  \/ Free(c) \/ Close(c) \/ Off(c)

Calls(c) ==
  \/ FFreeRTOSGdmaChanConfigure(c) \/ FFreeRTOSGdmaChanStart(c)
  \/ FFreeRTOSGdmaChanStop(c) \/ FFreeRTOSGdmaChanDeconfigure(c)

Next ==
  \/ FFreeRTOSGdmaInit \/ FFreeRTOSGdmaDeInit
  \/ \E c \in Chans :
       Calls(c) \/ Task(c) \/ Transfer(c) \/ FGdmaChanIrqHandler(c)

Spec == Init /\ [][Next]_vars

\* Ready tasks run, a pending interrupt is taken, transfers end.
Fairness ==
  \A c \in Chans : /\ WF_vars(Task(c)) /\ WF_vars(Transfer(c))
                   /\ WF_vars(FGdmaChanIrqHandler(c))
FairSpec == Spec /\ Fairness

-----------------------------------------------------------------------------
(* Properties *)

\* A block of the pool belongs to the channel that will free it, and to no
\* other; none is lost when a configuration fails.  (It is lost when a BDL
\* channel is configured again before it is deconfigured; and the table
\* keeps the blocks of a pool that FFreeRTOSGdmaDeInit has destroyed, so
\* that a later FFreeRTOSGdmaChanDeconfigure frees them in the new pool.)
BlocksOwned ==
  trouble \intersect {"twice", "leftover"} = {} =>
    /\ alloc = {table[c] : c \in Chans} \ {Null}
    /\ \A c, d \in Chans : table[c] = table[d] /\ c # d => table[c] = Null

\* A working BDL channel reads the descriptors of its own configuration, in
\* memory that has not been freed.  (FFreeRTOSGdmaChanDeconfigure frees
\* them before it stops the channel, so the caller must have stopped it;
\* misaligned requests leave the descriptors of another configuration.)
DescriptorsLive ==
  trouble \subseteq {"twice"} =>
    \A c \in busy :
      ctl /\ hw[c].mode = "bdl" =>
        /\ hw[c].at \in alloc
        /\ pc[c] = "idle" => mem[hw[c].at] = asked[c]

\* The end of a transfer is reported only when the transfer the channel is
\* configured for has ended.
ReportTruthful ==
  [][\A c \in Chans : FGdmaChanIrqHandler(c) =>
       c \in finished \/ "stuck" \in trouble]_vars

\* The handler clears every interrupt it is called for: none that is open
\* belongs to a channel that it skips.
NoStorm == done \intersect irqs \subseteq flag

\* A transfer that was started is stopped, or ends and is reported, as long
\* as its channel stays configured.
TransferReported ==
  \A c \in Chans :
    ~<>[](c \in (busy \intersect en) \union done /\ ctl /\ asked[c] # Null)
=============================================================================
