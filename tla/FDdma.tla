------------------------------- MODULE FDdma -------------------------------
(***************************************************************************)
(* The DDMA driver (fddma_os.c on fddma.c, fddma_bdl.c, fddma_intr.c and   *)
(* fddma_hw.c): one task per channel uses the controller, and all channels *)
(* share its control, interrupt-mask and bind registers.  These are        *)
(* changed by a read and a later write, so the order in which two tasks    *)
(* change one register matters.  Most operations hold the mutex; the two   *)
(* for descriptor lists (BDL) do not.                                      *)
(*                                                                         *)
(* An operation is a list of register changes that its task works off.     *)
(* Addresses, lengths and slave ids are not modelled; arguments are valid. *)
(***************************************************************************)
EXTENDS Integers, Sequences

CONSTANTS
  Chans,     \* channels in use, and the tasks that use them
  MaxOps,    \* bound on the operations of a behaviour
  Faults     \* whether a channel may fail to stop in time

ASSUME DdmaAssumption ==
  /\ MaxOps \in Nat /\ Faults \in BOOLEAN
  /\ {"G", "free", "null", "unread"} \intersect Chans = {}

VARIABLES
  ready,     \* is_ready
  locker,    \* "null", "free" or the task that holds the mutex
  reg,       \* shared registers and bind_status: bits that are set
  en, work,  \* channels with FDDMA_CHAN_CTL_EN; with data to transfer
  done,      \* channels with a completed request in FDDMA_STA
  prog, tmp, \* what is left of each task's operation; the value it has read
  ops,       \* operations so far
  owned,     \* channels set up, with a handler, and not yet revoked
  bdl,       \* channels set up for descriptor lists
  running,   \* channels started and neither reported nor stopped since
  unlocked,  \* tasks in an operation that takes no mutex
  overlap,   \* such an operation and another one have run at a time
  failed     \* an assertion has failed

histVars == <<owned, bdl, running, unlocked, overlap, failed>>
vars == <<ready, locker, reg, en, work, done, prog, tmp, ops, histVars>>

\* CTL holds the enable bit, MASK the global and the channel interrupts.
Registers == {"CTL", "MASK", "BIND", "bind_status"}
Bits == Chans \union {"G"}
Width(r) == IF r = "CTL" THEN {"G"} ELSE IF r = "MASK" THEN Bits ELSE Chans
Unread == {"unread"}
LocalOps == {"assert", "clear", "enable", "own", "own_bdl", "release"}
Instructions ==
  {i \in [op : {"or", "and"}, reg : Registers, bit : Bits] :
     i.bit \in Width(i.reg)}
    \union [op : {"disable"}, chan : Chans, skip : Nat]
    \union [op : LocalOps, chan : Chans]

Idle(c) == prog[c] = <<>>

\* The type of every variable; a task reads a register only to write it.
TypeOK ==
  /\ ready \in BOOLEAN /\ overlap \in BOOLEAN /\ failed \in BOOLEAN
  /\ ops \in 0 .. MaxOps /\ locker \in Chans \union {"free", "null"}
  /\ reg \in [Registers -> SUBSET Bits]
  /\ \A r \in Registers : reg[r] \subseteq Width(r)
  /\ en \subseteq Chans /\ work \subseteq Chans /\ done \subseteq Chans
  /\ owned \subseteq Chans /\ bdl \subseteq Chans /\ running \subseteq Chans
  /\ unlocked \subseteq Chans
  /\ prog \in [Chans -> Seq(Instructions)]
  /\ tmp \in [Chans -> (SUBSET Bits) \union {Unread}]
  /\ \A c \in Chans :
       tmp[c] # Unread => /\ ~Idle(c) /\ Head(prog[c]).op \in {"or", "and"}
                          /\ tmp[c] \subseteq Width(Head(prog[c]).reg)

Init ==
  /\ ready = FALSE /\ locker = "null" /\ reg = [r \in Registers |-> {}]
  /\ en = {} /\ work = {} /\ done = {}
  /\ prog = [c \in Chans |-> <<>>] /\ tmp = [c \in Chans |-> Unread]
  /\ ops = 0 /\ owned = {} /\ bdl = {} /\ running = {} /\ unlocked = {}
  /\ overlap = FALSE /\ failed = FALSE

-----------------------------------------------------------------------------
(* Operations as lists of instructions *)

Or(r, b) == [op |-> "or", reg |-> r, bit |-> b]
And(r, b) == [op |-> "and", reg |-> r, bit |-> b]
Do(o, c) == [op |-> o, chan |-> c]

Mut_FDdmaStart == <<Or("CTL", "G")>>
FDdmaStart == <<Or("MASK", "G"), Or("CTL", "G")>>
FDdmaStop == <<And("CTL", "G"), And("MASK", "G")>>

\* FDdmaDisableChan waits for the channel to stop; when it does not, the
\* caller leaves out the next k instructions.
FDdmaDisableChan(c, k) == <<[op |-> "disable", chan |-> c, skip |-> k]>>

Mut_FDdmaChanDeconfigure(c, k) ==
  FDdmaDisableChan(c, 3 + k) \o
  <<And("MASK", c), And("BIND", c), And("bind_status", c)>>
FDdmaChanDeconfigure(c, k) ==
  FDdmaDisableChan(c, 4 + k) \o
  <<And("MASK", c), Do("clear", c), And("BIND", c), And("bind_status", c)>>

\* The whole controller is stopped to configure a channel.
FDdmaChanConfigure(c) ==
  FDdmaStop \o FDdmaChanDeconfigure(c, 0)
    \o <<Or("BIND", c), Or("bind_status", c)>>

FDdmaChanActive(c) ==
  <<Do("assert", c), Do("clear", c), Do("enable", c), Or("MASK", c)>>

SetupChannel(c) == FDdmaChanConfigure(c) \o <<Do("own", c)>>
SetupBDLChannel(c) == <<Or("bind_status", c), Do("own_bdl", c)>>
RevokeChannel(c) ==
  FDdmaDisableChan(c, 6) \o FDdmaChanDeconfigure(c, 1) \o <<Do("release", c)>>
StartChannel(c) == FDdmaChanActive(c) \o FDdmaStart
StopChannel(c) == FDdmaDisableChan(c, 0)

-----------------------------------------------------------------------------
(* Calls *)

AllIdle == \A c \in Chans : Idle(c)

\* FDdmaReset, in a critical section: nothing runs in between.
FDdmaReset ==
  /\ reg' = [r \in Registers |-> {}]
  /\ en' = {} /\ work' = {} /\ done' = {}
  /\ owned' = {} /\ bdl' = {} /\ running' = {}
  /\ UNCHANGED <<prog, tmp, unlocked, overlap, failed>>

FFreeRTOSDdmaInit ==
  /\ ~ready /\ ops < MaxOps /\ ops' = ops + 1
  /\ FDdmaReset /\ ready' = TRUE /\ locker' = "free"

\* The tasks are done with the instance.
FFreeRTOSDdmaDeinit ==
  /\ ready /\ AllIdle
  /\ FDdmaReset /\ ready' = FALSE /\ locker' = "null" /\ UNCHANGED ops

Begin(c, p) ==
  /\ ready /\ Idle(c) /\ ops < MaxOps /\ ops' = ops + 1
  /\ prog' = [prog EXCEPT ![c] = p]
  /\ UNCHANGED <<ready, reg, en, work, done, tmp, owned, bdl, failed>>

\* FDdmaOsTakeSema.
Mut_TakeSema(c) == UNCHANGED locker
TakeSema(c) == locker = "free" /\ locker' = c

Locked(c) ==
  /\ TakeSema(c) /\ UNCHANGED unlocked
  /\ overlap' = (overlap \/ unlocked # {})
Unlocked(c) ==
  /\ unlocked' = unlocked \union {c} /\ UNCHANGED locker
  /\ overlap' = (overlap \/ ~AllIdle)

\* A channel that is enabled or bound is refused.
FFreeRTOSDdmaSetupChannel(c) ==
  /\ c \notin en /\ c \notin reg["bind_status"]
  /\ Locked(c) /\ Begin(c, SetupChannel(c)) /\ running' = running \ {c}

FFreeRTOSDdmaRevokeChannel(c) ==
  /\ Locked(c) /\ Begin(c, RevokeChannel(c)) /\ running' = running \ {c}

\* For a channel that is enabled the call does nothing (and reports
\* success).  The caller has set the channel up.
FFreeRTOSDdmaStartChannel(c) ==
  /\ c \notin en /\ c \in owned
  /\ Locked(c) /\ Begin(c, StartChannel(c)) /\ UNCHANGED running

FFreeRTOSDdmaStopChannel(c) ==
  /\ Locked(c) /\ Begin(c, StopChannel(c)) /\ running' = running \ {c}

FFreeRTOSDdmaStop(c) ==
  /\ Locked(c) /\ Begin(c, FDdmaStop) /\ UNCHANGED running

\* The operations for descriptor lists take no mutex, and a channel may be
\* set up while it is enabled or bound.
FFreeRTOSDdmaSetupBDLChannel(c) ==
  /\ Unlocked(c) /\ Begin(c, SetupBDLChannel(c)) /\ UNCHANGED running

FFreeRTOSDdmaBDLStartChannel(c) ==
  /\ c \notin en /\ c \in owned
  /\ Unlocked(c) /\ Begin(c, StartChannel(c)) /\ UNCHANGED running

-----------------------------------------------------------------------------
(* Steps of an operation *)

At(c, O) == ~Idle(c) /\ Head(prog[c]).op \in O /\ ~failed

\* At the end of an operation the mutex is given back.
Advance(c, k) ==
  LET p == SubSeq(prog[c], k + 1, Len(prog[c]))
  IN /\ prog' = [prog EXCEPT ![c] = p]
     /\ locker' = IF p = <<>> /\ locker = c THEN "free" ELSE locker
     /\ unlocked' = IF p = <<>> THEN unlocked \ {c} ELSE unlocked

\* A register is read, ...
ReadReg(c) ==
  /\ At(c, {"or", "and"}) /\ tmp[c] = Unread
  /\ tmp' = [tmp EXCEPT ![c] = reg[Head(prog[c]).reg]]
  /\ UNCHANGED <<ready, locker, reg, en, work, done, prog, ops, histVars>>

\* ... and written.
WriteReg(c) ==
  LET i == Head(prog[c])
  IN /\ At(c, {"or", "and"}) /\ tmp[c] # Unread
     /\ reg' = [reg EXCEPT ![i.reg] = IF i.op = "or"
                                        THEN tmp[c] \union {i.bit}
                                        ELSE tmp[c] \ {i.bit}]
     /\ tmp' = [tmp EXCEPT ![c] = Unread] /\ Advance(c, 1)
     /\ UNCHANGED <<ready, en, work, done, ops, owned, bdl, running, overlap,
                    failed>>

DisableChan(c) ==
  /\ At(c, {"disable"})
  /\ \/ en' = en \ {c} /\ Advance(c, 1)
     \/ /\ Faults /\ c \in en /\ UNCHANGED en
        /\ Advance(c, 1 + Head(prog[c]).skip)
  /\ UNCHANGED <<ready, reg, work, done, tmp, ops, owned, bdl, running,
                 overlap, failed>>

\* FDdmaClearChanIrq.
ClearChanIrq(c) ==
  /\ At(c, {"clear"}) /\ done' = done \ {c} /\ Advance(c, 1)
  /\ UNCHANGED <<ready, reg, en, work, tmp, ops, owned, bdl, running,
                 overlap, failed>>

\* FDdmaEnableChan.
EnableChan(c) ==
  /\ At(c, {"enable"}) /\ Advance(c, 1)
  /\ en' = en \union {c} /\ work' = work \union {c}
  /\ running' = running \union {c}
  /\ UNCHANGED <<ready, reg, done, tmp, ops, owned, bdl, overlap, failed>>

\* FASSERT(bind_status & BIT(channel_id)).
AssertBound(c) ==
  /\ At(c, {"assert"}) /\ Advance(c, 1)
  /\ failed' = (c \notin reg["bind_status"])
  /\ UNCHANGED <<ready, reg, en, work, done, tmp, ops, owned, bdl, running,
                 overlap>>

\* FDdmaRegisterChanEvtHandler ends a setup; the last step of a revocation.
Own(c) ==
  LET o == Head(prog[c]).op
  IN /\ At(c, {"own", "own_bdl", "release"}) /\ Advance(c, 1)
     /\ owned' = IF o = "release" THEN owned \ {c} ELSE owned \union {c}
     /\ bdl' = IF o = "own_bdl" THEN bdl \union {c} ELSE bdl \ {c}
     /\ UNCHANGED <<ready, reg, en, work, done, tmp, ops, running, overlap,
                    failed>>

-----------------------------------------------------------------------------
\* The interrupt handler serves all channels that are done, also those whose
\* interrupt is masked; their handlers are called.  The global interrupt is
\* closed and opened again.
FDdmaIrqHandler ==
  /\ "G" \in reg["MASK"] /\ done \intersect reg["MASK"] # {} /\ ~failed
  /\ done' = {} /\ running' = running \ done
  /\ UNCHANGED <<ready, locker, reg, en, work, prog, tmp, ops, owned, bdl,
                 unlocked, overlap, failed>>

\* The controller (external): a transfer ends.
Transfer(c) ==
  /\ "G" \in reg["CTL"] /\ c \in en \intersect work
  /\ c \in reg["BIND"] \union bdl
  /\ work' = work \ {c} /\ done' = done \union {c}
  /\ UNCHANGED <<ready, locker, reg, en, prog, tmp, ops, histVars>>

Task(c) ==
  \/ ReadReg(c) \/ WriteReg(c) \/ DisableChan(c) \/ ClearChanIrq(c)
  \/ EnableChan(c) \/ AssertBound(c) \/ Own(c)

Call(c) ==
  \/ FFreeRTOSDdmaSetupChannel(c) \/ FFreeRTOSDdmaRevokeChannel(c)
  \/ FFreeRTOSDdmaStartChannel(c) \/ FFreeRTOSDdmaStopChannel(c)
  \/ FFreeRTOSDdmaStop(c)
  \/ FFreeRTOSDdmaSetupBDLChannel(c) \/ FFreeRTOSDdmaBDLStartChannel(c)

Next ==
  \/ FFreeRTOSDdmaInit \/ FFreeRTOSDdmaDeinit
  \/ \E c \in Chans : Call(c) \/ Task(c) \/ Transfer(c)
  \/ FDdmaIrqHandler

Spec == Init /\ [][Next]_vars

\* Ready tasks run, a pending interrupt is taken, transfers end.
Fairness ==
  /\ \A c \in Chans : WF_vars(Task(c)) /\ WF_vars(Transfer(c))
  /\ WF_vars(FDdmaIrqHandler)
FairSpec == Spec /\ Fairness

-----------------------------------------------------------------------------
(* Properties *)

\* Unless an operation without the mutex has run at the same time as another,
\* the assertion of FDdmaChanActive never fails for a channel that was set up,
\* and between operations the shared registers fit together: the controller
\* and its interrupt are on or off together, the interrupts of enabled
\* channels are open, and bind_status agrees with the bind register.
RegistersAgree ==
  ~overlap =>
    /\ ~failed
    /\ AllIdle =>
         /\ "G" \in reg["CTL"] <=> "G" \in reg["MASK"]
         /\ en \subseteq reg["MASK"]
         /\ reg["BIND"] \subseteq reg["bind_status"]
         /\ reg["bind_status"] \subseteq reg["BIND"] \union bdl

\* No handler is called for a channel after FFreeRTOSDdmaRevokeChannel has
\* returned success: its user may have released what the handler uses.
NoCallAfterRevoke ==
  [][FDdmaIrqHandler => \A c \in done : c \in owned \/ ~Idle(c) \/ overlap]_vars

\* A started transfer is reported, as long as nobody stops its channel or
\* the controller, with the same exception.
TransferReported ==
  \A c \in Chans :
    ~<>[](c \in running /\ "G" \in reg["CTL"] /\ ~overlap)
=============================================================================
