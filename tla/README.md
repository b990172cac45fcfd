# Formal model of the Phytium FreeRTOS SDK drivers

The repository is a C SDK that runs FreeRTOS on Phytium ARMv8 chips. Its own
logic is a set of device drivers in two layers: `standalone/drivers/` programs
a controller (registers, FIFOs, descriptors, interrupt handlers), and
`drivers/` makes it usable by FreeRTOS tasks (mutexes, event groups,
semaphores, the lwIP glue). Everything else is vendored (FreeRTOS kernel, lwIP,
newlib, mbedtls, acpica, lvgl, CherryUSB), board files or examples.

The drivers are hard to test where a task, an interrupt handler and a DMA
engine or controller share state without a common lock. This project models
that: TLA+ modules translated from the C code, TLC configurations, and TLAPS
proofs. Paths below are relative to the repository.

## 1. Inventory

| component | state | operations | interacts with | what makes it correct |
|---|---|---|---|---|
| XMAC BD rings (`standalone/drivers/eth/fxmac/fxmac_bdring.c`) | four group counters and five pointers per ring, NEW/USED/LAST bits of the BDs | Create, Alloc, UnAlloc, ToHw, FromHwRx, FromHwTx, Free | called by the XMAC driver; the BDs are shared with the DMA engine | the groups free, pre, hw and post partition the ring |
| XMAC receive (`drivers/eth/xmac/fxmac_os.c`, `fxmac_intr.c`, `ethernetif.c`, `lwip_port.c`) | receive ring, `rx_pbufs_storage`, `recv_q`, semaphore, interrupt enable and status registers | interrupt and error handlers, input thread, FXmacRecvHandler, SetupRxBds, FXmacOsRx | DMA engine, pbuf pool, lwIP | frames delivered in order, none stuck; no pbuf lost or used twice; no NULL pbuf |
| XMAC transmit (`drivers/eth/xmac/fxmac_os.c`) | transmit ring, `tx_pbufs_storage` | FXmacOsTx, FXmacProcessSentBds, FXmacSgsend, error handlers | lwIP threads, DMA engine, error interrupt | a pbuf is freed only when sent; only complete packets are fetched; a send ends |
| XMAC bring-up, PHY, link (`fxmac.c`, `fxmac_phy.c`) | registers, link state | init, start, stop, link polling | the two above | rings match the hardware pointers |
| SPI master (`drivers/spi/fspim/`, `standalone/drivers/spi/fspim/`) | mutex, event group, FIFO counters, interrupt masks | Init, DeInit, Transfer, interrupt handler | tasks, timer task, controller | FIFOs cannot overflow; success means done; the mutex comes back |
| I2C master (`drivers/i2c/fi2c/`, `standalone/drivers/i2c/fi2c/`) | mutex, event group, status, message, FIFOs, abort | four transfer modes, interrupt handler, callbacks | tasks, timer task, bus; no timeout | a transfer ends, an abort is reported, a returned buffer is left alone |
| PL011 UART (`drivers/serial/fpl011/`, `standalone/drivers/serial/fpl011/`) | two mutexes, two event groups, two buffer descriptions, interrupt mask | blocking send and receive, interrupt handler | tasks, timer task, line | what is reported is in the buffer; a waiter whose condition holds wakes up |
| DDMA (`drivers/dma/fddma/`, `standalone/drivers/dma/fddma/`) | control, mask, status and bind registers shared by all channels, handler table | set-up, start, stop, revoke, BDL set-up and start, interrupt handler | other drivers, controller | registers fit together; no handler runs for a revoked channel |
| GDMA (`drivers/dma/fgdma/`, `standalone/drivers/dma/fgdma/`) | channel table, descriptor pool, channel registers | configure (direct, BDL), start, stop, deconfigure, interrupt handler | other drivers, controller | a descriptor list has one owner and outlives the transfer that reads it |
| QSPI, CAN, watchdog, timer, PWM, ADC, I2S, display (`drivers/`) | mutex, small caches | thin wrappers | tasks | lock discipline |
| message-based v2 drivers (`*_v2_0`) | mailbox rings | as their first generation | co-processor | request and answer match |
| GMAC, E1000E (`drivers/eth/`) | descriptor rings | send and receive | lwIP | as XMAC |
| interrupt table, FreeRTOS port | handler table, nesting count | install, dispatch, critical sections | everything | handlers run to their end before a task resumes |

Behaviours that are hard to test: the error interrupt entering
FXmacRecvHandler while the input thread is inside it; the pbuf pool running
dry in the middle of re-arming; walks over BDs the DMA engine is changing; a
receive interrupt that is disabled by the handler and enabled by the thread; a
timeout racing the end of a transfer; an event lost in the timer queue, or left
over for the next wait; a wait without a timeout after a start that failed; the
interrupt and a task working on one buffer description; registers that two
tasks read and write back, one of them without the mutex; descriptors freed
under a channel that still reads them; a deinitialisation under waiting tasks.
`PROJECT.json` lists each hazard with its line and the properties aimed at it.

## 2. Modules

| module | what it is |
|---|---|
| `FXmacBdRing` | the ring operations as operators on a record; u32 arithmetic with wrap-around |
| `FXmacRx` | the receive path: DMA engine, interrupt, input thread |
| `FXmacTx` | the transmit path: sender or interrupt, DMA engine |
| `BlockingTransfer` | abstract specification: what a blocking transfer function promises |
| `FSpim` | SPI master: tasks, timer task, interrupt handler, controller |
| `FI2c` | I2C master: tasks, timer task, interrupt handler, bus |
| `FPl011` | UART: senders and receivers, timer task, interrupt handler, line |
| `FDdma` | DDMA: a task per channel, shared registers, interrupt handler, controller |
| `FGdma` | GDMA: a task per channel, descriptor pool, interrupt handler, controller |
| `FXmacBdRing_proofs` | lemmas on the ring operators |
| `FXmacTx_proofs` | inductive invariant and theorems of the transmit path |
| `FXmacRx_proofs` | inductive invariant and theorems of the receive path |
| `FGdma_proofs` | inductive invariant and theorems of the GDMA driver |
| `FSpim_proofs` | inductive invariants and theorems of the SPI driver, and its refinement |
| `FI2c_proofs` | inductive invariant and theorems of the I2C master, and its refinement |
| `FPl011_proofs` | inductive invariant and theorems of the UART, and the refinement by its sends |
| `FDdma_proofs` | inductive invariant and theorems of the DDMA driver |

The modules have their bounds as CONSTANTS and are model-checked directly;
every `.cfg` only gives values to constants. Definitions that begin with
`Mut_` are plausible errors in the code. No specification uses them; they are
put in place of the definition they follow to show that a property depends on
it.

Some of the properties hold only until the code has met a situation it does
not survive. Such a module keeps a history variable (`trouble`, `misused`,
`overlap`) that records which of these situations have happened, and the
property names the ones it excepts. The situations are listed below, and each
is a hazard in `PROJECT.json`.

### FXmacBdRing

A BD is its index, so one step of `separation` bytes is a step of 1. An
FXmacBdRing structure is a record of four counters and five pointers; each C
function is an operator from the old record to the new one, with its refusals
(`AllocOk`, `ToHwOk`, `FreeOk`). Counters are u32 and wrap at `U32` (2^32 in
the code, small in the runs; any number above 2N in the proofs). The walk of
FXmacBdRingFromHwRx is described by its result: the DMA engine fills BDs in
ring order, so a walk that reads the bits one after the other and one that
reads them at once stop at results the other can also reach. The transmit walk
has no such order and is a step per BD in `FXmacTx`.

### FXmacRx

FXmacRecvHandler is a sequence of steps between which the error interrupt can
preempt the input thread; once entered the interrupt runs to its end (`At`).
The steps are calls of the ring operations and single accesses to BDs, pbufs,
`recv_q` and registers. A ring operation (FXmacBdRingFromHwRx, FXmacBdRingFree,
Alloc with ToHw) is one step, although it loads and stores several fields
without a lock: this is exact while one context at a time is in the ring code.
An error interrupt that enters FXmacRecvHandler while the thread is anywhere
between the call of FXmacBdRingFromHwRx (`CallFromHwRx`) and the end of the
queue is recorded as `nested`; the program then has behaviours the model does
not have (an interrupt between the load and the store of `hw_cnt` loses an
update), and no property but TypeOK claims anything about what follows. The
receive semaphore counts up to SEMAPHORE_MAXCOUNT (128 for the XMAC,
`lwip_port.c:100`); a give beyond it is lost. `pc["thread"]` and `pc["isr"]`
are the two program counters; `rxbdset`, `bd_processed`, `k`, `freebds` and
`rx_queue_len` are the locals of each context. The interrupt status is cleared
by writing back what was read, which the model does in one step. Pbufs are
counted; a frame is its arrival number; received frames fit one BD (no jumbo
frames). After a bus error the ring is rebuilt with the pbufs there are; with
too few of them FXmacInitDma returns before it sets the queue pointer
(`NullBd`), and nothing is received any more.

`trouble` records three situations. `starved`: a BD could not be re-armed for
want of a pbuf. It keeps its NEW bit, and FXmacBdRingFromHwRx
(`fxmac_bdring.c:659`) walks past the end of the hw group, against its comment
(`:656`), and counts it as received, so that `hw_cnt` underflows. `nested`: the
error interrupt runs FXmacRecvHandler, or rebuilds the ring, while the input
thread is in the ring code (`fxmac_os.c:808`); the interrupt's FXmacBdRingFree
is then out of order, is refused (`fxmac_bdring.c:578`), and the refusal is
ignored. `reset`: the ring was rebuilt. RingInv and NoFault survive `reset`
only; PbufsConserved, FreedInOrder, NoLostWakeup and InOrder hold until
`nested`. The scarce pool of the run makes all three happen.

### FXmacTx

Sends run in a critical section that masks the interrupt, so one program
counter serves both (`caller` says which). A packet of several pbufs takes one
BD for each; the DMA engine sets USED only on the first BD of a packet, as
`fxmac_bd.h` documents. The walk of FXmacBdRingFromHwTx is a step per BD while
the DMA engine goes on. FXmacHandleTxErrors clears as many BDs as the BD space
has bytes, far behind the ring: the model goes to `fault` and claims nothing
afterwards. The rebuild after a bus error has enough pbufs here; `FXmacRx` has
the other case. The refused branch of `FillBd` is there because the code has
it; `FillNeverRefused` says it is dead.

### BlockingTransfer

The contract between a blocking driver function and the tasks that call it.
One task at a time owns the instance. Its call consists of phases, each of a
number of words; words move only while a phase runs; a phase ends with all its
words moved, or as a failure that is reported. `void` is true when the
contract no longer binds, because the instance was misused or the driver is in
one of its named troubles. Three drivers are shown to implement it by
refinement mappings (`Contract == INSTANCE BlockingTransfer WITH ...`):

| driver | owner | moved, total | void |
|---|---|---|---|
| `FSpim` | the holder of the mutex | `rx_count`, `length` | deinitialised under a transfer (`misused`) |
| `FI2c` | the holder of the mutex | bytes moved, length of the message | after trouble, or outside `SafeUse` |
| `FPl011`, sending | the holder of the send mutex | bytes taken from the buffer, its length | after `raced` or `stale` |

### FSpim

Several tasks call FFreeRTOSSpimTransfer on one instance. A word is one byte
and only counted. The handler is two steps (`IntrRx`, `IntrTx`) because the
controller shifts words between FSpimFifoRx and FSpimFifoTx. An event set
from the interrupt is first a request to the timer task (`pended`), and may be
lost when that queue is full. A request still queued when the event group is
deleted counts as a failure, since it holds a handle to freed memory. Two
constants describe the environment: `Faults` (FIFO errors and lost events) and
`Late` (a wait may time out although its transfer could still end). The
instance may be deinitialised at any time, under a transfer too, which
`misused` records; the application initialises it only when no transfer is
running. Not modelled: the DMA mode of a transfer.

### FI2c

FFreeRTOSI2cTransfer in its four modes: reads and writes, polled and driven by
interrupts. Bytes are counted; a message has one address byte, which precedes
the data or read commands in the transmit FIFO. The polling loops are cut
between their accesses to the controller, the handler is one step (it runs on
the core of the tasks, and the bus does nothing it could notice within one
run). A byte that is not acknowledged aborts the transmission, which empties
the transmit FIFO and holds it empty until the abort is cleared.

The interrupt modes work within narrow limits, which `SafeUse` states: the
calls are either only reads of one byte or only writes that fit the FIFO,
because READ_DONE is raised at the first RX_FULL interrupt and WRITE_DONE at
the first TX_EMPTY interrupt, for reads as well; and no read is longer than the
FIFO, because read commands are pushed without regard for what is on its way
back. `trouble` is an abort, a lost event or a refused or failed start in an
interrupt mode, an abort of a write, or a request of an earlier life of the
instance still in the timer queue. That queue has `QueueLength` places; outside
the limits above the handler may raise events without end and fill it. A polled
write reports success when its last bytes are not acknowledged; the model has
this, and the contract excepts it. Not modelled: slave mode, and a second
FFreeRTOSI2cInit on an instance that is ready.

### FPl011

Receivers share one mutex, senders another; nothing keeps the interrupt from
`receive_buffer` and `send_buffer`. On the task side the stores of
FPl011Receive that enter a buffer (byte_p, requested_bytes, remaining_bytes,
`fpl011.c:191-193`) are a step each, and so are a turn of a loop over the FIFO
and the update at the end of FPl011ReceiveBuffer. FPl011Send stores
remaining_bytes in a step of its own. The interrupt handler has three steps
(`IsrEnter`, `IsrSend`, `IsrLeave`) because it waits for the transmitter and
clears at its end the status it read at its beginning. Which interrupts are
raised when is the PL011's (external). The events FPl011ReceiveBuffer raises
for single damaged bytes are left out: they set the bit of the RX_ERROR that
follows.

`trouble` records: `raced`, the interrupt moved bytes while a task was entering
or working on the same buffer description, after which both may count a byte
or leave the buffer. (A short receive leaves remaining_bytes at what was not
received. If the interrupt comes after the next call has stored its byte_p and
before it has stored its own remaining_bytes, the old number of bytes goes into
the new buffer, which may be shorter.) `raced` covers a turn of a loop, too,
so what an interrupt in the middle of one would do is not claimed. The others:
`stale`, COMPLETE was raised for a send that did not wait for it, so that a
later send takes it for its own; `lost`, the timer queue was full; `cleared`,
the handler cleared a TX interrupt raised after it had refilled the FIFO.
Behaviours end where the code leaves a buffer, since what it meets there is
unknown.

### FDdma

An operation is a list of register changes that its task works off, and each
change is a read followed later by a write, because all channels share the
control, mask and bind registers. FFreeRTOSDdmaBDLSetupChannel and
FFreeRTOSDdmaBDLStartChannel take no mutex (`fddma_os.c:364`); `overlap` records
that one of them ran beside another operation. A channel may refuse to stop
(`Faults`), in which case the operation leaves out what the code leaves out.
Addresses, lengths and slave ids are not modelled.

### FGdma

A configuration is known by the number of the call that made it, so that a
stale descriptor list or report is visible as an old number. In BDL mode a
channel has a block of the instance's memory pool. `trouble` records: a channel
deconfigured while it works (`hasty`: the descriptors are freed before the
channel is stopped), blocks still in the table when the pool is destroyed
(`leftover`), a BDL channel configured twice (`twice`), refused descriptors
nobody looks at (`unaligned`), and a channel that does not stop (`stuck`).
FFreeRTOSGdmaDeInit stops channels only up to the first one that is not
configured (`Stoppable`). A caller starts a channel only after its last
configuration was accepted, which is more than the code asserts
(`fgdma.c:703`). The soft reset of FGdmaChanStartTrans (`fgdma.c:711`) is left
out, since no SoC of the repository has the capability that asks for it.

## 3. Runs

Deadlock is not checked: the number of frames, packets, bytes or calls is
bounded, so every behaviour may stop.

| run | module | checks | result |
|---|---|---|---|
| `rx_delivery` | FXmacRx | TypeOK, RingInv, NoFault, PbufsConserved, FreedInOrder, NoLostWakeup, InOrder, EventuallyDelivered | with a scarce pbuf pool and every receive error, the receive path is right up to the situations above |
| `tx_window` | FXmacTx | TypeOK, NoEarlyRelease, NoTornPacket, TxRingInv, StorageMatchesRing, FillNeverRefused, SendTerminates | while at most half of the ring is unreclaimed, the transmit path is right, also under collisions and bus errors |
| `spim_transfer` | FSpim | TypeOK, InFlightFits, BuffersReturned, AssertsHold, ImplementsContract, CallReturns | two tasks, a failing controller, a failing timer queue, a deinitialisation under them |
| `i2c_transfer` | FI2c | TypeOK, NoForeignAccess, ImplementsContract, ReadAbortReported, TransferEnds | two tasks in all four modes, missing acknowledgements, lost events, a stuck bus |
| `uart_transfer` | FPl011 | TypeOK, RxInBuffer, Truthful, SendImplementsContract, ReceiverWakes, SendReturns | two tasks that send and receive, with and without interrupts |
| `ddma_channels` | FDdma | RegistersAgree, NoCallAfterRevoke, TransferReported | two channels on shared registers |
| `gdma_channels` | FGdma | BlocksOwned, DescriptorsLive, NoStorm, ReportTruthful, TransferReported | two channels and a pool of two blocks |
| `rx_rearm` | FXmacRx | NoWildDma (violated) | see below |
| `tx_burst` | FXmacTx | NoEarlyRelease (violated) | see below |
| `spim_late` | FSpim | SuccessMeansDone (violated) | see below |
| `i2c_hang` | FI2c | MutexGivenBack (violated) | see below |
| `uart_lost` | FPl011 | NoByteLost (violated) | see below |

### Where code and documentation disagree

* `rx_rearm`: SetupRxBds hands a BD to the hardware group, clears its words
  (which gives it to the DMA engine with address 0) and only then writes the
  address of the buffer.
* `tx_burst`: FXmacBdRingFromHwTx skips a BD that is not USED instead of
  stopping at it, and counts others in its place. With more than half of the
  ring outstanding, pbufs the DMA engine still needs are freed.
* `spim_late`: a transfer that ends after its wait has timed out sets the bit
  the next wait looks for, which then succeeds too early.
* `i2c_hang`: an abort in an interrupt mode leaves the instance in STATUS_ERROR
  (`fi2c_intr.c:219`). The next transfer is refused (`fi2c_master.c:353`), but
  FFreeRTOSI2cTransfer ignores the refusal and waits without a timeout
  (`fi2c_os.c:245`, `:266`) for an event nobody will set, holding the mutex.
* `uart_lost`: a receive call that finds fewer bytes than it asked for returns
  them (`fpl011_os.c:167`) and leaves its buffer entered; the interrupt goes on
  storing there and no call reports those bytes. The comments at `:155` and
  `:209` say that the transfer is finished.

Others are part of the models as the situations their properties except (the
walk past the hw group, the free out of order, the interrupt modes of I2C
outside `SafeUse`, descriptors freed under a working channel).

The following were seen as well. A single statement shows each of them, so no
property is spent on it; the models behave as the code does.

* CleanDmaTxdescs passes a byte count as BD count (`fxmac_os.c:519`).
* FXmacHandleDmaTxError ignores that FXmacInitDma may fail (`fxmac_os.c:757`).
* A polled I2C write looks for an abort before it fills the FIFO and never
  after the last byte (`fi2c_master.c:281`).
* FFreeRTOSI2cInit replaces the mutex and the event group before it finds that
  the instance is ready (`fi2c_os.c:89`; the second call is not modelled).
* Starting a DDMA channel that is still enabled does nothing and reports
  success (`fddma_os.c:339`).

### Bounds

* Receive: `N = 3` BDs, so the ring wraps within `MaxFrames = 4` frames.
  `PoolSize = 5` is one more than the ring and the frame the stack may hold
  (`StackMax = 1`), too few to re-arm the ring always. `PQ_QUEUE_SIZE = 3` is
  the least the code's proportions allow (4096 for 64 BDs). `U32 = 8` is above
  2N: an underflow is visible and not mistaken for a count. `SEMAPHORE_MAXCOUNT
  = 2`, so that the semaphore is given again before it is taken, and a give at
  the maximum is lost; a larger maximum (128) only adds turns of the thread
  that find nothing. All receive errors occur; at most two frames are dropped
  for want of a BD (`MaxDrops`).
* Transmit: `N = 8`, six packets of one or two pbufs, or of nine, more than the
  ring has. A packet is offered while fewer than `Window = 3` BDs are
  unreclaimed, so at most 4 are outstanding: exactly half. `Window` is an
  assumption on the environment (how far lwIP is ahead of the hardware) and not
  something the code enforces. Half is the limit because the walk needs as many
  USED BDs behind the hw group as the group has BDs. The proofs of the ring's
  bookkeeping need no window; those about the DMA engine need `WindowFits`.
* SPI: two tasks, phases of 0, 2 and 5 words with a FIFO of depth 3 (5 words
  need the FIFO twice), one call per task; a task's receive phase follows its
  transmit phase, so the event group is used up to four times.
* I2C: two tasks with two calls each, so that one call meets what another has
  left; messages of 1 and 3 bytes with FIFOs of depth 2, so that a message fits
  or does not. `U32 = 16` makes an underflow of a counter visible. Within the
  limits the three places of the timer queue (`QueueLength`, 10 in the
  examples) are enough for every event to be queued once.
* UART: two tasks with two calls each, buffers of 1 and 3 bytes, FIFOs of depth
  2, three received bytes, and the interrupt masks with all interrupts and with
  error interrupts only. Line errors and lost events are left to `uart_lost`.
* DDMA, GDMA: two channels, because what matters is two tasks on one register
  or one pool, and six calls in all, the initialisation being the first. The
  five that follow are enough to set up and start both channels and to take one
  down, or to take a channel through set-up, start and revocation and to set it
  up and start it again. Two blocks are the fewest with which a lost one can be
  replaced.

### Fairness

* FXmacRx: weak fairness of the input thread, the interrupt and lwIP's freeing
  of pbufs: the scheduler runs a ready thread, an enabled pending interrupt is
  taken, lwIP processes what it holds. Nothing is assumed of the DMA engine.
* FXmacTx: weak fairness of the code of a send. It runs in a critical section,
  so nothing else can keep it from going on. Nothing is assumed of the DMA
  engine, which stops when the link is down.
* FSpim: weak fairness of every task, of the timer task, the interrupt, and
  the shifting of words by an enabled controller with a selected slave. A wait
  ends after five seconds: `WaitTimeout` is part of its task's fairness.
* FI2c: the same of its tasks, timer task, interrupt and bus. Its waits have no
  timeout, and none is assumed. A stuck bus ends the polling loops by their own
  counters.
* FPl011: weak fairness of `System`, everything but new calls and new bytes.
  Both are bounded, so this only says that the system does not stop while
  something in it can move. No byte is assumed to arrive.
* FDdma, FGdma: weak fairness of every task, of the end of every running
  transfer, and of the interrupt. No call is assumed to be made.

## 4. Proofs

Each theorem holds for every value of the constants that satisfies the named
assumptions of its module: any number of BDs, tasks, channels, blocks, calls
and words, any FIFO depth, and any choice of the failures the constants allow.
An inductive invariant is always a conjunction of `TypeOK` and named parts; the
parts are stated at the head of the proof module with a comment on each.

### Transmit path (`FXmacTx_proofs`, `FXmacBdRing_proofs`)

* `TxTypeCorrect`: `Spec => []TypeOK`. The u32 counters never wrap.
* `TxRingCorrect`: `Spec => []TxRingInv`. The four groups partition the ring.
* `TxStorageCorrect`: `Spec => []StorageMatchesRing`. Between sends exactly the
  BDs given to hardware hold a pbuf.
* `TxFillNeverRefused`: `Spec => []FillNeverRefused`. The exit of FXmacSgsend
  that would leak BDs is dead code.
* `TxNoEarlyRelease`: `WindowFits => (Spec => []NoEarlyRelease)`. A pbuf is
  released only after its packet has been transmitted.
* `TxNoTornPacket`: `WindowFits => (Spec => []NoTornPacket)`. The DMA engine
  fetches whole packets only.
* `TxSendShrinks`: under `WindowFits`, every step of a send makes the pair of
  natural numbers (`Stage`, `TurnsLeft`) smaller, and no step of the DMA engine
  changes it. This is the part of SendTerminates that can be proved: what
  remains is that the code goes on.

Assumptions: `RingAssumption` (at least one BD; counters can represent twice
the ring) and `TxAssumption` (types of the bounds).

None of these is inductive by itself. The invariant is

    IInv == TypeOK /\ TxRingInv /\ Locals /\ Live

`Locals` says for each program location which groups are empty and where the
locals point. It is what makes FXmacBdRingFree and FXmacBdRingToHw, whose
refusals the code ignores or cannot undo, succeed: the set passed is
at the head of its group and not longer than it. `Live` says that the BDs
holding a pbuf are one contiguous stretch of the ring: the hw group, extended
by the fetched BDs still to be released or by the allocated ones already
filled. StorageMatchesRing is `Live` at the idle location; FillNeverRefused
follows because the next BD to fill lies just behind that stretch.
`FXmacBdRing_proofs` has a lemma per ring operation (it keeps the record well
typed and the groups a partition, and what it does to the counters) and
lemmas on how a group of consecutive BDs grows and shrinks.

The first four theorems do not depend on the bits the DMA engine sets:
whatever the walk counts, what it takes is at most the hw group.

The other three do. `WindowFits` says that even the longest packet the ring can
take leaves half of it free. The bound is tight: with `N = 7`, `Window = 3` and
packets of one or two pbufs, TLC finds NoEarlyRelease violated, and `tx_burst`
is the same with a window of the whole ring. The second invariant is

    DmaInv == ~early /\ ~torn
              /\ (pc # "fault" => Room /\ Fetched /\ Blank /\ Filled /\ Order)

It counts BDs from hw_head on. `Order` says that the DMA engine has transmitted
the first s BDs of those it was given, and that the others are whole packets
none of whose BDs is USED; `Blank` that the free BDs behind them are USED and
not LAST; `Filled` what FXmacSgsend has written so far into the BDs it has
allocated, the USED bit of the first one still being set; `Fetched` that what
FXmacProcessSentBds is releasing was transmitted; `Room` that half of the ring
is free. NoTornPacket follows from `Order` and `Filled`: from hwptr to the next
LAST bit all BDs belong to one packet and none is USED.

For NoEarlyRelease the walk needs its own part of `Order` (`Walked`): after w
turns it has counted at most s BDs as long as it is inside the hw group, and
whatever it counts behind it is blank, so never LAST, and is subtracted
again as a partial packet (`bd_partial`). So the number it returns is at most
s, although the BDs it has counted need not be the first ones. That it does
not come round to hw_head again is where `Room` is needed: a walk of at most
hw_cnt skipped and hw_cnt counted BDs fits into the ring. The same argument
bounds the walk in `TxSendShrinks`: a turn that does not count a BD passes one
of the hw group. That packets are contiguous is stated for any two BDs with no
LAST bit between them (`SamePkt`), which needs no induction over the BDs of a
packet.

DmaInv was checked with TLC before it was proved, with the constants of
`tx_window` and with `N = 12`, `Window = 4` and packets of up to three pbufs.

### Receive path (`FXmacRx_proofs`)

* `RxTypeCorrect`: `Spec => []TypeOK`.
* `RxRingCorrect`, `RxNeverFaults`, `RxPbufsCorrect`, `RxFreesInOrder`: the
  safety invariants RingInv, NoFault, PbufsConserved and FreedInOrder of the
  run.
* `RxDeliversInOrder`: `Spec => InOrder`.
* `RxNoLostWakeup`: `Spec => []NoLostWakeup`.

Assumptions: `RingAssumption` and `RxAssumption` (types of the bounds; the pool
has a pbuf for each BD and the queue a place; the semaphore can be given).

    IInv == TypeOK /\ LocalInv /\ WakeInv /\ OrderlyInv /\ PbufsConserved

`OrderlyInv` is the body of it. It holds until "nested": until the error
handler has run while the thread was in the ring code.
Until then at most one context works on the ring (`Alone`, `Solo`), and the
state has one of two shapes.

* `Good(p, c)`: the groups partition the ring and context c holds exactly the
  post group (`RingPart`); the BDs with a pbuf are one stretch, the hw group
  with the fetched BDs still to be processed and without the one being
  re-armed (`StoragePart`); the DMA engine has filled the first p BDs of the
  hw group, and every BD behind it still has its NEW bit, where the engine
  stops (`NewPart`); the frames stand in the order of their arrival from the
  last one delivered through the queue, the fetched set and the filled BDs
  (`OrderPart`).
* `Wrecked(c)`: SetupRxBds has once found too few pbufs ("starved"), the free
  BDs it left are still NEW, and FXmacBdRingFromHwRx, finding every BD of the
  hw group NEW too, has run on over them and fetched the whole ring. The
  context then reaches a BD without a pbuf and stops. In this shape the ring
  is no partition any more, but pbufs and the order of the frames are still
  right; a rebuild leads back to `Good`.

The lemma `FetchCount` decides between the two: in a `Good` state
FXmacBdRingFromHwRx returns exactly the p filled BDs, or, only after
"starved", all N. RingInv and NoFault follow because their exceptions include
"starved"; PbufsConserved and InOrder need both shapes.

NoLostWakeup needs two more facts. `WakeInv`: RXCOMPL is enabled, or the
thread, through the semaphore or on its way, will enable it; this holds in
every state. `WakePart(p)`, a part of `Good`: when the first p BDs of the hw
group are filled and p > 0, RXCOMPL is pending, or the semaphore was given, or
the thread is on its way to FXmacBdRingFromHwRx. A thread that
leaves FXmacBdRingFromHwRx has taken all p BDs and left none (`FetchCount`), and
so has an interrupt that fetches for itself; whatever the DMA engine fills
afterwards raises RXCOMPL again. The give of the semaphore that is lost at its
maximum does no harm, because the count is then positive.

### SPI master (`FSpim_proofs`)

* `SpimTypeCorrect`: `Spec => []TypeOK`.
* `SpimInFlightFits`, `SpimBuffersReturned`, `SpimAssertsHold`: the three safety
  invariants of the run, if `~Late`.
* `SpimSuccessMeansDone`: if `~Late`, a wait that succeeds has found its words
  moved.
* `SpimImplementsContract`: if `~Late`, `Spec => ImplementsContract`, the
  refinement of BlockingTransfer.

`Late` is the one environment in which the driver is wrong: a transfer that
ends after its wait of five seconds has timed out. `spim_late` shows
SuccessMeansDone violated there; with `~Late`, SuccessMeansDone is a theorem.
Lost events and FIFO errors are still allowed.

The invariant has three parts. `LockInv` ties the mutex to the
locations between take and give, and says what a deinitialisation under a
transfer does to it. `FifoInv` counts words: those sent and not read back are
in one of the FIFOs, and with the interrupt handler cut in two this needs that
FSpimFifoTx leaves room for what is on its way. `OnTimeInv` needs `~Late`: a
transfer runs, and its event is pending or set, only while a task waits for it.
In the refinement every action is either a step of the abstract transfer
(begin, phase, move, end of a phase, return) or leaves all mapped variables
alone; there is a lemma for each.

### I2C master (`FI2c_proofs`)

* `I2cTypeCorrect`: `Spec => []TypeOK`.
* `I2cNoForeignAccess`: `Spec => []NoForeignAccess`.
* `I2cReadAbortReported`: `Spec => ReadAbortReported`.
* `I2cImplementsContract`: `Spec => ImplementsContract`, the refinement of
  BlockingTransfer.

    IInv == TypeOK /\ LockInv /\ PollInv /\ IntrInv /\ NoForeignAccess

`LockInv`: the mutex is held by the task inside, and the interrupt is open only
during an interrupt-mode call. `PollInv` counts the words of a polled transfer.
Its heart is `ReadCount`: the read commands to be pushed, those in the FIFO and
the bytes that have come are no more than the bytes still to be read, and after
an abort they are strictly fewer, so the loop of FI2cMasterReadPoll cannot end
without having seen the abort. That is why the abort of a polled read is always
reported and that of a polled write, whose last bytes are not looked at any
more, is not. `IntrInv` is conditioned on `~trouble /\ SafeUse`: the handler
finds work only while a task waits, it pushes the whole transfer in one round,
and it raises the event that is waited for once, with the last byte. Both
limits of SafeUse are used there: a transfer longer than the FIFO needs two
rounds, and each raises the event; after a mix of reads and writes the
WRITE_DONE of a read is taken for that of a write.

### UART (`FPl011_proofs`)

* `UartTypeCorrect`: `Spec => []TypeOK`.
* `UartRxInBuffer`, `UartTruthful`: the two safety invariants of the run.
* `UartSendImplementsContract`: `Spec => SendImplementsContract`.

    IInv == TypeOK /\ LockInv /\ RxInv /\ TxInv

`LockInv` ties the two mutexes to the locations of receivers and senders.
`RxInv` holds until the interrupt has met a receiver between the first store of
FPl011Receive and the end of FPl011ReceiveBuffer ("raced"): once the three
stores are done, byte_p and remaining_bytes describe the same rest of the
buffer, and what the call will report is what was stored while it looked.
`TxInv` holds until the same happens to a sender, or COMPLETE is raised for
nobody ("stale"): sent and unsent bytes are all bytes, and COMPLETE is raised
once, for a sender that waits and has none left. The handler's parts are
summarised by `ReceiveIsr(n)` and `SendIsr(n)`, the bytes they move, so that
the invariants are shown of the summaries and not of each interrupt source.

### DDMA (`FDdma_proofs`)

* `DdmaTypeCorrect`: `Spec => []TypeOK`.
* `DdmaRegistersAgree`: `Spec => []RegistersAgree`.
* `DdmaNoCallAfterRevoke`: `Spec => NoCallAfterRevoke`.

    IInv == TypeOK /\ LockInv /\ SoloInv

`LockInv` says that the task of an operation with the mutex holds it, so
that without `overlap` one operation runs at a time. Every change of a
register is a read and a later write; `SoloInv` says that the value read is
still the register's value when it is written, so that the two are as good as
one step, and for each place of each of the six operations what holds of the
shared registers there (`StopState`, `SetupState`, `RevokeState`, `StartState`,
`BdlState`, `RestState`). It is this part that fails once the operations
without the mutex overlap others, which is why `overlap` is in the properties.

### GDMA (`FGdma_proofs`)

* `GdmaTypeCorrect`: `Spec => []TypeOK`.
* `GdmaBlocksOwned`, `GdmaDescriptorsLive`, `GdmaNoStorm`: the three safety
  invariants of the run.
* `GdmaReportTruthful`: `Spec => ReportTruthful`.

    IInv == TypeOK /\ TableInv /\ FlagInv /\ ReportInv /\ DescInv

`TableInv`: the table names each allocated block exactly once.
`FlagInv`: only configured channels work, and no interrupt is open for another.
`ReportInv`: while channels stop when told to, TRANS_END belongs to the
configuration in use. `DescInv`: the descriptors of a configured channel are
its own and nobody else will free them. Each part is weakened by
the troubles that break it, and only by those, so the proofs confirm
that the exceptions in the properties are the ones needed.

### Only model-checked

Liveness, which is out of the prover's reach: EventuallyDelivered,
SendTerminates, CallReturns, TransferEnds, ReceiverWakes, SendReturns,
TransferReported. Of SendTerminates, the decreasing measure is proved
(`TxSendShrinks`). Every invariant and every action property of a passing run,
and the three refinements, are stated by a theorem.

## 5. Not modelled

Register-level bring-up, PHY and link state; cache maintenance (the DMA engine
sees every write in program order); the vendored libraries, except for the
semaphores, event groups, timer queue, memory pool and pbuf pool as the drivers
use them (marked external); assembly and interrupt-controller code; examples.
By far the most lines of the repository are of this kind (newlib alone is more
than half).

Of the drivers that are modelled: the DMA mode of SPI, which only arms a
transfer that the application completes through DDMA; the slave mode of I2C.
Of the others: QSPI, CAN, watchdog, timer, PWM, ADC, I2S, display, GMAC,
E1000E and the message-based drivers. Most are mutex wrappers around polled
register accesses; the ones worth a module are in the plan.

## 6. Plan

1. Done: `FXmacBdRing`, `FXmacRx`, `FXmacTx`, `FSpim`, `FI2c`, `FPl011`,
   `FDdma`, `FGdma`; `BlockingTransfer` and its three refinements; proofs for
   each of these modules, of the three refinements, and of every safety
   property of the passing runs.
2. Decreasing measures, as for the sends of `FXmacTx`, for the bounded loops of
   SPI and I2C.
3. Further modules: CAN message buffers, the timer's mutex from start to stop,
   the chip-select cache of QSPI, the message-based drivers, the XMAC link
   state, SPI's DMA mode over `FDdma`.
