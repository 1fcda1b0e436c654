# Velocitor: a TLA+ verification project

Velocitor is a Linux PCI driver for an emulated accelerator.  The repository
holds the kernel module (`module/src`), the device as a QEMU model
(`qemu-device/velocitor.c`), a user-space runtime (`runtime`), a firmware image
builder (`firmware`) and the device specification
(`velocitor-device-spec.md`, in French, "the spec" below).  This directory
models the parts of it that are hard to test: what happens when application
threads, the thread that receives rpmsg messages, the remoteproc worker and a
firmware that crashes and reboots meet in an order nobody wrote down.

The modules are written from the code; the spec and the comments only say what
the code is expected to guarantee.  Where the two disagree, a run shows it.

## 1. The system

| Component | Source | State | Operations |
|---|---|---|---|
| Control transactions | `ctrl-transaction.c` | IDR of requests in flight, per request: status, completion, reference count | alloc, send, wait, cancel, notify, release |
| rpmsg channel | `ctrl.c` | `ctrl->rpdev` under `rpdev_lock`, the INFO answer | probe, callback, remove (with its drain) |
| Character device | `cdev.c` | exclusive-open flag | open, release, ioctls INFO, STATS, ALLOC, FREE |
| Handle table | `handles.c` | XArray of handles, the generation it is of | insert, erase, regenerate |
| remoteproc glue | `remoteproc.c` | `rproc.generation`, shadow resource table | load, start, stop, kick, crash recovery |
| Transport | `vring.c`, device `VQ_*` window | vrings, `notifyid`s, enables | activate, invalidate, doorbell, sweep |
| Data plane | `data*.c`, device engines | virtqueues per engine | probe/remove of the data vdev, copies |
| Allocator and copy engine | `velocitor.c` | bump pointers, handle array, `GENERATION` | ALLOC, FREE, STAT, COPY_H2D, COPY_D2H |
| Error block, interrupts | `velocitor.c`, `error.c`, `irq.c` | `ERR_*` registers, `IRQ_STATUS` | qualify, raise, acknowledge |
| Trace ring | `velocitor.c`, `device-trace.c` | head, tail, dropped | write entry, read out |
| Sliding window | `velocitor.c`, `window.c` | pending and effective base | seek, read back, read |
| Debug DMA | `velocitor.c`, `dma.c` | registers, timer | start, run, fail |
| Counters | `velocitor.c`, `counters.c` | live and snapshot copies | count, snapshot, reset |
| PCI life cycle | `lifecycle.c`, every `*_initialize()` | what module and card hold | init, exit, probe, managed release |
| sysfs, debugfs, identity | `cdev-sysfs.c`, `debugfs.c`, `identity.c` | files, the debugfs directory | show, open, inject |

How they interact.  An ioctl of `cdev.c` allocates a transaction, sends it on
the rpmsg channel and sleeps until somebody completes it.  The device takes the
request from the control queue, serves it (ALLOC and FREE change the
allocator), and pushes a reply; the RX thread finds the transaction by its
sequence number and completes it.  When the firmware crashes, the error vector
makes remoteproc stop and restart it: the rpmsg channel is removed, which
completes everything in flight with `-ESTALE`, the device is reset, boots with
a new `GENERATION` and an empty allocator, the handle table is emptied, and a
new channel is announced and probed -- on the RX thread.  The application's
file descriptor survives all of it.

What is hard about it:

* three parties race for every table entry (reply, drain, cancel);
* the channel is torn down while other threads sleep inside `rpmsg_send()`;
* the probe runs on the very thread that would deliver the reply it wants;
* a session can end between any two lines of an ioctl, and the handles of the
  next session have the same numbers;
* replies get lost (no receive buffer), requests get lost (crash), and no wait
  has a timeout;
* error paths (a failed probe, no memory, `EFAULT`) leave work half done;
* copies go to virtqueues that no lock protects and that a crash deletes;
* handlers, debugfs readers and open descriptors live on while a probe fails or
  a card is unbound.

What makes it correct: one notify and one release per transaction; no use after
free; no sleeper left behind; every block the application holds is known to the
driver and alive on the device, or stale for all to see; copies touch only the
block they name; every slot of the data plane comes back once; nothing the
kernel calls outlives what it needs; no error hides the one that caused it.

## 2. Modules

| Module | Models | Proofs | Run by |
|---|---|---|---|
| `CtrlTransactions` | transactions, channel, their callers, the control queue | `CtrlTransactionsProofs` | `MCCtrlTransactions` |
| `HandleTable` | ALLOC and FREE, the handle table, sessions | `HandleTableProofs` | `MCHandleTable` |
| `DeviceMemory` | allocator, copy engine, error block | `DeviceMemoryProofs` | `MCDeviceMemory` |
| `TraceRing` | the firmware's log, written by the device and read by debugfs | `TraceRingProofs` | `MCTraceRing` |
| `FirmwareLifecycle` | boot, crash, recovery; vrings, VQ window, doorbells, sweeps | `FirmwareLifecycleProofs` | `MCFirmwareLifecycle` |
| `ErrorBlock` | the error registers and their handler, the bring-up DMA | `RegisterBlocksProofs` | `MCErrorBlock` |
| `SlidingWindow` | reads of device memory through the window that moves | `RegisterBlocksProofs` | `MCSlidingWindow` |
| `RequestReply` | what the control plane promises a client (abstract) | `CtrlTransactionsProofs` | through `CtrlTransactions` |
| `DataPlane` | copies, slots, engine queues, the data vdev | `DataPlaneProofs` | `MCDataPlane` |
| `DriverLifetime` | module, probe, managed release, and what runs meanwhile | `DriverLifetimeProofs` | `MCDriverLifetime` |
| `Counters` | the performance counters, their snapshot and resets | `RegisterBlocksProofs` | `MCCounters` |

`ErrorBlock`, `SlidingWindow` and `Counters` are small and proved about in one
module, so their specifications carry their own names (`ErrorSpec`,
`WindowSpec`, `CountersSpec`, and so on); they share no state.

In each module a definition that carries a deviating name next to an operation
(`ClaimForgotten` next to `Claim`) is that operation with a plausible mistake in
it.  It is no part of the specification; it documents what the properties catch.

### CtrlTransactions

A thread is a program counter (`pc`) and the transaction it handles (`cur`).
`Callers` are threads in an ioctl, `Rx` is the thread of `virtio_rpmsg_bus` that
runs `probe()` and `callback()`, `Recovery` the remoteproc worker that runs
`remove()`.  `table` is `ctrl->inflight_reqs`; sequence numbers are never
recycled (`idr_alloc_cyclic` hands them out in order, and 2^31 of them are not
used up by the bounds), so a transaction is its number.  `kref`, `status`,
`done` are the fields of the transaction; `rpdev` and `readers` are
`ctrl->rpdev` and the read side of `rpdev_lock`; `ept` is the endpoint the
rpmsg core creates before `probe()` and destroys on remove or on a failed
probe.

A step is a critical section of `ctrl->lock` or of the write side of
`rpdev_lock`, or one access to a transaction outside both.  `SendEnter` and
`SendOk`/`SendTimeout` are separate because `rpmsg_send()` may sleep up to 15 s
for a transmit buffer while it holds the read side.  Between `Alloc` and
`SendGetRef` the caller fills in the request: that is where the drain can
overtake it, and a thread that then touches freed memory goes to `"corrupt"`
and is followed no further.

Replies are reduced to how the callback classifies them (`ReplyKinds`): good,
refused by the firmware, mismatched, too short for its operation, shorter than a
header.  The model lets the device answer anything of these, which is more than
this firmware does: the spec (section 9) makes the device a peer that may lie.
External behaviour taken from how the driver uses it: the rpmsg core delivers
messages one at a time on one thread; device removal excludes a probe
(`device_lock`) and a callback (the endpoint's lock); remoteproc removes the
channel before it calls `stop`.

### RequestReply

The abstract side of `CtrlTransactions`.  A request has an `outcome` and a
`client`; it is issued, settled once -- by whom is left open -- and its outcome
never changes.  A client that waits leaves with the outcome and not before.
`CtrlTransactions` implements it with `OutcomeOf` (the status of a transaction
once somebody has notified it) and `ClientOf` (how far its caller has come);
`KeepsPromise` is the abstract specification under this mapping.

### HandleTable

Takes the channel as `CtrlTransactions` shows it (a request is sent, lost or
refused; its thread is woken by the reply or by the drain) and follows blocks:
`live`, `nextHandle`, `generation` on the device, `entries` and `tableGen` in
the driver, `arg` in the hands of each thread, `txq` on the wire.  On the wire a
FREE carries the handle alone, as in `velocitor_ctrl_free_req`; the generation
the model keeps beside it is history, used only to say what happened.  `drained`
marks a transaction that the drain completed before its caller sent it: the
caller sends it all the same, on the next channel, and returns `-ESTALE`.

`fw` follows the driver's side of a session: `starting` until
`velocitor_handles_regenerate`, `started` until the channel is published,
`probing` while the probe blocks the receiving thread, then `bound`, or
`unbound` if the probe failed.

### DeviceMemory

The device is one thread, so each handler is one step.  Geometry (`NodeSize`,
`ApertureSize`, `Align`, `MaxHandles`) is a parameter.  `writer` is a history
variable: which `{generation, handle}` last wrote each byte since the boot.  It
is what lets isolation be stated about bytes rather than about checks.  A
`CopyDmaFail` may have written any prefix before it fails.  Of the registers
only what the allocator and the copies touch is there: bit 5 of `ERR_INJECT`,
the latch of vector 5, and the error block with the fields that matter (code,
handle, generation).

### TraceRing

The one place where device and driver share memory without a message between
them, so the steps are small: every access to a word of the header is one, and
an entry is written and read in two halves (`stamp`, `msg`).  `wpc` is where
`velocitor_trace()` is, `rpc[r]` where reader `r` is in
`velocitor_dtrace_debugfs_open()`; `lock` is `dtrace.lock`.  An entry is
abstracted to the number of entries written before it since the boot, which is
what an index claims to name.  `Load` is the remoteproc loader, which clears the
ring; it takes no lock.  `velocitor_reset_write()` writes one entry of its own
before it forgets the ring: it is the call of `velocitor_trace()` with
`resetting` set.  `written` and `lost` are history, and so is `crossed`:
a read was under way when the ring was cleared (finding 5), which the other
properties leave out of what they promise.

### FirmwareLifecycle

`rproc->lock` makes boot, stop and recovery one thread, so the remoteproc side
is one program counter: `task` says which of the three holds the lock, `core`
where it is.  `Invalidate` to `ActivateEnable` are `velocitor_rproc_start()`
line by line: the rings are cleared, the table is published, `RESET` is
released, `FW_STATUS` is polled, the generation is read, the table is walked,
and for each queue (`qi`) the window is selected, programmed and enabled.  Every
failure goes to `Stop`.  `Negotiate`, `Fill`, `ProbeKick` are what the core and
`virtio_rpmsg_bus` do once the start has returned.

On the device, `fwStatus`, `inReset`, `bootTimer`, `enable`, `lastAvail`,
`sweep`, `announced` are fields of its state; `prog[q]` is the queue whose ring
was written into the description of `q`.  A ring is the start it belongs to and
the number of heads on it: this is what `last_avail` is compared with, and what
an index left over from another start would get wrong.  `Service(bad, taken)` is
one run of `velocitor_vq_service()`; queues in `bad` hold a head that the device
refuses, which raises the error vector.

`Images` is what a load may find: a good image, one whose header fails the
check, one with a table of too few vrings, one with a table of more than a page.
`shadow` is the page the device reads the table from.  A load of the last kind
does not write it, so it keeps the table of the image before, if there was one.
External: `rproc_boot()` and `rproc_shutdown()` through sysfs, the crash worker
(one work item; it recovers only what it finds running), the order in which the
core stops subdevices and the driver.  A failed first boot fails the PCI probe
(`rstate = "gone"`).

### ErrorBlock

`errCode` and `errInfo` are the block (an error is its number, so the two agree
exactly when they are of the same error), `errDropped` and `latch` are
`ERR_DROPPED` and bit 5 of `IRQ_STATUS`.  The handler of vector 5 reads the code,
then the other registers one by one (`NFields` of them; `gotInfo` collects the
errors it saw there), and acknowledges last; `irq` is a message that came while
it ran and makes it run again.  `cause` is the number of what raised the vector.
An injected crash has a number too and no code: it raises the vector and leaves
the block alone, so what a handler then reads is an older error's, if there was
one (finding 22).  The bring-up DMA is in the same module because it
shares `ERR_CODE`: callers take the lock, write the registers, start, poll and
give up after the timeout, while the timer of the device runs on.  `dmaAddr`,
`dmaLen` and `xfer` hold the caller whose values are there, so that a transfer
made of two calls would show.

### SlidingWindow

`winPending` and `winBase` are the base written and the base in effect; a read
of `WIN_BASE` promotes the one to the other.  `base` is the driver's copy.
Readers of `debugfs/mem` (`MemReaders`) split a read at window boundaries and
hold `winLock` throughout.  Memory holds the reset pattern, reduced to one distinct value per
address.  `Inject` arms the fault that makes the device swallow a write of
`WIN_BASE`.

### DataPlane

A copy takes a slot of its engine (`ida`), fills the coherent memory behind it
(`mem`), and puts two descriptors on the engine's queue.  The queue holds the
slot (`tokens`) until the completion callback or the removal takes it back and
resets it.  `avail` and `used` are the rings, `head` the request an engine works
on, `irq` the vectors that are pending.  `vqs` says of which boot the queues are
that `device->data.vqs` points to.

The driver takes no lock here, so an operation on a virtqueue is two steps and
`inside` holds the thread between them.  Two threads inside one queue, or a
thread in a queue that is deleted or being removed, is undefined behaviour: the
behaviour ends (`Misuse`), and finding 13 is that this happens.  `Abort` is a
host access of an engine that fails: nothing is pushed, the error vector goes
up, and the driver reports a crash.  If only the payload cannot be reached the
vector goes up too, but the request is answered (`-EIO`) and pushed: `Answer` may
leave the firmware `"failed"`.  What the answer says is left out; that a request
of another session does not run is in `DeviceMemory` (`Isolation`).

### DriverLifetime

`Layers` is what `init_()` registers, `Steps` what `velocitor_pci_probe()`
acquires, both in the order of the code; `held` counts how many steps the card
holds.  A probe may fail at every step that returns an error; a failed probe and
an unbind release the steps in reverse.  Beside it run the handlers of the three
kinds of vector, the firmware and its recovery, one reader of debugfs, one of
sysfs, and the applications that hold `/dev/velocitor0`.  `inst` numbers the
cards, so that a descriptor can be told to belong to one that is freed.

External, from how the driver relies on it: managed resources go in reverse
order after the empty `remove()`; releasing an interrupt, a sysfs node or a
debugfs directory waits for whoever is inside (`Left`); an open file keeps the
module loaded and not the card; `pci_unregister_driver()` unbinds first.  Also
external is that the release of the rproc always leaves the firmware off:
`rproc_del()` shuts down what it finds running, and `Release` takes it that there
is nothing else to shut down.  Firmware left half started by a failed recovery
would be an exception; `FirmwareLifecycle` ends every such start in the driver's
`stop`, which puts the device into reset.
Two things met on the way are no property: the probe never calls
`velocitor_handles_initialize()`, which works because a zeroed XArray is usable
but leaves its entries behind at an unbind; and the file `vring` is created once
per queue, of which the first creation succeeds.

### Counters

`cnt` are the live values, `snap` the copy that register reads answer from.  Of
the twenty counters the model keeps six, those that one request moves together
or that are two halves of one number.  They wrap at `Word`.  `seen` is history:
the values the live counters had since a reader's call began; `payload` what a
count of payload alone would be.

## 3. Runs

| Run | Question | Bounds | States |
|---|---|---|---|
| `ctrl_safety` | transaction accounting, lock protocol, stranded waiters | 2 callers, 2 calls, 2 boots, 1 transmit and 1 receive buffer | 1.8 M |
| `ctrl_liveness` | are waiters woken, is INFO answered | 2 callers, 2 calls, 1 boot, 1 transmit, 4 receive buffers | 180 k |
| `device_memory` | isolation, placement, accounting | 2 nodes of 4 bytes, 2 of them aperture, alignment 2, 2 handles, 2 generations | 400 k |
| `handle_table` | driver and device agree on blocks | 2 threads, 2 handles, 2 generations | 2.4 M |
| `firmware_lifecycle` | only rings of this start are served, nothing boots behind a reset, no crash is forgotten; is a crash recovered, is the channel announced, is a request taken | 2 queues, 4 kinds of image, 1 boot by hand besides the probe's, 2 errors, 1 receive buffer, 1 further head per queue | 185 k |
| `error_block` | does a report mix two errors or blame a later one, does a call take another's transfer | 2 callers of the DMA, 4 errors, 5 registers | 2.9 M |
| `sliding_window` | are the bytes those asked for | 2 readers, reads across windows, swallowed writes | 190 k |
| `trace_ring` | published entries are complete and in place, losses are counted, readers do not interfere | 2 readers, 2 entries, 5 entries written per boot and one by RESET, 2 boots, counters that do not wrap | 780 k |
| `data_plane` | does every slot come back once, does a copy get its own answer | 1 submitter, 2 engines of 2 slots, 2 copies, 2 boots | 149 k |
| `driver_lifetime` | do handlers, files and firmware find what they need in every probe, failed probe and release | 2 applications, 2 binds | 2.9 M |
| `counters` | is what a reader returns one instant | 2 readers, 1 thread that resets, 3 requests, 3 calls, counters that wrap at 4 | 2.1 M |
| `ctrl_use_after_free` | finding 1, expected to be violated | as `ctrl_safety` | -- |

Why the bounds are enough.  Two callers are what it takes for one to hold the
only transmit buffer while the other sends; two boots are what it takes for
anything to be left over from an earlier session.  A single transmit buffer
makes `rpmsg_send()` sleep, a single receive buffer loses replies.  In
`DeviceMemory`, node 0 has half the capacity of node 1, sizes include 0, a size
that needs rounding, a size that fills a node and one that is too big, and
extents reach over the end of a block.  Two handles in two generations give
every number a second meaning.  A trace ring of two entries into which five are
written is lapped twice, during a copy too.  In `FirmwareLifecycle` the two
queues are those of the control channel; the start treats every queue alike and
the sweep treats an engine queue like the transmit queue, so what is particular
to engine queues is left to `DataPlane`.  There, two slots in each of two queues
are enough for a slot to be returned to the wrong queue or reused while an engine
works on it; one submitter is enough because two of them in one queue are already
outside the protocol (finding 13), and the callback and the removal are the other
parties to the slots.  In `DriverLifetime` a second bind is what gives a stale
pointer something to be confused with.  Counters that wrap at 4 wrap within three
requests.  Two errors are a crash and a crash of its recovery; a second boot is what
it takes for an index, a timer or a generation to be left over.  Four errors and
two handler runs are a burst, its acknowledgement and an error that falls in
between.  The proofs remove the bounds for every property
they cover.

Deadlock is checked in `device_memory`, `error_block` and `sliding_window`.  The
other runs switch it off because the system really may stop there: all calls
made, all boots and binds used up, firmware off -- and, after a failed probe, a thread asleep for good (finding 2).

### Fairness

`ctrl_liveness` uses the `FairSpec` of `CtrlTransactions`: every kernel thread that can take a step
takes it, `rpmsg_send()` ends (a buffer, or the 15 s of `virtio_rpmsg_bus`), a
firmware that is up serves its queues (the sweep of the QEMU model runs from a
timer), a crash is followed by the teardown and a boot (error vector,
`rproc_report_crash()`, the recovery worker).  Nobody is obliged to call, to
crash, to run out of memory or to stop a healthy device.  It gives the
host as many receive buffers as there can be messages, and replies that are not
truncated: with a lost reply and a firmware that stays healthy a waiter does
sleep on, since `VELOCITOR_RPMSG_TIMEOUT_MS` (`ctrl.c:22`) is not used by
anything.  `WaiterWoken` excludes the failed probe of finding 2 explicitly.

`firmware_lifecycle` uses the `FairSpec` of `FirmwareLifecycle`: the device's
timers fire, a message of the error vector reaches its handler, the worker runs,
a reader of `debugfs/vring` finishes.  Whoever holds `rproc->lock` goes on; this
is strong fairness, because `vring.lock` may be taken and given back by readers
of debugfs in between, and a kernel mutex is handed over in the end.  A thread
that has put a head on a ring goes on to write the doorbell.  Nobody is
obliged to boot, stop, submit, read debugfs or crash.

`data_plane` uses the `FairSpec` of `DataPlane`: a thread inside the driver goes
on, vectors reach their handlers, a firmware that is up serves the queues it was
kicked for (the sweep timer), and a crash or an error reported to remoteproc is
followed by the removal of the virtio device (the crash worker, which
`CrashNotMissed` and `Recovered` are about).  Nobody is obliged to submit, to
stop healthy firmware or to boot it again.

### Findings

Finding 1 is a run of the project; the others are not, and each has a
configuration that shows it, to be run with the MC module of the module it is
about: `tlc -config MCTraceSnapshot.cfg MCTraceRing`, and so on.
`MCErrorFindings.cfg` and `MCLifetimeFindings.cfg` list the invariants of several
findings on the same bounds, one of them active: enable one at a time.

1. `ctrl_use_after_free` -- the drain can free a transaction between its
   allocation and its send.  The comment in
   `velocitor_ctrl_transaction_cancel()` speaks of "the reference the send put
   on it"; the entry is in the table before that.
2. `MCCtrlStopWakesAll.cfg`, `StopWakesAll` -- the error path of the probe does not drain.  A
   thread that sent between the publication of the channel and the failure
   sleeps through the stop of the firmware; spec section 10.1 says all waiters
   are woken.  (A later successful probe and remove would drain it.)
3. `MCStaleFree.cfg`, `HeldAlive` -- `ioctl_free` checks the generation, then sends the bare
   handle.  If the firmware reboots in between, the block of that number in the
   new session is freed although its owner still holds it: the ABA that
   spec section 6.5 sets out to exclude.
4. `MCTraceSnapshot.cfg`, `SnapshotFaithful` -- the driver makes sure before its copy that the entries
   are in the ring, and not after it.  A device that goes on tracing laps the
   copy: the read returns torn entries, or newer ones in the place of older
   ones, the very thing for which spec section 6.6 demands the
   resynchronisation.
5. `MCTraceStaleTail.cfg`, `TailBehindHead` -- an open that began before a reboot ends by writing the
   head it read into the tail of the new ring.
6. `MCTraceWrap.cfg`, `RingHolds` -- an index is mapped to a slot by `% 511`, and 511 does not
   divide 2^32: at the wrap the slots jump, and unread entries are overwritten
   uncounted.  Spec section 6.6 says the wrap takes care of itself, which is true of
   the subtraction only.  The run wraps at 8 with 3 entries.
7. `MCErrorFindings.cfg`, `LateReadsCause` -- the start of a debug transfer clears `ERR_CODE` while vector
   5 is latched: a late handler reads no cause, where spec section 4.4 says it
   reads the first.  (Of the errors that have a code; for a crash see finding 22.)
8. `MCErrorFindings.cfg`, `SeenOrCounted` -- two errors before the first handler run cause two runs; the
   second acknowledges an error it has not read, and the error after that
   overwrites it without moving `ERR_DROPPED`.
9. `MCErrorFindings.cfg`, `ResetCancels` -- `RESET` leaves the timer of a debug transfer armed, which
   annex D.3 of the spec asks to cancel first.
10. `MCCrashedQueue.cfg`, `CrashedHasNoQueue` -- a crash after the poll of a start purges the queues, and
    the start, which does not look again, enables them; crashed firmware then
    serves them until its recovery.
11. `MCFatalStops.cfg`, `FatalStops` -- a malformed descriptor or an address beyond 42 bits raises
    vector 5 and leaves `FW_STATUS` at running; spec section 4.4 calls both
    fatal and says that fatal errors take it to 3.
12. `MCBigTable.cfg`, `TablePublished` -- a resource table of more than a page has no shadow copy; the
    device refuses what it finds, and the start succeeds without notifyids or
    features.  After an image whose table did fit, the device finds that older
    table and uses it.  The refusal raises vector 5, which the driver reports as a
    crash: recovery follows recovery, each start refused like the one before.
13. `MCDataQueueProtocol.cfg`, `QueueProtocol` -- `velocitor_data_copy()`
    (`data.c:73`) adds to a virtqueue without asking whether it exists, and
    without a lock against another submitter, the callback or the removal; spec
    section 10.1 has operations refused while a sub-driver is not ready.  The
    function has no caller in the repository yet.
14. `MCDataDetached.cfg`, `DetachedIsDone` -- the removal takes every buffer back
    and returns its slot while the device still runs: an engine may be working on
    one of them and writes its answer into a slot that is free.
15. `MCLifetimeFindings.cfg`, `AppSafe` -- an open descriptor keeps the module and not the
    card.  After an unbind its ioctls and its close use the freed device.
16. `MCLifetimeFindings.cfg`, `DebugfsSafe` -- the debugfs directory is made before
    `BAR0` is mapped and removed after it is unmapped; `inject_error` and others
    can be used in between.
17. `MCLifetimeFindings.cfg`, `ReportSafe` -- `device->rproc.handle` is never cleared,
    and the vectors are released after the rproc: a handler that runs in between
    (`irq.c:53`) reports to a freed rproc.
18. `MCLifetimeFindings.cfg`, `DirectoryLive` -- the probe ignores what
    `velocitor_debugfs_initialize()` returns (`lifecycle.c:88`) and later steps
    put their files into a directory that is not there.
19. `MCCountsPayload.cfg`, `CountsPayload` -- `DMA_RD` counts every host read of
    the transport, headers and descriptors included; spec section 4.5 counts
    payload only.
20. `MCBytesCarry.cfg`, `BytesCarry` -- the low half of the byte counter wraps
    without a carry into the high half.
21. `MCCounterReset.cfg`, `ResetReachesCard` -- the debugfs file
    `counters_reset` passes its `struct pci_dev` as the device
    (`counters.c:45`), so the write does not reach the card's lock or register.
22. `MCErrorFindings.cfg`, `CrashTracesNone` -- an injected crash raises vector 5
    without writing the error block (`velocitor.c:2738-2753`), and nothing but a
    debug transfer or a reset of the whole device clears `ERR_CODE` after an error
    was handled.  The handler reports the code of an
    older, unrelated error with the crash, a synchronous refusal for example;
    spec section 14 says the trace of a crash shows `ERR_CODE = 0`.

`SentStaysAllocated`, `NoStrandedWaiter` and `HeldStaysAlive` state, for each
of the first three findings, what holds outside of it: the accounting is sound from the send on;
nobody is stranded unless a probe failed; nobody loses a block except in a
session that serves a FREE accepted before its boot.  `CopiedOrLapped` does the
same for finding 4: an entry is right unless the device has reached its slot.
`CrashNotMissed` and `Recovered` are what limits finding 10: the recovery is on
its way.  `Routable` covers finding 12 by what the device really reads: an
enabled queue has its `notifyid` on both sides whenever the shadow page holds a
table that fits, be it of the image before.  `SlotsOwned` and `SlotReturned`
hold of every behaviour up to a misuse
(finding 13), `OwnAnswer` in spite of finding 14: a late answer meets no request
that could take it for its own.  `CallbacksSafe` is what remains of findings 16
and 17: what the handlers touch first is there, and no file outlives the device.
`ReportWhole` is what remains of findings 7 and 22: a handler may read no code,
and after a crash an older one, but never that of an error which came after what
raised the vector, nor fields of two errors.

## 4. Proofs

Every theorem is for all values of the constants that satisfy the named
`ASSUME`s of its module; nothing else is assumed, except `NoWrap` in
`TraceRingProofs`.  The assumptions are the ranges of sizes and bounds, that
`"nobody"`, the value of a free lock, is no thread, and that submitters,
handlers and the remover of `DataPlane` are different threads.  Each proof
follows the same argument: the initial states satisfy the inductive invariant,
every action preserves it (one lemma or step per action and conjunct it can
disturb), and it implies the property.  The invariants were checked with TLC on
the bounds of the runs before they were proved.

* `CtrlTransactionsProofs`, invariant `IInv`.  `OneNotify` and the others are
  not inductive: what makes them so is an exact account per transaction
  (`TxnInv`): the reference count is one for the caller that still holds it,
  plus one if the send took its reference, minus one if the entry has been
  settled; the notifications are one exactly when nobody is left who will
  notify.  `CurInv` says that a thread owns what it sends and that two threads
  never settle the same entry; `ChannelInv` that whoever is inside
  `rpmsg_send()` is a reader and that the endpoint is that of the published
  channel; `TxBufInv` bounds the transmit ring.  Proved: `TypeCorrect`,
  `NotifiedOnce`, `SentIsAllocated`, `NothingLeaks`, `EndpointStaysAlive`,
  `NobodyStranded`.
  The same invariant carries the refinement `PromiseKept`: under the
  mapping, the initial states of `CtrlTransactions` are initial states of
  `RequestReply`, and every step is a step of it or leaves outcome and client
  alone.  A step that notifies finds the request unsettled, and a caller leaves
  the wait only once it is settled.
* `DeviceMemoryProofs`, invariant `MemInv`: bump pointers are aligned and inside
  their node, blocks lie below the bump pointer (`PlacedInv`) and in the order
  of their handles (`OrderInv`), which is why they are disjoint, and leave no
  gap below it (`CoverInv`), which is why the free counts add up; every byte
  written was written through a handle of this session, inside its block
  (`WrittenInv`).  Proved: `TypeCorrect`, `CopiesAreIsolated`, `ReadsAreOwn`,
  `BlocksArePlaced`, `SpaceIsAccounted`, `LiveIsCounted`, `HandlesStayDead`.
* `HandleTableProofs`, invariant `IInv`: the table is of the device's generation
  once the start is past its regeneration (`SessionInv`), every pair anybody
  knows has been granted (`IssuedInv`), a block is in at most one hand
  (`DistinctInv`, `WireInv`), the table holds what the application holds
  (`TableInv`), and until an old FREE is served whatever names a block of this
  session names a live one (`AliveInv`).  Proved: `TypeCorrect`,
  `HeldBlocksLive`, `HeldBlocksKnown`, `NoPairTwice`, `InsertNeverBusy`,
  `FreeReachesOnce`, `NoBlockLost`.
* `FirmwareLifecycleProofs`, for any number of queues, buffers, boots and
  errors.  The properties speak of enabled queues and running firmware; the
  invariant says, for every place a start can be at, what has been done by then:
  the queue selected is the one programmed and enabled, since the lock of the VQ
  window is held between them (`WindowInv`); nothing is enabled while the rings
  are cleared, so the device's index of each is zero (`QueueInv`); which side
  knows the `notifyid`s (`TableInv`); that the boot timer cannot fire once the
  generation was learnt (`GenInv`); that a crash which a start no longer polls
  for has its message or its work item on the way (`CrashInv`).  Proved:
  `TypeCorrect`, `RingsAreProgrammed`, `RingsAreFresh`, `QueuesAreRoutable`,
  `GenerationsAgree`, `CrashesAreSeen`.
* `DataPlaneProofs`, for any number of submitters, engines, slots, copies and
  boots.  `OwnInv` is an account of the slots: one that is handed out is in the
  virtqueue or with one thread.  The slot itself says where it belongs
  (`FillInv`), which is what the callback and the removal give it back by.
  `RingInv` says which slots the rings may still name: each once, only slots the
  queue holds as long as no removal is under way, and none that a submitter is
  adding; with it `AnswerInv` says that what is on the used ring carries its own
  answer.  All this is up to a misuse of a virtqueue (finding 13), where the
  behaviour ends (`EndInv`).  Proved: `TypeCorrect`, `SlotsAreOwned`,
  `AnswersAreOwn`.
* `DriverLifetimeProofs`, for any number of applications and bindings.  Each
  kind of activity is let in by one step of the probe and has left before that
  step is undone (`UseInv`, by the positions of four steps in `Steps`); `CardInv`
  ties `held` to the phase, `ModInv` the registrations to their order.  Proved:
  `TypeCorrect`, `CallbacksAreSafe`, `FirmwareIsBacked`, `DriversArePresent`.
* `RegisterBlocksProofs`, three components.  `ErrorBlock`: while the latch is up
  neither the cause nor the fields of its error change, and the handler lets go
  of it after its last read (`BlockInv`, `HandlerInv`); registers of the DMA
  belong to the holder of the lock, and unless a call timed out an armed timer is
  that of a call that polls (`HolderInv`, `TimerInv`).  Proved:
  `ReportsAreWhole`, `EndsAreOwn`, `TransfersAreWhole`.  `SlidingWindow`, for
  every size of memory, window and page: a reader that copies holds the lock and
  the base in effect is its window (`LockInv`, `SeekInv`), what it has ends where
  its window starts (`DataInv`), and a fault is armed, on its way to one reader,
  or has failed one (`FaultInv`).  Proved: `ReadsAreRequested`, `FaultsPass`.
  `Counters`: only the holder of the lock replaces the snapshot (`CntLockInv`),
  which is a value its reader has seen (`SnapInv`).  Proved:
  `ReadsAreOneInstant`.  Each part has its type theorem.
* `TraceRingProofs`, for every size of the ring and any number of readers, boots
  and entries, under `NoWrap` (`MaxWritten + 1 < Modulus`): finding 6 shows
  that without it `RingHolds` is false.  Two entries less than a ring apart are
  in different slots, so the device overwrites only what is lapped (`WriterInv`,
  `SlotInv`); `tail`, the reader's copies of the cursors and `head` are in order
  unless a reader met a reboot (`CursorInv`), so whatever it copies was published.
  Proved: `TypeCorrect`, `RingHoldsEntries`, `CopiesAreRight`,
  `LossesAreCounted`.

Only model-checked: liveness under fairness (`WaiterWoken`, `InfoAnswered`,
`Recovered`, `Announced`, `HeadsTaken`, `SlotReturned`), which the prover does not handle.
Each module has a type invariant; it is the ground of the proofs, and no property
of a run.

## 5. Not modelled

The runtime (one ioctl per call, no state beyond the descriptor), the firmware
image builder and the scripts.  Of the files of sysfs and debugfs, what they
print.  Within the modelled parts: the contents of descriptors (a malformed one
is a refusal), `velocitor_rproc_prepare()` and `da_to_va`, which change no
state, the trace entries that handlers also write (`TraceRing` lets an entry be
written at any time), `IRQ_MASK`, which the driver never writes, fourteen of
the twenty counters, the 2^31 wrap of sequence numbers, and the 2^32 wrap of
`GENERATION`.

## 6. Plan

Done, in this order: `CtrlTransactions`, `DeviceMemory`, `HandleTable`, with
their proofs; `TraceRing`, `SlidingWindow`, `ErrorBlock`, `FirmwareLifecycle`;
`RequestReply` with its refinement, checked and proved; `DataPlane`,
`DriverLifetime`, `Counters`; the proofs of all of these.  Left:

1. That the device as `HandleTable` sees it (handles granted in order, freed
   once, forgotten at a boot) is what `DeviceMemory` implements, as a refinement
   proved the way `PromiseKept` is.
2. The runtime and the firmware image builder, should they come to keep state.
