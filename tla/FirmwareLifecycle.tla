-------------------------- MODULE FirmwareLifecycle --------------------------
(***************************************************************************)
(* Boot, crash and recovery of the firmware, and the transport that every  *)
(* start programs from nothing: the shadow resource table, the vrings, the *)
(* VQ window, doorbells and sweeps.                                        *)
(*                                                                         *)
(* Source: velocitor_boot_done, _fw_verify, _reset_write, _rsc_*, _vq_*,   *)
(* _doorbell, _rpmsg_announce of qemu-device/velocitor.c;                  *)
(* module/src/remoteproc.c, module/src/vring.c, irq_error_event of         *)
(* module/src/irq.c.  The remoteproc core and virtio_rpmsg_bus are         *)
(* external.                                                               *)
(*                                                                         *)
(* Atomicity.  A register access of the driver is a step, except that the  *)
(* registers that describe one ring are written in one.  The device runs   *)
(* one handler at a time.  Of a ring there is what the device compares     *)
(* its index with: how many heads it holds, and of which start they are.   *)
(***************************************************************************)
EXTENDS Integers, FiniteSets

CONSTANTS
  NQueues,    \* VEL_VQ_COUNT
  Images,     \* firmware files a start may find, see Load
  RxBufs,     \* receive buffers virtio_rpmsg_bus lends at its probe
  MaxHeads,   \* bound: heads put on a ring after the probe
  MaxBoots,   \* bound: boots asked for after the first
  MaxErrors   \* bound: errors raised

ASSUME LifecycleAssumption ==
  /\ NQueues \in Nat /\ NQueues >= 2
  /\ Images \subseteq {"good", "badheader", "badtable", "bigtable"}
  /\ RxBufs \in Nat /\ MaxHeads \in Nat /\ MaxBoots \in Nat /\ MaxErrors \in Nat

Queues == 0 .. NQueues - 1
Rx     == 0   \* VEL_VQ_CTRL_RX
Tx     == 1   \* VEL_VQ_CTRL_TX
None   == NQueues

VARIABLES
  \* the device
  fwStatus, inReset, bootTimer, generation,
  rscValid, devIds,             \* RSC_VALID; queues whose notifyid was read
  vqSelect, prog,               \* VQ_SELECT; whose ring each queue describes
  enable, lastAvail,            \* VQ_ENABLE; heads taken
  sweep, announced,             \* s->vq_sweep; s->rpmsg_announced
  irq,                          \* a message of vector 5 waits for its handler
  \* host memory
  shadow, negotiated,           \* the table in the shadow page; F_NS in it
  ring,                         \* the vrings
  \* the driver and the remoteproc core
  rstate, powered,              \* rproc->state; rproc->power
  task, core, qi,               \* who holds rproc->lock, where, at which queue
  image, boots,
  crashWork,                    \* rproc->crash_handler is queued
  drvIds, drvGen,               \* vqs[i].notifyid is known; rproc.generation
  subdev, kicks,                \* the vdevs are there; doorbells to be written
  vlock, showAt,                \* vring.lock; velocitor_vring_debugfs_show()
  \* history
  sessions, channel,            \* starts; the start the host has a channel of
  errors

fwVars     == <<fwStatus, inReset, bootTimer, generation>>
tableVars  == <<rscValid, devIds, shadow, negotiated>>
windowVars == <<vqSelect, prog>>
queueVars  == <<enable, lastAvail, sweep, announced, channel>>
errorVars  == <<irq, errors>>
stateVars  == <<rstate, powered, image, boots, sessions>>
coreVars   == <<task, core, qi>>
driverVars == <<drvIds, drvGen>>
hostVars   == <<ring, subdev, kicks>>
showVars   == <<vlock, showAt>>
vars == <<fwVars, tableVars, windowVars, queueVars, errorVars, stateVars,
          coreVars, crashWork, driverVars, hostVars, showVars>>

Labels == {"idle", "unplug", "stop", "load", "invalidate", "publish", "release",
           "poll", "learn", "walk", "select", "program", "enable", "negotiate",
           "fill", "kick"}

FlagType ==
  /\ inReset \in BOOLEAN /\ bootTimer \in BOOLEAN /\ rscValid \in BOOLEAN
  /\ negotiated \in BOOLEAN /\ announced \in BOOLEAN /\ irq \in BOOLEAN
  /\ crashWork \in BOOLEAN /\ powered \in BOOLEAN /\ subdev \in BOOLEAN

StateType ==
  /\ fwStatus \in {"reset", "verified", "running", "crashed"}
  /\ shadow \in {"empty", "good", "bad"}
  /\ rstate \in {"offline", "running", "crashed", "gone"}
  /\ task \in {"none", "boot", "recover", "stop"} /\ core \in Labels
  /\ image \in Images /\ vlock \in {"free", "core", "show"}

CountType ==
  /\ generation \in Nat /\ drvGen \in Nat /\ sessions \in Nat /\ channel \in Nat
  /\ boots \in 0 .. MaxBoots /\ errors \in 0 .. MaxErrors

QueueType ==
  /\ devIds \subseteq Queues /\ drvIds \subseteq Queues /\ kicks \subseteq Queues
  /\ enable \subseteq Queues /\ sweep \subseteq enable
  /\ vqSelect \in Queues /\ showAt \in Queues /\ qi \in Queues
  /\ prog \in [Queues -> Queues \cup {None}]
  /\ lastAvail \in [Queues -> 0 .. RxBufs + MaxHeads]
  /\ ring \in [Queues -> [start : Nat, idx : 0 .. RxBufs + MaxHeads]]

TypeOK == FlagType /\ StateType /\ CountType /\ QueueType

\* velocitor_remoteproc_initialize() boots the firmware in the PCI probe.
Init ==
  /\ fwStatus = "reset" /\ inReset = TRUE /\ bootTimer = FALSE /\ generation = 0
  /\ rscValid = FALSE /\ devIds = {} /\ shadow = "empty" /\ negotiated = FALSE
  /\ vqSelect = 0 /\ prog = [q \in Queues |-> None]
  /\ enable = {} /\ lastAvail = [q \in Queues |-> 0]
  /\ sweep = {} /\ announced = FALSE
  /\ irq = FALSE /\ crashWork = FALSE
  /\ ring = [q \in Queues |-> [start |-> 0, idx |-> 0]]
  /\ rstate = "offline" /\ powered = TRUE
  /\ task = "boot" /\ core = "load" /\ qi = 0
  /\ image \in Images /\ boots = 0
  /\ drvIds = {} /\ drvGen = 0 /\ subdev = FALSE /\ kicks = {}
  /\ vlock = "free" /\ showAt = 0
  /\ sessions = 0 /\ channel = 0 /\ errors = 0

-----------------------------------------------------------------------------
(***************************************************************************)
(* The device.                                                             *)
(***************************************************************************)

\* velocitor_raise() of vector 5.
Raise == errors < MaxErrors /\ errors' = errors + 1 /\ irq' = TRUE

\* Purges that forget to reset last_avail, or that the channel was announced.
PurgeKeepsIndex ==
  /\ announced' = FALSE /\ sweep' = {}
  /\ enable' = {} /\ lastAvail' = lastAvail
  /\ UNCHANGED channel

PurgeKeepsAnnounced ==
  /\ announced' = announced /\ sweep' = {}
  /\ enable' = {} /\ lastAvail' = [q \in Queues |-> 0]
  /\ UNCHANGED channel

\* velocitor_vq_purge(): the descriptions of the rings and the notifyids stay.
Purge ==
  /\ announced' = FALSE /\ sweep' = {}
  /\ enable' = {} /\ lastAvail' = [q \in Queues |-> 0]
  /\ UNCHANGED channel

\* The boot timer.
BootDone ==
  /\ bootTimer
  /\ bootTimer' = FALSE
  /\ fwStatus' = "running" /\ generation' = generation + 1
  /\ UNCHANGED <<inReset, tableVars, windowVars, queueVars, errorVars, stateVars,
                 coreVars, crashWork, driverVars, hostVars, showVars>>

\* A reset that lets the boot timer run on.
ResetAssertKeepsTimer ==
  /\ inReset' = TRUE
  /\ Purge
  /\ rscValid' = FALSE
  /\ fwStatus' = "reset"
  /\ UNCHANGED <<bootTimer, generation, devIds, shadow, negotiated>>

\* RESET = 1.
ResetAssert ==
  /\ inReset' = TRUE
  /\ bootTimer' = FALSE
  /\ Purge
  /\ rscValid' = FALSE
  /\ fwStatus' = "reset"
  /\ UNCHANGED <<generation, devIds, shadow, negotiated>>

\* RESET = 0: velocitor_fw_verify().
ResetRelease ==
  /\ inReset' = FALSE
  /\ \/ /\ image = "badheader"
        /\ fwStatus' = "reset"
        /\ Raise
        /\ UNCHANGED bootTimer
     \/ /\ image # "badheader"
        /\ fwStatus' = "verified" /\ bootTimer' = TRUE
        /\ UNCHANGED errorVars
  /\ UNCHANGED generation

\* The notifyids are not read.
RscPublishNoScan ==
  \/ /\ shadow # "good"
     /\ Raise
     /\ UNCHANGED tableVars
  \/ /\ shadow # "empty"
     /\ rscValid' = TRUE
     /\ UNCHANGED <<devIds, shadow, negotiated, errorVars>>

\* RSC_VALID = 1: a table that cannot be one is refused and raises the vector;
\* a table with too few vrings is taken and leaves the other queues unnamed.
RscPublish ==
  \/ /\ shadow # "good"
     /\ Raise
     /\ UNCHANGED tableVars
  \/ /\ shadow # "empty"
     /\ rscValid' = TRUE
     /\ devIds' = IF shadow = "bad" THEN Queues \ {NQueues - 1} ELSE Queues
     /\ UNCHANGED <<shadow, negotiated, errorVars>>

\* VQ_ENABLE = 1 on the selected queue, which arms a sweep.
VqEnable ==
  IF vqSelect \in enable \/ prog[vqSelect] = None
  THEN UNCHANGED <<enable, sweep>>
  ELSE enable' = enable \cup {vqSelect} /\ sweep' = sweep \cup {vqSelect}

\* DOORBELL: routed by notifyid, ignored for a queue that is not enabled.
Doorbell(q) ==
  sweep' = IF q \in devIds \cap enable THEN sweep \cup {q} ELSE sweep

Pending(q)  == ring[q].idx - lastAvail[q]
Least(a, b) == IF a < b THEN a ELSE b

\* Annex D.5: once F_NS is negotiated, once per session, in a buffer of Rx.
MayAnnounce == /\ Pending(Rx) # 0 /\ ~announced
               /\ rscValid /\ Rx \in devIds /\ negotiated

\* velocitor_vq_service(): taken[q] heads are taken from q.  Rx gives a buffer to
\* the announcement and to each reply, the other queues are emptied.  A queue in
\* bad holds a head whose descriptor or address the device refuses: it stops
\* there; a bad Rx gives no buffer at all.
Service(bad, taken) ==
  LET swept == sweep \cap enable
      ns    == Rx \in swept \ bad /\ MayAnnounce
      nsBuf == IF ns THEN 1 ELSE 0
  IN /\ sweep # {}
     /\ \A q \in Queues \ {Rx} :
          taken[q] \in IF q \notin swept THEN {0}
                      ELSE IF q \in bad THEN 0 .. Pending(q) ELSE {Pending(q)}
     /\ taken[Rx] \in IF Rx \in enable \ bad
                      THEN nsBuf .. Least(Pending(Rx), nsBuf + taken[Tx]) ELSE {0}
     /\ sweep' = {}
     /\ announced' = (announced \/ ns)
     /\ channel' = IF ns THEN sessions ELSE channel
     /\ lastAvail' = [q \in Queues |-> lastAvail[q] + taken[q]]
     /\ IF bad = {} THEN UNCHANGED errorVars ELSE Raise
     /\ UNCHANGED <<fwVars, tableVars, windowVars, enable, stateVars, coreVars,
                    crashWork, driverVars, hostVars, showVars>>

\* ERR_INJECT bit 2, written through debugfs.
Crash ==
  /\ rstate # "gone"
  /\ Raise
  /\ bootTimer' = FALSE
  /\ Purge
  /\ fwStatus' = "crashed"
  /\ UNCHANGED <<inReset, generation, tableVars, windowVars, stateVars, coreVars,
                 crashWork, driverVars, hostVars, showVars>>

-----------------------------------------------------------------------------
(***************************************************************************)
(* The driver: irq_error_event(), and the remoteproc core around the       *)
(* driver's operations.  rproc->lock serialises boot, stop and recovery.   *)
(***************************************************************************)
Goto(label) == core' = label /\ UNCHANGED <<task, qi>>
Done        == core' = "idle" /\ task' = "none" /\ UNCHANGED qi

\* A handler that reports a crash only if the driver believes the firmware runs.
HandleErrorIfRunning ==
  /\ irq
  /\ irq' = FALSE /\ crashWork' = (crashWork \/ rstate = "running")
  /\ UNCHANGED <<fwVars, tableVars, windowVars, queueVars, errors, stateVars,
                 coreVars, driverVars, hostVars, showVars>>

HandleError ==
  /\ irq
  /\ irq' = FALSE /\ crashWork' = TRUE
  /\ UNCHANGED <<fwVars, tableVars, windowVars, queueVars, errors, stateVars,
                 coreVars, driverVars, hostVars, showVars>>

\* rproc_boot() through sysfs: refused while rproc->power is up.
BootBegin ==
  /\ task = "none" /\ rstate = "offline" /\ ~powered /\ boots < MaxBoots
  /\ boots' = boots + 1 /\ powered' = TRUE
  /\ task' = "boot" /\ core' = "load" /\ UNCHANGED qi
  /\ UNCHANGED <<fwVars, tableVars, windowVars, queueVars, errorVars, rstate,
                 image, sessions, crashWork, driverVars, hostVars, showVars>>

\* rproc_shutdown() through sysfs.
StopBegin ==
  /\ task = "none" /\ rstate = "running"
  /\ task' = "stop" /\ core' = "unplug" /\ UNCHANGED qi
  /\ UNCHANGED <<fwVars, tableVars, windowVars, queueVars, errorVars, stateVars,
                 crashWork, driverVars, hostVars, showVars>>

\* The worker waits for firmware that is alive.
CrashWorkWaits ==
  /\ crashWork /\ task = "none"
  /\ fwStatus # "crashed"
  /\ crashWork' = FALSE
  /\ \/ /\ rstate = "running"
        /\ rstate' = "crashed"
        /\ task' = "recover" /\ core' = "unplug" /\ UNCHANGED qi
     \/ rstate # "running" /\ UNCHANGED <<rstate, coreVars>>
  /\ UNCHANGED <<fwVars, tableVars, windowVars, queueVars, errorVars, powered,
                 image, boots, sessions, driverVars, hostVars, showVars>>

\* The crash worker: nothing to do while offline, a recovery otherwise.
CrashWork ==
  /\ crashWork /\ task = "none"
  /\ crashWork' = FALSE
  /\ \/ /\ rstate = "running"
        /\ rstate' = "crashed"
        /\ task' = "recover" /\ core' = "unplug" /\ UNCHANGED qi
     \/ rstate # "running" /\ UNCHANGED <<rstate, coreVars>>
  /\ UNCHANGED <<fwVars, tableVars, windowVars, queueVars, errorVars, powered,
                 image, boots, sessions, driverVars, hostVars, showVars>>

\* The subdevices go first; a doorbell may still be on its way.
Unplug ==
  /\ core = "unplug"
  /\ subdev' = FALSE
  /\ Goto("stop")
  /\ UNCHANGED <<fwVars, tableVars, windowVars, queueVars, errorVars, stateVars,
                 crashWork, driverVars, ring, kicks, showVars>>

\* velocitor_rproc_stop(), and what the core makes of it: the end of a stop or
\* of a start that failed, or the first half of a recovery.  The first boot
\* failing fails the PCI probe.
Stop ==
  /\ core = "stop"
  /\ ResetAssert
  /\ \/ task = "recover" /\ rstate = "crashed" /\ Goto("load")
     \/ ~(task = "recover" /\ rstate = "crashed") /\ Done
  /\ rstate' = IF task = "boot" /\ sessions = 1 THEN "gone" ELSE "offline"
  /\ powered' = (task = "recover")
  /\ UNCHANGED <<windowVars, errorVars, image, boots, sessions, crashWork,
                 driverVars, hostVars, showVars>>

-----------------------------------------------------------------------------
(***************************************************************************)
(* The driver: velocitor_rproc_start().                                    *)
(***************************************************************************)

\* The core loads the image and copies its resource table to the shadow table,
\* unless find_loaded_rsc_table has none to offer because it is too big.  A
\* recovery keeps the resource table of the boot.
Load ==
  /\ core = "load"
  /\ image' \in Images
  /\ task = "recover" =>
       image' = image \/ (image = "good" /\ image' = "badheader")
  /\ image' # "good" => errors < MaxErrors
  /\ \/ /\ image' # "bigtable"
        /\ shadow' = IF image' = "badtable" THEN "bad" ELSE "good"
        /\ negotiated' = FALSE
     \/ image' = "bigtable" /\ UNCHANGED <<shadow, negotiated>>
  /\ sessions' = sessions + 1
  /\ Goto("invalidate")
  /\ UNCHANGED <<fwVars, rscValid, devIds, windowVars, queueVars, errorVars,
                 rstate, powered, boots, crashWork, driverVars, hostVars,
                 showVars>>

\* velocitor_vring_invalidate(), under vring.lock.
Invalidate ==
  /\ core = "invalidate"
  /\ vlock = "free"
  /\ drvIds' = {}
  /\ ring' = [q \in Queues |-> [start |-> sessions, idx |-> 0]]
  /\ Goto("publish")
  /\ UNCHANGED <<fwVars, tableVars, windowVars, queueVars, errorVars, stateVars,
                 crashWork, drvGen, subdev, kicks, showVars>>

Publish ==
  /\ core = "publish"
  /\ RscPublish
  /\ Goto("release")
  /\ UNCHANGED <<fwVars, windowVars, queueVars, stateVars, crashWork, driverVars,
                 hostVars, showVars>>

Release ==
  /\ core = "release"
  /\ ResetRelease
  /\ Goto("poll")
  /\ UNCHANGED <<tableVars, windowVars, queueVars, stateVars, crashWork,
                 driverVars, hostVars, showVars>>

\* FW_STATUS is polled for 20 ms: running, crashed, or a timeout.
Poll ==
  /\ core = "poll"
  /\ \/ fwStatus = "running" /\ Goto("learn")
     \/ fwStatus # "running" /\ Goto("stop")
  /\ UNCHANGED <<fwVars, tableVars, windowVars, queueVars, errorVars, stateVars,
                 crashWork, driverVars, hostVars, showVars>>

\* The generation is read and the handles are regenerated.  The check of the ABI
\* and of the size of a trace entry fails if a debug transfer has written there.
Learn ==
  /\ core = "learn"
  /\ drvGen' = generation
  /\ Goto("walk") \/ Goto("stop")
  /\ UNCHANGED <<fwVars, tableVars, windowVars, queueVars, errorVars, stateVars,
                 crashWork, drvIds, hostVars, showVars>>

\* velocitor_rproc_walk_rsc_table(): of the cached table, not of the shadow.
Walk ==
  /\ core = "walk"
  /\ \/ /\ image = "badtable"
        /\ drvIds' = Queues \ {NQueues - 1} /\ Goto("stop")
     \/ /\ image # "badtable"
        /\ drvIds' = Queues
        /\ core' = "select" /\ qi' = 0 /\ UNCHANGED task
  /\ UNCHANGED <<fwVars, tableVars, windowVars, queueVars, errorVars, stateVars,
                 crashWork, drvGen, hostVars, showVars>>

\* vring.lock is taken before the first queue and kept to the last.
MaySelect == vlock \in {"free", "core"}

ActivateSelect ==
  /\ core = "select"
  /\ MaySelect
  /\ vlock' = "core"
  /\ vqSelect' = qi
  /\ Goto("program")
  /\ UNCHANGED <<fwVars, tableVars, prog, queueVars, errorVars, stateVars,
                 crashWork, driverVars, hostVars, showAt>>

\* Addresses, VQ_NUM and VQ_MSIX_VECTOR: frozen once the queue is enabled.
ActivateProgram ==
  /\ core = "program"
  /\ prog' = IF vqSelect \in enable THEN prog ELSE [prog EXCEPT ![vqSelect] = qi]
  /\ Goto("enable")
  /\ UNCHANGED <<fwVars, tableVars, vqSelect, queueVars, errorVars, stateVars,
                 crashWork, driverVars, hostVars, showVars>>

LastQueue == qi = NQueues - 1

ActivateEnable ==
  /\ core = "enable"
  /\ VqEnable
  /\ UNCHANGED <<task, lastAvail, announced, channel>>
  /\ IF LastQueue THEN core' = "negotiate" /\ vlock' = "free" /\ UNCHANGED qi
                  ELSE core' = "select" /\ qi' = qi + 1 /\ UNCHANGED vlock
  /\ UNCHANGED <<fwVars, tableVars, windowVars, errorVars, stateVars, crashWork,
                 driverVars, hostVars, showAt>>

-----------------------------------------------------------------------------
(***************************************************************************)
(* The subdevices, the queues' users, debugfs.                             *)
(***************************************************************************)

\* finalize_features() writes through rproc->table_ptr, which is the shadow
\* table if there is one for this image.
Negotiate ==
  /\ core = "negotiate"
  /\ negotiated' = (negotiated \/ image # "bigtable")
  /\ Goto("fill")
  /\ UNCHANGED <<fwVars, rscValid, devIds, shadow, windowVars, queueVars,
                 errorVars, stateVars, crashWork, driverVars, hostVars, showVars>>

Fill ==
  /\ core = "fill"
  /\ ring' = [ring EXCEPT ![Rx].idx = RxBufs]
  /\ Goto("kick")
  /\ UNCHANGED <<fwVars, tableVars, windowVars, queueVars, errorVars, stateVars,
                 crashWork, driverVars, subdev, kicks, showVars>>

\* virtqueue_notify() at the end of the rpmsg probe; the start is over.
ProbeKick ==
  /\ core = "kick"
  /\ Doorbell(Rx)
  /\ subdev' = TRUE /\ rstate' = "running"
  /\ Done
  /\ UNCHANGED <<fwVars, tableVars, windowVars, enable, lastAvail, announced,
                 channel, errorVars, powered, image, boots, sessions, crashWork,
                 driverVars, ring, kicks, showVars>>

\* Requests, and receive buffers given back.
Submit(q) ==
  /\ subdev
  /\ ring[q].idx < MaxHeads + (IF q = Rx THEN RxBufs ELSE 0)
  /\ ring' = [ring EXCEPT ![q].idx = @ + 1]
  /\ kicks' = kicks \cup {q}
  /\ UNCHANGED <<fwVars, tableVars, windowVars, queueVars, errorVars, stateVars,
                 coreVars, crashWork, driverVars, subdev, showVars>>

\* The doorbell of the first queue, whichever has the request.
KickFirst(q) ==
  /\ q \in kicks
  /\ kicks' = kicks \ {q}
  /\ Doorbell(Rx)
  /\ UNCHANGED <<fwVars, tableVars, windowVars, enable, lastAvail, announced,
                 channel, errorVars, stateVars, coreVars, crashWork, driverVars,
                 ring, subdev, showVars>>

\* velocitor_rproc_kick().
Kick(q) ==
  /\ q \in kicks
  /\ kicks' = kicks \ {q}
  /\ Doorbell(q)
  /\ UNCHANGED <<fwVars, tableVars, windowVars, enable, lastAvail, announced,
                 channel, errorVars, stateVars, coreVars, crashWork, driverVars,
                 ring, subdev, showVars>>

\* A show that does not take vring.lock.
MayShowUnlocked == TRUE
MayShow == vlock # "core"

\* velocitor_vring_debugfs_show() writes VQ_SELECT for every queue.
Show ==
  /\ rstate # "gone"
  /\ MayShow
  /\ vqSelect' = showAt
  /\ IF showAt = NQueues - 1 THEN vlock' = "free" /\ showAt' = 0
                             ELSE vlock' = "show" /\ showAt' = showAt + 1
  /\ UNCHANGED <<fwVars, tableVars, prog, queueVars, errorVars, stateVars,
                 coreVars, crashWork, driverVars, hostVars>>

CoreStep ==
  \/ Unplug \/ Stop \/ Load \/ Invalidate \/ Publish \/ Release \/ Poll \/ Learn
  \/ Walk \/ ActivateSelect \/ ActivateProgram \/ ActivateEnable \/ Negotiate
  \/ Fill \/ ProbeKick

\* A reply to a request of Tx may be what finds that Rx is bad.
ServiceStep ==
  LET touched == sweep \cup (IF Tx \in sweep THEN {Rx} ELSE {})
  IN \E bad \in SUBSET {q \in touched \cap enable : Pending(q) # 0},
        taken \in [Queues -> 0 .. RxBufs + MaxHeads] : Service(bad, taken)

Next ==
  \/ BootDone \/ ServiceStep \/ Crash
  \/ HandleError \/ CrashWork \/ BootBegin \/ StopBegin \/ CoreStep
  \/ \E q \in Queues : Submit(q) \/ Kick(q)
  \/ Show

Spec == Init /\ [][Next]_vars

(***************************************************************************)
(* Fairness.  The timers of the device fire, a message of the error vector *)
(* reaches its handler, the worker runs, whoever holds rproc->lock goes    *)
(* on, a thread that put a head on a ring writes its doorbell, a reader of *)
(* debugfs that holds vring.lock finishes.  Nobody is obliged to boot,     *)
(* stop, submit, read debugfs or crash.                                    *)
(***************************************************************************)
Fairness ==
  /\ WF_vars(BootDone) /\ WF_vars(ServiceStep)
  /\ WF_vars(HandleError) /\ WF_vars(CrashWork)
  /\ SF_vars(CoreStep) /\ WF_vars(vlock = "show" /\ Show)
  /\ \A q \in Queues : WF_vars(Kick(q))

FairSpec == Spec /\ Fairness

-----------------------------------------------------------------------------
(***************************************************************************)
(* Properties.                                                             *)
(***************************************************************************)

\* An enabled queue describes its own ring, although two actors write the one
\* VQ_SELECT that all descriptions go through.
RingsProgrammed == \A q \in enable : prog[q] = q

\* The device never reads a dead ring: what an enabled queue finds was put there
\* since the last start, and the device's index is not ahead of the ring's.
FreshRings ==
  \A q \in enable : /\ ring[q].start = sessions
                    /\ lastAvail[q] <= ring[q].idx

\* A queue that may raise its vector has a notifyid on both sides, so that
\* irq_queue_event() and DOORBELL both find it.  The one start that gets this far
\* with a queue the device cannot name is that of a table too big for the shadow
\* page, which leaves the device with nothing, or with the table before.
Routable ==
  \A q \in enable :
    /\ q \in drvIds
    /\ \/ rscValid /\ q \in devIds
       \/ image = "bigtable" /\ shadow # "good"

\* The generation the driver hands out is the device's, through every boot,
\* failed boot and recovery, and nothing is left to move it behind the driver's
\* back: a boot that was cut short by a reset takes its timer along.
GenerationAgrees ==
  /\ rstate = "running" => drvGen = generation /\ ~bootTimer
  /\ bootTimer => fwStatus = "verified" /\ ~inReset

\* No crash is forgotten, in particular none that happens during a start or a
\* recovery: while the driver believes the firmware runs and it does not, the
\* message or the worker is on its way.
CrashNotMissed ==
  rstate = "running" /\ fwStatus # "running" /\ task = "none" => irq \/ crashWork

\* A crash of firmware the driver believes in is followed by a reset.
Recovered == (rstate = "running" /\ fwStatus = "crashed") ~> fwStatus = "reset"

\* Every session that stays up announces its control channel, although the
\* features it depends on are negotiated after the queues were enabled (images
\* with a table that fits).
Announced ==
  (rstate = "running" /\ fwStatus = "running" /\ task = "none" /\ image # "bigtable")
    ~> (channel = sessions \/ fwStatus # "running" \/ task # "none")

\* A request put on a queue of a session that stays up is taken, although its
\* doorbell is one of many, may come after a sweep that has taken the head
\* already or one that stopped at a descriptor, and is dropped without a word
\* for a queue that is not enabled or has no notifyid (images with a table that
\* fits).  Rx is left out: its buffers are taken only as there are replies.
HeadsTaken ==
  \A q \in Queues \ {Rx} :
    (Pending(q) # 0 /\ rstate = "running" /\ fwStatus = "running"
       /\ task = "none" /\ image # "bigtable")
    ~> (Pending(q) = 0 \/ fwStatus # "running" \/ task # "none")

\* "Every VQ_ENABLE goes back to zero, so the host's recovery has to reprogram
\* the window before the device will look at a ring again" (the crash branch of
\* velocitor_bar0_write): crashed firmware has no queue.
CrashedHasNoQueue == fwStatus = "crashed" => enable = {}

\* "Fatal errors take FW_STATUS to 3" (specification, section 4.4): running
\* firmware that raises the error vector has crashed.
FatalStops == [][errors' > errors /\ fwStatus = "running" => fwStatus' = "crashed"]_vars

\* The shadow table is "the device's only view of the negotiation"
\* (specification, section 6.4): a start that succeeded has published one.
TablePublished == rstate = "running" /\ fwStatus = "running" => rscValid
=============================================================================
