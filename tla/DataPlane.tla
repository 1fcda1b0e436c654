----------------------------- MODULE DataPlane ------------------------------
(***************************************************************************)
(* The driver's data plane: copies submitted to the two engine queues, the *)
(* slots of coherent memory that carry them, the completion callback and   *)
(* the removal of the virtio device, with the engines that serve the       *)
(* queues.                                                                 *)
(*                                                                         *)
(* Source: module/src/data.c, data-transaction.c, data-virtio.c and        *)
(* qemu-device/velocitor.c (velocitor_engine_drain, velocitor_vq_push).    *)
(* velocitor_data_copy() has no caller in the repository yet; Submitters   *)
(* are the threads it is written for.                                      *)
(*                                                                         *)
(* Atomicity.  The driver takes no lock here.  An operation on a virtqueue *)
(* (add, get_buf) is two steps, so that two of them can overlap; clearing  *)
(* a slot and giving it back are two steps.  A thread that works on a      *)
(* queue which is deleted, being removed, or in another thread's hands has *)
(* undefined behaviour: the behaviour ends there.                          *)
(***************************************************************************)
EXTENDS Integers, Sequences, FiniteSets

CONSTANTS
  Submitters,  \* threads inside velocitor_data_copy()
  Remover,     \* the remoteproc worker that removes the virtio device
  Engines,     \* 0 .. VEL_ENGINES - 1
  Slots,       \* VEL_DATA_INFLIGHT: slots of each engine
  MaxTxn,      \* bound: how many copies are submitted
  MaxGen       \* bound: how many times the firmware boots

ASSUME BoundAssumption == /\ Engines \subseteq Nat
                          /\ Slots \in Nat \ {0}
                          /\ MaxTxn \in Nat \ {0}
                          /\ MaxGen \in Nat \ {0}

None == -1

Irq(e)    == <<"irq", e>>
Handlers  == {Irq(e) : e \in Engines}
Threads   == Submitters \cup Handlers \cup {Remover}

\* Three kinds of threads.
ASSUME ThreadAssumption == /\ Remover \notin Submitters \cup Handlers
                           /\ Submitters \cap Handlers = {}

SlotIds   == 0 .. Slots - 1

VARIABLES
  dev,      \* the firmware: "off", "up", "failed" (up, with a fatal error
            \* reported to the driver) or "crashed"
  gen,      \* s->generation
  vqs,      \* generation device->data.vqs belongs to, 0 once deleted
  ida,      \* queues[e].slots: slots handed out
  mem,      \* queues[e].mem: what each slot holds
  seq,      \* device->data.seq
  avail,    \* heads each engine has not popped yet
  used,     \* heads pushed back and not yet reaped
  tokens,   \* buffers the virtqueue holds for the driver
  inside,   \* threads inside an operation on each queue, one at most
  irq,      \* engines whose vector is pending
  sweep,    \* s->vq_sweep
  serving,  \* engine whose queue is being drained, None if none
  head,     \* the request it works on
  pc, loc   \* where each thread is, and <<engine, slot>> it works on

drvVars == <<ida, mem, seq>>
vqVars  == <<vqs, tokens, inside>>
devVars == <<dev, gen, sweep, serving, head>>
vars    == <<drvVars, vqVars, devVars, avail, used, irq, pc, loc>>

\* What a slot holds after the memset() of a reset: slot_idx is -1, engine 0,
\* and there is no answer in it.
Cleared == [seq |-> 0, idx |-> None, eng |-> 0, ans |-> None]

NoHead == [slot |-> None, seq |-> None, answered |-> FALSE]

DriverType ==
  /\ ida \in [Engines -> SUBSET SlotIds]
  /\ mem \in [Engines -> [SlotIds ->
       [seq : Nat, idx : SlotIds \cup {None}, eng : Engines \cup {0},
        ans : Nat \cup {None}]]]
  /\ seq \in Nat

RingType ==
  /\ vqs \in 0 .. MaxGen
  /\ avail \in [Engines -> Seq(SlotIds)] /\ used \in [Engines -> Seq(SlotIds)]
  /\ tokens \in [Engines -> SUBSET SlotIds]
  /\ inside \in [Engines -> SUBSET Threads]

DeviceType ==
  /\ dev \in {"off", "up", "failed", "crashed"} /\ gen \in 0 .. MaxGen
  /\ irq \subseteq Engines /\ sweep \subseteq Engines
  /\ serving \in Engines \cup {None}
  /\ head = NoHead \/ head \in [slot : SlotIds, seq : Nat, answered : BOOLEAN]

ThreadType ==
  /\ pc \in [Threads -> {"idle", "init", "add", "adding", "kick", "get",
                         "getting", "clear", "free", "detach", "del", "stop",
                         "undefined"}]
  /\ loc \in [Threads -> (Engines \cup {0}) \X (SlotIds \cup {None})]

TypeOK == DriverType /\ RingType /\ DeviceType /\ ThreadType

\* velocitor_data_initialize() has run, the firmware has not booted yet.
Init ==
  /\ dev = "off" /\ gen = 0 /\ vqs = 0
  /\ ida = [e \in Engines |-> {}]
  /\ mem = [e \in Engines |-> [k \in SlotIds |-> Cleared]]
  /\ seq = 0
  /\ avail = [e \in Engines |-> <<>>] /\ used = [e \in Engines |-> <<>>]
  /\ tokens = [e \in Engines |-> {}]
  /\ inside = [e \in Engines |-> {}]
  /\ irq = {} /\ sweep = {} /\ serving = None /\ head = NoHead
  /\ pc = [t \in Threads |-> "idle"]
  /\ loc = [t \in Threads |-> <<0, None>>]

Goto(t, label) == pc' = [pc EXCEPT ![t] = label]

Serves == dev \in {"up", "failed"}

-----------------------------------------------------------------------------
(***************************************************************************)
(* The rules of a virtqueue, which are the caller's to keep.               *)
(***************************************************************************)

\* The remover has reset the virtio device.
Removing == pc[Remover] # "idle"

\* Nobody else is inside an operation on the queue, and it exists.
Usable(e) == vqs # 0 /\ inside[e] = {}

Misused == pc[Remover] = "undefined"

Misuse ==
  /\ pc' = [t \in Threads |-> "undefined"]
  /\ dev' = "off" /\ sweep' = {} /\ serving' = None /\ head' = NoHead
  /\ UNCHANGED <<drvVars, vqVars, gen, avail, used, irq, loc>>

-----------------------------------------------------------------------------
(***************************************************************************)
(* A copy: velocitor_data_copy().                                          *)
(***************************************************************************)

\* The range ida_alloc_max() hands out.
SlotRange == 0 .. Slots - 1

\* A slot for a copy on engine e: the lowest one that is free.  Without one
\* the copy returns -ENOSPC.
Copy(p, e) ==
  /\ pc[p] = "idle"
  /\ gen > 0
  /\ seq + Cardinality({q \in Submitters : pc[q] = "init"}) < MaxTxn
  /\ \E k \in SlotRange \ ida[e] :
       /\ \A j \in SlotRange \ ida[e] : k <= j
       /\ ida' = [ida EXCEPT ![e] = @ \cup {k}]
       /\ loc' = [loc EXCEPT ![p] = <<e, k>>]
  /\ Goto(p, "init")
  /\ UNCHANGED <<mem, seq, vqVars, devVars, avail, used, irq>>

\* velocitor_data_transaction_init() and the request itself.  The answer is not
\* touched.
Fill(p) ==
  LET e == loc[p][1]
      k == loc[p][2] IN
  /\ pc[p] = "init"
  /\ seq' = seq + 1
  /\ mem' = [mem EXCEPT ![e][k] = [@ EXCEPT !.seq = seq, !.idx = k, !.eng = e]]
  /\ Goto(p, "add")
  /\ UNCHANGED <<ida, vqVars, devVars, avail, used, irq, loc>>

\* velocitor_data_transaction_kick() reads device->data.vqs and enters
\* virtqueue_add_sgs().
AddBegin(p) ==
  LET e == loc[p][1] IN
  /\ pc[p] = "add"
  /\ IF Usable(e) /\ ~Removing
       THEN /\ inside' = [inside EXCEPT ![e] = {p}]
            /\ Goto(p, "adding")
            /\ UNCHANGED <<drvVars, vqs, tokens, devVars, avail, used, irq, loc>>
       ELSE Misuse

\* The two descriptors are on the ring.
AddOk(p) ==
  LET e == loc[p][1]
      k == loc[p][2] IN
  /\ pc[p] = "adding"
  /\ inside' = [inside EXCEPT ![e] = {}]
  /\ tokens' = [tokens EXCEPT ![e] = @ \cup {k}]
  /\ avail' = [avail EXCEPT ![e] = Append(@, k)]
  /\ Goto(p, "kick")
  /\ UNCHANGED <<drvVars, vqs, devVars, used, irq, loc>>

\* virtqueue_add_sgs() could not map the buffers.
AddFails(p) ==
  LET e == loc[p][1] IN
  /\ pc[p] = "adding"
  /\ inside' = [inside EXCEPT ![e] = {}]
  /\ Goto(p, "clear")
  /\ UNCHANGED <<drvVars, vqs, tokens, devVars, avail, used, irq, loc>>

\* virtqueue_kick(), down to the doorbell.
Kick(p) ==
  LET e == loc[p][1] IN
  /\ pc[p] = "kick"
  /\ IF vqs = 0
       THEN Misuse
       ELSE /\ sweep' = IF Serves THEN sweep \cup {e} ELSE sweep
            /\ Goto(p, "idle")
            /\ UNCHANGED <<drvVars, vqVars, dev, gen, serving, head, avail,
                           used, irq, loc>>

\* The slot is given back first and cleared afterwards.
ResetFreesFirst(t, after) ==
  LET e == loc[t][1]
      k == loc[t][2] IN
  \/ /\ pc[t] = "clear"
     /\ ida' = IF mem[e][k].idx = None THEN ida
               ELSE [ida EXCEPT ![mem[e][k].eng] = @ \ {mem[e][k].idx}]
     /\ Goto(t, "free")
     /\ UNCHANGED <<mem, seq, vqVars, devVars, avail, used, irq, loc>>
  \/ /\ pc[t] = "free"
     /\ mem' = [mem EXCEPT ![e][k] = Cleared]
     /\ Goto(t, after)
     /\ UNCHANGED <<ida, seq, vqVars, devVars, avail, used, irq, loc>>

\* velocitor_data_transaction_reset(): the slot says where it belongs, is
\* wiped, and only then given back.
Reset(t, after) ==
  LET e == loc[t][1]
      k == loc[t][2] IN
  \/ /\ pc[t] = "clear"
     /\ loc' = [loc EXCEPT ![t] = <<mem[e][k].eng, mem[e][k].idx>>]
     /\ mem' = [mem EXCEPT ![e][k] = Cleared]
     /\ Goto(t, "free")
     /\ UNCHANGED <<ida, seq, vqVars, devVars, avail, used, irq>>
  \/ /\ pc[t] = "free"
     /\ ida' = IF k = None THEN ida ELSE [ida EXCEPT ![e] = @ \ {k}]
     /\ Goto(t, after)
     /\ UNCHANGED <<mem, seq, vqVars, devVars, avail, used, irq, loc>>

Submit(p) == \/ Fill(p) \/ AddBegin(p) \/ AddOk(p) \/ AddFails(p) \/ Kick(p)
             \/ Reset(p, "idle")

-----------------------------------------------------------------------------
(***************************************************************************)
(* The callback of an engine's vector: velocitor_data_virtio_callback().   *)
(***************************************************************************)

\* rproc_vq_interrupt() knows the queue, or drops the interrupt.
Interrupt(e) ==
  /\ e \in irq
  /\ pc[Irq(e)] = "idle"
  /\ irq' = irq \ {e}
  /\ IF vqs = 0 THEN UNCHANGED pc ELSE Goto(Irq(e), "get")
  /\ UNCHANGED <<drvVars, vqVars, devVars, avail, used, loc>>

GetBegin(e) ==
  /\ pc[Irq(e)] = "get"
  /\ IF Usable(e)
       THEN /\ inside' = [inside EXCEPT ![e] = {Irq(e)}]
            /\ Goto(Irq(e), "getting")
            /\ UNCHANGED <<drvVars, vqs, tokens, devVars, avail, used, irq, loc>>
       ELSE Misuse

\* virtqueue_get_buf() returns the next used buffer.  With none, or with one
\* that was detached meanwhile, it returns NULL and the loop ends.
GetEnd(e) ==
  /\ pc[Irq(e)] = "getting"
  /\ inside' = [inside EXCEPT ![e] = {}]
  /\ IF used[e] = <<>> \/ Head(used[e]) \notin tokens[e]
       THEN Goto(Irq(e), "idle") /\ UNCHANGED <<tokens, used, loc>>
       ELSE /\ used' = [used EXCEPT ![e] = Tail(@)]
            /\ tokens' = [tokens EXCEPT ![e] = @ \ {Head(used[e])}]
            /\ loc' = [loc EXCEPT ![Irq(e)] = <<e, Head(used[e])>>]
            /\ Goto(Irq(e), "clear")
  /\ UNCHANGED <<drvVars, vqs, devVars, avail, irq>>

\* A callback that reaps one buffer per interrupt.
AfterReapOne == "idle"

\* The loop of the callback asks for the next buffer.
AfterReap == "get"

Callback(e) == Interrupt(e) \/ GetBegin(e) \/ GetEnd(e) \/ Reset(Irq(e), AfterReap)

-----------------------------------------------------------------------------
(***************************************************************************)
(* The virtio device comes and goes with the firmware.                     *)
(***************************************************************************)

\* velocitor_data_virtio_probe(): fresh queues over the rings of this boot.
Probe ==
  /\ dev # "off" /\ vqs # gen
  /\ ~Removing
  /\ vqs' = gen
  /\ tokens' = [e \in Engines |-> {}]
  /\ UNCHANGED <<drvVars, inside, devVars, avail, used, irq, pc, loc>>

\* velocitor_data_virtio_remove(), on a stop or after a crash.  The reset
\* clears the status byte of the resource table, nothing more.
Remove ==
  /\ dev # "off" /\ vqs = gen
  /\ ~Removing
  /\ Goto(Remover, "detach")
  /\ UNCHANGED <<drvVars, vqVars, devVars, avail, used, irq, loc>>

\* virtqueue_detach_unused_buf(), queue after queue, whether the device has
\* popped the buffer or not; each one completes with -ESTALE and is reset.
Detach ==
  /\ pc[Remover] = "detach"
  /\ IF \E e \in Engines : inside[e] # {}
       THEN Misuse
       ELSE /\ IF \A e \in Engines : tokens[e] = {}
                 THEN Goto(Remover, "del") /\ UNCHANGED <<tokens, loc>>
                 ELSE \E e \in Engines, k \in SlotIds :
                        /\ \A f \in Engines : f < e => tokens[f] = {}
                        /\ k \in tokens[e]
                        /\ \A j \in tokens[e] : k <= j
                        /\ tokens' = [tokens EXCEPT ![e] = @ \ {k}]
                        /\ loc' = [loc EXCEPT ![Remover] = <<e, k>>]
                        /\ Goto(Remover, "clear")
            /\ UNCHANGED <<drvVars, vqs, inside, devVars, avail, used, irq>>

\* del_vqs(), with nobody in a callback; device->data.vqs is left dangling.
DelVqs ==
  /\ pc[Remover] = "del"
  /\ IF \E e \in Engines : pc[Irq(e)] # "idle"
       THEN Misuse
       ELSE /\ vqs' = 0
            /\ Goto(Remover, "stop")
            /\ UNCHANGED <<drvVars, tokens, inside, devVars, avail, used, irq,
                           loc>>

\* velocitor_rproc_stop(): the RESET register, which purges the queues.  The
\* device finishes the queue it drains first: both run under one lock.
Stop ==
  /\ pc[Remover] = "stop"
  /\ serving = None
  /\ dev' = "off"
  /\ sweep' = {}
  /\ Goto(Remover, "idle")
  /\ UNCHANGED <<drvVars, vqVars, gen, serving, head, avail, used, irq, loc>>

Removal == Detach \/ Reset(Remover, "detach") \/ DelVqs \/ Stop

-----------------------------------------------------------------------------
(***************************************************************************)
(* The engines.                                                            *)
(***************************************************************************)

\* A boot: rings cleared by the driver, indices by the device.
Boot ==
  /\ dev = "off" /\ gen < MaxGen
  /\ ~Removing
  /\ dev' = "up" /\ gen' = gen + 1
  /\ avail' = [e \in Engines |-> <<>>] /\ used' = [e \in Engines |-> <<>>]
  /\ UNCHANGED <<drvVars, vqVars, sweep, serving, head, irq, pc, loc>>

\* The injected crash; it cannot land inside a drain.
Crash ==
  /\ Serves /\ serving = None
  /\ dev' = "crashed"
  /\ sweep' = {}
  /\ UNCHANGED <<drvVars, vqVars, gen, serving, head, avail, used, irq, pc,
                 loc>>

\* velocitor_vq_service() starts on a queue.
ServiceBegin(e) ==
  /\ Serves /\ serving = None
  /\ e \in sweep
  /\ sweep' = sweep \ {e}
  /\ serving' = e
  /\ UNCHANGED <<drvVars, vqVars, dev, gen, head, avail, used, irq, pc, loc>>

\* velocitor_engine_drain(): the head and the request it names.
Pop ==
  /\ serving # None /\ head = NoHead
  /\ avail[serving] # <<>>
  /\ LET k == Head(avail[serving]) IN
     head' = [slot |-> k, seq |-> mem[serving][k].seq, answered |-> FALSE]
  /\ avail' = [avail EXCEPT ![serving] = Tail(@)]
  /\ UNCHANGED <<drvVars, vqVars, dev, gen, sweep, serving, used, irq, pc, loc>>

\* The head goes back before the answer is in it.
AnswerPushesFirst ==
  /\ head # NoHead
  /\ IF ~head.answered
       THEN /\ head' = [head EXCEPT !.answered = TRUE]
            /\ used' = [used EXCEPT ![serving] = Append(@, head.slot)]
            /\ irq' = irq \cup {serving}
            /\ UNCHANGED <<mem, dev>>
       ELSE /\ dev' \in {dev, "failed"}
            /\ mem' = [mem EXCEPT ![serving][head.slot].ans = head.seq]
            /\ head' = NoHead
            /\ UNCHANGED <<used, irq>>
  /\ UNCHANGED <<ida, seq, vqVars, gen, sweep, serving, avail, pc, loc>>

\* The copy, its answer written into the slot, then velocitor_vq_push().  The
\* answer may say that the copy was refused, -ESTALE or -EINVAL, or that its
\* payload could not be reached: -EIO, with the error vector up.
Answer ==
  /\ head # NoHead
  /\ IF ~head.answered
       THEN /\ dev' \in {dev, "failed"}
            /\ mem' = [mem EXCEPT ![serving][head.slot].ans = head.seq]
            /\ head' = [head EXCEPT !.answered = TRUE]
            /\ UNCHANGED <<used, irq>>
       ELSE /\ used' = [used EXCEPT ![serving] = Append(@, head.slot)]
            /\ irq' = irq \cup {serving}
            /\ head' = NoHead
            /\ UNCHANGED <<mem, dev>>
  /\ UNCHANGED <<ida, seq, vqVars, gen, sweep, serving, avail, pc, loc>>

\* Any other host access fails: the drain returns with nothing pushed, or goes on
\* to the next head if only the push of an answer failed.  The error vector goes
\* up, and the driver reports a crash to remoteproc.
Abort ==
  /\ serving # None
  /\ dev' = "failed"
  /\ head' = NoHead
  /\ serving' = IF head.answered THEN serving ELSE None
  /\ UNCHANGED <<drvVars, vqVars, gen, sweep, avail, used, irq, pc, loc>>

ServiceEnd ==
  /\ serving # None /\ head = NoHead
  /\ avail[serving] = <<>>
  /\ serving' = None
  /\ UNCHANGED <<drvVars, vqVars, dev, gen, sweep, head, avail, used, irq, pc,
                 loc>>

Drain == Pop \/ Answer \/ ServiceEnd

-----------------------------------------------------------------------------
Next ==
  \/ \E p \in Submitters, e \in Engines : Copy(p, e)
  \/ \E p \in Submitters : Submit(p)
  \/ \E e \in Engines : Callback(e)
  \/ Probe \/ Remove \/ Removal
  \/ Boot \/ Crash
  \/ \E e \in Engines : ServiceBegin(e)
  \/ Drain \/ Abort

Spec == Init /\ [][Next]_vars

(***************************************************************************)
(* Fairness.  A thread inside the driver goes on, interrupts are delivered,*)
(* a firmware that is up serves the queues it was kicked for, and a crash  *)
(* or a reported error is followed by the removal of the virtio device.    *)
(* Nobody has to submit, to stop healthy firmware or to boot it again.     *)
(***************************************************************************)
Fairness ==
  /\ \A p \in Submitters : WF_vars(Submit(p))
  /\ \A e \in Engines : /\ WF_vars(Callback(e))
                        /\ WF_vars(ServiceBegin(e))
  /\ WF_vars(Drain)
  /\ WF_vars(Probe)
  /\ WF_vars(dev \in {"failed", "crashed"} /\ Remove)
  /\ WF_vars(Removal)

FairSpec == Spec /\ Fairness

-----------------------------------------------------------------------------
(***************************************************************************)
(* Properties.                                                             *)
(***************************************************************************)

\* Who holds a slot: a thread that fills or clears it, or the virtqueue.
Holders(e, k) ==
  {t \in Threads : /\ loc[t] = <<e, k>>
                   /\ pc[t] \in {"init", "add", "adding", "clear", "free"}}
  \cup (IF k \in tokens[e] THEN {<<"vq", e>>} ELSE {})

\* Every slot handed out has exactly one holder, and a slot that nobody holds
\* is free: the error path of the submission, the callback and the removal
\* between them return each slot once, to the queue it came from.
SlotsOwned ==
  Misused \/ \A e \in Engines, k \in SlotRange :
    Cardinality(Holders(e, k)) = IF k \in ida[e] THEN 1 ELSE 0

\* A buffer reaped from a queue carries the answer to its own request: neither
\* an answer written late, nor one left over from an earlier use of the slot.
OwnAnswer ==
  \A e \in Engines :
    pc[Irq(e)] = "clear" =>
      LET m == mem[loc[Irq(e)][1]][loc[Irq(e)][2]] IN m.ans = m.seq

\* Every slot comes back, whatever the firmware does: by a completion, by the
\* removal that follows a crash, or by a failed submission.
SlotReturned ==
  \A e \in Engines, k \in SlotIds :
    k \in ida[e] ~> k \notin ida[e] \/ Misused

\* Stated by the device specification, section 10.1: operations are refused
\* with -ENODEV while a sub-driver is not ready.  velocitor_data_copy() uses
\* device->data.vqs without asking, and without a lock against the callback
\* and the removal.
QueueProtocol == ~Misused

\* Stated by the device specification, section 10.1: on a stop, requests in
\* flight fail with -ESTALE before anything is released.  The removal does not
\* stop the device: an engine still works on requests whose slots it returned.
DetachedIsDone ==
  head # NoHead => head.slot \in tokens[serving]
=============================================================================
