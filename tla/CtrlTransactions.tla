-------------------------- MODULE CtrlTransactions --------------------------
(***************************************************************************)
(* The driver's control plane: requests ("transactions") that application  *)
(* threads and the rpmsg probe send to the firmware, the table of requests *)
(* in flight, and the two parties that take requests out of it -- the      *)
(* thread that receives replies and the teardown of the channel.           *)
(*                                                                         *)
(* Source: module/src/ctrl-transaction.c, module/src/ctrl.c, the callers   *)
(* in module/src/cdev.c, and the serving side in                           *)
(* qemu-device/velocitor.c (velocitor_rpmsg_drain/_recv/_send/_announce).  *)
(*                                                                         *)
(* Atomicity.  One step is one critical section of ctrl->lock (the table), *)
(* one critical section of the write side of rpdev_lock, or one access to  *)
(* a transaction outside any lock (kref_get, notify, kref_put, wake up).   *)
(* The read side of rpdev_lock spans two steps, because rpmsg_send() may   *)
(* sleep in it waiting for a transmit buffer.                              *)
(***************************************************************************)
EXTENDS Integers, Sequences, FiniteSets

CONSTANTS
  Callers,     \* application threads inside a STATS, ALLOC or FREE ioctl
  Rx,          \* the thread that runs rpmsg probe() and callback()
  Recovery,    \* the remoteproc worker that runs rpmsg remove()
  MaxCalls,    \* bound: how many transactions the callers allocate
  MaxGen,      \* bound: how many times the firmware boots
  TxBufs,      \* transmit buffers of virtio_rpmsg_bus
  RxBufs,      \* receive buffers of virtio_rpmsg_bus
  ReplyKinds   \* what a reply on the wire may look like

ASSUME ProcAssumption == /\ Rx \notin Callers
                         /\ Recovery \notin Callers
                         /\ Rx # Recovery
ASSUME BoundAssumption == /\ MaxCalls \in Nat \ {0}
                          /\ MaxGen \in Nat \ {0}
                          /\ TxBufs \in Nat \ {0}
                          /\ RxBufs \in Nat \ {0}
ASSUME ReplyAssumption ==
  ReplyKinds \subseteq {"ok", "refused", "mismatch", "short", "truncated"}

Senders == Callers \cup {Rx}
Procs   == Callers \cup {Rx, Recovery}

\* Every boot adds one INFO handshake to the callers' transactions.
MaxSeq  == MaxCalls + MaxGen
Seqs    == 1 .. MaxSeq

\* 0 stands for NULL: no channel, no endpoint, no transaction.
Gens == 0 .. MaxGen

VARIABLES
  dev,       \* the firmware: "off", "up" or "crashed"
  gen,       \* how many times it has booted
  announced, \* s->rpmsg_announced
  txq, rxq,  \* messages to the device, messages to the host
  txfree,    \* transmit buffers the host may still use
  ept,       \* generation whose rpmsg endpoint exists, 0 if none
  rpdev,     \* ctrl->rpdev: generation of the channel, 0 if NULL
  readers,   \* threads on the read side of ctrl->rpdev_lock
  table,     \* ctrl->inflight_reqs: the set of sequence numbers in the IDR
  next,      \* the next sequence number idr_alloc_cyclic() hands out
  pc, cur,   \* where each thread is, and the transaction it handles
  err,       \* what velocitor_ctrl_transaction_send() answered each sender
  owner,     \* who allocated each transaction
  kref,      \* reference count of each transaction
  sent,      \* history: transactions whose send took its reference
  status,    \* transaction->status
  done,      \* transactions whose completion has been signalled
  notified,  \* history: how often the transaction was notified
  info,      \* generation of the last INFO answer, 0 if !ctrl->info_valid
  failed     \* history: an rpmsg probe took its error path

devVars == <<dev, gen, announced, txq, rxq, txfree>>
chanVars == <<ept, rpdev, readers>>
txnVars == <<table, next, owner, kref, sent, status, done, notified>>
vars == <<devVars, chanVars, txnVars, pc, cur, err, info, failed>>

CallerPc   == {"idle", "alloced", "enter", "sending", "cancel", "wait",
               "release", "corrupt"}
RxPc       == {"idle", "bind", "alloced", "enter", "sending", "cancel",
               "release", "corrupt", "fail", "notify", "put"}
RecoveryPc == {"idle", "drain", "notify", "put", "stop"}
Statuses   == {"none", "ok", "errno", "EREMOTEIO", "EPROTO", "ECANCELED",
               "ESTALE"}
Errs       == {"none", "ENODEV", "ERESTARTSYS"}

Messages == [kind : ReplyKinds \cup {"request", "announce"}, seq : 0 .. MaxSeq]

DevType ==
  /\ dev \in {"off", "up", "crashed"}
  /\ gen \in Gens
  /\ announced \in BOOLEAN
  /\ txq \in Seq(Messages) /\ rxq \in Seq(Messages)
  /\ txfree \in 0 .. TxBufs

ChanType ==
  /\ ept \in Gens /\ rpdev \in Gens
  /\ readers \subseteq Senders

TxnType ==
  /\ table \subseteq Seqs
  /\ next \in 1 .. MaxSeq + 1
  /\ owner \in [Seqs -> Senders]
  /\ kref \in [Seqs -> Int]
  /\ sent \subseteq Seqs /\ done \subseteq Seqs
  /\ status \in [Seqs -> Statuses]
  /\ notified \in [Seqs -> Int]

ProcType ==
  /\ pc \in [Procs -> CallerPc \cup RxPc \cup RecoveryPc]
  /\ cur \in [Procs -> 0 .. MaxSeq]
  /\ err \in [Procs -> Errs]

TypeOK ==
  /\ DevType /\ ChanType /\ TxnType /\ ProcType
  /\ info \in Gens
  /\ failed \in BOOLEAN

Init ==
  /\ dev = "off" /\ gen = 0 /\ announced = FALSE
  /\ txq = <<>> /\ rxq = <<>> /\ txfree = 0
  /\ ept = 0 /\ rpdev = 0 /\ readers = {}
  /\ table = {} /\ next = 1
  /\ pc = [p \in Procs |-> "idle"]
  /\ cur = [p \in Procs |-> 0]
  /\ err = [p \in Procs |-> "none"]
  /\ owner = [s \in Seqs |-> Rx]
  /\ kref = [s \in Seqs |-> 0]
  /\ sent = {}
  /\ status = [s \in Seqs |-> "none"]
  /\ done = {}
  /\ notified = [s \in Seqs |-> 0]
  /\ info = 0 /\ failed = FALSE

Goto(p, label) == pc' = [pc EXCEPT ![p] = label]

-----------------------------------------------------------------------------
(***************************************************************************)
(* The pieces of a transaction's life.                                     *)
(***************************************************************************)

\* The entry is found but left in the IDR.
ClaimForgotten(s) == table' = table

\* Taking the entry out of the IDR, under ctrl->lock.
Claim(s) == table' = table \ {s}

\* kref_get() and kref_put(); the count reaching 0 is the kfree().
KrefGet(s) == kref' = [kref EXCEPT ![s] = @ + 1]

KrefPut(s) == kref' = [kref EXCEPT ![s] = @ - 1]

\* velocitor_ctrl_transaction_notify(): the callback of the asynchronous
\* INFO request (velocitor_ctrl_oninfo), the completion of any other.
\* st is the status the transaction carries by then.
Notify(s, st) ==
  /\ notified' = [notified EXCEPT ![s] = @ + 1]
  /\ IF owner[s] = Rx
       THEN /\ info' = IF st = "ok" THEN gen ELSE info
            /\ done' = done
       ELSE /\ done' = done \cup {s}
            /\ info' = info

\* velocitor_ctrl_transaction_alloc(): the entry is in the table, with one
\* reference, before anything has been sent.
Alloc(p) ==
  /\ next <= MaxSeq
  /\ next' = next + 1
  /\ table' = table \cup {next}
  /\ owner' = [owner EXCEPT ![next] = p]
  /\ kref' = [kref EXCEPT ![next] = 1]
  /\ cur' = [cur EXCEPT ![p] = next]
  /\ Goto(p, "alloced")
  /\ UNCHANGED <<devVars, chanVars, err, sent, status, done, notified, info,
                 failed>>

-----------------------------------------------------------------------------
(***************************************************************************)
(* A sender: an ioctl of cdev.c, or the INFO handshake of the probe.       *)
(***************************************************************************)

CallerAlloc(c) ==
  /\ pc[c] = "idle"
  /\ Cardinality({s \in 1 .. next - 1 : owner[s] # Rx}) < MaxCalls
  /\ Alloc(c)

\* The send forgets its reference.
SendGetRefForgotten(p) ==
  /\ pc[p] = "alloced"
  /\ IF kref[cur[p]] = 0
       THEN Goto(p, "corrupt") /\ UNCHANGED sent
       ELSE Goto(p, "enter") /\ sent' = sent \cup {cur[p]}
  /\ UNCHANGED <<devVars, chanVars, table, next, owner, kref, status, done,
                 notified, cur, err, info, failed>>

\* The reference velocitor_ctrl_transaction_send() takes.  If the count is
\* already 0 the memory is gone: the thread is in undefined behaviour, and
\* the model follows it no further.
SendGetRef(p) ==
  /\ pc[p] = "alloced"
  /\ IF kref[cur[p]] = 0
       THEN Goto(p, "corrupt") /\ UNCHANGED <<kref, sent>>
       ELSE /\ Goto(p, "enter")
            /\ KrefGet(cur[p])
            /\ sent' = sent \cup {cur[p]}
  /\ UNCHANGED <<devVars, chanVars, table, next, owner, status, done, notified,
                 cur, err, info, failed>>

\* down_read(&ctrl->rpdev_lock) and the test of ctrl->rpdev.
SendEnter(p) ==
  /\ pc[p] = "enter"
  /\ IF rpdev = 0
       THEN /\ err' = [err EXCEPT ![p] = "ENODEV"]
            /\ Goto(p, "cancel")
            /\ UNCHANGED readers
       ELSE /\ readers' = readers \cup {p}
            /\ Goto(p, "sending")
            /\ UNCHANGED err
  /\ UNCHANGED <<devVars, ept, rpdev, txnVars, cur, info, failed>>

\* A probe that waits for its INFO answer on the thread that receives it.
SendOkAlwaysWaits(p) ==
  /\ pc[p] = "sending"
  /\ txfree > 0
  /\ txfree' = txfree - 1
  /\ txq' = IF dev = "up"
              THEN Append(txq, [kind |-> "request", seq |-> cur[p]])
              ELSE txq
  /\ readers' = readers \ {p}
  /\ err' = [err EXCEPT ![p] = "none"]
  /\ Goto(p, "wait")
  /\ UNCHANGED <<dev, gen, announced, rxq, ept, rpdev, txnVars, cur, info,
                 failed>>

\* rpmsg_send() found a transmit buffer; up_read().  Only a synchronous
\* sender goes on to velocitor_ctrl_transaction_wait().
SendOk(p) ==
  /\ pc[p] = "sending"
  /\ txfree > 0
  /\ txfree' = txfree - 1
  /\ txq' = IF dev = "up"
              THEN Append(txq, [kind |-> "request", seq |-> cur[p]])
              ELSE txq
  /\ readers' = readers \ {p}
  /\ err' = [err EXCEPT ![p] = "none"]
  /\ Goto(p, IF p = Rx THEN "release" ELSE "wait")
  /\ UNCHANGED <<dev, gen, announced, rxq, ept, rpdev, txnVars, cur, info,
                 failed>>

\* rpmsg_send() slept 15 s on the transmit ring and gave up; up_read().
SendTimeout(p) ==
  /\ pc[p] = "sending"
  /\ txfree = 0
  /\ readers' = readers \ {p}
  /\ err' = [err EXCEPT ![p] = "ERESTARTSYS"]
  /\ Goto(p, "cancel")
  /\ UNCHANGED <<devVars, ept, rpdev, txnVars, cur, info, failed>>

\* Cancelling without asking who removed the entry.
CancelUnchecked(p) ==
  LET s == cur[p] IN
  /\ pc[p] = "cancel"
  /\ Goto(p, "release")
  /\ Claim(s)
  /\ status' = [status EXCEPT ![s] = "ECANCELED"]
  /\ Notify(s, "ECANCELED")
  /\ KrefPut(s)
  /\ UNCHANGED <<devVars, chanVars, next, owner, sent, cur, err, failed>>

\* velocitor_ctrl_transaction_cancel(): only whoever took the entry out of
\* the table notifies and drops the reference of the send.  No other thread
\* can be waiting on the transaction here: its only waiter is the one
\* cancelling it.
Cancel(p) ==
  LET s == cur[p] IN
  /\ pc[p] = "cancel"
  /\ Goto(p, "release")
  /\ IF s \in table
       THEN /\ Claim(s)
            /\ status' = [status EXCEPT ![s] = "ECANCELED"]
            /\ Notify(s, "ECANCELED")
            /\ KrefPut(s)
       ELSE UNCHANGED <<table, status, notified, done, info, kref>>
  /\ UNCHANGED <<devVars, chanVars, next, owner, sent, cur, err, failed>>

\* wait_for_completion() returns.
Woken(c) ==
  /\ pc[c] = "wait"
  /\ cur[c] \in done
  /\ Goto(c, "release")
  /\ UNCHANGED <<devVars, chanVars, txnVars, cur, err, info, failed>>

\* The caller's own velocitor_ctrl_transaction_release().  The probe goes to
\* its error path when the send failed.
Release(p) ==
  /\ pc[p] = "release"
  /\ KrefPut(cur[p])
  /\ cur' = [cur EXCEPT ![p] = 0]
  /\ err' = [err EXCEPT ![p] = "none"]
  /\ Goto(p, IF p = Rx /\ err[p] # "none" THEN "fail" ELSE "idle")
  /\ UNCHANGED <<devVars, chanVars, table, next, owner, sent, status, done,
                 notified, info, failed>>

Sender(p) == \/ SendGetRef(p) \/ SendEnter(p) \/ SendOk(p) \/ SendTimeout(p)
             \/ Cancel(p) \/ Release(p)

-----------------------------------------------------------------------------
(***************************************************************************)
(* The RX thread: rpmsg probe() on the announcement, callback() on replies.*)
(***************************************************************************)

\* The teardown does not take the write side.
NoReadersUnchecked == TRUE

\* down_write(&ctrl->rpdev_lock) has to wait for this.
NoReaders == readers = {}

RxHead(kind) == pc[Rx] = "idle" /\ rxq # <<>> /\ Head(rxq).kind = kind

\* velocitor_ctrl_rpmsg_probe() publishes the channel before INFO is sent.
ProbeBind ==
  /\ RxHead("announce")
  /\ NoReaders
  /\ rxq' = Tail(rxq)
  /\ ept' = gen
  /\ rpdev' = gen
  /\ Goto(Rx, "bind")
  /\ UNCHANGED <<dev, gen, announced, txq, txfree, readers, txnVars, cur, err,
                 info, failed>>

ProbeAlloc == pc[Rx] = "bind" /\ Alloc(Rx)

\* kzalloc() or the IDR is out of memory.
ProbeNoMem ==
  /\ pc[Rx] = "bind"
  /\ Goto(Rx, "fail")
  /\ UNCHANGED <<devVars, chanVars, txnVars, cur, err, info, failed>>

\* The error path of the probe; the rpmsg bus then destroys the endpoint.
\* Requests other threads sent on the channel stay in the table.
ProbeError ==
  /\ pc[Rx] = "fail"
  /\ NoReaders
  /\ rpdev' = 0
  /\ ept' = 0
  /\ failed' = TRUE
  /\ Goto(Rx, "idle")
  /\ UNCHANGED <<devVars, readers, txnVars, cur, err, info>>

\* What velocitor_ctrl_rpmsg_callback() makes of a reply.
ReplyStatus(kind) ==
  IF kind = "ok" THEN "ok"
  ELSE IF kind = "refused" THEN "errno"
  ELSE IF kind = "short" THEN "EPROTO"
  ELSE "EREMOTEIO"

\* velocitor_ctrl_rpmsg_callback() up to the status; the claim decides who
\* notifies.
RxClaim ==
  LET m == Head(rxq) IN
  /\ \E k \in ReplyKinds \ {"truncated"} : RxHead(k)
  /\ ept = gen
  /\ m.seq \in table
  /\ rxq' = Tail(rxq)
  /\ Claim(m.seq)
  /\ status' = [status EXCEPT ![m.seq] = ReplyStatus(m.kind)]
  /\ cur' = [cur EXCEPT ![Rx] = m.seq]
  /\ Goto(Rx, "notify")
  /\ UNCHANGED <<dev, gen, announced, txq, txfree, chanVars, next, owner, kref,
                 sent, done, notified, err, info, failed>>

\* The early returns: truncated message, endpoint gone, no waiter.
RxDrop ==
  LET m == Head(rxq) IN
  /\ \E k \in ReplyKinds : RxHead(k)
  /\ m.kind = "truncated" \/ ept # gen \/ m.seq \notin table
  /\ rxq' = Tail(rxq)
  /\ UNCHANGED <<dev, gen, announced, txq, txfree, chanVars, txnVars, pc, cur,
                 err, info, failed>>

\* notify, then release, by whoever claimed: the RX thread or the drain.
ClaimerNotify(p) ==
  /\ pc[p] = "notify"
  /\ Notify(cur[p], status[cur[p]])
  /\ Goto(p, "put")
  /\ UNCHANGED <<devVars, chanVars, table, next, owner, kref, sent, status,
                 cur, err, failed>>

ClaimerPut(p) ==
  /\ pc[p] = "put"
  /\ KrefPut(cur[p])
  /\ cur' = [cur EXCEPT ![p] = 0]
  /\ Goto(p, IF p = Rx THEN "idle" ELSE "drain")
  /\ UNCHANGED <<devVars, chanVars, table, next, owner, sent, status, done,
                 notified, err, info, failed>>

-----------------------------------------------------------------------------
(***************************************************************************)
(* The remoteproc worker: velocitor_ctrl_rpmsg_remove() and its drain.     *)
(***************************************************************************)

\* device_lock excludes a probe, the endpoint's cb_lock a callback, and the
\* write side of rpdev_lock every thread inside rpmsg_send().
RemoveBegin ==
  /\ pc[Recovery] = "idle"
  /\ dev # "off"
  /\ ept # 0
  /\ pc[Rx] = "idle"
  /\ NoReaders
  /\ ept' = 0
  /\ rpdev' = 0
  /\ Goto(Recovery, "drain")
  /\ UNCHANGED <<devVars, readers, txnVars, cur, err, info, failed>>

\* idr_get_next() returns the lowest entry.
DrainClaim ==
  /\ pc[Recovery] = "drain"
  /\ \E s \in table :
       /\ \A t \in table : s <= t
       /\ Claim(s)
       /\ status' = [status EXCEPT ![s] = "ESTALE"]
       /\ cur' = [cur EXCEPT ![Recovery] = s]
  /\ Goto(Recovery, "notify")
  /\ UNCHANGED <<devVars, chanVars, next, owner, kref, sent, done, notified,
                 err, info, failed>>

\* The drain gives up after the first entry.
DrainEndEarly ==
  /\ pc[Recovery] = "drain"
  /\ Goto(Recovery, "stop")
  /\ UNCHANGED <<devVars, chanVars, txnVars, cur, err, info, failed>>

DrainEnd ==
  /\ pc[Recovery] = "drain"
  /\ table = {}
  /\ Goto(Recovery, "stop")
  /\ UNCHANGED <<devVars, chanVars, txnVars, cur, err, info, failed>>

\* The rest of rproc_stop(): virtqueues deleted, device held in reset.
\* Without a bound channel there is nothing to remove first.
StopDevice ==
  /\ \/ pc[Recovery] = "stop"
     \/ pc[Recovery] = "idle" /\ ept = 0 /\ dev # "off"
  /\ pc[Rx] = "idle"
  /\ dev' = "off"
  /\ announced' = FALSE
  /\ txq' = <<>> /\ rxq' = <<>> /\ txfree' = 0
  /\ Goto(Recovery, "idle")
  /\ UNCHANGED <<gen, chanVars, txnVars, cur, err, info, failed>>

-----------------------------------------------------------------------------
(***************************************************************************)
(* The firmware, as far as the control queues go.                          *)
(***************************************************************************)

\* Boot: a new generation, queues re-enabled on empty rings.
Boot ==
  /\ dev = "off"
  /\ pc[Recovery] = "idle"
  /\ gen < MaxGen
  /\ dev' = "up"
  /\ gen' = gen + 1
  /\ txq' = <<>> /\ rxq' = <<>> /\ txfree' = TxBufs
  /\ UNCHANGED <<announced, chanVars, txnVars, pc, cur, err, info,
                 failed>>

\* A receive buffer goes back to the ring when the RX thread is done with it.
RxSpace == Len(rxq) + (IF pc[Rx] = "idle" THEN 0 ELSE 1) < RxBufs

\* velocitor_rpmsg_announce(), once per session.
Announce ==
  /\ dev = "up"
  /\ ~announced
  /\ RxSpace
  /\ announced' = TRUE
  /\ rxq' = Append(rxq, [kind |-> "announce", seq |-> 0])
  /\ UNCHANGED <<dev, gen, txq, txfree, chanVars, txnVars, pc, cur, err, info,
                 failed>>

\* velocitor_rpmsg_drain(): the request buffer goes back first, then the
\* reply goes out -- or is lost, when the host has no receive buffer left.
Serve ==
  /\ dev = "up"
  /\ txq # <<>>
  /\ txq' = Tail(txq)
  /\ txfree' = txfree + 1
  /\ IF RxSpace
       THEN \E k \in ReplyKinds :
              rxq' = Append(rxq, [kind |-> k, seq |-> Head(txq).seq])
       ELSE UNCHANGED rxq
  /\ UNCHANGED <<dev, gen, announced, chanVars, txnVars, pc, cur, err, info,
                 failed>>

\* FW_STATUS = 3: velocitor_vq_purge() forgets the rings.  Messages already
\* pushed to the host stay there; transmit buffers do not come back.
Crash ==
  /\ dev = "up"
  /\ dev' = "crashed"
  /\ announced' = FALSE
  /\ txq' = <<>>
  /\ UNCHANGED <<gen, rxq, txfree, chanVars, txnVars, pc, cur, err, info,
                 failed>>

-----------------------------------------------------------------------------
Next ==
  \/ \E c \in Callers : CallerAlloc(c) \/ Woken(c)
  \/ \E p \in Senders : Sender(p)
  \/ ProbeBind \/ ProbeAlloc \/ ProbeNoMem \/ ProbeError
  \/ RxClaim \/ RxDrop
  \/ \E p \in {Rx, Recovery} : ClaimerNotify(p) \/ ClaimerPut(p)
  \/ RemoveBegin \/ DrainClaim \/ DrainEnd \/ StopDevice
  \/ Boot \/ Announce \/ Serve \/ Crash

Spec == Init /\ [][Next]_vars

(***************************************************************************)
(* Fairness.  Every kernel thread keeps running, rpmsg_send() gives up     *)
(* after 15 s, a firmware that is up serves its queues, and a crash (error *)
(* vector, rproc_report_crash()) makes the worker tear down and reboot.    *)
(* Nothing obliges an application to call, firmware to crash, memory to    *)
(* run out or a healthy device to be stopped.                              *)
(***************************************************************************)
Fairness ==
  /\ \A c \in Callers : WF_vars(Woken(c))
  /\ \A p \in Senders : WF_vars(Sender(p))
  /\ WF_vars(ProbeBind) /\ WF_vars(ProbeAlloc) /\ WF_vars(ProbeError)
  /\ WF_vars(RxClaim) /\ WF_vars(RxDrop)
  /\ \A p \in {Rx, Recovery} : WF_vars(ClaimerNotify(p) \/ ClaimerPut(p))
  /\ WF_vars(dev = "crashed" /\ RemoveBegin)
  /\ WF_vars(DrainClaim) /\ WF_vars(DrainEnd)
  /\ WF_vars((dev = "crashed" \/ pc[Recovery] = "stop") /\ StopDevice)
  /\ WF_vars(Boot) /\ WF_vars(Announce) /\ WF_vars(Serve)

FairSpec == Spec /\ Fairness

-----------------------------------------------------------------------------
(***************************************************************************)
(* Properties.                                                             *)
(***************************************************************************)

\* The thread that allocated s still owes it a release.
CallerHolds(s) ==
  /\ cur[owner[s]] = s
  /\ pc[owner[s]] \in {"alloced", "enter", "sending", "cancel", "wait",
                        "release"}

\* A thread that took s out of the table has not released it yet.
InHands(s) == \E p \in {Rx, Recovery} : cur[p] = s /\ pc[p] \in {"notify", "put"}

\* "Exactly one notify" (ctrl-transaction.c, cancel): reply, drain and cancel
\* race for the entry, and no transaction is ever notified by two of them.
OneNotify == \A s \in Seqs : notified[s] <= 1

\* Once the send has taken its reference, the transaction is not freed while
\* its caller, the table or the thread that claimed it can still reach it.
SentStaysAllocated ==
  \A s \in Seqs :
    s \in sent /\ (CallerHolds(s) \/ InHands(s) \/ s \in table) => kref[s] > 0

\* No transaction leaks: when nobody can reach it any more it has been freed,
\* and no release is ever done twice.
NoLeak ==
  \A s \in Seqs :
    /\ kref[s] >= 0
    /\ ~CallerHolds(s) /\ ~InHands(s) /\ s \notin table => kref[s] = 0

\* The rpdev_lock protocol: a thread inside rpmsg_send() never has its
\* endpoint destroyed under it, neither by remove() nor by a failed probe.
EndpointAlive ==
  \A p \in Senders : pc[p] = "sending" => rpdev # 0 /\ ept = rpdev

\* A thread that can still be answered: its entry is in the hands of the one
\* that will notify it, or in a table that a reply or a drain will empty.
Answerable(s) ==
  \/ InHands(s)
  \/ /\ s \in table
     /\ ept # 0 \/ pc[Recovery] \in {"drain", "notify", "put"}

\* Teardown leaves no thread asleep: as long as no rpmsg probe has failed,
\* every thread in wait_for_completion() has somebody left to wake it.
NoStrandedWaiter ==
  ~failed =>
    \A c \in Callers : pc[c] = "wait" => cur[c] \in done \/ Answerable(cur[c])

\* Stated by the device specification, section 10.1: when the firmware is
\* stopped, requests in flight fail and all waiters are woken.  A probe that
\* failed breaks it: velocitor_ctrl_rpmsg_probe() does not drain the table.
StopWakesAll ==
  dev = "off" => \A c \in Callers : pc[c] = "wait" => cur[c] \in done

\* Stated by the comment in velocitor_ctrl_transaction_cancel(): whoever takes
\* the entry out owns "the reference the send put on it".  The entry is in the
\* table before the send, so the drain can take one that has no such
\* reference, and free the transaction its caller is about to send.
NoUseAfterFree == \A p \in Senders : pc[p] # "corrupt"

\* The mapping onto what the control plane promises.  A request is settled
\* when it is notified; its client waits from the end of its send on, unless
\* the send failed or the client is the probe, which does not wait.
OutcomeOf(s) == IF notified[s] = 0 THEN "none" ELSE status[s]

ClientOf(s) ==
  IF s >= next THEN "none"
  ELSE IF cur[owner[s]] # s \/ pc[owner[s]] \in {"notify", "put"} THEN "gone"
  ELSE IF /\ owner[s] # Rx
          /\ pc[owner[s]] \in {"wait", "release"}
          /\ err[owner[s]] = "none"
         THEN "waiting"
  ELSE "sending"

Promise == INSTANCE RequestReply
  WITH Requests <- Seqs, Outcomes <- Statuses \ {"none"}, NoOutcome <- "none",
       outcome <- [s \in Seqs |-> OutcomeOf(s)],
       client <- [s \in Seqs |-> ClientOf(s)]

\* The table, the locks and the reference counts implement the promise: every
\* request is settled once, by one of the parties that race for it (reply,
\* drain, cancel); nothing changes an outcome that was published; and no
\* synchronous ioctl returns from velocitor_ctrl_transaction_wait() without it.
KeepsPromise == Promise!Spec

\* Every thread that waits is woken -- by a reply, or by the drain when the
\* firmware crashes or the channel goes -- unless a probe failed meanwhile.
WaiterWoken == \A c \in Callers : pc[c] = "wait" ~> pc[c] # "wait" \/ failed

\* The handshake started by a probe is answered although the probe runs on
\* the thread that receives the answer, or else the channel goes away.
InfoAnswered == \A g \in 1 .. MaxGen : ept = g ~> ept # g \/ info = g

-----------------------------------------------------------------------------
(***************************************************************************)
(* The inductive invariant behind the properties above: it accounts for    *)
(* every reference and every notification of every transaction.            *)
(***************************************************************************)

SenderPc  == {"alloced", "enter", "sending", "cancel", "wait", "release",
              "corrupt"}
ClaimerPc == {"notify", "put"}

\* A thread has a transaction exactly while it sends or settles one; it owns
\* the one it sends, and the one it settles is no longer in the table.
CurInv ==
  /\ \A c \in Callers : pc[c] \in CallerPc
  /\ pc[Rx] \in RxPc /\ pc[Recovery] \in RecoveryPc
  /\ \A p \in Procs :
       IF pc[p] \in SenderPc
         THEN cur[p] \in 1 .. next - 1 /\ owner[cur[p]] = p
         ELSE IF pc[p] \in ClaimerPc
           THEN cur[p] \in (1 .. next - 1) \ table
           ELSE cur[p] = 0
  /\ pc[Rx] \in ClaimerPc /\ pc[Recovery] \in ClaimerPc => cur[Rx] # cur[Recovery]

\* The caller's reference: not yet given up by its release.
Held(s) == cur[owner[s]] = s /\ pc[owner[s]] \in SenderPc

\* Nobody has settled the transaction: its entry's reference is still owed.
Unsettled(s) == s \in table \/ InHands(s)

\* Nobody has notified it.
Notifying(s) == \E p \in {Rx, Recovery} : cur[p] = s /\ pc[p] = "notify"

Unnotified(s) == s \in table \/ Notifying(s)

\* The send has not taken its reference yet, or never will.
BeforeSend(s) == cur[owner[s]] = s /\ pc[owner[s]] \in {"alloced", "corrupt"}

Bit(b) == IF b THEN 1 ELSE 0

\* One transaction's accounts.
TxnInv(s) ==
  /\ s \in sent <=> ~BeforeSend(s)
  /\ kref[s] = Bit(Held(s)) + Bit(s \in sent) - Bit(~Unsettled(s))
  /\ notified[s] = Bit(~Unnotified(s))
  /\ s \in done => ~Unnotified(s)
  /\ owner[s] # Rx /\ ~Unnotified(s) => s \in done

FreshInv ==
  \A s \in Seqs : s >= next =>
    s \notin table /\ kref[s] = 0 /\ s \notin sent /\ notified[s] = 0 /\ s \notin done

ChannelInv ==
  /\ ept = rpdev
  /\ \A p \in Senders : pc[p] = "sending" => p \in readers /\ rpdev # 0
  /\ dev # "off" \/ rxq # <<>> => gen > 0

\* A transmit buffer is free, on its way to the device, or lost with a crash.
TxBufInv == txfree + Len(txq) <= TxBufs

IInv ==
  /\ TypeOK
  /\ TxBufInv
  /\ CurInv
  /\ \A s \in 1 .. next - 1 : TxnInv(s)
  /\ FreshInv
  /\ ChannelInv
  /\ NoStrandedWaiter
=============================================================================
