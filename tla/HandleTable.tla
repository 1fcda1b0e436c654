----------------------------- MODULE HandleTable -----------------------------
(***************************************************************************)
(* Handles across sessions: the ALLOC and FREE ioctls, the driver's table  *)
(* of the handles it gave to the application, the allocator on the device, *)
(* and the crashes and reboots that start both over.                       *)
(*                                                                         *)
(* Source: module/src/cdev.c (ioctl_alloc, ioctl_free), module/src/        *)
(* handles.c, module/src/remoteproc.c (start, stop), and on the device     *)
(* velocitor_alloc_block, _free_block and _boot_done of                    *)
(* qemu-device/velocitor.c.                                                *)
(*                                                                         *)
(* The control channel is reduced to what CtrlTransactions shows of it: a  *)
(* request is sent, lost or refused, and its thread is woken by the reply  *)
(* or by the drain.  A reply is handed over when it is made; one that the  *)
(* teardown overtakes in the receive ring is a reply that got lost.  The   *)
(* device's placement of blocks is in DeviceMemory; a block is its handle  *)
(* here.  An ioctl that is refused before it changed anything (ESTALE or   *)
(* EINVAL from the table, ENOMEM for the transaction of an ALLOC) is no    *)
(* step.                                                                   *)
(***************************************************************************)
EXTENDS Integers, Sequences

CONSTANTS
  Threads,     \* threads of the process that has the device open
  MaxHandles,  \* VEL_MAX_HANDLES: handles per session
  MaxGen       \* bound: sessions of the firmware

ASSUME BoundAssumption == MaxHandles \in Nat /\ MaxGen \in Nat

Gens    == 0 .. MaxGen
Handles == 1 .. MaxHandles

\* A block as the application names it, {generation, handle}.
Pairs  == Gens \X Handles
Nobody == <<0, 0>>

VARIABLES
  running,    \* the firmware runs and serves its queues
  generation, \* s->generation
  nextHandle, \* s->next_handle
  live,       \* the handles whose s->alloc[].live is set
  txq,        \* requests on their way to the device
  fw,         \* how far the driver's side of the session has come
  tableGen,   \* device->handles.generation
  entries,    \* device->handles.entries: the handles in the XArray
  pc,         \* where each thread is in its ioctl
  arg,        \* the block the ioctl is about; Nobody for an ALLOC unanswered
  drained,    \* the thread's transaction was completed with ESTALE unsent
  given,      \* history: pairs ALLOC returned to the application
  accepted,   \* history: pairs FREE took out of the table
  lost,       \* history: blocks whose only trace an error path dropped
  staleFree   \* history: this session served the FREE of an older one

devVars  == <<running, generation, nextHandle, live>>
tabVars  == <<tableGen, entries>>
callVars == <<pc, arg, drained>>
histVars == <<given, accepted, lost, staleFree>>
vars == <<devVars, txq, fw, tabVars, callVars, histVars>>

\* ready: the transaction is in the table of requests in flight, not sent.
Pcs == {"idle", "erased", "ready", "wait", "insert", "copyout"}

\* On the wire FREE carries the handle only: the generation is history here.
\* Nobody reads the answer to an orphan.
Requests == [thread : Threads, pair : Pairs \cup {Nobody}, orphan : BOOLEAN]

DevType ==
  /\ running \in BOOLEAN /\ generation \in Gens
  /\ nextHandle \in 1 .. MaxHandles + 1 /\ live \subseteq Handles
  /\ fw \in {"off", "starting", "started", "probing", "bound", "unbound",
            "stopping"}

TabType == tableGen \in Gens /\ entries \subseteq Handles

CallType ==
  /\ pc \in [Threads -> Pcs]
  /\ arg \in [Threads -> Pairs \cup {Nobody}]
  /\ drained \in [Threads -> BOOLEAN]

HistType ==
  /\ given \subseteq Pairs /\ accepted \subseteq Pairs /\ lost \subseteq Pairs
  /\ staleFree \in BOOLEAN

TypeOK == /\ DevType /\ TabType /\ CallType /\ HistType
          /\ txq \in Seq(Requests)

Init ==
  /\ running = FALSE /\ generation = 0 /\ nextHandle = 1 /\ live = {}
  /\ txq = <<>> /\ fw = "off"
  /\ tableGen = 0 /\ entries = {}
  /\ pc = [t \in Threads |-> "idle"]
  /\ arg = [t \in Threads |-> Nobody]
  /\ drained = [t \in Threads |-> FALSE]
  /\ given = {} /\ accepted = {} /\ lost = {} /\ staleFree = FALSE

Goto(t, label) == pc' = [pc EXCEPT ![t] = label]

\* The ioctl returns.
Return(t) == Goto(t, "idle") /\ arg' = [arg EXCEPT ![t] = Nobody]

\* An error path drops the block.
Lose(b) == lost' = lost \cup ({b} \ {Nobody})

-----------------------------------------------------------------------------
(***************************************************************************)
(* The ioctls.                                                             *)
(***************************************************************************)

\* velocitor_cdev_ioctl_alloc() up to velocitor_ctrl_transaction_alloc().
AllocStart(t) ==
  /\ pc[t] = "idle"
  /\ Goto(t, "ready")
  /\ UNCHANGED <<devVars, txq, fw, tabVars, arg, drained, histVars>>

\* The handle is found but stays in the table.
EraseKeeps(t, g, h) ==
  /\ pc[t] = "idle"
  /\ g = tableGen
  /\ h \in entries
  /\ accepted' = accepted \cup {<<g, h>>}
  /\ arg' = [arg EXCEPT ![t] = <<g, h>>]
  /\ Goto(t, "erased")
  /\ UNCHANGED <<devVars, txq, fw, tabVars, drained, given, lost, staleFree>>

\* velocitor_cdev_ioctl_free() up to velocitor_handles_erase().  The
\* application may name any pair.
Erase(t, g, h) ==
  /\ pc[t] = "idle"
  /\ g = tableGen
  /\ h \in entries
  /\ entries' = entries \ {h}
  /\ accepted' = accepted \cup {<<g, h>>}
  /\ arg' = [arg EXCEPT ![t] = <<g, h>>]
  /\ Goto(t, "erased")
  /\ UNCHANGED <<devVars, txq, fw, tableGen, drained, given, lost, staleFree>>

\* The transaction of the FREE, allocated after the entry is gone.
FreeStart(t) ==
  /\ pc[t] = "erased"
  /\ Goto(t, "ready")
  /\ UNCHANGED <<devVars, txq, fw, tabVars, arg, drained, histVars>>

FreeNoMem(t) ==
  /\ pc[t] = "erased"
  /\ Lose(arg[t])
  /\ Return(t)
  /\ UNCHANGED <<devVars, txq, fw, tabVars, drained, given, accepted, staleFree>>

\* velocitor_ctrl_transaction_send() on whatever channel there is by now.  A
\* transaction that an earlier drain completed is sent all the same, and the
\* thread finds ESTALE in it at once.
Send(t) ==
  /\ pc[t] = "ready"
  /\ fw \in {"probing", "bound"}
  /\ txq' = IF running
              THEN Append(txq, [thread |-> t, pair |-> arg[t],
                                orphan |-> drained[t]])
              ELSE txq
  /\ IF drained[t] THEN Return(t) ELSE Goto(t, "wait") /\ UNCHANGED arg
  /\ drained' = [drained EXCEPT ![t] = FALSE]
  /\ UNCHANGED <<devVars, fw, tabVars, histVars>>

\* No channel (ENODEV), or no transmit buffer for 15 s (ERESTARTSYS).
SendFails(t) ==
  /\ pc[t] = "ready"
  /\ Lose(arg[t])
  /\ Return(t)
  /\ drained' = [drained EXCEPT ![t] = FALSE]
  /\ UNCHANGED <<devVars, txq, fw, tabVars, given, accepted, staleFree>>

\* Pairs the handle with the generation of the driver, read after the reply.
InsertRereads(t) ==
  LET h == arg[t][2] IN
  /\ pc[t] = "insert"
  /\ IF h \notin entries
       THEN /\ entries' = entries \cup {h}
            /\ Goto(t, "copyout")
            /\ arg' = [arg EXCEPT ![t] = <<tableGen, h>>]
       ELSE Return(t) /\ UNCHANGED entries
  /\ UNCHANGED <<devVars, txq, fw, tableGen, drained, histVars>>

\* The handle is inserted whatever session it is of.
InsertAnyGeneration(t) ==
  LET h == arg[t][2] IN
  /\ pc[t] = "insert"
  /\ IF h \notin entries
       THEN /\ entries' = entries \cup {h}
            /\ Goto(t, "copyout")
            /\ UNCHANGED arg
       ELSE Return(t) /\ UNCHANGED entries
  /\ UNCHANGED <<devVars, txq, fw, tableGen, drained, histVars>>

\* velocitor_handles_insert(): ESTALE and EBUSY end the ioctl.
Insert(t) ==
  LET h == arg[t][2] IN
  /\ pc[t] = "insert"
  /\ IF arg[t][1] = tableGen /\ h \notin entries
       THEN /\ entries' = entries \cup {h}
            /\ Goto(t, "copyout")
            /\ UNCHANGED arg
       ELSE Return(t) /\ UNCHANGED entries
  /\ UNCHANGED <<devVars, txq, fw, tableGen, drained, histVars>>

\* kzalloc() fails: no FREE is posted (the FIXME in ioctl_alloc).
InsertNoMem(t) ==
  /\ pc[t] = "insert"
  /\ Lose(arg[t])
  /\ Return(t)
  /\ UNCHANGED <<devVars, txq, fw, tabVars, drained, given, accepted, staleFree>>

\* velocitor_safe_copy_to_user() delivers the pair, or fails with EFAULT.
CopyOut(t) ==
  /\ pc[t] = "copyout"
  /\ \/ given' = given \cup {arg[t]}
     \/ given' = given
  /\ Return(t)
  /\ UNCHANGED <<devVars, txq, fw, tabVars, drained, accepted, lost, staleFree>>

-----------------------------------------------------------------------------
(***************************************************************************)
(* The device.                                                             *)
(***************************************************************************)

\* The reply reaches the thread if it still waits for it and the channel is
\* there; r.orphan or a full receive ring lose it.
Delivered(r) == ~r.orphan /\ fw = "bound"

HasRoom == nextHandle <= MaxHandles

\* velocitor_alloc_block() grants the next handle.
Grant ==
  /\ live' = live \cup {nextHandle}
  /\ nextHandle' = nextHandle + 1

ServeAlloc ==
  LET r == Head(txq)
      b == <<generation, nextHandle>>
  IN /\ running /\ txq # <<>> /\ r.pair = Nobody
     /\ HasRoom
     /\ txq' = Tail(txq)
     /\ Grant
     /\ \/ /\ Delivered(r)
           /\ arg' = [arg EXCEPT ![r.thread] = b]
           /\ Goto(r.thread, "insert")
           /\ UNCHANGED lost
        \/ Lose(b) /\ UNCHANGED <<arg, pc>>
     /\ UNCHANGED <<running, generation, fw, tabVars, drained, given, accepted,
                    staleFree>>

ServeNoMem ==
  LET r == Head(txq) IN
  /\ running /\ txq # <<>> /\ r.pair = Nobody
  /\ ~HasRoom
  /\ txq' = Tail(txq)
  /\ \/ Delivered(r) /\ Return(r.thread)
     \/ UNCHANGED <<pc, arg>>
  /\ UNCHANGED <<devVars, fw, tabVars, drained, histVars>>

\* velocitor_free_block() knows the handle only.
ServeFree ==
  LET r == Head(txq) IN
  /\ running /\ txq # <<>> /\ r.pair # Nobody
  /\ txq' = Tail(txq)
  /\ live' = live \ {r.pair[2]}
  /\ staleFree' = (staleFree \/ r.pair[1] # generation)
  /\ \/ Delivered(r) /\ Return(r.thread)
     \/ UNCHANGED <<pc, arg>>
  /\ UNCHANGED <<running, generation, nextHandle, fw, tabVars, drained, given,
                 accepted, lost>>

-----------------------------------------------------------------------------
(***************************************************************************)
(* Sessions.                                                               *)
(***************************************************************************)

\* The allocator starts over without a new generation.
NewSessionSameGeneration ==
  /\ generation' = IF generation = 0 THEN 1 ELSE generation
  /\ nextHandle' = 1
  /\ live' = {}

\* The generation moves on but the allocator keeps its blocks.
NewSessionKeepsBlocks ==
  /\ generation' = generation + 1
  /\ UNCHANGED <<nextHandle, live>>

NewSession ==
  /\ generation' = generation + 1
  /\ nextHandle' = 1
  /\ live' = {}

\* velocitor_rproc_start() releases RESET, velocitor_boot_done() follows.
BootDone ==
  /\ fw = "off"
  /\ generation < MaxGen
  /\ running' = TRUE
  /\ NewSession
  /\ txq' = <<>>
  /\ fw' = "starting"
  /\ staleFree' = FALSE
  /\ UNCHANGED <<tabVars, callVars, given, accepted, lost>>

\* velocitor_rproc_start() reads GENERATION, velocitor_handles_regenerate().
Regenerate ==
  /\ fw = "starting"
  /\ tableGen' = generation
  /\ entries' = IF tableGen # generation THEN {} ELSE entries
  /\ fw' = "started"
  /\ UNCHANGED <<devVars, txq, callVars, histVars>>

\* velocitor_ctrl_rpmsg_probe() publishes the channel first.  It runs on the
\* thread that receives, so no reply comes through before it is done; if it
\* fails, the requests in flight stay where they are.
ProbeBegin ==
  /\ fw = "started"
  /\ fw' = "probing"
  /\ UNCHANGED <<devVars, txq, tabVars, callVars, histVars>>

ProbeEnd ==
  /\ fw = "probing"
  /\ fw' \in {"bound", "unbound"}
  /\ UNCHANGED <<devVars, txq, tabVars, callVars, histVars>>

\* velocitor_ctrl_rpmsg_remove(): every transaction in flight is completed
\* with ESTALE.  A thread that has not sent its request yet goes on to send.
Remove ==
  /\ fw = "bound"
  /\ fw' = "stopping"
  /\ pc' = [t \in Threads |-> IF pc[t] = "wait" THEN "idle" ELSE pc[t]]
  /\ arg' = [t \in Threads |-> IF pc[t] = "wait" THEN Nobody ELSE arg[t]]
  /\ drained' = [t \in Threads |-> pc[t] = "ready" \/ drained[t]]
  /\ UNCHANGED <<devVars, txq, tabVars, histVars>>

\* velocitor_rproc_stop(), also on the error paths of the start.
Stop ==
  /\ fw \in {"starting", "started", "unbound", "stopping"}
  /\ fw' = "off"
  /\ running' = FALSE
  /\ txq' = <<>>
  /\ UNCHANGED <<generation, nextHandle, live, tabVars, callVars, histVars>>

Crash ==
  /\ running
  /\ running' = FALSE
  /\ txq' = <<>>
  /\ UNCHANGED <<generation, nextHandle, live, fw, tabVars, callVars, histVars>>

Next ==
  \/ \E t \in Threads :
       \/ AllocStart(t) \/ FreeStart(t) \/ FreeNoMem(t)
       \/ Send(t) \/ SendFails(t)
       \/ Insert(t) \/ InsertNoMem(t) \/ CopyOut(t)
  \/ \E t \in Threads, g \in Gens, h \in Handles : Erase(t, g, h)
  \/ ServeAlloc \/ ServeNoMem \/ ServeFree
  \/ BootDone \/ Regenerate \/ ProbeBegin \/ ProbeEnd \/ Remove \/ Stop \/ Crash

Spec == Init /\ [][Next]_vars

-----------------------------------------------------------------------------
(***************************************************************************)
(* Properties.                                                             *)
(***************************************************************************)

\* A block the application was given and has not freed.
Held == given \ accepted

\* Section 6.5 of the device specification lets every operation that carries
\* an old generation fail, so that while its session lasts a block the
\* application holds is alive on the device.  ioctl_free checks the
\* generation, then sends the bare handle: a FREE overtaken by a reboot kills
\* a block of the next session.
HeldAlive == running => \A b \in Held : b[1] = generation => b[2] \in live

\* The same, in every session that serves no FREE accepted before its boot:
\* nothing else the driver does can take a block away from its holder.
HeldStaysAlive == ~staleFree => HeldAlive

\* While the table is of the session of a block the application holds, FREE
\* finds the block in it.
HeldIsKnown == \A b \in Held : b[1] = tableGen => b[2] \in entries

\* No two ALLOCs, in one session or in two, answer with the same pair.
PairsUnique ==
  \A t \in Threads : pc[t] \in {"insert", "copyout"} =>
    /\ arg[t] \notin given
    /\ \A u \in Threads \ {t} : pc[u] \in {"insert", "copyout"} => arg[u] # arg[t]

\* A handle granted in the session of the table never finds its index taken: no
\* handle of another session is inserted late, whose number would cost a block of
\* this one (xa_insert() fails with -EBUSY and nothing frees the block).
NeverBusy ==
  \A t \in Threads : pc[t] = "insert" /\ arg[t][1] = tableGen => arg[t][2] \notin entries

\* A FREE that the table accepted reaches the device at most once: the device
\* is never asked to free a handle of its session that is already dead.
NoDoubleFree ==
  ~staleFree => \A i \in DOMAIN txq : LET b == txq[i].pair IN
    b # Nobody /\ b[1] = generation => b[2] \in live

\* A thread that will insert or free the block, or a FREE on the wire, still
\* answers for it.
InHands(b) ==
  \/ \E t \in Threads : pc[t] \in {"insert", "erased", "ready"} /\ arg[t] = b
  \/ \E i \in DOMAIN txq : txq[i].pair = b

\* Every live block is in the table or in somebody's hands, or was dropped by
\* one of the error paths (replies lost, ALLOCs given up, out of memory).
BlocksAccounted ==
  running => \A h \in live : LET b == <<generation, h>> IN
    \/ tableGen = generation /\ h \in entries
    \/ InHands(b)
    \/ b \in lost

-----------------------------------------------------------------------------
(***************************************************************************)
(* The inductive invariant behind the properties above.                    *)
(***************************************************************************)

\* The table follows the device: it is of the device's generation once the
\* start is past its regeneration, and requests exist in a session only.
SessionInv ==
  /\ tableGen <= generation
  /\ fw \notin {"off", "starting"} => tableGen = generation
  /\ fw = "off" => ~running
  /\ fw \in {"off", "starting", "started"} \/ ~running => txq = <<>>
  /\ fw = "starting" => nextHandle = 1 /\ tableGen < generation
  /\ \A h \in live : h < nextHandle

\* The device has granted the pair, in this session or an earlier one.
IssuedBy(b, g, n) == b[1] < g \/ (b[1] = g /\ b[2] < n)
Issued(b) == IssuedBy(b, generation, nextHandle)

IssuedInv ==
  /\ \A b \in given \cup accepted : Issued(b)
  /\ \A t \in Threads : arg[t] # Nobody => Issued(arg[t])
  /\ \A h \in entries : Issued(<<tableGen, h>>)

InTable(b) == b[1] = tableGen /\ b[2] \in entries

\* The table holds exactly one trace of a block: it leaves with the FREE, and
\* what the application holds is in it for as long as its session is.
TableInv ==
  /\ \A b \in accepted : ~InTable(b)
  /\ \A b \in Held : b[1] = tableGen => InTable(b)

Freeing(t)  == pc[t] \in {"erased", "ready"} /\ arg[t] # Nobody
Granted(t)  == pc[t] \in {"insert", "copyout"}

\* What a thread in an ioctl knows about its block.
CallInv ==
  \A t \in Threads :
    /\ pc[t] = "idle" => arg[t] = Nobody
    /\ pc[t] \in {"erased", "insert", "copyout"} => arg[t] # Nobody
    /\ pc[t] \in {"erased", "ready", "wait"} /\ arg[t] # Nobody => arg[t] \in accepted
    /\ Granted(t) => arg[t] \notin given
    /\ pc[t] = "insert" => arg[t] \notin accepted /\ ~InTable(arg[t])
    /\ pc[t] = "copyout" /\ arg[t] \notin accepted /\ arg[t][1] = tableGen => InTable(arg[t])

\* No block is in two hands.
DistinctInv ==
  \A t, u \in Threads : t # u =>
    /\ Granted(t) /\ Granted(u) => arg[t] # arg[u]
    /\ Freeing(t) /\ Freeing(u) => arg[t] # arg[u]

\* A FREE on the wire was accepted, and no other FREE of the block follows.
FreesOnWire ==
  \A i \in DOMAIN txq : txq[i].pair # Nobody =>
    /\ txq[i].pair \in accepted
    /\ \A j \in DOMAIN txq : i # j => txq[i].pair # txq[j].pair
    /\ \A t \in Threads : Freeing(t) => arg[t] # txq[i].pair

\* A request that is no orphan has its thread waiting for the answer.
WaitersOnWire ==
  fw \in {"probing", "bound"} => \A i \in DOMAIN txq : ~txq[i].orphan =>
    /\ pc[txq[i].thread] = "wait"
    /\ arg[txq[i].thread] = txq[i].pair
    /\ \A j \in DOMAIN txq : i # j /\ ~txq[j].orphan => txq[i].thread # txq[j].thread

WireInv == FreesOnWire /\ WaitersOnWire

\* Until a stale FREE is served, whatever names a block of the session names
\* a live one.
AliveInv ==
  ~staleFree =>
    /\ tableGen = generation => entries \subseteq live
    /\ \A t \in Threads :
         (pc[t] = "insert" \/ Freeing(t)) /\ arg[t][1] = generation => arg[t][2] \in live
    /\ NoDoubleFree

IInv == /\ TypeOK /\ SessionInv /\ IssuedInv /\ TableInv
        /\ CallInv /\ DistinctInv /\ WireInv /\ AliveInv /\ BlocksAccounted
=============================================================================
