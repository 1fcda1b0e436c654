---------------------------- MODULE DeviceMemory ----------------------------
(***************************************************************************)
(* The memory of the device: the bump allocator behind ALLOC and FREE, and *)
(* the copy engine that reads and writes the blocks it handed out.         *)
(*                                                                         *)
(* Source: qemu-device/velocitor.c -- velocitor_node_base .. _alloc_reset, *)
(* _alloc_pick_node, _alloc_block, _free_block, _stat_fill, _data_handle,  *)
(* _data_copy, the generation check of _engine_drain, _boot_done,          *)
(* _error_qualify, _reset; geometry in qemu-device/velocitor_hw.h.         *)
(*                                                                         *)
(* The device runs on one thread: every handler is one step.  The trace    *)
(* ring and the performance counters the handlers also feed are left out.  *)
(***************************************************************************)
EXTENDS Integers, FiniteSets

CONSTANTS
  ApertureSize,  \* VEL_APERTURE_SIZE: taken out of node 0
  NodeSize,      \* VEL_NODE_SIZE
  Align,         \* VEL_ALLOC_ALIGN
  MaxHandles,    \* VEL_MAX_HANDLES
  Any,           \* VEL_NODE_ANY
  Sizes,         \* bound: the sizes ALLOC is asked for
  Extents,       \* bound: the <<offset, len>> pairs COPY is asked for
  MaxGen         \* bound: generations of the firmware

ASSUME GeometryAssumption ==
  /\ Align \in Nat \ {0}
  /\ ApertureSize \in Nat /\ NodeSize \in Nat
  /\ ApertureSize <= NodeSize
  /\ ApertureSize % Align = 0 /\ NodeSize % Align = 0
ASSUME InputAssumption ==
  /\ MaxHandles \in Nat /\ MaxGen \in Nat
  /\ Sizes \subseteq Nat
  /\ Extents \subseteq Nat \X Nat
  /\ Any \notin Nat

Nodes   == {0, 1}
MemSize == 2 * NodeSize
Bytes   == 0 .. MemSize - 1
Handles == 1 .. MaxHandles
Gens    == 0 .. MaxGen

NodeBase(n) == IF n = 0 THEN ApertureSize ELSE NodeSize
NodeEnd(n)  == IF n = 0 THEN NodeSize ELSE MemSize

\* What names a block to the host: velocitor_ctrl_alloc_resp.
Pairs  == Gens \X Handles
Nobody == <<0, 0>>
Tags   == Pairs \cup {Nobody}

VARIABLES
  running,     \* FW_STATUS is RUNNING and the queues are enabled
  generation,  \* s->generation
  nodeBump,    \* s->node_bump
  nextHandle,  \* s->next_handle
  liveHandles, \* s->live_handles
  alloc,       \* s->alloc, by handle
  inject,      \* bit 5 of ERR_INJECT, ALLOC_FAIL
  latched,     \* vector 5 in IRQ_STATUS
  err,         \* the qualified error block
  writer,      \* history: who wrote each byte since the boot
  reply        \* the last answer

allocVars == <<nodeBump, nextHandle, liveHandles, alloc>>
errVars   == <<latched, err>>
sessVars  == <<running, generation>>
vars == <<sessVars, allocVars, inject, errVars, writer, reply>>

Blocks   == [offset : 0 .. MemSize, size : Nat, node : Nodes, live : {0, 1}]
NoBlock  == [offset |-> 0, size |-> 0, node |-> 0, live |-> 0]
ErrBlock == [code : {"none", "NOMEM", "BAD_HANDLE", "OUT_OF_BOUNDS", "STALE",
                     "DMA_WIDTH"},
             handle : Nat, generation : Gens]
NoErr    == [code |-> "none", handle |-> 0, generation |-> 0]
Replies  == [status : {"ok", "EINVAL", "ENOMEM", "ESTALE", "EIO"},
             pair : Tags, read : SUBSET Tags]
Reply(st, pair, read) == [status |-> st, pair |-> pair, read |-> read]
Answer(st) == Reply(st, Nobody, {})

SessType ==
  /\ running \in BOOLEAN
  /\ generation \in Gens
  /\ inject \in BOOLEAN /\ latched \in BOOLEAN

AllocType ==
  /\ nodeBump \in [Nodes -> Nat]
  /\ nextHandle \in 1 .. MaxHandles + 1
  /\ liveHandles \in Nat
  /\ alloc \in [Handles -> Blocks]

TypeOK ==
  /\ SessType /\ AllocType
  /\ err \in ErrBlock
  /\ writer \in [Bytes -> Tags]
  /\ reply \in Replies

-----------------------------------------------------------------------------
(***************************************************************************)
(* Pieces.                                                                 *)
(***************************************************************************)

\* ROUND_UP(n, VEL_ALLOC_ALIGN).
RoundUp(n) == ((n + Align - 1) \div Align) * Align

NodeFree(n) == NodeEnd(n) - nodeBump[n]

\* Handles handed out in this session.
Used == 1 .. nextHandle - 1
Live == {h \in Used : alloc[h].live = 1}

\* The bytes of a block.
Extent(h) == alloc[h].offset .. alloc[h].offset + alloc[h].size - 1

\* velocitor_alloc_reset().
AllocReset ==
  /\ nodeBump' = [n \in Nodes |-> NodeBase(n)]
  /\ nextHandle' = 1
  /\ liveHandles' = 0
  /\ alloc' = [h \in Handles |-> NoBlock]

\* velocitor_error_qualify(): while the vector is latched, the first error
\* stays (and ERR_DROPPED, not modelled, counts).
Qualify(code, h) ==
  IF latched
    THEN err' = err
    ELSE err' = [code |-> code, handle |-> h, generation |-> generation]

\* Compares with the capacity of the node instead of what is left of it.
CanHoldWhenEmpty(want, size) ==
  {n \in Nodes : /\ want = Any \/ want = n
                 /\ NodeEnd(n) - NodeBase(n) >= size}

\* The nodes velocitor_alloc_pick_node() may choose from.
CanHold(want, size) ==
  {n \in Nodes : (want = Any \/ want = n) /\ NodeFree(n) >= size}

-----------------------------------------------------------------------------
(***************************************************************************)
(* ALLOC and FREE.                                                         *)
(***************************************************************************)
Requested(want, size) ==
  /\ running
  /\ want \in Nodes \cup {Any}
  /\ size # 0 /\ size <= MemSize

AllocInvalid(want, size) ==
  /\ running
  /\ ~Requested(want, size)
  /\ reply' = Answer("EINVAL")
  /\ UNCHANGED <<sessVars, allocVars, inject, errVars, writer>>

\* ERR_INJECT bit 5 is consumed by the ALLOC it makes fail.
AllocInjected(want, size) ==
  /\ Requested(want, size)
  /\ inject
  /\ inject' = FALSE
  /\ Qualify("NOMEM", 0)
  /\ reply' = Answer("ENOMEM")
  /\ UNCHANGED <<sessVars, allocVars, latched, writer>>

AllocNoMem(want, size) ==
  /\ Requested(want, size)
  /\ ~inject
  /\ nextHandle > MaxHandles \/ CanHold(want, RoundUp(size)) = {}
  /\ Qualify("NOMEM", 0)
  /\ reply' = Answer("ENOMEM")
  /\ UNCHANGED <<sessVars, allocVars, inject, latched, writer>>

\* Takes the block but moves the pointer by the size that was asked for.
GrantUnrounded(n, size) ==
  LET blk == [offset |-> nodeBump[n], size |-> RoundUp(size), node |-> n,
              live |-> 1]
  IN /\ alloc' = [alloc EXCEPT ![nextHandle] = blk]
     /\ nodeBump' = [nodeBump EXCEPT ![n] = @ + size]

\* The block is cut at the bump pointer of its node.
Grant(n, size) ==
  LET blk == [offset |-> nodeBump[n], size |-> RoundUp(size), node |-> n,
              live |-> 1]
  IN /\ alloc' = [alloc EXCEPT ![nextHandle] = blk]
     /\ nodeBump' = [nodeBump EXCEPT ![n] = @ + RoundUp(size)]

AllocGrant(want, size) ==
  /\ Requested(want, size)
  /\ ~inject
  /\ nextHandle <= MaxHandles
  /\ \E n \in CanHold(want, RoundUp(size)) :
       /\ \A m \in CanHold(want, RoundUp(size)) : n <= m
       /\ Grant(n, size)
  /\ nextHandle' = nextHandle + 1
  /\ liveHandles' = liveHandles + 1
  /\ reply' = Reply("ok", <<generation, nextHandle>>, {})
  /\ UNCHANGED <<sessVars, inject, errVars, writer>>

Alloc(want, size) == \/ AllocInvalid(want, size) \/ AllocInjected(want, size)
                     \/ AllocNoMem(want, size) \/ AllocGrant(want, size)

\* velocitor_data_handle(), and the same test in velocitor_free_block().
Known(h) == h # 0 /\ h < nextHandle /\ alloc[h].live = 1

FreeBad(h) ==
  /\ running
  /\ ~Known(h)
  /\ Qualify("BAD_HANDLE", h)
  /\ reply' = Answer("EINVAL")
  /\ UNCHANGED <<sessVars, allocVars, inject, latched, writer>>

\* The handle dies; its memory and its number are not given back.
FreeBlock(h) ==
  /\ running
  /\ Known(h)
  /\ alloc' = [alloc EXCEPT ![h].live = 0]
  /\ liveHandles' = liveHandles - 1
  /\ reply' = Answer("ok")
  /\ UNCHANGED <<sessVars, nodeBump, nextHandle, inject, errVars, writer>>

Free(h) == FreeBad(h) \/ FreeBlock(h)

-----------------------------------------------------------------------------
(***************************************************************************)
(* COPY_H2D and COPY_D2H on an engine queue.  A request names a block by   *)
(* generation and handle, and an extent <<offset, len>> inside it.         *)
(***************************************************************************)

CopyStale(g) ==
  /\ running
  /\ g # generation
  /\ Qualify("STALE", 0)
  /\ reply' = Answer("ESTALE")
  /\ UNCHANGED <<sessVars, allocVars, inject, latched, writer>>

CopyBadHandle(g, h) ==
  /\ running /\ g = generation
  /\ ~Known(h)
  /\ Qualify("BAD_HANDLE", h)
  /\ reply' = Answer("EINVAL")
  /\ UNCHANGED <<sessVars, allocVars, inject, latched, writer>>

\* An extent that only has to start inside the block.
InBoundsOffsetOnly(h, offset, len) == offset <= alloc[h].size

InBounds(h, offset, len) == offset + len <= alloc[h].size

CopyRefused(g, h, offset, len) ==
  /\ running /\ g = generation
  /\ Known(h)
  /\ \/ ~InBounds(h, offset, len) /\ Qualify("OUT_OF_BOUNDS", h)
     \/ InBounds(h, offset, len) /\ len = 0 /\ err' = err
  /\ reply' = Answer("EINVAL")
  /\ UNCHANGED <<sessVars, allocVars, inject, latched, writer>>

\* What a copy touches: block->offset + offset, len bytes.
Target(h, offset, len) ==
  {b \in Bytes : /\ alloc[h].offset + offset <= b
                 /\ b < alloc[h].offset + offset + len}

\* Serves a request of any generation.
ServesAnyGeneration(g, h, offset, len) ==
  /\ running
  /\ Known(h)
  /\ InBounds(h, offset, len)
  /\ len # 0

Serves(g, h, offset, len) ==
  /\ running
  /\ g = generation
  /\ Known(h)
  /\ InBounds(h, offset, len)
  /\ len # 0

Write(touched, tag) ==
  writer' = [b \in Bytes |-> IF b \in touched THEN tag ELSE writer[b]]

CopyH2D(g, h, offset, len) ==
  /\ Serves(g, h, offset, len)
  /\ Write(Target(h, offset, len), <<g, h>>)
  /\ reply' = Answer("ok")
  /\ UNCHANGED <<sessVars, allocVars, inject, errVars>>

CopyD2H(g, h, offset, len) ==
  /\ Serves(g, h, offset, len)
  /\ reply' = Reply("ok", <<g, h>>,
                    {writer[b] : b \in Target(h, offset, len)})
  /\ UNCHANGED <<sessVars, allocVars, inject, errVars, writer>>

\* The host address is out of reach: the transfer stops anywhere, and the
\* error vector is raised.
CopyDmaFail(g, h, offset, len) ==
  /\ Serves(g, h, offset, len)
  /\ \E done \in 0 .. len : Write(Target(h, offset, done), <<g, h>>)
  /\ Qualify("DMA_WIDTH", 0)
  /\ latched' = TRUE
  /\ reply' = Answer("EIO")
  /\ UNCHANGED <<sessVars, allocVars, inject>>

Copy(g, h, offset, len) ==
  \/ CopyStale(g) \/ CopyBadHandle(g, h) \/ CopyRefused(g, h, offset, len)
  \/ CopyH2D(g, h, offset, len) \/ CopyD2H(g, h, offset, len)
  \/ CopyDmaFail(g, h, offset, len)

-----------------------------------------------------------------------------
(***************************************************************************)
(* Sessions, and what the host does to the registers.                      *)
(***************************************************************************)

\* velocitor_boot_done().
BootDone ==
  /\ ~running
  /\ generation < MaxGen
  /\ running' = TRUE
  /\ generation' = generation + 1
  /\ AllocReset
  /\ Write(Bytes, Nobody)
  /\ UNCHANGED <<inject, errVars, reply>>

\* RESET written 1.
Reset ==
  /\ running
  /\ running' = FALSE
  /\ UNCHANGED <<generation, allocVars, inject, errVars, writer, reply>>

\* ERR_INJECT bit 2; the write replaces the whole register.
Crash ==
  /\ running' = FALSE
  /\ latched' = TRUE
  /\ inject' \in BOOLEAN
  /\ UNCHANGED <<generation, allocVars, err, writer, reply>>

InjectWrite ==
  /\ inject' \in BOOLEAN
  /\ UNCHANGED <<sessVars, allocVars, errVars, writer, reply>>

IrqAck ==
  /\ latched' = FALSE
  /\ UNCHANGED <<sessVars, allocVars, inject, err, writer, reply>>

\* velocitor_reset(): the device goes back to what it was at power on.
DeviceReset ==
  /\ running' = FALSE /\ generation' = 0
  /\ AllocReset
  /\ Write(Bytes, Nobody)
  /\ inject' = FALSE /\ latched' = FALSE /\ err' = NoErr
  /\ UNCHANGED reply

Init ==
  /\ running = FALSE /\ generation = 0
  /\ nodeBump = [n \in Nodes |-> NodeBase(n)]
  /\ nextHandle = 1 /\ liveHandles = 0
  /\ alloc = [h \in Handles |-> NoBlock]
  /\ inject = FALSE /\ latched = FALSE /\ err = NoErr
  /\ writer = [b \in Bytes |-> Nobody]
  /\ reply = Answer("ok")

Next ==
  \/ \E want \in Nodes \cup {Any, 2}, size \in Sizes : Alloc(want, size)
  \/ \E h \in 0 .. MaxHandles + 1 : Free(h)
  \/ \E g \in Gens, h \in 0 .. MaxHandles + 1, x \in Extents :
       Copy(g, h, x[1], x[2])
  \/ BootDone \/ Reset \/ Crash \/ InjectWrite \/ IrqAck \/ DeviceReset

Spec == Init /\ [][Next]_vars

-----------------------------------------------------------------------------
(***************************************************************************)
(* Properties.                                                             *)
(***************************************************************************)

\* No copy of this session left a byte in a block other than its own, in the
\* firmware's aperture or in memory nobody allocated; a copy that names an
\* older session left nothing at all.
Isolation ==
  \A b \in Bytes : writer[b] # Nobody =>
    \E h \in Used : /\ writer[b] = <<generation, h>>
                    /\ {k \in Used : b \in Extent(k)} = {h}

\* What a D2H copy returned was written through the same handle, or by nobody
\* since the boot.
ReadsOwnBlock == reply.read \subseteq {reply.pair, Nobody}

\* Blocks are aligned and lie inside the allocatable range of their node,
\* which leaves the aperture out.
BlocksPlaced ==
  \A h \in Used : LET blk == alloc[h] IN
    /\ blk.offset % Align = 0
    /\ NodeBase(blk.node) <= blk.offset
    /\ blk.offset + blk.size <= NodeEnd(blk.node)

\* STAT's live_handles counts the handles that still answer.
LiveCounted == liveHandles = Cardinality(Live)

\* The bytes of a node that no block of the session holds, freed or not.
Unheld(n) ==
  {b \in NodeBase(n) .. NodeEnd(n) - 1 : \A h \in Used : b \notin Extent(h)}

\* STAT's memory adds up: no byte is handed out twice in a session, and the
\* free count of a node is the number of its bytes that were not handed out,
\* so none is lost to rounding and none comes back by a FREE.
SpaceAddsUp ==
  /\ \A h, k \in Used : h # k => Extent(h) \cap Extent(k) = {}
  /\ \A n \in Nodes : NodeFree(n) = Cardinality(Unheld(n))

\* "Handles are never reused within a session" (velocitor_free_block): what a
\* handle names does not change until the next boot, and a freed handle does
\* not come back to life.
HandlesNotReused ==
  [][running /\ running' =>
       \A h \in Used : /\ h < nextHandle'
                       /\ alloc'[h].offset = alloc[h].offset
                       /\ alloc'[h].size = alloc[h].size
                       /\ alloc'[h].node = alloc[h].node
                       /\ alloc'[h].live <= alloc[h].live]_vars

-----------------------------------------------------------------------------
(***************************************************************************)
(* The inductive invariant behind them.                                    *)
(***************************************************************************)

\* The bump pointers are aligned and never leave their node.
BumpInv ==
  \A n \in Nodes : /\ NodeBase(n) <= nodeBump[n] /\ nodeBump[n] <= NodeEnd(n)
                    /\ nodeBump[n] % Align = 0

\* Every block lies between the base and the bump pointer of its node.
PlacedInv ==
  \A h \in Used : /\ alloc[h].offset % Align = 0
                   /\ NodeBase(alloc[h].node) <= alloc[h].offset
                   /\ alloc[h].offset + alloc[h].size <= nodeBump[alloc[h].node]

\* Blocks of a node lie in the order of their handles.
OrderInv ==
  \A h, k \in Used :
    h < k /\ alloc[h].node = alloc[k].node =>
      alloc[h].offset + alloc[h].size <= alloc[k].offset

\* Every byte below the bump pointer of its node is in a block.
CoverInv ==
  \A n \in Nodes : \A b \in NodeBase(n) .. nodeBump[n] - 1 :
    \E h \in Used : b \in Extent(h)

\* A byte was written through a handle of this session, inside its block.
WrittenInv ==
  \A b \in Bytes : writer[b] # Nobody =>
    \E h \in Used : writer[b] = <<generation, h>> /\ b \in Extent(h)

MemInv == /\ TypeOK /\ LiveCounted
          /\ BumpInv /\ PlacedInv /\ OrderInv /\ CoverInv
          /\ WrittenInv /\ ReadsOwnBlock
=============================================================================
