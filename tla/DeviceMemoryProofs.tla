------------------------- MODULE DeviceMemoryProofs -------------------------
(***************************************************************************)
(* Proofs about DeviceMemory, for any geometry, any number of handles and  *)
(* any requests.                                                           *)
(***************************************************************************)
EXTENDS DeviceMemory, FiniteSetTheorems, TLAPS

-----------------------------------------------------------------------------
(***************************************************************************)
(* Arithmetic of alignment.                                                *)
(***************************************************************************)

\* A multiple of d is aligned on d.
LEMMA MultMod ==
  ASSUME NEW d \in Nat \ {0}, NEW q \in Int PROVE (q * d) % d = 0
OBVIOUS

\* An aligned number is a multiple of the alignment.
LEMMA ModMult ==
  ASSUME NEW d \in Nat \ {0}, NEW n \in Nat, n % d = 0
  PROVE  \E q \in Int : n = q * d
OBVIOUS

\* Aligned numbers add up to aligned numbers.
LEMMA AddMod ==
  ASSUME NEW d \in Nat \ {0}, NEW a \in Nat, NEW b \in Nat,
         a % d = 0, b % d = 0
  PROVE  (a + b) % d = 0
<1>1. PICK q \in Int : a = q * d
  BY ModMult
<1>2. PICK r \in Int : b = r * d
  BY ModMult
<1>3. a + b = (q + r) * d /\ q + r \in Int
  BY <1>1, <1>2
<1>4. QED
  BY <1>3, MultMod

\* ROUND_UP gives an aligned number, not below its argument.
LEMMA RoundUpFacts ==
  ASSUME NEW n \in Nat
  PROVE  RoundUp(n) \in Nat /\ n <= RoundUp(n) /\ RoundUp(n) % Align = 0
<1> DEFINE q == (n + Align - 1) \div Align
<1>1. Align \in Nat \ {0} /\ n + Align - 1 \in Nat
  BY GeometryAssumption
<1>2. q \in Nat
  <2>1. \A d \in Nat \ {0}, m \in Nat : m \div d \in Int /\ m \div d >= 0
    OBVIOUS
  <2>2. QED
    BY <1>1, <2>1
<1>3. n + Align - 1 < Align * (q + 1)
  <2>1. \A d \in Nat \ {0}, m \in Nat : m < d * ((m \div d) + 1)
    OBVIOUS
  <2>2. QED
    BY <1>1, <2>1
<1>4. RoundUp(n) = q * Align
  BY DEF RoundUp
<1> HIDE DEF q
<1>5. q * Align \in Nat /\ Align * (q + 1) = q * Align + Align
  BY <1>1, <1>2
<1>6. n <= q * Align
  BY <1>1, <1>3, <1>5
<1>7. QED
  BY <1>1, <1>2, <1>4, <1>5, <1>6, MultMod

\* The two nodes follow one another, above the aperture.
LEMMA Geometry ==
  /\ MemSize \in Nat
  /\ \A n \in Nodes : /\ NodeBase(n) \in Nat /\ NodeEnd(n) \in Nat
                      /\ NodeBase(n) <= NodeEnd(n) /\ NodeEnd(n) <= MemSize
                      /\ NodeBase(n) % Align = 0
  /\ NodeEnd(0) <= NodeBase(1)
BY GeometryAssumption DEF Nodes, NodeBase, NodeEnd, MemSize

-----------------------------------------------------------------------------
(***************************************************************************)
(* Steps that leave the allocator alone.                                   *)
(***************************************************************************)
\* The allocator's part of MemInv.
AllocInv == /\ AllocType /\ LiveCounted
            /\ BumpInv /\ PlacedInv /\ OrderInv /\ CoverInv

\* A fresh session satisfies the allocator's invariant.
LEMMA ResetAlloc == AllocReset => AllocInv'
<1> SUFFICES ASSUME AllocReset PROVE AllocInv'
  OBVIOUS
<1>1. /\ nodeBump' = [n \in Nodes |-> NodeBase(n)]
      /\ nextHandle' = 1 /\ liveHandles' = 0
      /\ alloc' = [h \in Handles |-> NoBlock]
  BY DEF AllocReset
<1>2. AllocType'
  BY <1>1, Geometry, InputAssumption
     DEF AllocType, Blocks, NoBlock, Nodes, Handles
<1>3. Used' = {}
  BY <1>1 DEF Used
<1>4. LiveCounted'
  <2>1. Live' = {}
    BY <1>3 DEF Live
  <2>2. QED
    BY <1>1, <2>1, FS_EmptySet DEF LiveCounted
<1>5. BumpInv' /\ PlacedInv' /\ OrderInv'
  BY <1>1, <1>3, Geometry DEF BumpInv, PlacedInv, OrderInv
<1>6. CoverInv'
  BY <1>1, Geometry DEF CoverInv
<1>7. QED
  BY <1>2, <1>4, <1>5, <1>6 DEF AllocInv

\* A step that leaves the allocator alone keeps what is known about it.
LEMMA SameAlloc == AllocInv /\ UNCHANGED allocVars => AllocInv'
BY DEF AllocInv, AllocType, LiveCounted, BumpInv, PlacedInv, OrderInv, CoverInv,
       Live, Used, Extent, NodeFree, allocVars

-----------------------------------------------------------------------------
(***************************************************************************)
(* ALLOC and FREE.                                                         *)
(***************************************************************************)

\* A block cut by velocitor_alloc_block() lies above every other block of its
\* node and inside it.
LEMMA GrantAlloc ==
  ASSUME AllocInv, NEW want, NEW size \in Nat, AllocGrant(want, size)
  PROVE  AllocInv'
<1>0. /\ AllocType /\ LiveCounted /\ BumpInv /\ PlacedInv /\ OrderInv /\ CoverInv
      /\ MaxHandles \in Nat
  BY InputAssumption DEF AllocInv
<1>1. PICK n \in Nodes : NodeFree(n) >= RoundUp(size) /\ Grant(n, size)
  BY DEF AllocGrant, CanHold
<1> DEFINE rs == RoundUp(size)
           blk == [offset |-> nodeBump[n], size |-> rs, node |-> n, live |-> 1]
<1>2. rs \in Nat /\ rs % Align = 0
  BY RoundUpFacts
<1>3. /\ alloc' = [alloc EXCEPT ![nextHandle] = blk]
      /\ nodeBump' = [nodeBump EXCEPT ![n] = @ + rs]
      /\ nextHandle' = nextHandle + 1
      /\ liveHandles' = liveHandles + 1
      /\ nextHandle \in Handles
  <2>1. nextHandle \in Handles
    BY <1>0 DEF AllocGrant, AllocType, Handles
  <2>2. nextHandle' = nextHandle + 1 /\ liveHandles' = liveHandles + 1
    BY DEF AllocGrant
  <2>3. QED
    BY <1>1, <2>1, <2>2 DEF Grant
<1>4. NodeFree(n) = NodeEnd(n) - nodeBump[n]
  BY DEF NodeFree
<1> HIDE DEF rs
<1>5. /\ nodeBump[n] \in Nat /\ nodeBump[n] + rs <= NodeEnd(n)
      /\ NodeBase(n) <= nodeBump[n] /\ nodeBump[n] % Align = 0
      /\ NodeEnd(n) \in Nat /\ NodeEnd(n) <= MemSize
  BY <1>0, <1>1, <1>2, <1>4, Geometry DEF rs, AllocType, BumpInv
<1>6. blk \in Blocks
  BY <1>2, <1>5, Geometry DEF Blocks
<1>7. AllocType'
  BY <1>0, <1>2, <1>3, <1>5, <1>6 DEF AllocType, Handles
<1>8. /\ nextHandle \in Nat /\ nextHandle \notin Used
      /\ Used' = Used \cup {nextHandle} /\ Used \subseteq Handles
      /\ \A h \in Used : h < nextHandle /\ h \in Nat
  BY <1>0, <1>3 DEF Used, AllocType, Handles
<1>9. /\ alloc'[nextHandle] = blk
      /\ \A h \in Used : alloc'[h] = alloc[h]
      /\ nodeBump'[n] = nodeBump[n] + rs
      /\ \A m \in Nodes : m # n => nodeBump'[m] = nodeBump[m]
  BY <1>0, <1>3, <1>8 DEF AllocType
<1>10. BumpInv'
  <2>1. (nodeBump[n] + rs) % Align = 0
    BY <1>2, <1>5, AddMod, GeometryAssumption
  <2>2. ASSUME NEW m \in Nodes
        PROVE  /\ NodeBase(m) <= nodeBump'[m] /\ nodeBump'[m] <= NodeEnd(m)
               /\ nodeBump'[m] % Align = 0
    <3>1. CASE m = n
      BY <1>2, <1>5, <1>9, <2>1, <3>1, Geometry
    <3>2. CASE m # n
      BY <1>0, <1>9, <3>2 DEF BumpInv
    <3>3. QED
      BY <3>1, <3>2
  <2>3. QED
    BY <2>2 DEF BumpInv
<1>11. PlacedInv'
  <2>1. ASSUME NEW h \in Used'
        PROVE  /\ alloc'[h].offset % Align = 0
               /\ NodeBase(alloc'[h].node) <= alloc'[h].offset
               /\ alloc'[h].offset + alloc'[h].size <= nodeBump'[alloc'[h].node]
    <3>1. CASE h = nextHandle
      BY <1>2, <1>5, <1>9, <3>1
    <3>2. CASE h # nextHandle
      <4>1. /\ h \in Used /\ h \in Handles /\ alloc'[h] = alloc[h]
            /\ alloc[h] \in Blocks
        BY <1>0, <1>8, <1>9, <3>2 DEF AllocType
      <4>2. /\ alloc[h].offset % Align = 0
            /\ NodeBase(alloc[h].node) <= alloc[h].offset
            /\ alloc[h].offset + alloc[h].size <= nodeBump[alloc[h].node]
        BY <1>0, <4>1 DEF PlacedInv
      <4>3. /\ alloc[h].node \in Nodes /\ alloc[h].offset \in Nat
            /\ alloc[h].size \in Nat
        BY <4>1, Geometry DEF Blocks
      <4>4. nodeBump[alloc[h].node] <= nodeBump'[alloc[h].node]
        BY <1>0, <1>2, <1>9, <4>3 DEF AllocType
      <4>5. nodeBump[alloc[h].node] \in Nat /\ nodeBump'[alloc[h].node] \in Nat
        BY <1>0, <1>7, <4>3 DEF AllocType
      <4>6. QED
        BY <4>1, <4>2, <4>3, <4>4, <4>5
    <3>3. QED
      BY <3>1, <3>2
  <2>2. QED
    BY <2>1 DEF PlacedInv
<1>12. OrderInv'
  <2>1. ASSUME NEW h \in Used', NEW k \in Used', h < k,
               alloc'[h].node = alloc'[k].node
        PROVE  alloc'[h].offset + alloc'[h].size <= alloc'[k].offset
    <3>1. h \in Used
      BY <1>8, <2>1
    <3>2. CASE k \in Used
      BY <1>0, <1>9, <2>1, <3>1, <3>2 DEF OrderInv
    <3>3. CASE k = nextHandle
      BY <1>0, <1>9, <2>1, <3>1, <3>3 DEF PlacedInv
    <3>4. QED
      BY <1>8, <3>2, <3>3
  <2>2. QED
    BY <2>1 DEF OrderInv
<1>13. LiveCounted'
  <2>1. Live' = Live \cup {nextHandle} /\ nextHandle \notin Live
    BY <1>8, <1>9 DEF Live
  <2>2. IsFiniteSet(Live)
    <3>1. IsFiniteSet(Used)
      BY <1>0, FS_Interval DEF Used, AllocType
    <3>2. QED
      BY <3>1, FS_Subset DEF Live
  <2>3. Cardinality(Live') = Cardinality(Live) + 1
    BY <2>1, <2>2, FS_AddElement
  <2>4. QED
    BY <1>0, <1>3, <2>3 DEF LiveCounted
<1>14. CoverInv'
  <2>1. ASSUME NEW m \in Nodes, NEW b \in NodeBase(m) .. nodeBump'[m] - 1
        PROVE  \E h \in Used' : b \in Extent(h)'
    <3>1. NodeBase(m) \in Nat /\ nodeBump[m] \in Nat /\ nodeBump'[m] \in Nat
      BY <1>0, <1>7, Geometry DEF AllocType
    <3>2. CASE b < nodeBump[m]
      <4>1. b \in NodeBase(m) .. nodeBump[m] - 1
        BY <2>1, <3>1, <3>2
      <4>2. PICK h \in Used : b \in Extent(h)
        BY <1>0, <4>1 DEF CoverInv
      <4>3. h \in Used' /\ Extent(h)' = Extent(h)
        BY <1>8, <1>9 DEF Extent
      <4>4. QED
        BY <4>2, <4>3
    <3>3. CASE ~(b < nodeBump[m])
      <4>1. m = n
        BY <1>9, <2>1, <3>1, <3>3
      <4>2. PICK h \in Used' : h = nextHandle
        BY <1>8
      <4>3. alloc'[h].offset = nodeBump[n] /\ alloc'[h].size = rs
        BY <1>9, <4>2
      <4>4. Extent(h)' = nodeBump[n] .. nodeBump[n] + rs - 1
        BY <4>3 DEF Extent
      <4>5. b \in nodeBump[n] .. nodeBump[n] + rs - 1
        BY <1>2, <1>9, <2>1, <3>1, <3>3, <4>1
      <4>6. QED
        BY <4>4, <4>5
    <3>4. QED
      BY <3>2, <3>3
  <2>2. QED
    BY <2>1 DEF CoverInv
<1>15. QED
  BY <1>7, <1>10, <1>11, <1>12, <1>13, <1>14 DEF AllocInv

\* FREE only clears the live flag of one block.
LEMMA FreeAlloc ==
  ASSUME AllocInv, NEW h \in Nat, FreeBlock(h)
  PROVE  AllocInv'
<1>0. /\ AllocType /\ LiveCounted /\ BumpInv /\ PlacedInv /\ OrderInv /\ CoverInv
      /\ MaxHandles \in Nat
  BY InputAssumption DEF AllocInv
<1>1. /\ h \in Used /\ h \in Handles /\ alloc[h].live = 1
      /\ Used \subseteq Handles /\ alloc[h] \in Blocks
  BY <1>0 DEF FreeBlock, Known, Used, AllocType, Handles
<1>2. /\ alloc' = [alloc EXCEPT ![h].live = 0]
      /\ liveHandles' = liveHandles - 1
      /\ UNCHANGED <<nodeBump, nextHandle>>
  BY DEF FreeBlock
<1>3. Used' = Used
  BY <1>2 DEF Used
<1>4. \A k \in Handles : /\ alloc'[k].offset = alloc[k].offset
                         /\ alloc'[k].size = alloc[k].size
                         /\ alloc'[k].node = alloc[k].node
                         /\ k # h => alloc'[k] = alloc[k]
  BY <1>0, <1>1, <1>2 DEF AllocType, Blocks
<1>5. alloc'[h].live = 0 /\ alloc' \in [Handles -> Blocks]
  BY <1>0, <1>1, <1>2 DEF AllocType, Blocks
<1>6. Live' = Live \ {h} /\ h \in Live
  <2>1. \A k \in Used : alloc'[k].live = 1 <=> alloc[k].live = 1 /\ k # h
    <3>1. ASSUME NEW k \in Used PROVE alloc'[k].live = 1 <=> alloc[k].live = 1 /\ k # h
      <4>1. CASE k = h
        BY <1>5, <4>1
      <4>2. CASE k # h
        BY <1>1, <1>4, <4>2
      <4>3. QED
        BY <4>1, <4>2
    <3>2. QED
      BY <3>1
  <2>2. \A k : k \in Live' <=> k \in Used /\ alloc'[k].live = 1
    BY <1>3 DEF Live
  <2>3. \A k : k \in Live' <=> k \in Live \ {h}
    BY <2>1, <2>2 DEF Live
  <2>4. QED
    BY <1>1, <2>3 DEF Live
<1>7. IsFiniteSet(Live) /\ Cardinality(Live) \in Nat
  <2>1. IsFiniteSet(Used)
    BY <1>0, FS_Interval DEF Used, AllocType
  <2>2. QED
    BY <2>1, FS_Subset, FS_CardinalityType DEF Live
<1>8. Cardinality(Live') = Cardinality(Live) - 1 /\ Cardinality(Live') \in Nat
  BY <1>6, <1>7, FS_RemoveElement, FS_CardinalityType
<1>9. LiveCounted' /\ liveHandles' \in Nat
  BY <1>0, <1>2, <1>8 DEF LiveCounted
<1>10. AllocType'
  BY <1>0, <1>2, <1>5, <1>9 DEF AllocType
<1>11. BumpInv' /\ PlacedInv' /\ OrderInv'
  BY <1>0, <1>1, <1>2, <1>3, <1>4 DEF BumpInv, PlacedInv, OrderInv
<1>12. CoverInv'
  <2>1. \A k \in Used : Extent(k)' = Extent(k)
    BY <1>1, <1>4 DEF Extent
  <2>2. QED
    BY <1>0, <1>2, <1>3, <2>1 DEF CoverInv
<1>13. QED
  BY <1>9, <1>10, <1>11, <1>12 DEF AllocInv

\* Every step keeps the allocator's invariant.
LEMMA AllocStep == ASSUME AllocInv, [Next]_vars PROVE AllocInv'
<1>0. MaxHandles \in Nat /\ Sizes \subseteq Nat
  BY InputAssumption
<1>1. ASSUME NEW want, NEW size \in Sizes, Alloc(want, size) PROVE AllocInv'
  <2>1. CASE AllocGrant(want, size)
    BY <1>0, <2>1, GrantAlloc
  <2>2. CASE UNCHANGED allocVars
    BY <2>2, SameAlloc
  <2>3. QED
    BY <1>1, <2>1, <2>2 DEF Alloc, AllocInvalid, AllocInjected, AllocNoMem
<1>2. ASSUME NEW h \in 0 .. MaxHandles + 1, Free(h) PROVE AllocInv'
  <2>1. CASE FreeBlock(h)
    BY <1>0, <2>1, FreeAlloc
  <2>2. CASE FreeBad(h)
    BY <2>2, SameAlloc DEF FreeBad
  <2>3. QED
    BY <1>2, <2>1, <2>2 DEF Free
<1>3. ASSUME NEW g, NEW h, NEW o, NEW l, Copy(g, h, o, l) PROVE AllocInv'
  <2>1. UNCHANGED allocVars
    BY <1>3 DEF Copy, CopyStale, CopyBadHandle, CopyRefused, CopyH2D, CopyD2H,
                CopyDmaFail
  <2>2. QED
    BY <2>1, SameAlloc
<1>4. ASSUME BootDone \/ DeviceReset PROVE AllocInv'
  BY <1>4, ResetAlloc DEF BootDone, DeviceReset
<1>5. ASSUME Reset \/ Crash \/ InjectWrite \/ IrqAck \/ UNCHANGED vars
      PROVE  AllocInv'
  BY <1>5, SameAlloc DEF Reset, Crash, InjectWrite, IrqAck, vars
<1>6. QED
  BY <1>1, <1>2, <1>3, <1>4, <1>5 DEF Next

-----------------------------------------------------------------------------
(***************************************************************************)
(* Copies.                                                                 *)
(***************************************************************************)

\* What a served copy touches lies inside the block it names, which belongs to
\* this session.
LEMMA TargetInside ==
  ASSUME AllocInv, NEW g, NEW h \in 0 .. MaxHandles + 1,
         NEW o \in Nat, NEW l \in Nat, Serves(g, h, o, l)
  PROVE  /\ g = generation /\ h \in Used /\ h \in Handles
         /\ Target(h, o, l) \subseteq Extent(h)
         /\ \A d \in 0 .. l : Target(h, o, d) \subseteq Extent(h)
<1>1. AllocType /\ MaxHandles \in Nat
  BY InputAssumption DEF AllocInv
<1>2. g = generation /\ h \in Used /\ h \in Handles
  BY <1>1 DEF Serves, Known, Used, AllocType, Handles
<1>3. alloc[h].offset \in Nat /\ alloc[h].size \in Nat
  BY <1>1, <1>2, Geometry DEF AllocType, Blocks
<1>4. o + l <= alloc[h].size
  BY DEF Serves, InBounds
<1>5. ASSUME NEW d \in 0 .. l PROVE Target(h, o, d) \subseteq Extent(h)
  BY <1>3, <1>4, Geometry DEF Target, Extent, Bytes
<1>6. QED
  BY <1>2, <1>5

\* Two blocks of a session share no byte.
LEMMA BlocksDisjoint ==
  ASSUME AllocInv, NEW h \in Used, NEW k \in Used, NEW b \in Int,
         b \in Extent(h), b \in Extent(k)
  PROVE  h = k
<1>1. /\ AllocType /\ BumpInv /\ PlacedInv /\ OrderInv
      /\ Used \subseteq Handles /\ Used \subseteq Int
  BY InputAssumption DEF AllocInv, AllocType, Used, Handles
<1>2. /\ alloc[h].offset \in Nat /\ alloc[h].size \in Nat
      /\ alloc[k].offset \in Nat /\ alloc[k].size \in Nat
      /\ alloc[h].node \in Nodes /\ alloc[k].node \in Nodes
  BY <1>1, Geometry DEF AllocType, Blocks
<1>3. /\ alloc[h].offset <= b /\ b < alloc[h].offset + alloc[h].size
      /\ alloc[k].offset <= b /\ b < alloc[k].offset + alloc[k].size
  BY <1>2 DEF Extent
<1>4. CASE alloc[h].node = alloc[k].node
  BY <1>1, <1>2, <1>3, <1>4 DEF OrderInv
<1>5. CASE alloc[h].node # alloc[k].node
  <2>1. \A j \in Used :
          /\ NodeBase(alloc[j].node) <= alloc[j].offset
          /\ alloc[j].offset + alloc[j].size <= nodeBump[alloc[j].node]
    BY <1>1 DEF PlacedInv
  <2>2. \A n \in Nodes : nodeBump[n] \in Nat /\ nodeBump[n] <= NodeEnd(n)
    BY <1>1 DEF BumpInv, AllocType
  <2>3. CASE alloc[h].node = 0 /\ alloc[k].node = 1
    BY <1>2, <1>3, <2>1, <2>2, <2>3, Geometry
  <2>4. CASE alloc[h].node = 1 /\ alloc[k].node = 0
    BY <1>2, <1>3, <2>1, <2>2, <2>4, Geometry
  <2>5. QED
    BY <1>2, <1>5, <2>3, <2>4 DEF Nodes
<1>6. QED
  BY <1>4, <1>5

\* Copies of the session keep to their blocks: the step.
LEMMA WrittenStep ==
  ASSUME AllocInv, writer \in [Bytes -> Tags], WrittenInv, [Next]_vars
  PROVE  WrittenInv'
<1>0. MaxHandles \in Nat /\ Extents \subseteq Nat \X Nat /\ AllocType
  BY InputAssumption DEF AllocInv
<1>1. ASSUME UNCHANGED <<writer, generation>>,
             \A h \in Used : /\ h \in Used'
                             /\ alloc'[h].offset = alloc[h].offset
                             /\ alloc'[h].size = alloc[h].size
      PROVE  WrittenInv'
  BY <1>1 DEF WrittenInv, Extent
<1>2. ASSUME UNCHANGED <<writer, generation, allocVars>> PROVE WrittenInv'
  BY <1>2 DEF WrittenInv, Extent, Used, allocVars
<1>3. ASSUME NEW want, NEW size \in Sizes, Alloc(want, size) PROVE WrittenInv'
  <2>1. CASE AllocGrant(want, size)
    <3>1. \E n \in Nodes : Grant(n, size)
      BY <2>1 DEF AllocGrant, CanHold
    <3>2. PICK blk : alloc' = [alloc EXCEPT ![nextHandle] = blk]
      BY <3>1 DEF Grant
    <3>3. nextHandle' = nextHandle + 1 /\ UNCHANGED <<writer, generation>>
      BY <2>1 DEF AllocGrant, sessVars
    <3>4. \A h \in Used : h \in Used' /\ alloc'[h] = alloc[h]
      BY <1>0, <3>2, <3>3 DEF Used, AllocType, Handles
    <3>5. QED
      BY <1>1, <3>3, <3>4
  <2>2. CASE ~AllocGrant(want, size)
    <3>1. UNCHANGED <<writer, generation, allocVars>>
      BY <1>3, <2>2
         DEF Alloc, AllocInvalid, AllocInjected, AllocNoMem, sessVars
    <3>2. QED
      BY <1>2, <3>1
  <2>3. QED
    BY <2>1, <2>2
<1>4. ASSUME NEW h \in 0 .. MaxHandles + 1, Free(h) PROVE WrittenInv'
  <2>1. CASE FreeBlock(h)
    <3>1. /\ alloc' = [alloc EXCEPT ![h].live = 0]
          /\ UNCHANGED <<writer, generation, nextHandle>>
      BY <2>1 DEF FreeBlock, sessVars
    <3>2. Used' = Used /\ Used \subseteq Handles
      BY <1>0, <3>1 DEF Used, AllocType, Handles
    <3>3. \A k \in Handles : /\ alloc'[k].offset = alloc[k].offset
                             /\ alloc'[k].size = alloc[k].size
      BY <1>0, <3>1 DEF AllocType, Blocks
    <3>4. QED
      BY <1>1, <3>1, <3>2, <3>3
  <2>2. CASE FreeBad(h)
    BY <1>2, <2>2 DEF FreeBad, sessVars
  <2>3. QED
    BY <1>4, <2>1, <2>2 DEF Free
<1>5. ASSUME NEW g, NEW h \in 0 .. MaxHandles + 1, NEW o \in Nat, NEW l \in Nat,
             CopyH2D(g, h, o, l) \/ CopyDmaFail(g, h, o, l)
      PROVE  WrittenInv'
  <2>1. Serves(g, h, o, l) /\ UNCHANGED <<generation, allocVars>>
    BY <1>5 DEF CopyH2D, CopyDmaFail, sessVars
  <2>2. PICK d \in 0 .. l : Write(Target(h, o, d), <<g, h>>)
    BY <1>5 DEF CopyH2D, CopyDmaFail
  <2>3. /\ g = generation /\ h \in Used
        /\ Target(h, o, d) \subseteq Extent(h)
    BY <2>1, <2>2, TargetInside
  <2>4. Used' = Used /\ \A k : Extent(k)' = Extent(k)
    BY <2>1 DEF Used, Extent, allocVars
  <2>5. ASSUME NEW b \in Bytes, writer'[b] # Nobody
        PROVE  \E k \in Used : writer'[b] = <<generation, k>> /\ b \in Extent(k)
    <3>1. CASE b \in Target(h, o, d)
      BY <2>2, <2>3, <3>1 DEF Write
    <3>2. CASE b \notin Target(h, o, d)
      BY <2>2, <2>5, <3>2 DEF Write, WrittenInv
    <3>3. QED
      BY <3>1, <3>2
  <2>6. QED
    BY <2>1, <2>4, <2>5 DEF WrittenInv
<1>6. ASSUME NEW g \in Gens, NEW h \in 0 .. MaxHandles + 1, NEW x \in Extents,
             Copy(g, h, x[1], x[2])
      PROVE  WrittenInv'
  <2>1. x[1] \in Nat /\ x[2] \in Nat
    BY <1>0
  <2>2. CASE CopyH2D(g, h, x[1], x[2]) \/ CopyDmaFail(g, h, x[1], x[2])
    BY <1>5, <2>1, <2>2
  <2>3. CASE CopyStale(g) \/ CopyBadHandle(g, h)
             \/ CopyRefused(g, h, x[1], x[2]) \/ CopyD2H(g, h, x[1], x[2])
    <3>1. UNCHANGED <<writer, generation, allocVars>>
      BY <2>3 DEF CopyStale, CopyBadHandle, CopyRefused, CopyD2H, sessVars
    <3>2. QED
      BY <1>2, <3>1
  <2>4. QED
    BY <1>6, <2>2, <2>3 DEF Copy
<1>7. ASSUME BootDone \/ DeviceReset PROVE WrittenInv'
  <2>1. writer' = [b \in Bytes |-> Nobody]
    BY <1>7 DEF BootDone, DeviceReset, Write
  <2>2. QED
    BY <2>1 DEF WrittenInv
<1>8. ASSUME Reset \/ Crash \/ InjectWrite \/ IrqAck \/ UNCHANGED vars
      PROVE  WrittenInv'
  <2>1. UNCHANGED <<writer, generation, allocVars>>
    BY <1>8 DEF Reset, Crash, InjectWrite, IrqAck, vars, sessVars
  <2>2. QED
    BY <1>2, <2>1
<1>9. QED
  BY <1>3, <1>4, <1>6, <1>7, <1>8 DEF Next

\* A byte of a block was written through its handle or by nobody.
LEMMA OwnBytes ==
  ASSUME AllocInv, WrittenInv, NEW h \in Used, NEW b \in Bytes, b \in Extent(h)
  PROVE  writer[b] \in {<<generation, h>>, Nobody}
<1>1. CASE writer[b] # Nobody
  <2>1. PICK k \in Used : writer[b] = <<generation, k>> /\ b \in Extent(k)
    BY <1>1 DEF WrittenInv
  <2>2. h = k
    BY <2>1, BlocksDisjoint DEF Bytes
  <2>3. QED
    BY <2>1, <2>2
<1>2. QED
  BY <1>1

\* The answer of a D2H copy carries bytes of its own block only: the step.
LEMMA ReadsStep ==
  ASSUME AllocInv, WrittenInv, ReadsOwnBlock, [Next]_vars
  PROVE  ReadsOwnBlock'
<1>0. MaxHandles \in Nat /\ Extents \subseteq Nat \X Nat
  BY InputAssumption
<1>1. ASSUME NEW st, reply' = Answer(st) PROVE ReadsOwnBlock'
  BY <1>1 DEF ReadsOwnBlock, Answer, Reply
<1>2. ASSUME UNCHANGED reply PROVE ReadsOwnBlock'
  BY <1>2 DEF ReadsOwnBlock
<1>3. ASSUME NEW want, NEW size, Alloc(want, size) PROVE ReadsOwnBlock'
  <2>1. CASE AllocGrant(want, size)
    <3>1. reply' = Reply("ok", <<generation, nextHandle>>, {})
      BY <2>1 DEF AllocGrant
    <3>2. QED
      BY <3>1 DEF ReadsOwnBlock, Reply
  <2>2. CASE ~AllocGrant(want, size)
    <3>1. reply' = Answer("EINVAL") \/ reply' = Answer("ENOMEM")
      BY <1>3, <2>2 DEF Alloc, AllocInvalid, AllocInjected, AllocNoMem
    <3>2. QED
      BY <1>1, <3>1
  <2>3. QED
    BY <2>1, <2>2
<1>4. ASSUME NEW h, Free(h) PROVE ReadsOwnBlock'
  <2>1. reply' = Answer("EINVAL") \/ reply' = Answer("ok")
    BY <1>4 DEF Free, FreeBad, FreeBlock
  <2>2. QED
    BY <1>1, <2>1
<1>5. ASSUME NEW g, NEW h \in 0 .. MaxHandles + 1, NEW o \in Nat, NEW l \in Nat,
             CopyD2H(g, h, o, l)
      PROVE  ReadsOwnBlock'
  <2>1. /\ Serves(g, h, o, l)
        /\ reply' = Reply("ok", <<g, h>>, {writer[b] : b \in Target(h, o, l)})
    BY <1>5 DEF CopyD2H
  <2>2. g = generation /\ h \in Used /\ Target(h, o, l) \subseteq Extent(h)
    BY <2>1, TargetInside
  <2>3. \A b \in Target(h, o, l) : b \in Bytes
    BY DEF Target
  <2>4. \A b \in Target(h, o, l) : writer[b] \in {<<g, h>>, Nobody}
    BY <2>2, <2>3, OwnBytes
  <2>5. QED
    BY <2>1, <2>4 DEF ReadsOwnBlock, Reply
<1>6. ASSUME NEW g \in Gens, NEW h \in 0 .. MaxHandles + 1, NEW x \in Extents,
             Copy(g, h, x[1], x[2])
      PROVE  ReadsOwnBlock'
  <2>1. x[1] \in Nat /\ x[2] \in Nat
    BY <1>0
  <2>2. CASE CopyD2H(g, h, x[1], x[2])
    BY <1>5, <2>1, <2>2
  <2>3. CASE ~CopyD2H(g, h, x[1], x[2])
    <3>1. \E st \in {"ESTALE", "EINVAL", "ok", "EIO"} : reply' = Answer(st)
      BY <1>6, <2>3
         DEF Copy, CopyStale, CopyBadHandle, CopyRefused, CopyH2D, CopyDmaFail
    <3>2. QED
      BY <1>1, <3>1
  <2>4. QED
    BY <2>2, <2>3
<1>7. ASSUME \/ BootDone \/ DeviceReset \/ Reset \/ Crash \/ InjectWrite
             \/ IrqAck \/ UNCHANGED vars
      PROVE  ReadsOwnBlock'
  BY <1>2, <1>7
     DEF BootDone, DeviceReset, Reset, Crash, InjectWrite, IrqAck, vars
<1>8. QED
  BY <1>3, <1>4, <1>6, <1>7 DEF Next

-----------------------------------------------------------------------------
(***************************************************************************)
(* Types of the rest.                                                      *)
(***************************************************************************)
\* Every step keeps the types of the session.
LEMMA SessStep == ASSUME SessType, [Next]_vars PROVE SessType'
<1>1. running' = FALSE \/ running' = TRUE \/ running' = running
  BY DEF Next, Alloc, AllocInvalid, AllocInjected, AllocNoMem, AllocGrant, Free,
         FreeBad, FreeBlock, Copy, CopyStale, CopyBadHandle, CopyRefused,
         CopyH2D, CopyD2H, CopyDmaFail, BootDone, Reset, Crash, InjectWrite,
         IrqAck, DeviceReset, sessVars, vars
<1>2. generation' \in Gens
  <2>1. \/ generation' = generation \/ generation' = 0
        \/ generation < MaxGen /\ generation' = generation + 1
    BY ZenonT(60)
       DEF Next, Alloc, AllocInvalid, AllocInjected, AllocNoMem, AllocGrant,
           Free, FreeBad, FreeBlock, Copy, CopyStale, CopyBadHandle,
           CopyRefused, CopyH2D, CopyD2H, CopyDmaFail, BootDone, Reset, Crash,
           InjectWrite, IrqAck, DeviceReset, sessVars, vars
  <2>2. generation \in Gens
    BY DEF SessType
  <2>3. QED
    BY <2>1, <2>2, InputAssumption DEF Gens
<1>3. inject' \in BOOLEAN
  <2>1. inject' = FALSE \/ inject' \in BOOLEAN \/ inject' = inject
    BY ZenonT(60)
       DEF Next, Alloc, AllocInvalid, AllocInjected, AllocNoMem, AllocGrant,
           Free, FreeBad, FreeBlock, Copy, CopyStale, CopyBadHandle,
           CopyRefused, CopyH2D, CopyD2H, CopyDmaFail, BootDone, Reset, Crash,
           InjectWrite, IrqAck, DeviceReset, sessVars, vars
  <2>2. QED
    BY <2>1 DEF SessType
<1>4. latched' = FALSE \/ latched' = TRUE \/ latched' = latched
  BY DEF Next, Alloc, AllocInvalid, AllocInjected, AllocNoMem, AllocGrant, Free,
         FreeBad, FreeBlock, Copy, CopyStale, CopyBadHandle, CopyRefused,
         CopyH2D, CopyD2H, CopyDmaFail, BootDone, Reset, Crash, InjectWrite,
         IrqAck, DeviceReset, errVars, vars
<1>5. running' \in BOOLEAN /\ latched' \in BOOLEAN
  BY <1>1, <1>4 DEF SessType
<1>6. QED
  BY <1>2, <1>3, <1>5 DEF SessType

\* Every step keeps the type of the error block.
LEMMA ErrStep ==
  ASSUME SessType, err \in ErrBlock, [Next]_vars PROVE err' \in ErrBlock
<1>0. NoErr \in ErrBlock /\ generation \in Gens /\ MaxHandles \in Nat
  BY InputAssumption DEF NoErr, ErrBlock, Gens, SessType
<1>1. ASSUME NEW code \in {"NOMEM", "BAD_HANDLE", "OUT_OF_BOUNDS", "STALE",
                           "DMA_WIDTH"},
             NEW h \in Nat, Qualify(code, h)
      PROVE  err' \in ErrBlock
  <2>1. \/ err' = err
        \/ err' = [code |-> code, handle |-> h, generation |-> generation]
    BY <1>1 DEF Qualify
  <2>2. QED
    BY <1>0, <2>1 DEF ErrBlock
<1>2. ASSUME NEW want, NEW size, Alloc(want, size) PROVE err' \in ErrBlock
  <2>1. err' = err \/ Qualify("NOMEM", 0)
    BY <1>2 DEF Alloc, AllocInvalid, AllocInjected, AllocNoMem, AllocGrant,
                errVars
  <2>2. QED
    BY <1>1, <2>1
<1>3. ASSUME NEW h \in 0 .. MaxHandles + 1, Free(h) PROVE err' \in ErrBlock
  <2>1. err' = err \/ Qualify("BAD_HANDLE", h)
    BY <1>3 DEF Free, FreeBad, FreeBlock, errVars
  <2>2. h \in Nat
    BY <1>0
  <2>3. QED
    BY <1>1, <2>1, <2>2
<1>4. ASSUME NEW g, NEW h \in 0 .. MaxHandles + 1, NEW o, NEW l,
             Copy(g, h, o, l)
      PROVE  err' \in ErrBlock
  <2>1. \/ err' = err \/ Qualify("STALE", 0) \/ Qualify("DMA_WIDTH", 0)
        \/ Qualify("BAD_HANDLE", h) \/ Qualify("OUT_OF_BOUNDS", h)
    BY <1>4 DEF Copy, CopyStale, CopyBadHandle, CopyRefused, CopyH2D, CopyD2H,
                CopyDmaFail, errVars
  <2>2. h \in Nat
    BY <1>0
  <2>3. QED
    BY <1>1, <2>1, <2>2
<1>5. ASSUME \/ BootDone \/ DeviceReset \/ Reset \/ Crash \/ InjectWrite
             \/ IrqAck \/ UNCHANGED vars
      PROVE  err' \in ErrBlock
  BY <1>0, <1>5
     DEF BootDone, DeviceReset, Reset, Crash, InjectWrite, IrqAck, errVars, vars
<1>6. QED
  BY <1>2, <1>3, <1>4, <1>5 DEF Next

\* Every step keeps the type of the memory's history.
LEMMA WriterStep ==
  ASSUME AllocInv, SessType, writer \in [Bytes -> Tags], [Next]_vars
  PROVE  writer' \in [Bytes -> Tags]
<1>0. MaxHandles \in Nat /\ Extents \subseteq Nat \X Nat
  BY InputAssumption
<1>1. ASSUME NEW touched, NEW tag \in Tags, Write(touched, tag)
      PROVE  writer' \in [Bytes -> Tags]
  BY <1>1 DEF Write
<1>2. ASSUME NEW want, NEW size, Alloc(want, size) PROVE writer' = writer
  BY <1>2 DEF Alloc, AllocInvalid, AllocInjected, AllocNoMem, AllocGrant
<1>3. ASSUME NEW h, Free(h) PROVE writer' = writer
  BY <1>3 DEF Free, FreeBad, FreeBlock
<1>4. ASSUME NEW g \in Gens, NEW h \in 0 .. MaxHandles + 1, NEW x \in Extents,
             Copy(g, h, x[1], x[2])
      PROVE  writer' \in [Bytes -> Tags]
  <2>1. x[1] \in Nat /\ x[2] \in Nat
    BY <1>0
  <2>2. CASE CopyH2D(g, h, x[1], x[2]) \/ CopyDmaFail(g, h, x[1], x[2])
    <3>1. /\ Serves(g, h, x[1], x[2])
          /\ \E d \in 0 .. x[2] : Write(Target(h, x[1], d), <<g, h>>)
      BY <2>1, <2>2 DEF CopyH2D, CopyDmaFail
    <3>2. h \in Handles
      BY <2>1, <3>1, TargetInside
    <3>3. <<g, h>> \in Tags
      BY <3>2 DEF Tags, Pairs
    <3>4. QED
      BY <1>1, <3>1, <3>3
  <2>3. CASE ~(CopyH2D(g, h, x[1], x[2]) \/ CopyDmaFail(g, h, x[1], x[2]))
    <3>1. writer' = writer
      BY <1>4, <2>3 DEF Copy, CopyStale, CopyBadHandle, CopyRefused, CopyD2H
    <3>2. QED
      BY <3>1
  <2>4. QED
    BY <2>2, <2>3
<1>5. ASSUME BootDone \/ DeviceReset PROVE writer' \in [Bytes -> Tags]
  <2>1. Nobody \in Tags
    BY DEF Tags
  <2>2. QED
    BY <1>1, <1>5, <2>1 DEF BootDone, DeviceReset
<1>6. ASSUME Reset \/ Crash \/ InjectWrite \/ IrqAck \/ UNCHANGED vars
      PROVE  writer' = writer
  BY <1>6 DEF Reset, Crash, InjectWrite, IrqAck, vars
<1>7. QED
  BY <1>2, <1>3, <1>4, <1>5, <1>6 DEF Next

\* Every step keeps the type of the answer.
LEMMA ReplyStep ==
  ASSUME AllocInv, SessType, writer \in [Bytes -> Tags], reply \in Replies,
         [Next]_vars
  PROVE  reply' \in Replies
<1>0. MaxHandles \in Nat /\ Extents \subseteq Nat \X Nat /\ AllocType
  BY InputAssumption DEF AllocInv
<1>1. ASSUME NEW st \in {"ok", "EINVAL", "ENOMEM", "ESTALE", "EIO"},
             NEW pair \in Tags, NEW read \in SUBSET Tags
      PROVE  Reply(st, pair, read) \in Replies
  BY DEF Reply, Replies
<1>2. ASSUME NEW st \in {"ok", "EINVAL", "ENOMEM", "ESTALE", "EIO"}
      PROVE  Answer(st) \in Replies
  <2>1. Nobody \in Tags /\ {} \in SUBSET Tags
    BY DEF Tags
  <2>2. QED
    BY <1>1, <2>1 DEF Answer
<1>3. ASSUME NEW want, NEW size, Alloc(want, size) PROVE reply' \in Replies
  <2>1. CASE AllocGrant(want, size)
    <3>1. /\ reply' = Reply("ok", <<generation, nextHandle>>, {})
          /\ nextHandle \in Handles
      BY <1>0, <2>1 DEF AllocGrant, AllocType, Handles
    <3>2. <<generation, nextHandle>> \in Tags
      BY <3>1 DEF Tags, Pairs, SessType
    <3>3. {} \in SUBSET Tags
      OBVIOUS
    <3>4. QED
      BY <1>1, <3>1, <3>2, <3>3
  <2>2. CASE ~AllocGrant(want, size)
    <3>1. reply' = Answer("EINVAL") \/ reply' = Answer("ENOMEM")
      BY <1>3, <2>2 DEF Alloc, AllocInvalid, AllocInjected, AllocNoMem
    <3>2. QED
      BY <1>2, <3>1
  <2>3. QED
    BY <2>1, <2>2
<1>4. ASSUME NEW h, Free(h) PROVE reply' \in Replies
  <2>1. reply' = Answer("EINVAL") \/ reply' = Answer("ok")
    BY <1>4 DEF Free, FreeBad, FreeBlock
  <2>2. QED
    BY <1>2, <2>1
<1>5. ASSUME NEW g \in Gens, NEW h \in 0 .. MaxHandles + 1, NEW x \in Extents,
             Copy(g, h, x[1], x[2])
      PROVE  reply' \in Replies
  <2>1. x[1] \in Nat /\ x[2] \in Nat
    BY <1>0
  <2>2. CASE CopyD2H(g, h, x[1], x[2])
    <3>1. /\ Serves(g, h, x[1], x[2])
          /\ reply' = Reply("ok", <<g, h>>,
                            {writer[b] : b \in Target(h, x[1], x[2])})
      BY <2>2 DEF CopyD2H
    <3>2. h \in Handles
      BY <2>1, <3>1, TargetInside
    <3>3. <<g, h>> \in Tags
      BY <3>2 DEF Tags, Pairs
    <3>4. {writer[b] : b \in Target(h, x[1], x[2])} \in SUBSET Tags
      BY DEF Target
    <3>5. QED
      BY <1>1, <3>1, <3>3, <3>4
  <2>3. CASE ~CopyD2H(g, h, x[1], x[2])
    <3>1. \E st \in {"ESTALE", "EINVAL", "ok", "EIO"} : reply' = Answer(st)
      BY <1>5, <2>3
         DEF Copy, CopyStale, CopyBadHandle, CopyRefused, CopyH2D, CopyDmaFail
    <3>2. QED
      BY <1>2, <3>1
  <2>4. QED
    BY <2>2, <2>3
<1>6. ASSUME \/ BootDone \/ DeviceReset \/ Reset \/ Crash \/ InjectWrite
             \/ IrqAck \/ UNCHANGED vars
      PROVE  reply' = reply
  BY <1>6 DEF BootDone, DeviceReset, Reset, Crash, InjectWrite, IrqAck, vars
<1>7. QED
  BY <1>3, <1>4, <1>5, <1>6 DEF Next

-----------------------------------------------------------------------------
(***************************************************************************)
(* The invariant, and what it gives.                                       *)
(***************************************************************************)
\* The initial state satisfies the inductive invariant.
LEMMA InitMemInv == Init => MemInv
<1> SUFFICES ASSUME Init PROVE MemInv
  OBVIOUS
<1>1. AllocType
  BY Geometry, InputAssumption DEF Init, AllocType, Blocks, NoBlock, Nodes, Handles
<1>2. Used = {} /\ Live = {}
  BY DEF Init, Used, Live
<1>3. SessType
  <2>1. running = FALSE /\ inject = FALSE /\ latched = FALSE /\ generation = 0
    BY DEF Init
  <2>2. running \in BOOLEAN /\ inject \in BOOLEAN /\ latched \in BOOLEAN
    BY <2>1
  <2>3. 0 \in Gens
    BY InputAssumption DEF Gens
  <2>4. QED
    BY <2>1, <2>2, <2>3 DEF SessType
<1>4. err \in ErrBlock
  BY InputAssumption DEF Init, NoErr, ErrBlock, Gens
<1>5. writer \in [Bytes -> Tags] /\ WrittenInv
  BY DEF Init, Tags, WrittenInv
<1>6. reply \in Replies /\ ReadsOwnBlock
  BY DEF Init, Answer, Reply, Replies, Tags, ReadsOwnBlock
<1>7. LiveCounted
  BY <1>2, FS_EmptySet DEF LiveCounted, Init
<1>8. BumpInv /\ PlacedInv /\ OrderInv /\ CoverInv
  BY <1>2, Geometry DEF Init, BumpInv, PlacedInv, OrderInv, CoverInv
<1>9. QED
  BY <1>1, <1>3, <1>4, <1>5, <1>6, <1>7, <1>8 DEF MemInv, TypeOK

\* The inductive invariant is one.
LEMMA MemInvStep == ASSUME MemInv, [Next]_vars PROVE MemInv'
<1>1. /\ AllocInv /\ SessType /\ err \in ErrBlock /\ writer \in [Bytes -> Tags]
      /\ reply \in Replies /\ WrittenInv /\ ReadsOwnBlock
  BY DEF MemInv, TypeOK, AllocInv
<1>2. AllocInv' /\ SessType' /\ err' \in ErrBlock
  BY <1>1, AllocStep, SessStep, ErrStep
<1>3. writer' \in [Bytes -> Tags] /\ reply' \in Replies
  BY <1>1, WriterStep, ReplyStep
<1>4. WrittenInv' /\ ReadsOwnBlock'
  BY <1>1, WrittenStep, ReadsStep
<1>5. QED
  BY <1>2, <1>3, <1>4 DEF MemInv, TypeOK, AllocInv

\* The inductive invariant: where the blocks lie, and who wrote what.
THEOREM MemoryInvariant == Spec => []MemInv
<1>1. MemInv /\ [Next]_vars => MemInv'
  BY MemInvStep
<1>2. QED
  BY InitMemInv, <1>1, PTL DEF Spec

\* Type correctness; live_handles, unsigned in the code, never goes below 0.
THEOREM TypeCorrect == Spec => []TypeOK
<1>1. MemInv => TypeOK
  BY DEF MemInv
<1>2. QED
  BY MemoryInvariant, <1>1, PTL

\* No copy writes outside the block it names, whatever sessions, allocations
\* and frees came before, and a copy of an older session writes nothing.
THEOREM CopiesAreIsolated == Spec => []Isolation
<1>1. ASSUME MemInv PROVE Isolation
  <2>0. AllocInv /\ WrittenInv
    BY <1>1 DEF MemInv, TypeOK, AllocInv
  <2>1. ASSUME NEW b \in Bytes, writer[b] # Nobody
        PROVE  \E h \in Used : /\ writer[b] = <<generation, h>>
                               /\ {k \in Used : b \in Extent(k)} = {h}
    <3>1. PICK h \in Used : writer[b] = <<generation, h>> /\ b \in Extent(h)
      BY <2>0, <2>1 DEF WrittenInv
    <3>2. \A k \in Used : b \in Extent(k) => k = h
      BY <2>0, <3>1, BlocksDisjoint DEF Bytes
    <3>3. {k \in Used : b \in Extent(k)} = {h}
      BY <3>1, <3>2
    <3>4. QED
      BY <3>1, <3>3
  <2>2. QED
    BY <2>1 DEF Isolation
<1>2. QED
  BY MemoryInvariant, <1>1, PTL

\* A D2H copy returns bytes written through its own handle, or by nobody.
THEOREM ReadsAreOwn == Spec => []ReadsOwnBlock
<1>1. MemInv => ReadsOwnBlock
  BY DEF MemInv
<1>2. QED
  BY MemoryInvariant, <1>1, PTL

\* Every block is aligned and inside the allocatable range of its node, for
\* every geometry whose aperture and nodes are aligned.
THEOREM BlocksArePlaced == Spec => []BlocksPlaced
<1>1. ASSUME MemInv PROVE BlocksPlaced
  <2>1. /\ AllocType /\ BumpInv /\ PlacedInv
        /\ Used \subseteq Handles
    BY <1>1, InputAssumption DEF MemInv, TypeOK, AllocType, Used, Handles
  <2>2. ASSUME NEW h \in Used
        PROVE  /\ alloc[h].offset % Align = 0
               /\ NodeBase(alloc[h].node) <= alloc[h].offset
               /\ alloc[h].offset + alloc[h].size <= NodeEnd(alloc[h].node)
    <3>1. /\ alloc[h].node \in Nodes /\ alloc[h].offset \in Nat
          /\ alloc[h].size \in Nat /\ nodeBump[alloc[h].node] \in Nat
      BY <2>1, Geometry DEF AllocType, Blocks
    <3>2. nodeBump[alloc[h].node] <= NodeEnd(alloc[h].node)
      BY <2>1, <3>1 DEF BumpInv
    <3>3. QED
      BY <2>1, <3>1, <3>2, Geometry DEF PlacedInv
  <2>3. QED
    BY <2>2 DEF BlocksPlaced
<1>2. QED
  BY MemoryInvariant, <1>1, PTL

\* live_handles counts exactly the handles that FREE and COPY still accept.
THEOREM LiveIsCounted == Spec => []LiveCounted
<1>1. MemInv => LiveCounted
  BY DEF MemInv
<1>2. QED
  BY MemoryInvariant, <1>1, PTL

\* What STAT reports as free is exactly what no block of the session holds, and
\* no byte is in two blocks: the bump pointer neither skips nor repeats one.
THEOREM SpaceIsAccounted == Spec => []SpaceAddsUp
<1>1. ASSUME MemInv PROVE SpaceAddsUp
  <2>0. /\ AllocInv /\ AllocType /\ BumpInv /\ PlacedInv /\ CoverInv
        /\ Used \subseteq Handles
    BY <1>1, InputAssumption
       DEF MemInv, TypeOK, AllocInv, AllocType, Used, Handles
  <2>1. \A h \in Used : /\ alloc[h].offset \in Nat /\ alloc[h].size \in Nat
                        /\ alloc[h].node \in Nodes
    BY <2>0, Geometry DEF AllocType, Blocks
  <2>2. ASSUME NEW h \in Used, NEW k \in Used, h # k
        PROVE  Extent(h) \cap Extent(k) = {}
    <3>1. \A b : b \in Extent(h) => b \in Int
      BY <2>1 DEF Extent
    <3>2. QED
      BY <2>0, <2>2, <3>1, BlocksDisjoint
  <2>3. ASSUME NEW n \in Nodes PROVE NodeFree(n) = Cardinality(Unheld(n))
    <3>1. /\ NodeBase(n) \in Nat /\ NodeEnd(n) \in Nat /\ nodeBump[n] \in Nat
          /\ NodeBase(n) <= nodeBump[n] /\ nodeBump[n] <= NodeEnd(n)
      BY <2>0, Geometry DEF AllocType, BumpInv
    <3>2. ASSUME NEW b \in nodeBump[n] .. NodeEnd(n) - 1, NEW h \in Used
          PROVE  b \notin Extent(h)
      <4>1. /\ NodeBase(alloc[h].node) <= alloc[h].offset
            /\ alloc[h].offset + alloc[h].size <= nodeBump[alloc[h].node]
            /\ nodeBump[alloc[h].node] \in Nat
            /\ nodeBump[alloc[h].node] <= NodeEnd(alloc[h].node)
        BY <2>0, <2>1 DEF PlacedInv, BumpInv, AllocType
      <4>2. SUFFICES ASSUME b \in Extent(h) PROVE FALSE
        OBVIOUS
      <4>3. /\ alloc[h].offset <= b /\ b < alloc[h].offset + alloc[h].size
            /\ b \in Int /\ nodeBump[n] <= b /\ b < NodeEnd(n)
        BY <2>1, <3>1, <3>2, <4>2 DEF Extent
      <4>4. CASE alloc[h].node = n
        BY <2>1, <3>1, <4>1, <4>3, <4>4
      <4>5. CASE alloc[h].node = 0 /\ n = 1
        BY <2>1, <3>1, <4>1, <4>3, <4>5, Geometry
      <4>6. CASE alloc[h].node = 1 /\ n = 0
        BY <2>1, <3>1, <4>1, <4>3, <4>6, Geometry
      <4>7. QED
        BY <2>1, <4>4, <4>5, <4>6 DEF Nodes
    <3>3. Unheld(n) = nodeBump[n] .. NodeEnd(n) - 1
      <4>1. ASSUME NEW b \in Unheld(n)
            PROVE  b \in nodeBump[n] .. NodeEnd(n) - 1
        <5>1. /\ b \in NodeBase(n) .. NodeEnd(n) - 1
              /\ \A h \in Used : b \notin Extent(h)
          BY <4>1 DEF Unheld
        <5>2. b \notin NodeBase(n) .. nodeBump[n] - 1
          BY <2>0, <5>1 DEF CoverInv
        <5>3. QED
          BY <3>1, <5>1, <5>2
      <4>2. ASSUME NEW b \in nodeBump[n] .. NodeEnd(n) - 1
            PROVE  b \in Unheld(n)
        <5>1. b \in NodeBase(n) .. NodeEnd(n) - 1
          BY <3>1, <4>2
        <5>2. QED
          BY <3>2, <4>2, <5>1 DEF Unheld
      <4>3. QED
        BY <4>1, <4>2
    <3>4. Cardinality(nodeBump[n] .. NodeEnd(n) - 1) = NodeEnd(n) - nodeBump[n]
      <4>1. nodeBump[n] \in Int /\ NodeEnd(n) - 1 \in Int
        BY <3>1
      <4>2. Cardinality(nodeBump[n] .. NodeEnd(n) - 1)
              = IF nodeBump[n] > NodeEnd(n) - 1
                  THEN 0 ELSE (NodeEnd(n) - 1) - nodeBump[n] + 1
        BY <4>1, FS_Interval
      <4>3. QED
        BY <3>1, <4>2
    <3>5. QED
      BY <3>3, <3>4 DEF NodeFree
  <2>4. QED
    BY <2>2, <2>3 DEF SpaceAddsUp
<1>2. QED
  BY MemoryInvariant, <1>1, PTL

\* Within a session a handle keeps naming the same block, and a freed handle
\* stays dead: the free-list that could hand it out again does not exist.
THEOREM HandlesStayDead == Spec => HandlesNotReused
<1> DEFINE Kept(h) == /\ h < nextHandle'
                      /\ alloc'[h].offset = alloc[h].offset
                      /\ alloc'[h].size = alloc[h].size
                      /\ alloc'[h].node = alloc[h].node
                      /\ alloc'[h].live <= alloc[h].live
<1>1. ASSUME MemInv, [Next]_vars, running, running', NEW h \in Used
      PROVE  Kept(h)
  <2>0. /\ AllocType /\ h \in Handles /\ h < nextHandle /\ h \in Nat
        /\ nextHandle \in Nat /\ alloc[h] \in Blocks /\ MaxHandles \in Nat
    BY <1>1, InputAssumption DEF MemInv, TypeOK, AllocType, Used, Handles
  <2>1. alloc[h].live \in {0, 1}
    BY <2>0 DEF Blocks
  <2>2. ASSUME UNCHANGED allocVars PROVE Kept(h)
    BY <2>0, <2>1, <2>2 DEF allocVars
  <2>3. ASSUME NEW want, NEW size, AllocGrant(want, size) PROVE Kept(h)
    <3>1. \E n \in Nodes : Grant(n, size)
      BY <2>3 DEF AllocGrant, CanHold
    <3>2. PICK blk : alloc' = [alloc EXCEPT ![nextHandle] = blk]
      BY <3>1 DEF Grant
    <3>3. nextHandle' = nextHandle + 1
      BY <2>3 DEF AllocGrant
    <3>4. alloc'[h] = alloc[h]
      BY <2>0, <3>2 DEF AllocType
    <3>5. QED
      BY <2>0, <2>1, <3>3, <3>4
  <2>4. ASSUME NEW k, FreeBlock(k) PROVE Kept(h)
    <3>1. alloc' = [alloc EXCEPT ![k].live = 0] /\ nextHandle' = nextHandle
      BY <2>4 DEF FreeBlock
    <3>2. CASE k = h
      BY <2>0, <2>1, <3>1, <3>2 DEF AllocType, Blocks
    <3>3. CASE k # h
      <4>1. alloc'[h] = alloc[h]
        BY <2>0, <3>1, <3>3 DEF AllocType
      <4>2. QED
        BY <2>0, <2>1, <3>1, <4>1
    <3>4. QED
      BY <3>2, <3>3
  <2>5. QED
    BY <1>1, <2>2, <2>3, <2>4, ZenonT(60)
       DEF Next, Alloc, AllocInvalid, AllocInjected, AllocNoMem, Free, FreeBad,
           Copy, CopyStale, CopyBadHandle, CopyRefused, CopyH2D, CopyD2H,
           CopyDmaFail, BootDone, Reset, Crash, InjectWrite, IrqAck,
           DeviceReset, vars
<1>2. MemInv /\ [Next]_vars =>
        [running /\ running' => \A h \in Used : Kept(h)]_vars
  BY <1>1
<1>3. QED
  BY MemoryInvariant, <1>2, PTL DEF Spec, HandlesNotReused
=============================================================================
