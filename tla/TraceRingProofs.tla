--------------------------- MODULE TraceRingProofs ---------------------------
(***************************************************************************)
(* Proofs about TraceRing, for every size of the ring, any number of       *)
(* readers, boots and entries, as long as the counters do not wrap within  *)
(* a boot (NoWrap): at the wrap the slots of the indices jump, since the   *)
(* size of the ring does not divide the modulus (MCTraceWrap.cfg).         *)
(*                                                                         *)
(* The argument: two entries less than a ring apart are in different       *)
(* slots, so what the device writes touches only the slot of the entry a   *)
(* ring back, which is lapped from then on; and as long as no reader meets *)
(* a reboot, tail, the reader's copies of the cursors and head are in      *)
(* order, so every index a reader copies is of a published entry.          *)
(***************************************************************************)
EXTENDS TraceRing, SequenceTheorems, TLAPS

\* The counters do not wrap within a boot.
NoWrap == MaxWritten + 1 < Modulus

\* An entry, whole.
Entry(i) == [stamp |-> i, msg |-> i]

\* The device writes only while the firmware is up, and the next entry fits the
\* bound; head counts the entries, and so does the copy velocitor_trace() works
\* with.
WriterInv ==
  /\ head = written
  /\ fw # "reset" => written <= MaxWritten
  /\ wpc # "idle" => fw = "up" /\ whead = written
  /\ wpc # "idle" /\ ~resetting => written < MaxWritten

\* What the slots hold: the entry under way as far as it is written, and behind
\* it the last ones published as far as it does not overwrite them.
SlotInv ==
  /\ wpc \in {"drop", "publish"} => slots[Slot(written)] = Entry(written)
  /\ wpc = "msg" => slots[Slot(written)].stamp = written
  /\ \A i \in 0 .. MaxWritten :
       i < written /\ written <= i + Entries /\ ~Lapped(i) =>
         slots[Slot(i)] = Entry(i)

\* One reader at a time; who is not in the file has copied nothing.
LockInv ==
  \A r \in Readers :
    /\ rpc[r] # "idle" => lock = r
    /\ rpc[r] \notin {"stamp", "msg", "advance"} => copied[r] = <<>>

\* The cursors are in order, as long as the reader saw no reboot.
CursorInv ==
  ~crossed =>
    /\ tail <= written
    /\ wpc # "idle" => wtail <= tail
    /\ \A r \in Readers :
         /\ rpc[r] \notin {"idle", "head"} =>
              tail <= rhead[r] /\ rhead[r] <= written
         /\ rpc[r] \notin {"idle", "head", "tail"} => rtail[r] <= rhead[r]
         /\ rpc[r] = "stamp" => Len(copied[r]) < rhead[r] - rtail[r]
         /\ rpc[r] = "msg" => /\ 0 < Len(copied[r])
                              /\ Len(copied[r]) <= rhead[r] - rtail[r]

\* What is dropped is counted once per entry.
LossInv ==
  /\ dropped <= written + (IF wpc = "publish" THEN 1 ELSE 0)
  /\ LossCounted

IInv == /\ TypeOK /\ WriterInv /\ SlotInv /\ LockInv /\ CursorInv
        /\ CopiedOrLapped /\ LossInv

-----------------------------------------------------------------------------
(***************************************************************************)
(* Arithmetic of indices.                                                  *)
(***************************************************************************)

\* A remainder is a counter, a small number is its own remainder.
LEMMA Remainders ==
  /\ \A a \in Int : a % Modulus \in Counters
  /\ \A a \in Counters : a % Modulus = a
  /\ Modulus \in Nat /\ Modulus > 0 /\ Entries \in Nat /\ Entries > 0
  /\ MaxWritten \in Nat
<1>1. Modulus \in Nat /\ Modulus > 0 /\ Entries \in Nat /\ Entries > 0
  BY RingAssumption
<1>2. \A a \in Int : a % Modulus \in Counters
  BY <1>1 DEF Counters
<1>3. \A a \in Counters : a % Modulus = a
  BY <1>1 DEF Counters
<1> QED
  BY <1>1, <1>2, <1>3, RingAssumption

\* The slot of an index is in the ring.
LEMMA SlotInRing == \A i \in Int : Slot(i) \in Slots
BY Remainders DEF Slot, Slots

\* Two entries less than a ring apart are in different slots.
LEMMA SlotsDiffer ==
  ASSUME NEW i \in Int, NEW j \in Int, i < j, j < i + Entries
  PROVE  Slot(i) # Slot(j)
<1> DEFINE p == i \div Entries  q == j \div Entries
<1>1. /\ Entries \in Int /\ Entries > 0
      /\ p \in Int /\ q \in Int
      /\ i = Entries * p + (i % Entries) /\ j = Entries * q + (j % Entries)
      /\ i % Entries \in Int /\ j % Entries \in Int
  BY Remainders
<1> HIDE DEF p, q
<1>2. SUFFICES ASSUME i % Entries = j % Entries PROVE FALSE
  BY DEF Slot
<1>3. j - i = Entries * (q - p)
  BY <1>1, <1>2
<1>4. CASE q - p <= 0
  <2>1. Entries * (q - p) <= 0
    BY <1>1, <1>4
  <2> QED
    BY <1>3, <2>1
<1>5. CASE q - p >= 1
  <2>1. Entries * (q - p) >= Entries
    BY <1>1, <1>5
  <2> QED
    BY <1>1, <1>3, <2>1
<1> QED
  BY <1>1, <1>4, <1>5
-----------------------------------------------------------------------------
(***************************************************************************)
(* The initial state and what follows from the invariant.                  *)
(***************************************************************************)

\* The invariant holds before the first boot.
LEMMA InitInv == ASSUME Init PROVE IInv
<1> USE DEF Init
<1>1. /\ 0 \in Counters /\ 0 \in 0 .. MaxBoots /\ 0 \in 0 .. MaxWritten + 1
      /\ Clear \in Cells
  BY Remainders, RingAssumption DEF Counters, Clear, Cells, Ids, Blank
<1>2. RingType /\ WriterType
  BY <1>1 DEF RingType, WriterType
<1>3. ReaderType
  <2>1. copied \in [Readers -> Seq(Cells)]
    OBVIOUS
  <2>2. /\ rhead \in [Readers -> Counters] /\ rtail \in [Readers -> Counters]
        /\ rskip \in [Readers -> Counters] /\ rdropped \in [Readers -> Counters]
    BY <1>1
  <2> QED
    BY <2>1, <2>2 DEF ReaderType
<1>4. TypeOK
  BY <1>1, <1>2, <1>3 DEF TypeOK
<1>5. WriterInv /\ SlotInv
  BY <1>1, Remainders DEF WriterInv, SlotInv
<1>6. LockInv
  BY DEF LockInv
<1>7. CursorInv
  BY Remainders DEF CursorInv
<1>8. CopiedOrLapped
  BY DEF CopiedOrLapped
<1>9. LossInv
  BY DEF LossInv, LossCounted
<1> QED
  BY <1>4, <1>5, <1>6, <1>7, <1>8, <1>9 DEF IInv

\* The parts of the invariant, and the numbers in it.
LEMMA Parts ==
  ASSUME IInv
  PROVE  /\ RingType /\ WriterType /\ ReaderType /\ crossed \in BOOLEAN
         /\ WriterInv /\ SlotInv /\ LockInv /\ CursorInv
         /\ CopiedOrLapped /\ LossInv
         /\ written \in Nat /\ written <= MaxWritten + 1 /\ lost \in Nat
         /\ head \in Nat /\ tail \in Nat /\ dropped \in Nat
         /\ whead \in Nat /\ wtail \in Nat
BY Remainders DEF IInv, TypeOK, RingType, WriterType, Counters

\* The numbers of a reader.
LEMMA ReaderFacts ==
  ASSUME IInv, NEW r \in Readers
  PROVE  /\ rhead[r] \in Counters /\ rtail[r] \in Counters
         /\ rhead[r] \in Nat /\ rtail[r] \in Nat
         /\ copied[r] \in Seq(Cells) /\ Len(copied[r]) \in Nat
<1>1. /\ rhead[r] \in Counters /\ rtail[r] \in Counters
      /\ copied[r] \in Seq(Cells)
  BY Parts DEF ReaderType
<1>2. Len(copied[r]) \in Nat
  BY <1>1, LenProperties
<1> QED
  BY <1>1, <1>2, Remainders DEF Counters

-----------------------------------------------------------------------------
(***************************************************************************)
(* Frames.                                                                 *)
(***************************************************************************)
Writing == {"msg", "drop", "publish"}

\* How far the device has come depends on written and on whether it writes.
LEMMA LappedSame ==
  ASSUME written' = written, wpc' \in Writing <=> wpc \in Writing
  PROVE  \A i \in Int : Lapped(i)' <=> Lapped(i)
BY DEF Lapped, Writing

\* The readers' side under a step that leaves it alone.
LEMMA ReadersKept ==
  ASSUME ReaderType, LockInv, da' \in BOOLEAN, UNCHANGED <<lock, readerVars>>
  PROVE  ReaderType' /\ LockInv'
BY DEF ReaderType, LockInv, readerVars

\* Entry k of what a reader has copied is as CopiedOrLapped says.
IsCopy(r, k) ==
  LET i == rtail[r] + k - 1
      c == copied[r][k]
  IN \/ Lapped(i)
     \/ c.stamp = i /\ (c.msg = i \/ (k = Len(copied[r]) /\ rpc[r] = "msg"))

\* What has been copied stays right while the device only moves on.
LEMMA CopiedKept ==
  ASSUME IInv, UNCHANGED readerVars, crossed' = crossed,
         \A i \in Int : Lapped(i) => Lapped(i)'
  PROVE  CopiedOrLapped'
<1>1. UNCHANGED <<rpc, rtail, copied>>
  BY DEF readerVars
<1> SUFFICES ASSUME ~crossed, NEW r \in Readers, NEW k \in 1 .. Len(copied[r])
             PROVE  IsCopy(r, k)'
  BY <1>1 DEF CopiedOrLapped, IsCopy
<1>2. rtail[r] + k - 1 \in Int
  BY ReaderFacts
<1>3. IsCopy(r, k)
  BY Parts DEF CopiedOrLapped, IsCopy
<1> QED
  BY <1>1, <1>2, <1>3 DEF IsCopy

\* The slots stay right under a step that touches neither them nor the number
\* of entries.
LEMMA SlotsKept ==
  ASSUME IInv, UNCHANGED <<slots, written>>,
         \/ wpc' = wpc
         \/ wpc \notin Writing /\ wpc' \notin Writing
         \/ wpc = "drop" /\ wpc' = "publish"
  PROVE  SlotInv'
<1>1. wpc' \in Writing <=> wpc \in Writing
  BY DEF Writing
<1>2. \A i \in Int : Lapped(i)' <=> Lapped(i)
  BY <1>1, LappedSame
<1>3. \A i \in 0 .. MaxWritten : i \in Int
  BY Remainders
<1> QED
  BY <1>2, <1>3, Parts DEF SlotInv, Writing, Slot, Entry

\* The cursors under a step of the device that neither publishes nor clears.
LEMMA CursorKept ==
  ASSUME IInv, UNCHANGED <<tail, written, crossed, readerVars>>,
         ~crossed /\ wpc' # "idle" => wtail' <= tail
  PROVE  CursorInv'
<1> USE Parts
<1> QED
  BY DEF CursorInv, readerVars
-----------------------------------------------------------------------------
(***************************************************************************)
(* The steps of the device.                                                *)
(***************************************************************************)

\* velocitor_trace() reads the counters.
LEMMA TraceBeginStep == ASSUME IInv, TraceBegin PROVE IInv'
<1> USE Parts
<1>1. /\ fw = "up" /\ wpc = "idle" /\ wpc' = "stamp"
      /\ whead' = head /\ wtail' = tail
      /\ (written < MaxWritten /\ resetting' = FALSE) \/ resetting' = TRUE
      /\ UNCHANGED <<head, tail, dropped, slots>>
      /\ UNCHANGED <<fw, boots, da, lock, readerVars, written, lost, crossed>>
  BY DEF TraceBegin, ringVars, histVars
<1>2. RingType' /\ WriterType'
  BY <1>1 DEF RingType, WriterType
<1>3. ReaderType' /\ LockInv'
  BY <1>1, ReadersKept DEF ReaderType
<1>4. TypeOK'
  BY <1>1, <1>2, <1>3 DEF TypeOK, IInv
<1>5. WriterInv'
  BY <1>1 DEF WriterInv
<1>6. SlotInv'
  BY <1>1, SlotsKept DEF Writing
<1>7. CursorInv'
  BY <1>1, CursorKept DEF readerVars
<1>8. CopiedOrLapped'
  BY <1>1, LappedSame, CopiedKept DEF Writing
<1>9. LossInv'
  BY <1>1 DEF LossInv, LossCounted
<1> QED
  BY <1>3, <1>4, <1>5, <1>6, <1>7, <1>8, <1>9 DEF IInv

\* The slot of the next entry is written in two halves; the others keep theirs.
LEMMA WriteEffect ==
  ASSUME IInv, NEW x \in Ids,
         \/ slots' = [slots EXCEPT ![Slot(whead)].stamp = x]
         \/ slots' = [slots EXCEPT ![Slot(whead)].msg = x]
  PROVE  /\ slots' \in [Slots -> Cells]
         /\ \A k \in Slots : k # Slot(whead) => slots'[k] = slots[k]
<1>1. whead \in Int /\ slots \in [Slots -> Cells]
  BY Parts DEF RingType
<1>2. Slot(whead) \in Slots
  BY <1>1, SlotInRing
<1>3. CASE slots' = [slots EXCEPT ![Slot(whead)].stamp = x]
  BY <1>1, <1>2, <1>3 DEF Cells
<1>4. CASE slots' = [slots EXCEPT ![Slot(whead)].msg = x]
  BY <1>1, <1>2, <1>4 DEF Cells
<1> QED
  BY <1>3, <1>4

\* An entry that is not lapped once the device writes entry "written" is in
\* another slot.
LEMMA OldEntries ==
  ASSUME IInv, wpc' \in Writing, written' = written, NEW i \in 0 .. MaxWritten,
         i < written, written <= i + Entries, ~Lapped(i)'
  PROVE  /\ Slot(i) # Slot(written) /\ Slot(i) \in Slots
         /\ ~Lapped(i)
<1>1. i \in Int /\ written \in Int /\ Entries \in Int
  BY Parts, Remainders
<1>2. written < i + Entries
  BY <1>1 DEF Lapped, Writing
<1>3. Slot(i) # Slot(written) /\ Slot(i) \in Slots
  BY <1>1, <1>2, SlotsDiffer, SlotInRing
<1>4. ~Lapped(i)
  BY <1>1, <1>2 DEF Lapped
<1> QED
  BY <1>3, <1>4

\* The stamp is written.
LEMMA WriteStampStep == ASSUME IInv, WriteStamp PROVE IInv'
<1> USE Parts
<1>1. /\ wpc = "stamp" /\ wpc' = "msg"
      /\ slots' = [slots EXCEPT ![Slot(whead)].stamp = written]
      /\ lost' = lost + (IF written - Entries >= tail THEN 1 ELSE 0)
      /\ UNCHANGED <<head, tail, dropped, whead, wtail, resetting>>
      /\ UNCHANGED <<fw, boots, da, lock, readerVars, written, crossed>>
  BY DEF WriteStamp
<1>2. whead = written /\ written \in Ids /\ written \in Int
  BY <1>1, Remainders DEF WriterInv, Ids, Blank
<1>3. /\ slots' \in [Slots -> Cells]
      /\ \A k \in Slots : k # Slot(written) => slots'[k] = slots[k]
  BY <1>1, <1>2, WriteEffect
<1>4. RingType' /\ WriterType'
  BY <1>1, <1>3 DEF RingType, WriterType
<1>5. ReaderType' /\ LockInv'
  BY <1>1, ReadersKept DEF ReaderType
<1>6. lost' \in Nat
  BY <1>1
<1>7. TypeOK'
  BY <1>1, <1>4, <1>5, <1>6 DEF TypeOK, IInv
<1>8. WriterInv'
  BY <1>1 DEF WriterInv
<1>9. SlotInv'
  <2>1. slots'[Slot(written)].stamp = written
    <3>1. Slot(written) \in Slots /\ slots \in [Slots -> Cells]
      BY <1>2, SlotInRing DEF RingType
    <3> QED
      BY <1>1, <1>2, <3>1 DEF Cells
  <2>2. ASSUME NEW i \in 0 .. MaxWritten, i < written, written <= i + Entries,
               ~Lapped(i)'
        PROVE  slots'[Slot(i)] = Entry(i)
    BY <1>1, <1>3, <2>2, OldEntries DEF SlotInv, Writing
  <2> QED
    BY <1>1, <2>1, <2>2 DEF SlotInv, Slot, Entry
<1>10. CursorInv'
  BY <1>1, CursorKept DEF readerVars, CursorInv
<1>11. CopiedOrLapped'
  <2>1. \A i \in Int : Lapped(i) => Lapped(i)'
    BY <1>1 DEF Lapped
  <2> QED
    BY <1>1, <2>1, CopiedKept
<1>12. LossInv'
  <2>1. ASSUME ~crossed, written - Entries >= tail PROVE Overwrites
    <3>1. wtail <= tail /\ wtail \in Int /\ tail \in Int
      BY <1>1, <2>1 DEF CursorInv
    <3>2. whead - wtail >= Entries /\ whead - wtail \in Counters
      BY <1>2, <2>1, <3>1, Remainders DEF WriterType, Counters
    <3> QED
      BY <3>2, Remainders DEF Overwrites, Minus
  <2>2. Overwrites' <=> Overwrites
    BY <1>1 DEF Overwrites, Minus
  <2> QED
    BY <1>1, <2>1, <2>2 DEF LossInv, LossCounted
<1> QED
  BY <1>5, <1>7, <1>8, <1>9, <1>10, <1>11, <1>12 DEF IInv

\* The message follows: the entry is whole.
LEMMA WriteMsgStep == ASSUME IInv, WriteMsg PROVE IInv'
<1> USE Parts
<1>1. /\ wpc = "msg" /\ wpc' = "drop"
      /\ slots' = [slots EXCEPT ![Slot(whead)].msg = written]
      /\ UNCHANGED <<head, tail, dropped, whead, wtail, resetting>>
      /\ UNCHANGED <<fw, boots, da, lock, readerVars, written, lost, crossed>>
  BY DEF WriteMsg, histVars
<1>2. whead = written /\ written \in Ids /\ written \in Int
  BY <1>1, Remainders DEF WriterInv, Ids, Blank
<1>3. /\ slots' \in [Slots -> Cells]
      /\ \A k \in Slots : k # Slot(written) => slots'[k] = slots[k]
  BY <1>1, <1>2, WriteEffect
<1>4. RingType' /\ WriterType'
  BY <1>1, <1>3 DEF RingType, WriterType
<1>5. ReaderType' /\ LockInv'
  BY <1>1, ReadersKept DEF ReaderType
<1>6. TypeOK'
  BY <1>1, <1>4, <1>5 DEF TypeOK, IInv
<1>7. WriterInv'
  BY <1>1 DEF WriterInv
<1>8. SlotInv'
  <2>1. slots'[Slot(written)] = Entry(written)
    <3>1. Slot(written) \in Slots /\ slots \in [Slots -> Cells]
      BY <1>2, SlotInRing DEF RingType
    <3>2. slots[Slot(written)].stamp = written
      BY <1>1 DEF SlotInv
    <3> QED
      BY <1>1, <1>2, <3>1, <3>2 DEF Cells, Entry
  <2>2. ASSUME NEW i \in 0 .. MaxWritten, i < written, written <= i + Entries,
               ~Lapped(i)'
        PROVE  slots'[Slot(i)] = Entry(i)
    BY <1>1, <1>3, <2>2, OldEntries DEF SlotInv, Writing
  <2> QED
    BY <1>1, <2>1, <2>2 DEF SlotInv, Slot, Entry
<1>9. CursorInv'
  BY <1>1, CursorKept DEF readerVars, CursorInv
<1>10. CopiedOrLapped'
  BY <1>1, LappedSame, CopiedKept DEF Writing
<1>11. LossInv'
  <2>1. Overwrites' <=> Overwrites
    BY <1>1 DEF Overwrites, Minus
  <2> QED
    BY <1>1, <2>1 DEF LossInv, LossCounted
<1> QED
  BY <1>5, <1>6, <1>7, <1>8, <1>9, <1>10, <1>11 DEF IInv

\* An unread entry that was overwritten is counted; the count does not wrap.
LEMMA CountDroppedStep == ASSUME NoWrap, IInv, CountDropped PROVE IInv'
<1> USE Parts
<1>1. /\ wpc = "drop" /\ wpc' = "publish"
      /\ dropped' = IF Overwrites THEN Plus(dropped, 1) ELSE dropped
      /\ UNCHANGED <<head, tail, slots, whead, wtail, resetting>>
      /\ UNCHANGED <<fw, boots, da, lock, readerVars, written, lost, crossed>>
  BY DEF CountDropped, histVars
<1>2. dropped <= written /\ written <= MaxWritten
  BY <1>1 DEF LossInv, WriterInv
<1>3. Plus(dropped, 1) = dropped + 1 /\ Plus(dropped, 1) \in Counters
  <2>1. dropped + 1 \in Counters
    BY <1>2, Remainders DEF NoWrap, Counters
  <2> QED
    BY <2>1, Remainders DEF Plus
<1>4. RingType' /\ WriterType'
  BY <1>1, <1>3 DEF RingType, WriterType
<1>5. ReaderType' /\ LockInv'
  BY <1>1, ReadersKept DEF ReaderType
<1>6. TypeOK'
  BY <1>1, <1>4, <1>5 DEF TypeOK, IInv
<1>7. WriterInv'
  BY <1>1 DEF WriterInv
<1>8. SlotInv'
  BY <1>1, SlotsKept
<1>9. CursorInv'
  BY <1>1, CursorKept DEF readerVars, CursorInv
<1>10. CopiedOrLapped'
  BY <1>1, LappedSame, CopiedKept DEF Writing
<1>11. LossInv'
  BY <1>1, <1>2, <1>3 DEF LossInv, LossCounted
<1> QED
  BY <1>5, <1>6, <1>7, <1>8, <1>9, <1>10, <1>11 DEF IInv

\* The entry is announced; head does not wrap.
LEMMA PublishStep == ASSUME NoWrap, IInv, Publish PROVE IInv'
<1> USE Parts
<1>1. /\ wpc = "publish" /\ wpc' = "idle"
      /\ head' = Plus(whead, 1) /\ written' = written + 1
      /\ fw' = (IF resetting THEN "reset" ELSE fw) /\ resetting' = FALSE
      /\ UNCHANGED <<tail, dropped, slots, whead, wtail>>
      /\ UNCHANGED <<boots, da, lock, readerVars, lost, crossed>>
  BY DEF Publish
<1>2. /\ whead = written /\ written <= MaxWritten /\ written \in Int
      /\ fw = "up" /\ (~resetting => written < MaxWritten)
  BY <1>1 DEF WriterInv
<1>3. head' = written + 1 /\ head' \in Counters
  <2>1. written + 1 \in Counters
    BY <1>2, Remainders DEF NoWrap, Counters
  <2> QED
    BY <1>1, <1>2, <2>1, Remainders DEF Plus
<1>4. written' \in 0 .. MaxWritten + 1
  BY <1>1, <1>2, Remainders
<1>5. RingType' /\ WriterType'
  BY <1>1, <1>3 DEF RingType, WriterType
<1>6. ReaderType' /\ LockInv'
  BY <1>1, ReadersKept DEF ReaderType
<1>7. TypeOK'
  BY <1>1, <1>4, <1>5, <1>6 DEF TypeOK, IInv
<1>8. WriterInv'
  BY <1>1, <1>2, <1>3, Remainders DEF WriterInv
<1>9. SlotInv'
  <2>1. ASSUME NEW i \in 0 .. MaxWritten, i < written + 1, ~Lapped(i)',
               written + 1 <= i + Entries
        PROVE  slots[Slot(i)] = Entry(i)
    <3>1. CASE i = written
      BY <1>1, <3>1 DEF SlotInv
    <3>2. CASE i < written
      <4>1. i \in Int /\ Entries \in Int
        BY Remainders
      <4>2. ~Lapped(i) /\ written <= i + Entries
        BY <1>2, <2>1, <4>1 DEF Lapped
      <4> QED
        BY <3>2, <4>2 DEF SlotInv
    <3> QED
      BY <1>2, <2>1, <3>1, <3>2, Remainders
  <2> QED
    BY <1>1, <2>1 DEF SlotInv, Slot, Entry
<1>10. CursorInv'
  <2>1. ASSUME ~crossed PROVE tail <= written + 1
    BY <1>2, <2>1 DEF CursorInv
  <2>2. ASSUME ~crossed, NEW r \in Readers, rpc[r] \notin {"idle", "head"}
        PROVE  rhead[r] <= written + 1
    BY <1>2, <2>2, ReaderFacts DEF CursorInv
  <2> QED
    BY <1>1, <2>1, <2>2 DEF CursorInv, readerVars
<1>11. CopiedOrLapped'
  <2>1. \A i \in Int : Lapped(i) => Lapped(i)'
    BY <1>1, <1>2, Remainders DEF Lapped
  <2> QED
    BY <1>1, <2>1, CopiedKept
<1>12. LossInv'
  <2>1. ~crossed => tail <= written + 1
    BY <1>2 DEF CursorInv
  <2> QED
    BY <1>1, <1>2, <2>1 DEF LossInv, LossCounted
<1> QED
  BY <1>6, <1>7, <1>8, <1>9, <1>10, <1>11, <1>12 DEF IInv

\* The loader clears the ring: whoever reads it meanwhile is marked.
LEMMA LoadStep == ASSUME IInv, Load PROVE IInv'
<1> USE Parts
<1>1. /\ fw = "reset" /\ fw' = "loaded"
      /\ boots < MaxBoots /\ boots' = boots + 1
      /\ head' = 0 /\ tail' = 0 /\ dropped' = 0 /\ written' = 0 /\ lost' = 0
      /\ slots' = [i \in Slots |-> Clear]
      /\ crossed' = (\E r \in Readers : rpc[r] # "idle")
      /\ UNCHANGED <<wpc, whead, wtail, resetting>>
      /\ UNCHANGED <<da, lock, readerVars>>
  BY DEF Load, writerVars
<1>2. /\ 0 \in Counters /\ 0 \in 0 .. MaxWritten + 1 /\ Clear \in Cells
      /\ 0 <= MaxWritten
  BY Remainders DEF Counters, Clear, Cells, Ids, Blank
<1>3. wpc = "idle"
  BY <1>1 DEF WriterInv
<1>4. boots' \in 0 .. MaxBoots
  BY <1>1, RingAssumption DEF WriterType
<1>5. RingType' /\ WriterType'
  BY <1>1, <1>2, <1>4 DEF RingType, WriterType
<1>6. ReaderType' /\ LockInv'
  BY <1>1, ReadersKept DEF ReaderType
<1>7. crossed' \in BOOLEAN
  BY <1>1
<1>8. TypeOK'
  BY <1>1, <1>2, <1>5, <1>6, <1>7 DEF TypeOK
<1>9. WriterInv' /\ SlotInv'
  BY <1>1, <1>2, <1>3 DEF WriterInv, SlotInv
<1>10. ASSUME ~crossed' PROVE \A r \in Readers : rpc'[r] = "idle"
  BY <1>1, <1>10 DEF readerVars
<1>11. CursorInv'
  BY <1>1, <1>3, <1>10 DEF CursorInv
<1>12. CopiedOrLapped'
  <2>1. ASSUME ~crossed', NEW r \in Readers PROVE Len(copied'[r]) = 0
    BY <1>6, <1>10, <2>1 DEF LockInv
  <2> QED
    BY <2>1 DEF CopiedOrLapped
<1>13. LossInv'
  BY <1>1, <1>3 DEF LossInv, LossCounted
<1> QED
  BY <1>6, <1>8, <1>9, <1>11, <1>12, <1>13 DEF IInv

\* The device verifies the header, the driver learns the address, or nothing
\* happens at all.
LEMMA QuietStep ==
  ASSUME IInv, Verify \/ Start \/ UNCHANGED vars
  PROVE  IInv'
<1> USE Parts
<1>1. /\ UNCHANGED <<head, tail, dropped, slots, wpc, whead, wtail, resetting>>
      /\ UNCHANGED <<boots, lock, readerVars, written, lost, crossed>>
      /\ da' \in BOOLEAN
      /\ fw' = fw \/ (fw = "loaded" /\ fw' = "up")
  BY DEF Verify, Start, vars, ringVars, writerVars, histVars, ReaderType
<1>2. RingType' /\ WriterType'
  BY <1>1 DEF RingType, WriterType
<1>3. ReaderType' /\ LockInv'
  BY <1>1, ReadersKept
<1>4. TypeOK'
  BY <1>1, <1>2, <1>3 DEF TypeOK, IInv
<1>5. WriterInv'
  BY <1>1 DEF WriterInv
<1>6. SlotInv'
  BY <1>1, SlotsKept
<1>7. CursorInv'
  BY <1>1, CursorKept DEF readerVars, CursorInv
<1>8. CopiedOrLapped'
  BY <1>1, LappedSame, CopiedKept
<1>9. LossInv'
  BY <1>1 DEF LossInv, LossCounted, Overwrites, Minus
<1> QED
  BY <1>3, <1>4, <1>5, <1>6, <1>7, <1>8, <1>9 DEF IInv
-----------------------------------------------------------------------------
(***************************************************************************)
(* The steps of the readers.                                               *)
(***************************************************************************)

\* Nothing that is another reader's has changed.
OthersKeep(r) ==
  \A s \in Readers : s # r =>
    /\ rpc'[s] = rpc[s] /\ rhead'[s] = rhead[s] /\ rtail'[s] = rtail[s]
    /\ copied'[s] = copied[s]

\* The cursors of one reader.
CursorsOf(r) ==
  /\ rpc[r] \notin {"idle", "head"} => tail <= rhead[r] /\ rhead[r] <= written
  /\ rpc[r] \notin {"idle", "head", "tail"} => rtail[r] <= rhead[r]
  /\ rpc[r] = "stamp" => Len(copied[r]) < rhead[r] - rtail[r]
  /\ rpc[r] = "msg" => /\ 0 < Len(copied[r])
                       /\ Len(copied[r]) <= rhead[r] - rtail[r]

\* The device's side of the invariant under a step of a reader, which at most
\* moves tail.
LEMMA DeviceKept ==
  ASSUME IInv, UNCHANGED <<head, dropped, slots, fw, boots, writerVars, histVars>>,
         tail' \in Counters, ReaderType'
  PROVE  TypeOK' /\ WriterInv' /\ SlotInv'
<1> USE Parts
<1>1. UNCHANGED <<wpc, whead, wtail, resetting, written, lost, crossed>>
  BY DEF writerVars, histVars
<1>2. RingType' /\ WriterType'
  BY <1>1 DEF RingType, WriterType
<1>3. TypeOK'
  BY <1>1, <1>2 DEF TypeOK, IInv
<1>4. WriterInv'
  BY <1>1 DEF WriterInv
<1>5. SlotInv'
  BY <1>1, SlotsKept
<1> QED
  BY <1>3, <1>4, <1>5

\* While tail stays, so does the account of the losses.
LEMMA LossKept ==
  ASSUME IInv, UNCHANGED <<dropped, writerVars, histVars>>,
         tail' = tail \/ (~crossed => tail' <= written)
  PROVE  LossInv'
<1>1. UNCHANGED <<wpc, whead, wtail, written, lost, crossed>>
  BY DEF writerVars, histVars
<1> QED
  BY <1>1, Parts DEF LossInv, LossCounted, Overwrites, Minus

\* A step of one reader keeps the rest of the invariant if it keeps that
\* reader's part of it; nobody else is in the file.
LEMMA ReaderFrame ==
  ASSUME IInv, NEW r \in Readers, OthersKeep(r),
         UNCHANGED <<writerVars, histVars>>,
         rpc[r] # "idle" \/ lock = Nobody, tail' \in Nat,
         rpc'[r] # "idle" => lock' = r,
         rpc'[r] \notin {"stamp", "msg", "advance"} => copied'[r] = <<>>,
         ~crossed => CursorsOf(r)' /\ tail <= tail' /\ tail' <= written,
         ~crossed => \A k \in 1 .. Len(copied'[r]) : IsCopy(r, k)'
  PROVE  LockInv' /\ CursorInv' /\ CopiedOrLapped'
<1> USE Parts
<1>1. UNCHANGED <<wpc, whead, wtail, written, crossed>>
  BY DEF writerVars, histVars
<1>2. \A s \in Readers : s # r => rpc[s] = "idle"
  BY RingAssumption DEF LockInv, Nobody
<1>3. LockInv'
  BY <1>2 DEF LockInv, OthersKeep
<1>4. CursorInv'
  <2>1. ASSUME ~crossed, NEW s \in Readers PROVE CursorsOf(s)'
    <3>1. CASE s = r
      BY <2>1, <3>1
    <3>2. CASE s # r
      BY <1>2, <3>2 DEF OthersKeep, CursorsOf
    <3> QED
      BY <3>1, <3>2
  <2>2. ASSUME ~crossed, NEW s \in Readers
        PROVE  /\ rpc'[s] \notin {"idle", "head"} =>
                    tail' <= rhead'[s] /\ rhead'[s] <= written'
               /\ rpc'[s] \notin {"idle", "head", "tail"} => rtail'[s] <= rhead'[s]
               /\ rpc'[s] = "stamp" => Len(copied'[s]) < rhead'[s] - rtail'[s]
               /\ rpc'[s] = "msg" =>
                    /\ 0 < Len(copied'[s])
                    /\ Len(copied'[s]) <= rhead'[s] - rtail'[s]
    BY <2>1, <2>2 DEF CursorsOf
  <2>3. ASSUME ~crossed, wpc # "idle" PROVE wtail <= tail'
    <3>1. wtail <= tail /\ tail <= tail' /\ tail' <= written
      BY <2>3 DEF CursorInv
    <3>2. wtail \in Int /\ tail \in Int /\ written \in Int
      OBVIOUS
    <3> QED
      BY <3>1, <3>2
  <2> QED
    BY <1>1, <2>2, <2>3 DEF CursorInv
<1>5. CopiedOrLapped'
  <2>1. ASSUME ~crossed, NEW s \in Readers, NEW k \in 1 .. Len(copied'[s])
        PROVE  IsCopy(s, k)'
    <3>1. CASE s = r
      BY <2>1, <3>1
    <3>2. CASE s # r
      <4>1. copied'[s] = <<>>
        BY <1>2, <3>2 DEF OthersKeep, LockInv
      <4> QED
        BY <2>1, <4>1
    <3> QED
      BY <3>1, <3>2
  <2> QED
    BY <1>1, <2>1 DEF CopiedOrLapped, IsCopy
<1> QED
  BY <1>3, <1>4, <1>5

\* A reader enters the file.
LEMMA OpenLockStep == ASSUME IInv, NEW r \in Readers, OpenLock(r) PROVE IInv'
<1> USE Parts
<1>1. /\ rpc[r] = "idle" /\ lock = Nobody /\ lock' = r
      /\ rpc' = [rpc EXCEPT ![r] = "head"]
      /\ UNCHANGED <<head, tail, dropped, slots, fw, boots, writerVars, histVars>>
      /\ UNCHANGED <<da, rhead, rtail, rskip, rdropped, copied>>
  BY DEF OpenLock, MayOpen, Goto, ringVars
<1>2. ReaderType'
  BY <1>1 DEF ReaderType
<1>3. rpc'[r] = "head" /\ OthersKeep(r)
  BY <1>1 DEF ReaderType, OthersKeep
<1>4. copied'[r] = <<>> /\ Len(copied'[r]) = 0
  BY <1>1 DEF LockInv
<1>5. ~crossed => CursorsOf(r)' /\ tail <= tail' /\ tail' <= written
  BY <1>1, <1>3 DEF CursorsOf, CursorInv
<1>6. LockInv' /\ CursorInv' /\ CopiedOrLapped'
  BY <1>1, <1>3, <1>4, <1>5, ReaderFrame
<1>7. tail' \in Counters
  BY <1>1 DEF RingType
<1> QED
  BY <1>1, <1>2, <1>6, <1>7, DeviceKept, LossKept DEF IInv

\* It reads head: at least as much as tail, since nobody else moves tail.
LEMMA ReadHeadStep == ASSUME IInv, NEW r \in Readers, ReadHead(r) PROVE IInv'
<1> USE Parts
<1>1. /\ rpc[r] = "head" /\ rpc' = [rpc EXCEPT ![r] = "tail"]
      /\ rhead' = [rhead EXCEPT ![r] = head]
      /\ UNCHANGED <<head, tail, dropped, slots, fw, boots, writerVars, histVars>>
      /\ UNCHANGED <<da, lock, rtail, rskip, rdropped, copied>>
  BY DEF ReadHead, Goto, ringVars
<1>2. ReaderType'
  BY <1>1 DEF ReaderType, RingType
<1>3. rpc'[r] = "tail" /\ rhead'[r] = written /\ OthersKeep(r)
  BY <1>1 DEF ReaderType, OthersKeep, WriterInv
<1>4. copied'[r] = <<>> /\ Len(copied'[r]) = 0 /\ lock' = r
  BY <1>1 DEF LockInv
<1>5. written' = written
  BY <1>1 DEF histVars
<1>6. ~crossed => CursorsOf(r)' /\ tail <= tail' /\ tail' <= written
  BY <1>1, <1>3, <1>5 DEF CursorsOf, CursorInv
<1>7. LockInv' /\ CursorInv' /\ CopiedOrLapped'
  BY <1>1, <1>3, <1>4, <1>6, ReaderFrame
<1>8. tail' \in Counters
  BY <1>1 DEF RingType
<1> QED
  BY <1>1, <1>2, <1>7, <1>8, DeviceKept, LossKept DEF IInv

\* It reads tail.
LEMMA ReadTailStep == ASSUME IInv, NEW r \in Readers, ReadTail(r) PROVE IInv'
<1> USE Parts
<1>1. /\ rpc[r] = "tail" /\ rpc' = [rpc EXCEPT ![r] = "dropped"]
      /\ rtail' = [rtail EXCEPT ![r] = tail]
      /\ UNCHANGED <<head, tail, dropped, slots, fw, boots, writerVars, histVars>>
      /\ UNCHANGED <<da, lock, rhead, rskip, rdropped, copied>>
  BY DEF ReadTail, Goto, ringVars
<1>2. ReaderType'
  BY <1>1 DEF ReaderType, RingType
<1>3. rpc'[r] = "dropped" /\ rtail'[r] = tail /\ OthersKeep(r)
  BY <1>1 DEF ReaderType, OthersKeep
<1>4. copied'[r] = <<>> /\ Len(copied'[r]) = 0 /\ lock' = r
  BY <1>1 DEF LockInv
<1>5. written' = written
  BY <1>1 DEF histVars
<1>6. ~crossed => CursorsOf(r)' /\ tail <= tail' /\ tail' <= written
  BY <1>1, <1>3, <1>5 DEF CursorsOf, CursorInv
<1>7. LockInv' /\ CursorInv' /\ CopiedOrLapped'
  BY <1>1, <1>3, <1>4, <1>6, ReaderFrame
<1>8. tail' \in Counters
  BY <1>1 DEF RingType
<1> QED
  BY <1>1, <1>2, <1>7, <1>8, DeviceKept, LossKept DEF IInv

\* It reads dropped.
LEMMA ReadDroppedStep ==
  ASSUME IInv, NEW r \in Readers, ReadDropped(r) PROVE IInv'
<1> USE Parts
<1>1. /\ rpc[r] = "dropped" /\ rpc' = [rpc EXCEPT ![r] = "alloc"]
      /\ rdropped' = [rdropped EXCEPT ![r] = dropped]
      /\ UNCHANGED <<head, tail, dropped, slots, fw, boots, writerVars, histVars>>
      /\ UNCHANGED <<da, lock, rhead, rtail, rskip, copied>>
  BY DEF ReadDropped, Goto, ringVars
<1>2. ReaderType'
  BY <1>1 DEF ReaderType, RingType
<1>3. rpc'[r] = "alloc" /\ OthersKeep(r)
  BY <1>1 DEF ReaderType, OthersKeep
<1>4. copied'[r] = <<>> /\ Len(copied'[r]) = 0 /\ lock' = r
  BY <1>1 DEF LockInv
<1>5. written' = written
  BY <1>1 DEF histVars
<1>6. ~crossed => CursorsOf(r)' /\ tail <= tail' /\ tail' <= written
  BY <1>1, <1>3, <1>5 DEF CursorsOf, CursorInv
<1>7. LockInv' /\ CursorInv' /\ CopiedOrLapped'
  BY <1>1, <1>3, <1>4, <1>6, ReaderFrame
<1>8. tail' \in Counters
  BY <1>1 DEF RingType
<1> QED
  BY <1>1, <1>2, <1>7, <1>8, DeviceKept, LossKept DEF IInv

\* The subtraction of the cursors and what it leaves to copy.
LEMMA UnreadFacts ==
  ASSUME IInv, NEW r \in Readers
  PROVE  /\ Unread(r) \in Counters /\ Count(r) \in Counters
         /\ Count(r) <= Unread(r) /\ Unread(r) - Count(r) \in Counters
         /\ Minus(rhead[r], Count(r)) \in Counters
         /\ rtail[r] <= rhead[r] =>
              /\ Unread(r) = rhead[r] - rtail[r]
              /\ Minus(rhead[r], Count(r)) = rhead[r] - Count(r)
<1>1. rhead[r] \in Counters /\ rtail[r] \in Counters
  BY ReaderFacts
<1>2. Unread(r) \in Counters
  <2>1. rhead[r] - rtail[r] \in Int
    BY <1>1, Remainders DEF Counters
  <2> QED
    BY <2>1, Remainders DEF Unread, Minus
<1>3. /\ Count(r) \in Counters /\ Count(r) <= Unread(r)
      /\ Unread(r) - Count(r) \in Counters
  BY <1>2, Remainders DEF Count, Counters
<1>4. Minus(rhead[r], Count(r)) \in Counters
  <2>1. rhead[r] - Count(r) \in Int
    BY <1>1, <1>3, Remainders DEF Counters
  <2> QED
    BY <2>1, Remainders DEF Minus
<1>5. ASSUME rtail[r] <= rhead[r]
      PROVE  /\ Unread(r) = rhead[r] - rtail[r]
             /\ Minus(rhead[r], Count(r)) = rhead[r] - Count(r)
  <2>1. rhead[r] - rtail[r] \in Counters
    BY <1>1, <1>5, Remainders DEF Counters
  <2>2. Unread(r) = rhead[r] - rtail[r]
    BY <2>1, Remainders DEF Unread, Minus
  <2>3. rhead[r] - Count(r) \in Counters
    BY <1>1, <1>3, <2>2, Remainders DEF Counters
  <2> QED
    BY <2>2, <2>3, Remainders DEF Minus
<1> QED
  BY <1>2, <1>3, <1>4, <1>5

\* It skips what was overwritten: what is left is at most a ring.
LEMMA OpenAllocStep == ASSUME IInv, NEW r \in Readers, OpenAlloc(r) PROVE IInv'
<1> USE Parts
<1> DEFINE l == IF Count(r) = 0 THEN "advance" ELSE "stamp"
<1>1. /\ rpc[r] = "alloc" /\ rpc' = [rpc EXCEPT ![r] = l]
      /\ rtail' = [rtail EXCEPT ![r] = Minus(rhead[r], Count(r))]
      /\ rskip' = [rskip EXCEPT ![r] = Unread(r) - Count(r)]
      /\ UNCHANGED <<head, tail, dropped, slots, fw, boots, writerVars, histVars>>
      /\ UNCHANGED <<da, lock, rhead, rdropped, copied>>
  BY DEF OpenAlloc, Resync, Goto, ringVars
<1>2. l \in {"advance", "stamp"} /\ (l = "stamp" => Count(r) # 0)
  OBVIOUS
<1> HIDE DEF l
<1>3. ReaderType'
  <2>1. /\ Minus(rhead[r], Count(r)) \in Counters
        /\ Unread(r) - Count(r) \in Counters
    BY UnreadFacts
  <2> QED
    BY <1>1, <1>2, <2>1 DEF ReaderType
<1>4. /\ rpc'[r] = l /\ rtail'[r] = Minus(rhead[r], Count(r))
      /\ rhead'[r] = rhead[r] /\ OthersKeep(r)
  BY <1>1 DEF ReaderType, OthersKeep
<1>5. copied'[r] = <<>> /\ Len(copied'[r]) = 0 /\ lock' = r
  BY <1>1 DEF LockInv
<1>6. written' = written
  BY <1>1 DEF histVars
<1>7. ASSUME ~crossed PROVE CursorsOf(r)' /\ tail <= tail' /\ tail' <= written
  <2>1. rtail[r] <= rhead[r] /\ tail <= rhead[r] /\ rhead[r] <= written
    BY <1>1, <1>7 DEF CursorInv
  <2>2. rtail'[r] = rhead[r] - Count(r) /\ Count(r) \in Nat /\ rhead[r] \in Nat
    BY <1>4, <2>1, UnreadFacts, ReaderFacts, Remainders DEF Counters
  <2>3. rtail'[r] <= rhead'[r] /\ rhead'[r] - rtail'[r] = Count(r)
    BY <1>4, <2>2
  <2>4. l = "stamp" => Len(copied'[r]) < rhead'[r] - rtail'[r]
    BY <1>2, <1>5, <2>2, <2>3
  <2> QED
    BY <1>1, <1>2, <1>4, <1>6, <1>7, <2>1, <2>3, <2>4 DEF CursorsOf, CursorInv
<1>8. LockInv' /\ CursorInv' /\ CopiedOrLapped'
  BY <1>1, <1>4, <1>5, <1>7, ReaderFrame
<1>9. tail' \in Counters
  BY <1>1 DEF RingType
<1> QED
  BY <1>1, <1>3, <1>8, <1>9, DeviceKept, LossKept DEF IInv
\* An index the reader has yet to copy is below head, and does not wrap.  Unless
\* the device has lapped it, the entry of that number is in its slot.
LEMMA IndexFacts ==
  ASSUME NoWrap, IInv, NEW r \in Readers, NEW n \in Nat,
         ~crossed, rpc[r] \in {"stamp", "msg"}, n < rhead[r] - rtail[r]
  PROVE  /\ Plus(rtail[r], n) = rtail[r] + n /\ rtail[r] + n \in Int
         /\ Lapped(rtail[r] + n) \/ slots[Slot(rtail[r] + n)] = Entry(rtail[r] + n)
<1> DEFINE i == rtail[r] + n
<1>1. /\ rhead[r] <= written /\ written \in Nat /\ written <= MaxWritten + 1
      /\ rhead[r] \in Nat /\ rtail[r] \in Nat
  BY Parts, ReaderFacts DEF CursorInv
<1>2. i \in Nat /\ i < written
  BY <1>1
<1>3. i \in Counters /\ i \in 0 .. MaxWritten
  BY <1>1, <1>2, Remainders DEF NoWrap, Counters
<1>4. Plus(rtail[r], n) = i
  BY <1>3, Remainders DEF Plus
<1>5. ASSUME ~Lapped(i) PROVE slots[Slot(i)] = Entry(i)
  <2>1. written <= i + Entries
    BY <1>1, <1>2, <1>5, Remainders DEF Lapped
  <2> QED
    BY <1>2, <1>3, <1>5, <2>1, Parts DEF SlotInv
<1> QED
  BY <1>2, <1>4, <1>5

\* It copies the first half of an entry.
LEMMA CopyStampStep ==
  ASSUME NoWrap, IInv, NEW r \in Readers, CopyStamp(r) PROVE IInv'
<1> USE Parts
<1> DEFINE n == Len(copied[r])
           j == Plus(rtail[r], n)
           c == [stamp |-> slots[Slot(j)].stamp, msg |-> Blank]
<1>1. /\ rpc[r] = "stamp" /\ rpc' = [rpc EXCEPT ![r] = "msg"]
      /\ copied' = [copied EXCEPT ![r] = Append(copied[r], c)]
      /\ UNCHANGED <<head, tail, dropped, slots, fw, boots, writerVars, histVars>>
      /\ UNCHANGED <<da, lock, rhead, rtail, rskip, rdropped>>
  BY DEF CopyStamp, Goto, ringVars
<1>2. copied[r] \in Seq(Cells) /\ n \in Nat
  BY ReaderFacts
<1>3. c \in Cells
  <2>1. j \in Int
    <3>1. rtail[r] + n \in Int
      BY <1>2, ReaderFacts
    <3> QED
      BY <3>1, Remainders DEF Plus, Counters
  <2>2. slots[Slot(j)] \in Cells
    BY <2>1, SlotInRing DEF RingType
  <2>3. Blank \in Ids
    BY Remainders DEF Ids, Blank
  <2> QED
    BY <2>2, <2>3 DEF Cells
<1>4. /\ Append(copied[r], c) \in Seq(Cells)
      /\ Len(Append(copied[r], c)) = n + 1
      /\ Append(copied[r], c)[n + 1] = c
      /\ \A k \in 1 .. n : Append(copied[r], c)[k] = copied[r][k]
  BY <1>2, <1>3, AppendProperties
<1>5. ReaderType'
  <2>1. copied' \in [Readers -> Seq(Cells)]
    BY <1>1, <1>4 DEF ReaderType
  <2> QED
    BY <1>1, <2>1 DEF ReaderType
<1>6. /\ rpc'[r] = "msg" /\ copied'[r] = Append(copied[r], c)
      /\ rhead'[r] = rhead[r] /\ rtail'[r] = rtail[r] /\ OthersKeep(r)
  BY <1>1 DEF ReaderType, OthersKeep
<1>7. lock' = r
  BY <1>1 DEF LockInv
<1>8. UNCHANGED <<written, wpc>>
  BY <1>1 DEF histVars, writerVars
<1>9. ASSUME ~crossed PROVE CursorsOf(r)' /\ tail <= tail' /\ tail' <= written
  <2>1. /\ n < rhead[r] - rtail[r] /\ rtail[r] <= rhead[r]
        /\ tail <= rhead[r] /\ rhead[r] <= written
    BY <1>1, <1>9 DEF CursorInv
  <2>2. Len(copied'[r]) = n + 1 /\ n + 1 <= rhead[r] - rtail[r] /\ 0 < n + 1
    BY <1>2, <1>4, <1>6, <2>1, ReaderFacts
  <2> QED
    BY <1>1, <1>6, <1>8, <1>9, <2>1, <2>2 DEF CursorsOf, CursorInv
<1>10. ASSUME ~crossed, NEW k \in 1 .. Len(copied'[r]) PROVE IsCopy(r, k)'
  <2>1. \A i \in Int : Lapped(i)' <=> Lapped(i)
    BY <1>8, LappedSame
  <2>2. Len(copied'[r]) = n + 1 /\ rtail[r] + k - 1 \in Int
    BY <1>4, <1>6, ReaderFacts
  <2>3. CASE k = n + 1
    <3>1. n < rhead[r] - rtail[r]
      BY <1>1, <1>10 DEF CursorInv
    <3>2. /\ j = rtail[r] + n /\ rtail[r] + n \in Int
          /\ Lapped(rtail[r] + n) \/ slots[Slot(rtail[r] + n)] = Entry(rtail[r] + n)
      BY <1>1, <1>2, <1>10, <3>1, IndexFacts
    <3>3. rtail[r] + k - 1 = rtail[r] + n
      BY <1>2, <2>3, ReaderFacts
    <3>4. Lapped(rtail[r] + n) \/ c.stamp = rtail[r] + n
      BY <3>2 DEF Entry
    <3>5. copied'[r][k] = c
      BY <1>4, <1>6, <2>3
    <3> HIDE DEF c, j, n
    <3> QED
      BY <1>6, <2>1, <2>2, <2>3, <3>2, <3>3, <3>4, <3>5 DEF IsCopy
  <2>4. CASE k # n + 1
    <3>1. k \in 1 .. n
      <4>1. k \in 1 .. n + 1
        BY <2>2
      <4> HIDE DEF n
      <4> QED
        BY <1>2, <2>4, <4>1
    <3>2. IsCopy(r, k)
      BY <1>10, <3>1 DEF CopiedOrLapped, IsCopy
    <3>3. copied'[r][k] = copied[r][k]
      BY <1>4, <1>6, <3>1
    <3> HIDE DEF c, j, n
    <3> QED
      BY <1>1, <1>6, <2>1, <2>2, <3>2, <3>3 DEF IsCopy
  <2> QED
    BY <2>3, <2>4
<1>11. LockInv' /\ CursorInv' /\ CopiedOrLapped'
  BY <1>1, <1>6, <1>7, <1>9, <1>10, ReaderFrame
<1>12. tail' \in Counters
  BY <1>1 DEF RingType
<1> QED
  BY <1>1, <1>5, <1>11, <1>12, DeviceKept, LossKept DEF IInv

\* It copies the second half.
LEMMA CopyMsgStep ==
  ASSUME NoWrap, IInv, NEW r \in Readers, CopyMsg(r) PROVE IInv'
<1> USE Parts
<1> DEFINE n == Len(copied[r])
           j == Plus(rtail[r], n - 1)
           x == slots[Slot(j)].msg
           l == IF n = Minus(rhead[r], rtail[r]) THEN "advance" ELSE "stamp"
<1>1. /\ rpc[r] = "msg" /\ rpc' = [rpc EXCEPT ![r] = l]
      /\ copied' = [copied EXCEPT ![r][n].msg = x]
      /\ UNCHANGED <<head, tail, dropped, slots, fw, boots, writerVars, histVars>>
      /\ UNCHANGED <<da, lock, rhead, rtail, rskip, rdropped>>
  BY DEF CopyMsg, Goto, ringVars
<1>2. copied[r] \in Seq(Cells) /\ n \in Nat
  BY ReaderFacts
<1>3. l \in {"advance", "stamp"}
  OBVIOUS
<1>4. x \in Ids
  <2>1. j \in Int
    <3>1. rtail[r] + (n - 1) \in Int
      BY <1>2, ReaderFacts
    <3> QED
      BY <3>1, Remainders DEF Plus, Counters
  <2>2. slots[Slot(j)] \in Cells
    BY <2>1, SlotInRing DEF RingType
  <2> QED
    BY <2>2 DEF Cells
<1> DEFINE d == [copied[r] EXCEPT ![n].msg = x]
<1>5. /\ d \in Seq(Cells) /\ Len(d) = n
      /\ \A k \in 1 .. n : k # n => d[k] = copied[r][k]
      /\ n > 0 => d[n].stamp = copied[r][n].stamp /\ d[n].msg = x
  <2>1. copied[r] \in [1 .. n -> Cells]
    BY <1>2, LenProperties
  <2>2. d \in [1 .. n -> Cells]
    BY <1>2, <1>4, <2>1 DEF Cells
  <2>3. d \in Seq(Cells) /\ Len(d) = n
    BY <1>2, <2>2
  <2>4. \A k \in 1 .. n : k # n => d[k] = copied[r][k]
    BY <2>1
  <2>5. ASSUME n > 0 PROVE d[n].stamp = copied[r][n].stamp /\ d[n].msg = x
    <3>1. n \in 1 .. n
      BY <1>2, <2>5
    <3> QED
      BY <2>1, <3>1 DEF Cells
  <2> QED
    BY <2>3, <2>4, <2>5
<1>6. copied' = [copied EXCEPT ![r] = d]
  BY <1>1
<1> HIDE DEF d
<1>7. ReaderType'
  <2>1. copied' \in [Readers -> Seq(Cells)]
    BY <1>5, <1>6 DEF ReaderType
  <2> HIDE DEF l
  <2> QED
    BY <1>1, <1>3, <2>1 DEF ReaderType
<1>8. /\ rpc'[r] = l /\ copied'[r] = d
      /\ rhead'[r] = rhead[r] /\ rtail'[r] = rtail[r] /\ OthersKeep(r)
  BY <1>1, <1>6 DEF ReaderType, OthersKeep
<1>9. lock' = r
  BY <1>1 DEF LockInv
<1>10. UNCHANGED <<written, wpc>>
  BY <1>1 DEF histVars, writerVars
<1>11. ASSUME ~crossed PROVE CursorsOf(r)' /\ tail <= tail' /\ tail' <= written
  <2>1. /\ 0 < n /\ n <= rhead[r] - rtail[r] /\ rtail[r] <= rhead[r]
        /\ tail <= rhead[r] /\ rhead[r] <= written
    BY <1>1, <1>11 DEF CursorInv
  <2>2. Minus(rhead[r], rtail[r]) = rhead[r] - rtail[r]
    BY <2>1, UnreadFacts DEF Unread
  <2>3. l = "stamp" => n < rhead[r] - rtail[r]
    BY <1>2, <2>1, <2>2, ReaderFacts
  <2> HIDE DEF l
  <2> QED
    BY <1>1, <1>3, <1>5, <1>8, <1>10, <1>11, <2>1, <2>3 DEF CursorsOf, CursorInv
<1>12. ASSUME ~crossed, NEW k \in 1 .. Len(copied'[r]) PROVE IsCopy(r, k)'
  <2>1. \A i \in Int : Lapped(i)' <=> Lapped(i)
    BY <1>10, LappedSame
  <2>2. k \in 1 .. n /\ rtail[r] + k - 1 \in Int
    BY <1>5, <1>8, ReaderFacts
  <2>3. IsCopy(r, k)
    BY <1>12, <2>2 DEF CopiedOrLapped, IsCopy
  <2>4. CASE k = n
    <3>1. n > 0 /\ n - 1 \in Nat /\ n - 1 < rhead[r] - rtail[r]
      <4>1. 0 < n /\ n <= rhead[r] - rtail[r]
        BY <1>1, <1>12 DEF CursorInv
      <4> HIDE DEF n
      <4> QED
        BY <1>2, <4>1, ReaderFacts
    <3>2. /\ j = rtail[r] + (n - 1) /\ rtail[r] + (n - 1) \in Int
          /\ \/ Lapped(rtail[r] + (n - 1))
             \/ slots[Slot(rtail[r] + (n - 1))] = Entry(rtail[r] + (n - 1))
      BY <1>1, <1>12, <3>1, IndexFacts
    <3>3. rtail[r] + k - 1 = rtail[r] + (n - 1)
      BY <1>2, <2>4, ReaderFacts
    <3>4. Lapped(rtail[r] + k - 1) \/ x = rtail[r] + k - 1
      BY <3>2, <3>3 DEF Entry
    <3>5. d[k].stamp = copied[r][k].stamp /\ d[k].msg = x
      BY <1>5, <2>4, <3>1
    <3>6. Lapped(rtail[r] + k - 1) \/ copied[r][k].stamp = rtail[r] + k - 1
      BY <2>3 DEF IsCopy
    <3> HIDE DEF x, j, n, l
    <3> QED
      BY <1>8, <2>1, <2>2, <3>4, <3>5, <3>6 DEF IsCopy
  <2>5. CASE k # n
    <3>1. d[k] = copied[r][k]
      BY <1>5, <2>2, <2>5
    <3>2. \/ Lapped(rtail[r] + k - 1)
          \/ /\ copied[r][k].stamp = rtail[r] + k - 1
             /\ copied[r][k].msg = rtail[r] + k - 1
      BY <2>3, <2>5 DEF IsCopy
    <3> HIDE DEF x, j, n, l
    <3> QED
      BY <1>8, <2>1, <2>2, <3>1, <3>2 DEF IsCopy
  <2> QED
    BY <2>4, <2>5
<1>13. LockInv' /\ CursorInv' /\ CopiedOrLapped'
  <2> HIDE DEF l
  <2> QED
    BY <1>1, <1>3, <1>8, <1>9, <1>11, <1>12, ReaderFrame
<1>14. tail' \in Counters
  BY <1>1 DEF RingType
<1> QED
  BY <1>1, <1>7, <1>13, <1>14, DeviceKept, LossKept DEF IInv

\* The call returns, with or without moving tail to the head it has read.
LEMMA ReturnStep ==
  ASSUME IInv, NEW r \in Readers, OpenFails(r) \/ OpenAdvance(r) PROVE IInv'
<1> USE Parts
<1>1. /\ rpc[r] \in {"alloc", "advance"} /\ lock' = Nobody
      /\ rpc' = [rpc EXCEPT ![r] = "idle"]
      /\ rhead' = [rhead EXCEPT ![r] = 0] /\ rtail' = [rtail EXCEPT ![r] = 0]
      /\ rskip' = [rskip EXCEPT ![r] = 0]
      /\ rdropped' = [rdropped EXCEPT ![r] = 0]
      /\ copied' = [copied EXCEPT ![r] = <<>>]
      /\ UNCHANGED <<head, dropped, slots, fw, boots, writerVars, da, histVars>>
  BY DEF OpenFails, OpenAdvance, Return, Goto, ringVars
<1>2. tail' \in {tail, rhead[r]}
  BY DEF OpenFails, OpenAdvance, ringVars
<1>3. 0 \in Counters /\ <<>> \in Seq(Cells)
  BY Remainders DEF Counters
<1>4. ReaderType'
  <2>1. copied' \in [Readers -> Seq(Cells)]
    BY <1>1, <1>3 DEF ReaderType
  <2>2. /\ rhead' \in [Readers -> Counters] /\ rtail' \in [Readers -> Counters]
        /\ rskip' \in [Readers -> Counters]
        /\ rdropped' \in [Readers -> Counters]
    BY <1>1, <1>3 DEF ReaderType
  <2> QED
    BY <1>1, <2>1, <2>2 DEF ReaderType
<1>5. rpc'[r] = "idle" /\ copied'[r] = <<>> /\ OthersKeep(r)
  BY <1>1 DEF ReaderType, OthersKeep
<1>6. Len(copied'[r]) = 0
  BY <1>5
<1>7. tail' \in Counters /\ tail' \in Nat
  BY <1>2, ReaderFacts DEF RingType
<1>8. ASSUME ~crossed PROVE CursorsOf(r)' /\ tail <= tail' /\ tail' <= written
  BY <1>1, <1>2, <1>5, <1>8 DEF CursorsOf, CursorInv
<1>9. LockInv' /\ CursorInv' /\ CopiedOrLapped'
  BY <1>1, <1>5, <1>6, <1>7, <1>8, ReaderFrame
<1> QED
  BY <1>1, <1>4, <1>7, <1>8, <1>9, DeviceKept, LossKept DEF IInv

-----------------------------------------------------------------------------
(***************************************************************************)
(* The theorems.                                                           *)
(***************************************************************************)

\* The invariant holds in every reachable state.
THEOREM Invariant == ASSUME NoWrap PROVE Spec => []IInv
<1>1. ASSUME IInv, [Next]_vars PROVE IInv'
  BY <1>1, TraceBeginStep, WriteStampStep, WriteMsgStep, CountDroppedStep,
     PublishStep, LoadStep, QuietStep, OpenLockStep, ReadHeadStep, ReadTailStep,
     ReadDroppedStep, OpenAllocStep, CopyStampStep, CopyMsgStep, ReturnStep
  DEF Next, Open
<1>2. Init => IInv
  BY InitInv
<1> QED
  BY <1>1, <1>2, PTL DEF Spec

\* Every variable stays in its type.
THEOREM TypeCorrect == ASSUME NoWrap PROVE Spec => []TypeOK
<1>1. IInv => TypeOK
  BY DEF IInv
<1> QED
  BY Invariant, <1>1, PTL

\* What velocitor_trace() has published is complete in the slot the driver
\* computes for it from head, until the device comes round again.
THEOREM RingHoldsEntries == ASSUME NoWrap PROVE Spec => []RingHolds
<1>1. ASSUME IInv, NEW k \in 1 .. Entries,
             written - k >= 0, ~Lapped(written - k)
      PROVE  slots[Slot(Minus(head, k))] = [stamp |-> written - k, msg |-> written - k]
  <2> DEFINE i == written - k
  <2>1. /\ written \in Nat /\ written <= MaxWritten + 1 /\ head = written
        /\ k \in Nat /\ k >= 1 /\ k <= Entries
    BY <1>1, Parts, Remainders DEF WriterInv
  <2>2. i \in 0 .. MaxWritten /\ i \in Counters
    BY <1>1, <2>1, Remainders DEF NoWrap, Counters
  <2>3. Minus(head, k) = i
    BY <2>1, <2>2, Remainders DEF Minus
  <2>4. i < written /\ written <= i + Entries
    BY <2>1, Remainders
  <2> HIDE DEF i
  <2>5. ~Lapped(i)
    BY <1>1 DEF i
  <2>6. slots[Slot(i)] = Entry(i)
    BY <1>1, <2>2, <2>4, <2>5, Parts DEF SlotInv
  <2> QED
    BY <2>3, <2>6 DEF Entry, i
<1>2. IInv => RingHolds
  BY <1>1 DEF RingHolds
<1> QED
  BY Invariant, <1>2, PTL

\* An entry that velocitor_dtrace_debugfs_open() has copied is the one its index
\* names, in whole, unless the device has caught up with its slot.
THEOREM CopiesAreRight == ASSUME NoWrap PROVE Spec => []CopiedOrLapped
<1>1. IInv => CopiedOrLapped
  BY DEF IInv
<1> QED
  BY Invariant, <1>1, PTL

\* No silent overwrite: whatever is lost unread has been counted in dropped, or
\* is about to be.
THEOREM LossesAreCounted == ASSUME NoWrap PROVE Spec => []LossCounted
<1>1. IInv => LossCounted
  BY DEF IInv, LossInv
<1> QED
  BY Invariant, <1>1, PTL
=============================================================================
