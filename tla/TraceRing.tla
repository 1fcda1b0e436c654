------------------------------ MODULE TraceRing ------------------------------
(***************************************************************************)
(* The firmware's trace ring: the device appends entries in device memory, *)
(* the driver copies the unread ones out when its debugfs file is opened,  *)
(* and the loader clears the ring before every boot.                       *)
(*                                                                         *)
(* Source: velocitor_trace, _fw_verify, _reset_write of                    *)
(* qemu-device/velocitor.c; module/src/device-trace.c; the start in        *)
(* module/src/remoteproc.c.                                                *)
(*                                                                         *)
(* Atomicity.  The ring is plain memory on both sides, so every access to  *)
(* a word of the header is a step, and an entry is copied in two halves:   *)
(* stamp (timestamp, level, engine, seq) and msg.  The device runs one     *)
(* handler at a time, so RESET never cuts velocitor_trace() short.         *)
(***************************************************************************)
EXTENDS Integers, Sequences

CONSTANTS
  Readers,     \* processes that open the debugfs file
  Entries,     \* VEL_TRACE_ENTRIES
  Modulus,     \* 2^32, where the free-running counters wrap
  MaxWritten,  \* bound: entries per boot, the one of RESET not counted
  MaxBoots     \* bound: boots of the firmware

ASSUME RingAssumption ==
  /\ Entries \in Nat \ {0}
  /\ Modulus \in Nat /\ Entries < Modulus
  /\ MaxWritten \in Nat /\ MaxBoots \in Nat
  /\ "nobody" \notin Readers

Slots    == 0 .. Entries - 1
Counters == 0 .. Modulus - 1

\* An entry is the number of entries written before it since the boot; Blank
\* is memory the loader cleared.
Blank == -1
Ids   == Blank .. MaxWritten
Cells == [stamp : Ids, msg : Ids]
Clear == [stamp |-> Blank, msg |-> Blank]

VARIABLES
  head, tail, dropped,  \* the header of the ring, in device memory
  slots,                \* the entries, in device memory
  fw,                   \* "reset", "loaded", or "up": s->trace_da is set
  boots,                \* boots so far
  wpc, whead, wtail,    \* velocitor_trace(): where it is, what it has read
  resetting,            \* that call is the one of velocitor_reset_write()
  da,                   \* device->dtrace.da is set
  lock,                 \* who holds device->dtrace.lock
  rpc, rhead, rtail,    \* velocitor_dtrace_debugfs_open(), by reader
  rskip, rdropped,      \* header->skipped, header->dropped
  copied,               \* the entries copied so far
  written,              \* history: entries published since the boot
  lost,                 \* history: unread entries overwritten since the boot
  crossed               \* history: a read was under way when the ring was cleared

ringVars   == <<head, tail, dropped, slots>>
writerVars == <<wpc, whead, wtail, resetting>>
readerVars == <<rpc, rhead, rtail, rskip, rdropped, copied>>
histVars   == <<written, lost, crossed>>
vars == <<ringVars, fw, boots, writerVars, da, lock, readerVars, histVars>>

Nobody == "nobody"

RingType ==
  /\ head \in Counters /\ tail \in Counters /\ dropped \in Counters
  /\ slots \in [Slots -> Cells]

WriterType ==
  /\ fw \in {"reset", "loaded", "up"} /\ boots \in 0 .. MaxBoots
  /\ wpc \in {"idle", "stamp", "msg", "drop", "publish"}
  /\ whead \in Counters /\ wtail \in Counters
  /\ resetting \in BOOLEAN

ReaderType ==
  /\ da \in BOOLEAN /\ lock \in Readers \cup {Nobody}
  /\ rpc \in [Readers -> {"idle", "head", "tail", "dropped", "alloc", "stamp",
                         "msg", "advance"}]
  /\ rhead \in [Readers -> Counters] /\ rtail \in [Readers -> Counters]
  /\ rskip \in [Readers -> Counters] /\ rdropped \in [Readers -> Counters]
  /\ copied \in [Readers -> Seq(Cells)]

TypeOK ==
  /\ RingType /\ WriterType /\ ReaderType
  /\ written \in 0 .. MaxWritten + 1
  /\ lost \in Nat
  /\ crossed \in BOOLEAN

Init ==
  /\ head = 0 /\ tail = 0 /\ dropped = 0
  /\ slots = [i \in Slots |-> Clear]
  /\ fw = "reset" /\ boots = 0
  /\ wpc = "idle" /\ whead = 0 /\ wtail = 0 /\ resetting = FALSE
  /\ da = FALSE /\ lock = Nobody
  /\ rpc = [r \in Readers |-> "idle"]
  /\ rhead = [r \in Readers |-> 0] /\ rtail = [r \in Readers |-> 0]
  /\ rskip = [r \in Readers |-> 0] /\ rdropped = [r \in Readers |-> 0]
  /\ copied = [r \in Readers |-> <<>>]
  /\ written = 0 /\ lost = 0 /\ crossed = FALSE

\* Unsigned arithmetic on the counters, and the slot of an index.
Plus(a, b)  == (a + b) % Modulus
Minus(a, b) == (a - b) % Modulus
Slot(i)     == i % Entries

-----------------------------------------------------------------------------
(***************************************************************************)
(* The device: velocitor_trace().                                          *)
(***************************************************************************)

\* Both counters are read before anything is written.
TraceBegin ==
  /\ fw = "up" /\ wpc = "idle"
  /\ \/ written < MaxWritten /\ resetting' = FALSE
     \/ resetting' = TRUE
  /\ whead' = head /\ wtail' = tail
  /\ wpc' = "stamp"
  /\ UNCHANGED <<ringVars, fw, boots, da, lock, readerVars, histVars>>

\* head is published while the entry is half written.
WriteStampThenPublish ==
  /\ wpc = "stamp"
  /\ slots' = [slots EXCEPT ![Slot(whead)].stamp = written]
  /\ lost' = lost + (IF written - Entries >= tail THEN 1 ELSE 0)
  /\ head' = Plus(whead, 1)
  /\ wpc' = "msg"
  /\ UNCHANGED <<tail, dropped, fw, boots, whead, wtail, resetting, da, lock,
                 readerVars, written, crossed>>

\* The entry goes to its slot.  If the slot held one the driver has not read,
\* that one is lost.
WriteStamp ==
  /\ wpc = "stamp"
  /\ slots' = [slots EXCEPT ![Slot(whead)].stamp = written]
  /\ lost' = lost + (IF written - Entries >= tail THEN 1 ELSE 0)
  /\ wpc' = "msg"
  /\ UNCHANGED <<head, tail, dropped, fw, boots, whead, wtail, resetting, da,
                 lock, readerVars, written, crossed>>

WriteMsg ==
  /\ wpc = "msg"
  /\ slots' = [slots EXCEPT ![Slot(whead)].msg = written]
  /\ wpc' = "drop"
  /\ UNCHANGED <<head, tail, dropped, fw, boots, whead, wtail, resetting, da,
                 lock, readerVars, histVars>>

\* The ring counts as full one entry late.
OverwritesOffByOne == Minus(whead, wtail) > Entries

Overwrites == Minus(whead, wtail) >= Entries

CountDropped ==
  /\ wpc = "drop"
  /\ dropped' = IF Overwrites THEN Plus(dropped, 1) ELSE dropped
  /\ wpc' = "publish"
  /\ UNCHANGED <<head, tail, slots, fw, boots, whead, wtail, resetting, da,
                 lock, readerVars, histVars>>

\* head counts slots, not entries.
PublishWrapped ==
  /\ wpc = "publish"
  /\ head' = (whead + 1) % Entries
  /\ written' = written + 1
  /\ fw' = IF resetting THEN "reset" ELSE fw
  /\ resetting' = FALSE
  /\ wpc' = "idle"
  /\ UNCHANGED <<tail, dropped, slots, boots, whead, wtail, da, lock,
                 readerVars, lost, crossed>>

\* head last; RESET then forgets where the ring is.
Publish ==
  /\ wpc = "publish"
  /\ head' = Plus(whead, 1)
  /\ written' = written + 1
  /\ fw' = IF resetting THEN "reset" ELSE fw
  /\ resetting' = FALSE
  /\ wpc' = "idle"
  /\ UNCHANGED <<tail, dropped, slots, boots, whead, wtail, da, lock,
                 readerVars, lost, crossed>>

-----------------------------------------------------------------------------
(***************************************************************************)
(* A boot: the loader clears the ring, the device verifies the header, the *)
(* driver learns the address.                                              *)
(***************************************************************************)
Load ==
  /\ fw = "reset"
  /\ boots < MaxBoots
  /\ boots' = boots + 1
  /\ head' = 0 /\ tail' = 0 /\ dropped' = 0
  /\ slots' = [i \in Slots |-> Clear]
  /\ fw' = "loaded"
  /\ written' = 0 /\ lost' = 0
  /\ crossed' = \E r \in Readers : rpc[r] # "idle"
  /\ UNCHANGED <<writerVars, da, lock, readerVars>>

Verify ==
  /\ fw = "loaded"
  /\ fw' = "up"
  /\ UNCHANGED <<ringVars, boots, writerVars, da, lock, readerVars, histVars>>

Start ==
  /\ fw = "up" /\ ~da
  /\ da' = TRUE
  /\ UNCHANGED <<ringVars, fw, boots, writerVars, lock, readerVars, histVars>>

-----------------------------------------------------------------------------
(***************************************************************************)
(* The driver: velocitor_dtrace_debugfs_open().                            *)
(***************************************************************************)
Goto(r, label) == rpc' = [rpc EXCEPT ![r] = label]

MayOpen == lock = Nobody

\* Without an address the open answers ENODEV and changes nothing.
OpenLock(r) ==
  /\ rpc[r] = "idle"
  /\ MayOpen
  /\ da
  /\ lock' = r
  /\ Goto(r, "head")
  /\ UNCHANGED <<ringVars, fw, boots, writerVars, da, rhead, rtail, rskip,
                 rdropped, copied, histVars>>

ReadHead(r) ==
  /\ rpc[r] = "head"
  /\ rhead' = [rhead EXCEPT ![r] = head]
  /\ Goto(r, "tail")
  /\ UNCHANGED <<ringVars, fw, boots, writerVars, da, lock, rtail, rskip,
                 rdropped, copied, histVars>>

ReadTail(r) ==
  /\ rpc[r] = "tail"
  /\ rtail' = [rtail EXCEPT ![r] = tail]
  /\ Goto(r, "dropped")
  /\ UNCHANGED <<ringVars, fw, boots, writerVars, da, lock, rhead, rskip,
                 rdropped, copied, histVars>>

ReadDropped(r) ==
  /\ rpc[r] = "dropped"
  /\ rdropped' = [rdropped EXCEPT ![r] = dropped]
  /\ Goto(r, "alloc")
  /\ UNCHANGED <<ringVars, fw, boots, writerVars, da, lock, rhead, rtail,
                 rskip, copied, histVars>>

Unread(r) == Minus(rhead[r], rtail[r])
Count(r)  == IF Unread(r) < Entries THEN Unread(r) ELSE Entries

\* What has been overwritten is skipped.
Resync(r) ==
  /\ rtail' = [rtail EXCEPT ![r] = Minus(rhead[r], Count(r))]
  /\ rskip' = [rskip EXCEPT ![r] = Unread(r) - Count(r)]

OpenAlloc(r) ==
  /\ rpc[r] = "alloc"
  /\ Resync(r)
  /\ Goto(r, IF Count(r) = 0 THEN "advance" ELSE "stamp")
  /\ UNCHANGED <<ringVars, fw, boots, writerVars, da, lock, rhead, rdropped,
                 copied, histVars>>

CopyStamp(r) ==
  LET i == Plus(rtail[r], Len(copied[r])) IN
  /\ rpc[r] = "stamp"
  /\ copied' = [copied EXCEPT ![r] =
                  Append(@, [stamp |-> slots[Slot(i)].stamp, msg |-> Blank])]
  /\ Goto(r, "msg")
  /\ UNCHANGED <<ringVars, fw, boots, writerVars, da, lock, rhead, rtail, rskip,
                 rdropped, histVars>>

CopyMsg(r) ==
  LET n == Len(copied[r])
      i == Plus(rtail[r], n - 1)
  IN /\ rpc[r] = "msg"
     /\ copied' = [copied EXCEPT ![r][n].msg = slots[Slot(i)].msg]
     /\ Goto(r, IF n = Minus(rhead[r], rtail[r]) THEN "advance" ELSE "stamp")
     /\ UNCHANGED <<ringVars, fw, boots, writerVars, da, lock, rhead, rtail,
                    rskip, rdropped, histVars>>

\* The call returns: what it read is forgotten here.
Return(r) ==
  /\ lock' = Nobody
  /\ Goto(r, "idle")
  /\ rhead' = [rhead EXCEPT ![r] = 0] /\ rtail' = [rtail EXCEPT ![r] = 0]
  /\ rskip' = [rskip EXCEPT ![r] = 0] /\ rdropped' = [rdropped EXCEPT ![r] = 0]
  /\ copied' = [copied EXCEPT ![r] = <<>>]

\* kvmalloc() or single_open() fails.
OpenFails(r) ==
  /\ rpc[r] = "alloc"
  /\ Return(r)
  /\ UNCHANGED <<ringVars, fw, boots, writerVars, da, histVars>>

\* tail moves to the head that was read, once.
OpenAdvance(r) ==
  /\ rpc[r] = "advance"
  /\ tail' = rhead[r]
  /\ Return(r)
  /\ UNCHANGED <<head, dropped, slots, fw, boots, writerVars, da, histVars>>

Open(r) ==
  \/ OpenLock(r) \/ ReadHead(r) \/ ReadTail(r) \/ ReadDropped(r)
  \/ OpenAlloc(r) \/ OpenFails(r) \/ CopyStamp(r) \/ CopyMsg(r)
  \/ OpenAdvance(r)

Next ==
  \/ TraceBegin \/ WriteStamp \/ WriteMsg \/ CountDropped \/ Publish
  \/ Load \/ Verify \/ Start
  \/ \E r \in Readers : Open(r)

Spec == Init /\ [][Next]_vars

-----------------------------------------------------------------------------
(***************************************************************************)
(* Properties.                                                             *)
(***************************************************************************)

\* The device has begun to overwrite entry i.
Lapped(i) ==
  \/ written > i + Entries
  \/ written = i + Entries /\ wpc \in {"msg", "drop", "publish"}

\* "Published last: the entry is complete before it is announced"
\* (velocitor_trace), and free-running counters wrap by themselves
\* (specification, section 6.6): the last entries published are complete in
\* the slots the driver computes for them from head.
RingHolds ==
  \A k \in 1 .. Entries : LET i == written - k IN
    i >= 0 /\ ~Lapped(i) =>
      slots[Slot(Minus(head, k))] = [stamp |-> i, msg |-> i]

\* What a read returned so far: entry k is the one its index names, in whole,
\* unless the device has caught up with its slot meanwhile.
CopiedOrLapped ==
  ~crossed => \A r \in Readers : \A k \in 1 .. Len(copied[r]) :
    LET i == rtail[r] + k - 1
        c == copied[r][k]
    IN \/ Lapped(i)
       \/ c.stamp = i /\ (c.msg = i \/ (k = Len(copied[r]) /\ rpc[r] = "msg"))

\* "What debugfs renders is this snapshot" of the unread entries
\* (specification, section 6.6).  The driver makes sure before the copy that
\* the entries are there, and not after it.
SnapshotFaithful ==
  \A r \in Readers : rpc[r] = "advance" /\ ~crossed =>
    \A k \in 1 .. Len(copied[r]) :
      copied[r][k] = [stamp |-> rtail[r] + k - 1, msg |-> rtail[r] + k - 1]

\* No silent overwrite: the driver's cursor is not ahead of what was written,
\* and every entry overwritten unread is in dropped, or about to be counted.
\* Only an open that began before a reboot can break this.
LossCounted ==
  ~crossed =>
    /\ tail <= written
    /\ lost <= dropped + (IF wpc \in {"msg", "drop"} /\ Overwrites THEN 1 ELSE 0)

\* The counters "count entries since the start" (specification, section 6.6):
\* the driver has not read more than was written.  A read that began before a
\* reboot ends by writing its old head into the new ring.
TailBehindHead == tail <= written
=============================================================================
