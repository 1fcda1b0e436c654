---------------------------- MODULE SlidingWindow ----------------------------
(***************************************************************************)
(* The sliding window over device memory: the device takes a new base only *)
(* when the register is read back, the driver moves the window under a     *)
(* lock and copies a read out of as many windows as it spans.              *)
(*                                                                         *)
(* Source: velocitor_window_promote, _write_base, _mem_fill_pattern of     *)
(* qemu-device/velocitor.c; module/src/window.c.                           *)
(*                                                                         *)
(* Atomicity.  One access to WIN_BASE is a step, and so is the copy out of *)
(* one window.  What a byte of device memory holds is its own address, as  *)
(* velocitor_mem_fill_pattern() has it for words.                          *)
(***************************************************************************)
EXTENDS Integers, Sequences

CONSTANTS
  MemReaders,  \* processes that read the debugfs file "mem"
  WindowSize,  \* VEL_WINDOW_SIZE
  Windows,     \* VEL_MEM_SIZE / VEL_WINDOW_SIZE
  PageSize,    \* PAGE_SIZE, the most one read returns
  MaxInjects   \* bound: times bit 6 of ERR_INJECT is set

ASSUME WindowAssumption ==
  /\ WindowSize \in Nat \ {0} /\ Windows \in Nat \ {0}
  /\ PageSize \in Nat \ {0} /\ MaxInjects \in Nat
  /\ "nobody" \notin MemReaders

MemSize   == Windows * WindowSize
Addresses == 0 .. MemSize - 1
Bases     == {w * WindowSize : w \in 0 .. Windows - 1}

\* Behind the end of BAR2 every byte reads as all ones.
Unmapped == -1

VARIABLES
  winPending, winBase,  \* the device: base written, base in effect
  winIgnore,            \* bit 6 of ERR_INJECT
  base,                 \* device->window.base, the driver's copy
  winLock,              \* who holds device->window.lock
  pc,                   \* velocitor_window_read(), by reader
  offset, size,         \* what was asked for
  window,               \* the window the reader is at
  dst,                  \* what it has copied
  injects, failures     \* history: bits set, reads that ended in EIO

deviceVars == <<winPending, winBase, winIgnore>>
readerVars == <<pc, offset, size, window, dst>>
windowVars == <<deviceVars, base, winLock, readerVars, injects, failures>>

Nobody == "nobody"

DeviceType ==
  /\ winPending \in Bases /\ winBase \in Bases /\ winIgnore \in BOOLEAN
  /\ base \in Bases
  /\ injects \in 0 .. MaxInjects /\ failures \in Nat

ReaderType ==
  /\ winLock \in MemReaders \cup {Nobody}
  /\ pc \in [MemReaders -> {"idle", "write", "readback", "copy", "done"}]
  /\ offset \in [MemReaders -> Addresses]
  /\ size \in [MemReaders -> 0 .. PageSize]
  /\ window \in [MemReaders -> Bases]
  /\ dst \in [MemReaders -> Seq(Addresses \cup {Unmapped})]

WindowTypeOK == DeviceType /\ ReaderType

WindowInit ==
  /\ winPending = 0 /\ winBase = 0 /\ winIgnore = FALSE
  /\ base = 0 /\ winLock = Nobody
  /\ pc = [r \in MemReaders |-> "idle"]
  /\ offset = [r \in MemReaders |-> 0] /\ size = [r \in MemReaders |-> 0]
  /\ window = [r \in MemReaders |-> 0]
  /\ dst = [r \in MemReaders |-> <<>>]
  /\ injects = 0 /\ failures = 0

-----------------------------------------------------------------------------
(***************************************************************************)
(* The device.                                                             *)
(***************************************************************************)

\* The injected fault stays armed.
WriteBaseStillArmed(b) ==
  /\ winPending' = IF winIgnore \/ b \notin Bases THEN winPending ELSE b
  /\ winIgnore' = winIgnore

\* A write of WIN_BASE: swallowed if bit 6 is set, which clears the bit;
\* ignored unless it is aligned and in range.
WriteBase(b) ==
  /\ winPending' = IF winIgnore \/ b \notin Bases THEN winPending ELSE b
  /\ winIgnore' = FALSE

\* A read of WIN_BASE is what moves the window.
Promote == winBase' = winPending

\* debugfs inject_error with bit 6, or without it.
Inject ==
  \/ /\ injects < MaxInjects
     /\ winIgnore' = TRUE /\ injects' = injects + 1
     /\ UNCHANGED <<winPending, winBase, base, winLock, readerVars, failures>>
  \/ /\ winIgnore /\ winIgnore' = FALSE
     /\ UNCHANGED <<winPending, winBase, base, winLock, readerVars, injects,
                    failures>>

-----------------------------------------------------------------------------
(***************************************************************************)
(* The driver.                                                             *)
(***************************************************************************)
SeekGoto(r, label) == pc' = [pc EXCEPT ![r] = label]

AlignDown(a) == (a \div WindowSize) * WindowSize
Least(a, b)  == IF a < b THEN a ELSE b

\* velocitor_window_debugfs_read(): at or past the end of memory there is
\* nothing to read, and no more than a page is read at once.
ReadBegin(r, a, len) ==
  /\ pc[r] = "idle"
  /\ a < MemSize
  /\ offset' = [offset EXCEPT ![r] = a]
  /\ size' = [size EXCEPT ![r] = Least(Least(len, MemSize - a), PageSize)]
  /\ window' = [window EXCEPT ![r] = AlignDown(a)]
  /\ dst' = [dst EXCEPT ![r] = <<>>]
  /\ SeekGoto(r, "write")
  /\ UNCHANGED <<deviceVars, base, winLock, injects, failures>>

\* The lock is taken before the first seek and kept until the read ends.
MayMove(r) == winLock \in {r, Nobody}

SeekWrite(r) ==
  /\ pc[r] = "write"
  /\ MayMove(r)
  /\ winLock' = r
  /\ WriteBase(window[r])
  /\ SeekGoto(r, "readback")
  /\ UNCHANGED <<winBase, base, offset, size, window, dst, injects, failures>>

\* The window is where the device says it is; anything else is EIO.
SeekReadBack(r) ==
  /\ pc[r] = "readback"
  /\ Promote
  /\ base' = winBase'
  /\ \/ /\ winBase' = window[r]
        /\ SeekGoto(r, "copy") /\ UNCHANGED <<winLock, failures>>
     \/ /\ winBase' # window[r]
        /\ SeekGoto(r, "idle") /\ winLock' = Nobody /\ failures' = failures + 1
  /\ UNCHANGED <<winPending, winIgnore, offset, size, window, dst, injects>>

\* Where in the window the next bytes are, and how many of them it has: the
\* first window is entered at the offset, the others at their start.
First(r) == window[r] = AlignDown(offset[r])
Skip(r)  == IF First(r) THEN offset[r] - window[r] ELSE 0

\* The first chunk runs on past the end of its window.
ChunkPastEnd(r) ==
  IF First(r) THEN Least(size[r], WindowSize)
              ELSE Least(size[r] - Len(dst[r]), WindowSize)

Chunk(r) ==
  IF First(r) THEN Least(size[r], WindowSize + window[r] - offset[r])
              ELSE Least(size[r] - Len(dst[r]), WindowSize)

\* The window ends BAR2.
Byte(i)  == IF i < WindowSize THEN winBase + i ELSE Unmapped

CopyWindow(r) ==
  LET all == dst[r] \o [i \in 1 .. Chunk(r) |-> Byte(Skip(r) + i - 1)]
  IN /\ pc[r] = "copy"
     /\ dst' = [dst EXCEPT ![r] = all]
     /\ \/ /\ Len(all) < size[r]
           /\ window' = [window EXCEPT ![r] = @ + WindowSize]
           /\ SeekGoto(r, "write")
           /\ UNCHANGED winLock
        \/ /\ Len(all) >= size[r]
           /\ winLock' = Nobody
           /\ SeekGoto(r, "done")
           /\ UNCHANGED window
     /\ UNCHANGED <<deviceVars, base, offset, size, injects, failures>>

\* copy_to_user() and the return.
ReadEnd(r) ==
  /\ pc[r] = "done"
  /\ SeekGoto(r, "idle")
  /\ UNCHANGED <<deviceVars, base, winLock, offset, size, window, dst, injects,
                 failures>>

Read(r) ==
  \/ \E a \in 0 .. MemSize, len \in 0 .. PageSize + 1 : ReadBegin(r, a, len)
  \/ SeekWrite(r) \/ SeekReadBack(r) \/ CopyWindow(r) \/ ReadEnd(r)

WindowNext == Inject \/ \E r \in MemReaders : Read(r)

WindowSpec == WindowInit /\ [][WindowNext]_windowVars

-----------------------------------------------------------------------------
(***************************************************************************)
(* Properties.                                                             *)
(***************************************************************************)

\* Reads do not lie: whatever other readers do and whichever writes of
\* WIN_BASE the device swallows, the bytes a read has copied are those at its
\* offset, in order, and a read that ends without an error has all of them.
ReadsRequested ==
  \A r \in MemReaders : pc[r] # "idle" =>
    /\ \A i \in 1 .. Len(dst[r]) : dst[r][i] = offset[r] + i - 1
    /\ pc[r] = "done" => Len(dst[r]) = size[r]

\* "A driver that compares its read-back recovers on the next attempt"
\* (velocitor_window_write_base): an injected fault fails at most one read.
FaultsAreTransient == failures + (IF winIgnore THEN 1 ELSE 0) <= injects
=============================================================================
