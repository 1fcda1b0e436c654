------------------------------ MODULE Counters ------------------------------
(***************************************************************************)
(* The performance counters: the live values the device increments, the    *)
(* snapshot that reads answer from, and the driver's readers and resets.   *)
(*                                                                         *)
(* Source: module/src/counters.c; qemu-device/velocitor.c (CNT_SNAP,       *)
(* CNT_RESET, the read path, velocitor_data_charge, velocitor_vq_host_read,*)
(* the debug DMA).                                                         *)
(*                                                                         *)
(* Atomicity.  A register access is a step; a request is served in one,    *)
(* since the device holds one lock for both.  Of the twenty counters the   *)
(* model keeps those that are related to each other.                       *)
(***************************************************************************)
EXTENDS Integers, Sequences

CONSTANTS
  Readers,    \* threads that read the file counters
  Resetters,  \* callers of velocitor_counters_reset()
  Penalty,    \* VEL_FAR_PENALTY; a near copy costs 1 (VEL_CYCLES_COPY)
  Transport,  \* host reads a request costs besides its payload
  Word,       \* 2^32: where a counter wraps
  MaxLen,     \* bound: longest payload
  MaxOps,     \* bound: how many requests and debug transfers
  MaxCalls    \* bound: how many reads and resets

ASSUME SizeAssumption == /\ Penalty \in Nat /\ Transport \in Nat
                         /\ Word \in Nat \ {0} /\ MaxLen \in Nat \ {0}
                         /\ MaxOps \in Nat /\ MaxCalls \in Nat

Threads == Readers \cup Resetters

\* The order in which velocitor_counters_read() reads.
Order == <<"desc", "dma_rd", "bytes_lo", "bytes_hi", "far", "cycles">>

Regs == {Order[i] : i \in DOMAIN Order}
Zero == [r \in Regs |-> 0]

VARIABLES
  cnt,      \* s->cnt
  snap,     \* s->cnt_snap
  cntLock,  \* threads that hold device->counters.lock
  tpc,      \* where each thread is
  got,      \* struct counters of each reader, as far as it is filled
  seen,     \* history: values cnt had since each reader's last call began
  payload,  \* history: payload operations and bytes since the last reset
  ops,      \* bound: requests and debug transfers
  calls     \* bound: reads and resets begun

drvVars      == <<cntLock, tpc, got, calls>>
countersVars == <<cnt, snap, seen, payload, ops, drvVars>>

CountersTypeOK ==
  /\ cnt \in [Regs -> 0 .. Word - 1] /\ snap \in [Regs -> 0 .. Word - 1]
  /\ cntLock \subseteq Threads
  /\ tpc \in [Threads -> {"idle", "lock", "act", "read", "wild"}]
  /\ \A t \in Readers : Len(got[t]) <= Len(Order)

CountersInit ==
  /\ cnt = Zero /\ snap = Zero /\ cntLock = {}
  /\ tpc = [t \in Threads |-> "idle"]
  /\ got = [t \in Readers |-> <<>>]
  /\ seen = [t \in Readers |-> {Zero}]
  /\ payload = [ops |-> 0, bytes |-> 0]
  /\ ops = 0 /\ calls = 0

-----------------------------------------------------------------------------
(***************************************************************************)
(* The device.                                                             *)
(***************************************************************************)

\* A 32-bit counter goes up, and wraps.
Add(c, r, n) == [c EXCEPT ![r] = (@ + n) % Word]

\* Every call in progress sees the new values.
Count(c) ==
  /\ cnt' = c
  /\ seen' = [t \in Readers |-> IF tpc[t] = "idle" THEN seen[t] ELSE seen[t] \cup {c}]

Account(n, bytes) ==
  payload' = [ops |-> payload.ops + n, bytes |-> payload.bytes + bytes]

\* velocitor_vq_host_read() counts an operation and its bytes, whether it is
\* for a ring, a descriptor, a header or a payload; nothing carries into the
\* high half.
HostReads(c, n, bytes) == Add(Add(c, "dma_rd", n), "bytes_lo", bytes)

\* velocitor_data_charge(): a far copy costs the penalty.
Charge(c, far) ==
  IF far THEN Add(Add(c, "far", 1), "cycles", Penalty) ELSE Add(c, "cycles", 1)

\* A copy is served from its head to its answer.  COPY_H2D reads its payload
\* from the host.
Serve(h2d, far, len) ==
  /\ ops < MaxOps
  /\ ops' = ops + 1
  /\ LET n == IF h2d THEN 1 ELSE 0 IN
     /\ Count(Charge(HostReads(Add(cnt, "desc", 1), Transport + n,
                               Transport + n * len), far))
     /\ Account(n, n * len)
  /\ UNCHANGED <<snap, drvVars>>

\* A copy that is refused (stale, unknown handle, out of bounds) has been read,
\* and is answered without a transfer or a charge.
Refuse ==
  /\ ops < MaxOps
  /\ ops' = ops + 1
  /\ Count(HostReads(Add(cnt, "desc", 1), Transport, Transport))
  /\ UNCHANGED <<snap, payload, drvVars>>

\* The debug DMA from the host.
DebugDma(len) ==
  /\ ops < MaxOps
  /\ ops' = ops + 1
  /\ Count(HostReads(cnt, 1, len))
  /\ Account(1, len)
  /\ UNCHANGED <<snap, drvVars>>

-----------------------------------------------------------------------------
(***************************************************************************)
(* The driver.                                                             *)
(***************************************************************************)

ThreadGoto(t, label) == tpc' = [tpc EXCEPT ![t] = label]

Call(t) ==
  /\ tpc[t] = "idle" /\ calls < MaxCalls
  /\ calls' = calls + 1
  /\ ThreadGoto(t, "lock")
  /\ IF t \in Readers
       THEN /\ seen' = [seen EXCEPT ![t] = {cnt}]
            /\ got' = [got EXCEPT ![t] = <<>>]
       ELSE UNCHANGED <<seen, got>>
  /\ UNCHANGED <<cnt, snap, payload, ops, cntLock>>

\* Nobody waits for the lock.
LockIgnored == TRUE

\* mutex_lock() returns.
LockFree == cntLock = {}

Acquire(t) ==
  /\ tpc[t] = "lock" /\ LockFree
  /\ cntLock' = cntLock \cup {t}
  /\ ThreadGoto(t, "act")
  /\ UNCHANGED <<cnt, snap, seen, payload, ops, got, calls>>

\* velocitor_counters_read(): CNT_SNAP freezes every counter at once.
Snapshot(t) ==
  /\ t \in Readers /\ tpc[t] = "act"
  /\ snap' = cnt
  /\ ThreadGoto(t, "read")
  /\ UNCHANGED <<cnt, seen, payload, ops, cntLock, got, calls>>

\* The next register answers from the snapshot.
ReadNext(t) ==
  /\ tpc[t] = "read" /\ Len(got[t]) < Len(Order)
  /\ got' = [got EXCEPT ![t] = Append(@, snap[Order[Len(@) + 1]])]
  /\ UNCHANGED <<cnt, snap, seen, payload, ops, cntLock, tpc, calls>>

ReadDone(t) ==
  /\ tpc[t] = "read" /\ Len(got[t]) = Len(Order)
  /\ cntLock' = cntLock \ {t}
  /\ ThreadGoto(t, "idle")
  /\ UNCHANGED <<cnt, snap, seen, payload, ops, got, calls>>

\* velocitor_counters_reset() of a device: CNT_RESET clears both copies.
Reset(t) ==
  /\ t \in Resetters /\ tpc[t] = "act"
  /\ Count(Zero)
  /\ snap' = Zero
  /\ payload' = [ops |-> 0, bytes |-> 0]
  /\ cntLock' = cntLock \ {t}
  /\ ThreadGoto(t, "idle")
  /\ UNCHANGED <<ops, got, calls>>

\* The file counters_reset: it passes the struct pci_dev where the function
\* takes the device, so neither the lock nor the register is the card's.  What
\* follows is undefined; the thread goes no further.
DebugfsReset(t) ==
  /\ t \in Resetters /\ tpc[t] = "idle" /\ calls < MaxCalls
  /\ calls' = calls + 1
  /\ ThreadGoto(t, "wild")
  /\ UNCHANGED <<cnt, snap, seen, payload, ops, cntLock, got>>

-----------------------------------------------------------------------------
CountersNext ==
  \/ \E h2d, far \in BOOLEAN, len \in 1 .. MaxLen : Serve(h2d, far, len)
  \/ Refuse
  \/ \E len \in 1 .. MaxLen : DebugDma(len)
  \/ \E t \in Threads : Call(t) \/ Acquire(t) \/ Snapshot(t) \/ Reset(t)
  \/ \E t \in Readers : ReadNext(t) \/ ReadDone(t)
  \/ \E t \in Resetters : DebugfsReset(t)

CountersSpec == CountersInit /\ [][CountersNext]_countersVars

-----------------------------------------------------------------------------
(***************************************************************************)
(* Properties.                                                             *)
(***************************************************************************)

\* What a reader returns is what the counters were at one instant of its call,
\* all of them at the same one, whatever the engines, other readers and resets
\* do between its twenty register reads.
OneInstant ==
  \A t \in Readers :
    tpc[t] = "idle" /\ got[t] # <<>> =>
      \E c \in seen[t] : \A i \in DOMAIN Order : got[t][i] = c[Order[i]]

\* Stated by the device specification, section 4.5: the DMA counters count
\* payload operations, never the fetch of descriptors or headers.
CountsPayload == cnt["dma_rd"] = payload.ops % Word

\* Stated by the device specification, section 4.5: the two halves of the byte
\* counter are one number.  Without the transport's bytes (Transport = 0) the
\* low half wraps and the high half stays.
BytesCarry == cnt["bytes_hi"] * Word + cnt["bytes_lo"] = payload.bytes

\* A write to counters_reset reaches the card.
ResetReachesCard == \A t \in Resetters : tpc[t] # "wild"
=============================================================================
