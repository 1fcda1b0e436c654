----------------------------- MODULE ErrorBlock -----------------------------
(***************************************************************************)
(* The qualified-error registers, the handler of the error vector that     *)
(* reads them, and the bring-up DMA that reports through them.             *)
(*                                                                         *)
(* Source: velocitor_raise, _error_qualify, _dma_fail, _dma_run,           *)
(* _dma_start, _reset_write of qemu-device/velocitor.c; irq_error_event of *)
(* module/src/irq.c, module/src/error.c, module/src/dma.c.                 *)
(*                                                                         *)
(* Atomicity.  The device runs one handler at a time, so what qualifies    *)
(* and raises an error is one step.  The driver reads the block one        *)
(* register at a time: ERR_CODE, then the others.  The device writes those *)
(* together, so one errInfo stands for them.  An error is its number, and  *)
(* an injected crash, which has no place in the block, has one too.        *)
(***************************************************************************)
EXTENDS Integers, FiniteSets

CONSTANTS
  Callers,    \* threads in velocitor_dma_dbg_()
  NFields,    \* registers of the block read after ERR_CODE
  MaxErrors   \* bound: errors qualified, crashes included

ASSUME ErrorAssumption == /\ MaxErrors \in Nat /\ NFields \in Nat \ {0}
                          /\ "nobody" \notin Callers

None == 0
Ids  == 1 .. MaxErrors

VARIABLES
  errCode, errInfo,   \* the block: whose code, whose other fields
  errDropped,         \* ERR_DROPPED
  latch,              \* bit 5 of IRQ_STATUS
  irq,                \* a message of vector 5 waits for its handler
  errors,             \* errors so far
  hpc, left,          \* irq_error_event(): where it is, registers yet to read
  gotCode, gotInfo,   \* the code it has read; whose fields it has read
  dmaAddr, dmaLen,    \* DBG_DMA_ADDR and DBG_DMA_DEV/LEN: whose they are
  dmaStatus,          \* DBG_DMA_STATUS
  dmaTimer,           \* s->dma_timer is armed
  inReset,            \* RESET is asserted
  dbgLock, cpc,       \* device->dma.dbg_lock; velocitor_dma_dbg_(), by caller
  hLatched, cause,    \* history: latch when the handler began; what raised it
  stored, reported,   \* history: raised errors in the block; reported in whole
  xfer,               \* history: the registers the transfer ran with
  late, cut           \* history: a call timed out; RESET met a transfer in flight

blockVars   == <<errCode, errInfo, errDropped, latch, irq, errors, cause, stored>>
handlerVars == <<hpc, left, gotCode, gotInfo, hLatched, reported>>
dmaVars     == <<dmaAddr, dmaLen, dmaStatus, dmaTimer, xfer, cut>>
callerVars  == <<dbgLock, cpc, late>>
errorVars   == <<blockVars, handlerVars, dmaVars, inReset, callerVars>>

NoCaller == "nobody"
Owners == Callers \cup {NoCaller}

BlockType ==
  /\ errCode \in Ids \cup {None} /\ errInfo \in Ids \cup {None}
  /\ errDropped \in 0 .. MaxErrors
  /\ latch \in BOOLEAN /\ irq \in BOOLEAN /\ errors \in 0 .. MaxErrors
  /\ cause \in Ids \cup {None} /\ stored \subseteq Ids

HandlerType ==
  /\ hpc \in {"idle", "info", "ack", "report"}
  /\ left \in 0 .. NFields
  /\ gotCode \in Ids \cup {None} /\ gotInfo \subseteq Ids \cup {None}
  /\ hLatched \in BOOLEAN /\ reported \subseteq Ids

TransferType ==
  /\ dmaAddr \in Owners /\ dmaLen \in Owners
  /\ dmaStatus \in {"idle", "busy", "done", "error"}
  /\ dmaTimer \in BOOLEAN /\ inReset \in BOOLEAN
  /\ dbgLock \in Owners
  /\ cpc \in [Callers -> {"idle", "addr", "len", "ctl", "poll", "code"}]
  /\ xfer \in Owners \X Owners
  /\ late \in BOOLEAN /\ cut \in BOOLEAN

ErrorTypeOK == BlockType /\ HandlerType /\ TransferType

ErrorInit ==
  /\ errCode = None /\ errInfo = None /\ errDropped = 0
  /\ latch = FALSE /\ irq = FALSE /\ errors = 0
  /\ hpc = "idle" /\ left = 0 /\ gotCode = None /\ gotInfo = {}
  /\ dmaAddr = NoCaller /\ dmaLen = NoCaller
  /\ dmaStatus = "idle" /\ dmaTimer = FALSE
  /\ inReset = TRUE
  /\ dbgLock = NoCaller /\ cpc = [c \in Callers |-> "idle"]
  /\ hLatched = FALSE /\ cause = None /\ stored = {} /\ reported = {}
  /\ xfer = <<NoCaller, NoCaller>> /\ late = FALSE /\ cut = FALSE

-----------------------------------------------------------------------------
(***************************************************************************)
(* The device: errors.                                                     *)
(***************************************************************************)
NewError == errors < MaxErrors /\ errors' = errors + 1

\* While vector 5 is not acknowledged a new error is only counted.
Qualify ==
  IF latch
  THEN /\ errDropped' = errDropped + 1
       /\ UNCHANGED <<errCode, errInfo>>
  ELSE /\ errCode' = errors' /\ errInfo' = errors'
       /\ UNCHANGED errDropped

\* The latch goes up and the message is sent.
Raise ==
  /\ latch' = TRUE /\ irq' = TRUE
  /\ cause' = IF latch THEN cause ELSE errors'

\* An error that is fatal: a bad descriptor, an address out of reach, a bad
\* firmware header, an unreadable resource table.
Fatal ==
  /\ NewError /\ Qualify /\ Raise
  /\ stored' = IF latch THEN stored ELSE stored \cup {errors'}
  /\ UNCHANGED <<handlerVars, dmaVars, inReset, callerVars>>

\* An error that goes into the block and into the reply of its command.
Synchronous ==
  /\ NewError /\ Qualify
  /\ UNCHANGED <<latch, irq, cause, stored, handlerVars, dmaVars, inReset,
                 callerVars>>

\* ERR_INJECT bit 2 raises the vector and qualifies nothing.
Crash ==
  /\ NewError
  /\ UNCHANGED <<errCode, errInfo, errDropped>>
  /\ Raise
  /\ UNCHANGED <<stored, handlerVars, dmaVars, inReset, callerVars>>

-----------------------------------------------------------------------------
(***************************************************************************)
(* The driver: irq_error_event().                                          *)
(***************************************************************************)

\* The vector is acknowledged before the block is read.
HandleBeginAcks ==
  /\ irq /\ hpc = "idle"
  /\ irq' = FALSE /\ hLatched' = latch /\ latch' = FALSE
  /\ gotCode' = errCode /\ gotInfo' = {}
  /\ hpc' = "info" /\ left' = NFields
  /\ UNCHANGED <<errCode, errInfo, errDropped, errors, cause, stored, reported,
                 dmaVars, inReset, callerVars>>

HandleBegin ==
  /\ irq /\ hpc = "idle"
  /\ irq' = FALSE /\ hLatched' = latch
  /\ gotCode' = errCode /\ gotInfo' = {}
  /\ hpc' = "info" /\ left' = NFields
  /\ UNCHANGED <<errCode, errInfo, errDropped, latch, errors, cause, stored,
                 reported, dmaVars, inReset, callerVars>>

\* ERR_INFO_LO to ERR_GENERATION, one after the other.
HandleInfo ==
  /\ hpc = "info"
  /\ gotInfo' = gotInfo \cup {errInfo}
  /\ left' = left - 1
  /\ hpc' = IF left = 1 THEN "ack" ELSE "info"
  /\ UNCHANGED <<blockVars, gotCode, hLatched, reported, dmaVars, inReset,
                 callerVars>>

HandleAck ==
  /\ hpc = "ack"
  /\ latch' = FALSE
  /\ hpc' = "report"
  /\ UNCHANGED <<errCode, errInfo, errDropped, irq, errors, cause, stored, left,
                 gotCode, gotInfo, hLatched, reported, dmaVars, inReset,
                 callerVars>>

\* The trace event, and rproc_report_crash().
HandleReport ==
  /\ hpc = "report"
  /\ reported' = IF gotInfo = {gotCode} THEN reported \cup ({gotCode} \ {None})
                                        ELSE reported
  /\ hpc' = "idle" /\ gotCode' = None /\ gotInfo' = {} /\ hLatched' = FALSE
  /\ UNCHANGED <<blockVars, left, dmaVars, inReset, callerVars>>

-----------------------------------------------------------------------------
(***************************************************************************)
(* The device: the bring-up DMA.                                           *)
(***************************************************************************)

\* The status of the transfer before stays in the register.
DmaStartQuiet ==
  /\ errCode' = None
  /\ dmaTimer' = TRUE
  /\ xfer' = <<NoCaller, NoCaller>> /\ cut' = FALSE
  /\ UNCHANGED dmaStatus

\* A write of DBG_DMA_CTL clears ERR_CODE and arms the timer.
DmaStart ==
  /\ errCode' = None
  /\ dmaStatus' = "busy"
  /\ dmaTimer' = TRUE
  /\ xfer' = <<NoCaller, NoCaller>> /\ cut' = FALSE

\* The timer: the transfer runs with what the registers hold now, or fails and
\* qualifies an error without raising the vector.
DmaRun ==
  /\ dmaTimer
  /\ dmaTimer' = FALSE
  /\ xfer' = <<dmaAddr, dmaLen>>
  /\ \/ dmaStatus' = "done" /\ UNCHANGED <<errors, errCode, errInfo, errDropped>>
     \/ dmaStatus' = "error" /\ NewError /\ Qualify
  /\ UNCHANGED <<latch, irq, cause, stored, handlerVars, dmaAddr, dmaLen, cut,
                 inReset, callerVars>>

\* RESET: the boot timer and the queues are dealt with, the transfer is not.
ResetWrite ==
  /\ inReset' = ~inReset
  /\ cut' = (cut \/ (dmaTimer /\ inReset'))
  /\ UNCHANGED <<blockVars, handlerVars, dmaAddr, dmaLen, dmaStatus, dmaTimer,
                 xfer, callerVars>>

-----------------------------------------------------------------------------
(***************************************************************************)
(* The driver: velocitor_dma_dbg_().                                       *)
(***************************************************************************)
DbgGoto(c, label) == cpc' = [cpc EXCEPT ![c] = label]

\* A call that does not take the lock.
MayEnterUnlocked == TRUE

MayEnter == dbgLock = NoCaller

DbgLock(c) ==
  /\ cpc[c] = "idle"
  /\ MayEnter
  /\ dbgLock' = c /\ DbgGoto(c, "addr")
  /\ UNCHANGED <<blockVars, handlerVars, dmaVars, inReset, late>>

DbgAddr(c) ==
  /\ cpc[c] = "addr"
  /\ dmaAddr' = c /\ DbgGoto(c, "len")
  /\ UNCHANGED <<blockVars, handlerVars, dmaLen, dmaStatus, dmaTimer, xfer, cut,
                 inReset, dbgLock, late>>

DbgLen(c) ==
  /\ cpc[c] = "len"
  /\ dmaLen' = c /\ DbgGoto(c, "ctl")
  /\ UNCHANGED <<blockVars, handlerVars, dmaAddr, dmaStatus, dmaTimer, xfer, cut,
                 inReset, dbgLock, late>>

DbgCtl(c) ==
  /\ cpc[c] = "ctl"
  /\ DmaStart
  /\ DbgGoto(c, "poll")
  /\ UNCHANGED <<errInfo, errDropped, latch, irq, errors, cause, stored,
                 handlerVars, dmaAddr, dmaLen, inReset, dbgLock, late>>

\* The poll ends: done, or failed and ERR_CODE is read next, or one second is
\* over.
DbgPoll(c) ==
  /\ cpc[c] = "poll"
  /\ \/ dmaStatus = "done" /\ DbgGoto(c, "idle") /\ dbgLock' = NoCaller
        /\ UNCHANGED late
     \/ dmaStatus = "error" /\ DbgGoto(c, "code") /\ UNCHANGED <<dbgLock, late>>
     \/ dmaStatus = "busy" /\ DbgGoto(c, "idle") /\ dbgLock' = NoCaller
        /\ late' = TRUE
  /\ UNCHANGED <<blockVars, handlerVars, dmaVars, inReset>>

DbgCode(c) ==
  /\ cpc[c] = "code"
  /\ dbgLock' = NoCaller /\ DbgGoto(c, "idle")
  /\ UNCHANGED <<blockVars, handlerVars, dmaVars, inReset, late>>

Dbg(c) ==
  DbgLock(c) \/ DbgAddr(c) \/ DbgLen(c) \/ DbgCtl(c) \/ DbgPoll(c) \/ DbgCode(c)

ErrorNext ==
  \/ Fatal \/ Synchronous \/ Crash
  \/ HandleBegin \/ HandleInfo \/ HandleAck \/ HandleReport
  \/ DmaRun \/ ResetWrite
  \/ \E c \in Callers : Dbg(c)

ErrorSpec == ErrorInit /\ [][ErrorNext]_errorVars

-----------------------------------------------------------------------------
(***************************************************************************)
(* Properties.                                                             *)
(***************************************************************************)

\* What raised the vector is in the block: an error, and not a crash.
Qualified == cause \in stored

\* The code a handler may read for what raised the vector: its own, or none if
\* a debug transfer has cleared it.  A crash has no code, and what was in the
\* block before it stays there; nothing that came after it does.
CodeOfCause(code) ==
  \/ code = None
  \/ Qualified /\ code = cause
  \/ ~Qualified /\ code < cause

\* A handler that finds the vector latched takes no later error for what raised
\* the vector, and if that was an error, no other one at all; the fields it reads
\* with a code, one register after the other, are all of the same error, however
\* many follow while it is reading.
ReportWhole ==
  hpc \in {"ack", "report"} /\ hLatched =>
    /\ gotCode # None => gotInfo = {gotCode}
    /\ hpc = "ack" => CodeOfCause(gotCode)

\* A call of velocitor_dma_dbg_() that sees a transfer end sees its own: never
\* the status of the call before, not even of one that timed out.
OkIsDone ==
  \A c \in Callers : cpc[c] = "poll" /\ dmaStatus # "busy" => xfer = <<c, c>>

\* No transfer runs with the address of one call and the length of another,
\* except after a call that timed out and left its transfer armed.
WholeTransfer == ~late => xfer[1] = xfer[2]

\* "While this latch is up a new error overwrites nothing [...] a driver that
\* comes late reads the cause" (specification, section 4.4).  The start of a
\* transfer clears ERR_CODE whether the latch is up or not.
LateReadsCause == hpc = "ack" /\ hLatched /\ Qualified => gotCode = cause

\* An injected crash is raised "without qualifying, and the error handler of the
\* driver traces an ERR_CODE = 0" (specification, section 14).  It traces
\* whatever error was in the block before.
CrashTracesNone == hpc = "ack" /\ hLatched /\ ~Qualified => gotCode = None

\* ERR_DROPPED "makes visible what the driver did not see" (specification,
\* section 4.4): once all is quiet, every error that was raised and not counted
\* as dropped has been reported in whole.
SeenOrCounted == hpc = "idle" /\ ~irq => stored \subseteq reported

\* RESET cancels "the DBG_DMA transfers in flight" (specification, annex D.3):
\* a transfer that RESET met never ends.
ResetCancels == cut => dmaStatus \notin {"done", "error"}
=============================================================================
