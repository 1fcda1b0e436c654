------------------------ MODULE RegisterBlocksProofs -------------------------
(***************************************************************************)
(* Proofs about the three register blocks that the driver reads one        *)
(* register at a time under a lock of its own: ErrorBlock, SlidingWindow   *)
(* and Counters.  They share no state; each has its invariant, one lemma   *)
(* for each action and its theorems, for every value of its constants.     *)
(***************************************************************************)
EXTENDS ErrorBlock, SlidingWindow, Counters, SequenceTheorems, TLAPS

-----------------------------------------------------------------------------
(***************************************************************************)
(* ErrorBlock.  The argument has two halves that do not meet.  The error   *)
(* block: while the latch is up neither the cause nor the fields of its    *)
(* error change, and irq_error_event() only lets go of the latch after its *)
(* last read.  The transfer: the registers belong to the holder of the     *)
(* lock once it has written them, and unless a call has timed out an armed *)
(* timer is that of a call which is still polling.                         *)
(***************************************************************************)

\* A code in the block stands with the fields of its own error; while the latch
\* is up it is the code of the cause, or a transfer has cleared it, or the cause
\* is a crash and the code is older.
BlockInv ==
  /\ errDropped <= errors /\ errCode <= errors /\ stored \subseteq 0 .. errors
  /\ errCode # None => errCode = errInfo
  /\ latch => CodeOfCause(errCode)

\* Between the first read and the acknowledgement the latch the handler found
\* stays up; what it has read so far is of the cause, and what it has yet to
\* read still is.
HandlerInv ==
  /\ hpc = "info" => left # 0
  /\ hpc \in {"info", "ack"} /\ hLatched => latch /\ CodeOfCause(gotCode)
  /\ hpc = "info" /\ hLatched /\ gotCode # None =>
       gotCode = errInfo /\ gotInfo \subseteq {gotCode}
  /\ hpc \in {"ack", "report"} /\ hLatched /\ gotCode # None =>
       gotInfo = {gotCode}

\* A call holds the lock from its first step to its last, and the registers it
\* has written are its own until it ends.
HolderInv ==
  \A c \in Callers :
    /\ cpc[c] # "idle" => dbgLock = c
    /\ cpc[c] \in {"len", "ctl", "poll", "code"} => dmaAddr = c
    /\ cpc[c] \in {"ctl", "poll", "code"} => dmaLen = c

\* An armed timer shows as busy; it is that of a call which polls, unless a
\* call has given up.
TimerInv ==
  dmaTimer => /\ dmaStatus = "busy"
              /\ ~late => \E c \in Callers : cpc[c] = "poll"

ErrorIInv ==
  /\ ErrorTypeOK
  /\ BlockInv /\ HandlerInv
  /\ HolderInv /\ TimerInv /\ OkIsDone /\ WholeTransfer

-----------------------------------------------------------------------------
\* The invariant holds before the first error and the first call.
LEMMA ErrorInitInv == ErrorInit => ErrorIInv
<1> SUFFICES ASSUME ErrorInit PROVE ErrorIInv
  OBVIOUS
<1> USE ErrorAssumption DEF ErrorInit, None, NoCaller, Owners
<1>0. 0 \in 0 .. MaxErrors /\ 0 \in 0 .. NFields
  OBVIOUS
<1>1. BlockType /\ HandlerType
  BY <1>0 DEF BlockType, HandlerType
<1>2. TransferType
  BY DEF TransferType
<1>3. BlockInv /\ HandlerInv
  BY DEF BlockInv, HandlerInv, CodeOfCause
<1>4. HolderInv /\ TimerInv /\ OkIsDone
  BY DEF HolderInv, TimerInv, OkIsDone
<1>5. WholeTransfer
  BY DEF WholeTransfer
<1> QED
  BY <1>1, <1>2, <1>3, <1>4, <1>5 DEF ErrorIInv, ErrorTypeOK

-----------------------------------------------------------------------------
(***************************************************************************)
(* The error block and its handler.                                        *)
(***************************************************************************)

\* Recording an error keeps the block in its type and its parts together; while
\* the latch is up it changes neither code nor fields.
LEMMA QualifyStep ==
  ASSUME BlockType, BlockInv, NewError, Qualify
  PROVE  /\ errCode' \in Ids \cup {None} /\ errInfo' \in Ids \cup {None}
         /\ errDropped' \in 0 .. MaxErrors
         /\ errors' \in Ids /\ errors' \in 0 .. MaxErrors
         /\ errDropped' <= errors' /\ errCode' <= errors'
         /\ errors' = errors + 1 /\ errors' \notin stored
         /\ stored \cup {errors'} \subseteq 0 .. errors'
         /\ errCode' # None => errCode' = errInfo'
         /\ ~latch => errCode' = errors'
         /\ latch => errCode' = errCode /\ errInfo' = errInfo
BY ErrorAssumption DEF BlockType, BlockInv, NewError, Qualify, Ids, None

\* What the handler relies on survives a step that leaves it alone and, if the
\* latch is up, leaves the latch, the cause and the fields alone.
LEMMA HandlerFrame ==
  ASSUME HandlerType, HandlerInv, UNCHANGED handlerVars,
         latch => /\ latch' /\ cause' = cause /\ stored' = stored
                  /\ errInfo' = errInfo
  PROVE  HandlerType' /\ HandlerInv'
BY DEF HandlerType, HandlerInv, CodeOfCause, Qualified, handlerVars

\* A step that leaves the block alone keeps it well formed.
LEMMA BlockFrame ==
  ASSUME BlockType, BlockInv, UNCHANGED blockVars
  PROVE  BlockType' /\ BlockInv'
BY DEF BlockType, BlockInv, CodeOfCause, Qualified, blockVars

\* The block and the handler, action by action.
LEMMA BlockStep ==
  ASSUME ErrorTypeOK, BlockInv, HandlerInv, [ErrorNext]_errorVars
  PROVE  BlockType' /\ BlockInv' /\ HandlerType' /\ HandlerInv'
<1> DEFINE Goal == BlockType' /\ BlockInv' /\ HandlerType' /\ HandlerInv'
<1>0. BlockType /\ HandlerType
  BY DEF ErrorTypeOK
<1>1. CASE Fatal
  <2>1. NewError /\ Qualify /\ UNCHANGED handlerVars
    BY <1>1 DEF Fatal
  <2>2. latch' = TRUE /\ irq' = TRUE /\ cause' = IF latch THEN cause ELSE errors'
    BY <1>1 DEF Fatal, Raise
  <2>3. stored' = IF latch THEN stored ELSE stored \cup {errors'}
    BY <1>1 DEF Fatal
  <2>4. BlockType'
    BY <1>0, <2>1, <2>2, <2>3, QualifyStep DEF BlockType
  <2>5. BlockInv'
    BY <1>0, <2>1, <2>2, <2>3, QualifyStep DEF BlockInv, CodeOfCause, Qualified
  <2>6. HandlerType' /\ HandlerInv'
    BY <1>0, <2>1, <2>2, <2>3, QualifyStep, HandlerFrame
  <2> QED
    BY <2>4, <2>5, <2>6
<1>2. CASE Synchronous
  <2>1. /\ NewError /\ Qualify /\ UNCHANGED handlerVars
        /\ UNCHANGED <<latch, irq, cause, stored>>
    BY <1>2 DEF Synchronous
  <2>4. BlockType'
    BY <1>0, <2>1, QualifyStep DEF BlockType
  <2>5. BlockInv'
    BY <1>0, <2>1, QualifyStep DEF BlockInv, CodeOfCause, Qualified
  <2>6. HandlerType' /\ HandlerInv'
    BY <1>0, <2>1, QualifyStep, HandlerFrame
  <2> QED
    BY <2>4, <2>5, <2>6
<1>3. CASE Crash
  <2>1. /\ UNCHANGED <<errCode, errInfo, errDropped, stored>>
        /\ UNCHANGED handlerVars
        /\ errors < MaxErrors /\ errors' = errors + 1
    BY <1>3 DEF Crash, NewError
  <2>2. latch' = TRUE /\ irq' = TRUE /\ cause' = IF latch THEN cause ELSE errors'
    BY <1>3 DEF Crash, Raise
  <2>3. /\ errors' \in 0 .. MaxErrors /\ errors' \in Ids
        /\ errDropped' <= errors' /\ errCode < errors'
        /\ errors' \notin stored /\ stored \subseteq 0 .. errors'
    BY <1>0, <2>1, ErrorAssumption DEF BlockType, BlockInv, Ids, None
  <2>4. BlockType'
    BY <1>0, <2>1, <2>2, <2>3 DEF BlockType
  <2>5. BlockInv'
    <3>1. errDropped' <= errors' /\ errCode' <= errors' /\ stored' \subseteq 0 .. errors'
      BY <1>0, <2>1, <2>3 DEF BlockType, Ids, None
    <3>2. CodeOfCause(errCode)'
      BY <2>1, <2>2, <2>3 DEF BlockInv, CodeOfCause, Qualified
    <3> QED
      BY <2>1, <3>1, <3>2 DEF BlockInv
  <2>6. HandlerType' /\ HandlerInv'
    BY <1>0, <2>1, <2>2, HandlerFrame
  <2> QED
    BY <2>4, <2>5, <2>6
<1>4. CASE HandleBegin
  <2>1. /\ UNCHANGED <<errCode, errInfo, errDropped, latch, errors, cause, stored>>
        /\ irq' = FALSE
    BY <1>4 DEF HandleBegin
  <2>2. /\ hLatched' = latch /\ gotCode' = errCode /\ hpc' = "info"
        /\ gotInfo' = {} /\ left' = NFields /\ UNCHANGED reported
    BY <1>4 DEF HandleBegin
  <2>3. BlockType' /\ BlockInv'
    BY <1>0, <2>1 DEF BlockType, BlockInv, CodeOfCause, Qualified
  <2>4. HandlerType'
    BY <1>0, <2>2, ErrorAssumption DEF HandlerType, BlockType
  <2>5. HandlerInv'
    BY <1>0, <2>1, <2>2, ErrorAssumption
       DEF HandlerInv, BlockInv, CodeOfCause, Qualified
  <2> QED
    BY <2>3, <2>4, <2>5
<1>5. CASE HandleInfo
  <2>1. UNCHANGED blockVars
    BY <1>5 DEF HandleInfo
  <2>2. /\ hpc = "info" /\ gotInfo' = gotInfo \cup {errInfo}
        /\ left' = left - 1 /\ hpc' = IF left = 1 THEN "ack" ELSE "info"
        /\ UNCHANGED <<gotCode, hLatched, reported>>
        /\ UNCHANGED <<latch, cause, stored, errInfo>>
    BY <1>5 DEF HandleInfo, blockVars
  <2>3. HandlerType'
    BY <1>0, <2>2, ErrorAssumption DEF HandlerType, HandlerInv, BlockType
  <2>4. left' # 0 \/ hpc' = "ack"
    BY <1>0, <2>2, ErrorAssumption DEF HandlerType
  <2>5. HandlerInv'
    BY <2>2, <2>4 DEF HandlerInv, CodeOfCause, Qualified
  <2> QED
    BY <1>0, <2>1, <2>3, <2>5, BlockFrame
<1>6. CASE HandleAck
  <2>1. BlockType' /\ BlockInv'
    BY <1>0, <1>6 DEF BlockType, BlockInv, CodeOfCause, HandleAck
  <2>2. HandlerType'
    BY <1>0, <1>6 DEF HandlerType, HandleAck
  <2>3. HandlerInv'
    BY <1>6 DEF HandlerInv, HandleAck
  <2> QED
    BY <2>1, <2>2, <2>3
<1>7. CASE HandleReport
  <2>1. UNCHANGED blockVars
    BY <1>7 DEF HandleReport
  <2>2. reported' \subseteq Ids
    BY <1>0, <1>7 DEF HandlerType, HandleReport
  <2>3. HandlerType'
    BY <1>0, <1>7, <2>2 DEF HandlerType, HandleReport
  <2>4. HandlerInv'
    BY <1>7 DEF HandlerInv, HandleReport
  <2> QED
    BY <1>0, <2>1, <2>3, <2>4, BlockFrame
<1>8. CASE DmaRun
  <2>1. UNCHANGED <<latch, irq, cause, stored>> /\ UNCHANGED handlerVars
    BY <1>8 DEF DmaRun
  <2>2. CASE UNCHANGED <<errors, errCode, errInfo, errDropped>>
    <3>1. UNCHANGED blockVars
      BY <2>1, <2>2 DEF blockVars
    <3> QED
      BY <1>0, <2>1, <2>2, <3>1, BlockFrame, HandlerFrame
  <2>3. CASE NewError /\ Qualify
    <3>1. BlockType'
      BY <1>0, <2>1, <2>3, QualifyStep DEF BlockType
    <3>2. BlockInv'
      BY <1>0, <2>1, <2>3, QualifyStep DEF BlockInv, CodeOfCause, Qualified
    <3> QED
      BY <1>0, <2>1, <2>3, <3>1, <3>2, QualifyStep, HandlerFrame
  <2> QED
    BY <1>8, <2>2, <2>3 DEF DmaRun
<1>9. ASSUME NEW c \in Callers, DbgCtl(c) PROVE Goal
  <2>1. /\ errCode' = None /\ UNCHANGED handlerVars
        /\ UNCHANGED <<errInfo, errDropped, latch, irq, errors, cause, stored>>
    BY <1>9 DEF DbgCtl, DmaStart
  <2>2. BlockType' /\ BlockInv'
    BY <1>0, <2>1 DEF BlockType, BlockInv, CodeOfCause, None
  <2> QED
    BY <1>0, <2>1, <2>2, HandlerFrame
<1>10. CASE UNCHANGED <<blockVars, handlerVars>>
  BY <1>0, <1>10, BlockFrame, HandlerFrame DEF blockVars
<1>11. ASSUME NEW c \in Callers, Dbg(c), ~DbgCtl(c)
       PROVE  UNCHANGED <<blockVars, handlerVars>>
  BY <1>11 DEF Dbg, DbgLock, DbgAddr, DbgLen, DbgPoll, DbgCode
<1>12. ResetWrite => UNCHANGED <<blockVars, handlerVars>>
  BY DEF ResetWrite
<1>13. UNCHANGED errorVars => UNCHANGED <<blockVars, handlerVars>>
  BY DEF errorVars
<1> QED
  BY <1>1, <1>2, <1>3, <1>4, <1>5, <1>6, <1>7, <1>8, <1>9, <1>10, <1>11, <1>12,
     <1>13 DEF ErrorNext

-----------------------------------------------------------------------------
(***************************************************************************)
(* The transfer and its callers.                                           *)
(***************************************************************************)
TransferInv == HolderInv /\ TimerInv /\ OkIsDone /\ WholeTransfer

\* At most one call is under way.
LEMMA OneCall ==
  ASSUME HolderInv, NEW c \in Callers, NEW d \in Callers,
         cpc[c] # "idle", cpc[d] # "idle"
  PROVE  c = d
BY DEF HolderInv

\* What a step of one call leaves of the others: all of it.
LEMMA GotoStep ==
  ASSUME TransferType, NEW c \in Callers, NEW l, DbgGoto(c, l)
  PROVE  /\ cpc'[c] = l
         /\ \A d \in Callers : d # c => cpc'[d] = cpc[d]
BY DEF TransferType, DbgGoto

\* The transfer and its callers, action by action.
LEMMA TransferStep ==
  ASSUME ErrorTypeOK, TransferInv, [ErrorNext]_errorVars
  PROVE  TransferType' /\ TransferInv'
<1> DEFINE Goal == TransferType' /\ TransferInv'
<1> USE DEF TransferInv
<1>0. TransferType
  BY DEF ErrorTypeOK
<1>1. CASE UNCHANGED <<dmaVars, inReset, callerVars>>
  <2>1. TransferType'
    BY <1>0, <1>1 DEF TransferType, dmaVars, callerVars
  <2>2. HolderInv' /\ TimerInv'
    BY <1>1 DEF HolderInv, TimerInv, dmaVars, callerVars
  <2>3. OkIsDone' /\ WholeTransfer'
    BY <1>1 DEF OkIsDone, WholeTransfer, dmaVars, callerVars
  <2> QED
    BY <2>1, <2>2, <2>3
<1>2. CASE ResetWrite
  <2>1. /\ inReset' \in BOOLEAN /\ cut' \in BOOLEAN
        /\ UNCHANGED <<dmaAddr, dmaLen, dmaStatus, dmaTimer, xfer>>
        /\ UNCHANGED <<dbgLock, cpc, late>>
    BY <1>2 DEF ResetWrite, callerVars
  <2>2. TransferType'
    BY <1>0, <2>1 DEF TransferType
  <2>3. HolderInv' /\ TimerInv'
    BY <2>1 DEF HolderInv, TimerInv
  <2>4. OkIsDone' /\ WholeTransfer'
    BY <2>1 DEF OkIsDone, WholeTransfer
  <2> QED
    BY <2>2, <2>3, <2>4
<1>3. CASE DmaRun
  <2>1. /\ dmaTimer /\ dmaTimer' = FALSE /\ xfer' = <<dmaAddr, dmaLen>>
        /\ dmaStatus' \in {"done", "error"}
        /\ UNCHANGED <<dmaAddr, dmaLen, cut, inReset>>
        /\ UNCHANGED <<dbgLock, cpc, late>>
    BY <1>3 DEF DmaRun, callerVars
  <2>2. TransferType'
    BY <1>0, <2>1 DEF TransferType
  <2>3. HolderInv' /\ TimerInv'
    BY <2>1 DEF HolderInv, TimerInv
  <2>4. OkIsDone'
    BY <2>1 DEF OkIsDone, HolderInv
  <2>5. ASSUME ~late PROVE dmaAddr = dmaLen
    BY <2>1, <2>5 DEF TimerInv, HolderInv
  <2>6. WholeTransfer'
    BY <2>1, <2>5 DEF WholeTransfer
  <2> QED
    BY <2>2, <2>3, <2>4, <2>6
<1>4. ASSUME NEW c \in Callers, DbgLock(c) PROVE Goal
  <2>1. /\ cpc[c] = "idle" /\ dbgLock = NoCaller /\ dbgLock' = c /\ DbgGoto(c, "addr")
        /\ UNCHANGED <<dmaAddr, dmaLen, dmaStatus, dmaTimer, xfer, cut, inReset>>
        /\ UNCHANGED late
    BY <1>4 DEF DbgLock, MayEnter, dmaVars
  <2>2. TransferType'
    BY <1>0, <2>1 DEF TransferType, DbgGoto, Owners
  <2>3. \A d \in Callers : cpc[d] = "idle"
    BY <2>1, ErrorAssumption DEF HolderInv, NoCaller
  <2>4. HolderInv' /\ OkIsDone'
    BY <1>0, <2>1, <2>3, GotoStep DEF HolderInv, OkIsDone
  <2>5. TimerInv' /\ WholeTransfer'
    BY <2>1, <2>3 DEF TimerInv, WholeTransfer
  <2> QED
    BY <2>2, <2>4, <2>5
<1>5. ASSUME NEW c \in Callers, DbgAddr(c) PROVE Goal
  <2>1. /\ cpc[c] = "addr" /\ dmaAddr' = c /\ DbgGoto(c, "len")
        /\ UNCHANGED <<dmaLen, dmaStatus, dmaTimer, xfer, cut, inReset, dbgLock, late>>
    BY <1>5 DEF DbgAddr
  <2>2. TransferType'
    BY <1>0, <2>1 DEF TransferType, DbgGoto, Owners
  <2>3. \A d \in Callers : d # c => cpc[d] = "idle"
    BY <2>1, OneCall
  <2>4. HolderInv' /\ OkIsDone'
    BY <1>0, <2>1, <2>3, GotoStep DEF HolderInv, OkIsDone
  <2>5. TimerInv' /\ WholeTransfer'
    BY <2>1, <2>3 DEF TimerInv, WholeTransfer
  <2> QED
    BY <2>2, <2>4, <2>5
<1>6. ASSUME NEW c \in Callers, DbgLen(c) PROVE Goal
  <2>1. /\ cpc[c] = "len" /\ dmaLen' = c /\ DbgGoto(c, "ctl")
        /\ UNCHANGED <<dmaAddr, dmaStatus, dmaTimer, xfer, cut, inReset, dbgLock, late>>
    BY <1>6 DEF DbgLen
  <2>2. TransferType'
    BY <1>0, <2>1 DEF TransferType, DbgGoto, Owners
  <2>3. \A d \in Callers : d # c => cpc[d] = "idle"
    BY <2>1, OneCall
  <2>4. HolderInv' /\ OkIsDone'
    BY <1>0, <2>1, <2>3, GotoStep DEF HolderInv, OkIsDone
  <2>5. TimerInv' /\ WholeTransfer'
    BY <2>1, <2>3 DEF TimerInv, WholeTransfer
  <2> QED
    BY <2>2, <2>4, <2>5
<1>7. ASSUME NEW c \in Callers, DbgCtl(c) PROVE Goal
  <2>1. /\ cpc[c] = "ctl" /\ DbgGoto(c, "poll")
        /\ dmaStatus' = "busy" /\ dmaTimer' = TRUE
        /\ xfer' = <<NoCaller, NoCaller>> /\ cut' = FALSE
        /\ UNCHANGED <<dmaAddr, dmaLen, inReset, dbgLock, late>>
    BY <1>7 DEF DbgCtl, DmaStart
  <2>2. TransferType'
    BY <1>0, <2>1 DEF TransferType, DbgGoto, Owners
  <2>3. \A d \in Callers : d # c => cpc[d] = "idle"
    BY <2>1, OneCall
  <2>4. HolderInv' /\ OkIsDone'
    BY <1>0, <2>1, <2>3, GotoStep DEF HolderInv, OkIsDone
  <2>5. TimerInv'
    BY <1>0, <2>1, GotoStep DEF TimerInv
  <2>6. WholeTransfer'
    BY <2>1 DEF WholeTransfer
  <2> QED
    BY <2>2, <2>4, <2>5, <2>6
<1>8. ASSUME NEW c \in Callers, DbgPoll(c) PROVE Goal
  <2>1. /\ cpc[c] = "poll"
        /\ UNCHANGED <<dmaAddr, dmaLen, dmaStatus, dmaTimer, xfer, cut, inReset>>
    BY <1>8 DEF DbgPoll, dmaVars
  <2>2. \/ dmaStatus = "done" /\ DbgGoto(c, "idle") /\ dbgLock' = NoCaller /\ late' = late
        \/ dmaStatus = "error" /\ DbgGoto(c, "code") /\ dbgLock' = dbgLock /\ late' = late
        \/ dmaStatus = "busy" /\ DbgGoto(c, "idle") /\ dbgLock' = NoCaller /\ late' = TRUE
    BY <1>8 DEF DbgPoll
  <2>3. TransferType'
    BY <1>0, <2>1, <2>2 DEF TransferType, DbgGoto, Owners
  <2>4. \A d \in Callers : d # c => cpc[d] = "idle"
    BY <2>1, OneCall
  <2>5. HolderInv' /\ OkIsDone'
    BY <1>0, <2>1, <2>2, <2>4, GotoStep DEF HolderInv, OkIsDone
  <2>6. TimerInv' /\ WholeTransfer'
    BY <2>1, <2>2 DEF TimerInv, WholeTransfer
  <2> QED
    BY <2>3, <2>5, <2>6
<1>9. ASSUME NEW c \in Callers, DbgCode(c) PROVE Goal
  <2>1. /\ cpc[c] = "code" /\ DbgGoto(c, "idle") /\ dbgLock' = NoCaller
        /\ UNCHANGED <<dmaAddr, dmaLen, dmaStatus, dmaTimer, xfer, cut, inReset>>
        /\ UNCHANGED late
    BY <1>9 DEF DbgCode, dmaVars
  <2>2. TransferType'
    BY <1>0, <2>1 DEF TransferType, DbgGoto, Owners
  <2>3. \A d \in Callers : d # c => cpc[d] = "idle"
    BY <2>1, OneCall
  <2>4. HolderInv' /\ OkIsDone'
    BY <1>0, <2>1, <2>3, GotoStep DEF HolderInv, OkIsDone
  <2>5. TimerInv' /\ WholeTransfer'
    BY <2>1, <2>3 DEF TimerInv, WholeTransfer
  <2> QED
    BY <2>2, <2>4, <2>5
<1>10. \/ Fatal \/ Synchronous \/ Crash
       \/ HandleBegin \/ HandleInfo \/ HandleAck \/ HandleReport
       => UNCHANGED <<dmaVars, inReset, callerVars>>
  BY DEF Fatal, Synchronous, Crash, HandleBegin, HandleInfo, HandleAck,
         HandleReport
<1>11. UNCHANGED errorVars => UNCHANGED <<dmaVars, inReset, callerVars>>
  BY DEF errorVars
<1> QED
  BY <1>1, <1>2, <1>3, <1>4, <1>5, <1>6, <1>7, <1>8, <1>9, <1>10, <1>11
  DEF ErrorNext, Dbg

-----------------------------------------------------------------------------
(***************************************************************************)
(* The theorems.                                                           *)
(***************************************************************************)

\* The invariant holds in every reachable state.
THEOREM ErrorInvariant == ErrorSpec => []ErrorIInv
<1>1. ErrorIInv /\ [ErrorNext]_errorVars => ErrorIInv'
  BY BlockStep, TransferStep DEF ErrorIInv, ErrorTypeOK, TransferInv
<1> QED
  BY ErrorInitInv, <1>1, PTL DEF ErrorSpec

\* Every variable stays in its type; in particular ERR_DROPPED never counts
\* more errors than there were.
THEOREM ErrorTypeCorrect == ErrorSpec => []ErrorTypeOK
<1>1. ErrorIInv => ErrorTypeOK
  BY DEF ErrorIInv
<1> QED
  BY ErrorInvariant, <1>1, PTL

\* irq_error_event(), with the vector latched: if an error raised the vector, the
\* code read is that error's, or none, and never that of one that came before or
\* after; if a crash did, no later error is taken for it.  The fields that come
\* with a code are all of the same error.
THEOREM ReportsAreWhole == ErrorSpec => []ReportWhole
<1>1. ErrorIInv => ReportWhole
  BY DEF ErrorIInv, HandlerInv, ReportWhole
<1> QED
  BY ErrorInvariant, <1>1, PTL

\* A call of velocitor_dma_dbg_() that sees a transfer end sees its own, even
\* behind a call that timed out.
THEOREM EndsAreOwn == ErrorSpec => []OkIsDone
<1>1. ErrorIInv => OkIsDone
  BY DEF ErrorIInv
<1> QED
  BY ErrorInvariant, <1>1, PTL

\* As long as no call of velocitor_dma_dbg_() has timed out, no transfer runs
\* with the registers of two calls.
THEOREM TransfersAreWhole == ErrorSpec => []WholeTransfer
<1>1. ErrorIInv => WholeTransfer
  BY DEF ErrorIInv
<1> QED
  BY ErrorInvariant, <1>1, PTL

-----------------------------------------------------------------------------
(***************************************************************************)
(* SlidingWindow.  The argument: while a reader is between its seek and    *)
(* the end of its copy it holds the lock, so the base in effect is the one *)
(* it has read back; and what it has copied so far ends where its window   *)
(* starts, or is nothing in its first window.                              *)
(***************************************************************************)

Bytes == Addresses \cup {Unmapped}

Bit(b) == IF b THEN 1 ELSE 0

\* Who waits for its read-back, or copies, holds the lock.
LockInv ==
  \A r \in MemReaders : pc[r] \in {"readback", "copy"} => winLock = r

\* The window a reader copies out of is the one it asked for.
SeekInv == \A r \in MemReaders : pc[r] = "copy" => winBase = window[r]

\* The windows before the one a reader is at have been copied in whole: its
\* bytes end where the window starts, except in the first window, where it has
\* none yet.
Reached(r) ==
  IF First(r) THEN Len(dst[r]) = 0
  ELSE /\ offset[r] < window[r]
       /\ Len(dst[r]) = window[r] - offset[r]
       /\ Len(dst[r]) < size[r]

\* The bytes are those asked for.
Right(r) == \A i \in 1 .. Len(dst[r]) : dst[r][i] = offset[r] + i - 1

DataInv ==
  \A r \in MemReaders :
    /\ size[r] <= MemSize - offset[r]
    /\ pc[r] \in {"write", "readback", "copy"} => Reached(r) /\ Right(r)
    /\ pc[r] = "done" => Right(r) /\ Len(dst[r]) = size[r]

\* A write was swallowed whose writer has not read back yet.
Swallowed ==
  \E r \in MemReaders : pc[r] = "readback" /\ winPending # window[r]

\* Faults that are armed, on their way to a reader, or have failed a read were
\* injected one by one.
FaultInv == failures + Bit(winIgnore) + Bit(Swallowed) <= injects

WindowIInv == WindowTypeOK /\ LockInv /\ SeekInv /\ DataInv /\ FaultInv

-----------------------------------------------------------------------------
(***************************************************************************)
(* Arithmetic of windows.                                                  *)
(***************************************************************************)

\* Multiplication by a natural number is monotonic.
LEMMA Monotonic ==
  ASSUME NEW a \in Nat, NEW b \in Nat, NEW k \in Nat, a <= b
  PROVE  a * k <= b * k
<1>1. (b - a) * k >= 0 /\ (b - a) * k = b * k - a * k
  OBVIOUS
<1> QED
  BY <1>1

\* The sizes are natural numbers.
LEMMA Sizes ==
  /\ WindowSize \in Nat /\ WindowSize > 0 /\ Windows \in Nat /\ Windows > 0
  /\ MemSize \in Nat
BY WindowAssumption DEF MemSize

\* A window lies in memory as a whole.
LEMMA BaseBounds ==
  ASSUME NEW b \in Bases
  PROVE  b \in Nat /\ b + WindowSize <= MemSize
<1>1. PICK w \in 0 .. Windows - 1 : b = w * WindowSize
  BY DEF Bases
<1>2. w \in Nat /\ w + 1 \in Nat /\ w + 1 <= Windows
  BY Sizes
<1>3. (w + 1) * WindowSize <= Windows * WindowSize
  BY <1>2, Sizes, Monotonic
<1>4. (w + 1) * WindowSize = w * WindowSize + WindowSize
  BY <1>2, Sizes
<1>5. w * WindowSize \in Nat
  BY <1>2, Sizes
<1> QED
  BY <1>1, <1>3, <1>4, <1>5 DEF MemSize

\* The end of a window is the base of the next, unless memory ends there.
LEMMA NextBase ==
  ASSUME NEW b \in Bases, b + WindowSize < MemSize
  PROVE  b + WindowSize \in Bases
<1>1. PICK w \in 0 .. Windows - 1 : b = w * WindowSize
  BY DEF Bases
<1>2. w \in Nat /\ w + 1 \in Nat
  BY Sizes
<1>3. b + WindowSize = (w + 1) * WindowSize
  BY <1>1, <1>2, Sizes
<1>4. ASSUME Windows <= w + 1 PROVE FALSE
  <2>1. Windows * WindowSize <= (w + 1) * WindowSize
    BY <1>2, <1>4, Sizes, Monotonic
  <2> QED
    BY <1>2, <1>3, <2>1, BaseBounds, Sizes DEF MemSize
<1>5. w + 1 \in 0 .. Windows - 1
  BY <1>2, <1>4, Sizes
<1> QED
  BY <1>3, <1>5 DEF Bases

\* Rounding down finds the window an address is in.
LEMMA AlignDownIsBase ==
  ASSUME NEW a \in Addresses
  PROVE  /\ AlignDown(a) \in Bases
         /\ AlignDown(a) <= a /\ a < AlignDown(a) + WindowSize
<1> DEFINE w == a \div WindowSize
<1>1. a \in Nat /\ a < MemSize
  BY Sizes DEF Addresses
<1>2. /\ w \in Nat
      /\ w * WindowSize <= a /\ a < w * WindowSize + WindowSize
  BY <1>1, Sizes
<1>3. ASSUME Windows <= w PROVE FALSE
  <2>1. Windows * WindowSize <= w * WindowSize
    BY <1>2, <1>3, Sizes, Monotonic
  <2> QED
    BY <1>1, <1>2, <2>1, Sizes DEF MemSize
<1>4. w \in 0 .. Windows - 1
  BY <1>2, <1>3, Sizes
<1> QED
  BY <1>2, <1>4 DEF Bases, AlignDown

\* The device starts at a base.
LEMMA ZeroIsBase == 0 \in Bases /\ 0 \in Addresses /\ AlignDown(0) = 0
<1>1. 0 \in 0 .. Windows - 1 /\ 0 * WindowSize = 0
  BY Sizes
<1>2. 0 \in Bases
  BY <1>1 DEF Bases
<1>3. 0 \in Addresses
  BY <1>2, BaseBounds, Sizes DEF Addresses
<1>4. 0 \div WindowSize = 0
  BY Sizes
<1> QED
  BY <1>1, <1>2, <1>3, <1>4 DEF AlignDown

\* The bytes of one window behind those of the windows before.
LEMMA Appended ==
  ASSUME NEW s \in Seq(Bytes), NEW n \in Nat, NEW f \in [1 .. n -> Bytes]
  PROVE  /\ s \o f \in Seq(Bytes) /\ Len(s \o f) = Len(s) + n
         /\ \A i \in 1 .. Len(s) : (s \o f)[i] = s[i]
         /\ \A i \in 1 .. Len(s) + n : i > Len(s) => (s \o f)[i] = f[i - Len(s)]
<1>1. f \in Seq(Bytes) /\ Len(f) = n
  OBVIOUS
<1>2. Len(s) \in Nat
  BY LenProperties
<1> QED
  BY <1>1, <1>2, ConcatProperties

-----------------------------------------------------------------------------
(***************************************************************************)
(* The initial state.                                                      *)
(***************************************************************************)

\* The invariant holds before the first read and the first fault.
LEMMA WindowInitInv == WindowInit => WindowIInv
<1> SUFFICES ASSUME WindowInit PROVE WindowIInv
  OBVIOUS
<1> USE ZeroIsBase DEF WindowInit
<1>1. 0 \in 0 .. PageSize /\ 0 \in 0 .. MaxInjects /\ 0 <= MemSize
  BY WindowAssumption, Sizes
<1>2. DeviceType
  BY <1>1 DEF DeviceType
<1>3. ReaderType
  BY <1>1 DEF ReaderType
<1>4. LockInv /\ SeekInv
  BY DEF LockInv, SeekInv
<1>5. DataInv
  <2>1. ASSUME NEW r \in MemReaders
        PROVE  size[r] = 0 /\ offset[r] = 0 /\ pc[r] = "idle"
    OBVIOUS
  <2>2. 0 <= MemSize - 0
    BY Sizes
  <2> QED
    BY <2>1, <2>2 DEF DataInv
<1>6. ~Swallowed
  BY DEF Swallowed
<1>7. FaultInv
  BY <1>6 DEF FaultInv, Bit
<1> QED
  BY <1>2, <1>3, <1>4, <1>5, <1>7 DEF WindowIInv, WindowTypeOK

-----------------------------------------------------------------------------
(***************************************************************************)
(* The copy out of one window.                                             *)
(***************************************************************************)
Piece(r) == [i \in 1 .. Chunk(r) |-> Byte(Skip(r) + i - 1)]

\* The numbers a reader works with, and where its window lies.
LEMMA ReaderFacts ==
  ASSUME ReaderType, NEW r \in MemReaders
  PROVE  /\ offset[r] \in Addresses /\ offset[r] \in Nat /\ offset[r] < MemSize
         /\ size[r] \in Nat
         /\ window[r] \in Bases /\ window[r] \in Nat
         /\ window[r] + WindowSize <= MemSize
         /\ First(r) => /\ window[r] <= offset[r]
                        /\ offset[r] < window[r] + WindowSize
         /\ dst[r] \in Seq(Bytes) /\ Len(dst[r]) \in Nat
<1>1. /\ offset[r] \in Addresses /\ size[r] \in 0 .. PageSize
      /\ window[r] \in Bases /\ dst[r] \in Seq(Bytes)
  BY DEF ReaderType, Bytes
<1>2. offset[r] \in Nat /\ offset[r] < MemSize /\ size[r] \in Nat
  BY <1>1, Sizes, WindowAssumption DEF Addresses
<1>3. Len(dst[r]) \in Nat
  BY <1>1, LenProperties
<1> QED
  BY <1>1, <1>2, <1>3, BaseBounds, AlignDownIsBase DEF First

\* A piece lies inside its window and holds the bytes that follow those copied
\* so far.
LEMMA PieceIsRight ==
  ASSUME ReaderType, NEW r \in MemReaders, Reached(r), winBase = window[r]
  PROVE  /\ Chunk(r) \in Nat
         /\ Piece(r) \in [1 .. Chunk(r) -> Bytes]
         /\ \A i \in 1 .. Chunk(r) : Piece(r)[i] = offset[r] + Len(dst[r]) + i - 1
<1> USE ReaderFacts, Sizes
<1>1. Chunk(r) \in Nat
  BY DEF Chunk, Reached, Least
<1>2. ASSUME NEW i \in 1 .. Chunk(r)
      PROVE  /\ Byte(Skip(r) + i - 1) = offset[r] + Len(dst[r]) + i - 1
             /\ Byte(Skip(r) + i - 1) \in Addresses
  <2>1. CASE First(r)
    <3>1. i <= WindowSize + window[r] - offset[r] /\ i \in Nat /\ i >= 1
      BY <1>1, <2>1 DEF Chunk, Least
    <3>2. Skip(r) + i - 1 < WindowSize
      BY <2>1, <3>1 DEF Skip
    <3>3. Byte(Skip(r) + i - 1) = offset[r] + i - 1
      BY <2>1, <3>1, <3>2 DEF Byte, Skip
    <3> QED
      BY <2>1, <3>1, <3>3 DEF Reached, Addresses
  <2>2. CASE ~First(r)
    <3>1. i <= WindowSize /\ i \in Nat /\ i >= 1
      BY <1>1, <2>2 DEF Chunk, Least, Reached
    <3>2. Byte(Skip(r) + i - 1) = window[r] + i - 1
      BY <2>2, <3>1 DEF Byte, Skip
    <3> QED
      BY <2>2, <3>1, <3>2 DEF Reached, Addresses
  <2> QED
    BY <2>1, <2>2
<1>3. \A i \in 1 .. Chunk(r) : Piece(r)[i] = Byte(Skip(r) + i - 1)
  BY DEF Piece
<1>4. Piece(r) \in [1 .. Chunk(r) -> Bytes]
  BY <1>2 DEF Piece, Bytes
<1> QED
  BY <1>1, <1>2, <1>3, <1>4

\* After a piece the read is complete, or the window is used up and there is
\* another one behind it.
LEMMA ChunkLength ==
  ASSUME ReaderType, DataInv, NEW r \in MemReaders, Reached(r)
  PROVE  /\ Len(dst[r]) + Chunk(r) <= size[r]
         /\ Len(dst[r]) + Chunk(r) < size[r] =>
              /\ Len(dst[r]) + Chunk(r) = window[r] + WindowSize - offset[r]
              /\ window[r] + WindowSize < MemSize
<1> USE ReaderFacts, Sizes
<1>1. size[r] <= MemSize - offset[r]
  BY DEF DataInv
<1>2. CASE First(r)
  <2>1. /\ Len(dst[r]) = 0
        /\ Chunk(r) = Least(size[r], WindowSize + window[r] - offset[r])
    BY <1>2 DEF Reached, Chunk
  <2> QED
    BY <1>1, <1>2, <2>1 DEF Least
<1>3. CASE ~First(r)
  <2>1. /\ Len(dst[r]) = window[r] - offset[r] /\ Len(dst[r]) < size[r]
        /\ Chunk(r) = Least(size[r] - Len(dst[r]), WindowSize)
    BY <1>3 DEF Reached, Chunk
  <2> DEFINE o == offset[r]  z == size[r]  w == window[r]  n == Len(dst[r])
  <2>2. /\ o \in Nat /\ z \in Nat /\ w \in Nat /\ n \in Nat
        /\ n = w - o /\ n < z /\ z <= MemSize - o
    BY <1>1, <2>1
  <2>3. CASE z - n < WindowSize
    BY <2>1, <2>2, <2>3 DEF Least
  <2>4. CASE ~(z - n < WindowSize)
    <3>1. Chunk(r) = WindowSize
      BY <2>1, <2>4 DEF Least
    <3> HIDE DEF o, z, w, n
    <3>2. /\ n + WindowSize <= z
          /\ n + WindowSize < z => /\ n + WindowSize = w + WindowSize - o
                                   /\ w + WindowSize < MemSize
      BY <2>2, <2>4
    <3> QED
      BY <3>1, <3>2 DEF o, z, w, n
  <2> QED
    BY <2>3, <2>4
<1> QED
  BY <1>2, <1>3

-----------------------------------------------------------------------------
(***************************************************************************)
(* What every action does, seen from the reader that takes it and from the *)
(* others.                                                                 *)
(***************************************************************************)

\* Nothing that is another reader's has changed.
OthersKeep(r) ==
  \A s \in MemReaders : s # r =>
    /\ pc'[s] = pc[s] /\ offset'[s] = offset[s] /\ size'[s] = size[s]
    /\ window'[s] = window[s] /\ dst'[s] = dst[s]

\* A reader's data stay right under a step that leaves them alone.
LEMMA DataKept ==
  ASSUME NEW s \in MemReaders,
         offset'[s] = offset[s], size'[s] = size[s],
         window'[s] = window[s], dst'[s] = dst[s]
  PROVE  (Reached(s)' <=> Reached(s)) /\ (Right(s)' <=> Right(s))
BY DEF Reached, Right, First, AlignDown

\* DataInv is kept by a step of one reader that keeps it for that reader.
LEMMA DataFrame ==
  ASSUME DataInv, NEW r \in MemReaders, OthersKeep(r),
         /\ size'[r] <= MemSize - offset'[r]
         /\ pc'[r] \in {"write", "readback", "copy"} => Reached(r)' /\ Right(r)'
         /\ pc'[r] = "done" => Right(r)' /\ Len(dst'[r]) = size'[r]
  PROVE  DataInv'
<1>1. ASSUME NEW s \in MemReaders
      PROVE  /\ size'[s] <= MemSize - offset'[s]
             /\ pc'[s] \in {"write", "readback", "copy"} =>
                  Reached(s)' /\ Right(s)'
             /\ pc'[s] = "done" => Right(s)' /\ Len(dst'[s]) = size'[s]
  <2>1. CASE s = r
    BY <2>1
  <2>2. CASE s # r
    BY <2>2, DataKept DEF OthersKeep, DataInv
  <2> QED
    BY <2>1, <2>2
<1> QED
  BY <1>1 DEF DataInv, MemSize

\* Where one reader may move the window, no other is about to use it.
LEMMA Alone ==
  ASSUME LockInv, NEW r \in MemReaders, MayMove(r),
         NEW s \in MemReaders, s # r
  PROVE  pc[s] \notin {"readback", "copy"}
BY WindowAssumption DEF LockInv, MayMove, Nobody

\* A step keeps the account of the faults if it injects none, fails no read,
\* and neither arms nor swallows anything.
LEMMA FaultFrame ==
  ASSUME DeviceType, FaultInv, UNCHANGED <<failures, injects, winIgnore>>,
         Swallowed' => Swallowed
  PROVE  FaultInv'
<1>1. Bit(Swallowed') <= Bit(Swallowed) /\ Bit(winIgnore') = Bit(winIgnore)
  BY DEF Bit
<1>2. /\ Bit(Swallowed') \in Int /\ Bit(Swallowed) \in Int
      /\ Bit(winIgnore) \in Int /\ failures \in Int /\ injects \in Int
  BY WindowAssumption DEF Bit, DeviceType
<1> QED
  BY <1>1, <1>2 DEF FaultInv

-----------------------------------------------------------------------------
(***************************************************************************)
(* The steps.                                                              *)
(***************************************************************************)

\* A fault is armed or disarmed.
LEMMA InjectStep == ASSUME WindowIInv, Inject PROVE WindowIInv'
<1>0. DeviceType /\ ReaderType /\ LockInv /\ SeekInv /\ DataInv /\ FaultInv
  BY DEF WindowIInv, WindowTypeOK
<1>1. UNCHANGED <<winPending, winBase, base, winLock, readerVars, failures>>
  BY DEF Inject
<1>2. UNCHANGED <<pc, offset, size, window, dst>>
  BY <1>1 DEF readerVars
<1>3. \/ injects < MaxInjects /\ winIgnore' = TRUE /\ injects' = injects + 1
      \/ winIgnore /\ winIgnore' = FALSE /\ injects' = injects
  BY DEF Inject
<1>4. DeviceType'
  <2>1. injects' \in 0 .. MaxInjects
    BY <1>0, <1>3, WindowAssumption DEF DeviceType
  <2>2. winIgnore' \in BOOLEAN
    BY <1>3
  <2> QED
    BY <1>0, <1>1, <2>1, <2>2 DEF DeviceType
<1>5. ReaderType' /\ LockInv' /\ SeekInv'
  BY <1>0, <1>1, <1>2 DEF ReaderType, LockInv, SeekInv
<1>6. DataInv'
  BY <1>0, <1>2, DataKept DEF DataInv
<1>7. Swallowed' <=> Swallowed
  BY <1>1, <1>2 DEF Swallowed
<1>8. FaultInv'
  <2>1. Bit(Swallowed') = Bit(Swallowed) /\ Bit(Swallowed) \in Int
    BY <1>7 DEF Bit
  <2>2. failures \in Int /\ injects \in Int /\ failures' = failures
    BY <1>0, <1>1, WindowAssumption DEF DeviceType
  <2>3. \/ Bit(winIgnore') <= Bit(winIgnore) + 1 /\ injects' = injects + 1
        \/ Bit(winIgnore') <= Bit(winIgnore) /\ injects' = injects
    BY <1>3 DEF Bit
  <2>4. Bit(winIgnore') \in Int /\ Bit(winIgnore) \in Int
    BY DEF Bit
  <2> QED
    BY <1>0, <2>1, <2>2, <2>3, <2>4 DEF FaultInv
<1> QED
  BY <1>4, <1>5, <1>6, <1>8 DEF WindowIInv, WindowTypeOK

\* A read starts: nothing is copied, and the window is that of the offset.
LEMMA BeginStep ==
  ASSUME WindowIInv, NEW r \in MemReaders, NEW a \in 0 .. MemSize,
         NEW len \in 0 .. PageSize + 1, ReadBegin(r, a, len)
  PROVE  WindowIInv'
<1>0. DeviceType /\ ReaderType /\ LockInv /\ SeekInv /\ DataInv /\ FaultInv
  BY DEF WindowIInv, WindowTypeOK
<1> DEFINE z == Least(Least(len, MemSize - a), PageSize)
<1>1. /\ pc[r] = "idle" /\ a < MemSize
      /\ pc' = [pc EXCEPT ![r] = "write"]
      /\ offset' = [offset EXCEPT ![r] = a]
      /\ size' = [size EXCEPT ![r] = z]
      /\ window' = [window EXCEPT ![r] = AlignDown(a)]
      /\ dst' = [dst EXCEPT ![r] = <<>>]
      /\ UNCHANGED <<winPending, winBase, winIgnore>>
      /\ UNCHANGED <<base, winLock, injects, failures>>
  BY DEF ReadBegin, SeekGoto, deviceVars
<1>2. a \in Addresses
  BY <1>1, Sizes DEF Addresses
<1>3. z \in 0 .. PageSize /\ z <= MemSize - a
  BY <1>1, Sizes, WindowAssumption DEF Least
<1>4. AlignDown(a) \in Bases
  BY <1>2, AlignDownIsBase
<1> HIDE DEF z
<1>5. /\ pc'[r] = "write" /\ offset'[r] = a /\ size'[r] = z
      /\ window'[r] = AlignDown(a) /\ dst'[r] = <<>>
  BY <1>0, <1>1 DEF ReaderType
<1>6. OthersKeep(r)
  BY <1>0, <1>1 DEF ReaderType, OthersKeep
<1>7. DeviceType'
  BY <1>0, <1>1 DEF DeviceType
<1>8. ReaderType'
  BY <1>0, <1>1, <1>2, <1>3, <1>4 DEF ReaderType
<1>9. LockInv' /\ SeekInv'
  BY <1>0, <1>1, <1>5, <1>6 DEF LockInv, SeekInv, OthersKeep
<1>10. DataInv'
  <2>1. Reached(r)' /\ Right(r)'
    BY <1>5 DEF Reached, Right, First, AlignDown
  <2> QED
    BY <1>0, <1>3, <1>5, <1>6, <2>1, DataFrame
<1>11. Swallowed' => Swallowed
  BY <1>1, <1>5, <1>6 DEF Swallowed, OthersKeep
<1>12. FaultInv'
  BY <1>0, <1>1, <1>11, FaultFrame
<1> QED
  BY <1>7, <1>8, <1>9, <1>10, <1>12 DEF WindowIInv, WindowTypeOK

\* The base is written: by now nobody else is in a seek or in a copy, and the
\* write is swallowed only if a fault was armed.
LEMMA SeekWriteStep ==
  ASSUME WindowIInv, NEW r \in MemReaders, SeekWrite(r)
  PROVE  WindowIInv'
<1>0. DeviceType /\ ReaderType /\ LockInv /\ SeekInv /\ DataInv /\ FaultInv
  BY DEF WindowIInv, WindowTypeOK
<1>1. /\ pc[r] = "write" /\ MayMove(r) /\ winLock' = r
      /\ pc' = [pc EXCEPT ![r] = "readback"]
      /\ winIgnore' = FALSE
      /\ UNCHANGED <<winBase, base, offset, size, window, dst>>
      /\ UNCHANGED <<injects, failures>>
  BY DEF SeekWrite, WriteBase, SeekGoto
<1>2. window[r] \in Bases
  BY <1>0 DEF ReaderType
<1>3. winPending' = IF winIgnore THEN winPending ELSE window[r]
  BY <1>2 DEF SeekWrite, WriteBase
<1>4. pc'[r] = "readback"
  BY <1>0, <1>1 DEF ReaderType
<1>5. OthersKeep(r)
  BY <1>0, <1>1 DEF ReaderType, OthersKeep
<1>6. \A s \in MemReaders : s # r => pc[s] \notin {"readback", "copy"}
  BY <1>0, <1>1, Alone
<1>7. DeviceType'
  BY <1>0, <1>1, <1>2, <1>3 DEF DeviceType
<1>8. ReaderType'
  BY <1>0, <1>1 DEF ReaderType
<1>9. LockInv' /\ SeekInv'
  BY <1>0, <1>1, <1>4, <1>5, <1>6 DEF LockInv, SeekInv, OthersKeep
<1>10. DataInv'
  <2>1. Reached(r)' /\ Right(r)' /\ size'[r] <= MemSize - offset'[r]
    BY <1>0, <1>1, DataKept DEF DataInv
  <2> QED
    BY <1>0, <1>4, <1>5, <2>1, DataFrame
<1>11. FaultInv'
  <2>1. ~winIgnore => ~Swallowed'
    BY <1>1, <1>3, <1>5, <1>6 DEF Swallowed, OthersKeep
  <2>2. ~Swallowed
    BY <1>1, <1>6 DEF Swallowed
  <2>3. Bit(winIgnore') + Bit(Swallowed') <= Bit(winIgnore) + Bit(Swallowed)
    BY <1>1, <2>1, <2>2 DEF Bit
  <2>4. /\ Bit(winIgnore') \in Int /\ Bit(Swallowed') \in Int
        /\ Bit(winIgnore) \in Int /\ Bit(Swallowed) \in Int
    BY DEF Bit
  <2>5. failures \in Int /\ injects \in Int
    BY <1>0, WindowAssumption DEF DeviceType
  <2> QED
    BY <1>0, <1>1, <2>3, <2>4, <2>5 DEF FaultInv
<1> QED
  BY <1>7, <1>8, <1>9, <1>10, <1>11 DEF WindowIInv, WindowTypeOK

\* The base is read back: the read fails only if its write was swallowed.
LEMMA ReadBackStep ==
  ASSUME WindowIInv, NEW r \in MemReaders, SeekReadBack(r)
  PROVE  WindowIInv'
<1>0. DeviceType /\ ReaderType /\ LockInv /\ SeekInv /\ DataInv /\ FaultInv
  BY DEF WindowIInv, WindowTypeOK
<1>1. /\ pc[r] = "readback" /\ winBase' = winPending /\ base' = winPending
      /\ UNCHANGED <<winPending, winIgnore, offset, size, window, dst, injects>>
  BY DEF SeekReadBack, Promote
<1>2. \/ /\ winPending = window[r] /\ pc' = [pc EXCEPT ![r] = "copy"]
         /\ winLock' = winLock /\ failures' = failures
      \/ /\ winPending # window[r] /\ pc' = [pc EXCEPT ![r] = "idle"]
         /\ winLock' = Nobody /\ failures' = failures + 1
  BY DEF SeekReadBack, Promote, SeekGoto
<1>3. winLock = r
  BY <1>0, <1>1 DEF LockInv
<1>4. \A s \in MemReaders : s # r => pc[s] \notin {"readback", "copy"}
  BY <1>0, <1>3, Alone DEF MayMove
<1>5. /\ pc'[r] \in {"copy", "idle"}
      /\ pc'[r] = "copy" => winLock' = r /\ winPending = window[r]
  BY <1>0, <1>2, <1>3 DEF ReaderType
<1>6. OthersKeep(r)
  BY <1>0, <1>1, <1>2 DEF ReaderType, OthersKeep
<1>7. DeviceType'
  BY <1>0, <1>1, <1>2 DEF DeviceType
<1>8. ReaderType'
  BY <1>0, <1>1, <1>2 DEF ReaderType
<1>9. LockInv' /\ SeekInv'
  BY <1>1, <1>4, <1>5, <1>6 DEF LockInv, SeekInv, OthersKeep
<1>10. DataInv'
  <2>1. Reached(r)' /\ Right(r)' /\ size'[r] <= MemSize - offset'[r]
    BY <1>0, <1>1, DataKept DEF DataInv
  <2> QED
    BY <1>0, <1>5, <1>6, <2>1, DataFrame
<1>11. FaultInv'
  <2>1. ~Swallowed'
    BY <1>4, <1>5, <1>6 DEF Swallowed, OthersKeep
  <2>2. failures' # failures => Swallowed
    BY <1>1, <1>2 DEF Swallowed
  <2>3. /\ Bit(winIgnore) \in Int /\ Bit(Swallowed') = 0 /\ Bit(Swallowed) >= 0
        /\ Bit(Swallowed) \in Int /\ (Swallowed => Bit(Swallowed) = 1)
    BY <2>1 DEF Bit
  <2>4. failures \in Int /\ injects \in Int
    BY <1>0, WindowAssumption DEF DeviceType
  <2>5. failures' + Bit(Swallowed') <= failures + Bit(Swallowed)
    BY <1>2, <2>2, <2>3, <2>4
  <2>6. failures' \in Int /\ winIgnore' = winIgnore /\ injects' = injects
    BY <1>1, <1>2, <2>4
  <2> QED
    BY <1>0, <2>3, <2>4, <2>5, <2>6 DEF FaultInv
<1> QED
  BY <1>7, <1>8, <1>9, <1>10, <1>11 DEF WindowIInv, WindowTypeOK

\* One window is copied: either the read is complete, or the next window
\* follows.
LEMMA CopyStep ==
  ASSUME WindowIInv, NEW r \in MemReaders, CopyWindow(r)
  PROVE  WindowIInv'
<1>0. DeviceType /\ ReaderType /\ LockInv /\ SeekInv /\ DataInv /\ FaultInv
  BY DEF WindowIInv, WindowTypeOK
<1> DEFINE all == dst[r] \o Piece(r)
<1>1. /\ pc[r] = "copy" /\ dst' = [dst EXCEPT ![r] = all]
      /\ UNCHANGED <<winPending, winBase, winIgnore>>
      /\ UNCHANGED <<base, offset, size, injects, failures>>
  BY DEF CopyWindow, deviceVars, Piece
<1>2. \/ /\ Len(all) < size[r]
         /\ window' = [window EXCEPT ![r] = window[r] + WindowSize]
         /\ pc' = [pc EXCEPT ![r] = "write"] /\ winLock' = winLock
      \/ /\ Len(all) >= size[r] /\ winLock' = Nobody
         /\ pc' = [pc EXCEPT ![r] = "done"] /\ window' = window
  BY DEF CopyWindow, SeekGoto, Piece
<1>3. winLock = r /\ winBase = window[r] /\ Reached(r) /\ Right(r)
  BY <1>0, <1>1 DEF LockInv, SeekInv, DataInv
<1>4. \A s \in MemReaders : s # r => pc[s] \notin {"readback", "copy"}
  BY <1>0, <1>3, Alone DEF MayMove
<1>5. /\ dst[r] \in Seq(Bytes) /\ Len(dst[r]) \in Nat /\ Chunk(r) \in Nat
      /\ Piece(r) \in [1 .. Chunk(r) -> Bytes]
      /\ \A i \in 1 .. Chunk(r) : Piece(r)[i] = offset[r] + Len(dst[r]) + i - 1
  BY <1>0, <1>3, ReaderFacts, PieceIsRight
<1>6. /\ all \in Seq(Bytes) /\ Len(all) = Len(dst[r]) + Chunk(r)
      /\ \A i \in 1 .. Len(dst[r]) : all[i] = dst[r][i]
      /\ \A i \in 1 .. Len(dst[r]) + Chunk(r) :
           i > Len(dst[r]) => all[i] = Piece(r)[i - Len(dst[r])]
  BY <1>5, Appended
<1>7. ASSUME NEW i \in 1 .. Len(all) PROVE all[i] = offset[r] + i - 1
  <2>1. CASE i <= Len(dst[r])
    BY <1>3, <1>5, <1>6, <2>1 DEF Right
  <2>2. CASE i > Len(dst[r])
    <3>1. i - Len(dst[r]) \in 1 .. Chunk(r)
      BY <1>5, <1>6, <2>2
    <3>2. all[i] = offset[r] + Len(dst[r]) + (i - Len(dst[r])) - 1
      BY <1>5, <1>6, <2>2, <3>1
    <3> QED
      BY <1>0, <1>5, <3>2, ReaderFacts
  <2> QED
    BY <1>5, <1>6, <2>1, <2>2
<1>8. /\ Len(all) <= size[r]
      /\ Len(all) < size[r] => /\ Len(all) = window[r] + WindowSize - offset[r]
                               /\ window[r] + WindowSize < MemSize
  BY <1>0, <1>3, <1>6, ChunkLength
<1> HIDE DEF all
<1>9. dst'[r] = all /\ offset'[r] = offset[r] /\ size'[r] = size[r]
  BY <1>0, <1>1 DEF ReaderType
<1>10. /\ pc'[r] \in {"write", "done"}
       /\ pc'[r] = "write" => /\ Len(all) < size[r]
                              /\ window'[r] = window[r] + WindowSize
       /\ pc'[r] = "done" => Len(all) >= size[r]
  BY <1>0, <1>2 DEF ReaderType
<1>11. OthersKeep(r)
  BY <1>0, <1>1, <1>2 DEF ReaderType, OthersKeep
<1>12. DeviceType'
  BY <1>0, <1>1 DEF DeviceType
<1>13. ReaderType'
  <2>1. Len(all) < size[r] => window[r] + WindowSize \in Bases
    BY <1>0, <1>8, NextBase, ReaderFacts
  <2>2. window' \in [MemReaders -> Bases]
    BY <1>0, <1>2, <2>1 DEF ReaderType
  <2>3. dst' \in [MemReaders -> Seq(Bytes)]
    BY <1>0, <1>1, <1>6 DEF ReaderType, Bytes
  <2>4. /\ winLock' \in MemReaders \cup {Nobody}
        /\ pc' \in [MemReaders -> {"idle", "write", "readback", "copy", "done"}]
    BY <1>0, <1>2 DEF ReaderType
  <2> QED
    BY <1>0, <1>1, <2>2, <2>3, <2>4 DEF ReaderType, Bytes
<1>14. LockInv' /\ SeekInv'
  BY <1>4, <1>10, <1>11 DEF LockInv, SeekInv, OthersKeep
<1>15. DataInv'
  <2>1. Right(r)'
    BY <1>7, <1>9 DEF Right
  <2>2. ASSUME pc'[r] = "write" PROVE Reached(r)'
    <3>0. window'[r] = window[r] + WindowSize /\ Len(all) < size[r]
      BY <1>10, <2>2
    <3>1. /\ window'[r] = window[r] + WindowSize
          /\ Len(all) = window'[r] - offset[r] /\ Len(all) < size[r]
      BY <1>0, <1>8, <3>0, ReaderFacts, Sizes
    <3>2. offset[r] < window'[r] /\ window'[r] # AlignDown(offset[r])
      <4>1. offset[r] \in Nat /\ window[r] \in Nat /\ offset[r] \in Addresses
        BY <1>0, ReaderFacts
      <4>2. offset[r] < window[r] + WindowSize
        BY <1>0, <1>3, <4>1, ReaderFacts, Sizes DEF Reached
      <4>3. AlignDown(offset[r]) <= offset[r] /\ AlignDown(offset[r]) \in Nat
        BY <4>1, AlignDownIsBase, BaseBounds
      <4> QED
        BY <3>1, <4>1, <4>2, <4>3
    <3>3. ~First(r)'
      BY <1>9, <3>2 DEF First, AlignDown
    <3> QED
      BY <1>9, <3>1, <3>2, <3>3 DEF Reached
  <2>3. pc'[r] = "done" => Len(dst'[r]) = size'[r]
    <3>1. Len(all) \in Nat /\ size[r] \in Nat
      BY <1>0, <1>5, <1>6, ReaderFacts
    <3> QED
      BY <1>8, <1>9, <1>10, <3>1
  <2>4. size'[r] <= MemSize - offset'[r]
    BY <1>0, <1>9 DEF DataInv
  <2> QED
    BY <1>0, <1>10, <1>11, <2>1, <2>2, <2>3, <2>4, DataFrame
<1>16. Swallowed' => Swallowed
  BY <1>1, <1>10, <1>11 DEF Swallowed, OthersKeep
<1>17. FaultInv'
  BY <1>0, <1>1, <1>16, FaultFrame
<1> QED
  BY <1>12, <1>13, <1>14, <1>15, <1>17 DEF WindowIInv, WindowTypeOK

\* A read that is complete returns.
LEMMA EndStep ==
  ASSUME WindowIInv, NEW r \in MemReaders, ReadEnd(r)
  PROVE  WindowIInv'
<1>0. DeviceType /\ ReaderType /\ LockInv /\ SeekInv /\ DataInv /\ FaultInv
  BY DEF WindowIInv, WindowTypeOK
<1>1. /\ pc[r] = "done" /\ pc' = [pc EXCEPT ![r] = "idle"]
      /\ UNCHANGED <<winPending, winBase, winIgnore>>
      /\ UNCHANGED <<base, winLock, offset, size, window, dst, injects, failures>>
  BY DEF ReadEnd, SeekGoto, deviceVars
<1>2. pc'[r] = "idle"
  BY <1>0, <1>1 DEF ReaderType
<1>3. OthersKeep(r)
  BY <1>0, <1>1 DEF ReaderType, OthersKeep
<1>4. DeviceType'
  BY <1>0, <1>1 DEF DeviceType
<1>5. ReaderType'
  BY <1>0, <1>1 DEF ReaderType
<1>6. LockInv' /\ SeekInv'
  BY <1>0, <1>1, <1>2, <1>3 DEF LockInv, SeekInv, OthersKeep
<1>7. DataInv'
  <2>1. size'[r] <= MemSize - offset'[r]
    BY <1>0, <1>1 DEF DataInv
  <2> QED
    BY <1>0, <1>2, <1>3, <2>1, DataFrame
<1>8. Swallowed' => Swallowed
  BY <1>1, <1>2, <1>3 DEF Swallowed, OthersKeep
<1>9. FaultInv'
  BY <1>0, <1>1, <1>8, FaultFrame
<1> QED
  BY <1>4, <1>5, <1>6, <1>7, <1>9 DEF WindowIInv, WindowTypeOK

\* A step that changes nothing.
LEMMA WindowStutterStep == ASSUME WindowIInv, UNCHANGED windowVars PROVE WindowIInv'
<1>0. DeviceType /\ ReaderType /\ LockInv /\ SeekInv /\ DataInv /\ FaultInv
  BY DEF WindowIInv, WindowTypeOK
<1>1. /\ UNCHANGED <<winPending, winBase, winIgnore, base, injects, failures>>
      /\ UNCHANGED <<winLock, pc, offset, size, window, dst>>
  BY DEF windowVars, deviceVars, readerVars
<1>2. DeviceType' /\ ReaderType' /\ LockInv' /\ SeekInv'
  BY <1>0, <1>1 DEF DeviceType, ReaderType, LockInv, SeekInv
<1>3. DataInv'
  BY <1>0, <1>1, DataKept DEF DataInv
<1>4. Swallowed' => Swallowed
  BY <1>1 DEF Swallowed
<1>5. FaultInv'
  BY <1>0, <1>1, <1>4, FaultFrame
<1> QED
  BY <1>2, <1>3, <1>5 DEF WindowIInv, WindowTypeOK

-----------------------------------------------------------------------------
(***************************************************************************)
(* The theorems.                                                           *)
(***************************************************************************)

\* The invariant holds in every reachable state.
THEOREM WindowInvariant == WindowSpec => []WindowIInv
<1>1. WindowIInv /\ [WindowNext]_windowVars => WindowIInv'
  BY InjectStep, BeginStep, SeekWriteStep, ReadBackStep, CopyStep, EndStep,
     WindowStutterStep DEF WindowNext, Read
<1> QED
  BY WindowInitInv, <1>1, PTL DEF WindowSpec

\* Every variable stays in its type: the driver never asks for a window outside
\* of memory or off its alignment.
THEOREM WindowTypeCorrect == WindowSpec => []WindowTypeOK
<1>1. WindowIInv => WindowTypeOK
  BY DEF WindowIInv
<1> QED
  BY WindowInvariant, <1>1, PTL

\* velocitor_window_read() returns the bytes it was asked for, in order and all
\* of them, whatever the other readers do and whichever writes are swallowed.
THEOREM ReadsAreRequested == WindowSpec => []ReadsRequested
<1>1. ASSUME WindowIInv, NEW r \in MemReaders, pc[r] # "idle"
      PROVE  /\ \A i \in 1 .. Len(dst[r]) : dst[r][i] = offset[r] + i - 1
             /\ pc[r] = "done" => Len(dst[r]) = size[r]
  <2>1. pc[r] \in {"write", "readback", "copy", "done"}
    BY <1>1 DEF WindowIInv, WindowTypeOK, ReaderType
  <2> QED
    BY <1>1, <2>1 DEF WindowIInv, DataInv, Right
<1>2. WindowIInv => ReadsRequested
  BY <1>1 DEF ReadsRequested
<1> QED
  BY WindowInvariant, <1>2, PTL

\* A swallowed write of WIN_BASE fails at most one read: the next one recovers.
THEOREM FaultsPass == WindowSpec => []FaultsAreTransient
<1>1. ASSUME WindowIInv PROVE FaultsAreTransient
  <2>1. failures \in Int /\ injects \in Int
    BY <1>1, WindowAssumption DEF WindowIInv, WindowTypeOK, DeviceType
  <2>2. failures + Bit(winIgnore) + Bit(Swallowed) <= injects
    BY <1>1 DEF WindowIInv, FaultInv
  <2>3. Bit(Swallowed) \in Int /\ Bit(Swallowed) >= 0 /\ Bit(winIgnore) \in Int
    BY DEF Bit
  <2>4. failures + Bit(winIgnore) <= injects
    BY <2>1, <2>2, <2>3
  <2> QED
    BY <2>4 DEF FaultsAreTransient, Bit
<1> QED
  BY WindowInvariant, <1>1, PTL

-----------------------------------------------------------------------------
(***************************************************************************)
(* Counters.  The argument: from its CNT_SNAP to its last register a       *)
(* reader holds the lock, so neither another snapshot nor a reset of the   *)
(* card comes between, and the snapshot is a value the counters had during *)
(* its call.                                                               *)
(***************************************************************************)
CounterValues == [Regs -> 0 .. Word - 1]

HistoryType ==
  /\ got \in [Readers -> Seq(0 .. Word - 1)]
  /\ seen \in [Readers -> SUBSET CounterValues]

\* The lock is held by one thread at most: who is in the function.
CntLockInv ==
  /\ \A t \in Threads : tpc[t] \in {"act", "read"} <=> t \in cntLock
  /\ \A t, u \in cntLock : t = u

\* What a reader has so far is c, in the order of its reads, and the counters
\* were c during its call.
Shows(t, c) ==
  c \in seen[t] /\ \A i \in 1 .. Len(got[t]) : got[t][i] = c[Order[i]]

\* A call has seen the current values, has nothing before its snapshot, and
\* what it has after it is of the snapshot.
SnapInv ==
  \A t \in Readers :
    /\ tpc[t] \in {"lock", "act", "read"} => cnt \in seen[t]
    /\ tpc[t] \in {"lock", "act"} => got[t] = <<>>
    /\ tpc[t] = "read" => Shows(t, snap)

CountersIInv ==
  CountersTypeOK /\ HistoryType /\ CntLockInv /\ SnapInv /\ OneInstant

\* The registers of the model.
LEMMA Registers ==
  /\ Len(Order) = 6 /\ DOMAIN Order = 1 .. 6
  /\ \A i \in 1 .. 6 : Order[i] \in Regs
  /\ {"desc", "dma_rd", "bytes_lo", "bytes_hi", "far", "cycles"} \subseteq Regs
<1>1. /\ Len(Order) = 6 /\ DOMAIN Order = 1 .. 6
      /\ Order[1] = "desc" /\ Order[2] = "dma_rd" /\ Order[3] = "bytes_lo"
      /\ Order[4] = "bytes_hi" /\ Order[5] = "far" /\ Order[6] = "cycles"
  BY DEF Order
<1> HIDE DEF Order
<1>2. \A i \in 1 .. 6 : Order[i] \in Regs
  BY <1>1 DEF Regs
<1>3. {Order[1], Order[2], Order[3], Order[4], Order[5], Order[6]} \subseteq Regs
  BY <1>2
<1> QED
  BY <1>1, <1>2, <1>3

\* A counter that goes up stays in its width.
LEMMA AddType ==
  ASSUME NEW c \in CounterValues, NEW r \in Regs, NEW n \in Nat
  PROVE  Add(c, r, n) \in CounterValues
<1>1. c[r] \in Nat
  BY SizeAssumption DEF CounterValues
<1>2. (c[r] + n) % Word \in 0 .. Word - 1
  BY <1>1, SizeAssumption
<1> QED
  BY <1>2 DEF Add, CounterValues

\* All counters at zero are values of the counters.
LEMMA ZeroType == Zero \in CounterValues
BY SizeAssumption DEF Zero, CounterValues

\* The invariant holds before the first call.
LEMMA CountersInitInv == CountersInit => CountersIInv
<1> SUFFICES ASSUME CountersInit PROVE CountersIInv
  OBVIOUS
<1>1. cnt \in CounterValues /\ snap \in CounterValues
  BY ZeroType DEF CountersInit
<1>2. got \in [Readers -> Seq(0 .. Word - 1)] /\ \A t \in Readers : Len(got[t]) = 0
  BY DEF CountersInit
<1>3. seen \in [Readers -> SUBSET CounterValues]
  BY ZeroType DEF CountersInit
<1>4. CountersTypeOK
  <2>1. \A t \in Readers : Len(got[t]) <= Len(Order)
    BY <1>2, Registers
  <2>2. cntLock \subseteq Threads /\ tpc \in [Threads -> {"idle"}]
    BY DEF CountersInit
  <2> QED
    BY <1>1, <2>1, <2>2 DEF CountersTypeOK, CounterValues
<1>5. CntLockInv
  BY DEF CntLockInv, CountersInit
<1>6. SnapInv
  BY DEF SnapInv, CountersInit, Threads
<1>7. OneInstant
  BY DEF OneInstant, CountersInit
<1> QED
  BY <1>2, <1>3, <1>4, <1>5, <1>6, <1>7 DEF CountersIInv, HistoryType

\* The device counts: every call in progress has seen the values before and
\* sees those after, and the snapshot stays.
LEMMA CountStep ==
  ASSUME CountersIInv, NEW c \in CounterValues, Count(c),
         UNCHANGED <<snap, drvVars>>
  PROVE  CountersIInv'
<1>0. CountersTypeOK /\ HistoryType /\ CntLockInv /\ SnapInv /\ OneInstant
  BY DEF CountersIInv
<1>1. /\ cnt' = c /\ snap' = snap /\ cntLock' = cntLock /\ tpc' = tpc /\ got' = got
      /\ seen' = [t \in Readers |-> IF tpc[t] = "idle" THEN seen[t]
                                                      ELSE seen[t] \cup {c}]
  BY DEF Count, drvVars
<1>2. CountersTypeOK'
  BY <1>0, <1>1 DEF CountersTypeOK, CounterValues
<1>3. seen' \in [Readers -> SUBSET CounterValues]
  BY <1>0, <1>1 DEF HistoryType
<1>4. \A t \in Readers : /\ seen[t] \subseteq seen'[t]
                         /\ tpc[t] # "idle" => c \in seen'[t]
                         /\ tpc[t] = "idle" => seen'[t] = seen[t]
  BY <1>1
<1>5. SnapInv'
  BY <1>0, <1>1, <1>4 DEF SnapInv, Shows
<1>6. OneInstant'
  BY <1>0, <1>1, <1>4 DEF OneInstant
<1> QED
  BY <1>0, <1>1, <1>2, <1>3, <1>5, <1>6 DEF CountersIInv, HistoryType, CntLockInv

\* Every action of the device that counts is such a step.
LEMMA DeviceCounts ==
  ASSUME CountersIInv,
         \/ \E h2d, far \in BOOLEAN, len \in 1 .. MaxLen : Serve(h2d, far, len)
         \/ Refuse
         \/ \E len \in 1 .. MaxLen : DebugDma(len)
  PROVE  CountersIInv'
<1>0. cnt \in CounterValues
  BY DEF CountersIInv, CountersTypeOK, CounterValues
<1>1. ASSUME NEW h2d \in BOOLEAN, NEW far \in BOOLEAN, NEW len \in 1 .. MaxLen,
             Serve(h2d, far, len)
      PROVE  CountersIInv'
  <2> DEFINE n == IF h2d THEN 1 ELSE 0
             c1 == Add(cnt, "desc", 1)
             c2 == Add(c1, "dma_rd", Transport + n)
             c3 == Add(c2, "bytes_lo", Transport + n * len)
  <2>1. Transport + n \in Nat /\ Transport + n * len \in Nat
    BY SizeAssumption
  <2> HIDE DEF n
  <2>2. c3 \in CounterValues
    <3>1. c1 \in CounterValues
      BY <1>0, Registers, AddType
    <3> HIDE DEF c1
    <3>2. c2 \in CounterValues
      BY <2>1, <3>1, Registers, AddType
    <3> HIDE DEF c2
    <3> QED
      BY <2>1, <3>2, Registers, AddType
  <2>3. Count(Charge(c3, far)) /\ UNCHANGED <<snap, drvVars>>
    BY <1>1 DEF Serve, HostReads, n
  <2> HIDE DEF c1, c2, c3
  <2>4. Charge(c3, far) \in CounterValues
    <3>1. Add(c3, "far", 1) \in CounterValues /\ Add(c3, "cycles", 1) \in CounterValues
      BY <2>2, Registers, AddType
    <3>2. Add(Add(c3, "far", 1), "cycles", Penalty) \in CounterValues
      BY <3>1, Registers, AddType, SizeAssumption
    <3> QED
      BY <3>1, <3>2 DEF Charge
  <2> QED
    BY <2>3, <2>4, CountStep
<1>2. ASSUME Refuse PROVE CountersIInv'
  <2> DEFINE c1 == Add(cnt, "desc", 1)
             c2 == Add(c1, "dma_rd", Transport)
             c3 == Add(c2, "bytes_lo", Transport)
  <2>1. Count(c3) /\ UNCHANGED <<snap, drvVars>>
    BY <1>2 DEF Refuse, HostReads
  <2>2. c1 \in CounterValues
    BY <1>0, Registers, AddType
  <2> HIDE DEF c1
  <2>3. c2 \in CounterValues
    BY <2>2, Registers, AddType, SizeAssumption
  <2> HIDE DEF c2
  <2>4. c3 \in CounterValues
    BY <2>3, Registers, AddType, SizeAssumption
  <2> HIDE DEF c3
  <2> QED
    BY <2>1, <2>4, CountStep
<1>3. ASSUME NEW len \in 1 .. MaxLen, DebugDma(len) PROVE CountersIInv'
  <2> DEFINE c1 == Add(cnt, "dma_rd", 1)
             c2 == Add(c1, "bytes_lo", len)
  <2>1. Count(c2) /\ UNCHANGED <<snap, drvVars>>
    BY <1>3 DEF DebugDma, HostReads
  <2>2. c1 \in CounterValues
    BY <1>0, Registers, AddType
  <2> HIDE DEF c1
  <2>3. c2 \in CounterValues
    BY <2>2, Registers, AddType
  <2> HIDE DEF c2
  <2> QED
    BY <2>1, <2>3, CountStep
<1> QED
  BY <1>1, <1>2, <1>3

\* What a step of one thread leaves of the others: all of it.
LEMMA ThreadStep ==
  ASSUME CountersTypeOK, NEW t \in Threads, NEW l, ThreadGoto(t, l)
  PROVE  tpc'[t] = l /\ \A u \in Threads : u # t => tpc'[u] = tpc[u]
BY DEF CountersTypeOK, ThreadGoto

\* A call begins: it has seen the values of now, and has nothing.
LEMMA CallStep ==
  ASSUME CountersIInv, NEW t \in Threads, Call(t)
  PROVE  CountersIInv'
<1>0. CountersTypeOK /\ HistoryType /\ CntLockInv /\ SnapInv /\ OneInstant
  BY DEF CountersIInv
<1>1. /\ tpc[t] = "idle" /\ ThreadGoto(t, "lock")
      /\ UNCHANGED <<cnt, snap, cntLock>>
  BY DEF Call
<1>2. tpc'[t] = "lock" /\ \A u \in Threads : u # t => tpc'[u] = tpc[u]
  BY <1>0, <1>1, ThreadStep
<1>3. /\ HistoryType'
      /\ \A u \in Readers : u # t => seen'[u] = seen[u] /\ got'[u] = got[u]
      /\ t \in Readers => seen'[t] = {cnt} /\ got'[t] = <<>>
  <2>0. cnt \in CounterValues /\ <<>> \in Seq(0 .. Word - 1)
    BY <1>0 DEF CountersTypeOK, CounterValues
  <2>1. CASE t \in Readers
    <3>1. seen' = [seen EXCEPT ![t] = {cnt}] /\ got' = [got EXCEPT ![t] = <<>>]
      BY <2>1 DEF Call
    <3> QED
      BY <1>0, <2>0, <2>1, <3>1 DEF HistoryType
  <2>2. CASE t \notin Readers
    <3>1. seen' = seen /\ got' = got
      BY <2>2 DEF Call
    <3> QED
      BY <1>0, <2>2, <3>1 DEF HistoryType
  <2> QED
    BY <2>1, <2>2
<1>4. CountersTypeOK'
  <2>1. ASSUME NEW u \in Readers PROVE Len(got'[u]) <= Len(Order)
    <3>1. CASE u = t
      BY <1>3, <2>1, <3>1, Registers
    <3>2. CASE u # t
      BY <1>0, <1>3, <2>1, <3>2 DEF CountersTypeOK
    <3> QED
      BY <3>1, <3>2
  <2> QED
    BY <1>0, <1>1, <2>1 DEF CountersTypeOK, ThreadGoto
<1>5. CntLockInv'
  BY <1>0, <1>1, <1>2 DEF CntLockInv
<1>6. SnapInv'
  BY <1>0, <1>1, <1>2, <1>3 DEF SnapInv, Shows, Threads
<1>7. OneInstant'
  BY <1>0, <1>1, <1>2, <1>3 DEF OneInstant, Threads
<1> QED
  BY <1>3, <1>4, <1>5, <1>6, <1>7 DEF CountersIInv

\* The lock is taken, by one thread.
LEMMA AcquireStep ==
  ASSUME CountersIInv, NEW t \in Threads, Acquire(t)
  PROVE  CountersIInv'
<1>0. CountersTypeOK /\ HistoryType /\ CntLockInv /\ SnapInv /\ OneInstant
  BY DEF CountersIInv
<1>1. /\ tpc[t] = "lock" /\ ThreadGoto(t, "act")
      /\ cntLock = {} /\ cntLock' = {t}
      /\ UNCHANGED <<cnt, snap, seen, got>>
  BY DEF Acquire, LockFree
<1>2. tpc'[t] = "act" /\ \A u \in Threads : u # t => tpc'[u] = tpc[u]
  BY <1>0, <1>1, ThreadStep
<1>3. CountersTypeOK'
  BY <1>0, <1>1 DEF CountersTypeOK, ThreadGoto
<1>4. HistoryType'
  BY <1>0, <1>1 DEF HistoryType
<1>5. CntLockInv'
  BY <1>0, <1>1, <1>2 DEF CntLockInv
<1>6. SnapInv'
  BY <1>0, <1>1, <1>2 DEF SnapInv, Shows, Threads
<1>7. OneInstant'
  BY <1>0, <1>1, <1>2 DEF OneInstant, Threads
<1> QED
  BY <1>3, <1>4, <1>5, <1>6, <1>7 DEF CountersIInv

\* While a thread is in the function no other is.
LEMMA AloneInCounters ==
  ASSUME CntLockInv, NEW t \in Threads, tpc[t] \in {"act", "read"},
         NEW u \in Threads, u # t
  PROVE  tpc[u] \notin {"act", "read"}
BY DEF CntLockInv

\* A snapshot is of values the call has seen.
LEMMA SnapshotStep ==
  ASSUME CountersIInv, NEW t \in Threads, Snapshot(t)
  PROVE  CountersIInv'
<1>0. CountersTypeOK /\ HistoryType /\ CntLockInv /\ SnapInv /\ OneInstant
  BY DEF CountersIInv
<1>1. /\ t \in Readers /\ tpc[t] = "act" /\ ThreadGoto(t, "read") /\ snap' = cnt
      /\ UNCHANGED <<cnt, seen, cntLock, got>>
  BY DEF Snapshot
<1>2. tpc'[t] = "read" /\ \A u \in Threads : u # t => tpc'[u] = tpc[u]
  BY <1>0, <1>1, ThreadStep
<1>3. CountersTypeOK'
  BY <1>0, <1>1 DEF CountersTypeOK, ThreadGoto
<1>4. HistoryType'
  BY <1>0, <1>1 DEF HistoryType
<1>5. CntLockInv'
  BY <1>0, <1>1, <1>2 DEF CntLockInv
<1>6. SnapInv'
  <2>1. \A u \in Threads : u # t => tpc[u] \notin {"act", "read"}
    BY <1>0, <1>1, AloneInCounters
  <2>2. cnt \in seen[t] /\ Len(got[t]) = 0
    BY <1>0, <1>1 DEF SnapInv
  <2>3. Shows(t, snap)'
    BY <1>1, <2>2 DEF Shows
  <2> QED
    BY <1>0, <1>1, <1>2, <2>1, <2>2, <2>3 DEF SnapInv, Threads
<1>7. OneInstant'
  BY <1>0, <1>1, <1>2 DEF OneInstant, Threads
<1> QED
  BY <1>3, <1>4, <1>5, <1>6, <1>7 DEF CountersIInv

\* The next register is of the snapshot.
LEMMA ReadNextStep ==
  ASSUME CountersIInv, NEW t \in Readers, ReadNext(t)
  PROVE  CountersIInv'
<1>0. CountersTypeOK /\ HistoryType /\ CntLockInv /\ SnapInv /\ OneInstant
  BY DEF CountersIInv
<1> DEFINE n == Len(got[t])
           v == snap[Order[n + 1]]
<1>1. /\ tpc[t] = "read" /\ n < Len(Order)
      /\ got' = [got EXCEPT ![t] = Append(got[t], v)]
      /\ UNCHANGED <<cnt, snap, seen, cntLock, tpc>>
  BY DEF ReadNext
<1>2. got[t] \in Seq(0 .. Word - 1) /\ n \in Nat
  BY <1>0 DEF HistoryType
<1>3. v \in 0 .. Word - 1
  <2>1. n + 1 \in 1 .. 6
    BY <1>1, <1>2, Registers
  <2> QED
    BY <1>0, <2>1, Registers DEF CountersTypeOK
<1>4. /\ got' \in [Readers -> Seq(0 .. Word - 1)]
      /\ \A u \in Readers : u # t => got'[u] = got[u]
      /\ got'[t] = Append(got[t], v)
  BY <1>0, <1>1, <1>2, <1>3 DEF HistoryType
<1>5. /\ Len(got'[t]) = n + 1 /\ got'[t][n + 1] = v
      /\ \A i \in 1 .. n : got'[t][i] = got[t][i]
  BY <1>2, <1>3, <1>4
<1>6. CountersTypeOK'
  <2>1. \A u \in Readers : Len(got'[u]) <= Len(Order)
    BY <1>0, <1>1, <1>2, <1>4, <1>5, Registers DEF CountersTypeOK
  <2> QED
    BY <1>0, <1>1, <2>1 DEF CountersTypeOK
<1>7. Shows(t, snap)'
  <2>1. snap \in seen[t] /\ \A i \in 1 .. n : got[t][i] = snap[Order[i]]
    BY <1>0, <1>1 DEF SnapInv, Shows
  <2>2. ASSUME NEW i \in 1 .. n + 1 PROVE got'[t][i] = snap[Order[i]]
    <3>1. CASE i = n + 1
      BY <1>5, <3>1
    <3>2. CASE i # n + 1
      BY <1>2, <1>5, <2>1, <3>2
    <3> QED
      BY <3>1, <3>2
  <2> HIDE DEF n, v
  <2> QED
    BY <1>1, <1>5, <2>1, <2>2 DEF Shows
<1> HIDE DEF n, v
<1>8. SnapInv'
  BY <1>0, <1>1, <1>4, <1>7 DEF SnapInv, Shows
<1>9. OneInstant'
  BY <1>0, <1>1, <1>4 DEF OneInstant
<1> QED
  BY <1>0, <1>1, <1>4, <1>6, <1>8, <1>9 DEF CountersIInv, HistoryType, CntLockInv

\* The last register has been read: what the reader has is the snapshot.
LEMMA ReadDoneStep ==
  ASSUME CountersIInv, NEW t \in Readers, ReadDone(t)
  PROVE  CountersIInv'
<1>0. /\ CountersTypeOK /\ HistoryType /\ CntLockInv /\ SnapInv /\ OneInstant
      /\ t \in Threads
  BY DEF CountersIInv, Threads
<1>1. /\ tpc[t] = "read" /\ ThreadGoto(t, "idle") /\ Len(got[t]) = Len(Order)
      /\ cntLock' = cntLock \ {t}
      /\ UNCHANGED <<cnt, snap, seen, got>>
  BY DEF ReadDone
<1>2. tpc'[t] = "idle" /\ \A u \in Threads : u # t => tpc'[u] = tpc[u]
  BY <1>0, <1>1, ThreadStep
<1>3. CountersTypeOK'
  BY <1>0, <1>1 DEF CountersTypeOK, ThreadGoto
<1>4. HistoryType'
  BY <1>0, <1>1 DEF HistoryType
<1>5. CntLockInv'
  BY <1>0, <1>1, <1>2 DEF CntLockInv
<1>6. SnapInv'
  BY <1>0, <1>1, <1>2 DEF SnapInv, Shows, Threads
<1>7. snap \in seen[t] /\ \A i \in DOMAIN Order : got[t][i] = snap[Order[i]]
  BY <1>0, <1>1, Registers DEF SnapInv, Shows
<1>8. OneInstant'
  BY <1>0, <1>1, <1>2, <1>7 DEF OneInstant, Threads
<1> QED
  BY <1>3, <1>4, <1>5, <1>6, <1>8 DEF CountersIInv

\* A reset of the card comes between no snapshot and its reads.
LEMMA ResetStep ==
  ASSUME CountersIInv, NEW t \in Threads, Reset(t)
  PROVE  CountersIInv'
<1>0. CountersTypeOK /\ HistoryType /\ CntLockInv /\ SnapInv /\ OneInstant
  BY DEF CountersIInv
<1>1. /\ tpc[t] = "act" /\ ThreadGoto(t, "idle")
      /\ cntLock' = cntLock \ {t} /\ cnt' = Zero /\ snap' = Zero /\ got' = got
      /\ seen' = [u \in Readers |-> IF tpc[u] = "idle" THEN seen[u]
                                                      ELSE seen[u] \cup {Zero}]
  BY DEF Reset, Count
<1>2. tpc'[t] = "idle" /\ \A u \in Threads : u # t => tpc'[u] = tpc[u]
  BY <1>0, <1>1, ThreadStep
<1>3. CountersTypeOK'
  BY <1>0, <1>1, ZeroType DEF CountersTypeOK, ThreadGoto, CounterValues
<1>4. HistoryType'
  BY <1>0, <1>1, ZeroType DEF HistoryType
<1>5. CntLockInv'
  BY <1>0, <1>1, <1>2 DEF CntLockInv
<1>6. \A u \in Readers : /\ tpc[u] # "idle" => Zero \in seen'[u]
                         /\ tpc[u] = "idle" => seen'[u] = seen[u]
  BY <1>1
<1>7. \A u \in Threads : tpc'[u] # "read"
  BY <1>0, <1>1, <1>2, AloneInCounters
<1>8. SnapInv'
  BY <1>0, <1>1, <1>2, <1>6, <1>7 DEF SnapInv, Threads
<1>9. OneInstant'
  <2>1. t \in Readers => got'[t] = <<>>
    BY <1>0, <1>1 DEF SnapInv
  <2> QED
    BY <1>0, <1>1, <1>2, <1>6, <2>1 DEF OneInstant, Threads
<1> QED
  BY <1>3, <1>4, <1>5, <1>8, <1>9 DEF CountersIInv

\* A write to the file counters_reset goes nowhere near the card.
LEMMA DebugfsResetStep ==
  ASSUME CountersIInv, NEW t \in Resetters, DebugfsReset(t)
  PROVE  CountersIInv'
<1>0. /\ CountersTypeOK /\ HistoryType /\ CntLockInv /\ SnapInv /\ OneInstant
      /\ t \in Threads
  BY DEF CountersIInv, Threads
<1>1. /\ tpc[t] = "idle" /\ ThreadGoto(t, "wild")
      /\ UNCHANGED <<cnt, snap, seen, cntLock, got>>
  BY DEF DebugfsReset
<1>2. tpc'[t] = "wild" /\ \A u \in Threads : u # t => tpc'[u] = tpc[u]
  BY <1>0, <1>1, ThreadStep
<1>3. CountersTypeOK'
  BY <1>0, <1>1 DEF CountersTypeOK, ThreadGoto
<1>4. HistoryType'
  BY <1>0, <1>1 DEF HistoryType
<1>5. CntLockInv'
  BY <1>0, <1>1, <1>2 DEF CntLockInv
<1>6. SnapInv'
  BY <1>0, <1>1, <1>2 DEF SnapInv, Shows, Threads
<1>7. OneInstant'
  BY <1>0, <1>1, <1>2 DEF OneInstant, Threads
<1> QED
  BY <1>3, <1>4, <1>5, <1>6, <1>7 DEF CountersIInv

\* Nothing happens.
LEMMA CountersStutterStep ==
  ASSUME CountersIInv, UNCHANGED countersVars
  PROVE  CountersIInv'
<1>1. UNCHANGED <<cnt, snap, seen, cntLock, tpc, got>>
  BY DEF countersVars, drvVars
<1> QED
  BY <1>1 DEF CountersIInv, CountersTypeOK, HistoryType, CntLockInv, SnapInv,
     Shows, OneInstant

\* The invariant holds in every reachable state.
THEOREM CountersInvariant == CountersSpec => []CountersIInv
<1>1. CountersIInv /\ [CountersNext]_countersVars => CountersIInv'
  BY DeviceCounts, CallStep, AcquireStep, SnapshotStep, ReadNextStep,
     ReadDoneStep, ResetStep, DebugfsResetStep, CountersStutterStep
     DEF CountersNext
<1> QED
  BY CountersInitInv, <1>1, PTL DEF CountersSpec

\* Every counter stays in its 32 bits, in the card and in the snapshot, however
\* much is added to it.
THEOREM CountersTypeCorrect == CountersSpec => []CountersTypeOK
<1>1. CountersIInv => CountersTypeOK
  BY DEF CountersIInv
<1> QED
  BY CountersInvariant, <1>1, PTL

\* velocitor_counters_read() returns what the counters were at one instant of
\* its call, for any number of readers and resets, whatever the card counts
\* between its register reads.
THEOREM ReadsAreOneInstant == CountersSpec => []OneInstant
<1>1. CountersIInv => OneInstant
  BY DEF CountersIInv
<1> QED
  BY CountersInvariant, <1>1, PTL
=============================================================================
