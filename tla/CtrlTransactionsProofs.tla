----------------------- MODULE CtrlTransactionsProofs -----------------------
(***************************************************************************)
(* Proofs about CtrlTransactions, and that it implements RequestReply, for *)
(* any number of callers, sequence numbers, boots and buffers.             *)
(***************************************************************************)
EXTENDS CtrlTransactions, TLAPS

\* The bound on sequence numbers is a number.
LEMMA MaxSeqType == MaxSeq \in Nat
BY BoundAssumption DEF MaxSeq

\* A thread in the middle of a send or of a settlement has a transaction.
LEMMA CurSeq ==
  ASSUME TypeOK, CurInv, NEW p \in Procs, pc[p] \in SenderPc \cup ClaimerPc
  PROVE  cur[p] \in Seqs /\ cur[p] < next /\ cur[p] \in Nat
BY MaxSeqType DEF CurInv, TypeOK, TxnType, Seqs

-----------------------------------------------------------------------------
(***************************************************************************)
(* The initial state.                                                      *)
(***************************************************************************)
\* The initial state satisfies the inductive invariant.
LEMMA InitIInv == Init => IInv
<1> SUFFICES ASSUME Init PROVE IInv
  OBVIOUS
<1> USE MaxSeqType, BoundAssumption, ProcAssumption DEF Init
<1>1. DevType
  <2>1. txq \in Seq(Messages) /\ rxq \in Seq(Messages)
    OBVIOUS
  <2>2. announced \in BOOLEAN
    OBVIOUS
  <2>3. QED
    BY <2>1, <2>2 DEF DevType, Gens
<1>2. ChanType /\ info \in Gens
  BY DEF ChanType, Gens
<1>3. failed \in BOOLEAN
  OBVIOUS
<1>4. TxnType
  BY DEF TxnType, Senders, Statuses
<1>5. ProcType
  BY DEF ProcType, CallerPc, Errs
<1>6. CurInv
  BY DEF CurInv, Procs, SenderPc, ClaimerPc, CallerPc, RxPc, RecoveryPc
<1>7. FreshInv /\ \A s \in 1 .. next - 1 : TxnInv(s)
  BY DEF FreshInv, Seqs
<1>8. ChannelInv
  BY DEF ChannelInv, Senders, Procs
<1>9. NoStrandedWaiter /\ TxBufInv
  BY DEF NoStrandedWaiter, TxBufInv, Procs
<1>10. QED
  BY <1>1, <1>2, <1>3, <1>4, <1>5, <1>6, <1>7, <1>8, <1>9 DEF IInv, TypeOK

-----------------------------------------------------------------------------
(***************************************************************************)
(* Type correctness, part by part.                                         *)
(***************************************************************************)
\* Every step keeps the types of the firmware's side of the queues.
LEMMA DevTypeStep == ASSUME TypeOK, TxBufInv, [Next]_vars PROVE DevType'
<1>0. DevType /\ ProcType
  BY DEF TypeOK
<1>1. txq \in Seq(Messages) /\ rxq \in Seq(Messages) /\ TxBufs \in Nat
  BY <1>0, BoundAssumption DEF DevType
<1>2. ASSUME NEW p \in Senders, SendOk(p) PROVE DevType'
  <2>1. [kind |-> "request", seq |-> cur[p]] \in Messages
    BY <1>0 DEF ProcType, Messages, Senders, Procs
  <2>2. txq' \in Seq(Messages)
    BY <1>1, <1>2, <2>1 DEF SendOk
  <2>3. QED
    BY <1>0, <1>1, <1>2, <2>2 DEF SendOk, DevType
<1>3. ASSUME ProbeBind \/ RxClaim \/ RxDrop PROVE DevType'
  <2>1. rxq # <<>> /\ rxq' = Tail(rxq)
    BY <1>3 DEF ProbeBind, RxClaim, RxDrop, RxHead
  <2>2. rxq' \in Seq(Messages)
    BY <1>1, <2>1
  <2>3. UNCHANGED <<dev, gen, announced, txq, txfree>>
    BY <1>3 DEF ProbeBind, RxClaim, RxDrop
  <2>4. QED
    BY <1>0, <2>2, <2>3 DEF DevType
<1>4. ASSUME StopDevice PROVE DevType'
  <2>1. txq' = <<>> /\ rxq' = <<>> /\ announced' = FALSE
    BY <1>4 DEF StopDevice
  <2>2. txq' \in Seq(Messages) /\ rxq' \in Seq(Messages)
    BY <2>1
  <2>3. announced' \in BOOLEAN
    BY <2>1
  <2>4. QED
    BY <1>0, <1>1, <1>4, <2>2, <2>3 DEF StopDevice, DevType
<1>5. ASSUME Boot PROVE DevType'
  <2>1. txq' = <<>> /\ rxq' = <<>>
    BY <1>5 DEF Boot
  <2>2. txq' \in Seq(Messages) /\ rxq' \in Seq(Messages)
    BY <2>1
  <2>3. QED
    BY <1>0, <1>1, <1>5, <2>2, BoundAssumption DEF Boot, DevType, Gens
<1>6. ASSUME Crash PROVE DevType'
  <2>1. txq' = <<>> /\ announced' = FALSE
    BY <1>6 DEF Crash
  <2>2. txq' \in Seq(Messages)
    BY <2>1
  <2>3. announced' \in BOOLEAN
    BY <2>1
  <2>4. QED
    BY <1>0, <1>6, <2>2, <2>3 DEF Crash, DevType
<1>7. ASSUME Announce PROVE DevType'
  <2>1. [kind |-> "announce", seq |-> 0] \in Messages
    BY MaxSeqType DEF Messages
  <2>2. rxq' \in Seq(Messages)
    BY <1>1, <1>7, <2>1 DEF Announce
  <2>3. QED
    BY <1>0, <1>7, <2>2 DEF Announce, DevType
<1>8. ASSUME Serve PROVE DevType'
  <2>1. txq' \in Seq(Messages) /\ Head(txq) \in Messages
    BY <1>1, <1>8 DEF Serve
  <2>2. txfree' \in 0 .. TxBufs
    <3>1. Len(txq) \in Nat /\ Len(txq) # 0
      BY <1>1, <1>8 DEF Serve
    <3>2. QED
      BY <1>0, <1>1, <1>8, <3>1 DEF Serve, TxBufInv, DevType
  <2>3. \A k \in ReplyKinds : [kind |-> k, seq |-> Head(txq).seq] \in Messages
    BY <2>1 DEF Messages
  <2>4. rxq' \in Seq(Messages)
    <3>1. \/ rxq' = rxq
          \/ \E k \in ReplyKinds :
               rxq' = Append(rxq, [kind |-> k, seq |-> Head(txq).seq])
      BY <1>8 DEF Serve
    <3>2. ASSUME NEW m \in Messages PROVE Append(rxq, m) \in Seq(Messages)
      BY <1>1
    <3>3. QED
      BY <1>1, <2>3, <3>1, <3>2
  <2>5. QED
    BY <1>0, <1>8, <2>1, <2>2, <2>4 DEF Serve, DevType
<1>9. ASSUME UNCHANGED devVars PROVE DevType'
  BY <1>0, <1>9 DEF devVars, DevType
<1>10. QED
  BY <1>2, <1>3, <1>4, <1>5, <1>6, <1>7, <1>8, <1>9
     DEF Next, Sender, CallerAlloc, Alloc, Woken, SendGetRef, SendEnter,
         SendTimeout, Cancel, Release, ProbeAlloc, ProbeNoMem, ProbeError,
         ClaimerNotify, ClaimerPut, RemoveBegin, DrainClaim, DrainEnd, vars

\* A transmit buffer is never made out of nothing.
LEMMA TxBufStep == ASSUME TypeOK, TxBufInv, [Next]_vars PROVE TxBufInv'
<1>1. txq \in Seq(Messages) /\ txfree \in 0 .. TxBufs /\ TxBufs \in Nat
  BY BoundAssumption DEF TypeOK, DevType
<1>2. ASSUME NEW p \in Senders, SendOk(p) PROVE TxBufInv'
  <2>1. [kind |-> "request", seq |-> cur[p]] \in Messages
    BY DEF TypeOK, ProcType, Messages, Senders, Procs
  <2>2. QED
    BY <1>1, <1>2, <2>1 DEF SendOk, TxBufInv
<1>3. ASSUME Serve PROVE TxBufInv'
  BY <1>1, <1>3 DEF Serve, TxBufInv
<1>4. ASSUME StopDevice \/ Crash PROVE TxBufInv'
  <2>1. Len(txq') = 0 /\ (txfree' = 0 \/ txfree' = txfree)
    <3>1. txq' = <<>>
      BY <1>4 DEF StopDevice, Crash
    <3>2. QED
      BY <1>4, <3>1 DEF StopDevice, Crash
  <2>2. QED
    BY <1>1, <2>1 DEF TxBufInv
<1>5. ASSUME Boot PROVE TxBufInv'
  <2>1. Len(txq') = 0 /\ txfree' = TxBufs
    <3>1. txq' = <<>>
      BY <1>5 DEF Boot
    <3>2. QED
      BY <1>5, <3>1 DEF Boot
  <2>2. QED
    BY <1>1, <2>1 DEF TxBufInv
<1>6. ASSUME UNCHANGED <<txq, txfree>> PROVE TxBufInv'
  BY <1>6 DEF TxBufInv
<1>7. QED
  BY <1>2, <1>3, <1>4, <1>5, <1>6
     DEF Next, Sender, CallerAlloc, Alloc, Woken, SendGetRef, SendEnter,
         SendTimeout, Cancel, Release, ProbeBind, ProbeAlloc, ProbeNoMem,
         ProbeError, RxClaim, RxDrop, ClaimerNotify, ClaimerPut, RemoveBegin,
         DrainClaim, DrainEnd, Announce, vars, devVars

\* Every step keeps the types of the channel.
LEMMA ChanTypeStep ==
  ASSUME TypeOK, [Next]_vars
  PROVE  ChanType' /\ info' \in Gens /\ failed' \in BOOLEAN
<1>1. ChanType /\ gen \in Gens /\ info \in Gens /\ failed \in BOOLEAN
  BY DEF TypeOK, DevType
<1>2. 0 \in Gens
  BY BoundAssumption DEF Gens
<1>3. ChanType'
  BY <1>1, <1>2
     DEF ChanType, Next, Sender, CallerAlloc, Alloc, Woken, SendGetRef,
         SendEnter, SendOk, SendTimeout, Cancel, Release, ProbeBind,
         ProbeAlloc, ProbeNoMem, ProbeError, RxClaim, RxDrop, ClaimerNotify,
         ClaimerPut, RemoveBegin, DrainClaim, DrainEnd, StopDevice, Boot,
         Announce, Serve, Crash, vars, chanVars
<1>4. info' \in Gens
  BY <1>1
     DEF Notify, Next, Sender, CallerAlloc, Alloc, Woken, SendGetRef,
         SendEnter, SendOk, SendTimeout, Cancel, Release, ProbeBind,
         ProbeAlloc, ProbeNoMem, ProbeError, RxClaim, RxDrop, ClaimerNotify,
         ClaimerPut, RemoveBegin, DrainClaim, DrainEnd, StopDevice, Boot,
         Announce, Serve, Crash, vars
<1>5. failed' = TRUE \/ failed' = failed
  BY DEF Next, Sender, CallerAlloc, Alloc, Woken, SendGetRef,
         SendEnter, SendOk, SendTimeout, Cancel, Release, ProbeBind,
         ProbeAlloc, ProbeNoMem, ProbeError, RxClaim, RxDrop, ClaimerNotify,
         ClaimerPut, RemoveBegin, DrainClaim, DrainEnd, StopDevice, Boot,
         Announce, Serve, Crash, vars
<1>6. failed' \in BOOLEAN
  BY <1>1, <1>5
<1>7. QED
  BY <1>3, <1>4, <1>6

\* Every step keeps the types of the transactions.
LEMMA TxnTypeStep == ASSUME TypeOK, CurInv, [Next]_vars PROVE TxnType'
<1> USE MaxSeqType DEF TxnType, txnVars, Senders, Procs
<1>0. TxnType /\ ProcType
  BY DEF TypeOK
<1>1. ASSUME NEW p \in Senders, Alloc(p) PROVE TxnType'
  BY <1>1, <1>0 DEF Alloc, Seqs
<1>2. ASSUME NEW p \in Senders, SendGetRef(p) PROVE TxnType'
  <2>1. cur[p] \in Seqs
    BY <1>2, CurSeq DEF SendGetRef, SenderPc
  <2>2. QED
    BY <1>2, <1>0, <2>1 DEF SendGetRef, KrefGet
<1>3. ASSUME NEW p \in Senders, Cancel(p) PROVE TxnType'
  <2>1. cur[p] \in Seqs
    BY <1>3, CurSeq DEF Cancel, SenderPc
  <2>2. QED
    BY <1>3, <1>0, <2>1 DEF Cancel, Claim, Notify, KrefPut, Statuses
<1>4. ASSUME NEW p \in Senders, Release(p) PROVE TxnType'
  <2>1. cur[p] \in Seqs
    BY <1>4, CurSeq DEF Release, SenderPc
  <2>2. QED
    BY <1>4, <1>0, <2>1 DEF Release, KrefPut
<1>5. ASSUME RxClaim PROVE TxnType'
  BY <1>5, <1>0 DEF RxClaim, Claim, ReplyStatus, Statuses
<1>6. ASSUME NEW p \in {Rx, Recovery}, ClaimerNotify(p) PROVE TxnType'
  <2>1. cur[p] \in Seqs
    BY <1>6, CurSeq DEF ClaimerNotify, ClaimerPc
  <2>2. QED
    BY <1>6, <1>0, <2>1 DEF ClaimerNotify, Notify
<1>7. ASSUME NEW p \in {Rx, Recovery}, ClaimerPut(p) PROVE TxnType'
  <2>1. cur[p] \in Seqs
    BY <1>7, CurSeq DEF ClaimerPut, ClaimerPc
  <2>2. QED
    BY <1>7, <1>0, <2>1 DEF ClaimerPut, KrefPut
<1>8. ASSUME DrainClaim PROVE TxnType'
  BY <1>8, <1>0 DEF DrainClaim, Claim, Statuses
<1>9. ASSUME UNCHANGED txnVars PROVE TxnType'
  BY <1>9, <1>0
<1>10. QED
  BY <1>1, <1>2, <1>3, <1>4, <1>5, <1>6, <1>7, <1>8, <1>9
     DEF Next, Sender, CallerAlloc, Woken, SendEnter, SendOk, SendTimeout,
         ProbeBind, ProbeAlloc, ProbeNoMem, ProbeError, RxDrop, RemoveBegin,
         DrainEnd, StopDevice, Boot, Announce, Serve, Crash, vars

\* Every step keeps the types of the threads' variables.
LEMMA ProcTypeStep == ASSUME TypeOK, [Next]_vars PROVE ProcType'
<1> USE MaxSeqType DEF ProcType, Senders, Procs, Goto
<1>0. ProcType /\ TxnType
  BY DEF TypeOK
<1> USE DEF CallerPc, RxPc, RecoveryPc, Errs
<1>1. ASSUME NEW p \in Senders, Alloc(p) PROVE ProcType'
  BY <1>1, <1>0 DEF Alloc, TxnType
<1>2. ASSUME NEW p \in Senders, SendGetRef(p) \/ SendEnter(p) PROVE ProcType'
  BY <1>2, <1>0 DEF SendGetRef, SendEnter
<1>3. ASSUME NEW p \in Senders, SendOk(p) PROVE ProcType'
  BY <1>3, <1>0 DEF SendOk
<1>4. ASSUME NEW p \in Senders, SendTimeout(p) \/ Cancel(p) PROVE ProcType'
  BY <1>4, <1>0 DEF SendTimeout, Cancel
<1>5. ASSUME NEW p \in Senders, Release(p) PROVE ProcType'
  BY <1>5, <1>0 DEF Release
<1>6. ASSUME NEW c \in Callers, Woken(c) PROVE ProcType'
  BY <1>6, <1>0 DEF Woken
<1>7. ASSUME ProbeBind \/ ProbeNoMem \/ ProbeError PROVE ProcType'
  BY <1>7, <1>0 DEF ProbeBind, ProbeNoMem, ProbeError
<1>8. ASSUME RxClaim PROVE ProcType'
  <2>1. Head(rxq).seq \in 0 .. MaxSeq
    <3>1. Head(rxq).seq \in table
      BY <1>8 DEF RxClaim
    <3>2. \A x \in table : x \in 0 .. MaxSeq
      BY <1>0 DEF TxnType, Seqs
    <3>3. QED
      BY <3>1, <3>2
  <2>2. /\ pc' = [pc EXCEPT ![Rx] = "notify"]
        /\ cur' = [cur EXCEPT ![Rx] = Head(rxq).seq]
        /\ err' = err
    BY <1>8 DEF RxClaim
  <2>3. QED
    BY <1>0, <2>1, <2>2
<1>9. ASSUME NEW p \in {Rx, Recovery}, ClaimerNotify(p) \/ ClaimerPut(p)
      PROVE  ProcType'
  BY <1>9, <1>0 DEF ClaimerNotify, ClaimerPut
<1>10. ASSUME DrainClaim PROVE ProcType'
  BY <1>10, <1>0 DEF DrainClaim, TxnType, Seqs
<1>11. ASSUME RemoveBegin \/ DrainEnd \/ StopDevice PROVE ProcType'
  BY <1>11, <1>0 DEF RemoveBegin, DrainEnd, StopDevice
<1>12. ASSUME UNCHANGED <<pc, cur, err>> PROVE ProcType'
  BY <1>12, <1>0
<1>13. QED
  BY <1>1, <1>2, <1>3, <1>4, <1>5, <1>6, <1>7, <1>8, <1>9, <1>10, <1>11, <1>12
     DEF Next, Sender, CallerAlloc, ProbeAlloc, RxDrop, Boot, Announce, Serve,
         Crash, vars

\* Together.
LEMMA TypeStep ==
  ASSUME TypeOK, TxBufInv, CurInv, [Next]_vars PROVE TypeOK'
BY DevTypeStep, ChanTypeStep, TxnTypeStep, ProcTypeStep DEF TypeOK

-----------------------------------------------------------------------------
(***************************************************************************)
(* Who has which transaction.                                              *)
(***************************************************************************)
\* A thread keeps the transaction it works on, and nobody else's.
LEMMA CurStep == ASSUME TypeOK, CurInv, FreshInv, [Next]_vars PROVE CurInv'
<1> USE MaxSeqType, ProcAssumption
    DEF CurInv, Senders, Procs, Goto, CallerPc, RxPc, RecoveryPc, SenderPc,
        ClaimerPc
<1>0. ProcType /\ TxnType
  BY DEF TypeOK
<1> USE <1>0 DEF ProcType, TxnType
<1>1. ASSUME NEW p \in Senders, pc[p] \in {"idle", "bind"}, Alloc(p),
             p = Rx <=> pc[p] = "bind"
      PROVE  CurInv'
  <2>1. next \in Seqs /\ next' = next + 1
    BY <1>1 DEF Alloc, Seqs
  <2>2. /\ pc' = [pc EXCEPT ![p] = "alloced"]
        /\ cur' = [cur EXCEPT ![p] = next]
        /\ owner' = [owner EXCEPT ![next] = p]
        /\ table' = table \cup {next}
    BY <1>1 DEF Alloc
  <2>3. ASSUME NEW q \in Procs PROVE cur[q] # next
    <3>1. CASE pc[q] \in SenderPc \cup ClaimerPc
      BY <2>1, <3>1, CurSeq DEF Seqs
    <3>2. CASE pc[q] \notin SenderPc \cup ClaimerPc
      BY <2>1, <3>2 DEF Seqs
    <3>3. QED
      BY <3>1, <3>2
  <2>4. ASSUME NEW q \in Procs
        PROVE  IF pc'[q] \in SenderPc
                 THEN cur'[q] \in 1 .. next' - 1 /\ owner'[cur'[q]] = q
                 ELSE IF pc'[q] \in ClaimerPc
                   THEN cur'[q] \in (1 .. next' - 1) \ table'
                   ELSE cur'[q] = 0
    <3>1. CASE q = p
      BY <2>1, <2>2, <3>1
    <3>2. CASE q # p
      BY <2>1, <2>2, <2>3, <3>2
    <3>3. QED
      BY <3>1, <3>2
  <2>5. QED
    BY <1>1, <2>2, <2>4
<1>2. ASSUME NEW p \in Senders, SendGetRef(p) PROVE CurInv'
  BY <1>2 DEF SendGetRef, txnVars
<1>3. ASSUME NEW p \in Senders, SendEnter(p) PROVE CurInv'
  BY <1>3 DEF SendEnter, txnVars
<1>4. ASSUME NEW p \in Senders, SendOk(p) PROVE CurInv'
  BY <1>4 DEF SendOk, txnVars
<1>5. ASSUME NEW p \in Senders, SendTimeout(p) PROVE CurInv'
  BY <1>5 DEF SendTimeout, txnVars
<1>6. ASSUME NEW p \in Senders, Cancel(p) PROVE CurInv'
  BY <1>6 DEF Cancel, Claim
<1>7. ASSUME NEW p \in Senders, Release(p) PROVE CurInv'
  BY <1>7 DEF Release
<1>8. ASSUME NEW c \in Callers, Woken(c) PROVE CurInv'
  BY <1>8 DEF Woken, txnVars
<1>9. ASSUME ProbeBind \/ ProbeNoMem \/ ProbeError PROVE CurInv'
  <2>1. /\ pc[Rx] \in {"idle", "bind", "fail"}
        /\ \E l \in {"idle", "bind", "fail"} : pc' = [pc EXCEPT ![Rx] = l]
        /\ UNCHANGED <<cur, table, owner, next>>
    BY <1>9 DEF ProbeBind, ProbeNoMem, ProbeError, RxHead, txnVars
  <2>2. QED
    BY <2>1
<1>10. ASSUME RxClaim PROVE CurInv'
  <2>1. PICK s \in table : /\ table' = table \ {s}
                           /\ cur' = [cur EXCEPT ![Rx] = s]
    BY <1>10 DEF RxClaim, Claim
  <2>2. /\ pc[Rx] = "idle"
        /\ pc' = [pc EXCEPT ![Rx] = "notify"]
        /\ UNCHANGED <<owner, next>>
    BY <1>10 DEF RxClaim, RxHead
  <2>3. s \in 1 .. next - 1
    BY DEF FreshInv, Seqs
  <2>4. QED
    BY <2>1, <2>2, <2>3
<1>11. ASSUME NEW p \in {Rx, Recovery}, ClaimerNotify(p) PROVE CurInv'
  BY <1>11 DEF ClaimerNotify
<1>12. ASSUME NEW p \in {Rx, Recovery}, ClaimerPut(p) PROVE CurInv'
  BY <1>12 DEF ClaimerPut
<1>13. ASSUME DrainClaim PROVE CurInv'
  <2>1. PICK s \in table : /\ table' = table \ {s}
                           /\ cur' = [cur EXCEPT ![Recovery] = s]
    BY <1>13 DEF DrainClaim, Claim
  <2>2. /\ pc[Recovery] = "drain"
        /\ pc' = [pc EXCEPT ![Recovery] = "notify"]
        /\ UNCHANGED <<owner, next>>
    BY <1>13 DEF DrainClaim
  <2>3. s \in 1 .. next - 1
    BY DEF FreshInv, Seqs
  <2>4. QED
    BY <2>1, <2>2, <2>3
<1>14. ASSUME RemoveBegin \/ DrainEnd \/ StopDevice PROVE CurInv'
  <2>1. /\ pc[Recovery] \in {"idle", "drain", "stop"}
        /\ \E l \in {"idle", "drain", "stop"} :
             pc' = [pc EXCEPT ![Recovery] = l]
        /\ UNCHANGED <<cur, table, owner, next>>
    BY <1>14 DEF RemoveBegin, DrainEnd, StopDevice, txnVars
  <2>2. QED
    BY <2>1
<1>15. ASSUME UNCHANGED <<pc, cur, txnVars>> PROVE CurInv'
  BY <1>15 DEF txnVars
<1>16. QED
  BY <1>1, <1>2, <1>3, <1>4, <1>5, <1>6, <1>7, <1>8, <1>9, <1>10, <1>11, <1>12,
     <1>13, <1>14, <1>15
     DEF Next, Sender, CallerAlloc, ProbeAlloc, RxDrop, Boot, Announce, Serve,
         Crash, vars

-----------------------------------------------------------------------------
(***************************************************************************)
(* The accounts of every transaction.                                      *)
(***************************************************************************)

\* A step that changes nothing about s keeps its accounts.
LEMMA TxnFrame ==
  ASSUME NEW s, TxnInv(s),
         owner'[s] = owner[s], kref'[s] = kref[s], notified'[s] = notified[s],
         s \in table' <=> s \in table, s \in sent' <=> s \in sent,
         s \in done' <=> s \in done,
         Held(s)' <=> Held(s), BeforeSend(s)' <=> BeforeSend(s),
         InHands(s)' <=> InHands(s), Notifying(s)' <=> Notifying(s)
  PROVE  TxnInv(s)'
BY DEF TxnInv, Unsettled, Unnotified, Bit

\* A step of one thread p that keeps s's fields, where p has nothing to do
\* with s before or after.
LEMMA TxnOther ==
  ASSUME NEW s, TxnInv(s), TypeOK, NEW p \in Procs, s \in Seqs,
         owner'[s] = owner[s], kref'[s] = kref[s], notified'[s] = notified[s],
         s \in table' <=> s \in table, s \in sent' <=> s \in sent,
         s \in done' <=> s \in done,
         cur[p] # s, cur'[p] # s,
         \A q \in Procs : q # p => cur'[q] = cur[q] /\ pc'[q] = pc[q]
  PROVE  TxnInv(s)'
<1>1. owner[s] \in Procs
  BY DEF TypeOK, TxnType, Senders, Procs
<1>2. Held(s)' <=> Held(s)
  BY <1>1 DEF Held
<1>3. BeforeSend(s)' <=> BeforeSend(s)
  BY <1>1 DEF BeforeSend
<1>4. InHands(s)' <=> InHands(s)
  BY DEF InHands, Procs
<1>5. Notifying(s)' <=> Notifying(s)
  BY DEF Notifying, Procs
<1>6. QED
  BY <1>2, <1>3, <1>4, <1>5, TxnFrame

\* References and notifications of every transaction add up after a step.
LEMMA TxnStep ==
  ASSUME TypeOK, CurInv, FreshInv, \A t \in 1 .. next - 1 : TxnInv(t),
         [Next]_vars, NEW s \in 1 .. next' - 1
  PROVE  TxnInv(s)'
<1> USE MaxSeqType, ProcAssumption DEF Senders, Procs, Goto
<1>0. /\ ProcType /\ TxnType
      /\ 1 .. next - 1 \subseteq Seqs /\ 0 \notin Seqs /\ next \in Nat
  BY DEF TypeOK, TxnType, Seqs
<1> DEFINE Acc == /\ TxnInv(s)
                  /\ s \in 1 .. next - 1
                  /\ s \in Seqs
<1>1. ASSUME NEW p \in Senders, pc[p] \in {"idle", "bind"}, Alloc(p)
      PROVE  TxnInv(s)'
  <2>1. CASE s = next
    BY <1>0, <1>1, <2>1
       DEF Alloc, TxnInv, Held, BeforeSend, Unsettled, InHands, Unnotified,
           Notifying, Bit, FreshInv, ProcType, TxnType, SenderPc, ClaimerPc,
           CurInv, Seqs
  <2>2. CASE s # next
    <3>1. Acc /\ cur[p] # s /\ cur'[p] # s
      BY <1>0, <1>1, <2>2 DEF Alloc, CurInv, ProcType, SenderPc, ClaimerPc
    <3>2. QED
      BY <1>0, <1>1, <2>2, <3>1, TxnOther DEF Alloc, ProcType, TxnType
  <2>3. QED
    BY <2>1, <2>2
<1>2. ASSUME NEW p \in Senders, SendGetRef(p) PROVE TxnInv(s)'
  <2>0. Acc
    BY <1>0, <1>2 DEF SendGetRef
  <2>1. CASE s = cur[p]
    BY <1>0, <1>2, <2>0, <2>1
       DEF SendGetRef, KrefGet, TxnInv, Held, BeforeSend, Unsettled, InHands,
           Unnotified, Notifying, Bit, ProcType, TxnType, SenderPc, ClaimerPc,
           CurInv
  <2>2. CASE s # cur[p]
    BY <1>0, <1>2, <2>0, <2>2, TxnOther DEF SendGetRef, KrefGet, ProcType, TxnType
  <2>3. QED
    BY <2>1, <2>2
<1>3. ASSUME NEW p \in Senders, SendEnter(p) \/ SendOk(p) \/ SendTimeout(p)
      PROVE  TxnInv(s)'
  <2>1. /\ pc[p] \in {"enter", "sending"}
        /\ \E l \in {"cancel", "sending", "wait", "release"} :
             pc' = [pc EXCEPT ![p] = l]
        /\ UNCHANGED <<cur, table, next, owner, kref, sent, status, done,
                       notified>>
    BY <1>3 DEF SendEnter, SendOk, SendTimeout, txnVars
  <2>2. Acc
    BY <1>0, <2>1
  <2>3. QED
    BY <1>0, <2>1, <2>2, TxnFrame
       DEF Held, BeforeSend, InHands, Notifying, ProcType, TxnType, SenderPc
<1>4. ASSUME NEW p \in Senders, Cancel(p) PROVE TxnInv(s)'
  <2>0. Acc
    BY <1>0, <1>4 DEF Cancel
  <2>1. CASE s = cur[p]
    BY <1>0, <1>4, <2>0, <2>1
       DEF Cancel, Claim, Notify, KrefPut, TxnInv, Held, BeforeSend, Unsettled,
           InHands, Unnotified, Notifying, Bit, ProcType, TxnType, SenderPc,
           ClaimerPc, CurInv
  <2>2. CASE s # cur[p]
    BY <1>0, <1>4, <2>0, <2>2, TxnOther
       DEF Cancel, Claim, Notify, KrefPut, ProcType, TxnType
  <2>3. QED
    BY <2>1, <2>2
<1>5. ASSUME NEW p \in Senders, Release(p) PROVE TxnInv(s)'
  <2>0. Acc
    BY <1>0, <1>5 DEF Release
  <2>1. CASE s = cur[p]
    BY <1>0, <1>5, <2>0, <2>1
       DEF Release, KrefPut, TxnInv, Held, BeforeSend, Unsettled, InHands,
           Unnotified, Notifying, Bit, ProcType, TxnType, SenderPc, ClaimerPc,
           CurInv
  <2>2. CASE s # cur[p]
    BY <1>0, <1>5, <2>0, <2>2, TxnOther DEF Release, KrefPut, ProcType, TxnType
  <2>3. QED
    BY <2>1, <2>2
<1>6. ASSUME NEW c \in Callers, Woken(c) PROVE TxnInv(s)'
  <2>1. /\ pc[c] = "wait" /\ pc' = [pc EXCEPT ![c] = "release"]
        /\ UNCHANGED <<cur, table, next, owner, kref, sent, status, done,
                       notified>>
    BY <1>6 DEF Woken, txnVars
  <2>2. Acc
    BY <1>0, <2>1
  <2>3. QED
    BY <1>0, <2>1, <2>2, TxnFrame
       DEF Held, BeforeSend, InHands, Notifying, ProcType, TxnType, SenderPc
<1>7. ASSUME ProbeBind \/ ProbeNoMem \/ ProbeError PROVE TxnInv(s)'
  <2>1. /\ pc[Rx] \in {"idle", "bind", "fail"}
        /\ \E l \in {"idle", "bind", "fail"} : pc' = [pc EXCEPT ![Rx] = l]
        /\ UNCHANGED <<cur, table, next, owner, kref, sent, status, done,
                       notified>>
    BY <1>7 DEF ProbeBind, ProbeNoMem, ProbeError, RxHead, txnVars
  <2>2. Acc
    BY <1>0, <2>1
  <2>3. QED
    BY <1>0, <2>1, <2>2, TxnFrame
       DEF Held, BeforeSend, InHands, Notifying, ProcType, TxnType, SenderPc
<1>8. ASSUME NEW p \in {Rx, Recovery}, pc[p] \in {"idle", "drain"},
             NEW t \in table, table' = table \ {t},
             cur' = [cur EXCEPT ![p] = t], pc' = [pc EXCEPT ![p] = "notify"],
             UNCHANGED <<next, owner, kref, sent, done, notified>>
      PROVE  TxnInv(s)'
  <2>0. Acc /\ cur[p] = 0
    BY <1>0, <1>8 DEF CurInv, SenderPc, ClaimerPc
  <2>1. CASE s = t
    BY <1>0, <1>8, <2>0, <2>1
       DEF TxnInv, Held, BeforeSend, Unsettled, InHands, Unnotified, Notifying,
           Bit, ProcType, TxnType, SenderPc, ClaimerPc, CurInv
  <2>2. CASE s # t
    BY <1>0, <1>8, <2>0, <2>2, TxnOther DEF ProcType, TxnType
  <2>3. QED
    BY <2>1, <2>2
<1>9. ASSUME RxClaim PROVE TxnInv(s)'
  <2>1. PICK t \in table : /\ table' = table \ {t}
                           /\ cur' = [cur EXCEPT ![Rx] = t]
    BY <1>9 DEF RxClaim, Claim
  <2>2. /\ pc[Rx] = "idle"
        /\ pc' = [pc EXCEPT ![Rx] = "notify"]
        /\ UNCHANGED <<next, owner, kref, sent, done, notified>>
    BY <1>9 DEF RxClaim, RxHead
  <2>3. QED
    BY <1>8, <2>1, <2>2
<1>10. ASSUME DrainClaim PROVE TxnInv(s)'
  <2>1. PICK t \in table : /\ table' = table \ {t}
                           /\ cur' = [cur EXCEPT ![Recovery] = t]
    BY <1>10 DEF DrainClaim, Claim
  <2>2. /\ pc[Recovery] = "drain"
        /\ pc' = [pc EXCEPT ![Recovery] = "notify"]
        /\ UNCHANGED <<next, owner, kref, sent, done, notified>>
    BY <1>10 DEF DrainClaim
  <2>3. QED
    BY <1>8, <2>1, <2>2
<1>11. ASSUME NEW p \in {Rx, Recovery}, ClaimerNotify(p) PROVE TxnInv(s)'
  <2>0. Acc
    BY <1>0, <1>11 DEF ClaimerNotify
  <2>1. CASE s = cur[p]
    BY <1>0, <1>11, <2>0, <2>1
       DEF ClaimerNotify, Notify, TxnInv, Held, BeforeSend, Unsettled, InHands,
           Unnotified, Notifying, Bit, ProcType, TxnType, SenderPc, ClaimerPc,
           CurInv
  <2>2. CASE s # cur[p]
    BY <1>0, <1>11, <2>0, <2>2, TxnOther
       DEF ClaimerNotify, Notify, ProcType, TxnType
  <2>3. QED
    BY <2>1, <2>2
<1>12. ASSUME NEW p \in {Rx, Recovery}, ClaimerPut(p) PROVE TxnInv(s)'
  <2>0. Acc
    BY <1>0, <1>12 DEF ClaimerPut
  <2>1. CASE s = cur[p]
    BY <1>0, <1>12, <2>0, <2>1
       DEF ClaimerPut, KrefPut, TxnInv, Held, BeforeSend, Unsettled, InHands,
           Unnotified, Notifying, Bit, ProcType, TxnType, SenderPc, ClaimerPc,
           CurInv
  <2>2. CASE s # cur[p]
    BY <1>0, <1>12, <2>0, <2>2, TxnOther
       DEF ClaimerPut, KrefPut, ProcType, TxnType
  <2>3. QED
    BY <2>1, <2>2
<1>13. ASSUME RemoveBegin \/ DrainEnd \/ StopDevice PROVE TxnInv(s)'
  <2>1. /\ pc[Recovery] \in {"idle", "drain", "stop"}
        /\ \E l \in {"idle", "drain", "stop"} :
             pc' = [pc EXCEPT ![Recovery] = l]
        /\ UNCHANGED <<cur, table, next, owner, kref, sent, status, done,
                       notified>>
    BY <1>13 DEF RemoveBegin, DrainEnd, StopDevice, txnVars
  <2>2. Acc
    BY <1>0, <2>1
  <2>3. QED
    BY <1>0, <2>1, <2>2, TxnFrame
       DEF Held, BeforeSend, InHands, Notifying, ProcType, TxnType, SenderPc
<1>14. ASSUME UNCHANGED <<pc, cur, txnVars>> PROVE TxnInv(s)'
  <2>1. Acc
    BY <1>0, <1>14 DEF txnVars
  <2>2. QED
    BY <1>14, <2>1, TxnFrame DEF txnVars, Held, BeforeSend, InHands, Notifying
<1>15. QED
  BY <1>1, <1>2, <1>3, <1>4, <1>5, <1>6, <1>7, <1>9, <1>10, <1>11, <1>12, <1>13,
     <1>14
     DEF Next, Sender, CallerAlloc, ProbeAlloc, RxDrop, Boot, Announce, Serve,
         Crash, vars

\* Sequence numbers not handed out yet have no history.
LEMMA FreshStep == ASSUME TypeOK, CurInv, FreshInv, [Next]_vars PROVE FreshInv'
<1> USE MaxSeqType DEF Senders, Procs
<1>0. TxnType /\ ProcType
  BY DEF TypeOK
<1>1. ASSUME NEW p \in Senders, Alloc(p) PROVE FreshInv'
  BY <1>0, <1>1 DEF Alloc, FreshInv, TxnType, Seqs
<1>2. ASSUME NEW p \in Procs, pc[p] \in SenderPc \cup ClaimerPc,
             next' = next, table' \subseteq table,
             \A s \in Seqs : s # cur[p] =>
               /\ kref'[s] = kref[s] /\ notified'[s] = notified[s]
               /\ s \in sent' <=> s \in sent
               /\ s \in done' <=> s \in done
      PROVE  FreshInv'
  <2>1. cur[p] < next /\ cur[p] \in Nat /\ next \in Nat
    BY <1>0, <1>2, CurSeq DEF TxnType
  <2>2. \A s \in Seqs : s >= next => s # cur[p]
    BY <2>1 DEF Seqs
  <2>3. QED
    BY <1>2, <2>2 DEF FreshInv
<1>3. ASSUME NEW p \in Senders, SendGetRef(p) PROVE FreshInv'
  <2>1. pc[p] \in SenderPc \cup ClaimerPc
    BY <1>3 DEF SendGetRef, SenderPc
  <2>2. QED
    BY <1>0, <1>2, <1>3, <2>1 DEF SendGetRef, KrefGet, TxnType
<1>4. ASSUME NEW p \in Senders, Cancel(p) PROVE FreshInv'
  <2>1. pc[p] \in SenderPc \cup ClaimerPc
    BY <1>4 DEF Cancel, SenderPc
  <2>2. QED
    BY <1>0, <1>2, <1>4, <2>1 DEF Cancel, Claim, Notify, KrefPut, TxnType
<1>5. ASSUME NEW p \in Senders, Release(p) PROVE FreshInv'
  <2>1. pc[p] \in SenderPc \cup ClaimerPc
    BY <1>5 DEF Release, SenderPc
  <2>2. QED
    BY <1>0, <1>2, <1>5, <2>1 DEF Release, KrefPut, TxnType
<1>6. ASSUME NEW p \in {Rx, Recovery}, ClaimerNotify(p) PROVE FreshInv'
  <2>1. pc[p] \in SenderPc \cup ClaimerPc
    BY <1>6 DEF ClaimerNotify, ClaimerPc
  <2>2. QED
    BY <1>0, <1>2, <1>6, <2>1 DEF ClaimerNotify, Notify, TxnType
<1>7. ASSUME NEW p \in {Rx, Recovery}, ClaimerPut(p) PROVE FreshInv'
  <2>1. pc[p] \in SenderPc \cup ClaimerPc
    BY <1>7 DEF ClaimerPut, ClaimerPc
  <2>2. QED
    BY <1>0, <1>2, <1>7, <2>1 DEF ClaimerPut, KrefPut, TxnType
<1>8. ASSUME RxClaim \/ DrainClaim PROVE FreshInv'
  <2>1. /\ table' \subseteq table
        /\ UNCHANGED <<next, kref, sent, notified, done>>
    BY <1>8 DEF RxClaim, DrainClaim, Claim
  <2>2. QED
    BY <2>1 DEF FreshInv
<1>9. ASSUME UNCHANGED txnVars PROVE FreshInv'
  BY <1>9 DEF txnVars, FreshInv
<1>10. QED
  BY <1>1, <1>3, <1>4, <1>5, <1>6, <1>7, <1>8, <1>9
     DEF Next, Sender, CallerAlloc, Woken, SendEnter, SendOk, SendTimeout,
         ProbeBind, ProbeAlloc, ProbeNoMem, ProbeError, RxDrop, RemoveBegin,
         DrainEnd, StopDevice, Boot, Announce, Serve, Crash, vars

-----------------------------------------------------------------------------
(***************************************************************************)
(* The channel: nobody is inside rpmsg_send() when it goes away.           *)
(***************************************************************************)
\* Endpoint, channel and the threads inside rpmsg_send() stay in step.
LEMMA ChannelStep == ASSUME TypeOK, ChannelInv, [Next]_vars PROVE ChannelInv'
<1> USE DEF ChannelInv, Senders, Procs, Goto, chanVars, devVars
<1>0. ProcType /\ gen \in Nat
  BY BoundAssumption DEF TypeOK, DevType, Gens
<1> USE <1>0 DEF ProcType
<1>1. ASSUME NEW p \in Senders, Alloc(p) PROVE ChannelInv'
  BY <1>1 DEF Alloc
<1>2. ASSUME NEW p \in Senders, SendGetRef(p) \/ SendEnter(p) PROVE ChannelInv'
  BY <1>2 DEF SendGetRef, SendEnter
<1>3. ASSUME NEW p \in Senders, SendOk(p) \/ SendTimeout(p) PROVE ChannelInv'
  <2>1. /\ \E l \in {"release", "wait", "cancel"} : pc' = [pc EXCEPT ![p] = l]
        /\ readers' = readers \ {p}
        /\ UNCHANGED <<ept, rpdev, dev, rxq, gen>>
    BY <1>3 DEF SendOk, SendTimeout
  <2>2. QED
    BY <2>1
<1>4. ASSUME NEW p \in Senders, Cancel(p) \/ Release(p) PROVE ChannelInv'
  <2>1. /\ \E l \in {"release", "fail", "idle"} : pc' = [pc EXCEPT ![p] = l]
        /\ UNCHANGED <<ept, rpdev, readers, dev, rxq, gen>>
    BY <1>4 DEF Cancel, Release
  <2>2. QED
    BY <2>1
<1>5. ASSUME NEW c \in Callers, Woken(c) PROVE ChannelInv'
  BY <1>5 DEF Woken
<1>6. ASSUME ProbeBind PROVE ChannelInv'
  <2>1. gen > 0 /\ readers = {} /\ ept' = gen /\ rpdev' = gen
    BY <1>6 DEF ProbeBind, RxHead, NoReaders
  <2>2. pc' = [pc EXCEPT ![Rx] = "bind"] /\ UNCHANGED <<gen, dev>>
    BY <1>6 DEF ProbeBind
  <2>3. QED
    BY <2>1, <2>2
<1>7. ASSUME ProbeNoMem \/ ProbeError PROVE ChannelInv'
  BY <1>7 DEF ProbeNoMem, ProbeError, NoReaders
<1>8. ASSUME RxClaim \/ RxDrop PROVE ChannelInv'
  <2>1. /\ gen > 0
        /\ pc' = [pc EXCEPT ![Rx] = "notify"] \/ pc' = pc
        /\ UNCHANGED <<gen, ept, rpdev, readers>>
    BY <1>8 DEF RxClaim, RxDrop, RxHead
  <2>2. QED
    BY <2>1
<1>9. ASSUME NEW p \in {Rx, Recovery}, ClaimerNotify(p) \/ ClaimerPut(p)
      PROVE  ChannelInv'
  BY <1>9 DEF ClaimerNotify, ClaimerPut
<1>10. ASSUME RemoveBegin \/ DrainClaim \/ DrainEnd PROVE ChannelInv'
  BY <1>10 DEF RemoveBegin, DrainClaim, DrainEnd, NoReaders
<1>11. ASSUME StopDevice PROVE ChannelInv'
  <2>1. dev' = "off" /\ rxq' = <<>>
    BY <1>11 DEF StopDevice
  <2>2. QED
    BY <1>11, <2>1 DEF StopDevice
<1>12. ASSUME Boot PROVE ChannelInv'
  <2>1. gen' > 0
    BY <1>12 DEF Boot
  <2>2. QED
    BY <1>12, <2>1 DEF Boot
<1>13. ASSUME Announce \/ Serve \/ Crash PROVE ChannelInv'
  <2>1. gen' > 0
    BY <1>13 DEF Announce, Serve, Crash
  <2>2. QED
    BY <1>13, <2>1 DEF Announce, Serve, Crash
<1>14. ASSUME UNCHANGED vars PROVE ChannelInv'
  BY <1>14 DEF vars
<1>15. QED
  BY <1>1, <1>2, <1>3, <1>4, <1>5, <1>6, <1>7, <1>8, <1>9, <1>10, <1>11, <1>12,
     <1>13, <1>14
     DEF Next, Sender, CallerAlloc, ProbeAlloc

-----------------------------------------------------------------------------
(***************************************************************************)
(* Waiters.  A waiter that is not woken is unnotified (TxnInv), so it is   *)
(* either in the hands of a notifier or in the table; what is left is that *)
(* a table with a waiter in it has a channel or a drain.                   *)
(***************************************************************************)
Attended == ept # 0 \/ pc[Recovery] \in {"drain", "notify", "put"}

\* An entry in the table is neither completed nor claimed.
LEMMA InTable ==
  ASSUME CurInv, NEW s \in table, TxnInv(s)
  PROVE  s \notin done /\ ~InHands(s)
<1>1. s \notin done
  BY DEF TxnInv, Unnotified
<1>2. ~InHands(s)
  BY DEF InHands, CurInv, Procs, ClaimerPc, SenderPc
<1>3. QED
  BY <1>1, <1>2

\* No step but a failed probe leaves a waiter's entry unattended.
LEMMA AttendedStep ==
  ASSUME TypeOK, CurInv, FreshInv, \A t \in 1 .. next - 1 : TxnInv(t),
         ChannelInv, NoStrandedWaiter, [Next]_vars, ~failed',
         NEW c \in Callers, pc'[c] = "wait", cur'[c] \in table'
  PROVE  Attended'
<1> USE ProcAssumption DEF Senders, Procs, Goto, ProcType
<1>0. ProcType /\ TxnType /\ next \in Nat
  BY DEF TypeOK, TxnType
<1>1. ASSUME ~failed, pc[c] = "wait", cur[c] \in table PROVE Attended
  <2>1. cur[c] \in 1 .. next - 1
    BY <1>1 DEF CurInv, SenderPc
  <2>2. cur[c] \notin done /\ ~InHands(cur[c])
    BY <1>1, <2>1, InTable
  <2>3. QED
    BY <1>1, <2>2 DEF NoStrandedWaiter, Answerable, Attended
<1>2. ASSUME ~failed, pc[c] = "wait", cur[c] \in table,
             pc'[Recovery] = pc[Recovery], ept' = ept
      PROVE  Attended'
  BY <1>1, <1>2 DEF Attended
<1>3. ASSUME NEW p \in Senders, Alloc(p) PROVE Attended'
  <2>1. p # c /\ pc[c] = "wait" /\ cur'[c] = cur[c] /\ failed' = failed
    BY <1>0, <1>3 DEF Alloc
  <2>2. cur[c] < next
    BY <1>0, <2>1 DEF CurInv, SenderPc
  <2>3. cur[c] \in table
    BY <1>0, <1>3, <2>1, <2>2 DEF Alloc
  <2>4. QED
    BY <1>0, <1>2, <1>3, <2>1, <2>3 DEF Alloc, chanVars
<1>4. ASSUME NEW p \in Senders,
             SendGetRef(p) \/ SendEnter(p) \/ SendTimeout(p) \/ Cancel(p)
             \/ Release(p)
      PROVE  Attended'
  <2>1. /\ \E l \in {"corrupt", "enter", "cancel", "sending", "release",
                     "fail", "idle"} : pc' = [pc EXCEPT ![p] = l]
        /\ \A q \in Procs : q # p => cur'[q] = cur[q]
        /\ table' \subseteq table
        /\ UNCHANGED <<ept, failed>>
    BY <1>0, <1>4
       DEF SendGetRef, SendEnter, SendTimeout, Cancel, Release, Claim,
           chanVars, txnVars
  <2>2. QED
    BY <1>0, <1>2, <2>1
<1>5. ASSUME NEW p \in Senders, SendOk(p) PROVE Attended'
  <2>1. CASE p = c
    BY <1>0, <1>5, <2>1 DEF SendOk, ChannelInv, Attended
  <2>2. CASE p # c
    BY <1>0, <1>2, <1>5, <2>2 DEF SendOk, txnVars
  <2>3. QED
    BY <2>1, <2>2
<1>6. ASSUME NEW d \in Callers, Woken(d) PROVE Attended'
  BY <1>0, <1>2, <1>6 DEF Woken, txnVars, chanVars
<1>7. ASSUME ProbeBind PROVE Attended'
  <2>1. gen # 0
    BY <1>7 DEF ProbeBind, RxHead, ChannelInv
  <2>2. QED
    BY <1>7, <2>1 DEF ProbeBind, Attended
<1>8. ASSUME ProbeNoMem PROVE Attended'
  BY <1>0, <1>2, <1>8 DEF ProbeNoMem, txnVars, chanVars
<1>9. ASSUME ProbeError PROVE Attended'
  BY <1>9 DEF ProbeError
<1>10. ASSUME RxClaim PROVE Attended'
  <2>1. /\ table' \subseteq table
        /\ pc' = [pc EXCEPT ![Rx] = "notify"]
        /\ \A q \in Procs : q # Rx => cur'[q] = cur[q]
        /\ UNCHANGED <<ept, failed>>
    BY <1>0, <1>10 DEF RxClaim, Claim, chanVars
  <2>2. QED
    BY <1>0, <1>2, <2>1
<1>11. ASSUME NEW p \in {Rx, Recovery}, ClaimerNotify(p) \/ ClaimerPut(p)
       PROVE  Attended'
  <2>1. /\ pc[p] \in {"notify", "put"}
        /\ \E l \in {"put", "idle", "drain"} :
             /\ pc' = [pc EXCEPT ![p] = l]
             /\ p = Recovery => l # "idle"
        /\ \A q \in Procs : q # p => cur'[q] = cur[q]
        /\ UNCHANGED <<table, ept, failed>>
    BY <1>0, <1>11 DEF ClaimerNotify, ClaimerPut, chanVars
  <2>2. CASE p = Recovery
    BY <1>0, <2>1, <2>2 DEF Attended
  <2>3. CASE p = Rx
    BY <1>0, <1>2, <2>1, <2>3
  <2>4. QED
    BY <2>2, <2>3
<1>12. ASSUME RemoveBegin \/ DrainClaim PROVE Attended'
  BY <1>0, <1>12 DEF RemoveBegin, DrainClaim, Attended
<1>13. ASSUME DrainEnd PROVE Attended'
  BY <1>13 DEF DrainEnd, txnVars
<1>14. ASSUME StopDevice PROVE Attended'
  BY <1>0, <1>1, <1>14 DEF StopDevice, Attended, txnVars, chanVars
<1>15. ASSUME UNCHANGED <<pc, cur, table, ept, failed>> PROVE Attended'
  BY <1>2, <1>15
<1>16. QED
  BY <1>3, <1>4, <1>5, <1>6, <1>7, <1>8, <1>9, <1>10, <1>11, <1>12, <1>13,
     <1>14, <1>15
     DEF Next, Sender, CallerAlloc, ProbeAlloc, RxDrop, Boot, Announce, Serve,
         Crash, vars, txnVars, chanVars

\* In any state: a waiter that is not woken has somebody left to wake it, if
\* its entry is attended while it is in the table.
WaitersAttended ==
  /\ CurInv
  /\ \A t \in 1 .. next - 1 : TxnInv(t)
  /\ \A c \in Callers :
       ~failed /\ pc[c] = "wait" /\ cur[c] \in table => Attended

\* Waiters that are attended to are not stranded.
LEMMA AttendedSuffices == WaitersAttended => NoStrandedWaiter
<1> USE DEF WaitersAttended
<1> SUFFICES ASSUME WaitersAttended, ~failed, NEW c \in Callers, pc[c] = "wait",
                    cur[c] \notin done
             PROVE  Answerable(cur[c])
  BY DEF NoStrandedWaiter
<1>1. cur[c] \in 1 .. next - 1 /\ owner[cur[c]] = c /\ c # Rx
  BY ProcAssumption DEF CurInv, SenderPc, Procs
<1>2. Unnotified(cur[c])
  BY <1>1 DEF TxnInv
<1>3. CASE cur[c] \in table
  BY <1>3 DEF Answerable, Attended
<1>4. CASE Notifying(cur[c])
  BY <1>4 DEF Answerable, InHands, Notifying
<1>5. QED
  BY <1>2, <1>3, <1>4 DEF Unnotified

-----------------------------------------------------------------------------
(***************************************************************************)
(* The invariant, and what it gives.                                       *)
(***************************************************************************)
\* The inductive invariant is one.
LEMMA IInvStep == ASSUME IInv, [Next]_vars PROVE IInv'
<1>0. /\ TypeOK /\ TxBufInv /\ CurInv /\ FreshInv /\ ChannelInv
      /\ NoStrandedWaiter /\ \A t \in 1 .. next - 1 : TxnInv(t)
  BY DEF IInv
<1>1. TypeOK' /\ TxBufInv' /\ CurInv' /\ FreshInv' /\ ChannelInv'
  BY <1>0, TypeStep, TxBufStep, CurStep, FreshStep, ChannelStep
<1>2. \A s \in 1 .. next' - 1 : TxnInv(s)'
  BY <1>0, TxnStep
<1>3. \A c \in Callers :
        ~failed' /\ pc'[c] = "wait" /\ cur'[c] \in table' => Attended'
  BY <1>0, AttendedStep
<1>4. WaitersAttended'
  BY <1>1, <1>2, <1>3 DEF WaitersAttended
<1>5. NoStrandedWaiter'
  BY <1>4, AttendedSuffices, PTL
<1>6. QED
  BY <1>1, <1>2, <1>5 DEF IInv

\* The inductive invariant: every reference and every notification of every
\* transaction is accounted for, whatever threads, replies, crashes and
\* teardowns do.
THEOREM Accounts == Spec => []IInv
<1>1. IInv /\ [Next]_vars => IInv'
  BY IInvStep
<1>2. QED
  BY InitIInv, <1>1, PTL DEF Spec

\* Type correctness; in particular the transmit ring never holds more
\* buffers than it has.
THEOREM TypeCorrect == Spec => []TypeOK
<1>1. IInv => TypeOK
  BY DEF IInv
<1>2. QED
  BY Accounts, <1>1, PTL

\* The accounts of a sequence number, handed out or not.
LEMMA TxnOf ==
  ASSUME IInv, NEW s \in Seqs
  PROVE  \/ TxnInv(s)
         \/ /\ s \notin table /\ kref[s] = 0 /\ s \notin sent
            /\ notified[s] = 0 /\ s \notin done
BY MaxSeqType DEF IInv, TypeOK, TxnType, FreshInv, Seqs

\* Exactly one notify: reply, drain and cancel may all race for an entry, and
\* velocitor_ctrl_transaction_notify() still runs at most once for it.
THEOREM NotifiedOnce == Spec => []OneNotify
<1>1. IInv => OneNotify
  BY TxnOf DEF OneNotify, TxnInv, Bit
<1>2. QED
  BY Accounts, <1>1, PTL

\* The reference of the send keeps a transaction allocated for its caller, for
\* the table and for the thread that claimed it.
THEOREM SentIsAllocated == Spec => []SentStaysAllocated
<1>1. ASSUME IInv, NEW s \in Seqs, s \in sent,
             CallerHolds(s) \/ InHands(s) \/ s \in table
      PROVE  kref[s] > 0
  <2>1. TxnInv(s)
    BY <1>1, TxnOf
  <2>2. CallerHolds(s) => Held(s)
    BY DEF CallerHolds, Held, SenderPc
  <2>3. QED
    BY <1>1, <2>1, <2>2 DEF TxnInv, Unsettled, Bit
<1>2. IInv => SentStaysAllocated
  BY <1>1 DEF SentStaysAllocated
<1>3. QED
  BY Accounts, <1>2, PTL

\* No transaction is leaked and none is released twice, on any path: reply,
\* drain, failed send, cancel that lost its race.
THEOREM NothingLeaks == Spec => []NoLeak
<1>1. ASSUME IInv, NEW s \in Seqs
      PROVE  /\ kref[s] >= 0
             /\ ~CallerHolds(s) /\ ~InHands(s) /\ s \notin table => kref[s] = 0
  <2>1. CASE TxnInv(s)
    <3>1. s \notin sent => Held(s)
      BY <2>1 DEF TxnInv, BeforeSend, Held, SenderPc
    <3>2. CASE Held(s) /\ ~CallerHolds(s)
      <4>1. BeforeSend(s)
        BY <3>2 DEF Held, CallerHolds, BeforeSend, SenderPc
      <4>2. QED
        BY <2>1, <3>2, <4>1 DEF TxnInv, Unsettled, Bit
    <3>3. CASE ~Held(s) \/ CallerHolds(s)
      BY <2>1, <3>1, <3>3 DEF TxnInv, Unsettled, Bit, CallerHolds, Held
    <3>4. QED
      BY <3>2, <3>3
  <2>2. CASE kref[s] = 0
    BY <2>2
  <2>3. QED
    BY <1>1, <2>1, <2>2, TxnOf
<1>2. IInv => NoLeak
  BY <1>1 DEF NoLeak
<1>3. QED
  BY Accounts, <1>2, PTL

\* A thread inside rpmsg_send() has a live endpoint: remove() and the error
\* path of probe() wait for the readers of rpdev_lock.
THEOREM EndpointStaysAlive == Spec => []EndpointAlive
<1>1. IInv => EndpointAlive
  BY DEF IInv, ChannelInv, EndpointAlive
<1>2. QED
  BY Accounts, <1>1, PTL

\* Teardown leaves no thread asleep, as long as no probe failed.
THEOREM NobodyStranded == Spec => []NoStrandedWaiter
<1>1. IInv => NoStrandedWaiter
  BY DEF IInv
<1>2. QED
  BY Accounts, <1>1, PTL

-----------------------------------------------------------------------------
(***************************************************************************)
(* The promise: CtrlTransactions implements RequestReply.                  *)
(***************************************************************************)

\* Whoever is about to notify a transaction, or has done so, left a status in
\* it.
StatusSet ==
  \A s \in Seqs : notified[s] # 0 \/ Notifying(s) => status[s] # "none"

\* A caller's error says how its send ended; one that returns without an error
\* has been completed.
ErrSet ==
  \A c \in Callers :
    /\ pc[c] = "cancel" => err[c] # "none"
    /\ pc[c] = "wait" => err[c] = "none"
    /\ pc[c] = "release" /\ err[c] = "none" => cur[c] \in done

AnswerInv == StatusSet /\ ErrSet

-----------------------------------------------------------------------------
\* The initial state satisfies the two additions to the invariant.
LEMMA InitAnswer == Init => AnswerInv
BY DEF Init, AnswerInv, StatusSet, ErrSet, Notifying, Procs

\* A status, once set, stays set; it is set before any notification.
LEMMA StatusStep == ASSUME IInv, StatusSet, [Next]_vars PROVE StatusSet'
<1> USE MaxSeqType, ProcAssumption DEF Senders, Procs, Goto
<1>0. ProcType /\ TxnType /\ CurInv
  BY DEF IInv, TypeOK
<1> SUFFICES ASSUME NEW s \in Seqs, notified'[s] # 0 \/ Notifying(s)'
             PROVE  status'[s] # "none"
  BY DEF StatusSet
<1> USE <1>0 DEF ProcType, TxnType, StatusSet, Notifying
<1>1. ASSUME NEW p \in Senders, Alloc(p) PROVE status'[s] # "none"
  BY <1>1 DEF Alloc
<1>2. ASSUME NEW p \in Senders, SendGetRef(p) PROVE status'[s] # "none"
  BY <1>2 DEF SendGetRef
<1>3. ASSUME NEW p \in Senders, SendEnter(p) \/ SendOk(p) \/ SendTimeout(p)
      PROVE  status'[s] # "none"
  BY <1>3 DEF SendEnter, SendOk, SendTimeout, txnVars
<1>4. ASSUME NEW p \in Senders, Cancel(p) PROVE status'[s] # "none"
  <2>1. UNCHANGED cur /\ pc' = [pc EXCEPT ![p] = "release"]
    BY <1>4 DEF Cancel
  <2>2. CASE cur[p] \in table
    BY <1>4, <2>1, <2>2 DEF Cancel, Notify
  <2>3. CASE cur[p] \notin table
    BY <1>4, <2>1, <2>3 DEF Cancel
  <2>4. QED
    BY <2>2, <2>3
<1>5. ASSUME NEW p \in Senders, Release(p) PROVE status'[s] # "none"
  BY <1>5 DEF Release
<1>6. ASSUME NEW c \in Callers, Woken(c) PROVE status'[s] # "none"
  BY <1>6 DEF Woken, txnVars
<1>7. ASSUME ProbeBind \/ ProbeNoMem \/ ProbeError PROVE status'[s] # "none"
  BY <1>7 DEF ProbeBind, ProbeNoMem, ProbeError, RxHead, txnVars
<1>8. ASSUME RxClaim PROVE status'[s] # "none"
  BY <1>8 DEF RxClaim, RxHead, ReplyStatus
<1>9. ASSUME NEW p \in {Rx, Recovery}, ClaimerNotify(p)
      PROVE  status'[s] # "none"
  BY <1>9 DEF ClaimerNotify, Notify, CurInv, ClaimerPc
<1>10. ASSUME NEW p \in {Rx, Recovery}, ClaimerPut(p) PROVE status'[s] # "none"
  BY <1>10 DEF ClaimerPut
<1>11. ASSUME DrainClaim PROVE status'[s] # "none"
  BY <1>11 DEF DrainClaim
<1>12. ASSUME RemoveBegin \/ DrainEnd \/ StopDevice PROVE status'[s] # "none"
  BY <1>12 DEF RemoveBegin, DrainEnd, StopDevice, txnVars
<1>13. ASSUME UNCHANGED <<pc, cur, txnVars>> PROVE status'[s] # "none"
  BY <1>13 DEF txnVars
<1>14. QED
  BY <1>1, <1>2, <1>3, <1>4, <1>5, <1>6, <1>7, <1>8, <1>9, <1>10, <1>11,
     <1>12, <1>13
     DEF Next, Sender, CallerAlloc, ProbeAlloc, RxDrop, Boot, Announce, Serve,
         Crash, vars

\* A caller's error keeps telling how its send ended.
LEMMA ErrStep == ASSUME IInv, ErrSet, [Next]_vars PROVE ErrSet'
<1> USE ProcAssumption DEF Senders, Procs, Goto
<1>0. ProcType /\ TxnType
  BY DEF IInv, TypeOK
<1> SUFFICES ASSUME NEW c \in Callers
             PROVE  /\ pc'[c] = "cancel" => err'[c] # "none"
                    /\ pc'[c] = "wait" => err'[c] = "none"
                    /\ pc'[c] = "release" /\ err'[c] = "none" =>
                         cur'[c] \in done'
  BY DEF ErrSet
<1> DEFINE Kept == /\ pc'[c] = "cancel" => err'[c] # "none"
                   /\ pc'[c] = "wait" => err'[c] = "none"
                   /\ pc'[c] = "release" /\ err'[c] = "none" =>
                        cur'[c] \in done'
<1> USE <1>0 DEF ProcType, TxnType, ErrSet
<1>1. ASSUME NEW p \in Senders, Alloc(p) PROVE Kept
  BY <1>1 DEF Alloc
<1>2. ASSUME NEW p \in Senders, SendGetRef(p) PROVE Kept
  BY <1>2 DEF SendGetRef
<1>3. ASSUME NEW p \in Senders, SendEnter(p) PROVE Kept
  BY <1>3 DEF SendEnter, txnVars
<1>4. ASSUME NEW p \in Senders, SendOk(p) PROVE Kept
  BY <1>4 DEF SendOk, txnVars
<1>5. ASSUME NEW p \in Senders, SendTimeout(p) PROVE Kept
  BY <1>5 DEF SendTimeout, txnVars
<1>6. ASSUME NEW p \in Senders, Cancel(p) PROVE Kept
  BY <1>6 DEF Cancel, Notify
<1>7. ASSUME NEW p \in Senders, Release(p) PROVE Kept
  BY <1>7 DEF Release
<1>8. ASSUME NEW d \in Callers, Woken(d) PROVE Kept
  BY <1>8 DEF Woken, txnVars
<1>9. ASSUME ProbeBind \/ ProbeNoMem \/ ProbeError PROVE Kept
  BY <1>9 DEF ProbeBind, ProbeNoMem, ProbeError, txnVars
<1>10. ASSUME RxClaim PROVE Kept
  BY <1>10 DEF RxClaim
<1>11. ASSUME NEW p \in {Rx, Recovery}, ClaimerNotify(p) PROVE Kept
  BY <1>11 DEF ClaimerNotify, Notify
<1>12. ASSUME NEW p \in {Rx, Recovery}, ClaimerPut(p) PROVE Kept
  BY <1>12 DEF ClaimerPut
<1>13. ASSUME DrainClaim PROVE Kept
  BY <1>13 DEF DrainClaim
<1>14. ASSUME RemoveBegin \/ DrainEnd \/ StopDevice PROVE Kept
  BY <1>14 DEF RemoveBegin, DrainEnd, StopDevice, txnVars
<1>15. ASSUME UNCHANGED <<pc, cur, err, txnVars>> PROVE Kept
  BY <1>15 DEF txnVars
<1>16. QED
  BY <1>1, <1>2, <1>3, <1>4, <1>5, <1>6, <1>7, <1>8, <1>9, <1>10, <1>11,
     <1>12, <1>13, <1>14, <1>15
     DEF Next, Sender, CallerAlloc, ProbeAlloc, RxDrop, Boot, Announce, Serve,
         Crash, vars

-----------------------------------------------------------------------------
(***************************************************************************)
(* The mapping, step by step.                                              *)
(***************************************************************************)

\* A step that leaves the owner's thread and the table of numbers alone leaves
\* the client of s where it was.
LEMMA SameClient ==
  ASSUME NEW s, s >= next' <=> s >= next, owner'[s] = owner[s],
         cur'[owner[s]] = cur[owner[s]], pc'[owner[s]] = pc[owner[s]],
         err'[owner[s]] = err[owner[s]]
  PROVE  ClientOf(s)' = ClientOf(s)
BY DEF ClientOf

\* So does a step of a thread that has nothing to do with s before or after.
LEMMA OtherClient ==
  ASSUME IInv, NEW s \in Seqs, NEW p \in Procs,
         s >= next' <=> s >= next, owner'[s] = owner[s],
         cur[p] # s \/ pc[p] \in ClaimerPc,
         cur'[p] # s \/ pc'[p] \in ClaimerPc,
         \A q \in Procs : q # p =>
           cur'[q] = cur[q] /\ pc'[q] = pc[q] /\ err'[q] = err[q]
  PROVE  ClientOf(s)' = ClientOf(s)
<1>1. owner[s] \in Procs
  BY DEF IInv, TypeOK, TxnType, Senders, Procs
<1>2. CASE owner[s] = p
  BY <1>2 DEF ClientOf, ClaimerPc
<1>3. CASE owner[s] # p
  BY <1>1, <1>3, SameClient
<1>4. QED
  BY <1>2, <1>3

\* A step that changes no client and no outcome is a stutter.
LEMMA Stutter ==
  ASSUME \A s \in Seqs : ClientOf(s)' = ClientOf(s),
         \A s \in Seqs : OutcomeOf(s)' = OutcomeOf(s)
  PROVE  UNCHANGED Promise!vars
BY DEF Promise!vars

\* A step that moves one client along an edge of the promise.
LEMMA Moves ==
  ASSUME NEW r \in Seqs,
         \A s \in Seqs : s # r => ClientOf(s)' = ClientOf(s),
         \A s \in Seqs : OutcomeOf(s)' = OutcomeOf(s),
         \/ ClientOf(r) = "none" /\ ClientOf(r)' = "sending"
         \/ ClientOf(r) = "sending" /\ ClientOf(r)' \in {"waiting", "gone"}
         \/ /\ ClientOf(r) = "waiting" /\ ClientOf(r)' = "gone"
            /\ OutcomeOf(r) # "none"
  PROVE  Promise!Next
<1> DEFINE C == [s \in Seqs |-> ClientOf(s)]
           O == [s \in Seqs |-> OutcomeOf(s)]
<1>1. O' = O
  OBVIOUS
<1>2. ASSUME NEW v, ClientOf(r)' = v PROVE C' = [C EXCEPT ![r] = v]
  BY <1>2
<1>3. CASE ClientOf(r) = "none" /\ ClientOf(r)' = "sending"
  <2>1. Promise!Issue(r)
    BY <1>1, <1>2, <1>3 DEF Promise!Issue
  <2>2. QED
    BY <2>1 DEF Promise!Next
<1>4. CASE ClientOf(r) = "sending" /\ ClientOf(r)' = "waiting"
  <2>1. Promise!Wait(r)
    BY <1>1, <1>2, <1>4 DEF Promise!Wait
  <2>2. QED
    BY <2>1 DEF Promise!Next
<1>5. CASE ClientOf(r) = "sending" /\ ClientOf(r)' = "gone"
  <2>1. Promise!Leave(r)
    BY <1>1, <1>2, <1>5 DEF Promise!Leave
  <2>2. QED
    BY <2>1 DEF Promise!Next
<1>6. CASE ClientOf(r) = "waiting" /\ ClientOf(r)' = "gone" /\ OutcomeOf(r) # "none"
  <2>1. Promise!Collect(r)
    BY <1>1, <1>2, <1>6 DEF Promise!Collect, Promise!Settled
  <2>2. QED
    BY <2>1 DEF Promise!Next
<1>7. QED
  BY <1>3, <1>4, <1>5, <1>6

\* A step that settles one request.
LEMMA Settles ==
  ASSUME NEW r \in Seqs,
         \A s \in Seqs : ClientOf(s)' = ClientOf(s),
         \A s \in Seqs : s # r => OutcomeOf(s)' = OutcomeOf(s),
         ClientOf(r) # "none", OutcomeOf(r) = "none",
         OutcomeOf(r)' \in Statuses \ {"none"}
  PROVE  Promise!Next
<1> DEFINE C == [s \in Seqs |-> ClientOf(s)]
           O == [s \in Seqs |-> OutcomeOf(s)]
<1>1. C' = C
  OBVIOUS
<1>2. O' = [O EXCEPT ![r] = OutcomeOf(r)']
  OBVIOUS
<1>3. Promise!Settle(r)
  BY <1>1, <1>2 DEF Promise!Settle, Promise!Settled
<1>4. QED
  BY <1>3 DEF Promise!Next

\* Every step of the control plane is a step of the promise or a stutter.
LEMMA PromiseStep ==
  ASSUME IInv, AnswerInv, AnswerInv', [Next]_vars
  PROVE  Promise!Next \/ UNCHANGED Promise!vars
<1> USE MaxSeqType, ProcAssumption DEF Senders, Procs, Goto
<1>0. /\ ProcType /\ TxnType /\ CurInv /\ FreshInv
      /\ \A s \in 1 .. next - 1 : TxnInv(s)
      /\ 0 \notin Seqs /\ next \in Nat
      /\ \A s \in Seqs : s \in Nat /\ (s < next => s \in 1 .. next - 1)
      /\ \A s \in table : s \in Seqs /\ s < next
  BY DEF IInv, TypeOK, TxnType, Seqs, FreshInv
<1> USE <1>0 DEF ProcType, TxnType
<1>1. ASSUME NEW p \in Senders, pc[p] \in {"idle", "bind"}, Alloc(p)
      PROVE  Promise!Next
  <2>0. PICK r \in Seqs : r = next
    BY <1>1 DEF Alloc, Seqs
  <2>1. /\ r = next /\ next' = next + 1
        /\ owner' = [owner EXCEPT ![next] = p]
        /\ cur' = [cur EXCEPT ![p] = next] /\ cur[p] = 0
        /\ pc' = [pc EXCEPT ![p] = "alloced"]
        /\ UNCHANGED <<err, notified, status>>
    BY <1>1, <2>0 DEF Alloc, CurInv, SenderPc, ClaimerPc
  <2>2. ASSUME NEW s \in Seqs, s # r PROVE ClientOf(s)' = ClientOf(s)
    BY <2>1, <2>2, OtherClient
  <2>3. ClientOf(r) = "none" /\ ClientOf(r)' = "sending"
    BY <2>1 DEF ClientOf
  <2>4. \A s \in Seqs : OutcomeOf(s)' = OutcomeOf(s)
    BY <2>1 DEF OutcomeOf
  <2>5. QED
    BY <2>1, <2>2, <2>3, <2>4, Moves
<1>2. ASSUME NEW p \in Senders,
             SendGetRef(p) \/ SendEnter(p) \/ SendTimeout(p)
      PROVE  UNCHANGED Promise!vars
  <2>1. /\ pc[p] \in {"alloced", "enter", "sending"}
        /\ \E l \in {"corrupt", "enter", "cancel", "sending"} :
             pc' = [pc EXCEPT ![p] = l]
        /\ \A q \in Procs : q # p => err'[q] = err[q]
        /\ UNCHANGED <<owner, next, cur, notified, status>>
    BY <1>2 DEF SendGetRef, SendEnter, SendTimeout, txnVars
  <2>2. PICK r \in Seqs : r = cur[p] /\ owner[r] = p /\ r < next
    BY <2>1 DEF CurInv, SenderPc, Seqs
  <2>3. ASSUME NEW s \in Seqs, s # r PROVE ClientOf(s)' = ClientOf(s)
    BY <2>1, <2>2, <2>3, OtherClient
  <2>4. ClientOf(r)' = ClientOf(r)
    BY <2>1, <2>2 DEF ClientOf
  <2>5. QED
    BY <2>1, <2>3, <2>4, Stutter DEF OutcomeOf
<1>3. ASSUME NEW p \in Senders, SendOk(p)
      PROVE  Promise!Next \/ UNCHANGED Promise!vars
  <2>1. /\ pc[p] = "sending"
        /\ pc' = [pc EXCEPT ![p] = IF p = Rx THEN "release" ELSE "wait"]
        /\ err' = [err EXCEPT ![p] = "none"]
        /\ UNCHANGED <<owner, next, cur, notified, status>>
    BY <1>3 DEF SendOk, txnVars
  <2>2. PICK r \in Seqs : r = cur[p] /\ owner[r] = p /\ r < next
    BY <2>1 DEF CurInv, SenderPc, Seqs
  <2>3. ASSUME NEW s \in Seqs, s # r PROVE ClientOf(s)' = ClientOf(s)
    BY <2>1, <2>2, <2>3, OtherClient
  <2>4. \A s \in Seqs : OutcomeOf(s)' = OutcomeOf(s)
    BY <2>1 DEF OutcomeOf
  <2>5. CASE p = Rx
    <3>1. ClientOf(r)' = ClientOf(r)
      BY <2>1, <2>2, <2>5 DEF ClientOf
    <3>2. QED
      BY <2>3, <2>4, <3>1, Stutter
  <2>6. CASE p # Rx
    <3>1. ClientOf(r) = "sending" /\ ClientOf(r)' = "waiting"
      BY <2>1, <2>2, <2>6 DEF ClientOf
    <3>2. QED
      BY <2>2, <2>3, <2>4, <3>1, Moves
  <2>7. QED
    BY <2>5, <2>6
<1>4. ASSUME NEW p \in Senders, Cancel(p)
      PROVE  Promise!Next \/ UNCHANGED Promise!vars
  <2>1. /\ pc[p] = "cancel" /\ pc' = [pc EXCEPT ![p] = "release"]
        /\ UNCHANGED <<owner, next, cur, err>>
    BY <1>4 DEF Cancel
  <2>2. PICK r \in Seqs : r = cur[p] /\ owner[r] = p /\ r < next
    BY <2>1 DEF CurInv, SenderPc, Seqs
  <2>3. ASSUME NEW s \in Seqs PROVE ClientOf(s)' = ClientOf(s)
    <3>1. CASE s # r
      BY <2>1, <2>2, <3>1, OtherClient
    <3>2. CASE s = r
      BY <2>1, <2>2, <3>2 DEF ClientOf, AnswerInv, ErrSet
    <3>3. QED
      BY <3>1, <3>2
  <2>4. CASE r \in table
    <3>1. /\ status' = [status EXCEPT ![r] = "ECANCELED"]
          /\ notified' = [notified EXCEPT ![r] = @ + 1]
      BY <1>4, <2>2, <2>4 DEF Cancel, Notify
    <3>2. notified[r] = 0
      BY <2>2, <2>4 DEF TxnInv, Unnotified, Bit
    <3>3. /\ OutcomeOf(r) = "none"
          /\ OutcomeOf(r)' \in Statuses \ {"none"}
          /\ \A s \in Seqs : s # r => OutcomeOf(s)' = OutcomeOf(s)
      BY <2>1, <2>2, <3>1, <3>2 DEF OutcomeOf, Statuses
    <3>4. ClientOf(r) # "none"
      BY <2>2 DEF ClientOf
    <3>5. QED
      BY <2>2, <2>3, <3>3, <3>4, Settles
  <2>5. CASE r \notin table
    <3>1. \A s \in Seqs : OutcomeOf(s)' = OutcomeOf(s)
      BY <1>4, <2>2, <2>5 DEF Cancel, OutcomeOf
    <3>2. QED
      BY <2>3, <3>1, Stutter
  <2>6. QED
    BY <2>4, <2>5
<1>5. ASSUME NEW c \in Callers, Woken(c) PROVE UNCHANGED Promise!vars
  <2>1. /\ pc[c] = "wait" /\ pc' = [pc EXCEPT ![c] = "release"]
        /\ UNCHANGED <<owner, next, cur, err, notified, status>>
    BY <1>5 DEF Woken, txnVars
  <2>2. PICK r \in Seqs : r = cur[c] /\ owner[r] = c /\ r < next
    BY <2>1 DEF CurInv, SenderPc, Seqs
  <2>3. ASSUME NEW s \in Seqs, s # r PROVE ClientOf(s)' = ClientOf(s)
    BY <2>1, <2>2, <2>3, OtherClient
  <2>4. ClientOf(r)' = ClientOf(r)
    BY <2>1, <2>2 DEF ClientOf
  <2>5. QED
    BY <2>1, <2>3, <2>4, Stutter DEF OutcomeOf
<1>6. ASSUME NEW p \in Senders, Release(p) PROVE Promise!Next
  <2>1. /\ pc[p] = "release" /\ cur' = [cur EXCEPT ![p] = 0]
        /\ \A q \in Procs : q # p => pc'[q] = pc[q] /\ err'[q] = err[q]
        /\ UNCHANGED <<owner, next, notified, status>>
    BY <1>6 DEF Release
  <2>2. PICK r \in Seqs : r = cur[p] /\ owner[r] = p /\ r < next
    BY <2>1 DEF CurInv, SenderPc, Seqs
  <2>3. ASSUME NEW s \in Seqs, s # r PROVE ClientOf(s)' = ClientOf(s)
    BY <2>1, <2>2, <2>3, OtherClient
  <2>4. \A s \in Seqs : OutcomeOf(s)' = OutcomeOf(s)
    BY <2>1 DEF OutcomeOf
  <2>5. ClientOf(r)' = "gone"
    BY <2>1, <2>2 DEF ClientOf
  <2>6. CASE p # Rx /\ err[p] = "none"
    <3>1. ClientOf(r) = "waiting"
      BY <2>1, <2>2, <2>6 DEF ClientOf
    <3>2. notified[r] = 1
      BY <2>1, <2>2, <2>6 DEF AnswerInv, ErrSet, TxnInv, Bit
    <3>3. OutcomeOf(r) # "none"
      BY <2>2, <3>2 DEF OutcomeOf, AnswerInv, StatusSet
    <3>4. QED
      BY <2>2, <2>3, <2>4, <2>5, <3>1, <3>3, Moves
  <2>7. CASE ~(p # Rx /\ err[p] = "none")
    <3>1. ClientOf(r) = "sending"
      BY <2>1, <2>2, <2>7 DEF ClientOf
    <3>2. QED
      BY <2>2, <2>3, <2>4, <2>5, <3>1, Moves
  <2>8. QED
    BY <2>6, <2>7
<1>7. ASSUME ProbeBind \/ ProbeNoMem \/ ProbeError PROVE UNCHANGED Promise!vars
  <2>1. /\ pc[Rx] \in {"idle", "bind", "fail"}
        /\ \A q \in Procs : q # Rx => pc'[q] = pc[q]
        /\ UNCHANGED <<cur, err, owner, next, notified, status>>
    BY <1>7 DEF ProbeBind, ProbeNoMem, ProbeError, RxHead, txnVars
  <2>2. cur[Rx] = 0
    BY <2>1 DEF CurInv, SenderPc, ClaimerPc
  <2>3. ASSUME NEW s \in Seqs PROVE ClientOf(s)' = ClientOf(s)
    BY <2>1, <2>2, OtherClient
  <2>4. QED
    BY <2>1, <2>3, Stutter DEF OutcomeOf
<1>8. ASSUME NEW p \in {Rx, Recovery}, NEW r \in table,
             pc[p] \in {"idle", "drain"}, pc' = [pc EXCEPT ![p] = "notify"],
             cur' = [cur EXCEPT ![p] = r],
             \A s \in Seqs : s # r => status'[s] = status[s],
             UNCHANGED <<owner, next, notified, err>>
      PROVE  UNCHANGED Promise!vars
  <2>1. cur[p] = 0 /\ pc'[p] \in ClaimerPc
    BY <1>8 DEF CurInv, SenderPc, ClaimerPc
  <2>2. ASSUME NEW s \in Seqs PROVE ClientOf(s)' = ClientOf(s)
    BY <1>8, <2>1, OtherClient
  <2>3. notified[r] = 0
    BY DEF TxnInv, Unnotified, Bit
  <2>4. \A s \in Seqs : OutcomeOf(s)' = OutcomeOf(s)
    BY <1>8, <2>3 DEF OutcomeOf
  <2>5. QED
    BY <2>2, <2>4, Stutter
<1>9. ASSUME RxClaim \/ DrainClaim PROVE UNCHANGED Promise!vars
  <2>1. CASE RxClaim
    BY <1>8, <2>1 DEF RxClaim, RxHead
  <2>2. CASE DrainClaim
    BY <1>8, <2>2 DEF DrainClaim
  <2>3. QED
    BY <1>9, <2>1, <2>2
<1>10. ASSUME NEW p \in {Rx, Recovery}, ClaimerNotify(p) PROVE Promise!Next
  <2>1. /\ pc[p] = "notify" /\ pc' = [pc EXCEPT ![p] = "put"]
        /\ notified' = [notified EXCEPT ![cur[p]] = @ + 1]
        /\ UNCHANGED <<owner, next, cur, err, status>>
    BY <1>10 DEF ClaimerNotify, Notify
  <2>2. PICK r \in Seqs : r = cur[p] /\ r < next
    BY <2>1, CurSeq DEF IInv, ClaimerPc
  <2>3. ASSUME NEW s \in Seqs PROVE ClientOf(s)' = ClientOf(s)
    BY <2>1, OtherClient DEF ClaimerPc
  <2>4. notified[r] = 0 /\ status[r] # "none"
    BY <2>1, <2>2 DEF TxnInv, Unnotified, Notifying, Bit, AnswerInv, StatusSet
  <2>5. /\ OutcomeOf(r) = "none"
        /\ OutcomeOf(r)' \in Statuses \ {"none"}
        /\ \A s \in Seqs : s # r => OutcomeOf(s)' = OutcomeOf(s)
    BY <2>1, <2>2, <2>4 DEF OutcomeOf
  <2>6. ClientOf(r) # "none"
    BY <2>2 DEF ClientOf
  <2>7. QED
    BY <2>2, <2>3, <2>5, <2>6, Settles
<1>11. ASSUME NEW p \in {Rx, Recovery}, ClaimerPut(p)
       PROVE  UNCHANGED Promise!vars
  <2>1. /\ pc[p] = "put" /\ cur' = [cur EXCEPT ![p] = 0]
        /\ \A q \in Procs : q # p => pc'[q] = pc[q]
        /\ UNCHANGED <<owner, next, err, notified, status>>
    BY <1>11 DEF ClaimerPut
  <2>2. ASSUME NEW s \in Seqs PROVE ClientOf(s)' = ClientOf(s)
    BY <2>1, OtherClient DEF ClaimerPc
  <2>3. QED
    BY <2>1, <2>2, Stutter DEF OutcomeOf
<1>12. ASSUME RemoveBegin \/ DrainEnd \/ StopDevice PROVE UNCHANGED Promise!vars
  <2>1. /\ \A q \in Procs : q # Recovery => pc'[q] = pc[q]
        /\ UNCHANGED <<cur, err, owner, next, notified, status>>
    BY <1>12 DEF RemoveBegin, DrainEnd, StopDevice, txnVars
  <2>2. ASSUME NEW s \in Seqs PROVE ClientOf(s)' = ClientOf(s)
    BY <2>1, SameClient
  <2>3. QED
    BY <2>1, <2>2, Stutter DEF OutcomeOf
<1>13. ASSUME UNCHANGED <<pc, cur, err, txnVars>> PROVE UNCHANGED Promise!vars
  <2>1. ASSUME NEW s \in Seqs PROVE ClientOf(s)' = ClientOf(s)
    BY <1>13, SameClient DEF txnVars
  <2>2. QED
    BY <1>13, <2>1, Stutter DEF OutcomeOf, txnVars
<1>14. QED
  BY <1>1, <1>2, <1>3, <1>4, <1>5, <1>6, <1>7, <1>9, <1>10, <1>11, <1>12, <1>13
     DEF Next, Sender, CallerAlloc, ProbeAlloc, RxDrop, Boot, Announce, Serve,
         Crash, vars

\* The initial state maps to the initial state of the promise.
LEMMA PromiseInit == Init => Promise!Init
<1> SUFFICES ASSUME Init PROVE Promise!Init
  OBVIOUS
<1>1. ASSUME NEW s \in Seqs PROVE OutcomeOf(s) = "none" /\ ClientOf(s) = "none"
  BY MaxSeqType DEF Init, OutcomeOf, ClientOf, Seqs
<1>2. QED
  BY <1>1 DEF Promise!Init

\* The control plane implements its promise: every request is settled exactly
\* once, its outcome is final, and a synchronous ioctl returns from its wait
\* only with it -- for any number of threads, whatever replies, crashes,
\* teardowns and failed sends there are.
THEOREM PromiseKept == Spec => KeepsPromise
<1>1. IInv /\ AnswerInv /\ [Next]_vars => AnswerInv'
  BY StatusStep, ErrStep DEF AnswerInv
<1>2. Spec => []AnswerInv
  BY InitAnswer, <1>1, Accounts, PTL DEF Spec
<1>3. IInv /\ AnswerInv /\ AnswerInv' /\ [Next]_vars =>
        [Promise!Next]_(Promise!vars)
  BY PromiseStep
<1>4. QED
  BY PromiseInit, <1>2, <1>3, Accounts, PTL DEF Spec, KeepsPromise, Promise!Spec
=============================================================================
