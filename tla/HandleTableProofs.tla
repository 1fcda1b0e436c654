-------------------------- MODULE HandleTableProofs --------------------------
(***************************************************************************)
(* Proofs about HandleTable, for any number of threads, handles and        *)
(* sessions.                                                               *)
(***************************************************************************)
EXTENDS HandleTable, TLAPS

\* A pair is not Nobody, and its parts are a generation and a handle.
LEMMA PairParts ==
  /\ Nobody \notin Pairs
  /\ \A b \in Pairs : b[1] \in Gens /\ b[2] \in Handles /\ b = <<b[1], b[2]>>
  /\ \A g \in Gens, h \in Handles : <<g, h>> \in Pairs
BY BoundAssumption DEF Pairs, Nobody, Gens, Handles

\* What Tail leaves of the requests on the wire.
LEMMA TailIs ==
  ASSUME NEW q \in Seq(Requests), q # <<>>
  PROVE  /\ Head(q) \in Requests /\ Head(q) = q[1] /\ 1 \in DOMAIN q
         /\ Tail(q) \in Seq(Requests)
         /\ \A i \in DOMAIN Tail(q) :
              /\ i \in Nat /\ i + 1 \in DOMAIN q
              /\ i + 1 # 1 /\ Tail(q)[i] = q[i + 1]
         /\ \A i \in DOMAIN q : i # 1 =>
              i - 1 \in DOMAIN Tail(q) /\ Tail(q)[i - 1] = q[i]
OBVIOUS

\* What Append makes of them.
LEMMA AppendIs ==
  ASSUME NEW q \in Seq(Requests), NEW r \in Requests
  PROVE  /\ Append(q, r) \in Seq(Requests)
         /\ \A i \in DOMAIN Append(q, r) :
              \/ i \in DOMAIN q /\ Append(q, r)[i] = q[i]
              \/ i = Len(q) + 1 /\ Append(q, r)[i] = r
         /\ \A i \in DOMAIN q : i \in DOMAIN Append(q, r) /\ Append(q, r)[i] = q[i]
         /\ Len(q) + 1 \in DOMAIN Append(q, r)
         /\ Append(q, r)[Len(q) + 1] = r
OBVIOUS

\* The initial state satisfies the inductive invariant.
LEMMA InitIInv == Init => IInv
<1> SUFFICES ASSUME Init PROVE IInv
  OBVIOUS
<1> USE BoundAssumption DEF Init
<1>1. running \in BOOLEAN /\ staleFree \in BOOLEAN
  OBVIOUS
<1>2. DevType /\ TabType
  BY <1>1 DEF DevType, TabType, Gens, Handles
<1>3. CallType
  <2>1. drained \in [Threads -> BOOLEAN]
    OBVIOUS
  <2>2. QED
    BY <2>1 DEF CallType, Pcs
<1>4. HistType /\ txq \in Seq(Requests)
  BY <1>1 DEF HistType
<1>5. SessionInv /\ IssuedInv /\ TableInv /\ BlocksAccounted
  BY DEF SessionInv, IssuedInv, TableInv, Held, BlocksAccounted
<1>6. CallInv /\ DistinctInv
  BY DEF CallInv, DistinctInv, Granted, Freeing
<1>7. WireInv
  BY DEF WireInv, FreesOnWire, WaitersOnWire
<1>8. AliveInv
  BY DEF AliveInv, NoDoubleFree, Freeing
<1>9. QED
  BY <1>2, <1>3, <1>4, <1>5, <1>6, <1>7, <1>8 DEF IInv, TypeOK

-----------------------------------------------------------------------------
(***************************************************************************)
(* Type correctness, part by part.                                         *)
(***************************************************************************)

\* Every step keeps the types of the device's side.
LEMMA DevTypeStep == ASSUME IInv, [Next]_vars PROVE DevType'
<1>0. DevType
  BY DEF IInv, TypeOK
<1>1. ASSUME ServeAlloc PROVE DevType'
  BY <1>0, <1>1, BoundAssumption DEF ServeAlloc, HasRoom, Grant, DevType, Handles
<1>2. ASSUME ServeFree PROVE DevType'
  BY <1>0, <1>2 DEF ServeFree, DevType
<1>3. ASSUME BootDone PROVE DevType'
  <2>1. running' \in BOOLEAN
    BY <1>3 DEF BootDone
  <2>2. QED
    BY <1>0, <1>3, <2>1, BoundAssumption DEF BootDone, NewSession, DevType, Gens
<1>4. ASSUME Regenerate \/ ProbeBegin \/ ProbeEnd \/ Remove PROVE DevType'
  BY <1>0, <1>4 DEF Regenerate, ProbeBegin, ProbeEnd, Remove, DevType, devVars
<1>5. ASSUME Stop \/ Crash PROVE DevType'
  <2>1. running' \in BOOLEAN
    BY <1>5 DEF Stop, Crash
  <2>2. QED
    BY <1>0, <1>5, <2>1 DEF Stop, Crash, DevType
<1>6. ASSUME UNCHANGED <<devVars, fw>> PROVE DevType'
  BY <1>0, <1>6 DEF DevType, devVars
<1>7. QED
  BY <1>1, <1>2, <1>3, <1>4, <1>5, <1>6
     DEF Next, vars, AllocStart, FreeStart, FreeNoMem, Send, SendFails, Insert,
         InsertNoMem, CopyOut, Erase, ServeNoMem

\* Every step keeps the types of the handle table.
LEMMA TabTypeStep == ASSUME IInv, [Next]_vars PROVE TabType'
<1>0. DevType /\ TabType /\ CallType /\ CallInv
  BY DEF IInv, TypeOK
<1>1. ASSUME NEW t \in Threads, Insert(t) PROVE TabType'
  <2>1. arg[t] \in Pairs
    BY <1>0, <1>1 DEF Insert, CallType, CallInv
  <2>2. QED
    BY <1>0, <1>1, <2>1, PairParts DEF Insert, TabType
<1>2. ASSUME NEW t \in Threads, NEW g \in Gens, NEW h \in Handles, Erase(t, g, h)
      PROVE  TabType'
  BY <1>0, <1>2 DEF Erase, TabType
<1>3. ASSUME Regenerate PROVE TabType'
  BY <1>0, <1>3 DEF Regenerate, TabType, DevType
<1>4. ASSUME UNCHANGED tabVars PROVE TabType'
  BY <1>0, <1>4 DEF TabType, tabVars
<1>5. QED
  BY <1>1, <1>2, <1>3, <1>4
     DEF Next, vars, AllocStart, FreeStart, FreeNoMem, Send, SendFails,
         InsertNoMem, CopyOut, ServeAlloc, ServeNoMem, ServeFree, BootDone,
         ProbeBegin, ProbeEnd, Remove, Stop, Crash

\* Every step keeps the types of the threads' variables.
LEMMA CallTypeStep == ASSUME IInv, [Next]_vars PROVE CallType'
<1>0. CallType /\ DevType /\ txq \in Seq(Requests)
  BY DEF IInv, TypeOK
<1>d. ASSUME NEW t \in Threads, UNCHANGED drained \/ drained' = [drained EXCEPT ![t] = FALSE]
      PROVE  drained' \in [Threads -> BOOLEAN]
  BY <1>0, <1>d DEF CallType
<1>1. ASSUME NEW t \in Threads,
             \/ AllocStart(t) \/ FreeStart(t) \/ FreeNoMem(t) \/ Send(t)
             \/ SendFails(t) \/ Insert(t) \/ InsertNoMem(t) \/ CopyOut(t)
      PROVE  CallType'
  <2>1. drained' \in [Threads -> BOOLEAN]
    <3>1. UNCHANGED drained \/ drained' = [drained EXCEPT ![t] = FALSE]
      BY <1>1 DEF AllocStart, FreeStart, FreeNoMem, Send, SendFails, Insert,
                  InsertNoMem, CopyOut
    <3>2. QED
      BY <1>d, <3>1
  <2>2. /\ \E l \in Pcs : Goto(t, l)
        /\ UNCHANGED arg \/ arg' = [arg EXCEPT ![t] = Nobody]
    BY <1>1 DEF AllocStart, FreeStart, FreeNoMem, Send, SendFails, Insert,
                InsertNoMem, CopyOut, Return, Pcs, Goto
  <2>3. QED
    BY <1>0, <2>1, <2>2 DEF CallType, Goto
<1>2. ASSUME NEW t \in Threads, NEW g \in Gens, NEW h \in Handles, Erase(t, g, h)
      PROVE  CallType'
  <2>1. drained' \in [Threads -> BOOLEAN]
    BY <1>0, <1>2 DEF Erase, CallType
  <2>2. QED
    BY <1>0, <1>2, <2>1, PairParts DEF Erase, CallType, Goto, Pcs
<1>3. ASSUME ServeAlloc \/ ServeNoMem \/ ServeFree PROVE CallType'
  <2>1. drained' \in [Threads -> BOOLEAN]
    BY <1>0, <1>3 DEF ServeAlloc, ServeNoMem, ServeFree, CallType
  <2>2. Head(txq).thread \in Threads
    <3>1. Head(txq) \in Requests
      BY <1>0, <1>3, TailIs DEF ServeAlloc, ServeNoMem, ServeFree
    <3>2. QED
      BY <3>1 DEF Requests
  <2>3. ServeAlloc => <<generation, nextHandle>> \in Pairs
    BY <1>0, PairParts DEF ServeAlloc, HasRoom, DevType, Handles
  <2>4. QED
    BY <1>0, <1>3, <2>1, <2>2, <2>3
       DEF ServeAlloc, ServeNoMem, ServeFree, Return, Goto, CallType, Pcs
<1>4. ASSUME Remove PROVE CallType'
  <2>1. drained' \in [Threads -> BOOLEAN]
    BY <1>0, <1>4 DEF Remove, CallType
  <2>2. QED
    BY <1>0, <1>4, <2>1 DEF Remove, CallType, Pcs
<1>5. ASSUME UNCHANGED callVars PROVE CallType'
  BY <1>0, <1>5 DEF CallType, callVars
<1>6. QED
  BY <1>1, <1>2, <1>3, <1>4, <1>5
     DEF Next, vars, BootDone, Regenerate, ProbeBegin, ProbeEnd, Stop, Crash

\* Every step keeps the types of the history variables.
LEMMA HistTypeStep == ASSUME IInv, [Next]_vars PROVE HistType'
<1>0. HistType /\ CallType /\ DevType /\ CallInv
  BY DEF IInv, TypeOK
<1>1. ASSUME NEW t \in Threads, FreeNoMem(t) \/ SendFails(t) \/ InsertNoMem(t)
      PROVE  HistType'
  BY <1>0, <1>1 DEF FreeNoMem, SendFails, InsertNoMem, Lose, HistType, CallType
<1>2. ASSUME NEW t \in Threads, CopyOut(t) PROVE HistType'
  <2>1. arg[t] \in Pairs
    BY <1>0, <1>2 DEF CopyOut, CallType, CallInv
  <2>2. QED
    BY <1>0, <1>2, <2>1 DEF CopyOut, HistType
<1>3. ASSUME NEW t \in Threads, NEW g \in Gens, NEW h \in Handles, Erase(t, g, h)
      PROVE  HistType'
  BY <1>0, <1>3, PairParts DEF Erase, HistType
<1>4. ASSUME ServeAlloc PROVE HistType'
  <2>1. <<generation, nextHandle>> \in Pairs
    BY <1>0, <1>4, PairParts DEF ServeAlloc, HasRoom, DevType, Handles
  <2>2. QED
    BY <1>0, <1>4, <2>1 DEF ServeAlloc, Lose, HistType
<1>5. ASSUME ServeFree \/ BootDone PROVE HistType'
  <2>1. staleFree' \in BOOLEAN
    BY <1>5 DEF ServeFree, BootDone
  <2>2. QED
    BY <1>0, <1>5, <2>1 DEF ServeFree, BootDone, HistType
<1>6. ASSUME UNCHANGED histVars PROVE HistType'
  BY <1>0, <1>6 DEF HistType, histVars
<1>7. QED
  BY <1>1, <1>2, <1>3, <1>4, <1>5, <1>6
     DEF Next, vars, AllocStart, FreeStart, Send, Insert, ServeNoMem,
         Regenerate, ProbeBegin, ProbeEnd, Remove, Stop, Crash

\* Every step keeps the wire a sequence of requests.
LEMMA WireTypeStep == ASSUME IInv, [Next]_vars PROVE txq' \in Seq(Requests)
<1>0. CallType /\ txq \in Seq(Requests)
  BY DEF IInv, TypeOK
<1>1. ASSUME NEW t \in Threads, Send(t) PROVE txq' \in Seq(Requests)
  <2>1. [thread |-> t, pair |-> arg[t], orphan |-> drained[t]] \in Requests
    BY <1>0 DEF CallType, Requests
  <2>2. QED
    BY <1>0, <1>1, <2>1, AppendIs DEF Send
<1>2. ASSUME ServeAlloc \/ ServeNoMem \/ ServeFree PROVE txq' \in Seq(Requests)
  BY <1>0, <1>2, TailIs DEF ServeAlloc, ServeNoMem, ServeFree
<1>3. ASSUME txq' = <<>> PROVE txq' \in Seq(Requests)
  BY <1>3
<1>4. ASSUME UNCHANGED txq PROVE txq' \in Seq(Requests)
  BY <1>0, <1>4
<1>5. QED
  BY <1>1, <1>2, <1>3, <1>4
     DEF Next, vars, AllocStart, FreeStart, FreeNoMem, SendFails, Insert,
         InsertNoMem, CopyOut, Erase, BootDone, Regenerate, ProbeBegin,
         ProbeEnd, Remove, Stop, Crash

\* Together.
LEMMA TypeStep == ASSUME IInv, [Next]_vars PROVE TypeOK'
BY DevTypeStep, TabTypeStep, CallTypeStep, HistTypeStep, WireTypeStep DEF TypeOK

-----------------------------------------------------------------------------
(***************************************************************************)
(* The other parts of the inductive invariant.                             *)
(***************************************************************************)

\* Driver and device agree on the session.
LEMMA SessionStep == ASSUME IInv, [Next]_vars PROVE SessionInv'
<1>0. /\ DevType /\ TabType /\ SessionInv
      /\ txq \in Seq(Requests)
  BY DEF IInv, TypeOK
<1> USE <1>0, BoundAssumption DEF SessionInv, DevType, TabType, Gens, Handles
<1>1. ASSUME NEW t \in Threads, Send(t) PROVE SessionInv'
  BY <1>1 DEF Send, devVars, tabVars
<1>2. ASSUME ServeAlloc PROVE SessionInv'
  <2>1. fw \notin {"off", "starting"}
    BY <1>2 DEF ServeAlloc
  <2>2. QED
    BY <1>2, <2>1 DEF ServeAlloc, HasRoom, Grant, tabVars
<1>3. ASSUME ServeFree PROVE SessionInv'
  <2>1. fw \notin {"off", "starting"}
    BY <1>3 DEF ServeFree
  <2>2. QED
    BY <1>3, <2>1 DEF ServeFree, tabVars
<1>4. ASSUME ServeNoMem PROVE SessionInv'
  <2>1. fw \notin {"off", "starting"}
    BY <1>4 DEF ServeNoMem
  <2>2. QED
    BY <1>4, <2>1 DEF ServeNoMem, tabVars, devVars
<1>5. ASSUME BootDone PROVE SessionInv'
  BY <1>5 DEF BootDone, NewSession, tabVars
<1>6. ASSUME Regenerate PROVE SessionInv'
  BY <1>6 DEF Regenerate, devVars
<1>7. ASSUME ProbeBegin \/ ProbeEnd \/ Remove PROVE SessionInv'
  BY <1>7 DEF ProbeBegin, ProbeEnd, Remove, devVars, tabVars
<1>8. ASSUME Stop \/ Crash PROVE SessionInv'
  BY <1>8 DEF Stop, Crash, tabVars
<1>9. ASSUME UNCHANGED <<devVars, txq, fw, tableGen>> PROVE SessionInv'
  BY <1>9 DEF devVars
<1>10. QED
  BY <1>1, <1>2, <1>3, <1>4, <1>5, <1>6, <1>7, <1>8, <1>9
     DEF Next, vars, tabVars, AllocStart, FreeStart, FreeNoMem, SendFails,
         Insert, InsertNoMem, CopyOut, Erase

\* The device never forgets that it granted a pair.
LEMMA IssuedForever ==
  ASSUME IInv, [Next]_vars, NEW b \in Pairs, Issued(b) PROVE IssuedBy(b, generation', nextHandle')
<1>0. DevType /\ b[1] \in Gens /\ b[2] \in Handles
  BY PairParts DEF IInv, TypeOK
<1> USE <1>0, BoundAssumption DEF Issued, IssuedBy, DevType, Gens, Handles
<1>1. ASSUME ServeAlloc PROVE IssuedBy(b, generation', nextHandle')
  BY <1>1 DEF ServeAlloc, Grant
<1>2. ASSUME BootDone PROVE IssuedBy(b, generation', nextHandle')
  BY <1>2 DEF BootDone, NewSession
<1>3. ASSUME UNCHANGED <<generation, nextHandle>> PROVE IssuedBy(b, generation', nextHandle')
  BY <1>3
<1>4. QED
  BY <1>1, <1>2, <1>3
     DEF Next, vars, devVars, AllocStart, FreeStart, FreeNoMem, Send, SendFails,
         Insert, InsertNoMem, CopyOut, Erase, ServeNoMem, ServeFree,
         Regenerate, ProbeBegin, ProbeEnd, Remove, Stop, Crash

\* Every pair anybody knows was granted by the device.
LEMMA IssuedStep == ASSUME IInv, [Next]_vars PROVE IssuedInv'
<1>0. /\ DevType /\ TabType /\ CallType /\ HistType /\ SessionInv
      /\ IssuedInv /\ CallInv
      /\ txq \in Seq(Requests)
  BY DEF IInv, TypeOK
<1>t. TypeOK'
  BY TypeStep
<1>1. \A b \in given' \cup accepted' : IssuedBy(b, generation', nextHandle')
  <2> SUFFICES ASSUME NEW b \in given' \cup accepted' PROVE IssuedBy(b, generation', nextHandle')
    OBVIOUS
  <2>1. b \in Pairs
    BY <1>t DEF TypeOK, HistType
  <2>2. Issued(b)
    <3>1. CASE b \in given \cup accepted
      BY <1>0, <3>1 DEF IssuedInv
    <3>2. CASE \E t \in Threads : CopyOut(t) /\ b = arg[t]
      BY <1>0, <2>1, <3>2, PairParts DEF IssuedInv
    <3>3. CASE \E t \in Threads, g \in Gens, h \in Handles :
                 Erase(t, g, h) /\ b = <<g, h>>
      BY <1>0, <3>3 DEF IssuedInv, Erase
    <3>4. QED
      BY <3>1, <3>2, <3>3
         DEF Next, vars, histVars, AllocStart, FreeStart, FreeNoMem, Send,
             SendFails, Insert, InsertNoMem, CopyOut, Erase, ServeAlloc,
             ServeNoMem, ServeFree, BootDone, Regenerate, ProbeBegin, ProbeEnd,
             Remove, Stop, Crash
  <2>3. QED
    BY <2>1, <2>2, IssuedForever
<1>2. ASSUME NEW t \in Threads, arg'[t] # Nobody PROVE IssuedBy(arg'[t], generation', nextHandle')
  <2>1. arg'[t] \in Pairs /\ arg[t] \in Pairs \cup {Nobody}
    BY <1>0, <1>2, <1>t DEF TypeOK, CallType
  <2>2. CASE arg'[t] = arg[t]
    <3>1. Issued(arg[t])
      BY <1>0, <1>2, <2>2 DEF IssuedInv
    <3>2. QED
      BY <2>1, <2>2, <3>1, IssuedForever
  <2>3. CASE ServeAlloc /\ arg'[t] = <<generation, nextHandle>>
    BY <1>0, <2>3 DEF ServeAlloc, Grant, IssuedBy, DevType
  <2>4. CASE \E g \in Gens, h \in Handles : Erase(t, g, h) /\ arg'[t] = <<g, h>>
    <3>1. Issued(arg'[t])
      BY <1>0, <2>4 DEF IssuedInv, Erase
    <3>2. QED
      BY <2>1, <3>1, IssuedForever
  <2>5. \/ arg'[t] = arg[t]
        \/ ServeAlloc /\ arg'[t] = <<generation, nextHandle>>
        \/ \E g \in Gens, h \in Handles : Erase(t, g, h) /\ arg'[t] = <<g, h>>
    <3>1. ASSUME NEW u \in Threads, NEW x, arg' = [arg EXCEPT ![u] = x]
          PROVE  arg'[t] = arg[t] \/ (arg'[t] = x /\ t = u)
      BY <1>0, <3>1 DEF CallType
    <3>2. ASSUME ServeAlloc \/ ServeNoMem \/ ServeFree PROVE Head(txq).thread \in Threads
      <4>1. Head(txq) \in Requests
        BY <1>0, <3>2, TailIs DEF ServeAlloc, ServeNoMem, ServeFree
      <4>2. QED
        BY <4>1 DEF Requests
    <3>3. ASSUME Remove PROVE arg'[t] = arg[t]
      BY <1>0, <1>2, <3>3 DEF Remove
    <3>4. ASSUME NEW u \in Threads, NEW g \in Gens, NEW h \in Handles, Erase(u, g, h)
          PROVE  arg'[t] = arg[t] \/ (Erase(t, g, h) /\ arg'[t] = <<g, h>>)
      <4>1. arg' = [arg EXCEPT ![u] = <<g, h>>]
        BY <3>4 DEF Erase
      <4>2. QED
        BY <3>1, <3>4, <4>1
    <3>5. ASSUME ServeAlloc
          PROVE  arg'[t] = arg[t] \/ arg'[t] = <<generation, nextHandle>>
      BY <3>1, <3>2, <3>5 DEF ServeAlloc
    <3>6. ASSUME ServeNoMem \/ ServeFree PROVE arg'[t] = arg[t]
      BY <1>2, <3>1, <3>2, <3>6 DEF ServeNoMem, ServeFree, Return
    <3>7. ASSUME NEW u \in Threads,
                 \/ AllocStart(u) \/ FreeStart(u) \/ FreeNoMem(u) \/ Send(u)
                 \/ SendFails(u) \/ Insert(u) \/ InsertNoMem(u) \/ CopyOut(u)
          PROVE  arg'[t] = arg[t]
      <4>1. UNCHANGED arg \/ arg' = [arg EXCEPT ![u] = Nobody]
        BY <3>7 DEF AllocStart, FreeStart, FreeNoMem, Send, SendFails, Insert,
                    InsertNoMem, CopyOut, Return
      <4>2. QED
        BY <1>2, <3>1, <4>1
    <3>8. ASSUME UNCHANGED arg PROVE arg'[t] = arg[t]
      BY <3>8
    <3>9. QED
      BY <3>3, <3>4, <3>5, <3>6, <3>7, <3>8
         DEF Next, vars, callVars, BootDone, Regenerate, ProbeBegin, ProbeEnd,
             Stop, Crash
  <2>6. QED
    BY <2>2, <2>3, <2>4, <2>5
<1>3. ASSUME NEW h \in entries' PROVE IssuedBy(<<tableGen', h>>, generation', nextHandle')
  <2>1. <<tableGen', h>> \in Pairs
    BY <1>t, PairParts DEF TypeOK, TabType
  <2>2. Issued(<<tableGen', h>>)
    <3>1. CASE UNCHANGED tableGen /\ h \in entries
      BY <1>0, <3>1 DEF IssuedInv
    <3>2. CASE \E t \in Threads : Insert(t)
      <4>1. PICK t \in Threads : Insert(t)
        BY <3>2
      <4>2. CASE h \in entries
        BY <1>0, <4>1, <4>2 DEF Insert, IssuedInv
      <4>3. CASE h \notin entries
        <5>1. arg[t] # Nobody /\ arg[t] \in Pairs
          BY <1>0, <4>1 DEF Insert, CallInv, CallType
        <5>2. <<tableGen', h>> = arg[t]
          BY <4>1, <4>3, <5>1, PairParts DEF Insert
        <5>3. QED
          BY <1>0, <5>1, <5>2 DEF IssuedInv
      <4>4. QED
        BY <4>2, <4>3
    <3>3. CASE Regenerate
      BY <1>0, <3>3 DEF Regenerate, SessionInv, DevType, TabType, Gens, Issued, IssuedBy
    <3>4. QED
      BY <3>1, <3>2, <3>3
         DEF Next, vars, tabVars, AllocStart, FreeStart, FreeNoMem, Send,
             SendFails, InsertNoMem, CopyOut, Erase, ServeAlloc,
             ServeNoMem, ServeFree, BootDone, ProbeBegin, ProbeEnd,
             Remove, Stop, Crash
  <2>3. QED
    BY <2>1, <2>2, IssuedForever
<1>4. QED
  BY <1>1, <1>2, <1>3 DEF IssuedInv, Issued

\* A thread moves between its own steps only, and the reply to an ALLOC is
\* the one thing that another party puts into its hands.
LEMMA ThreadStep ==
  ASSUME IInv, [Next]_vars, NEW t \in Threads
  PROVE  \/ pc'[t] = pc[t] /\ arg'[t] = arg[t]
         \/ pc'[t] = "idle" /\ arg'[t] = Nobody
         \/ pc[t] = "idle" /\ pc'[t] = "ready" /\ arg'[t] = arg[t]
         \/ pc[t] = "erased" /\ pc'[t] = "ready" /\ arg'[t] = arg[t]
         \/ Send(t) /\ pc[t] = "ready" /\ pc'[t] = "wait" /\ arg'[t] = arg[t]
         \/ /\ Insert(t) /\ pc[t] = "insert" /\ pc'[t] = "copyout"
            /\ arg'[t] = arg[t] /\ arg[t][1] = tableGen
            /\ entries' = entries \cup {arg[t][2]}
         \/ /\ ServeAlloc /\ t = Head(txq).thread
            /\ pc'[t] = "insert" /\ arg'[t] = <<generation, nextHandle>>
         \/ \E g \in Gens, h \in Handles :
              Erase(t, g, h) /\ pc'[t] = "erased" /\ arg'[t] = <<g, h>>
<1>0. CallType /\ txq \in Seq(Requests)
  BY DEF IInv, TypeOK
<1>1. ASSUME NEW u \in Threads, NEW l, NEW x,
             Goto(u, l), UNCHANGED arg \/ arg' = [arg EXCEPT ![u] = x]
      PROVE  IF t = u THEN pc'[t] = l /\ (arg'[t] = arg[t] \/ arg'[t] = x)
                      ELSE pc'[t] = pc[t] /\ arg'[t] = arg[t]
  BY <1>0, <1>1 DEF CallType, Goto
<1>2. ASSUME NEW u \in Threads, Return(u)
      PROVE  IF t = u THEN pc'[t] = "idle" /\ arg'[t] = Nobody
                      ELSE pc'[t] = pc[t] /\ arg'[t] = arg[t]
  BY <1>0, <1>2 DEF CallType, Goto, Return
<1>3. ASSUME ServeAlloc \/ ServeNoMem \/ ServeFree PROVE Head(txq).thread \in Threads
  <2>1. Head(txq) \in Requests
    BY <1>0, <1>3, TailIs DEF ServeAlloc, ServeNoMem, ServeFree
  <2>2. QED
    BY <2>1 DEF Requests
<1>4. ASSUME NEW u \in Threads, AllocStart(u) \/ FreeStart(u)
      PROVE  \/ pc'[t] = pc[t] /\ arg'[t] = arg[t]
             \/ pc[t] \in {"idle", "erased"} /\ pc'[t] = "ready" /\ arg'[t] = arg[t]
  BY <1>0, <1>4 DEF AllocStart, FreeStart, Goto, CallType
<1>5. ASSUME NEW u \in Threads,
             FreeNoMem(u) \/ SendFails(u) \/ InsertNoMem(u) \/ CopyOut(u)
      PROVE  \/ pc'[t] = pc[t] /\ arg'[t] = arg[t]
             \/ pc'[t] = "idle" /\ arg'[t] = Nobody
  BY <1>2, <1>5 DEF FreeNoMem, SendFails, InsertNoMem, CopyOut
<1>6. ASSUME NEW u \in Threads, Send(u)
      PROVE  \/ pc'[t] = pc[t] /\ arg'[t] = arg[t]
             \/ pc'[t] = "idle" /\ arg'[t] = Nobody
             \/ Send(t) /\ pc[t] = "ready" /\ pc'[t] = "wait" /\ arg'[t] = arg[t]
  <2>1. CASE Return(u)
    BY <1>2, <2>1
  <2>2. CASE Goto(u, "wait") /\ UNCHANGED arg
    BY <1>0, <1>6, <2>2 DEF Goto, CallType, Send
  <2>3. QED
    BY <1>6, <2>1, <2>2 DEF Send
<1>7. ASSUME NEW u \in Threads, Insert(u)
      PROVE  \/ pc'[t] = pc[t] /\ arg'[t] = arg[t]
             \/ pc'[t] = "idle" /\ arg'[t] = Nobody
             \/ /\ Insert(t) /\ pc[t] = "insert" /\ pc'[t] = "copyout"
                /\ arg'[t] = arg[t] /\ arg[t][1] = tableGen
                /\ entries' = entries \cup {arg[t][2]}
  <2>1. CASE Return(u)
    BY <1>2, <2>1
  <2>2. CASE ~Return(u)
    BY <1>0, <1>7, <2>2 DEF Goto, CallType, Insert
  <2>3. QED
    BY <2>1, <2>2
<1>8. ASSUME NEW u \in Threads, NEW g \in Gens, NEW h \in Handles, Erase(u, g, h)
      PROVE  \/ pc'[t] = pc[t] /\ arg'[t] = arg[t]
             \/ Erase(t, g, h) /\ pc'[t] = "erased" /\ arg'[t] = <<g, h>>
  BY <1>0, <1>8 DEF Goto, CallType, Erase
<1>9. ASSUME ServeAlloc
      PROVE  \/ pc'[t] = pc[t] /\ arg'[t] = arg[t]
             \/ /\ t = Head(txq).thread
                /\ pc'[t] = "insert" /\ arg'[t] = <<generation, nextHandle>>
  BY <1>0, <1>3, <1>9 DEF Goto, CallType, ServeAlloc
<1>10. ASSUME ServeNoMem \/ ServeFree
       PROVE  \/ pc'[t] = pc[t] /\ arg'[t] = arg[t]
              \/ pc'[t] = "idle" /\ arg'[t] = Nobody
  BY <1>2, <1>3, <1>10 DEF ServeNoMem, ServeFree
<1>11. ASSUME Remove
       PROVE  \/ pc'[t] = pc[t] /\ arg'[t] = arg[t]
              \/ pc'[t] = "idle" /\ arg'[t] = Nobody
  BY <1>0, <1>11 DEF Remove
<1>12. ASSUME UNCHANGED <<pc, arg>> PROVE pc'[t] = pc[t] /\ arg'[t] = arg[t]
  BY <1>12
<1>13. QED
  BY <1>4, <1>5, <1>6, <1>7, <1>8, <1>9, <1>10, <1>11, <1>12
     DEF Next, vars, callVars, BootDone, Regenerate, ProbeBegin, ProbeEnd,
         Stop, Crash

\* What a step does to the records of the blocks.
LEMMA LedgerStep ==
  ASSUME IInv, [Next]_vars
  PROVE  \/ UNCHANGED <<tabVars, given, accepted>>
         \/ \E t \in Threads, g \in Gens, h \in Handles : Erase(t, g, h)
         \/ \E t \in Threads : Insert(t)
         \/ \E t \in Threads : CopyOut(t)
         \/ Regenerate
BY DEF Next, vars, callVars, histVars, BootDone, ProbeBegin, ProbeEnd, Stop,
       Crash, Remove, ServeAlloc, ServeNoMem, ServeFree, AllocStart, FreeStart,
       FreeNoMem, Send, SendFails, InsertNoMem

\* The table never holds a block twice and never loses one that is held.
LEMMA TableStep == ASSUME IInv, [Next]_vars PROVE TableInv'
<1>0. /\ DevType /\ TabType /\ CallType /\ HistType /\ SessionInv
      /\ IssuedInv /\ TableInv /\ CallInv
  BY DEF IInv, TypeOK
<1>1. CASE UNCHANGED <<tabVars, given, accepted>>
  BY <1>0, <1>1 DEF TableInv, Held, InTable, tabVars
<1>2. ASSUME NEW t \in Threads, NEW g \in Gens, NEW h \in Handles, Erase(t, g, h)
      PROVE  TableInv'
  <2>1. /\ entries' = entries \ {h} /\ tableGen' = tableGen /\ g = tableGen
        /\ accepted' = accepted \cup {<<g, h>>} /\ given' = given
    BY <1>2 DEF Erase
  <2>2. ASSUME NEW b \in accepted' PROVE ~InTable(b)'
    BY <1>0, <2>1, <2>2 DEF TableInv, InTable
  <2>3. ASSUME NEW b \in given' \ accepted', b[1] = tableGen' PROVE InTable(b)'
    <3>1. b \in Pairs /\ b # <<g, h>> /\ InTable(b)
      BY <1>0, <2>1, <2>3 DEF HistType, TableInv, Held
    <3>2. b[2] # h
      BY <2>1, <2>3, <3>1, PairParts
    <3>3. QED
      BY <2>1, <3>1, <3>2 DEF InTable
  <2>4. QED
    BY <2>2, <2>3 DEF TableInv, Held
<1>3. ASSUME NEW t \in Threads, Insert(t) PROVE TableInv'
  <2>1. /\ tableGen' = tableGen /\ accepted' = accepted /\ given' = given
        /\ \/ entries' = entries
           \/ entries' = entries \cup {arg[t][2]} /\ arg[t][1] = tableGen
    BY <1>3 DEF Insert, histVars
  <2>2. arg[t] \in Pairs /\ arg[t] \notin accepted
    BY <1>0, <1>3 DEF Insert, CallInv, CallType
  <2>3. ASSUME NEW b \in accepted' PROVE ~InTable(b)'
    <3>1. b \in Pairs /\ b # arg[t] /\ ~InTable(b)
      BY <1>0, <2>1, <2>2, <2>3 DEF HistType, TableInv
    <3>2. ~(b[1] = arg[t][1] /\ b[2] = arg[t][2])
      BY <2>2, <3>1, PairParts
    <3>3. QED
      BY <2>1, <3>1, <3>2 DEF InTable
  <2>4. ASSUME NEW b \in given' \ accepted', b[1] = tableGen' PROVE InTable(b)'
    BY <1>0, <2>1, <2>4 DEF TableInv, Held, InTable
  <2>5. QED
    BY <2>3, <2>4 DEF TableInv, Held
<1>4. ASSUME NEW t \in Threads, CopyOut(t) PROVE TableInv'
  <2>1. /\ UNCHANGED <<tableGen, entries, accepted>>
        /\ given' \subseteq given \cup {arg[t]}
        /\ arg[t] \notin accepted /\ arg[t][1] = tableGen => InTable(arg[t])
    BY <1>0, <1>4 DEF CopyOut, tabVars, CallInv
  <2>2. QED
    BY <1>0, <2>1 DEF TableInv, Held, InTable
<1>5. ASSUME Regenerate PROVE TableInv'
  <2>1. /\ entries' = {} /\ tableGen' = generation /\ UNCHANGED <<given, accepted>>
        /\ nextHandle = 1
    BY <1>0, <1>5 DEF Regenerate, SessionInv, histVars, DevType, TabType, Gens
  <2>2. ASSUME NEW b \in given, b[1] = generation PROVE FALSE
    <3>1. b \in Pairs /\ Issued(b)
      BY <1>0, <2>2 DEF HistType, IssuedInv
    <3>2. b[2] \in Nat /\ b[2] # 0 /\ generation \in Nat
      BY <1>0, <3>1, PairParts DEF Handles, DevType, Gens
    <3>3. QED
      BY <2>1, <2>2, <3>1, <3>2 DEF Issued, IssuedBy
  <2>3. QED
    BY <2>1, <2>2 DEF TableInv, Held, InTable
<1>6. QED
  BY <1>1, <1>2, <1>3, <1>4, <1>5, LedgerStep

\* The pair an ALLOC is about to be granted is new to everybody.
LEMMA GrantIsNew ==
  ASSUME IInv, ServeAlloc
  PROVE  LET b == <<generation, nextHandle>> IN
           /\ b \in Pairs
           /\ b \notin given /\ b \notin accepted /\ ~InTable(b)
           /\ \A t \in Threads : arg[t] # b
<1>0. /\ DevType /\ TabType /\ CallType /\ HistType /\ IssuedInv
  BY DEF IInv, TypeOK
<1>1. <<generation, nextHandle>> \in Pairs
  BY <1>0, PairParts DEF ServeAlloc, HasRoom, DevType, Handles
<1>2. ~Issued(<<generation, nextHandle>>)
  BY <1>0, BoundAssumption DEF Issued, IssuedBy, DevType, Gens
<1>3. QED
  BY <1>0, <1>1, <1>2, PairParts DEF IssuedInv, InTable

\* A step of thread t on the table leaves every other thread where it is.
LEMMA OthersStay ==
  ASSUME IInv, NEW t \in Threads,
         \/ Insert(t) \/ CopyOut(t)
         \/ \E g \in Gens, h \in Handles : Erase(t, g, h)
  PROVE  \A u \in Threads \ {t} : pc'[u] = pc[u] /\ arg'[u] = arg[u]
<1>0. CallType
  BY DEF IInv, TypeOK
<1>1. CASE Insert(t)
  BY <1>0, <1>1 DEF Insert, Return, Goto, CallType
<1>2. CASE CopyOut(t)
  BY <1>0, <1>2 DEF CopyOut, Return, Goto, CallType
<1>3. CASE \E g \in Gens, h \in Handles : Erase(t, g, h)
  BY <1>0, <1>3 DEF Erase, Goto, CallType
<1>4. QED
  BY <1>1, <1>2, <1>3

\* What the table knows of the block in a thread's hands stays consistent.
LEMMA CallStep == ASSUME IInv, [Next]_vars PROVE CallInv'
<1>0. /\ DevType /\ TabType /\ CallType /\ HistType /\ SessionInv
      /\ IssuedInv /\ TableInv /\ CallInv /\ DistinctInv
  BY DEF IInv, TypeOK
<1> SUFFICES ASSUME NEW t \in Threads
             PROVE
      /\ pc'[t] = "idle" => arg'[t] = Nobody
      /\ pc'[t] \in {"erased", "insert", "copyout"} => arg'[t] # Nobody
      /\ pc'[t] \in {"erased", "ready", "wait"} /\ arg'[t] # Nobody => arg'[t] \in accepted'
      /\ Granted(t)' => arg'[t] \notin given'
      /\ pc'[t] = "insert" => arg'[t] \notin accepted' /\ ~InTable(arg[t])'
      /\ pc'[t] = "copyout" /\ arg'[t] \notin accepted' /\ arg'[t][1] = tableGen'
           => InTable(arg[t])'
  BY DEF CallInv
<1>1. CASE UNCHANGED <<tabVars, given, accepted>>
  <2>1. \/ ~(\E g \in Gens, h \in Handles : Erase(t, g, h)) /\ ~Insert(t)
        \/ pc'[t] # "copyout"
    <3>1. SUFFICES ASSUME Insert(t), pc'[t] = "copyout" PROVE FALSE
      BY <1>0, <1>1 DEF Erase, tabVars
    <3>2. entries' # entries
      BY <1>0, <3>1 DEF Insert, Return, Goto, CallType
    <3>3. QED
      BY <1>1, <3>2 DEF tabVars
  <2>2. ASSUME ServeAlloc
        PROVE  LET b == <<generation, nextHandle>> IN
                 b # Nobody /\ b \notin given /\ b \notin accepted /\ ~InTable(b)
    BY <2>2, GrantIsNew, PairParts
  <2>3. \/ pc'[t] = pc[t] /\ arg'[t] = arg[t]
        \/ pc'[t] = "idle" /\ arg'[t] = Nobody
        \/ pc[t] = "idle" /\ pc'[t] = "ready" /\ arg'[t] = arg[t]
        \/ pc[t] = "erased" /\ pc'[t] = "ready" /\ arg'[t] = arg[t]
        \/ pc[t] = "ready" /\ pc'[t] = "wait" /\ arg'[t] = arg[t]
        \/ /\ ServeAlloc
           /\ pc'[t] = "insert" /\ arg'[t] = <<generation, nextHandle>>
    <3>1. ASSUME NEW g \in Gens, NEW h \in Handles, Erase(t, g, h) PROVE FALSE
      BY <1>1, <3>1 DEF Erase, tabVars
    <3>2. ~(Insert(t) /\ pc'[t] = "copyout")
      BY <2>1
    <3>3. QED
      BY <3>1, <3>2, ThreadStep
  <2>4. QED
    BY <1>0, <1>1, <2>2, <2>3 DEF CallInv, Granted, InTable, tabVars
<1>2. CASE \E u \in Threads, g \in Gens, h \in Handles : Erase(u, g, h)
  <2>1. PICK u \in Threads, g \in Gens, h \in Handles : Erase(u, g, h)
    BY <1>2
  <2>2. /\ entries' = entries \ {h} /\ tableGen' = tableGen /\ g = tableGen
        /\ h \in entries
        /\ accepted' = accepted \cup {<<g, h>>} /\ given' = given
        /\ <<g, h>> \in Pairs
    BY <2>1, PairParts DEF Erase
  <2>3. CASE t = u
    <3>1. pc'[t] = "erased" /\ arg'[t] = <<g, h>>
      BY <1>0, <2>1, <2>3 DEF Erase, Goto, CallType
    <3>2. QED
      BY <2>2, <3>1, PairParts DEF Granted
  <2>4. CASE t # u
    <3>1. pc'[t] = pc[t] /\ arg'[t] = arg[t]
      BY <2>1, <2>4, OthersStay
    <3>2. pc[t] = "insert" => arg[t] # <<g, h>>
      BY <1>0, <2>2 DEF CallInv, InTable
    <3>3. arg[t] \in Pairs /\ arg[t] # <<g, h>> => ~(arg[t][1] = g /\ arg[t][2] = h)
      BY <2>2, PairParts
    <3>4. arg[t] \in Pairs \cup {Nobody}
      BY <1>0 DEF CallType
    <3>5. QED
      BY <1>0, <2>2, <3>1, <3>2, <3>3, <3>4 DEF CallInv, Granted, InTable
  <2>5. QED
    BY <2>3, <2>4
<1>3. CASE \E u \in Threads : Insert(u)
  <2>1. PICK u \in Threads : Insert(u)
    BY <1>3
  <2>2. UNCHANGED <<tableGen, given, accepted>> /\ pc[u] = "insert"
    BY <2>1 DEF Insert, histVars
  <2>3. CASE t = u
    <3>1. \/ pc'[t] = "idle" /\ arg'[t] = Nobody
          \/ /\ pc'[t] = "copyout" /\ arg'[t] = arg[t] /\ arg[t][1] = tableGen
             /\ entries' = entries \cup {arg[t][2]}
      BY <1>0, <2>1, <2>3 DEF Insert, Return, Goto, CallType
    <3>2. QED
      BY <1>0, <2>2, <2>3, <3>1 DEF CallInv, Granted, InTable
  <2>4. CASE t # u
    <3>1. pc'[t] = pc[t] /\ arg'[t] = arg[t]
      BY <2>1, <2>4, OthersStay
    <3>2. /\ entries \subseteq entries'
          /\ entries' \subseteq entries \cup {arg[u][2]}
          /\ entries' # entries => arg[u][1] = tableGen
      BY <2>1 DEF Insert
    <3>3. Granted(t) => arg[t] # arg[u]
      BY <1>0, <2>2, <2>4 DEF DistinctInv, Granted
    <3>4. Granted(t) => ~(arg[t][1] = arg[u][1] /\ arg[t][2] = arg[u][2])
      <4>1. arg[u] \in Pairs /\ (Granted(t) => arg[t] \in Pairs)
        BY <1>0, <2>2 DEF CallInv, CallType, Granted
      <4>2. QED
        BY <3>3, <4>1, PairParts
    <3>5. QED
      BY <1>0, <2>2, <3>1, <3>2, <3>4 DEF CallInv, Granted, InTable
  <2>5. QED
    BY <2>3, <2>4
<1>4. CASE \E u \in Threads : CopyOut(u)
  <2>1. PICK u \in Threads : CopyOut(u)
    BY <1>4
  <2>2. /\ UNCHANGED <<tableGen, entries, accepted>> /\ pc[u] = "copyout"
        /\ given' \subseteq given \cup {arg[u]}
    BY <2>1 DEF CopyOut, tabVars
  <2>3. CASE t = u
    <3>1. pc'[t] = "idle" /\ arg'[t] = Nobody
      BY <1>0, <2>1, <2>3 DEF CopyOut, Return, Goto, CallType
    <3>2. QED
      BY <3>1 DEF Granted
  <2>4. CASE t # u
    <3>1. pc'[t] = pc[t] /\ arg'[t] = arg[t]
      BY <2>1, <2>4, OthersStay
    <3>2. Granted(t) => arg[t] # arg[u]
      BY <1>0, <2>2, <2>4 DEF DistinctInv, Granted
    <3>3. QED
      BY <1>0, <2>2, <3>1, <3>2 DEF CallInv, Granted, InTable
  <2>5. QED
    BY <2>3, <2>4
<1>5. CASE Regenerate
  <2>1. /\ entries' = {} /\ tableGen' = generation
        /\ UNCHANGED <<pc, arg, given, accepted>> /\ nextHandle = 1
    BY <1>0, <1>5 DEF Regenerate, SessionInv, histVars, callVars, DevType,
                      TabType, Gens
  <2>2. ASSUME arg[t] # Nobody, arg[t][1] = generation PROVE FALSE
    <3>1. arg[t] \in Pairs /\ Issued(arg[t])
      BY <1>0, <2>2 DEF CallType, IssuedInv
    <3>2. arg[t][2] \in Nat /\ arg[t][2] # 0 /\ generation \in Nat
      BY <1>0, <3>1, PairParts DEF Handles, DevType, Gens
    <3>3. QED
      BY <2>1, <2>2, <3>1, <3>2 DEF Issued, IssuedBy
  <2>3. QED
    BY <1>0, <2>1, <2>2 DEF CallInv, Granted, InTable
<1>6. QED
  BY <1>1, <1>2, <1>3, <1>4, <1>5, LedgerStep

\* A block stays in one pair of hands.
LEMMA DistinctStep == ASSUME IInv, [Next]_vars PROVE DistinctInv'
<1>0. /\ CallType /\ TableInv /\ CallInv /\ DistinctInv
  BY DEF IInv, TypeOK
<1>1. ASSUME NEW t \in Threads, Granted(t)'
      PROVE  \/ Granted(t) /\ arg'[t] = arg[t]
             \/ /\ ServeAlloc /\ t = Head(txq).thread
                /\ arg'[t] = <<generation, nextHandle>>
  BY <1>1, ThreadStep DEF Granted
<1>2. ASSUME NEW t \in Threads, Freeing(t)'
      PROVE  \/ Freeing(t) /\ arg'[t] = arg[t]
             \/ \E g \in Gens, h \in Handles : Erase(t, g, h) /\ arg'[t] = <<g, h>>
  BY <1>0, <1>2, ThreadStep DEF Freeing, CallInv
<1>3. ASSUME NEW t \in Threads, NEW u \in Threads, t # u, Granted(t)', Granted(u)'
      PROVE  arg'[t] # arg'[u]
  <2>1. CASE ServeAlloc
    BY <1>0, <1>1, <1>3, <2>1, GrantIsNew DEF DistinctInv
  <2>2. CASE ~ServeAlloc
    BY <1>0, <1>1, <1>3, <2>2 DEF DistinctInv
  <2>3. QED
    BY <2>1, <2>2
<1>4. ASSUME NEW t \in Threads, NEW u \in Threads, t # u, Freeing(u),
             NEW g \in Gens, NEW h \in Handles, Erase(t, g, h)
      PROVE  arg[u] # <<g, h>> /\ pc'[u] = pc[u] /\ arg'[u] = arg[u]
  <2>1. arg[u] \in accepted
    BY <1>0, <1>4 DEF Freeing, CallInv
  <2>2. InTable(<<g, h>>)
    BY <1>4 DEF Erase, InTable
  <2>3. QED
    BY <1>0, <1>4, <2>1, <2>2, OthersStay DEF TableInv
<1>5. ASSUME NEW t \in Threads, NEW u \in Threads, t # u, Freeing(t)', Freeing(u)'
      PROVE  arg'[t] # arg'[u]
  <2>1. ASSUME NEW g \in Gens, NEW h \in Handles, Erase(t, g, h) PROVE Freeing(u)
    <3>1. pc'[u] = pc[u] /\ arg'[u] = arg[u]
      BY <1>5, <2>1, OthersStay
    <3>2. QED
      BY <1>5, <3>1 DEF Freeing
  <2>2. ASSUME NEW g \in Gens, NEW h \in Handles, Erase(u, g, h) PROVE Freeing(t)
    <3>1. pc'[t] = pc[t] /\ arg'[t] = arg[t]
      BY <1>5, <2>2, OthersStay
    <3>2. QED
      BY <1>5, <3>1 DEF Freeing
  <2>3. CASE Freeing(t) /\ Freeing(u) /\ arg'[t] = arg[t] /\ arg'[u] = arg[u]
    BY <1>0, <1>5, <2>3 DEF DistinctInv
  <2>4. CASE \E g \in Gens, h \in Handles : Erase(t, g, h) /\ arg'[t] = <<g, h>>
    BY <1>4, <1>5, <2>1, <2>4
  <2>5. CASE \E g \in Gens, h \in Handles : Erase(u, g, h) /\ arg'[u] = <<g, h>>
    BY <1>4, <1>5, <2>2, <2>5
  <2>6. QED
    BY <1>2, <1>5, <2>3, <2>4, <2>5
<1>6. QED
  BY <1>3, <1>5 DEF DistinctInv

\* A thread that waits is moved by a reply or by the drain only.
LEMMA WaitStays ==
  ASSUME IInv, [Next]_vars, NEW t \in Threads, pc[t] = "wait",
         ~ServeAlloc, ~ServeNoMem, ~ServeFree, ~Remove
  PROVE  pc'[t] = "wait" /\ arg'[t] = arg[t]
<1>0. CallType
  BY DEF IInv, TypeOK
<1>1. ASSUME NEW u \in Threads, pc[u] # "wait", NEW l, Goto(u, l),
             UNCHANGED arg \/ (\E x : arg' = [arg EXCEPT ![u] = x])
      PROVE  pc'[t] = "wait" /\ arg'[t] = arg[t]
  BY <1>0, <1>1 DEF Goto, CallType
<1>2. ASSUME NEW u \in Threads,
             \/ AllocStart(u) \/ FreeStart(u) \/ FreeNoMem(u) \/ Send(u)
             \/ SendFails(u) \/ Insert(u) \/ InsertNoMem(u) \/ CopyOut(u)
      PROVE  pc'[t] = "wait" /\ arg'[t] = arg[t]
  <2>1. pc[u] # "wait"
    BY <1>2 DEF AllocStart, FreeStart, FreeNoMem, Send, SendFails, Insert,
                InsertNoMem, CopyOut
  <2>2. \/ Return(u)
        \/ UNCHANGED arg /\ \E l \in Pcs : Goto(u, l)
    BY <1>2 DEF AllocStart, FreeStart, FreeNoMem, Send, SendFails, Insert,
                InsertNoMem, CopyOut, Pcs
  <2>3. QED
    BY <1>1, <2>1, <2>2 DEF Return
<1>3. ASSUME NEW u \in Threads, NEW g \in Gens, NEW h \in Handles, Erase(u, g, h)
      PROVE  pc'[t] = "wait" /\ arg'[t] = arg[t]
  BY <1>1, <1>3 DEF Erase
<1>4. ASSUME UNCHANGED <<pc, arg>> PROVE pc'[t] = "wait" /\ arg'[t] = arg[t]
  BY <1>4
<1>5. QED
  BY <1>2, <1>3, <1>4
     DEF Next, vars, callVars, BootDone, Regenerate, ProbeBegin, ProbeEnd,
         Stop, Crash

\* What a step does to the wire.
LEMMA WireChange ==
  ASSUME IInv, [Next]_vars
  PROVE  \/ txq' = <<>> /\ (BootDone \/ Stop \/ Crash)
         \/ UNCHANGED txq /\ ~ServeAlloc /\ ~ServeNoMem /\ ~ServeFree
         \/ \E t \in Threads :
              /\ Send(t)
              /\ txq' = Append(txq, [thread |-> t, pair |-> arg[t],
                                     orphan |-> drained[t]])
         \/ /\ ServeAlloc \/ ServeNoMem \/ ServeFree
            /\ txq # <<>> /\ txq' = Tail(txq)
<1>1. ASSUME ServeAlloc \/ ServeNoMem \/ ServeFree PROVE txq # <<>> /\ txq' = Tail(txq)
  BY <1>1 DEF ServeAlloc, ServeNoMem, ServeFree
<1>2. QED
  BY <1>1
     DEF Next, vars, AllocStart, FreeStart, FreeNoMem, Send, SendFails, Insert,
         InsertNoMem, CopyOut, Erase, BootDone, Regenerate, ProbeBegin,
         ProbeEnd, Remove, Stop, Crash

\* FREE requests on the wire keep their blocks to themselves.
LEMMA FreesStep == ASSUME IInv, [Next]_vars PROVE FreesOnWire'
<1>0. /\ CallType /\ TableInv /\ CallInv /\ DistinctInv /\ FreesOnWire
      /\ txq \in Seq(Requests)
  BY DEF IInv, TypeOK, WireInv
<1>1. accepted \subseteq accepted'
  BY LedgerStep DEF Erase, Insert, CopyOut, Regenerate, histVars
<1>2. ASSUME NEW t \in Threads, Freeing(t)'
      PROVE  \/ Freeing(t) /\ arg'[t] = arg[t] /\ ~Send(t)
             \/ arg'[t] \notin accepted
  <2>1. ASSUME Send(t) PROVE pc'[t] \in {"idle", "wait"}
    BY <1>0, <2>1 DEF Send, Return, Goto, CallType
  <2>2. ASSUME NEW g \in Gens, NEW h \in Handles, Erase(t, g, h) PROVE <<g, h>> \notin accepted
    BY <1>0, <2>2 DEF Erase, InTable, TableInv
  <2>3. QED
    BY <1>0, <1>2, <2>1, <2>2, ThreadStep DEF Freeing, CallInv
<1>3. CASE txq' = <<>>
  BY <1>3 DEF FreesOnWire
<1>4. CASE UNCHANGED txq
  BY <1>0, <1>1, <1>2, <1>4 DEF FreesOnWire
<1>5. ASSUME NEW t \in Threads, Send(t),
             txq' = Append(txq, [thread |-> t, pair |-> arg[t], orphan |-> drained[t]])
      PROVE  FreesOnWire'
  <2> DEFINE r == [thread |-> t, pair |-> arg[t], orphan |-> drained[t]]
  <2>1. r \in Requests /\ r.pair = arg[t]
    BY <1>0 DEF CallType, Requests
  <2>2. arg[t] # Nobody => Freeing(t) /\ arg[t] \in accepted
    BY <1>0, <1>5 DEF Send, Freeing, CallInv
  <2> HIDE DEF r
  <2>3. \A i \in DOMAIN txq' : \/ i \in DOMAIN txq /\ txq'[i] = txq[i]
                               \/ i = Len(txq) + 1 /\ txq'[i] = r
    BY <1>0, <1>5, <2>1, AppendIs DEF r
  <2>4. ASSUME NEW i \in DOMAIN txq', txq'[i].pair # Nobody
        PROVE  /\ txq'[i].pair \in accepted'
               /\ \A j \in DOMAIN txq' : i # j => txq'[i].pair # txq'[j].pair
               /\ \A u \in Threads : Freeing(u)' => arg'[u] # txq'[i].pair
    <3>1. txq'[i].pair \in accepted
      BY <1>0, <2>1, <2>2, <2>3, <2>4 DEF FreesOnWire
    <3>2. ASSUME NEW j \in DOMAIN txq', i # j PROVE txq'[i].pair # txq'[j].pair
      BY <1>0, <2>1, <2>2, <2>3, <2>4, <3>2 DEF FreesOnWire
    <3>3. ASSUME NEW u \in Threads, Freeing(u)' PROVE arg'[u] # txq'[i].pair
      <4>1. CASE arg'[u] \notin accepted
        BY <3>1, <4>1
      <4>2. CASE Freeing(u) /\ arg'[u] = arg[u] /\ ~Send(u)
        <5>1. u # t
          BY <1>5, <4>2
        <5>2. QED
          BY <1>0, <2>1, <2>2, <2>3, <2>4, <4>2, <5>1 DEF FreesOnWire, DistinctInv
      <4>3. QED
        BY <1>2, <3>3, <4>1, <4>2
    <3>4. QED
      BY <1>1, <3>1, <3>2, <3>3
  <2>5. QED
    BY <2>4 DEF FreesOnWire
<1>6. CASE txq # <<>> /\ txq' = Tail(txq)
  <2>1. \A i \in DOMAIN txq' : /\ i \in Nat /\ i + 1 \in DOMAIN txq
                              /\ txq'[i] = txq[i + 1]
    BY <1>0, <1>6, TailIs
  <2>2. ASSUME NEW i \in DOMAIN txq', txq'[i].pair # Nobody
        PROVE  /\ txq'[i].pair \in accepted'
               /\ \A j \in DOMAIN txq' : i # j => txq'[i].pair # txq'[j].pair
               /\ \A u \in Threads : Freeing(u)' => arg'[u] # txq'[i].pair
    <3>1. /\ txq[i + 1].pair \in accepted
          /\ \A j \in DOMAIN txq : i + 1 # j => txq[i + 1].pair # txq[j].pair
          /\ \A u \in Threads : Freeing(u) => arg[u] # txq[i + 1].pair
      BY <1>0, <2>1, <2>2 DEF FreesOnWire
    <3>2. \A j \in DOMAIN txq' : i # j => i + 1 # j + 1
      BY <2>1
    <3>3. QED
      BY <1>1, <1>2, <2>1, <3>1, <3>2
  <2>3. QED
    BY <2>2 DEF FreesOnWire
<1>7. QED
  BY <1>3, <1>4, <1>5, <1>6, WireChange

\* Serving a request moves at most the thread that waits for it.
LEMMA ServeMoves ==
  ASSUME IInv, ServeAlloc \/ ServeNoMem \/ ServeFree, NEW u \in Threads,
         u # Head(txq).thread \/ Head(txq).orphan
  PROVE  pc'[u] = pc[u] /\ arg'[u] = arg[u]
<1>0. CallType
  BY DEF IInv, TypeOK
<1>1. CASE UNCHANGED <<pc, arg>>
  BY <1>1
<1>2. CASE ~UNCHANGED <<pc, arg>>
  <2>1. ~Head(txq).orphan
    BY <1>2 DEF ServeAlloc, ServeNoMem, ServeFree, Delivered
  <2>2. QED
    BY <1>0, <1>2, <2>1 DEF ServeAlloc, ServeNoMem, ServeFree, Return, Goto, CallType
<1>3. QED
  BY <1>1, <1>2

\* Requests on the wire keep their waiters.
LEMMA WaitersStep == ASSUME IInv, [Next]_vars PROVE WaitersOnWire'
<1>0. /\ CallType /\ DevType /\ SessionInv /\ WaitersOnWire
      /\ txq \in Seq(Requests)
  BY DEF IInv, TypeOK, WireInv
<1> SUFFICES ASSUME fw' \in {"probing", "bound"}, txq' # <<>> PROVE WaitersOnWire'
  BY DEF WaitersOnWire
<1>1. fw \in {"probing", "bound"} /\ ~Remove
  <2>1. ASSUME ProbeBegin PROVE FALSE
    BY <1>0, <2>1 DEF ProbeBegin, SessionInv
  <2>2. ASSUME ~UNCHANGED fw
        PROVE  BootDone \/ Regenerate \/ ProbeBegin \/ ProbeEnd \/ Remove \/ Stop
    BY <2>2 DEF Next, vars, AllocStart, FreeStart, FreeNoMem, Send, SendFails,
                Insert, InsertNoMem, CopyOut, Erase, ServeAlloc, ServeNoMem,
                ServeFree, Crash
  <2>3. QED
    BY <2>1, <2>2 DEF BootDone, Regenerate, ProbeEnd, Remove, Stop
<1>2. \A i \in DOMAIN txq : ~txq[i].orphan =>
        /\ pc[txq[i].thread] = "wait"
        /\ arg[txq[i].thread] = txq[i].pair
        /\ \A j \in DOMAIN txq : i # j /\ ~txq[j].orphan => txq[i].thread # txq[j].thread
  BY <1>0, <1>1 DEF WaitersOnWire
<1>3. \A i \in DOMAIN txq : txq[i].thread \in Threads
  <2>1. \A i \in DOMAIN txq : txq[i] \in Requests
    BY <1>0
  <2>2. QED
    BY <2>1 DEF Requests
<1>4. CASE UNCHANGED txq /\ ~ServeAlloc /\ ~ServeNoMem /\ ~ServeFree
  <2>1. \A t \in Threads : pc[t] = "wait" => pc'[t] = "wait" /\ arg'[t] = arg[t]
    BY <1>1, <1>4, WaitStays
  <2>2. QED
    BY <1>2, <1>3, <1>4, <2>1 DEF WaitersOnWire
<1>5. ASSUME NEW t \in Threads, Send(t),
             txq' = Append(txq, [thread |-> t, pair |-> arg[t], orphan |-> drained[t]])
      PROVE  WaitersOnWire'
  <2> DEFINE r == [thread |-> t, pair |-> arg[t], orphan |-> drained[t]]
  <2>1. r \in Requests /\ r.thread = t /\ r.pair = arg[t] /\ r.orphan = drained[t]
    BY <1>0 DEF CallType, Requests
  <2>2. ~drained[t] => pc'[t] = "wait" /\ arg'[t] = arg[t]
    BY <1>0, <1>5 DEF Send, Goto, CallType
  <2>3. ~r.orphan => pc'[t] = "wait" /\ arg'[t] = arg[t]
    BY <2>1, <2>2
  <2> HIDE DEF r
  <2>4. \A i \in DOMAIN txq' : \/ i \in DOMAIN txq /\ txq'[i] = txq[i]
                               \/ i = Len(txq) + 1 /\ txq'[i] = r
    BY <1>0, <1>5, <2>1, AppendIs DEF r
  <2>5. \A i \in DOMAIN txq : ~txq[i].orphan =>
          /\ txq[i].thread # t
          /\ pc'[txq[i].thread] = "wait"
          /\ arg'[txq[i].thread] = arg[txq[i].thread]
    <3>1. ASSUME NEW u \in Threads, pc[u] = "wait"
          PROVE  u # t /\ pc'[u] = "wait" /\ arg'[u] = arg[u]
      BY <1>0, <1>5, <3>1 DEF Send, Return, Goto, CallType
    <3>2. QED
      BY <1>2, <1>3, <3>1
  <2>6. QED
    BY <1>2, <2>1, <2>3, <2>4, <2>5 DEF WaitersOnWire
<1>6. CASE /\ ServeAlloc \/ ServeNoMem \/ ServeFree
           /\ txq # <<>> /\ txq' = Tail(txq)
  <2>1. /\ \A i \in DOMAIN txq' : /\ i \in Nat /\ i + 1 \in DOMAIN txq /\ i + 1 # 1
                                /\ txq'[i] = txq[i + 1]
        /\ Head(txq) = txq[1] /\ 1 \in DOMAIN txq
    BY <1>0, <1>6, TailIs
  <2>2. ASSUME NEW i \in DOMAIN txq', ~txq'[i].orphan
        PROVE  /\ pc'[txq'[i].thread] = "wait"
               /\ arg'[txq'[i].thread] = txq'[i].pair
               /\ \A j \in DOMAIN txq' : i # j /\ ~txq'[j].orphan
                                          => txq'[i].thread # txq'[j].thread
    <3> DEFINE u == txq[i + 1].thread
    <3>1. /\ u \in Threads /\ pc[u] = "wait" /\ arg[u] = txq[i + 1].pair
          /\ \A j \in DOMAIN txq : i + 1 # j /\ ~txq[j].orphan => u # txq[j].thread
      BY <1>2, <1>3, <2>1, <2>2
    <3>2. u # Head(txq).thread \/ Head(txq).orphan
      BY <2>1, <3>1
    <3>3. pc'[u] = pc[u] /\ arg'[u] = arg[u]
      BY <1>6, <3>1, <3>2, ServeMoves
    <3>4. \A j \in DOMAIN txq' : i # j => i + 1 # j + 1
      BY <2>1
    <3>5. QED
      BY <2>1, <3>1, <3>3, <3>4
  <2>3. QED
    BY <2>2 DEF WaitersOnWire
<1>7. QED
  BY <1>4, <1>5, <1>6, WireChange

\* Until a stale FREE is served, whatever names a block names a live one.
LEMMA AliveStep == ASSUME IInv, [Next]_vars PROVE AliveInv'
<1>0. /\ DevType /\ TabType /\ CallType /\ SessionInv /\ IssuedInv /\ TableInv
      /\ CallInv /\ FreesOnWire /\ AliveInv
      /\ txq \in Seq(Requests)
  BY DEF IInv, TypeOK, WireInv
<1>p. \A t \in Threads : pc[t] = "insert" \/ Freeing(t) => arg[t] \in Pairs
  BY <1>0 DEF CallType, CallInv, Freeing
<1>1. CASE BootDone
  <2>1. /\ generation' = generation + 1 /\ txq' = <<>>
        /\ UNCHANGED <<tableGen, entries, pc, arg>>
    BY <1>1 DEF BootDone, NewSession, tabVars, callVars
  <2>2. tableGen' # generation'
    BY <1>0, <2>1 DEF SessionInv, DevType, TabType, Gens
  <2>3. \A t \in Threads : arg[t] \in Pairs => arg[t][1] # generation'
    BY <1>0, <2>1, PairParts DEF IssuedInv, Issued, IssuedBy, DevType, Gens
  <2>4. NoDoubleFree'
    BY <2>1 DEF NoDoubleFree
  <2>5. QED
    BY <1>p, <2>1, <2>2, <2>3, <2>4 DEF AliveInv, Freeing
<1>2. CASE ~BootDone
  <2> SUFFICES ASSUME ~staleFree' PROVE AliveInv'
    BY DEF AliveInv
  <2>1. /\ UNCHANGED generation
        /\ ~staleFree
        /\ \/ UNCHANGED live /\ ~ServeAlloc /\ ~ServeFree
           \/ ServeAlloc \/ ServeFree
    <3>1. CASE ServeFree
      <4>1. staleFree' = (staleFree \/ Head(txq).pair[1] # generation)
            /\ UNCHANGED generation
        BY <3>1 DEF ServeFree
      <4>2. QED
        BY <3>1, <4>1
    <3>2. CASE ServeAlloc
      BY <3>2 DEF ServeAlloc
    <3>3. CASE ~ServeFree /\ ~ServeAlloc
      <4>1. UNCHANGED <<generation, staleFree, live>>
        BY <1>2, <3>3 DEF Next, vars, devVars, histVars, AllocStart, FreeStart,
           FreeNoMem, Send, SendFails, Insert, InsertNoMem, CopyOut, Erase,
           ServeNoMem, Regenerate, ProbeBegin, ProbeEnd, Remove, Stop, Crash
      <4>2. QED
        BY <3>3, <4>1
    <3>4. QED
      BY <3>1, <3>2, <3>3
  <2>2. /\ tableGen = generation => entries \subseteq live
        /\ \A t \in Threads :
             (pc[t] = "insert" \/ Freeing(t)) /\ arg[t][1] = generation => arg[t][2] \in live
        /\ \A i \in DOMAIN txq :
             txq[i].pair # Nobody /\ txq[i].pair[1] = generation => txq[i].pair[2] \in live
    BY <1>0, <2>1 DEF AliveInv, NoDoubleFree
  <2>3. CASE ServeAlloc
    <3>1. /\ live' = live \cup {nextHandle} /\ UNCHANGED <<tableGen, entries>>
          /\ txq # <<>> /\ txq' = Tail(txq)
      BY <2>3 DEF ServeAlloc, Grant, tabVars
    <3>2. ASSUME NEW t \in Threads, pc'[t] = "insert" \/ Freeing(t)',
                 arg'[t][1] = generation
          PROVE  arg'[t][2] \in live'
      <4>1. ~Insert(t) /\ ~Send(t) /\ \A g \in Gens, h \in Handles : ~Erase(t, g, h)
        BY <1>0, <2>3, <3>1, TailIs DEF ServeAlloc, Grant, DevType, Insert, Send, Erase, devVars
      <4>2. \/ (pc[t] = "insert" \/ Freeing(t)) /\ arg'[t] = arg[t]
            \/ arg'[t] = <<generation, nextHandle>>
        BY <1>0, <3>2, <4>1, ThreadStep DEF Freeing, CallInv
      <4>3. QED
        BY <2>2, <3>1, <3>2, <4>2
    <3>3. NoDoubleFree'
      BY <1>0, <2>1, <2>2, <3>1, TailIs DEF NoDoubleFree
    <3>4. QED
      BY <2>1, <2>2, <3>1, <3>2, <3>3 DEF AliveInv
  <2>4. CASE ServeFree
    <3> DEFINE b == txq[1].pair
    <3>1. /\ live' = live \ {b[2]} /\ b # Nobody /\ b[1] = generation
          /\ UNCHANGED <<tableGen, entries>>
          /\ txq # <<>> /\ txq' = Tail(txq) /\ 1 \in DOMAIN txq
      <4>1. Head(txq) = txq[1] /\ 1 \in DOMAIN txq
        BY <1>0, <2>4, TailIs DEF ServeFree
      <4>2. QED
        BY <2>4, <4>1 DEF ServeFree, tabVars
    <3>2. /\ b \in accepted /\ ~InTable(b)
          /\ \A j \in DOMAIN txq : j # 1 => b # txq[j].pair
          /\ \A t \in Threads : Freeing(t) => arg[t] # b
      BY <1>0, <3>1 DEF FreesOnWire, TableInv
    <3>3. b \in Pairs
      BY <3>2 DEF IInv, TypeOK, HistType
    <3>e. ASSUME NEW x \in Pairs, x # b, x[1] = generation PROVE x[2] # b[2]
      BY <3>1, <3>3, <3>e, PairParts
    <3> HIDE DEF b
    <3>4. tableGen' = generation' => entries' \subseteq live'
      BY <2>1, <2>2, <3>1, <3>2 DEF InTable
    <3>5. ASSUME NEW t \in Threads, pc'[t] = "insert" \/ Freeing(t)',
                 arg'[t][1] = generation
          PROVE  arg'[t][2] \in live'
      <4>1. /\ pc'[t] = pc[t] /\ arg'[t] = arg[t]
            /\ pc[t] = "insert" \/ Freeing(t)
        <5>1. Head(txq).thread \in Threads
          <6>1. Head(txq) \in Requests
            BY <1>0, <3>1, TailIs
          <6>2. QED
            BY <6>1 DEF Requests
        <5>2. \/ pc'[t] = pc[t] /\ arg'[t] = arg[t]
              \/ pc'[t] = "idle" /\ arg'[t] = Nobody
          BY <1>0, <2>4, <5>1 DEF ServeFree, Return, Goto, CallType
        <5>3. QED
          BY <3>5, <5>2 DEF Freeing
      <4>2. arg[t] # b
        BY <1>0, <3>2, <4>1 DEF CallInv
      <4>3. QED
        BY <1>p, <2>2, <3>1, <3>5, <3>e, <4>1, <4>2
    <3>6. NoDoubleFree'
      <4>1. ASSUME NEW i \in DOMAIN txq', txq'[i].pair # Nobody,
                   txq'[i].pair[1] = generation
            PROVE  txq'[i].pair[2] \in live'
        <5>1. i + 1 \in DOMAIN txq /\ i + 1 # 1 /\ txq'[i] = txq[i + 1]
          BY <1>0, <3>1, TailIs
        <5>2. txq[i + 1].pair \in Pairs
          <6>1. txq[i + 1] \in Requests
            BY <1>0, <5>1
          <6>2. QED
            BY <4>1, <5>1, <6>1 DEF Requests
        <5>3. QED
          BY <2>2, <3>1, <3>2, <3>e, <4>1, <5>1, <5>2
      <4>2. QED
        BY <2>1, <4>1 DEF NoDoubleFree
    <3>7. QED
      BY <2>1, <3>4, <3>5, <3>6 DEF AliveInv
  <2>5. CASE UNCHANGED live /\ ~ServeAlloc /\ ~ServeFree
    <3>1. tableGen' = generation' => entries' \subseteq live'
      <4>1. CASE UNCHANGED <<tabVars, given, accepted>>
        BY <2>1, <2>2, <2>5, <4>1 DEF tabVars
      <4>2. CASE \E t \in Threads, g \in Gens, h \in Handles : Erase(t, g, h)
        BY <2>1, <2>2, <2>5, <4>2 DEF Erase
      <4>3. CASE \E t \in Threads : Insert(t)
        BY <2>1, <2>2, <2>5, <4>3 DEF Insert
      <4>4. CASE \E t \in Threads : CopyOut(t)
        BY <2>1, <2>2, <2>5, <4>4 DEF CopyOut, tabVars
      <4>5. CASE Regenerate
        BY <1>0, <4>5 DEF Regenerate, SessionInv, DevType, TabType, Gens
      <4>6. QED
        BY <4>1, <4>2, <4>3, <4>4, <4>5, LedgerStep
    <3>2. ASSUME NEW t \in Threads, pc'[t] = "insert" \/ Freeing(t)',
                 arg'[t][1] = generation
          PROVE  arg'[t][2] \in live'
      <4>1. \/ (pc[t] = "insert" \/ Freeing(t)) /\ arg'[t] = arg[t]
            \/ \E g \in Gens, h \in Handles : Erase(t, g, h) /\ arg'[t] = <<g, h>>
        BY <1>0, <2>5, <3>2, ThreadStep DEF Freeing, CallInv
      <4>2. ASSUME NEW g \in Gens, NEW h \in Handles, Erase(t, g, h), arg'[t] = <<g, h>>
            PROVE  arg'[t][2] \in live
        BY <2>2, <3>2, <4>2 DEF Erase
      <4>3. QED
        BY <2>2, <2>5, <3>2, <4>1, <4>2
    <3>3. NoDoubleFree'
      <4>1. CASE txq' = <<>>
        BY <4>1 DEF NoDoubleFree
      <4>2. CASE UNCHANGED txq
        BY <2>1, <2>2, <2>5, <4>2 DEF NoDoubleFree
      <4>3. ASSUME NEW t \in Threads, Send(t),
                   txq' = Append(txq, [thread |-> t, pair |-> arg[t], orphan |-> drained[t]])
            PROVE  NoDoubleFree'
        <5> DEFINE r == [thread |-> t, pair |-> arg[t], orphan |-> drained[t]]
        <5>1. r \in Requests /\ r.pair = arg[t]
          BY <1>0 DEF CallType, Requests
        <5> HIDE DEF r
        <5>2. \A i \in DOMAIN txq' : \/ i \in DOMAIN txq /\ txq'[i] = txq[i]
                                     \/ i = Len(txq) + 1 /\ txq'[i] = r
          BY <1>0, <4>3, <5>1, AppendIs DEF r
        <5>3. arg[t] # Nobody => Freeing(t)
          BY <4>3 DEF Send, Freeing
        <5>4. QED
          BY <2>1, <2>2, <2>5, <5>1, <5>2, <5>3 DEF NoDoubleFree
      <4>4. CASE txq # <<>> /\ txq' = Tail(txq)
        BY <1>0, <2>1, <2>2, <2>5, <4>4, TailIs DEF NoDoubleFree
      <4>5. QED
        BY <4>1, <4>2, <4>3, <4>4, WireChange
    <3>4. QED
      BY <2>1, <3>1, <3>2, <3>3 DEF AliveInv
  <2>6. QED
    BY <2>1, <2>3, <2>4, <2>5
<1>3. QED
  BY <1>1, <1>2

\* A thread answers for its block until it acts on it itself.
LEMMA HandsStay ==
  ASSUME IInv, [Next]_vars, NEW t \in Threads,
         pc[t] \in {"insert", "erased", "ready"}, arg[t] # Nobody
  PROVE  \/ pc'[t] \in {"insert", "erased", "ready"} /\ arg'[t] = arg[t]
         \/ FreeNoMem(t) \/ SendFails(t) \/ InsertNoMem(t) \/ Send(t) \/ Insert(t)
<1>0. CallType /\ CallInv /\ WaitersOnWire /\ txq \in Seq(Requests)
  BY DEF IInv, TypeOK, WireInv
<1>1. ASSUME NEW u \in Threads, u # t,
             \/ AllocStart(u) \/ FreeStart(u) \/ FreeNoMem(u) \/ Send(u)
             \/ SendFails(u) \/ Insert(u) \/ InsertNoMem(u) \/ CopyOut(u)
      PROVE  pc'[t] = pc[t] /\ arg'[t] = arg[t]
  <2>1. \/ Return(u)
        \/ UNCHANGED arg /\ \E l \in Pcs : Goto(u, l)
    BY <1>1 DEF AllocStart, FreeStart, FreeNoMem, Send, SendFails, Insert,
                InsertNoMem, CopyOut, Pcs
  <2>2. QED
    BY <1>0, <1>1, <2>1 DEF Return, Goto, CallType
<1>2. ASSUME AllocStart(t) \/ FreeStart(t) \/ CopyOut(t)
      PROVE  pc'[t] = "ready" /\ arg'[t] = arg[t]
  BY <1>0, <1>2 DEF AllocStart, FreeStart, CopyOut, Goto, CallType
<1>3. ASSUME NEW u \in Threads, NEW g \in Gens, NEW h \in Handles, Erase(u, g, h)
      PROVE  pc'[t] = pc[t] /\ arg'[t] = arg[t]
  <2>1. u # t
    BY <1>3 DEF Erase
  <2>2. QED
    BY <1>3, <2>1, OthersStay
<1>4. ASSUME ServeAlloc \/ ServeNoMem \/ ServeFree
      PROVE  pc'[t] = pc[t] /\ arg'[t] = arg[t]
  <2>1. CASE UNCHANGED <<pc, arg>>
    BY <2>1
  <2>2. CASE ~UNCHANGED <<pc, arg>>
    <3>1. Head(txq) = txq[1] /\ 1 \in DOMAIN txq
      BY <1>0, <1>4, TailIs DEF ServeAlloc, ServeNoMem, ServeFree
    <3>2. ~Head(txq).orphan /\ fw = "bound"
      BY <1>4, <2>2 DEF ServeAlloc, ServeNoMem, ServeFree, Delivered
    <3>3. pc[Head(txq).thread] = "wait"
      BY <1>0, <3>1, <3>2 DEF WaitersOnWire
    <3>4. QED
      BY <1>4, <3>3, ServeMoves
  <2>3. QED
    BY <2>1, <2>2
<1>5. ASSUME Remove PROVE pc'[t] = pc[t] /\ arg'[t] = arg[t]
  BY <1>0, <1>5 DEF Remove
<1>6. ASSUME UNCHANGED <<pc, arg>> PROVE pc'[t] = pc[t] /\ arg'[t] = arg[t]
  BY <1>6
<1>7. QED
  BY <1>1, <1>2, <1>3, <1>4, <1>5, <1>6
     DEF Next, vars, callVars, BootDone, Regenerate, ProbeBegin, ProbeEnd,
         Stop, Crash

\* No block gets lost but by the error paths.
LEMMA AccountedStep == ASSUME IInv, [Next]_vars PROVE BlocksAccounted'
<1>0. /\ DevType /\ TabType /\ CallType /\ SessionInv /\ CallInv
      /\ BlocksAccounted
      /\ txq \in Seq(Requests)
  BY DEF IInv, TypeOK
<1> DEFINE Kept(x) ==
      \/ \E t \in Threads : pc'[t] \in {"insert", "erased", "ready"} /\ arg'[t] = x
      \/ \E i \in DOMAIN txq' : txq'[i].pair = x
<1>w. TypeOK'
  BY TypeStep
<1> SUFFICES ASSUME running', NEW h \in live'
             PROVE  \/ tableGen' = generation' /\ h \in entries'
                    \/ Kept(<<generation', h>>)
                    \/ <<generation', h>> \in lost'
  BY DEF BlocksAccounted, InHands
<1>1. running /\ ~BootDone /\ ~Stop /\ ~Crash /\ UNCHANGED generation
  BY DEF Next, vars, devVars, AllocStart, FreeStart, FreeNoMem, Send, SendFails,
         Insert, InsertNoMem, CopyOut, Erase, ServeAlloc, ServeNoMem, ServeFree,
         BootDone, NewSession, Regenerate, ProbeBegin, ProbeEnd, Remove, Stop,
         Crash
<1> DEFINE b == <<generation, h>>
<1>h. h \in Handles /\ b \in Pairs /\ b # Nobody
  BY <1>0, <1>1, <1>w, PairParts DEF TypeOK, DevType
<1>i. ASSUME NEW t \in Threads, pc'[t] \in {"insert", "erased", "ready"}, arg'[t] = b
      PROVE  Kept(b)
  BY <1>i
<1>j. ASSUME NEW i \in DOMAIN txq', txq'[i].pair = b PROVE Kept(b)
  BY <1>j
<1>l. lost \subseteq lost'
  BY DEF Next, vars, histVars, AllocStart, FreeStart, FreeNoMem, Send, SendFails,
         Insert, InsertNoMem, CopyOut, Erase, ServeAlloc, ServeNoMem, ServeFree,
         BootDone, Regenerate, ProbeBegin, ProbeEnd, Remove, Stop, Crash, Lose
<1> HIDE DEF Kept
<1>2. CASE h \notin live
  <2>1. ServeAlloc /\ h = nextHandle
    BY <1>1, <1>2 DEF Next, vars, devVars, AllocStart, FreeStart, FreeNoMem,
       Send, SendFails, Insert, InsertNoMem, CopyOut, Erase, ServeAlloc, Grant,
       ServeNoMem, ServeFree, Regenerate, ProbeBegin, ProbeEnd, Remove
  <2>2. CASE Lose(b)
    BY <1>1, <1>h, <2>2 DEF Lose
  <2>3. CASE \E t \in Threads : Goto(t, "insert") /\ arg' = [arg EXCEPT ![t] = b]
    <3>1. PICK t \in Threads : Goto(t, "insert") /\ arg' = [arg EXCEPT ![t] = b]
      BY <2>3
    <3>2. pc'[t] = "insert" /\ arg'[t] = b
      BY <1>0, <3>1 DEF Goto, CallType
    <3>3. QED
      BY <1>1, <1>i, <3>2
  <2>4. Head(txq).thread \in Threads
    <3>1. Head(txq) \in Requests
      BY <1>0, <2>1, TailIs DEF ServeAlloc
    <3>2. QED
      BY <3>1 DEF Requests
  <2>5. QED
    BY <2>1, <2>2, <2>3, <2>4 DEF ServeAlloc
<1>3. CASE h \in live
  <2>0. tableGen = generation /\ fw \notin {"off", "starting"}
    BY <1>0, <1>1, <1>3, <1>h DEF SessionInv, Handles
  <2>1. CASE h \in entries
    <3>1. CASE h \in entries'
      <4>1. UNCHANGED tableGen
        BY <2>0, LedgerStep DEF tabVars, Erase, Insert, CopyOut, Regenerate
      <4>2. QED
        BY <1>1, <2>0, <3>1, <4>1
    <3>2. CASE h \notin entries'
      <4>1. PICK t \in Threads, g \in Gens : Erase(t, g, h)
        <5>1. ~Regenerate
          BY <2>0 DEF Regenerate
        <5>2. ASSUME NEW u \in Threads, Insert(u) PROVE entries \subseteq entries'
          BY <5>2 DEF Insert
        <5>3. ASSUME NEW u \in Threads, CopyOut(u) PROVE entries' = entries
          BY <5>3 DEF CopyOut, tabVars
        <5>4. ASSUME NEW u \in Threads, NEW g \in Gens, NEW k \in Handles, Erase(u, g, k)
              PROVE  k = h
          BY <2>1, <3>2, <5>4 DEF Erase
        <5>5. QED
          BY <2>1, <3>2, <5>1, <5>2, <5>3, <5>4, LedgerStep DEF tabVars
      <4>2. pc'[t] = "erased" /\ arg'[t] = b
        BY <1>0, <2>0, <4>1 DEF Erase, Goto, CallType
      <4>3. QED
        BY <1>1, <1>i, <4>2
    <3>3. QED
      BY <3>1, <3>2
  <2>2. CASE b \in lost
    BY <1>1, <1>l, <2>2
  <2>3. ASSUME NEW t \in Threads, pc[t] \in {"insert", "erased", "ready"}, arg[t] = b
        PROVE  \/ tableGen' = generation' /\ h \in entries'
               \/ Kept(b)
               \/ b \in lost'
    <3>1. CASE pc'[t] \in {"insert", "erased", "ready"} /\ arg'[t] = arg[t]
      BY <1>i, <2>3, <3>1
    <3>2. CASE FreeNoMem(t) \/ SendFails(t) \/ InsertNoMem(t)
      BY <1>h, <2>3, <3>2 DEF FreeNoMem, SendFails, InsertNoMem, Lose
    <3>3. CASE Send(t)
      <4> DEFINE r == [thread |-> t, pair |-> arg[t], orphan |-> drained[t]]
      <4>1. r \in Requests /\ r.pair = b
        BY <1>0, <2>3 DEF CallType, Requests
      <4>2. txq' = Append(txq, r)
        BY <1>1, <3>3 DEF Send
      <4> HIDE DEF r
      <4>3. Len(txq) + 1 \in DOMAIN txq' /\ txq'[Len(txq) + 1] = r
        BY <1>0, <4>1, <4>2, AppendIs
      <4>4. QED
        BY <1>j, <4>1, <4>3
    <3>4. CASE Insert(t)
      <4>1. arg[t][1] = tableGen /\ arg[t][2] = h /\ h \notin entries
        BY <1>0, <2>0, <2>3, <3>4 DEF Insert, CallInv, InTable
      <4>2. QED
        BY <1>1, <2>0, <3>4, <4>1 DEF Insert
    <3>5. QED
      BY <1>h, <2>3, <3>1, <3>2, <3>3, <3>4, HandsStay
  <2>4. ASSUME NEW i \in DOMAIN txq, txq[i].pair = b
        PROVE  Kept(b)
    <3>1. CASE UNCHANGED txq
      BY <1>j, <2>4, <3>1
    <3>2. ASSUME NEW t \in Threads, Send(t),
                 txq' = Append(txq, [thread |-> t, pair |-> arg[t], orphan |-> drained[t]])
          PROVE  Kept(b)
      <4>1. [thread |-> t, pair |-> arg[t], orphan |-> drained[t]] \in Requests
        BY <1>0 DEF CallType, Requests
      <4>2. i \in DOMAIN txq' /\ txq'[i] = txq[i]
        BY <1>0, <3>2, <4>1, AppendIs
      <4>3. QED
        BY <1>j, <2>4, <4>2
    <3>3. CASE /\ ServeAlloc \/ ServeNoMem \/ ServeFree
               /\ txq # <<>> /\ txq' = Tail(txq)
      <4>1. i # 1
        <5>1. Head(txq) = txq[1]
          BY <1>0, <3>3, TailIs
        <5>2. ServeFree => Head(txq).pair[2] # h
          BY DEF ServeFree
        <5>3. ServeAlloc \/ ServeNoMem => Head(txq).pair = Nobody
          BY DEF ServeAlloc, ServeNoMem
        <5>4. b[2] = h
          OBVIOUS
        <5> HIDE DEF b
        <5>5. QED
          BY <1>h, <2>4, <3>3, <5>1, <5>2, <5>3, <5>4
      <4>2. i - 1 \in DOMAIN txq' /\ txq'[i - 1] = txq[i]
        BY <1>0, <3>3, <4>1, TailIs
      <4>3. QED
        BY <1>j, <2>4, <4>2
    <3>4. QED
      BY <1>1, <3>1, <3>2, <3>3, WireChange
  <2>5. \/ h \in entries
        \/ \E t \in Threads : pc[t] \in {"insert", "erased", "ready"} /\ arg[t] = b
        \/ \E i \in DOMAIN txq : txq[i].pair = b
        \/ b \in lost
    BY <1>0, <1>1, <1>3 DEF BlocksAccounted, InHands
  <2>6. QED
    BY <1>1, <2>1, <2>2, <2>3, <2>4, <2>5
<1>4. QED
  BY <1>2, <1>3

-----------------------------------------------------------------------------
\* The inductive invariant is one.
LEMMA IInvStep == IInv /\ [Next]_vars => IInv'
BY TypeStep, SessionStep, IssuedStep, TableStep, CallStep, DistinctStep,
   FreesStep, WaitersStep, AliveStep, AccountedStep DEF IInv, WireInv

\* The inductive invariant holds in every session.
THEOREM HandlesConsistent == Spec => []IInv
BY InitIInv, IInvStep, PTL DEF Spec

\* Type correctness.
THEOREM TypeCorrect == Spec => []TypeOK
<1>1. IInv => TypeOK
  BY DEF IInv
<1>2. QED
  BY <1>1, HandlesConsistent, PTL

\* A block the application holds is alive while its session lasts, in every
\* session that serves no stale FREE.
THEOREM HeldBlocksLive == Spec => []HeldStaysAlive
<1>1. IInv => HeldStaysAlive
  <2> SUFFICES ASSUME IInv, ~staleFree, running, NEW b \in Held, b[1] = generation
               PROVE  b[2] \in live
    BY DEF HeldStaysAlive, HeldAlive
  <2>0. /\ DevType /\ HistType /\ SessionInv /\ IssuedInv /\ TableInv /\ AliveInv
    BY DEF IInv, TypeOK
  <2>1. b \in Pairs /\ Issued(b)
    BY <2>0 DEF Held, HistType, IssuedInv
  <2>2. nextHandle # 1
    <3>1. b[2] \in Nat /\ b[2] # 0 /\ generation \in Nat
      BY <2>0, <2>1, PairParts DEF Handles, DevType, Gens
    <3>2. QED
      BY <2>1, <3>1 DEF Issued, IssuedBy
  <2>3. tableGen = generation
    BY <2>0, <2>2 DEF SessionInv
  <2>4. QED
    BY <2>0, <2>3 DEF TableInv, InTable, AliveInv
<1>2. QED
  BY <1>1, HandlesConsistent, PTL

\* FREE finds in the table what the application holds.
THEOREM HeldBlocksKnown == Spec => []HeldIsKnown
<1>1. IInv => HeldIsKnown
  BY DEF IInv, TableInv, HeldIsKnown, InTable
<1>2. QED
  BY <1>1, HandlesConsistent, PTL

\* No two ALLOCs answer with the same pair.
THEOREM NoPairTwice == Spec => []PairsUnique
<1>1. IInv => PairsUnique
  BY DEF IInv, CallInv, DistinctInv, PairsUnique, Granted
<1>2. QED
  BY <1>1, HandlesConsistent, PTL

\* The insertion into the table never finds the index taken.
THEOREM InsertNeverBusy == Spec => []NeverBusy
<1>1. IInv => NeverBusy
  BY DEF IInv, CallInv, NeverBusy, InTable
<1>2. QED
  BY <1>1, HandlesConsistent, PTL

\* The device never gets the same FREE twice.
THEOREM FreeReachesOnce == Spec => []NoDoubleFree
<1>1. IInv => NoDoubleFree
  BY DEF IInv, AliveInv, NoDoubleFree
<1>2. QED
  BY <1>1, HandlesConsistent, PTL

\* No block leaks but by the error paths.
THEOREM NoBlockLost == Spec => []BlocksAccounted
<1>1. IInv => BlocksAccounted
  BY DEF IInv
<1>2. QED
  BY <1>1, HandlesConsistent, PTL
=============================================================================
