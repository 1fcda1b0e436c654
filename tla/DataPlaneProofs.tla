--------------------------- MODULE DataPlaneProofs ---------------------------
(***************************************************************************)
(* Slots and answers of the data plane, for any number of submitters,      *)
(* engines, slots, copies and boots: who holds each slot, and which        *)
(* requests the rings may still name.                                      *)
(***************************************************************************)
EXTENDS DataPlane, FiniteSetTheorems, TLAPS

Elems(s)    == {s[i] : i \in DOMAIN s}
Distinct(s) == \A i, j \in DOMAIN s : s[i] = s[j] => i = j

\* A behaviour that ended has nobody left to go on.
EndInv ==
  Misused => /\ \A t \in Threads : pc[t] = "undefined"
             /\ dev = "off" /\ serving = None /\ head = NoHead

\* Thread t works on slot k of engine e.
Holds(t, e, k) ==
  loc[t] = <<e, k>> /\ pc[t] \in {"init", "add", "adding", "clear", "free"}

\* A slot that is handed out is in the virtqueue or in the hands of one thread;
\* any other is with nobody.
OwnInv ==
  \A e \in Engines, k \in SlotIds :
    /\ k \in ida[e] <=> k \in tokens[e] \/ \E t \in Threads : Holds(t, e, k)
    /\ k \in tokens[e] => \A t \in Threads : ~Holds(t, e, k)
    /\ \A t, u \in Threads : Holds(t, e, k) /\ Holds(u, e, k) => t = u

\* A thread that works on a slot works on a real one.
SlotInv ==
  \A t \in Threads :
    pc[t] \in {"init", "add", "adding", "kick", "clear", "free"} =>
      loc[t] \in Engines \X SlotIds

\* Thread t has slot k of engine e in hand, filled and not yet cleared.
Carries(t, e, k) == loc[t] = <<e, k>> /\ pc[t] \in {"add", "adding", "clear"}

\* A slot that was filled says where it belongs.
FillInv ==
  \A e \in Engines, k \in SlotIds :
    k \in tokens[e] \/ (\E t \in Threads : Carries(t, e, k)) =>
      mem[e][k].idx = k /\ mem[e][k].eng = e

\* Which threads are where.
RoleInv ==
  /\ \A p \in Submitters :
       pc[p] \in {"idle", "init", "add", "adding", "kick", "clear", "free"}
  /\ \A e \in Engines :
       /\ pc[Irq(e)] \in {"idle", "get", "getting", "clear", "free"}
       /\ pc[Irq(e)] \in {"clear", "free"} => loc[Irq(e)][1] = e
  /\ pc[Remover] \in {"idle", "detach", "clear", "free", "del", "stop"}

\* The queues come and go around the firmware, and are empty when they go.
LifeInv ==
  /\ vqs \in {0, gen}
  /\ dev = "off" => vqs = 0 /\ pc[Remover] = "idle"
  /\ dev # "off" => gen > 0
  /\ pc[Remover] = "stop" => vqs = 0
  /\ vqs = 0 => pc[Remover] \in {"idle", "stop"}
  /\ vqs = 0 \/ pc[Remover] \in {"del", "stop"} =>
       \A e \in Engines : tokens[e] = {}
  /\ \A p \in Submitters : pc[p] = "adding" =>
       /\ vqs # 0 /\ pc[Remover] \in {"idle", "detach"}
       /\ inside[loc[p][1]] = {p}
  /\ \A e \in Engines : pc[Irq(e)] = "getting" => inside[e] = {Irq(e)}
  /\ serving = None => head = NoHead
  /\ dev \in {"off", "crashed"} => serving = None

\* Slot k is named on the rings of engine e, or is what e works on.
Named(e, k) == \/ k \in Elems(avail[e]) \/ k \in Elems(used[e])
               \/ serving = e /\ head # NoHead /\ head.slot = k

\* The rings name a slot once.
OrderInv ==
  \A e \in Engines :
    /\ Distinct(avail[e]) /\ Distinct(used[e])
    /\ Elems(avail[e]) \cap Elems(used[e]) = {}
    /\ serving = e /\ head # NoHead =>
         head.slot \notin Elems(avail[e]) /\ head.slot \notin Elems(used[e])

\* They name only slots the queue holds, until the removal takes those away.
NameInv ==
  \A e \in Engines, k \in SlotIds :
    Named(e, k) /\ dev # "off" /\ ~Removing => k \in tokens[e]

\* Thread t is submitting slot k of engine e, or has just reaped it.
Fresh(t, e, k) ==
  loc[t] = <<e, k>> /\ (pc[t] = "adding" \/ (t = Irq(e) /\ pc[t] = "clear"))

\* Nobody submits or reaps a slot that is still named.
ReapInv ==
  \A t \in Threads, e \in Engines, k \in SlotIds :
    Fresh(t, e, k) => ~Named(e, k)

RingInv == OrderInv /\ NameInv /\ ReapInv

\* Engine e works on slot k.
Works(e, k) == serving = e /\ head # NoHead /\ head.slot = k

\* The callback of engine e has reaped slot k.
Reaped(e, k) == loc[Irq(e)] = <<e, k>> /\ pc[Irq(e)] = "clear"

\* What is used and still in the queue has its answer, so has what was reaped, and
\* what an engine works on is the request the slot holds.
AnswerInv ==
  \A e \in Engines, k \in SlotIds :
    /\ k \in tokens[e] /\ k \in Elems(used[e]) => mem[e][k].ans = mem[e][k].seq
    /\ k \in tokens[e] /\ Works(e, k) =>
         /\ mem[e][k].seq = head.seq
         /\ head.answered => mem[e][k].ans = head.seq
    /\ Reaped(e, k) => mem[e][k].ans = mem[e][k].seq

GoodInv == /\ OwnInv /\ SlotInv /\ FillInv /\ RoleInv /\ LifeInv /\ RingInv
           /\ AnswerInv

IInv == /\ TypeOK /\ EndInv
        /\ Misused \/ GoodInv

-----------------------------------------------------------------------------
\* What Append adds to the elements of a sequence.
LEMMA AppendElems ==
  ASSUME NEW S, NEW s \in Seq(S), NEW x \in S
  PROVE  /\ Append(s, x) \in Seq(S)
         /\ Elems(Append(s, x)) = Elems(s) \cup {x}
         /\ Distinct(s) /\ x \notin Elems(s) => Distinct(Append(s, x))
<1>1. /\ Append(s, x) \in Seq(S) /\ Len(s) \in Nat
      /\ DOMAIN s = 1 .. Len(s)
      /\ DOMAIN Append(s, x) = 1 .. Len(s) + 1
      /\ \A i \in 1 .. Len(s) : Append(s, x)[i] = s[i]
      /\ Append(s, x)[Len(s) + 1] = x
  OBVIOUS
<1>2. Elems(Append(s, x)) = Elems(s) \cup {x}
  BY <1>1 DEF Elems
<1>3. ASSUME Distinct(s), x \notin Elems(s) PROVE Distinct(Append(s, x))
  BY <1>1, <1>3 DEF Elems, Distinct
<1>4. QED
  BY <1>1, <1>2, <1>3

\* What Tail takes from the elements of a sequence without repetitions.
LEMMA TailElems ==
  ASSUME NEW S, NEW s \in Seq(S), s # <<>>
  PROVE  /\ Tail(s) \in Seq(S) /\ Head(s) \in S /\ Head(s) \in Elems(s)
         /\ Distinct(s) => /\ Distinct(Tail(s))
                           /\ Elems(Tail(s)) = Elems(s) \ {Head(s)}
<1>1. /\ Tail(s) \in Seq(S) /\ Len(s) \in Nat /\ Len(s) > 0
      /\ DOMAIN s = 1 .. Len(s)
      /\ DOMAIN Tail(s) = 1 .. Len(s) - 1
      /\ \A i \in 1 .. Len(s) - 1 : Tail(s)[i] = s[i + 1]
      /\ Head(s) = s[1]
  OBVIOUS
<1>2. Head(s) \in S /\ Head(s) \in Elems(s)
  BY <1>1 DEF Elems
<1>3. ASSUME Distinct(s) PROVE Distinct(Tail(s))
  BY <1>1, <1>3 DEF Distinct
<1>4. ASSUME Distinct(s) PROVE Elems(Tail(s)) = Elems(s) \ {Head(s)}
  <2>1. ASSUME NEW i \in 1 .. Len(s) - 1
        PROVE  s[i + 1] \in Elems(s) /\ s[i + 1] # s[1]
    BY <1>1, <1>4 DEF Distinct, Elems
  <2>2. ASSUME NEW i \in 1 .. Len(s), s[i] # s[1]
        PROVE  i - 1 \in 1 .. Len(s) - 1 /\ Tail(s)[i - 1] = s[i]
    BY <1>1, <2>2
  <2>3. Elems(Tail(s)) \subseteq Elems(s) \ {Head(s)}
    BY <1>1, <2>1 DEF Elems
  <2>4. ASSUME NEW x \in Elems(s) \ {Head(s)} PROVE x \in Elems(Tail(s))
    <3>1. PICK i \in 1 .. Len(s) : x = s[i]
      BY <1>1, <2>4 DEF Elems
    <3>2. QED
      BY <1>1, <2>2, <2>4, <3>1 DEF Elems
  <2>5. QED
    BY <2>3, <2>4
<1>5. QED
  BY <1>1, <1>2, <1>3, <1>4

\* The empty sequence has no elements.
LEMMA EmptyElems == Elems(<<>>) = {} /\ Distinct(<<>>)
BY DEF Elems, Distinct

\* Changing one value of a function.
LEMMA Override ==
  ASSUME NEW S, NEW T, NEW f \in [S -> T], NEW x \in S, NEW y \in T
  PROVE  /\ [f EXCEPT ![x] = y] \in [S -> T]
         /\ [f EXCEPT ![x] = y][x] = y
         /\ \A z \in S : z # x => [f EXCEPT ![x] = y][z] = f[z]
OBVIOUS

\* Changing the ring of one engine.
LEMMA OneRing ==
  ASSUME NEW r \in [Engines -> Seq(SlotIds)], NEW e \in Engines,
         NEW s \in Seq(SlotIds), NEW q, q = [r EXCEPT ![e] = s],
         Distinct(s), \A f \in Engines : Distinct(r[f])
  PROVE  \A f \in Engines :
           /\ Elems(q[f]) = IF f = e THEN Elems(s) ELSE Elems(r[f])
           /\ Distinct(q[f])
<1>1. q[e] = s /\ \A f \in Engines : f # e => q[f] = r[f]
  BY Override
<1>2. ASSUME NEW f \in Engines
      PROVE  /\ Elems(q[f]) = IF f = e THEN Elems(s) ELSE Elems(r[f])
             /\ Distinct(q[f])
  <2>1. CASE f = e
    BY <1>1, <2>1
  <2>2. CASE f # e
    <3>1. q[f] = r[f]
      BY <1>1, <2>2
    <3>2. QED
      BY <2>2, <3>1
  <2>3. QED
    BY <2>1, <2>2
<1>3. QED
  BY <1>2

-----------------------------------------------------------------------------
\* Facts about the threads' names and the slots' numbers.
LEMMA Facts ==
  /\ Remover \in Threads /\ Submitters \subseteq Threads
  /\ \A e \in Engines : Irq(e) \in Threads /\ Irq(e) # Remover
  /\ \A e \in Engines : Irq(e) \notin Submitters
  /\ \A e, f \in Engines : Irq(e) = Irq(f) => e = f
  /\ Remover \notin Submitters
  /\ None \notin SlotIds /\ None \notin Engines
  /\ SlotIds \subseteq Nat /\ SlotRange = SlotIds
BY ThreadAssumption, BoundAssumption
   DEF Threads, Handlers, Irq, SlotIds, SlotRange, None

\* A misuse ends the behaviour.
LEMMA MisuseEnds == Misuse => Misused'
BY DEF Misuse, Misused, Threads

\* Where a reset goes on, by whose it is.
After(t) == IF t \in Submitters THEN "idle"
            ELSE IF t = Remover THEN "detach" ELSE "get"

\* The steps, one by one; the three resets are of one kind.
LEMMA StepCases ==
  ASSUME [Next]_vars
  PROVE  \/ \E p \in Submitters, e \in Engines : Copy(p, e)
         \/ \E p \in Submitters : \/ Fill(p) \/ AddBegin(p) \/ AddOk(p)
                                  \/ AddFails(p) \/ Kick(p)
         \/ \E t \in Threads : Reset(t, After(t))
         \/ \E e \in Engines : \/ Interrupt(e) \/ GetBegin(e) \/ GetEnd(e)
                               \/ ServiceBegin(e)
         \/ Probe \/ Remove \/ Detach \/ DelVqs \/ Stop \/ Boot \/ Crash \/ Pop
         \/ Answer \/ ServiceEnd \/ Abort \/ UNCHANGED vars
BY Facts DEF Next, Submit, Callback, Removal, Drain, AfterReap, After

\* A misuse is the only step to the end.
LEMMA EndIsMisuse ==
  ASSUME TypeOK, ~Misused, Misused', [Next]_vars
  PROVE  Misuse
<1>1. ThreadType
  BY DEF TypeOK
<1> USE <1>1, Facts
    DEF ThreadType, Misused, Goto, drvVars, vqVars, devVars, vars
<1>2. ASSUME NEW p \in Submitters, NEW e \in Engines, Copy(p, e) PROVE Misuse
  BY <1>2 DEF Copy
<1>3. ASSUME NEW p \in Submitters,
             Fill(p) \/ AddBegin(p) \/ AddOk(p) \/ AddFails(p) \/ Kick(p)
      PROVE  Misuse
  BY <1>3 DEF Fill, AddBegin, AddOk, AddFails, Kick
<1>4. ASSUME NEW t \in Threads, Reset(t, After(t)) PROVE Misuse
  BY <1>4 DEF Reset, After
<1>5. ASSUME NEW e \in Engines,
             Interrupt(e) \/ GetBegin(e) \/ GetEnd(e) \/ ServiceBegin(e)
      PROVE  Misuse
  BY <1>5 DEF Interrupt, GetBegin, GetEnd, ServiceBegin
<1>6. ASSUME Probe \/ Remove \/ Detach \/ DelVqs \/ Stop PROVE Misuse
  BY <1>6 DEF Probe, Remove, Detach, DelVqs, Stop
<1>7. ASSUME Boot \/ Crash \/ Pop \/ Answer \/ ServiceEnd \/ Abort PROVE Misuse
  BY <1>7 DEF Boot, Crash, Pop, Answer, ServiceEnd, Abort
<1>8. QED
  BY StepCases, <1>2, <1>3, <1>4, <1>5, <1>6, <1>7

\* After a misuse nothing happens.
LEMMA EndIsFinal ==
  ASSUME EndInv, Misused, [Next]_vars
  PROVE  UNCHANGED vars
BY StepCases, Facts
   DEF EndInv, Misused, Removing, Serves, Copy, Fill, AddBegin, AddOk, AddFails,
       Kick, Reset, Interrupt, GetBegin, GetEnd, ServiceBegin, Probe, Remove,
       Detach, DelVqs, Stop, Boot, Crash, Pop, Answer, ServiceEnd, Abort

\* A misuse leaves the slots and the queues as they are.
LEMMA MisuseStep ==
  ASSUME TypeOK, Misuse
  PROVE  TypeOK' /\ EndInv' /\ Misused'
<1> USE Facts DEF Misuse, drvVars, vqVars
<1>1. DriverType' /\ RingType' /\ ThreadType'
  BY DEF TypeOK, DriverType, RingType, ThreadType
<1>2. DeviceType'
  BY DEF TypeOK, DeviceType
<1>3. EndInv' /\ Misused'
  BY DEF EndInv, Misused
<1>4. QED
  BY <1>1, <1>2, <1>3 DEF TypeOK

-----------------------------------------------------------------------------
\* What a slot of the coherent memory may hold.
Contents == [seq : Nat, idx : SlotIds \cup {None},
             eng : Engines \cup {0}, ans : Nat \cup {None}]

\* Writing one slot of the memory.
LEMMA WriteSlot ==
  ASSUME NEW m \in [Engines -> [SlotIds -> Contents]],
         NEW e \in Engines, NEW k \in SlotIds, NEW r \in Contents
  PROVE  /\ [m EXCEPT ![e][k] = r] \in [Engines -> [SlotIds -> Contents]]
         /\ \A f \in Engines, j \in SlotIds :
              [m EXCEPT ![e][k] = r][f][j] =
                IF f = e /\ j = k THEN r ELSE m[f][j]
OBVIOUS

\* The types, and what the invariant says of a behaviour that goes on.
LEMMA Parts ==
  ASSUME IInv, ~Misused
  PROVE  /\ DriverType /\ RingType /\ DeviceType /\ ThreadType
         /\ OwnInv /\ SlotInv /\ FillInv /\ RoleInv /\ LifeInv /\ RingInv
         /\ AnswerInv
         /\ mem \in [Engines -> [SlotIds -> Contents]]
BY DEF IInv, TypeOK, GoodInv, DriverType, Contents

\* A thread that works on a slot works on a slot of some engine.
LEMMA Where ==
  ASSUME IInv, ~Misused, NEW t \in Threads,
         pc[t] \in {"init", "add", "adding", "kick", "clear", "free"}
  PROVE  /\ \E e \in Engines, k \in SlotIds : loc[t] = <<e, k>>
         /\ loc[t][1] \in Engines /\ loc[t][2] \in SlotIds
BY Parts DEF SlotInv

\* The step into an operation on a queue, when it is within the rules.
LEMMA BeginEffect ==
  ASSUME IInv, ~Misused, ~Misused',
         NEW t \in Threads, NEW e \in Engines,
         \/ t \in Submitters /\ AddBegin(t) /\ loc[t][1] = e
         \/ t = Irq(e) /\ GetBegin(e)
  PROVE  /\ vqs # 0 /\ inside[e] = {}
         /\ inside' = [inside EXCEPT ![e] = {t}]
         /\ \/ /\ t \in Submitters /\ pc[Remover] = "idle" /\ pc[t] = "add"
               /\ Goto(t, "adding")
            \/ t = Irq(e) /\ pc[t] = "get" /\ Goto(t, "getting")
         /\ UNCHANGED <<drvVars, vqs, tokens, devVars, avail, used, irq, loc>>
<1>1. CASE t \in Submitters /\ AddBegin(t) /\ loc[t][1] = e
  BY <1>1, MisuseEnds DEF AddBegin, Usable, Removing
<1>2. CASE t = Irq(e) /\ GetBegin(e)
  BY <1>2, MisuseEnds DEF GetBegin, Usable
<1>3. QED
  BY <1>1, <1>2

\* A successful submission: slot k goes from thread p to the queue.
LEMMA AddEffect ==
  ASSUME IInv, ~Misused, NEW p \in Submitters, AddOk(p)
  PROVE  \E e \in Engines, k \in SlotIds :
           /\ loc[p] = <<e, k>> /\ pc[p] = "adding" /\ Goto(p, "kick")
           /\ inside' = [inside EXCEPT ![e] = {}]
           /\ tokens' = [tokens EXCEPT ![e] = tokens[e] \cup {k}]
           /\ avail' = [avail EXCEPT ![e] = Append(avail[e], k)]
           /\ Append(avail[e], k) \in Seq(SlotIds)
           /\ Elems(Append(avail[e], k)) = Elems(avail[e]) \cup {k}
           /\ UNCHANGED <<drvVars, vqs, devVars, used, irq, loc>>
<1>1. pc[p] = "adding" /\ p \in Threads
  BY Facts DEF AddOk
<1>2. PICK e \in Engines, k \in SlotIds : loc[p] = <<e, k>>
  BY <1>1, Where
<1>3. avail[e] \in Seq(SlotIds)
  BY Parts DEF RingType
<1>4. /\ Append(avail[e], k) \in Seq(SlotIds)
      /\ Elems(Append(avail[e], k)) = Elems(avail[e]) \cup {k}
  BY <1>3, AppendElems
<1>5. /\ inside' = [inside EXCEPT ![e] = {}]
      /\ tokens' = [tokens EXCEPT ![e] = tokens[e] \cup {k}]
      /\ avail' = [avail EXCEPT ![e] = Append(avail[e], k)]
      /\ Goto(p, "kick")
      /\ UNCHANGED <<drvVars, vqs, devVars, used, irq, loc>>
  BY <1>2 DEF AddOk
<1>6. QED
  BY <1>1, <1>2, <1>4, <1>5

\* get_buf() returns nothing, or takes the first used slot out of the queue.
LEMMA GetEffect ==
  ASSUME IInv, ~Misused, NEW e \in Engines, GetEnd(e)
  PROVE  /\ pc[Irq(e)] = "getting" /\ inside' = [inside EXCEPT ![e] = {}]
         /\ UNCHANGED <<drvVars, vqs, devVars, avail, irq>>
         /\ \/ Goto(Irq(e), "idle") /\ UNCHANGED <<tokens, used, loc>>
            \/ \E k \in SlotIds :
                 /\ k \in tokens[e] /\ k \in Elems(used[e])
                 /\ used' = [used EXCEPT ![e] = Tail(used[e])]
                 /\ Tail(used[e]) \in Seq(SlotIds) /\ Distinct(Tail(used[e]))
                 /\ Elems(Tail(used[e])) = Elems(used[e]) \ {k}
                 /\ tokens' = [tokens EXCEPT ![e] = tokens[e] \ {k}]
                 /\ loc' = [loc EXCEPT ![Irq(e)] = <<e, k>>]
                 /\ Goto(Irq(e), "clear")
<1>1. used[e] \in Seq(SlotIds) /\ Distinct(used[e])
  BY Parts DEF RingType, RingInv, OrderInv
<1>2. CASE used[e] = <<>> \/ Head(used[e]) \notin tokens[e]
  BY <1>2 DEF GetEnd
<1>3. CASE ~(used[e] = <<>> \/ Head(used[e]) \notin tokens[e])
  <2> DEFINE k == Head(used[e])
  <2>1. /\ k \in SlotIds /\ k \in Elems(used[e]) /\ k \in tokens[e]
        /\ Tail(used[e]) \in Seq(SlotIds) /\ Distinct(Tail(used[e]))
        /\ Elems(Tail(used[e])) = Elems(used[e]) \ {k}
    BY <1>1, <1>3, TailElems
  <2>2. /\ used' = [used EXCEPT ![e] = Tail(used[e])]
        /\ tokens' = [tokens EXCEPT ![e] = tokens[e] \ {k}]
        /\ loc' = [loc EXCEPT ![Irq(e)] = <<e, k>>]
        /\ Goto(Irq(e), "clear")
    BY <1>3 DEF GetEnd
  <2> HIDE DEF k
  <2>3. QED
    BY <2>1, <2>2 DEF GetEnd
<1>4. QED
  BY <1>2, <1>3

\* The removal is done with the queues, or takes a slot out of one.
LEMMA DetachEffect ==
  ASSUME IInv, ~Misused, ~Misused', Detach
  PROVE  /\ pc[Remover] = "detach" /\ \A e \in Engines : inside[e] = {}
         /\ UNCHANGED <<drvVars, vqs, inside, devVars, avail, used, irq>>
         /\ \/ /\ \A e \in Engines : tokens[e] = {}
               /\ Goto(Remover, "del") /\ UNCHANGED <<tokens, loc>>
            \/ \E e \in Engines, k \in SlotIds :
                 /\ k \in tokens[e]
                 /\ tokens' = [tokens EXCEPT ![e] = tokens[e] \ {k}]
                 /\ loc' = [loc EXCEPT ![Remover] = <<e, k>>]
                 /\ Goto(Remover, "clear")
BY MisuseEnds DEF Detach

\* An engine takes the first request off its ring.
LEMMA PopEffect ==
  ASSUME IInv, ~Misused, Pop
  PROVE  /\ serving \in Engines /\ head = NoHead
         /\ \E k \in SlotIds :
              /\ k \in Elems(avail[serving])
              /\ avail' = [avail EXCEPT ![serving] = Tail(avail[serving])]
              /\ Tail(avail[serving]) \in Seq(SlotIds)
              /\ Distinct(Tail(avail[serving]))
              /\ Elems(Tail(avail[serving])) = Elems(avail[serving]) \ {k}
              /\ head' \in [slot : SlotIds, seq : Nat, answered : BOOLEAN]
              /\ head'.slot = k /\ head'.seq = mem[serving][k].seq
              /\ head'.answered = FALSE /\ head' # NoHead
         /\ UNCHANGED <<drvVars, vqVars, dev, gen, sweep, serving, used, irq,
                        pc, loc>>
<1>1. serving \in Engines /\ head = NoHead /\ avail[serving] # <<>>
  BY Parts DEF Pop, DeviceType
<1>2. avail[serving] \in Seq(SlotIds) /\ Distinct(avail[serving])
  BY <1>1, Parts DEF RingType, RingInv, OrderInv
<1> DEFINE k == Head(avail[serving])
<1>3. /\ k \in SlotIds /\ k \in Elems(avail[serving])
      /\ Tail(avail[serving]) \in Seq(SlotIds)
      /\ Distinct(Tail(avail[serving]))
      /\ Elems(Tail(avail[serving])) = Elems(avail[serving]) \ {k}
  BY <1>1, <1>2, TailElems
<1>4. mem[serving][k] \in Contents
  BY <1>1, <1>3, Parts
<1>5. mem[serving][k].seq \in Nat
  BY <1>4 DEF Contents
<1>6. /\ head' = [slot |-> k, seq |-> mem[serving][k].seq, answered |-> FALSE]
      /\ avail' = [avail EXCEPT ![serving] = Tail(avail[serving])]
  BY DEF Pop
<1> HIDE DEF k
<1>7. head' # NoHead
  BY <1>3, <1>6, Facts DEF NoHead
<1>8. QED
  BY <1>1, <1>3, <1>5, <1>6, <1>7 DEF Pop

\* An engine gives back the slot it answered.
LEMMA PushEffect ==
  ASSUME IInv, ~Misused, Answer, head.answered
  PROVE  /\ serving \in Engines /\ head # NoHead /\ head.slot \in SlotIds
         /\ used' = [used EXCEPT ![serving] = Append(used[serving], head.slot)]
         /\ Append(used[serving], head.slot) \in Seq(SlotIds)
         /\ Elems(Append(used[serving], head.slot))
              = Elems(used[serving]) \cup {head.slot}
         /\ Distinct(Append(used[serving], head.slot))
         /\ irq' = irq \cup {serving} /\ head' = NoHead
         /\ UNCHANGED <<drvVars, vqVars, dev, gen, sweep, serving, avail, pc,
                        loc>>
<1>1. serving \in Engines /\ head # NoHead /\ head.slot \in SlotIds
  BY Parts DEF Answer, LifeInv, DeviceType
<1>2. /\ used[serving] \in Seq(SlotIds) /\ Distinct(used[serving])
      /\ head.slot \notin Elems(used[serving])
  BY <1>1, Parts DEF RingType, RingInv, OrderInv
<1>3. /\ Append(used[serving], head.slot) \in Seq(SlotIds)
      /\ Elems(Append(used[serving], head.slot))
           = Elems(used[serving]) \cup {head.slot}
      /\ Distinct(Append(used[serving], head.slot))
  BY <1>1, <1>2, AppendElems
<1>4. QED
  BY <1>1, <1>3 DEF Answer, drvVars

\* Filling a slot writes that slot, except for its answer.
LEMMA FillEffect ==
  ASSUME IInv, ~Misused, NEW p \in Submitters, Fill(p)
  PROVE  \E e \in Engines, k \in SlotIds, r \in Contents :
           /\ loc[p] = <<e, k>> /\ pc[p] = "init"
           /\ r.idx = k /\ r.eng = e /\ r.ans = mem[e][k].ans
           /\ mem' \in [Engines -> [SlotIds -> Contents]]
           /\ \A f \in Engines, j \in SlotIds :
                mem'[f][j] = IF f = e /\ j = k THEN r ELSE mem[f][j]
<1> DEFINE e == loc[p][1]
           k == loc[p][2]
<1>1. e \in Engines /\ k \in SlotIds /\ loc[p] = <<e, k>> /\ pc[p] = "init"
  BY Parts, Facts DEF SlotInv, Fill
<1>2. mem' = [mem EXCEPT ![e][k] =
                [@ EXCEPT !.seq = seq, !.idx = k, !.eng = e]]
  BY DEF Fill
<1> DEFINE r == [mem[e][k] EXCEPT !.seq = seq, !.idx = k, !.eng = e]
<1>3. mem[e][k] \in Contents
  BY <1>1, Parts
<1>4. seq \in Nat
  BY Parts DEF DriverType
<1>5. r \in Contents /\ r.idx = k /\ r.eng = e /\ r.ans = mem[e][k].ans
  BY <1>1, <1>3, <1>4 DEF Contents
<1>6. mem' = [mem EXCEPT ![e][k] = r]
  BY <1>2
<1> HIDE DEF r, e, k
<1>7. QED
  BY <1>1, <1>5, <1>6, Parts, WriteSlot

\* The slot a thread is about to clear says where it belongs, and clearing it
\* writes that slot only.
LEMMA ClearEffect ==
  ASSUME IInv, ~Misused, NEW t \in Threads, Reset(t, After(t)), pc[t] = "clear"
  PROVE  \E e \in Engines, k \in SlotIds :
           /\ loc[t] = <<e, k>> /\ loc' = loc
           /\ mem' \in [Engines -> [SlotIds -> Contents]]
           /\ \A f \in Engines, j \in SlotIds :
                mem'[f][j] = IF f = e /\ j = k THEN Cleared ELSE mem[f][j]
<1> DEFINE e == loc[t][1]
           k == loc[t][2]
<1>1. e \in Engines /\ k \in SlotIds /\ loc[t] = <<e, k>>
  BY Parts, Facts DEF SlotInv
<1>2. mem[e][k].idx = k /\ mem[e][k].eng = e
  BY <1>1, Parts DEF FillInv, Carries
<1>3. /\ loc' = [loc EXCEPT ![t] = <<mem[e][k].eng, mem[e][k].idx>>]
      /\ mem' = [mem EXCEPT ![e][k] = Cleared]
  BY DEF Reset
<1>4. Cleared \in Contents
  BY DEF Cleared, Contents, None
<1> HIDE DEF e, k
<1>5. loc' = loc
  BY <1>1, <1>2, <1>3, Parts DEF ThreadType
<1>6. QED
  BY <1>1, <1>3, <1>4, <1>5, Parts, WriteSlot

\* Writing an answer leaves the rest of the slot.
LEMMA AnswerEffect ==
  ASSUME IInv, ~Misused, Answer, ~head.answered
  PROVE  \E r \in Contents :
           /\ serving \in Engines /\ head.slot \in SlotIds
           /\ head.seq \in Nat /\ head.answered \in BOOLEAN
           /\ r.seq = mem[serving][head.slot].seq
           /\ r.idx = mem[serving][head.slot].idx
           /\ r.eng = mem[serving][head.slot].eng
           /\ r.ans = head.seq
           /\ mem' \in [Engines -> [SlotIds -> Contents]]
           /\ \A f \in Engines, j \in SlotIds :
                mem'[f][j] = IF f = serving /\ j = head.slot
                             THEN r ELSE mem[f][j]
<1> DEFINE k == head.slot
           r == [mem[serving][k] EXCEPT !.ans = head.seq]
<1>1. /\ serving \in Engines /\ k \in SlotIds /\ head.seq \in Nat
      /\ head.answered \in BOOLEAN
  BY Parts DEF Answer, LifeInv, DeviceType
<1>2. mem[serving][k] \in Contents
  BY <1>1, Parts
<1>3. /\ r \in Contents /\ r.seq = mem[serving][k].seq
      /\ r.idx = mem[serving][k].idx /\ r.eng = mem[serving][k].eng
      /\ r.ans = head.seq
  BY <1>1, <1>2 DEF Contents
<1>4. mem' = [mem EXCEPT ![serving][k] = r]
  BY DEF Answer
<1> HIDE DEF r, k
<1>5. \A f \in Engines, j \in SlotIds :
        mem'[f][j] = IF f = serving /\ j = k THEN r ELSE mem[f][j]
  BY <1>1, <1>3, <1>4, Parts, WriteSlot
<1>6. mem' \in [Engines -> [SlotIds -> Contents]]
  BY <1>1, <1>3, <1>4, Parts, WriteSlot
<1>7. QED
  BY <1>1, <1>3, <1>5, <1>6 DEF k

-----------------------------------------------------------------------------
\* A step that neither moves a thread to or from a slot, nor a slot to or from
\* the queue.
Keeps ==
  /\ ida' = ida /\ tokens' = tokens
  /\ \A t \in Threads, e \in Engines, k \in SlotIds :
       Holds(t, e, k)' <=> Holds(t, e, k)

\* Such a step changes no owner.
LEMMA KeepsOwn ==
  ASSUME OwnInv, Keeps
  PROVE  OwnInv'
BY DEF OwnInv, Keeps

\* Which steps these are.
LEMMA KeepsThread ==
  ASSUME ThreadType, NEW t \in Threads, NEW l,
         Goto(t, l), UNCHANGED <<ida, tokens, loc>>,
         pc[t] \in {"init", "add", "adding", "clear", "free"}
           <=> l \in {"init", "add", "adding", "clear", "free"}
  PROVE  Keeps
BY DEF ThreadType, Goto, Keeps, Holds

\* A step that puts no slot into anybody's hands and leaves what slots say of
\* themselves.
LEMMA KeepsFilled ==
  ASSUME FillInv,
         \A e \in Engines, k \in SlotIds :
           /\ k \in tokens'[e] =>
                k \in tokens[e] \/ \E t \in Threads : Carries(t, e, k)
           /\ mem'[e][k].idx = mem[e][k].idx /\ mem'[e][k].eng = mem[e][k].eng,
         \A t \in Threads, e \in Engines, k \in SlotIds :
           Carries(t, e, k)' =>
             k \in tokens[e] \/ \E u \in Threads : Carries(u, e, k)
  PROVE  FillInv'
BY DEF FillInv

\* The same for a step of one thread that leaves the slots.
LEMMA KeepsFilledThread ==
  ASSUME ThreadType, FillInv, NEW t \in Threads, NEW l,
         Goto(t, l), UNCHANGED <<mem, tokens, loc>>,
         l \in {"add", "adding", "clear"} =>
           pc[t] \in {"add", "adding", "clear"}
  PROVE  FillInv'
<1>1. \A u \in Threads, e \in Engines, k \in SlotIds :
        Carries(u, e, k)' => Carries(u, e, k)
  BY DEF ThreadType, Goto, Carries
<1>2. QED
  BY <1>1, KeepsFilled

\* A step that leaves the rings, and lets nobody submit or reap.
LEMMA KeepsRing ==
  ASSUME RingInv, UNCHANGED <<avail, used, serving, head, tokens>>,
         \A t \in Threads, e \in Engines, k \in SlotIds :
           Fresh(t, e, k)' => Fresh(t, e, k),
         dev' # "off" /\ ~Removing' => dev # "off" /\ ~Removing
  PROVE  RingInv'
<1>1. OrderInv'
  BY DEF RingInv, OrderInv
<1>2. \A e \in Engines, k \in SlotIds : Named(e, k)' <=> Named(e, k)
  BY DEF Named
<1>3. NameInv' /\ ReapInv'
  BY <1>2 DEF RingInv, NameInv, ReapInv
<1>4. QED
  BY <1>1, <1>3 DEF RingInv

\* The same for a step of one thread.
LEMMA KeepsRingThread ==
  ASSUME RingInv, ThreadType, NEW t \in Threads, NEW l, Goto(t, l),
         UNCHANGED <<avail, used, serving, head, tokens, dev, loc>>,
         l # "adding", l = "clear" => t \notin Handlers,
         t = Remover => l # "idle"
  PROVE  RingInv'
<1>1. \A u \in Threads, e \in Engines, k \in SlotIds :
        Fresh(u, e, k)' => Fresh(u, e, k)
  BY DEF ThreadType, Goto, Fresh, Handlers
<1>2. ~Removing' => ~Removing
  BY Facts DEF ThreadType, Goto, Removing
<1>3. QED
  BY <1>1, <1>2, KeepsRing

\* A step that names no slot and leaves the threads.
LEMMA KeepsNames ==
  ASSUME NameInv, ReapInv, UNCHANGED <<tokens, pc, loc>>,
         \A e \in Engines, k \in SlotIds : Named(e, k)' => Named(e, k),
         dev' # "off" => dev # "off"
  PROVE  NameInv' /\ ReapInv'
<1>1. Removing' <=> Removing
  BY DEF Removing
<1>2. \A t \in Threads, e \in Engines, k \in SlotIds :
        Fresh(t, e, k)' <=> Fresh(t, e, k)
  BY DEF Fresh
<1>3. QED
  BY <1>1, <1>2 DEF NameInv, ReapInv

\* A step that leaves the answers, and puts no slot into the queue or into a
\* callback's hands.
LEMMA KeepsAnswer ==
  ASSUME AnswerInv, UNCHANGED <<mem, used, serving, head>>,
         \A e \in Engines, k \in SlotIds :
           /\ k \in tokens'[e] => k \in tokens[e]
           /\ Reaped(e, k)' => Reaped(e, k)
  PROVE  AnswerInv'
<1>1. \A e \in Engines, k \in SlotIds : Works(e, k)' <=> Works(e, k)
  BY DEF Works
<1>2. QED
  BY <1>1 DEF AnswerInv

\* The same for a step of one thread.
LEMMA KeepsAnswerThread ==
  ASSUME AnswerInv, ThreadType, NEW t \in Threads, NEW l, Goto(t, l),
         UNCHANGED <<mem, used, serving, head, tokens, loc>>,
         l = "clear" => t \notin Handlers
  PROVE  AnswerInv'
<1>1. \A e \in Engines, k \in SlotIds : Reaped(e, k)' => Reaped(e, k)
  BY Facts DEF ThreadType, Goto, Reaped, Handlers
<1>2. QED
  BY <1>1, KeepsAnswer

\* Writing a slot that neither the queue nor a callback holds.
LEMMA KeepsAnswerWrite ==
  ASSUME AnswerInv, UNCHANGED <<used, serving, head, tokens>>,
         NEW e \in Engines, NEW k \in SlotIds, k \notin tokens[e],
         ~Reaped(e, k)',
         \A f \in Engines, j \in SlotIds :
           /\ ~(f = e /\ j = k) => mem'[f][j] = mem[f][j]
           /\ Reaped(f, j)' => Reaped(f, j)
  PROVE  AnswerInv'
<1>1. \A f \in Engines, j \in SlotIds : Works(f, j)' <=> Works(f, j)
  BY DEF Works
<1>2. QED
  BY <1>1 DEF AnswerInv

\* Every step keeps the types of the driver's slots.
LEMMA DriverTypeStep ==
  ASSUME IInv, ~Misused, ~Misused', [Next]_vars
  PROVE  DriverType'
<1>0. DriverType /\ DeviceType /\ ThreadType /\ SlotInv
  BY Parts
<1> USE <1>0, Facts, MisuseEnds DEF DriverType, drvVars, vqVars, devVars,
        vars, Goto
<1>1. ASSUME NEW p \in Submitters, NEW e \in Engines, Copy(p, e)
      PROVE  DriverType'
  <2>1. PICK k \in SlotIds : ida' = [ida EXCEPT ![e] = ida[e] \cup {k}]
    BY <1>1 DEF Copy
  <2>2. QED
    BY <1>1, <2>1 DEF Copy
<1>2. ASSUME NEW p \in Submitters, Fill(p) PROVE DriverType'
  <2>1. mem' \in [Engines -> [SlotIds -> Contents]]
    BY <1>2, FillEffect
  <2>2. ida' = ida /\ seq' = seq + 1
    BY <1>2 DEF Fill
  <2>3. QED
    BY <2>1, <2>2 DEF Contents
<1>3. ASSUME NEW p \in Submitters, AddBegin(p) PROVE DriverType'
  BY <1>3 DEF AddBegin, Usable, Removing
<1>4. ASSUME NEW p \in Submitters, AddOk(p) PROVE DriverType'
  BY <1>4 DEF AddOk
<1>5. ASSUME NEW p \in Submitters, AddFails(p) PROVE DriverType'
  BY <1>5 DEF AddFails
<1>6. ASSUME NEW p \in Submitters, Kick(p) PROVE DriverType'
  BY <1>6 DEF Kick, Serves
<1>7. ASSUME NEW t \in Threads, Reset(t, After(t)) PROVE DriverType'
  <2>1. ASSUME pc[t] = "clear" PROVE DriverType'
    <3>1. mem' \in [Engines -> [SlotIds -> Contents]]
      BY <1>7, <2>1, ClearEffect
    <3>2. QED
      BY <1>7, <2>1, <3>1 DEF Reset, Contents
  <2>2. ASSUME pc[t] = "free" PROVE DriverType'
    BY <1>7, <2>2 DEF Reset, SlotInv
  <2>3. QED
    BY <1>7, <2>1, <2>2 DEF Reset
<1>8. ASSUME NEW e \in Engines, Interrupt(e) PROVE DriverType'
  BY <1>8 DEF Interrupt
<1>9. ASSUME NEW e \in Engines, GetBegin(e) PROVE DriverType'
  BY <1>9 DEF GetBegin, Usable
<1>10. ASSUME NEW e \in Engines, GetEnd(e) PROVE DriverType'
  BY <1>10 DEF GetEnd
<1>11. ASSUME NEW e \in Engines, ServiceBegin(e) PROVE DriverType'
  BY <1>11 DEF ServiceBegin, Serves
<1>12. ASSUME Answer PROVE DriverType'
  <2>1. ASSUME ~head.answered PROVE DriverType'
    <3>1. mem' \in [Engines -> [SlotIds -> Contents]]
      BY <1>12, <2>1, AnswerEffect
    <3>2. QED
      BY <1>12, <2>1, <3>1 DEF Answer, Contents
  <2>2. QED
    BY <1>12, <2>1 DEF Answer
<1>13. ASSUME Probe \/ Remove \/ Detach PROVE DriverType'
  BY <1>13 DEF Probe, Remove, Detach, Removing
<1>14. ASSUME DelVqs \/ Stop \/ Boot PROVE DriverType'
  BY <1>14 DEF DelVqs, Stop, Boot, Removing
<1>15. ASSUME Crash \/ Pop \/ ServiceEnd PROVE DriverType'
  BY <1>15 DEF Crash, Pop, ServiceEnd, Serves
<1>16. ASSUME Abort PROVE DriverType'
  BY <1>16 DEF Abort
<1>17. ASSUME UNCHANGED vars PROVE DriverType'
  BY <1>17
<1>18. QED
  BY StepCases, <1>1, <1>2, <1>3, <1>4, <1>5, <1>6, <1>7, <1>8, <1>9, <1>10,
     <1>11, <1>12, <1>13, <1>14, <1>15, <1>16, <1>17

\* Every step keeps the types of the virtqueues.
LEMMA RingTypeStep ==
  ASSUME IInv, ~Misused, ~Misused', [Next]_vars
  PROVE  RingType'
<1>0. RingType /\ DeviceType /\ ThreadType /\ SlotInv /\ LifeInv
  BY Parts
<1> USE <1>0, Facts, MisuseEnds DEF RingType, drvVars, vqVars, devVars, vars,
        Goto
<1>1. ASSUME NEW p \in Submitters, NEW e \in Engines, Copy(p, e) PROVE RingType'
  BY <1>1 DEF Copy, SlotRange
<1>2. ASSUME NEW p \in Submitters, Fill(p) PROVE RingType'
  BY <1>2 DEF Fill
<1>3. ASSUME NEW p \in Submitters, AddBegin(p) PROVE RingType'
  <2>1. p \in Threads /\ loc[p][1] \in Engines
    BY <1>3, Where DEF AddBegin
  <2>2. QED
    BY <1>3, <2>1, BeginEffect
<1>4. ASSUME NEW p \in Submitters, AddOk(p) PROVE RingType'
  <2>1. PICK e \in Engines, k \in SlotIds :
          /\ inside' = [inside EXCEPT ![e] = {}]
          /\ tokens' = [tokens EXCEPT ![e] = tokens[e] \cup {k}]
          /\ avail' = [avail EXCEPT ![e] = Append(avail[e], k)]
          /\ Append(avail[e], k) \in Seq(SlotIds)
          /\ UNCHANGED <<vqs, used>>
    BY <1>4, AddEffect
  <2>2. avail' \in [Engines -> Seq(SlotIds)]
    BY <2>1, Override
  <2>3. QED
    BY <2>1, <2>2
<1>5. ASSUME NEW p \in Submitters, AddFails(p) PROVE RingType'
  BY <1>5, Where DEF AddFails
<1>6. ASSUME NEW p \in Submitters, Kick(p) PROVE RingType'
  BY <1>6 DEF Kick, Serves
<1>7. ASSUME NEW t \in Threads, Reset(t, After(t)) PROVE RingType'
  BY <1>7 DEF Reset
<1>8. ASSUME NEW e \in Engines, Interrupt(e) PROVE RingType'
  BY <1>8 DEF Interrupt
<1>9. ASSUME NEW e \in Engines, GetBegin(e) PROVE RingType'
  <2>1. inside' = [inside EXCEPT ![e] = {Irq(e)}]
    BY <1>9, BeginEffect
  <2>2. UNCHANGED <<vqs, tokens, avail, used>>
    BY <1>9, BeginEffect
  <2>3. QED
    BY <2>1, <2>2
<1>10. ASSUME NEW e \in Engines, GetEnd(e) PROVE RingType'
  <2>1. /\ inside' = [inside EXCEPT ![e] = {}] /\ UNCHANGED <<vqs, avail>>
        /\ tokens' = tokens
           \/ \E k \in SlotIds :
                tokens' = [tokens EXCEPT ![e] = tokens[e] \ {k}]
        /\ used' = used \/ /\ used' = [used EXCEPT ![e] = Tail(used[e])]
                           /\ Tail(used[e]) \in Seq(SlotIds)
    BY <1>10, GetEffect
  <2>2. CASE used' = used
    BY <2>1, <2>2, ZenonT(60)
  <2>3. CASE /\ used' = [used EXCEPT ![e] = Tail(used[e])]
             /\ Tail(used[e]) \in Seq(SlotIds)
    <3>1. used' \in [Engines -> Seq(SlotIds)]
      BY <2>3, Override
    <3>2. QED
      BY <2>1, <3>1, ZenonT(60)
  <2>4. QED
    BY <2>1, <2>2, <2>3
<1>11. ASSUME Probe PROVE RingType'
  BY <1>11, BoundAssumption DEF Probe, Removing, DeviceType
<1>12. ASSUME Detach PROVE RingType'
  BY <1>12, DetachEffect, ZenonT(60)
<1>13. ASSUME DelVqs PROVE RingType'
  BY <1>13, BoundAssumption DEF DelVqs
<1>14. ASSUME Boot PROVE RingType'
  BY <1>14 DEF Boot, Removing
<1>15. ASSUME NEW e \in Engines, ServiceBegin(e) PROVE RingType'
  BY <1>15 DEF ServiceBegin, Serves
<1>16. ASSUME Pop PROVE RingType'
  <2>1. /\ serving \in Engines /\ UNCHANGED <<vqVars, used>>
        /\ avail' = [avail EXCEPT ![serving] = Tail(avail[serving])]
        /\ Tail(avail[serving]) \in Seq(SlotIds)
    BY <1>16, PopEffect
  <2>2. avail' \in [Engines -> Seq(SlotIds)]
    BY <2>1, Override
  <2>3. QED
    BY <2>1, <2>2
<1>17. ASSUME Answer PROVE RingType'
  <2>1. CASE head.answered
    <3>1. /\ serving \in Engines /\ UNCHANGED <<vqVars, avail>>
          /\ used' = [used EXCEPT ![serving] = Append(used[serving], head.slot)]
          /\ Append(used[serving], head.slot) \in Seq(SlotIds)
      BY <1>17, <2>1, PushEffect
    <3>2. used' \in [Engines -> Seq(SlotIds)]
      BY <3>1, Override
    <3>3. QED
      BY <3>1, <3>2
  <2>2. CASE ~head.answered
    BY <1>17, <2>2 DEF Answer
  <2>3. QED
    BY <2>1, <2>2
<1>18. ASSUME Remove \/ Stop \/ Crash PROVE RingType'
  BY <1>18 DEF Remove, Stop, Crash, Removing, Serves
<1>19. ASSUME ServiceEnd \/ Abort PROVE RingType'
  BY <1>19 DEF ServiceEnd, Abort
<1>20. ASSUME UNCHANGED vars PROVE RingType'
  BY <1>20
<1>21. QED
  BY StepCases, <1>1, <1>2, <1>3, <1>4, <1>5, <1>6, <1>7, <1>8, <1>9, <1>10,
     <1>11, <1>12, <1>13, <1>14, <1>15, <1>16, <1>17, <1>18, <1>19, <1>20

\* Every step keeps the types of the device.
LEMMA DeviceTypeStep ==
  ASSUME IInv, ~Misused, ~Misused', [Next]_vars
  PROVE  DeviceType'
<1>0. DeviceType /\ RingType /\ DriverType /\ ThreadType /\ SlotInv /\ LifeInv
  BY Parts
<1> USE <1>0, Facts, MisuseEnds DEF DeviceType, drvVars, vqVars, devVars,
        vars, Goto
<1>1. ASSUME NEW p \in Submitters, NEW e \in Engines, Copy(p, e)
      PROVE  DeviceType'
  BY <1>1 DEF Copy, SlotRange
<1>2. ASSUME NEW p \in Submitters, Fill(p) PROVE DeviceType'
  BY <1>2 DEF Fill
<1>3. ASSUME NEW p \in Submitters, AddBegin(p) PROVE DeviceType'
  BY <1>3 DEF AddBegin, Usable, Removing
<1>4. ASSUME NEW p \in Submitters, AddOk(p) PROVE DeviceType'
  BY <1>4 DEF AddOk
<1>5. ASSUME NEW p \in Submitters, AddFails(p) PROVE DeviceType'
  BY <1>5 DEF AddFails
<1>6. ASSUME NEW p \in Submitters, Kick(p) PROVE DeviceType'
  BY <1>6, Where DEF Kick, Serves
<1>7. ASSUME NEW t \in Threads, Reset(t, After(t)) PROVE DeviceType'
  BY <1>7 DEF Reset
<1>8. ASSUME NEW e \in Engines, Interrupt(e) PROVE DeviceType'
  BY <1>8 DEF Interrupt
<1>9. ASSUME NEW e \in Engines, GetBegin(e) PROVE DeviceType'
  BY <1>9 DEF GetBegin, Usable
<1>10. ASSUME NEW e \in Engines, GetEnd(e) PROVE DeviceType'
  BY <1>10 DEF GetEnd
<1>11. ASSUME Detach PROVE DeviceType'
  BY <1>11, DetachEffect
<1>12. ASSUME DelVqs PROVE DeviceType'
  BY <1>12 DEF DelVqs
<1>13. ASSUME Boot PROVE DeviceType'
  BY <1>13, BoundAssumption DEF Boot, Removing
<1>14. ASSUME NEW e \in Engines, ServiceBegin(e) PROVE DeviceType'
  BY <1>14 DEF ServiceBegin, Serves
<1>15. ASSUME Pop PROVE DeviceType'
  BY <1>15, PopEffect
<1>16. ASSUME Answer PROVE DeviceType'
  <2>1. /\ head \in [slot : SlotIds, seq : Nat, answered : BOOLEAN]
        /\ serving \in Engines
    BY <1>16 DEF Answer, LifeInv
  <2>2. /\ head' = NoHead \/ head' = [head EXCEPT !.answered = TRUE]
        /\ irq' = irq \cup {serving} \/ irq' = irq
    BY <1>16 DEF Answer
  <2>3. QED
    BY <1>16, <2>1, <2>2 DEF Answer
<1>17. ASSUME Abort PROVE DeviceType'
  BY <1>17 DEF Abort
<1>18. ASSUME Probe \/ Remove \/ Stop PROVE DeviceType'
  BY <1>18 DEF Probe, Remove, Stop, Removing
<1>19. ASSUME Crash \/ ServiceEnd PROVE DeviceType'
  BY <1>19 DEF Crash, ServiceEnd, Serves
<1>20. ASSUME UNCHANGED vars PROVE DeviceType'
  BY <1>20
<1>21. QED
  BY StepCases, <1>1, <1>2, <1>3, <1>4, <1>5, <1>6, <1>7, <1>8, <1>9, <1>10,
     <1>11, <1>12, <1>13, <1>14, <1>15, <1>16, <1>17, <1>18, <1>19, <1>20

\* Every step keeps the types of the threads.
LEMMA ThreadTypeStep ==
  ASSUME IInv, ~Misused, ~Misused', [Next]_vars
  PROVE  ThreadType'
<1>0. DriverType /\ RingType /\ ThreadType /\ SlotInv
  BY Parts
<1> USE <1>0, Facts, MisuseEnds DEF ThreadType, drvVars, vqVars, devVars,
        vars, Goto
<1>1. ASSUME NEW p \in Submitters, NEW e \in Engines, Copy(p, e)
      PROVE  ThreadType'
  <2>1. PICK k \in SlotIds : loc' = [loc EXCEPT ![p] = <<e, k>>]
    BY <1>1 DEF Copy
  <2>2. QED
    BY <1>1, <2>1 DEF Copy
<1>2. ASSUME NEW p \in Submitters, Fill(p) PROVE ThreadType'
  BY <1>2 DEF Fill
<1>3. ASSUME NEW p \in Submitters, AddBegin(p) PROVE ThreadType'
  BY <1>3 DEF AddBegin, Usable, Removing
<1>4. ASSUME NEW p \in Submitters, AddOk(p) PROVE ThreadType'
  BY <1>4 DEF AddOk
<1>5. ASSUME NEW p \in Submitters, AddFails(p) PROVE ThreadType'
  BY <1>5 DEF AddFails
<1>6. ASSUME NEW p \in Submitters, Kick(p) PROVE ThreadType'
  BY <1>6 DEF Kick, Serves
<1>7. ASSUME NEW t \in Threads, Reset(t, After(t)) PROVE ThreadType'
  <2>1. pc[t] = "clear" => loc' = loc
    BY <1>7, ClearEffect
  <2>2. loc' = loc
    BY <1>7, <2>1 DEF Reset
  <2>3. pc' = [pc EXCEPT ![t] = After(t)] \/ pc' = [pc EXCEPT ![t] = "free"]
    BY <1>7 DEF Reset
  <2>4. QED
    BY <2>2, <2>3 DEF After
<1>8. ASSUME NEW e \in Engines, Interrupt(e) PROVE ThreadType'
  BY <1>8 DEF Interrupt
<1>9. ASSUME NEW e \in Engines, GetBegin(e) PROVE ThreadType'
  BY <1>9 DEF GetBegin, Usable
<1>10. ASSUME NEW e \in Engines, GetEnd(e) PROVE ThreadType'
  <2>1. \/ pc' = [pc EXCEPT ![Irq(e)] = "idle"] /\ loc' = loc
        \/ /\ pc' = [pc EXCEPT ![Irq(e)] = "clear"]
           /\ \E k \in SlotIds : loc' = [loc EXCEPT ![Irq(e)] = <<e, k>>]
    BY <1>10, GetEffect
  <2>2. QED
    BY <2>1
<1>11. ASSUME Detach PROVE ThreadType'
  BY <1>11, DetachEffect
<1>12. ASSUME NEW e \in Engines, ServiceBegin(e) PROVE ThreadType'
  BY <1>12 DEF ServiceBegin, Serves
<1>13. ASSUME Probe \/ Remove \/ DelVqs PROVE ThreadType'
  BY <1>13 DEF Probe, Remove, DelVqs, Removing
<1>14. ASSUME Stop \/ Boot \/ Crash PROVE ThreadType'
  BY <1>14 DEF Stop, Boot, Crash, Removing, Serves
<1>15. ASSUME Pop \/ Answer \/ ServiceEnd PROVE ThreadType'
  BY <1>15 DEF Pop, Answer, ServiceEnd
<1>16. ASSUME Abort PROVE ThreadType'
  BY <1>16 DEF Abort
<1>17. ASSUME UNCHANGED vars PROVE ThreadType'
  BY <1>17
<1>18. QED
  BY StepCases, <1>1, <1>2, <1>3, <1>4, <1>5, <1>6, <1>7, <1>8, <1>9, <1>10,
     <1>11, <1>12, <1>13, <1>14, <1>15, <1>16, <1>17

\* Every thread stays with its own code.
LEMMA RoleStep ==
  ASSUME IInv, ~Misused, ~Misused', [Next]_vars
  PROVE  RoleInv'
<1>0. ThreadType /\ RoleInv
  BY Parts
<1> USE <1>0, Facts, MisuseEnds DEF RoleInv, ThreadType, drvVars, vqVars,
        devVars, vars, Goto
<1>1. ASSUME NEW p \in Submitters, NEW e \in Engines, Copy(p, e) PROVE RoleInv'
  BY <1>1 DEF Copy, SlotRange
<1>2. ASSUME NEW p \in Submitters, Fill(p) PROVE RoleInv'
  BY <1>2 DEF Fill
<1>3. ASSUME NEW p \in Submitters, AddBegin(p) PROVE RoleInv'
  <2>1. p \in Threads /\ loc[p][1] \in Engines
    BY <1>3, Where DEF AddBegin
  <2>2. QED
    BY <1>3, <2>1, BeginEffect
<1>4. ASSUME NEW p \in Submitters, AddOk(p) PROVE RoleInv'
  BY <1>4 DEF AddOk
<1>5. ASSUME NEW p \in Submitters, AddFails(p) PROVE RoleInv'
  BY <1>5 DEF AddFails
<1>6. ASSUME NEW p \in Submitters, Kick(p) PROVE RoleInv'
  BY <1>6 DEF Kick, Serves
<1>7. ASSUME NEW t \in Threads, Reset(t, After(t)) PROVE RoleInv'
  <2>1. loc' = loc
    BY <1>7, ClearEffect DEF Reset
  <2>2. \/ pc[t] = "clear" /\ Goto(t, "free")
        \/ pc[t] = "free" /\ Goto(t, After(t))
    BY <1>7 DEF Reset
  <2>3. QED
    BY <2>1, <2>2 DEF After
<1>8. ASSUME NEW e \in Engines, Interrupt(e) PROVE RoleInv'
  BY <1>8 DEF Interrupt
<1>9. ASSUME NEW e \in Engines, GetBegin(e) PROVE RoleInv'
  BY <1>9, BeginEffect
<1>10. ASSUME NEW e \in Engines, GetEnd(e) PROVE RoleInv'
  <2>1. \/ Goto(Irq(e), "idle") /\ loc' = loc
        \/ /\ \E k \in SlotIds : loc' = [loc EXCEPT ![Irq(e)] = <<e, k>>]
           /\ Goto(Irq(e), "clear")
    BY <1>10, GetEffect
  <2>2. QED
    BY <2>1
<1>11. ASSUME Detach PROVE RoleInv'
  BY <1>11, DetachEffect
<1>12. ASSUME NEW e \in Engines, ServiceBegin(e) PROVE RoleInv'
  BY <1>12 DEF ServiceBegin, Serves
<1>13. ASSUME Probe \/ Remove \/ DelVqs PROVE RoleInv'
  BY <1>13 DEF Probe, Remove, DelVqs, Removing
<1>14. ASSUME Stop \/ Boot \/ Crash PROVE RoleInv'
  BY <1>14 DEF Stop, Boot, Crash, Removing, Serves
<1>15. ASSUME Pop \/ Answer \/ ServiceEnd PROVE RoleInv'
  BY <1>15 DEF Pop, Answer, ServiceEnd
<1>16. ASSUME Abort PROVE RoleInv'
  BY <1>16 DEF Abort
<1>17. ASSUME UNCHANGED vars PROVE RoleInv'
  BY <1>17
<1>18. QED
  BY StepCases, <1>1, <1>2, <1>3, <1>4, <1>5, <1>6, <1>7, <1>8, <1>9, <1>10,
     <1>11, <1>12, <1>13, <1>14, <1>15, <1>16, <1>17

\* The queues come and go around the firmware.
LEMMA LifeStep ==
  ASSUME IInv, ~Misused, ~Misused', [Next]_vars
  PROVE  LifeInv'
<1>0. RingType /\ DeviceType /\ ThreadType /\ RoleInv /\ SlotInv /\ LifeInv
  BY Parts
<1> USE <1>0, Facts, MisuseEnds DEF LifeInv, ThreadType, drvVars, vqVars,
        devVars, vars, Goto
<1>1. ASSUME NEW p \in Submitters, NEW e \in Engines, Copy(p, e) PROVE LifeInv'
  BY <1>1 DEF Copy, SlotRange
<1>2. ASSUME NEW p \in Submitters, Fill(p) PROVE LifeInv'
  BY <1>2 DEF Fill
<1>3. ASSUME NEW p \in Submitters, AddBegin(p) PROVE LifeInv'
  <2>1. PICK e \in Engines : loc[p][1] = e
    BY <1>3, Where DEF AddBegin
  <2>2. /\ vqs # 0 /\ inside[e] = {} /\ pc[Remover] = "idle"
        /\ inside' = [inside EXCEPT ![e] = {p}] /\ Goto(p, "adding")
        /\ UNCHANGED <<vqs, tokens, devVars, loc>>
    BY <1>3, <2>1, BeginEffect
  <2>3. ASSUME NEW q \in Submitters, pc'[q] = "adding"
        PROVE  inside'[loc'[q][1]] = {q} /\ loc[q][1] \in Engines
    BY <2>1, <2>2, <2>3, Where DEF RingType
  <2>4. QED
    BY <2>1, <2>2, <2>3, ZenonT(60) DEF RingType
<1>4. ASSUME NEW p \in Submitters, AddOk(p) PROVE LifeInv'
  <2>0. PICK e \in Engines, k \in SlotIds : loc[p][1] = e /\ loc[p][2] = k
    BY <1>4, Where DEF AddOk
  <2>1. /\ pc[p] = "adding" /\ Goto(p, "kick")
        /\ inside' = [inside EXCEPT ![e] = {}]
        /\ tokens' = [tokens EXCEPT ![e] = tokens[e] \cup {k}]
        /\ UNCHANGED <<vqs, devVars, loc>>
    BY <1>4, <2>0 DEF AddOk
  <2>2. inside[e] = {p}
    BY <2>0, <2>1
  <2>3. ASSUME NEW q \in Submitters, pc'[q] = "adding"
        PROVE  inside'[loc'[q][1]] = {q}
    BY <2>0, <2>1, <2>2, <2>3, Where DEF RingType
  <2>4. QED
    BY <2>0, <2>1, <2>2, <2>3 DEF RingType
<1>5. ASSUME NEW p \in Submitters, AddFails(p) PROVE LifeInv'
  <2>1. PICK e \in Engines : loc[p][1] = e
    BY <1>5, Where DEF AddFails
  <2>2. inside[e] = {p} /\ inside' = [inside EXCEPT ![e] = {}]
    BY <1>5, <2>1 DEF AddFails
  <2>3. ASSUME NEW q \in Submitters, pc'[q] = "adding"
        PROVE  inside'[loc'[q][1]] = {q}
    BY <1>5, <2>1, <2>2, <2>3, Where DEF AddFails, RingType
  <2>4. QED
    BY <1>5, <2>1, <2>2, <2>3, ZenonT(60) DEF AddFails, RingType
<1>6. ASSUME NEW p \in Submitters, Kick(p) PROVE LifeInv'
  BY <1>6 DEF Kick, Serves
<1>7. ASSUME NEW t \in Threads, Reset(t, After(t)) PROVE LifeInv'
  <2>1. loc' = loc
    BY <1>7, ClearEffect DEF Reset
  <2>2. /\ UNCHANGED <<vqVars, devVars>>
        /\ \/ pc[t] = "clear" /\ Goto(t, "free")
           \/ pc[t] = "free" /\ Goto(t, After(t))
    BY <1>7 DEF Reset
  <2>3. /\ \A u \in Threads \ {t} : pc'[u] = pc[u]
        /\ pc[t] \in {"clear", "free"} /\ pc'[t] \in {"free", After(t)}
    BY <2>2 DEF ThreadType
  <2>4. /\ \A q \in Submitters : pc'[q] = "adding" => pc[q] = "adding"
        /\ \A e \in Engines :
             pc'[Irq(e)] = "getting" => pc[Irq(e)] = "getting"
        /\ \/ pc'[Remover] = pc[Remover]
           \/ /\ pc[Remover] \in {"clear", "free"}
              /\ pc'[Remover] \in {"free", "detach"}
    BY <2>3, ThreadAssumption DEF After, Threads, Handlers
  <2>5. QED
    BY <2>1, <2>2, <2>4
<1>8. ASSUME NEW e \in Engines, Interrupt(e) PROVE LifeInv'
  BY <1>8 DEF Interrupt
<1>9. ASSUME NEW e \in Engines, GetBegin(e) PROVE LifeInv'
  <2>1. /\ vqs # 0 /\ inside[e] = {}
        /\ inside' = [inside EXCEPT ![e] = {Irq(e)}] /\ Goto(Irq(e), "getting")
        /\ UNCHANGED <<vqs, tokens, devVars, loc>>
    BY <1>9, BeginEffect
  <2>2. ASSUME NEW q \in Submitters, pc'[q] = "adding"
        PROVE  inside'[loc'[q][1]] = {q} /\ pc[q] = "adding"
    BY <2>1, <2>2, Where DEF RingType
  <2>3. QED
    BY <2>1, <2>2, ZenonT(60) DEF RingType
<1>10. ASSUME NEW e \in Engines, GetEnd(e) PROVE LifeInv'
  <2>1. /\ pc[Irq(e)] = "getting" /\ inside' = [inside EXCEPT ![e] = {}]
        /\ UNCHANGED <<vqs, devVars>>
        /\ Goto(Irq(e), "idle") \/ Goto(Irq(e), "clear")
        /\ \A q \in Submitters : loc'[q] = loc[q]
        /\ \A f \in Engines : tokens[f] = {} => tokens'[f] = {}
    <3>1. CASE Goto(Irq(e), "idle") /\ UNCHANGED <<tokens, used, loc>>
      BY <1>10, <3>1, GetEffect
    <3>2. CASE ~(Goto(Irq(e), "idle") /\ UNCHANGED <<tokens, used, loc>>)
      <4>1. PICK k \in SlotIds :
              /\ tokens' = [tokens EXCEPT ![e] = tokens[e] \ {k}]
              /\ loc' = [loc EXCEPT ![Irq(e)] = <<e, k>>]
              /\ Goto(Irq(e), "clear")
        BY <1>10, <3>2, GetEffect
      <4>2. QED
        <5>1. /\ pc[Irq(e)] = "getting" /\ inside' = [inside EXCEPT ![e] = {}]
              /\ UNCHANGED <<vqs, devVars>>
          BY <1>10, GetEffect
        <5>2. QED
          BY <4>1, <5>1 DEF RingType
    <3>3. QED
      BY <3>1, <3>2
  <2>2. inside[e] = {Irq(e)}
    BY <2>1
  <2>3. ASSUME NEW q \in Submitters, pc'[q] = "adding"
        PROVE  inside'[loc'[q][1]] = {q} /\ pc[q] = "adding"
    BY <2>1, <2>2, <2>3, Where DEF RingType
  <2>4. QED
    BY <2>1, <2>2, <2>3, ZenonT(60) DEF RingType
<1>11. ASSUME Probe PROVE LifeInv'
  BY <1>11 DEF Probe, Removing
<1>12. ASSUME Remove PROVE LifeInv'
  <2>1. /\ vqs # 0 /\ dev # "off" /\ pc[Remover] = "idle"
        /\ Goto(Remover, "detach")
    BY <1>12 DEF Remove, Removing, DeviceType
  <2>2. QED
    BY <1>12, <2>1 DEF Remove
<1>13. ASSUME Detach PROVE LifeInv'
  <2>1. \A p \in Submitters : pc[p] # "adding"
    BY <1>13, DetachEffect, Where, ZenonT(60)
  <2>2. /\ pc[Remover] = "detach" /\ UNCHANGED <<vqs, inside, devVars>>
        /\ \/ Goto(Remover, "del") /\ \A e \in Engines : tokens'[e] = {}
           \/ Goto(Remover, "clear")
    BY <1>13, DetachEffect
  <2>3. QED
    BY <2>1, <2>2
<1>14. ASSUME Boot PROVE LifeInv'
  BY <1>14 DEF Boot, Removing, DeviceType
<1>15. ASSUME Crash PROVE LifeInv'
  BY <1>15 DEF Crash, Serves
<1>16. ASSUME NEW e \in Engines, ServiceBegin(e) PROVE LifeInv'
  BY <1>16 DEF ServiceBegin, Serves
<1>17. ASSUME DelVqs \/ Stop PROVE LifeInv'
  BY <1>17 DEF DelVqs, Stop
<1>18. ASSUME Pop \/ Answer PROVE LifeInv'
  BY <1>18 DEF Pop, Answer
<1>19. ASSUME ServiceEnd \/ Abort PROVE LifeInv'
  BY <1>19 DEF ServiceEnd, Abort
<1>20. ASSUME UNCHANGED vars PROVE LifeInv'
  BY <1>20
<1>21. QED
  BY StepCases, <1>1, <1>2, <1>3, <1>4, <1>5, <1>6, <1>7, <1>8, <1>9, <1>10,
     <1>11, <1>12, <1>13, <1>14, <1>15, <1>16, <1>17, <1>18, <1>19, <1>20

\* Every step keeps each slot in one pair of hands.
LEMMA OwnStep ==
  ASSUME IInv, ~Misused, ~Misused', [Next]_vars
  PROVE  OwnInv'
<1>0. DriverType /\ RingType /\ ThreadType /\ OwnInv /\ LifeInv
  BY Parts
<1> USE <1>0, Facts, MisuseEnds DEF drvVars, vqVars, devVars, vars, Goto
<1>1. ASSUME NEW p \in Submitters, NEW e \in Engines, Copy(p, e)
      PROVE  OwnInv'
  <2>1. PICK k \in SlotIds :
          /\ k \notin ida[e] /\ ida' = [ida EXCEPT ![e] = ida[e] \cup {k}]
          /\ loc' = [loc EXCEPT ![p] = <<e, k>>]
    BY <1>1 DEF Copy
  <2>2. tokens' = tokens /\ pc[p] = "idle" /\ Goto(p, "init")
    BY <1>1 DEF Copy
  <2>3. \A t \in Threads, f \in Engines, j \in SlotIds :
          Holds(t, f, j)' <=> (Holds(t, f, j) \/ (t = p /\ f = e /\ j = k))
    BY <2>1, <2>2 DEF Holds, ThreadType
  <2>4. \A f \in Engines, j \in SlotIds :
          j \in ida'[f] <=> (j \in ida[f] \/ (f = e /\ j = k))
    BY <2>1 DEF DriverType
  <2>5. k \notin tokens[e] /\ \A t \in Threads : ~Holds(t, e, k)
    BY <2>1 DEF OwnInv
  <2>6. ASSUME NEW f \in Engines, NEW j \in SlotIds
        PROVE  j \in ida'[f] <=> \/ j \in tokens'[f]
                                 \/ \E t \in Threads : Holds(t, f, j)'
    <3>1. CASE f = e /\ j = k
      BY <2>3, <2>4, <3>1
    <3>2. CASE ~(f = e /\ j = k)
      <4>1. \A t \in Threads : Holds(t, f, j)' <=> Holds(t, f, j)
        BY <2>3, <3>2
      <4>2. j \in ida'[f] <=> j \in ida[f]
        BY <2>4, <3>2
      <4>3. QED
        BY <2>2, <4>1, <4>2 DEF OwnInv
    <3>3. QED
      BY <3>1, <3>2
  <2>7. ASSUME NEW f \in Engines, NEW j \in SlotIds
        PROVE  /\ j \in tokens'[f] => \A t \in Threads : ~Holds(t, f, j)'
               /\ \A t, u \in Threads :
                    Holds(t, f, j)' /\ Holds(u, f, j)' => t = u
    BY <2>2, <2>3, <2>5 DEF OwnInv
  <2>8. QED
    BY <2>6, <2>7 DEF OwnInv
<1>2. ASSUME NEW p \in Submitters, Fill(p) PROVE OwnInv'
  <2>1. /\ pc[p] = "init" /\ Goto(p, "add")
        /\ UNCHANGED <<ida, tokens, loc>>
    BY <1>2 DEF Fill
  <2>2. QED
    BY <2>1, KeepsThread, KeepsOwn
<1>3. ASSUME NEW p \in Submitters, AddBegin(p) PROVE OwnInv'
  <2>1. p \in Threads /\ loc[p][1] \in Engines
    BY <1>3, Where DEF AddBegin
  <2>2. /\ pc[p] = "add" /\ Goto(p, "adding")
        /\ UNCHANGED <<ida, tokens, loc>>
    BY <1>3, <2>1, BeginEffect
  <2>3. QED
    BY <2>2, KeepsThread, KeepsOwn
<1>4. ASSUME NEW p \in Submitters, AddOk(p) PROVE OwnInv'
  <2>1. PICK e \in Engines, k \in SlotIds :
          /\ loc[p] = <<e, k>> /\ pc[p] = "adding" /\ Goto(p, "kick")
          /\ tokens' = [tokens EXCEPT ![e] = tokens[e] \cup {k}]
          /\ UNCHANGED <<ida, loc>>
    BY <1>4, AddEffect
  <2>2. \A t \in Threads, f \in Engines, j \in SlotIds :
          /\ Holds(t, f, j)' <=> (Holds(t, f, j) /\ ~(f = e /\ j = k))
          /\ t = p => (Holds(t, f, j) <=> f = e /\ j = k)
    <3>1. Holds(p, e, k) /\ \A t \in Threads : Holds(t, e, k) => t = p
      BY <2>1 DEF OwnInv, Holds
    <3>2. QED
      BY <2>1, <3>1 DEF Holds, ThreadType
  <2>3. \A f \in Engines, j \in SlotIds :
          j \in tokens'[f] <=> (j \in tokens[f] \/ (f = e /\ j = k))
    BY <2>1 DEF RingType
  <2>4. QED
    BY <2>1, <2>2, <2>3 DEF OwnInv
<1>5. ASSUME NEW p \in Submitters, AddFails(p) PROVE OwnInv'
  <2>1. /\ pc[p] = "adding" /\ Goto(p, "clear")
        /\ UNCHANGED <<ida, tokens, loc>>
    BY <1>5 DEF AddFails
  <2>2. QED
    BY <2>1, KeepsThread, KeepsOwn
<1>6. ASSUME NEW p \in Submitters, Kick(p) PROVE OwnInv'
  <2>1. /\ pc[p] = "kick" /\ Goto(p, "idle")
        /\ UNCHANGED <<ida, tokens, loc>>
    BY <1>6 DEF Kick
  <2>2. QED
    BY <2>1, KeepsThread, KeepsOwn
<1>7. ASSUME NEW t \in Threads, Reset(t, After(t)) PROVE OwnInv'
  <2>1. CASE pc[t] = "clear"
    <3>1. Goto(t, "free") /\ UNCHANGED <<ida, tokens, loc>>
      BY <1>7, <2>1, ClearEffect DEF Reset
    <3>2. QED
      BY <2>1, <3>1, KeepsThread, KeepsOwn
  <2>2. CASE pc[t] = "free"
    <3>1. PICK e \in Engines, k \in SlotIds : loc[t] = <<e, k>>
      BY <2>2, Where
    <3>2. /\ ida' = [ida EXCEPT ![e] = ida[e] \ {k}]
          /\ Goto(t, After(t)) /\ UNCHANGED <<tokens, loc>>
      BY <1>7, <2>2, <3>1 DEF Reset
    <3>3. Holds(t, e, k) /\ \A u \in Threads : Holds(u, e, k) => u = t
      <4>1. Holds(t, e, k)
        BY <2>2, <3>1 DEF Holds
      <4>2. QED
        BY <4>1 DEF OwnInv
    <3>4. \A u \in Threads, f \in Engines, j \in SlotIds :
            Holds(u, f, j)' <=> (Holds(u, f, j) /\ ~(f = e /\ j = k))
      BY <2>2, <3>1, <3>2, <3>3 DEF Holds, ThreadType, After
    <3>5. \A f \in Engines, j \in SlotIds :
            j \in ida'[f] <=> (j \in ida[f] /\ ~(f = e /\ j = k))
      BY <3>2 DEF DriverType
    <3>6. k \notin tokens[e]
      BY <3>3 DEF OwnInv
    <3>7. QED
      BY <3>2, <3>3, <3>4, <3>5, <3>6, ZenonT(60) DEF OwnInv
  <2>3. QED
    BY <1>7, <2>1, <2>2 DEF Reset
<1>8. ASSUME NEW e \in Engines, Interrupt(e) PROVE OwnInv'
  <2>1. UNCHANGED <<ida, tokens, loc>>
    BY <1>8 DEF Interrupt
  <2>2. CASE pc' = pc
    BY <2>1, <2>2, KeepsOwn DEF Keeps, Holds
  <2>3. CASE pc[Irq(e)] = "idle" /\ Goto(Irq(e), "get")
    BY <2>1, <2>3, KeepsThread, KeepsOwn
  <2>4. QED
    BY <1>8, <2>2, <2>3 DEF Interrupt
<1>9. ASSUME NEW e \in Engines, GetBegin(e) PROVE OwnInv'
  <2>1. /\ pc[Irq(e)] = "get" /\ Goto(Irq(e), "getting")
        /\ UNCHANGED <<ida, tokens, loc>>
    BY <1>9, BeginEffect
  <2>2. QED
    BY <2>1, KeepsThread, KeepsOwn
<1>10. ASSUME NEW e \in Engines, GetEnd(e) PROVE OwnInv'
  <2>1. CASE Goto(Irq(e), "idle") /\ UNCHANGED <<tokens, loc>>
    <3>1. /\ pc[Irq(e)] = "getting" /\ Goto(Irq(e), "idle")
          /\ UNCHANGED <<ida, tokens, loc>>
      BY <1>10, <2>1, GetEffect
    <3>2. QED
      BY <3>1, KeepsThread, KeepsOwn
  <2>2. CASE ~(Goto(Irq(e), "idle") /\ UNCHANGED <<tokens, loc>>)
    <3>1. ida' = ida /\ pc[Irq(e)] = "getting" /\ Goto(Irq(e), "clear")
      BY <1>10, <2>2, GetEffect
    <3>2. PICK k \in SlotIds :
            /\ k \in tokens[e]
            /\ tokens' = [tokens EXCEPT ![e] = tokens[e] \ {k}]
            /\ loc' = [loc EXCEPT ![Irq(e)] = <<e, k>>]
      BY <1>10, <2>2, GetEffect
    <3>3. \A t \in Threads, f \in Engines, j \in SlotIds :
            Holds(t, f, j)' <=>
              (Holds(t, f, j) \/ (t = Irq(e) /\ f = e /\ j = k))
      BY <3>1, <3>2 DEF Holds, ThreadType
    <3>4. \A f \in Engines, j \in SlotIds :
            j \in tokens'[f] <=> (j \in tokens[f] /\ ~(f = e /\ j = k))
      BY <3>2 DEF RingType
    <3>5. QED
      BY <3>1, <3>2, <3>3, <3>4 DEF OwnInv
  <2>3. QED
    BY <2>1, <2>2
<1>11. ASSUME Probe PROVE OwnInv'
  <2>1. \A e \in Engines : tokens[e] = {}
    BY <1>11 DEF Probe, LifeInv
  <2>2. tokens' = tokens
    BY <1>11, <2>1 DEF Probe, RingType
  <2>3. QED
    BY <1>11, <2>2, KeepsOwn DEF Probe, Keeps, Holds
<1>12. ASSUME Remove PROVE OwnInv'
  <2>1. /\ pc[Remover] = "idle" /\ Goto(Remover, "detach")
        /\ UNCHANGED <<ida, tokens, loc>>
    BY <1>12 DEF Remove, Removing
  <2>2. QED
    BY <2>1, KeepsThread, KeepsOwn
<1>13. ASSUME Detach PROVE OwnInv'
  <2>1. CASE Goto(Remover, "del") /\ UNCHANGED <<tokens, loc>>
    <3>1. /\ pc[Remover] = "detach" /\ Goto(Remover, "del")
          /\ UNCHANGED <<ida, tokens, loc>>
      BY <1>13, <2>1, DetachEffect
    <3>2. QED
      BY <3>1, KeepsThread, KeepsOwn
  <2>2. CASE ~(Goto(Remover, "del") /\ UNCHANGED <<tokens, loc>>)
    <3>1. ida' = ida /\ pc[Remover] = "detach" /\ Goto(Remover, "clear")
      BY <1>13, <2>2, DetachEffect
    <3>2. PICK e \in Engines, k \in SlotIds :
            /\ k \in tokens[e]
            /\ tokens' = [tokens EXCEPT ![e] = tokens[e] \ {k}]
            /\ loc' = [loc EXCEPT ![Remover] = <<e, k>>]
      BY <1>13, <2>2, DetachEffect
    <3>3. \A t \in Threads, f \in Engines, j \in SlotIds :
            Holds(t, f, j)' <=>
              (Holds(t, f, j) \/ (t = Remover /\ f = e /\ j = k))
      BY <3>1, <3>2 DEF Holds, ThreadType
    <3>4. \A f \in Engines, j \in SlotIds :
            j \in tokens'[f] <=> (j \in tokens[f] /\ ~(f = e /\ j = k))
      BY <3>2 DEF RingType
    <3>5. QED
      BY <3>1, <3>2, <3>3, <3>4 DEF OwnInv
  <2>3. QED
    BY <2>1, <2>2
<1>14. ASSUME DelVqs PROVE OwnInv'
  <2>1. /\ pc[Remover] = "del" /\ Goto(Remover, "stop")
        /\ UNCHANGED <<ida, tokens, loc>>
    BY <1>14 DEF DelVqs
  <2>2. QED
    BY <2>1, KeepsThread, KeepsOwn
<1>15. ASSUME Stop PROVE OwnInv'
  <2>1. /\ pc[Remover] = "stop" /\ Goto(Remover, "idle")
        /\ UNCHANGED <<ida, tokens, loc>>
    BY <1>15 DEF Stop
  <2>2. QED
    BY <2>1, KeepsThread, KeepsOwn
<1>16. ASSUME NEW e \in Engines, ServiceBegin(e) PROVE OwnInv'
  BY <1>16, KeepsOwn DEF ServiceBegin, Serves, Keeps, Holds
<1>17. ASSUME Boot \/ Crash \/ Pop \/ Answer \/ ServiceEnd PROVE OwnInv'
  BY <1>17, KeepsOwn DEF Boot, Crash, Pop, Answer, ServiceEnd, Removing,
     Serves, Keeps, Holds
<1>18. ASSUME Abort PROVE OwnInv'
  BY <1>18, KeepsOwn DEF Abort, Keeps, Holds
<1>19. ASSUME UNCHANGED vars PROVE OwnInv'
  BY <1>19, KeepsOwn DEF Keeps, Holds
<1>20. QED
  BY StepCases, <1>1, <1>2, <1>3, <1>4, <1>5, <1>6, <1>7, <1>8, <1>9, <1>10,
     <1>11, <1>12, <1>13, <1>14, <1>15, <1>16, <1>17, <1>18, <1>19

\* Every thread works on real slots.
LEMMA SlotStep ==
  ASSUME IInv, ~Misused, ~Misused', [Next]_vars
  PROVE  SlotInv'
<1>0. RingType /\ ThreadType /\ SlotInv
  BY Parts
<1> USE <1>0, Facts, MisuseEnds DEF SlotInv, ThreadType, drvVars, vqVars,
        devVars, vars, Goto
<1>1. ASSUME NEW p \in Submitters, NEW e \in Engines, Copy(p, e)
      PROVE  SlotInv'
  <2>1. PICK k \in SlotIds : loc' = [loc EXCEPT ![p] = <<e, k>>]
    BY <1>1 DEF Copy
  <2>2. QED
    BY <1>1, <2>1 DEF Copy
<1>2. ASSUME NEW p \in Submitters, Fill(p) PROVE SlotInv'
  BY <1>2 DEF Fill
<1>3. ASSUME NEW p \in Submitters, AddBegin(p) PROVE SlotInv'
  BY <1>3 DEF AddBegin, Usable, Removing
<1>4. ASSUME NEW p \in Submitters, AddOk(p) PROVE SlotInv'
  BY <1>4 DEF AddOk
<1>5. ASSUME NEW p \in Submitters, AddFails(p) PROVE SlotInv'
  BY <1>5 DEF AddFails
<1>6. ASSUME NEW p \in Submitters, Kick(p) PROVE SlotInv'
  BY <1>6 DEF Kick, Serves
<1>7. ASSUME NEW t \in Threads, Reset(t, After(t)) PROVE SlotInv'
  <2>1. loc' = loc
    BY <1>7, ClearEffect DEF Reset
  <2>2. \/ pc[t] = "clear" /\ Goto(t, "free")
        \/ pc[t] = "free" /\ Goto(t, After(t))
    BY <1>7 DEF Reset
  <2>3. QED
    BY <2>1, <2>2 DEF After
<1>8. ASSUME NEW e \in Engines, Interrupt(e) PROVE SlotInv'
  BY <1>8 DEF Interrupt
<1>9. ASSUME NEW e \in Engines, GetBegin(e) PROVE SlotInv'
  BY <1>9 DEF GetBegin, Usable
<1>10. ASSUME NEW e \in Engines, GetEnd(e) PROVE SlotInv'
  BY <1>10, GetEffect
<1>11. ASSUME Detach PROVE SlotInv'
  BY <1>11, DetachEffect
<1>12. ASSUME NEW e \in Engines, ServiceBegin(e) PROVE SlotInv'
  BY <1>12 DEF ServiceBegin, Serves
<1>13. ASSUME Probe \/ Remove \/ DelVqs \/ Stop PROVE SlotInv'
  BY <1>13 DEF Probe, Remove, DelVqs, Stop, Removing
<1>14. ASSUME Boot \/ Crash \/ Pop \/ Answer PROVE SlotInv'
  BY <1>14 DEF Boot, Crash, Pop, Answer, Removing, Serves
<1>15. ASSUME ServiceEnd \/ Abort PROVE SlotInv'
  BY <1>15 DEF ServiceEnd, Abort
<1>16. ASSUME UNCHANGED vars PROVE SlotInv'
  BY <1>16
<1>17. QED
  BY StepCases, <1>1, <1>2, <1>3, <1>4, <1>5, <1>6, <1>7, <1>8, <1>9, <1>10,
     <1>11, <1>12, <1>13, <1>14, <1>15, <1>16

\* Every filled slot says where it belongs.
LEMMA FillStep ==
  ASSUME IInv, ~Misused, ~Misused', [Next]_vars
  PROVE  FillInv'
<1>0. RingType /\ ThreadType /\ OwnInv /\ SlotInv /\ FillInv
  BY Parts
<1> USE <1>0, Facts, MisuseEnds DEF drvVars, vqVars, devVars, vars, Goto
<1>1. ASSUME NEW p \in Submitters, NEW e \in Engines, Copy(p, e)
      PROVE  FillInv'
  <2>1. PICK k \in SlotIds : loc' = [loc EXCEPT ![p] = <<e, k>>]
    BY <1>1 DEF Copy
  <2>2. Goto(p, "init") /\ UNCHANGED <<mem, tokens>>
    BY <1>1 DEF Copy
  <2>3. \A t \in Threads, f \in Engines, j \in SlotIds :
          Carries(t, f, j)' => Carries(t, f, j)
    BY <2>1, <2>2 DEF Carries, ThreadType
  <2>4. QED
    BY <2>2, <2>3, KeepsFilled
<1>2. ASSUME NEW p \in Submitters, Fill(p) PROVE FillInv'
  <2>1. PICK e \in Engines, k \in SlotIds, r \in Contents :
          /\ loc[p] = <<e, k>> /\ pc[p] = "init"
          /\ r.idx = k /\ r.eng = e
          /\ \A f \in Engines, j \in SlotIds :
               mem'[f][j] = IF f = e /\ j = k THEN r ELSE mem[f][j]
    BY <1>2, FillEffect
  <2>2. Goto(p, "add") /\ UNCHANGED <<tokens, loc>>
    BY <1>2 DEF Fill
  <2>3. \A t \in Threads, f \in Engines, j \in SlotIds :
          Carries(t, f, j)' => Carries(t, f, j) \/ (f = e /\ j = k)
    BY <2>1, <2>2 DEF Carries, ThreadType
  <2>4. QED
    BY <2>1, <2>2, <2>3 DEF FillInv
<1>3. ASSUME NEW p \in Submitters, AddBegin(p) PROVE FillInv'
  <2>1. p \in Threads /\ loc[p][1] \in Engines
    BY <1>3, Where DEF AddBegin
  <2>2. /\ pc[p] = "add" /\ Goto(p, "adding")
        /\ UNCHANGED <<mem, tokens, loc>>
    BY <1>3, <2>1, BeginEffect
  <2>3. QED
    BY <2>2, KeepsFilledThread
<1>4. ASSUME NEW p \in Submitters, AddOk(p) PROVE FillInv'
  <2>1. PICK e \in Engines, k \in SlotIds :
          /\ loc[p] = <<e, k>> /\ pc[p] = "adding" /\ Goto(p, "kick")
          /\ tokens' = [tokens EXCEPT ![e] = tokens[e] \cup {k}]
          /\ UNCHANGED <<mem, loc>>
    BY <1>4, AddEffect
  <2>2. \A t \in Threads, f \in Engines, j \in SlotIds :
          Carries(t, f, j)' => Carries(t, f, j)
    BY <2>1 DEF Carries, ThreadType
  <2>3. Carries(p, e, k)
    BY <2>1 DEF Carries
  <2>4. \A f \in Engines, j \in SlotIds :
          j \in tokens'[f] => j \in tokens[f] \/ (f = e /\ j = k)
    BY <2>1 DEF RingType
  <2>5. QED
    BY <2>1, <2>2, <2>3, <2>4, KeepsFilled
<1>5. ASSUME NEW p \in Submitters, AddFails(p) PROVE FillInv'
  <2>1. /\ pc[p] = "adding" /\ Goto(p, "clear")
        /\ UNCHANGED <<mem, tokens, loc>>
    BY <1>5 DEF AddFails
  <2>2. QED
    BY <2>1, KeepsFilledThread
<1>6. ASSUME NEW p \in Submitters, Kick(p) PROVE FillInv'
  <2>1. /\ pc[p] = "kick" /\ Goto(p, "idle")
        /\ UNCHANGED <<mem, tokens, loc>>
    BY <1>6 DEF Kick
  <2>2. QED
    BY <2>1, KeepsFilledThread
<1>7. ASSUME NEW t \in Threads, Reset(t, After(t)) PROVE FillInv'
  <2>1. CASE pc[t] = "clear"
    <3>1. PICK e \in Engines, k \in SlotIds :
            /\ loc[t] = <<e, k>> /\ loc' = loc
            /\ \A f \in Engines, j \in SlotIds :
                 mem'[f][j] = IF f = e /\ j = k THEN Cleared ELSE mem[f][j]
      BY <1>7, <2>1, ClearEffect
    <3>2. Goto(t, "free") /\ tokens' = tokens
      BY <1>7, <2>1 DEF Reset
    <3>3. Holds(t, e, k)
      BY <2>1, <3>1 DEF Holds
    <3>4. k \notin tokens[e] /\ \A u \in Threads : Holds(u, e, k) => u = t
      BY <3>3 DEF OwnInv
    <3>5. \A u \in Threads, f \in Engines, j \in SlotIds :
            Carries(u, f, j)' => Carries(u, f, j) /\ u # t
      BY <3>1, <3>2 DEF Carries, ThreadType
    <3>6. \A u \in Threads, f \in Engines, j \in SlotIds :
            Carries(u, f, j) => Holds(u, f, j)
      BY DEF Carries, Holds
    <3>7. ASSUME NEW f \in Engines, NEW j \in SlotIds,
                 j \in tokens'[f] \/ \E u \in Threads : Carries(u, f, j)'
          PROVE  mem'[f][j].idx = j /\ mem'[f][j].eng = f
      <4>1. j \in tokens[f] \/ \E u \in Threads : Carries(u, f, j)
        BY <3>2, <3>5, <3>7
      <4>2. ~(f = e /\ j = k)
        BY <3>2, <3>4, <3>5, <3>6, <3>7
      <4>3. QED
        BY <3>1, <4>1, <4>2 DEF FillInv
    <3>8. QED
      BY <3>7 DEF FillInv
  <2>2. CASE pc[t] = "free"
    <3>1. Goto(t, After(t)) /\ UNCHANGED <<mem, tokens, loc>>
      BY <1>7, <2>2 DEF Reset
    <3>2. QED
      BY <3>1, KeepsFilledThread DEF After
  <2>3. QED
    BY <1>7, <2>1, <2>2 DEF Reset
<1>8. ASSUME NEW e \in Engines, Interrupt(e) PROVE FillInv'
  <2>1. UNCHANGED <<mem, tokens, loc>>
    BY <1>8 DEF Interrupt
  <2>2. CASE pc' = pc
    BY <2>1, <2>2 DEF FillInv, Carries
  <2>3. CASE Goto(Irq(e), "get")
    BY <2>1, <2>3, KeepsFilledThread
  <2>4. QED
    BY <1>8, <2>2, <2>3 DEF Interrupt
<1>9. ASSUME NEW e \in Engines, GetBegin(e) PROVE FillInv'
  <2>1. /\ pc[Irq(e)] = "get" /\ Goto(Irq(e), "getting")
        /\ UNCHANGED <<mem, tokens, loc>>
    BY <1>9, BeginEffect DEF GetBegin
  <2>2. QED
    BY <2>1, KeepsFilledThread
<1>10. ASSUME NEW e \in Engines, GetEnd(e) PROVE FillInv'
  <2>1. CASE Goto(Irq(e), "idle") /\ UNCHANGED <<tokens, loc>>
    <3>1. mem' = mem
      BY <1>10, GetEffect
    <3>2. QED
      BY <2>1, <3>1, KeepsFilledThread
  <2>2. CASE ~(Goto(Irq(e), "idle") /\ UNCHANGED <<tokens, loc>>)
    <3>1. PICK k \in SlotIds :
            /\ k \in tokens[e]
            /\ tokens' = [tokens EXCEPT ![e] = tokens[e] \ {k}]
            /\ loc' = [loc EXCEPT ![Irq(e)] = <<e, k>>]
      BY <1>10, <2>2, GetEffect
    <3>2. Goto(Irq(e), "clear") /\ mem' = mem
      BY <1>10, <2>2, GetEffect
    <3>3. \A t \in Threads, f \in Engines, j \in SlotIds :
            Carries(t, f, j)' => Carries(t, f, j) \/ (f = e /\ j = k)
      BY <3>1, <3>2 DEF Carries, ThreadType
    <3>4. \A f \in Engines, j \in SlotIds : j \in tokens'[f] => j \in tokens[f]
      BY <3>1 DEF RingType
    <3>5. QED
      BY <3>1, <3>2, <3>3, <3>4, KeepsFilled
  <2>3. QED
    BY <2>1, <2>2
<1>11. ASSUME Probe PROVE FillInv'
  BY <1>11 DEF Probe, FillInv, Carries
<1>12. ASSUME Remove PROVE FillInv'
  <2>1. /\ pc[Remover] = "idle" /\ Goto(Remover, "detach")
        /\ UNCHANGED <<mem, tokens, loc>>
    BY <1>12 DEF Remove, Removing
  <2>2. QED
    BY <2>1, KeepsFilledThread
<1>13. ASSUME Detach PROVE FillInv'
  <2>1. CASE Goto(Remover, "del") /\ UNCHANGED <<tokens, loc>>
    <3>1. mem' = mem
      BY <1>13, DetachEffect
    <3>2. QED
      BY <2>1, <3>1, KeepsFilledThread
  <2>2. CASE ~(Goto(Remover, "del") /\ UNCHANGED <<tokens, loc>>)
    <3>1. PICK e \in Engines, k \in SlotIds :
            /\ k \in tokens[e]
            /\ tokens' = [tokens EXCEPT ![e] = tokens[e] \ {k}]
            /\ loc' = [loc EXCEPT ![Remover] = <<e, k>>]
      BY <1>13, <2>2, DetachEffect
    <3>2. Goto(Remover, "clear") /\ mem' = mem
      BY <1>13, <2>2, DetachEffect
    <3>3. \A t \in Threads, f \in Engines, j \in SlotIds :
            Carries(t, f, j)' => Carries(t, f, j) \/ (f = e /\ j = k)
      BY <3>1, <3>2 DEF Carries, ThreadType
    <3>4. \A f \in Engines, j \in SlotIds : j \in tokens'[f] => j \in tokens[f]
      BY <3>1 DEF RingType
    <3>5. QED
      BY <3>1, <3>2, <3>3, <3>4, KeepsFilled
  <2>3. QED
    BY <2>1, <2>2
<1>14. ASSUME DelVqs PROVE FillInv'
  <2>1. /\ pc[Remover] = "del" /\ Goto(Remover, "stop")
        /\ UNCHANGED <<mem, tokens, loc>>
    BY <1>14 DEF DelVqs
  <2>2. QED
    BY <2>1, KeepsFilledThread
<1>15. ASSUME Stop PROVE FillInv'
  <2>1. /\ pc[Remover] = "stop" /\ Goto(Remover, "idle")
        /\ UNCHANGED <<mem, tokens, loc>>
    BY <1>15 DEF Stop
  <2>2. QED
    BY <2>1, KeepsFilledThread
<1>16. ASSUME NEW e \in Engines, ServiceBegin(e) PROVE FillInv'
  BY <1>16 DEF ServiceBegin, Serves, FillInv, Carries
<1>17. ASSUME Answer PROVE FillInv'
  <2>1. UNCHANGED <<pc, loc, tokens>>
    BY <1>17 DEF Answer
  <2>2. CASE mem' = mem
    BY <2>1, <2>2 DEF FillInv, Carries
  <2>3. CASE ~head.answered
    <3>1. \A f \in Engines, j \in SlotIds :
            mem'[f][j].idx = mem[f][j].idx /\ mem'[f][j].eng = mem[f][j].eng
      BY <1>17, <2>3, AnswerEffect
    <3>2. QED
      BY <2>1, <3>1 DEF FillInv, Carries
  <2>4. QED
    BY <1>17, <2>2, <2>3 DEF Answer
<1>18. ASSUME Boot \/ Crash \/ Pop \/ ServiceEnd \/ Abort PROVE FillInv'
  BY <1>18 DEF Boot, Crash, Pop, ServiceEnd, Abort, Removing, Serves, FillInv,
     Carries
<1>19. ASSUME UNCHANGED vars PROVE FillInv'
  BY <1>19 DEF FillInv, Carries
<1>20. QED
  BY StepCases, <1>1, <1>2, <1>3, <1>4, <1>5, <1>6, <1>7, <1>8, <1>9, <1>10,
     <1>11, <1>12, <1>13, <1>14, <1>15, <1>16, <1>17, <1>18, <1>19

\* Every step keeps the rings in order, and away from slots in a thread's hands.
LEMMA RingStep ==
  ASSUME IInv, ~Misused, ~Misused', [Next]_vars
  PROVE  RingInv'
<1>0. RingType /\ DeviceType /\ ThreadType /\ OwnInv /\ SlotInv /\ LifeInv /\
      RingInv
  BY Parts
<1> USE <1>0, Facts, MisuseEnds DEF drvVars, vqVars, devVars, vars, Goto
<1>1. ASSUME NEW p \in Submitters, NEW e \in Engines, Copy(p, e)
      PROVE  RingInv'
  <2>1. PICK k \in SlotIds : loc' = [loc EXCEPT ![p] = <<e, k>>]
    BY <1>1 DEF Copy
  <2>2. /\ Goto(p, "init")
        /\ UNCHANGED <<avail, used, serving, head, tokens, dev>>
    BY <1>1 DEF Copy
  <2>3. \A t \in Threads, f \in Engines, j \in SlotIds :
          Fresh(t, f, j)' => Fresh(t, f, j)
    BY <2>1, <2>2 DEF Fresh, ThreadType
  <2>4. Removing' <=> Removing
    BY <2>2 DEF Removing, ThreadType
  <2>5. QED
    BY <2>2, <2>3, <2>4, KeepsRing
<1>2. ASSUME NEW p \in Submitters, Fill(p) PROVE RingInv'
  <2>1. /\ Goto(p, "add")
        /\ UNCHANGED <<avail, used, serving, head, tokens, dev, loc>>
    BY <1>2 DEF Fill
  <2>2. QED
    BY <2>1, KeepsRingThread
<1>3. ASSUME NEW p \in Submitters, AddBegin(p) PROVE RingInv'
  <2>1. p \in Threads /\ pc[p] = "add"
    BY <1>3 DEF AddBegin
  <2>2. PICK e \in Engines, k \in SlotIds : loc[p] = <<e, k>>
    BY <2>1, Where
  <2>3. /\ vqs # 0 /\ pc[Remover] = "idle" /\ Goto(p, "adding")
        /\ UNCHANGED <<avail, used, serving, head, tokens, dev, loc>>
    BY <1>3, <2>2, BeginEffect
  <2>4. ~Named(e, k)
    <3>1. k \notin tokens[e]
      BY <2>1, <2>2 DEF OwnInv, Holds
    <3>2. QED
      BY <2>3, <3>1 DEF RingInv, NameInv, LifeInv, Removing
  <2>5. OrderInv'
    BY <2>3 DEF RingInv, OrderInv
  <2>6. \A f \in Engines, j \in SlotIds : Named(f, j)' <=> Named(f, j)
    BY <2>3 DEF Named
  <2>7. NameInv'
    BY <2>3, <2>6 DEF RingInv, NameInv, Removing, ThreadType
  <2>8. \A t \in Threads, f \in Engines, j \in SlotIds :
          Fresh(t, f, j)' => Fresh(t, f, j) \/ (f = e /\ j = k)
    BY <2>2, <2>3 DEF Fresh, ThreadType
  <2>9. QED
    BY <2>4, <2>5, <2>6, <2>7, <2>8 DEF RingInv, ReapInv
<1>4. ASSUME NEW p \in Submitters, AddOk(p) PROVE RingInv'
  <2>1. PICK e \in Engines, k \in SlotIds :
          /\ loc[p] = <<e, k>> /\ pc[p] = "adding" /\ Goto(p, "kick")
          /\ tokens' = [tokens EXCEPT ![e] = tokens[e] \cup {k}]
          /\ avail' = [avail EXCEPT ![e] = Append(avail[e], k)]
          /\ Append(avail[e], k) \in Seq(SlotIds)
          /\ Elems(Append(avail[e], k)) = Elems(avail[e]) \cup {k}
          /\ UNCHANGED <<devVars, used, loc>>
    BY <1>4, AddEffect
  <2>2. ~Named(e, k)
    BY <2>1 DEF RingInv, ReapInv, Fresh
  <2>3. Distinct(Append(avail[e], k))
    BY <2>2, AppendElems DEF Named, RingInv, OrderInv, RingType
  <2>4. \A f \in Engines :
          /\ Elems(avail'[f]) = IF f = e THEN Elems(avail[e]) \cup {k}
                                ELSE Elems(avail[f])
          /\ Distinct(avail'[f])
    <3>1. /\ avail \in [Engines -> Seq(SlotIds)]
          /\ \A f \in Engines : Distinct(avail[f])
      BY DEF RingInv, OrderInv, RingType
    <3>2. \A f \in Engines :
            /\ Elems(avail'[f]) = IF f = e THEN Elems(Append(avail[e], k))
                                  ELSE Elems(avail[f])
            /\ Distinct(avail'[f])
      BY <2>1, <2>3, <3>1, OneRing
    <3>3. QED
      BY <2>1, <2>3, <3>2
  <2>5. OrderInv'
    BY <2>1, <2>2, <2>4 DEF RingInv, OrderInv, Named
  <2>6. \A f \in Engines, j \in SlotIds :
          Named(f, j)' => Named(f, j) \/ (f = e /\ j = k)
    BY <2>1, <2>4 DEF Named
  <2>7. NameInv'
    <3>1. Removing' <=> Removing
      BY <2>1 DEF Removing, ThreadType
    <3>2. \A f \in Engines, j \in SlotIds :
            j \in tokens'[f] <=> j \in tokens[f] \/ (f = e /\ j = k)
      BY <2>1 DEF RingType
    <3>3. QED
      BY <2>1, <2>6, <3>1, <3>2 DEF RingInv, NameInv
  <2>8. \A t \in Threads, f \in Engines, j \in SlotIds :
          Fresh(t, f, j)' => Fresh(t, f, j) /\ ~(f = e /\ j = k)
    <3>1. Holds(p, e, k) /\ \A t \in Threads : Holds(t, e, k) => t = p
      BY <2>1 DEF OwnInv, Holds
    <3>2. QED
      BY <2>1, <3>1 DEF Fresh, Holds, ThreadType
  <2>9. QED
    BY <2>5, <2>6, <2>7, <2>8 DEF RingInv, ReapInv
<1>5. ASSUME NEW p \in Submitters, AddFails(p) PROVE RingInv'
  <2>1. /\ Goto(p, "clear")
        /\ UNCHANGED <<avail, used, serving, head, tokens, dev, loc>>
    BY <1>5 DEF AddFails
  <2>2. QED
    BY <2>1, ThreadAssumption, KeepsRingThread
<1>6. ASSUME NEW p \in Submitters, Kick(p) PROVE RingInv'
  <2>1. /\ Goto(p, "idle")
        /\ UNCHANGED <<avail, used, serving, head, tokens, dev, loc>>
    BY <1>6 DEF Kick
  <2>2. QED
    BY <2>1, KeepsRingThread
<1>7. ASSUME NEW t \in Threads, Reset(t, After(t)) PROVE RingInv'
  <2>1. loc' = loc
    BY <1>7, ClearEffect DEF Reset
  <2>2. /\ Goto(t, "free") \/ Goto(t, After(t))
        /\ UNCHANGED <<avail, used, serving, head, tokens, dev>>
    BY <1>7 DEF Reset
  <2>3. QED
    BY <2>1, <2>2, KeepsRingThread DEF After
<1>8. ASSUME NEW e \in Engines, Interrupt(e) PROVE RingInv'
  <2>1. UNCHANGED <<avail, used, serving, head, tokens, dev, loc>>
    BY <1>8 DEF Interrupt
  <2>2. CASE pc' = pc
    BY <2>1, <2>2, KeepsRing DEF Fresh, Removing
  <2>3. CASE Goto(Irq(e), "get")
    BY <2>1, <2>3, KeepsRingThread
  <2>4. QED
    BY <1>8, <2>2, <2>3 DEF Interrupt
<1>9. ASSUME NEW e \in Engines, GetBegin(e) PROVE RingInv'
  <2>1. /\ Goto(Irq(e), "getting")
        /\ UNCHANGED <<avail, used, serving, head, tokens, dev, loc>>
    BY <1>9, BeginEffect DEF GetBegin
  <2>2. QED
    BY <2>1, KeepsRingThread
<1>10. ASSUME NEW e \in Engines, GetEnd(e) PROVE RingInv'
  <2>1. CASE Goto(Irq(e), "idle") /\ UNCHANGED <<tokens, used, loc>>
    <3>1. UNCHANGED <<avail, used, serving, head, tokens, dev, loc>>
      BY <1>10, <2>1, GetEffect
    <3>2. QED
      BY <2>1, <3>1, KeepsRingThread
  <2>2. CASE ~(Goto(Irq(e), "idle") /\ UNCHANGED <<tokens, used, loc>>)
    <3>1. PICK k \in SlotIds :
            /\ k \in tokens[e] /\ k \in Elems(used[e])
            /\ used' = [used EXCEPT ![e] = Tail(used[e])]
            /\ Tail(used[e]) \in Seq(SlotIds) /\ Distinct(Tail(used[e]))
            /\ Elems(Tail(used[e])) = Elems(used[e]) \ {k}
            /\ tokens' = [tokens EXCEPT ![e] = tokens[e] \ {k}]
            /\ loc' = [loc EXCEPT ![Irq(e)] = <<e, k>>]
            /\ Goto(Irq(e), "clear")
      BY <1>10, <2>2, GetEffect
    <3>2. UNCHANGED <<devVars, avail>>
      BY <1>10, GetEffect
    <3>3. \A f \in Engines :
            /\ Elems(used'[f]) = IF f = e THEN Elems(used[e]) \ {k}
                                 ELSE Elems(used[f])
            /\ Distinct(used'[f])
      <4>1. /\ used \in [Engines -> Seq(SlotIds)]
            /\ \A f \in Engines : Distinct(used[f])
        BY DEF RingInv, OrderInv, RingType
      <4>2. \A f \in Engines :
              /\ Elems(used'[f]) = IF f = e THEN Elems(Tail(used[e]))
                                    ELSE Elems(used[f])
              /\ Distinct(used'[f])
        BY <3>1, <4>1, OneRing
      <4>3. QED
        BY <3>1, <4>2
    <3>4. OrderInv'
      BY <3>2, <3>3 DEF RingInv, OrderInv
    <3>5. \A f \in Engines, j \in SlotIds :
            Named(f, j)' => Named(f, j) /\ ~(f = e /\ j = k)
      <4>1. /\ k \notin Elems(avail[e])
            /\ ~(serving = e /\ head # NoHead /\ head.slot = k)
        BY <3>1 DEF RingInv, OrderInv
      <4>2. QED
        BY <3>2, <3>3, <4>1 DEF Named
    <3>6. NameInv'
      <4>1. Removing' <=> Removing
        BY <3>1 DEF Removing, ThreadType
      <4>2. \A f \in Engines, j \in SlotIds :
              j \in tokens'[f] <=> j \in tokens[f] /\ ~(f = e /\ j = k)
        BY <3>1 DEF RingType
      <4>3. QED
        BY <3>2, <3>5, <4>1, <4>2 DEF RingInv, NameInv
    <3>7. \A t \in Threads, f \in Engines, j \in SlotIds :
            Fresh(t, f, j)' => Fresh(t, f, j) \/ (f = e /\ j = k)
      BY <3>1 DEF Fresh, ThreadType
    <3>8. QED
      BY <3>4, <3>5, <3>6, <3>7 DEF RingInv, ReapInv
  <2>3. QED
    BY <2>1, <2>2
<1>11. ASSUME Probe PROVE RingInv'
  <2>1. \A e \in Engines : tokens[e] = {}
    BY <1>11 DEF Probe, LifeInv
  <2>2. tokens' = tokens
    BY <1>11, <2>1 DEF Probe, RingType
  <2>3. UNCHANGED <<avail, used, serving, head, dev, pc, loc>>
    BY <1>11 DEF Probe
  <2>4. QED
    BY <2>2, <2>3, KeepsRing DEF Fresh, Removing
<1>12. ASSUME Remove PROVE RingInv'
  <2>1. /\ Goto(Remover, "detach")
        /\ UNCHANGED <<avail, used, serving, head, tokens, dev, loc>>
    BY <1>12 DEF Remove
  <2>2. QED
    BY <2>1, KeepsRingThread
<1>13. ASSUME Detach PROVE RingInv'
  <2>1. UNCHANGED <<avail, used, serving, head, dev>>
    BY <1>13, DetachEffect
  <2>2. OrderInv'
    BY <2>1 DEF RingInv, OrderInv
  <2>3. NameInv'
    BY <1>13, DetachEffect DEF NameInv, Removing, ThreadType
  <2>4. \A t \in Threads, e \in Engines, k \in SlotIds :
          Fresh(t, e, k)' => Fresh(t, e, k)
    <3>1. (Goto(Remover, "del") /\ loc' = loc)
          \/ (Goto(Remover, "clear")
              /\ \E e \in Engines, k \in SlotIds :
                   loc' = [loc EXCEPT ![Remover] = <<e, k>>])
      BY <1>13, DetachEffect
    <3>2. QED
      BY <3>1 DEF Fresh, ThreadType
  <2>5. \A e \in Engines, k \in SlotIds : Named(e, k)' <=> Named(e, k)
    BY <2>1 DEF Named
  <2>6. QED
    BY <2>2, <2>3, <2>4, <2>5 DEF RingInv, ReapInv
<1>14. ASSUME DelVqs PROVE RingInv'
  <2>1. /\ Goto(Remover, "stop")
        /\ UNCHANGED <<avail, used, serving, head, tokens, dev, loc>>
    BY <1>14 DEF DelVqs
  <2>2. QED
    BY <2>1, KeepsRingThread
<1>15. ASSUME Stop PROVE RingInv'
  <2>1. /\ dev' = "off" /\ Goto(Remover, "idle")
        /\ UNCHANGED <<avail, used, serving, head, tokens, loc>>
    BY <1>15 DEF Stop
  <2>2. \A t \in Threads, e \in Engines, k \in SlotIds :
          Fresh(t, e, k)' => Fresh(t, e, k)
    BY <2>1 DEF Fresh, ThreadType
  <2>3. QED
    BY <2>1, <2>2, KeepsRing
<1>16. ASSUME Boot PROVE RingInv'
  <2>1. /\ serving = None /\ head = NoHead /\ UNCHANGED <<serving, head>>
        /\ \A e \in Engines : avail'[e] = <<>> /\ used'[e] = <<>>
    BY <1>16 DEF Boot, LifeInv
  <2>2. \A e \in Engines, k \in SlotIds : ~Named(e, k)'
    BY <2>1, EmptyElems DEF Named
  <2>3. OrderInv'
    BY <2>1, EmptyElems DEF OrderInv
  <2>4. QED
    BY <2>2, <2>3 DEF RingInv, NameInv, ReapInv
<1>17. ASSUME NEW e \in Engines, ServiceBegin(e) PROVE RingInv'
  <2>1. head = NoHead /\ UNCHANGED <<avail, used, head, tokens, dev, pc, loc>>
    BY <1>17 DEF ServiceBegin, LifeInv
  <2>2. OrderInv'
    BY <2>1 DEF RingInv, OrderInv
  <2>3. \A f \in Engines, j \in SlotIds : Named(f, j)' => Named(f, j)
    BY <2>1 DEF Named
  <2>4. QED
    BY <2>1, <2>2, <2>3, KeepsNames DEF RingInv
<1>18. ASSUME Pop PROVE RingInv'
  <2>1. /\ serving \in Engines /\ head = NoHead
        /\ UNCHANGED <<tokens, dev, serving, used, pc, loc>>
    BY <1>18, PopEffect
  <2>2. PICK k \in SlotIds :
          /\ k \in Elems(avail[serving])
          /\ avail' = [avail EXCEPT ![serving] = Tail(avail[serving])]
          /\ Tail(avail[serving]) \in Seq(SlotIds)
          /\ Distinct(Tail(avail[serving]))
          /\ Elems(Tail(avail[serving])) = Elems(avail[serving]) \ {k}
          /\ head'.slot = k
    BY <1>18, PopEffect
  <2>3. \A f \in Engines :
          /\ Elems(avail'[f]) = IF f = serving THEN Elems(avail[f]) \ {k}
                                ELSE Elems(avail[f])
          /\ Distinct(avail'[f])
    <3>1. /\ avail \in [Engines -> Seq(SlotIds)]
          /\ \A f \in Engines : Distinct(avail[f])
      BY DEF RingInv, OrderInv, RingType
    <3>2. \A f \in Engines :
            /\ Elems(avail'[f]) = IF f = serving
                                  THEN Elems(Tail(avail[serving]))
                                  ELSE Elems(avail[f])
            /\ Distinct(avail'[f])
      BY <2>1, <2>2, <3>1, OneRing
    <3>3. QED
      BY <2>1, <2>2, <3>2
  <2>4. OrderInv'
    BY <2>1, <2>2, <2>3 DEF RingInv, OrderInv
  <2>5. \A f \in Engines, j \in SlotIds : Named(f, j)' => Named(f, j)
    BY <2>1, <2>2, <2>3 DEF Named
  <2>6. QED
    BY <2>1, <2>4, <2>5, KeepsNames DEF RingInv
<1>19. ASSUME Answer PROVE RingInv'
  <2>1. CASE head.answered
    <3>1. /\ serving \in Engines /\ head # NoHead /\ head' = NoHead
          /\ used' = [used EXCEPT ![serving] = Append(used[serving], head.slot)]
          /\ Append(used[serving], head.slot) \in Seq(SlotIds)
          /\ Elems(Append(used[serving], head.slot))
               = Elems(used[serving]) \cup {head.slot}
          /\ Distinct(Append(used[serving], head.slot))
          /\ UNCHANGED <<tokens, dev, serving, avail, pc, loc>>
      BY <1>19, <2>1, PushEffect
    <3>2. \A f \in Engines :
            /\ Elems(used'[f]) = IF f = serving
                                 THEN Elems(used[f]) \cup {head.slot}
                                 ELSE Elems(used[f])
            /\ Distinct(used'[f])
      <4>1. /\ used \in [Engines -> Seq(SlotIds)]
            /\ \A f \in Engines : Distinct(used[f])
        BY DEF RingInv, OrderInv, RingType
      <4>2. \A f \in Engines :
              /\ Elems(used'[f]) = IF f = serving
                                   THEN Elems(Append(used[serving], head.slot))
                                    ELSE Elems(used[f])
              /\ Distinct(used'[f])
        BY <3>1, <4>1, OneRing
      <4>3. QED
        BY <3>1, <4>2
    <3>3. OrderInv'
      BY <3>1, <3>2 DEF RingInv, OrderInv
    <3>4. \A f \in Engines, j \in SlotIds : Named(f, j)' => Named(f, j)
      BY <3>1, <3>2 DEF Named
    <3>5. QED
      BY <3>1, <3>3, <3>4, KeepsNames DEF RingInv
  <2>2. CASE ~head.answered
    <3>1. /\ head # NoHead /\ head' = [head EXCEPT !.answered = TRUE]
          /\ dev # "off" /\ UNCHANGED <<avail, used, tokens, serving, pc, loc>>
      BY <1>19, <2>2 DEF Answer, LifeInv, Serves
    <3>2. head'.slot = head.slot
      BY <3>1 DEF DeviceType
    <3>3. OrderInv'
      BY <3>1, <3>2 DEF RingInv, OrderInv
    <3>4. \A f \in Engines, j \in SlotIds : Named(f, j)' => Named(f, j)
      BY <3>1, <3>2 DEF Named
    <3>5. QED
      BY <3>1, <3>3, <3>4, KeepsNames DEF RingInv
  <2>3. QED
    BY <2>1, <2>2
<1>20. ASSUME ServiceEnd PROVE RingInv'
  <2>1. head = NoHead /\ UNCHANGED <<avail, used, head, tokens, dev, pc, loc>>
    BY <1>20 DEF ServiceEnd
  <2>2. OrderInv'
    BY <2>1 DEF RingInv, OrderInv
  <2>3. \A f \in Engines, j \in SlotIds : Named(f, j)' => Named(f, j)
    BY <2>1 DEF Named
  <2>4. QED
    BY <2>1, <2>2, <2>3, KeepsNames DEF RingInv
<1>21. ASSUME Abort PROVE RingInv'
  <2>1. /\ serving # None /\ head' = NoHead
        /\ UNCHANGED <<avail, used, tokens, pc, loc>>
    BY <1>21 DEF Abort
  <2>2. OrderInv'
    BY <2>1 DEF RingInv, OrderInv
  <2>3. \A f \in Engines, j \in SlotIds : Named(f, j)' => Named(f, j)
    BY <2>1 DEF Named
  <2>4. QED
    BY <2>1, <2>2, <2>3, KeepsNames DEF RingInv, LifeInv
<1>22. ASSUME Crash PROVE RingInv'
  BY <1>22, KeepsRing DEF Crash, Serves, Fresh, Removing
<1>23. ASSUME UNCHANGED vars PROVE RingInv'
  BY <1>23, KeepsRing DEF Fresh, Removing
<1>24. QED
  BY StepCases, <1>1, <1>2, <1>3, <1>4, <1>5, <1>6, <1>7, <1>8, <1>9, <1>10,
     <1>11, <1>12, <1>13, <1>14, <1>15, <1>16, <1>17, <1>18, <1>19, <1>20,
     <1>21, <1>22, <1>23

\* Every step keeps the answers where they belong.
LEMMA AnswerStep ==
  ASSUME IInv, ~Misused, ~Misused', [Next]_vars
  PROVE  AnswerInv'
<1>0. RingType /\ DeviceType /\ ThreadType /\ OwnInv /\ SlotInv /\ LifeInv /\
      RingInv /\ AnswerInv
  BY Parts
<1> USE <1>0, Facts, MisuseEnds DEF drvVars, vqVars, devVars, vars, Goto
<1>1. ASSUME NEW p \in Submitters, NEW e \in Engines, Copy(p, e)
      PROVE  AnswerInv'
  <2>1. PICK k \in SlotIds : loc' = [loc EXCEPT ![p] = <<e, k>>]
    BY <1>1 DEF Copy
  <2>2. /\ Goto(p, "init") /\ UNCHANGED <<mem, used, serving, head, tokens>>
    BY <1>1 DEF Copy
  <2>3. \A f \in Engines, j \in SlotIds : Reaped(f, j)' => Reaped(f, j)
    BY <2>1, <2>2 DEF Reaped, ThreadType
  <2>4. QED
    BY <2>2, <2>3, KeepsAnswer
<1>2. ASSUME NEW p \in Submitters, Fill(p) PROVE AnswerInv'
  <2>1. PICK e \in Engines, k \in SlotIds :
          /\ loc[p] = <<e, k>> /\ pc[p] = "init"
          /\ \A f \in Engines, j \in SlotIds :
               ~(f = e /\ j = k) => mem'[f][j] = mem[f][j]
    BY <1>2, FillEffect
  <2>2. Goto(p, "add") /\ UNCHANGED <<used, serving, head, tokens, loc>>
    BY <1>2 DEF Fill
  <2>3. \A f \in Engines, j \in SlotIds : Reaped(f, j)' => Reaped(f, j)
    BY <2>2 DEF Reaped, ThreadType
  <2>4. k \notin tokens[e] /\ ~Holds(Irq(e), e, k)
    BY <2>1 DEF OwnInv, Holds
  <2>5. ~Reaped(e, k)'
    BY <2>3, <2>4 DEF Reaped, Holds
  <2>6. QED
    BY <2>1, <2>2, <2>3, <2>4, <2>5, KeepsAnswerWrite
<1>3. ASSUME NEW p \in Submitters, AddBegin(p) PROVE AnswerInv'
  <2>1. p \in Threads /\ loc[p][1] \in Engines
    BY <1>3, Where DEF AddBegin
  <2>2. Goto(p, "adding") /\ UNCHANGED <<mem, used, serving, head, tokens, loc>>
    BY <1>3, <2>1, BeginEffect
  <2>3. QED
    BY <2>2, KeepsAnswerThread
<1>4. ASSUME NEW p \in Submitters, AddOk(p) PROVE AnswerInv'
  <2>1. PICK e \in Engines, k \in SlotIds :
          /\ loc[p] = <<e, k>> /\ pc[p] = "adding" /\ Goto(p, "kick")
          /\ tokens' = [tokens EXCEPT ![e] = tokens[e] \cup {k}]
          /\ UNCHANGED <<mem, used, serving, head, loc>>
    BY <1>4, AddEffect
  <2>2. ~Named(e, k)
    BY <2>1 DEF RingInv, ReapInv, Fresh
  <2>3. \A f \in Engines, j \in SlotIds :
          j \in tokens'[f] => j \in tokens[f] \/ (f = e /\ j = k)
    BY <2>1 DEF RingType
  <2>4. \A f \in Engines, j \in SlotIds : Reaped(f, j)' => Reaped(f, j)
    BY <2>1 DEF Reaped, ThreadType
  <2>5. \A f \in Engines, j \in SlotIds : Works(f, j)' <=> Works(f, j)
    BY <2>1 DEF Works
  <2>6. k \notin Elems(used[e]) /\ ~Works(e, k)
    BY <2>2 DEF Named, Works
  <2>7. QED
    BY <2>1, <2>3, <2>4, <2>5, <2>6 DEF AnswerInv
<1>5. ASSUME NEW p \in Submitters, AddFails(p) PROVE AnswerInv'
  <2>1. Goto(p, "clear") /\ UNCHANGED <<mem, used, serving, head, tokens, loc>>
    BY <1>5 DEF AddFails
  <2>2. QED
    BY <2>1, ThreadAssumption, KeepsAnswerThread
<1>6. ASSUME NEW p \in Submitters, Kick(p) PROVE AnswerInv'
  <2>1. Goto(p, "idle") /\ UNCHANGED <<mem, used, serving, head, tokens, loc>>
    BY <1>6 DEF Kick
  <2>2. QED
    BY <2>1, KeepsAnswerThread
<1>7. ASSUME NEW t \in Threads, Reset(t, After(t)) PROVE AnswerInv'
  <2>1. CASE pc[t] = "clear"
    <3>1. PICK e \in Engines, k \in SlotIds :
            /\ loc[t] = <<e, k>> /\ loc' = loc
            /\ \A f \in Engines, j \in SlotIds :
                 mem'[f][j] = IF f = e /\ j = k THEN Cleared ELSE mem[f][j]
      BY <1>7, <2>1, ClearEffect
    <3>2. Goto(t, "free") /\ UNCHANGED <<used, serving, head, tokens>>
      BY <1>7, <2>1 DEF Reset
    <3>3. Holds(t, e, k)
      BY <2>1, <3>1 DEF Holds
    <3>4. k \notin tokens[e] /\ \A u \in Threads : Holds(u, e, k) => u = t
      BY <3>3 DEF OwnInv
    <3>5. \A f \in Engines, j \in SlotIds :
            Reaped(f, j)' => Reaped(f, j) /\ Irq(f) # t
      BY <3>1, <3>2 DEF Reaped, ThreadType
    <3>6. ~Reaped(e, k)'
      BY <3>4, <3>5 DEF Reaped, Holds
    <3>7. QED
      BY <3>1, <3>2, <3>4, <3>5, <3>6, KeepsAnswerWrite
  <2>2. CASE pc[t] = "free"
    <3>1. /\ Goto(t, After(t))
          /\ UNCHANGED <<mem, used, serving, head, tokens, loc>>
      BY <1>7, <2>2 DEF Reset
    <3>2. After(t) # "clear"
      BY DEF After
    <3>3. QED
      BY <3>1, <3>2, KeepsAnswerThread
  <2>3. QED
    BY <1>7, <2>1, <2>2 DEF Reset
<1>8. ASSUME NEW e \in Engines, Interrupt(e) PROVE AnswerInv'
  <2>1. UNCHANGED <<mem, used, serving, head, tokens, loc>>
    BY <1>8 DEF Interrupt
  <2>2. CASE pc' = pc
    BY <2>1, <2>2, KeepsAnswer DEF Reaped
  <2>3. CASE Goto(Irq(e), "get")
    BY <2>1, <2>3, KeepsAnswerThread
  <2>4. QED
    BY <1>8, <2>2, <2>3 DEF Interrupt
<1>9. ASSUME NEW e \in Engines, GetBegin(e) PROVE AnswerInv'
  <2>1. /\ Goto(Irq(e), "getting")
        /\ UNCHANGED <<mem, used, serving, head, tokens, loc>>
    BY <1>9, BeginEffect DEF GetBegin
  <2>2. QED
    BY <2>1, KeepsAnswerThread
<1>10. ASSUME NEW e \in Engines, GetEnd(e) PROVE AnswerInv'
  <2>1. UNCHANGED <<mem, serving, head>>
    BY <1>10, GetEffect
  <2>2. CASE Goto(Irq(e), "idle") /\ UNCHANGED <<tokens, used, loc>>
    BY <2>1, <2>2, KeepsAnswerThread
  <2>3. CASE ~(Goto(Irq(e), "idle") /\ UNCHANGED <<tokens, used, loc>>)
    <3>1. PICK k \in SlotIds :
            /\ k \in tokens[e] /\ k \in Elems(used[e])
            /\ used' = [used EXCEPT ![e] = Tail(used[e])]
            /\ Tail(used[e]) \in Seq(SlotIds)
            /\ Elems(Tail(used[e])) = Elems(used[e]) \ {k}
            /\ tokens' = [tokens EXCEPT ![e] = tokens[e] \ {k}]
            /\ loc' = [loc EXCEPT ![Irq(e)] = <<e, k>>]
            /\ Goto(Irq(e), "clear")
      BY <1>10, <2>3, GetEffect
    <3>2. \A f \in Engines, j \in SlotIds :
            /\ j \in tokens'[f] => j \in tokens[f]
            /\ Reaped(f, j)' => Reaped(f, j) \/ (f = e /\ j = k)
      BY <3>1 DEF RingType, Reaped, ThreadType
    <3>3. \A f \in Engines, j \in SlotIds :
            j \in Elems(used'[f]) => j \in Elems(used[f])
      <4>1. /\ used'[e] = Tail(used[e])
            /\ \A f \in Engines : f # e => used'[f] = used[f]
        BY <3>1, Override DEF RingType
      <4>2. ASSUME NEW f \in Engines, NEW j \in SlotIds, j \in Elems(used'[f])
            PROVE  j \in Elems(used[f])
        <5>1. CASE f = e
          BY <3>1, <4>1, <4>2, <5>1
        <5>2. CASE f # e
          BY <4>1, <4>2, <5>2
        <5>3. QED
          BY <5>1, <5>2
      <4>3. QED
        BY <4>2
    <3>4. \A f \in Engines, j \in SlotIds : Works(f, j)' <=> Works(f, j)
      BY <2>1 DEF Works
    <3>5. mem[e][k].ans = mem[e][k].seq
      BY <3>1 DEF AnswerInv
    <3>6. QED
      BY <2>1, <3>2, <3>3, <3>4, <3>5 DEF AnswerInv
  <2>4. QED
    BY <2>2, <2>3
<1>11. ASSUME Probe PROVE AnswerInv'
  BY <1>11, KeepsAnswer DEF Probe, Reaped
<1>12. ASSUME Remove PROVE AnswerInv'
  <2>1. /\ Goto(Remover, "detach")
        /\ UNCHANGED <<mem, used, serving, head, tokens, loc>>
    BY <1>12 DEF Remove
  <2>2. QED
    BY <2>1, KeepsAnswerThread
<1>13. ASSUME Detach PROVE AnswerInv'
  <2>1. UNCHANGED <<mem, used, serving, head>>
    BY <1>13, DetachEffect
  <2>2. \A f \in Engines, j \in SlotIds : j \in tokens'[f] => j \in tokens[f]
    BY <1>13, DetachEffect, ZenonT(60) DEF RingType
  <2>3. /\ pc' = [pc EXCEPT ![Remover] = pc'[Remover]]
        /\ \A t \in Threads : t # Remover => loc'[t] = loc[t]
    BY <1>13, DetachEffect DEF ThreadType
  <2>4. \A f \in Engines, j \in SlotIds : Reaped(f, j)' => Reaped(f, j)
    BY <2>3 DEF Reaped, ThreadType
  <2>5. QED
    BY <2>1, <2>2, <2>4, KeepsAnswer
<1>14. ASSUME DelVqs PROVE AnswerInv'
  <2>1. /\ Goto(Remover, "stop")
        /\ UNCHANGED <<mem, used, serving, head, tokens, loc>>
    BY <1>14 DEF DelVqs
  <2>2. QED
    BY <2>1, KeepsAnswerThread
<1>15. ASSUME Stop PROVE AnswerInv'
  <2>1. /\ Goto(Remover, "idle")
        /\ UNCHANGED <<mem, used, serving, head, tokens, loc>>
    BY <1>15 DEF Stop
  <2>2. QED
    BY <2>1, KeepsAnswerThread
<1>16. ASSUME Boot PROVE AnswerInv'
  <2>1. /\ head = NoHead /\ \A e \in Engines : used'[e] = <<>>
        /\ UNCHANGED <<mem, head, pc, loc>>
    BY <1>16 DEF Boot, LifeInv
  <2>2. QED
    BY <2>1, EmptyElems DEF AnswerInv, Works, Reaped
<1>17. ASSUME NEW e \in Engines, ServiceBegin(e) PROVE AnswerInv'
  <2>1. head = NoHead /\ UNCHANGED <<mem, used, head, tokens, pc, loc>>
    BY <1>17 DEF ServiceBegin, LifeInv
  <2>2. \A f \in Engines, j \in SlotIds :
          ~Works(f, j)' /\ (Reaped(f, j)' <=> Reaped(f, j))
    BY <2>1 DEF Works, Reaped
  <2>3. QED
    BY <2>1, <2>2 DEF AnswerInv
<1>18. ASSUME Pop PROVE AnswerInv'
  <2>1. /\ serving \in Engines
        /\ UNCHANGED <<mem, tokens, serving, used, pc, loc>>
        /\ head'.seq = mem[serving][head'.slot].seq /\ head'.answered = FALSE
    BY <1>18, PopEffect
  <2>2. \A f \in Engines, j \in SlotIds :
          /\ Reaped(f, j)' <=> Reaped(f, j)
          /\ Works(f, j)' => f = serving /\ j = head'.slot
    BY <2>1 DEF Works, Reaped
  <2>3. QED
    BY <2>1, <2>2 DEF AnswerInv
<1>19. ASSUME Answer PROVE AnswerInv'
  <2>1. UNCHANGED <<tokens, serving, pc, loc>>
    BY <1>19 DEF Answer
  <2>2. \A f \in Engines, j \in SlotIds : Reaped(f, j)' <=> Reaped(f, j)
    BY <2>1 DEF Reaped
  <2>3. CASE head.answered
    <3>1. /\ serving \in Engines /\ head # NoHead /\ head.slot \in SlotIds
          /\ head' = NoHead /\ mem' = mem
          /\ used' = [used EXCEPT ![serving] = Append(used[serving], head.slot)]
          /\ Append(used[serving], head.slot) \in Seq(SlotIds)
          /\ Elems(Append(used[serving], head.slot))
               = Elems(used[serving]) \cup {head.slot}
      BY <1>19, <2>3, PushEffect
    <3>2. \A f \in Engines, j \in SlotIds :
            j \in Elems(used'[f]) => j \in Elems(used[f]) \/ Works(f, j)
      <4>1. /\ used'[serving] = Append(used[serving], head.slot)
            /\ \A f \in Engines : f # serving => used'[f] = used[f]
        BY <3>1, Override DEF RingType
      <4>2. ASSUME NEW f \in Engines, NEW j \in SlotIds, j \in Elems(used'[f])
            PROVE  j \in Elems(used[f]) \/ Works(f, j)
        <5>1. CASE f = serving
          BY <3>1, <4>1, <4>2, <5>1 DEF Works
        <5>2. CASE f # serving
          BY <4>1, <4>2, <5>2
        <5>3. QED
          BY <5>1, <5>2
      <4>3. QED
        BY <4>2
    <3>3. \A f \in Engines, j \in SlotIds : ~Works(f, j)'
      BY <3>1 DEF Works
    <3>4. QED
      BY <2>1, <2>2, <2>3, <3>1, <3>2, <3>3 DEF AnswerInv
  <2>4. CASE ~head.answered
    <3>1. PICK r \in Contents :
            /\ serving \in Engines /\ head.slot \in SlotIds
            /\ r.seq = mem[serving][head.slot].seq /\ r.ans = head.seq
            /\ \A f \in Engines, j \in SlotIds :
                 mem'[f][j] = IF f = serving /\ j = head.slot
                              THEN r ELSE mem[f][j]
      BY <1>19, <2>4, AnswerEffect
    <3>2. /\ head # NoHead /\ used' = used
          /\ head' = [head EXCEPT !.answered = TRUE]
      BY <1>19, <2>4 DEF Answer
    <3>3. head'.slot = head.slot /\ head'.seq = head.seq
      BY <3>2 DEF DeviceType
    <3>4. \A f \in Engines, j \in SlotIds :
            /\ Works(f, j)' => f = serving /\ j = head.slot
            /\ f = serving /\ j = head.slot => Works(f, j)
      BY <2>1, <3>2, <3>3 DEF Works
    <3>5. \A f \in Engines, j \in SlotIds : Reaped(f, j) => ~Works(f, j)
      BY DEF Reaped, Works, Named, Fresh, RingInv, ReapInv
    <3>6. \A f \in Engines, j \in SlotIds :
            j \in Elems(used[f]) => ~Works(f, j)
      BY DEF Works, RingInv, OrderInv
    <3>7. ASSUME NEW f \in Engines, NEW j \in SlotIds,
                 ~(f = serving /\ j = head.slot)
          PROVE  mem'[f][j] = mem[f][j] /\ ~Works(f, j)'
      BY <3>1, <3>4, <3>7
    <3>8. ASSUME NEW j \in tokens[serving], j = head.slot
          PROVE  /\ mem'[serving][j].seq = head.seq
                 /\ mem'[serving][j].ans = head.seq
      BY <3>1, <3>4, <3>8 DEF AnswerInv
    <3>9. ASSUME NEW f \in Engines, NEW j \in SlotIds
          PROVE  /\ j \in tokens'[f] /\ j \in Elems(used'[f]) =>
                      mem'[f][j].ans = mem'[f][j].seq
                 /\ j \in tokens'[f] /\ Works(f, j)' =>
                      /\ mem'[f][j].seq = head'.seq
                      /\ head'.answered => mem'[f][j].ans = head'.seq
                 /\ Reaped(f, j)' => mem'[f][j].ans = mem'[f][j].seq
      <4>1. CASE f = serving /\ j = head.slot
        BY <2>1, <2>2, <3>2, <3>3, <3>4, <3>5, <3>6, <3>8, <4>1
      <4>2. CASE ~(f = serving /\ j = head.slot)
        BY <2>1, <2>2, <3>2, <3>7, <4>2 DEF AnswerInv
      <4>3. QED
        BY <4>1, <4>2
    <3>10. QED
      BY <3>9 DEF AnswerInv
  <2>5. QED
    BY <2>3, <2>4
<1>20. ASSUME ServiceEnd PROVE AnswerInv'
  <2>1. head = NoHead /\ UNCHANGED <<mem, used, head, tokens, pc, loc>>
    BY <1>20 DEF ServiceEnd
  <2>2. \A f \in Engines, j \in SlotIds :
          ~Works(f, j)' /\ (Reaped(f, j)' <=> Reaped(f, j))
    BY <2>1 DEF Works, Reaped
  <2>3. QED
    BY <2>1, <2>2 DEF AnswerInv
<1>21. ASSUME Abort PROVE AnswerInv'
  <2>1. head' = NoHead /\ UNCHANGED <<mem, used, tokens, pc, loc>>
    BY <1>21 DEF Abort
  <2>2. \A f \in Engines, j \in SlotIds :
          ~Works(f, j)' /\ (Reaped(f, j)' <=> Reaped(f, j))
    BY <2>1 DEF Works, Reaped
  <2>3. QED
    BY <2>1, <2>2 DEF AnswerInv
<1>22. ASSUME Crash PROVE AnswerInv'
  BY <1>22, KeepsAnswer DEF Crash, Serves, Reaped
<1>23. ASSUME UNCHANGED vars PROVE AnswerInv'
  BY <1>23, KeepsAnswer DEF Reaped
<1>24. QED
  BY StepCases, <1>1, <1>2, <1>3, <1>4, <1>5, <1>6, <1>7, <1>8, <1>9, <1>10,
     <1>11, <1>12, <1>13, <1>14, <1>15, <1>16, <1>17, <1>18, <1>19, <1>20,
     <1>21, <1>22, <1>23
-----------------------------------------------------------------------------
\* At the start nobody holds a slot and the rings are empty.
LEMMA InitInv == Init => IInv
<1> SUFFICES ASSUME Init PROVE IInv
  OBVIOUS
<1> USE Facts, BoundAssumption DEF Init
<1>1. DriverType
  BY DEF DriverType, Cleared, None
<1>2. RingType /\ DeviceType /\ ThreadType
  <2>1. <<>> \in Seq(SlotIds)
    OBVIOUS
  <2>2. /\ avail \in [Engines -> Seq(SlotIds)]
        /\ used \in [Engines -> Seq(SlotIds)]
    BY <2>1
  <2>3. QED
    BY <2>2 DEF RingType, DeviceType, ThreadType
<1>3. ~Misused /\ EndInv
  BY DEF Misused, EndInv
<1>4. OwnInv /\ SlotInv /\ FillInv /\ RoleInv /\ LifeInv
  BY DEF OwnInv, Holds, SlotInv, FillInv, Carries, RoleInv, LifeInv
<1>5. \A e \in Engines : avail[e] = <<>> /\ used[e] = <<>>
  OBVIOUS
<1>6. RingInv /\ AnswerInv
  BY <1>5, EmptyElems DEF RingInv, OrderInv, NameInv, ReapInv, Named, Fresh,
     AnswerInv, Works, Reaped
<1>7. QED
  BY <1>1, <1>2, <1>3, <1>4, <1>6 DEF IInv, TypeOK, GoodInv

\* The invariant is inductive: a behaviour that goes on keeps every part of it, one
\* that ends keeps its types, and one that has ended stays.
LEMMA StepInv == IInv /\ [Next]_vars => IInv'
<1> SUFFICES ASSUME IInv, [Next]_vars PROVE IInv'
  OBVIOUS
<1>1. CASE Misused
  <2>1. UNCHANGED vars
    BY <1>1, EndIsFinal DEF IInv
  <2>2. TypeOK' /\ EndInv' /\ Misused'
    BY <1>1, <2>1
       DEF IInv, TypeOK, DriverType, RingType, DeviceType, ThreadType, EndInv,
           Misused, vars, drvVars, vqVars, devVars
  <2>3. QED
    BY <2>2 DEF IInv
<1>2. CASE ~Misused /\ Misused'
  BY <1>2, EndIsMisuse, MisuseStep DEF IInv
<1>3. CASE ~Misused /\ ~Misused'
  <2>1. TypeOK'
    BY <1>3, DriverTypeStep, RingTypeStep, DeviceTypeStep, ThreadTypeStep
       DEF TypeOK
  <2>2. GoodInv'
    BY <1>3, OwnStep, SlotStep, FillStep, RoleStep, LifeStep, RingStep,
       AnswerStep
       DEF GoodInv
  <2>3. QED
    BY <1>3, <2>1, <2>2 DEF IInv, EndInv
<1>4. QED
  BY <1>1, <1>2, <1>3

\* The invariant holds in every behaviour.
LEMMA Invariance == Spec => []IInv
BY InitInv, StepInv, PTL DEF Spec

\* Every variable keeps its type, for any number of threads, engines and slots.
THEOREM TypeCorrect == Spec => []TypeOK
<1>1. IInv => TypeOK
  BY DEF IInv
<1>2. QED
  BY <1>1, Invariance, PTL

\* Every slot handed out has one holder, a thread or the virtqueue, and a slot that
\* nobody holds is free: completion, failed submission and removal between them give
\* each slot back once (velocitor_data_transaction_reset() and its callers).
THEOREM SlotsAreOwned == Spec => []SlotsOwned
<1>1. ASSUME IInv, ~Misused, NEW e \in Engines, NEW k \in SlotIds
      PROVE  Cardinality(Holders(e, k)) = IF k \in ida[e] THEN 1 ELSE 0
  <2> DEFINE T == {t \in Threads : Holds(t, e, k)}
             V == IF k \in tokens[e] THEN {<<"vq", e>>} ELSE {}
  <2>1. Holders(e, k) = T \cup V
    BY DEF Holders, Holds
  <2>2. OwnInv
    BY <1>1, Parts
  <2>3. CASE k \in tokens[e]
    <3>1. T = {} /\ k \in ida[e]
      BY <2>2, <2>3 DEF OwnInv
    <3>2. Holders(e, k) = {<<"vq", e>>}
      BY <2>1, <2>3, <3>1
    <3>3. QED
      BY <3>1, <3>2, FS_Singleton
  <2>4. CASE k \notin tokens[e] /\ k \in ida[e]
    <3>1. PICK t \in Threads : Holds(t, e, k)
      BY <2>2, <2>4 DEF OwnInv
    <3>2. T = {t}
      BY <2>2, <3>1 DEF OwnInv
    <3>3. Holders(e, k) = {t}
      BY <2>1, <2>4, <3>2
    <3>4. QED
      BY <2>4, <3>3, FS_Singleton
  <2>5. CASE k \notin tokens[e] /\ k \notin ida[e]
    <3>1. T = {}
      BY <2>2, <2>5 DEF OwnInv
    <3>2. Holders(e, k) = {}
      BY <2>1, <2>5, <3>1
    <3>3. QED
      BY <2>5, <3>2, FS_EmptySet
  <2>6. QED
    BY <2>3, <2>4, <2>5
<1>2. IInv => SlotsOwned
  BY <1>1, Facts DEF SlotsOwned
<1>3. QED
  BY <1>2, Invariance, PTL

\* A buffer that the callback reaps carries the answer to its own request, however
\* crashes, removals and other submissions interleave with the engines
\* (velocitor_data_virtio_callback(), velocitor_engine_drain()).
THEOREM AnswersAreOwn == Spec => []OwnAnswer
<1>1. ASSUME IInv, NEW e \in Engines, pc[Irq(e)] = "clear"
      PROVE  LET m == mem[loc[Irq(e)][1]][loc[Irq(e)][2]] IN m.ans = m.seq
  <2>1. ~Misused
    BY <1>1, Facts DEF IInv, EndInv
  <2>2. PICK f \in Engines, k \in SlotIds : loc[Irq(e)] = <<f, k>>
    BY <1>1, <2>1, Facts, Where
  <2>3. f = e
    BY <1>1, <2>1, <2>2, Parts DEF RoleInv
  <2>4. mem[e][k].ans = mem[e][k].seq
    BY <1>1, <2>1, <2>2, <2>3, Parts DEF AnswerInv, Reaped
  <2>5. QED
    BY <2>2, <2>3, <2>4
<1>2. IInv => OwnAnswer
  BY <1>1 DEF OwnAnswer
<1>3. QED
  BY <1>2, Invariance, PTL
=============================================================================
