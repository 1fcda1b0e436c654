------------------------ MODULE DriverLifetimeProofs ------------------------
(***************************************************************************)
(* The order in which a card's resources come and go protects whatever     *)
(* runs on them, for any number of applications and bindings.              *)
(***************************************************************************)
EXTENDS DriverLifetime, FiniteSetTheorems, TLAPS

\* The numbers of the steps that the argument turns on.
DirAt   == 2    \* "debugfs"
IrqAt   == 12   \* "irq"
RprocAt == 18   \* "rproc"
NodeAt  == 21   \* "node", the last

\* How far the probe or the release has come.
CardInv ==
  /\ phase = "unbound" <=> held = 0
  /\ phase = "bound" => held = NodeAt
  /\ phase = "probing" => held < NodeAt

\* Nobody is inside what is not there: each kind of activity has a step that lets
\* it in, and that step is undone only after it has left.
UseInv ==
  /\ \A v \in Vectors : handler[v] # "idle" => held >= IrqAt
  /\ shows => held >= NodeAt
  /\ dir = "live" \/ files # {} \/ user # "none" => held >= DirAt
  /\ fw # "off" => held >= RprocAt

AllLayers == {"root", "class", "rpmsg", "virtio", "pci"}

\* The first n registrations.
FirstLayers(n) == {Layers[i] : i \in 1 .. n}

\* The PCI driver is registered last and unregistered first, and a card is bound
\* only while it is registered.
ModInv ==
  /\ loading => todo = <<>> /\ \E n \in 0 .. 4 : mod = FirstLayers(n)
  /\ "pci" \in mod => mod = AllLayers /\ ~loading
  /\ "pci" \in mod /\ todo # <<>> => Head(todo) = "pci"
  /\ phase # "unbound" => "pci" \in mod

IInv == TypeOK /\ CardInv /\ UseInv /\ ModInv

-----------------------------------------------------------------------------
\* The steps of the probe, by number.
LEMMA StepNumbers ==
  /\ Len(Steps) = NodeAt /\ DOMAIN Steps = 1 .. NodeAt
  /\ Steps[1] = "device" /\ Steps[2] = "debugfs" /\ Steps[3] = "enable"
  /\ Steps[4] = "bar0" /\ Steps[5] = "bar2" /\ Steps[6] = "identity"
  /\ Steps[7] = "counters" /\ Steps[8] = "window" /\ Steps[9] = "pool"
  /\ Steps[10] = "vring" /\ Steps[11] = "vectors" /\ Steps[12] = "irq"
  /\ Steps[13] = "ctrl" /\ Steps[14] = "data" /\ Steps[15] = "dtrace"
  /\ Steps[16] = "handle" /\ Steps[17] = "rsc" /\ Steps[18] = "rproc"
  /\ Steps[19] = "region" /\ Steps[20] = "cdev" /\ Steps[21] = "node"
<1> USE DEF Steps, BarSteps, IrqSteps, RprocSteps, CdevSteps, NodeAt
<1>1. Len(Steps) = NodeAt /\ DOMAIN Steps = 1 .. NodeAt
  OBVIOUS
<1>2. /\ Steps[1] = "device" /\ Steps[2] = "debugfs" /\ Steps[3] = "enable"
      /\ Steps[4] = "bar0" /\ Steps[5] = "bar2" /\ Steps[6] = "identity"
      /\ Steps[7] = "counters" /\ Steps[8] = "window" /\ Steps[9] = "pool"
  OBVIOUS
<1>3. /\ Steps[10] = "vring" /\ Steps[11] = "vectors" /\ Steps[12] = "irq"
      /\ Steps[13] = "ctrl" /\ Steps[14] = "data" /\ Steps[15] = "dtrace"
  OBVIOUS
<1>4. /\ Steps[16] = "handle" /\ Steps[17] = "rsc" /\ Steps[18] = "rproc"
      /\ Steps[19] = "region" /\ Steps[20] = "cdev" /\ Steps[21] = "node"
  OBVIOUS
<1>5. QED
  BY <1>1, <1>2, <1>3, <1>4

\* Where the steps that matter are.
LEMMA StepPlaces ==
  \A i \in 1 .. NodeAt : /\ Steps[i] = "debugfs" <=> i = DirAt
                         /\ Steps[i] = "irq" <=> i = IrqAt
                         /\ Steps[i] = "rproc" <=> i = RprocAt
                         /\ Steps[i] = "node" <=> i = NodeAt
BY StepNumbers DEF DirAt, IrqAt, RprocAt, NodeAt

\* What a card that has come so far holds.
LEMMA HasStep ==
  ASSUME held \in 0 .. NodeAt
  PROVE  /\ Has("irq") => held >= IrqAt
         /\ Has("rproc") => held >= RprocAt
         /\ Has("node") => held >= NodeAt
BY StepPlaces DEF Has, IrqAt, RprocAt, NodeAt

\* How many registrations the first n are.
LEMMA LayerCount ==
  /\ FirstLayers(0) = {} /\ FirstLayers(5) = AllLayers
  /\ \A n \in 0 .. 4 : /\ FirstLayers(n + 1) = FirstLayers(n) \cup {Layers[n + 1]}
                       /\ IsFiniteSet(FirstLayers(n))
                       /\ Cardinality(FirstLayers(n)) = n
                       /\ "pci" \notin FirstLayers(n)
  /\ Elems(Layers) = AllLayers /\ Len(Layers) = 5
<1> USE DEF Layers, AllLayers, FirstLayers
<1>1. Elems(Layers) = AllLayers /\ Len(Layers) = 5
  BY DEF Elems
<1>2. \A n \in 0 .. 4 : FirstLayers(n + 1) = FirstLayers(n) \cup {Layers[n + 1]}
  OBVIOUS
<1>3. /\ FirstLayers(0) = {} /\ FirstLayers(1) = {"root"}
      /\ FirstLayers(2) = {"root", "class"}
      /\ FirstLayers(3) = {"root", "class", "rpmsg"}
      /\ FirstLayers(4) = {"root", "class", "rpmsg", "virtio"}
      /\ FirstLayers(5) = AllLayers
  OBVIOUS
<1> HIDE DEF FirstLayers
<1>4. \A n \in 0 .. 3 : Layers[n + 1] \notin FirstLayers(n)
  BY <1>3
<1>5. IsFiniteSet(FirstLayers(0)) /\ Cardinality(FirstLayers(0)) = 0
  BY <1>3, FS_EmptySet
<1> HIDE DEF Layers
<1>6. ASSUME NEW n \in 0 .. 3, IsFiniteSet(FirstLayers(n)),
             Cardinality(FirstLayers(n)) = n
      PROVE  /\ IsFiniteSet(FirstLayers(n + 1))
             /\ Cardinality(FirstLayers(n + 1)) = n + 1
  <2>1. /\ FirstLayers(n + 1) = FirstLayers(n) \cup {Layers[n + 1]}
        /\ Layers[n + 1] \notin FirstLayers(n)
    BY <1>2, <1>4
  <2> DEFINE x == Layers[n + 1]
             F == FirstLayers(n)
  <2> HIDE DEF x, F
  <2>2. IsFiniteSet(F \cup {x}) /\ (x \notin F => Cardinality(F \cup {x}) = n + 1)
    BY <1>6, FS_AddElement DEF F
  <2>3. QED
    BY <2>1, <2>2 DEF x, F
<1>7. \A n \in {0, 1, 2, 3, 4} : /\ IsFiniteSet(FirstLayers(n))
                                 /\ Cardinality(FirstLayers(n)) = n
  <2>1. IsFiniteSet(FirstLayers(1)) /\ Cardinality(FirstLayers(1)) = 1
    BY <1>5, <1>6
  <2>2. IsFiniteSet(FirstLayers(2)) /\ Cardinality(FirstLayers(2)) = 2
    BY <1>6, <2>1
  <2>3. IsFiniteSet(FirstLayers(3)) /\ Cardinality(FirstLayers(3)) = 3
    BY <1>6, <2>2
  <2>4. IsFiniteSet(FirstLayers(4)) /\ Cardinality(FirstLayers(4)) = 4
    BY <1>6, <2>3
  <2>5. QED
    BY <1>5, <2>1, <2>2, <2>3, <2>4
<1>8. \A n \in 0 .. 4 : "pci" \notin FirstLayers(n)
  BY <1>3
<1>9. QED
  BY <1>1, <1>2, <1>3, <1>7, <1>8

\* The steps, one by one.
LEMMA StepCases ==
  ASSUME [Next]_vars
  PROVE  \/ Load \/ Register \/ RegisterFails \/ Unload \/ Unregister
         \/ Bind \/ ProbeStep \/ ProbeFails \/ Unbind \/ Release
         \/ FirmwareWorks \/ Recover \/ Show \/ ShowEnd \/ DebugEnd
         \/ \E v \in Vectors : Interrupt(v) \/ HandlerStep(v)
         \/ \E f \in Files : Debug(f)
         \/ \E a \in Apps : \/ OpenBegin(a) \/ Open(a) \/ Ioctl(a) \/ IoctlEnd(a)
                            \/ Close(a) \/ CloseEnd(a)
         \/ UNCHANGED vars
BY DEF Next, Module, Card, Activity, Application

\* A step of the probe or of the release keeps everyone's footing.
LEMMA CardStep ==
  ASSUME IInv, [Next]_vars
  PROVE  CardInv' /\ UseInv'
<1>0. TypeOK /\ CardInv /\ UseInv
  BY DEF IInv
<1>1. /\ held \in 0 .. NodeAt /\ Len(Steps) = NodeAt /\ handler \in [Vectors ->
            {"idle", "registers", "report"}]
  BY <1>0, StepNumbers DEF TypeOK, CardType, ActType
<1> USE <1>1 DEF CardInv, UseInv, DirAt, IrqAt, RprocAt, NodeAt,
        modVars, cardVars, actVars, irqVars, appVars, vars
<1>2. ASSUME \/ Load \/ Register \/ RegisterFails \/ Unload \/ Unregister
             \/ UNCHANGED vars
      PROVE  CardInv' /\ UseInv'
  BY <1>0, <1>2 DEF Load, Register, RegisterFails, Unload, Unregister
<1>3. ASSUME Bind PROVE CardInv' /\ UseInv'
  BY <1>0, <1>3 DEF Bind
<1>4. ASSUME ProbeStep PROVE CardInv' /\ UseInv'
  <2>1. /\ held + 1 \in 1 .. NodeAt /\ held' = held + 1 /\ held >= 1
        /\ phase' = IF held' = NodeAt THEN "bound" ELSE "probing"
        /\ UNCHANGED <<handler, user, shows>>
    BY <1>0, <1>4 DEF ProbeStep
  <2>2. dir' = "live" \/ files' # {} => held' >= DirAt
    BY <1>0, <1>4, <2>1, StepPlaces DEF ProbeStep
  <2>3. fw' # "off" => held' >= RprocAt
    BY <1>0, <1>4, <2>1, StepPlaces DEF ProbeStep
  <2>4. QED
    BY <1>0, <2>1, <2>2, <2>3
<1>5. ASSUME ProbeFails \/ Unbind PROVE CardInv' /\ UseInv'
  BY <1>0, <1>5 DEF ProbeFails, Unbind
<1>6. ASSUME Release PROVE CardInv' /\ UseInv'
  <2>1. /\ held \in 1 .. NodeAt /\ held' = held - 1
        /\ phase = "unbinding" /\ phase' = IF held' = 0 THEN "unbound" ELSE phase
        /\ Left(Steps[held])
        /\ UNCHANGED <<handler, user, shows>>
    BY <1>0, <1>6 DEF Release
  <2>2. \A v \in Vectors : handler'[v] # "idle" => held' >= IrqAt
    BY <1>0, <2>1, StepPlaces DEF Left
  <2>3. shows' => held' >= NodeAt
    BY <1>0, <2>1, StepPlaces DEF Left
  <2>4. user' # "none" => held' >= DirAt
    BY <1>0, <2>1, StepPlaces DEF Left
  <2>5. dir' = "live" \/ files' # {} => held' >= DirAt
    BY <1>0, <1>6, <2>1, StepPlaces DEF Release
  <2>6. fw' # "off" => held' >= RprocAt
    BY <1>0, <1>6, <2>1, StepPlaces DEF Release
  <2>7. QED
    BY <2>1, <2>2, <2>3, <2>4, <2>5, <2>6
<1>7. ASSUME FirmwareWorks \/ Recover \/ Show \/ ShowEnd \/ DebugEnd
      PROVE  CardInv' /\ UseInv'
  BY <1>0, <1>7, HasStep DEF FirmwareWorks, Recover, Show, ShowEnd, DebugEnd
<1>8. ASSUME NEW v \in Vectors, Interrupt(v) \/ HandlerStep(v)
      PROVE  CardInv' /\ UseInv'
  BY <1>0, <1>8, HasStep DEF Interrupt, HandlerStep
<1>9. ASSUME NEW f \in Files, Debug(f) PROVE CardInv' /\ UseInv'
  BY <1>0, <1>9 DEF Debug
<1>10. ASSUME NEW a \in Apps,
              \/ OpenBegin(a) \/ Open(a) \/ Ioctl(a) \/ IoctlEnd(a) \/ Close(a)
              \/ CloseEnd(a)
       PROVE  CardInv' /\ UseInv'
  <2>1. UNCHANGED <<cardVars, actVars, irqVars>>
    BY <1>10 DEF OpenBegin, Open, Ioctl, IoctlEnd, Close, CloseEnd
  <2>2. QED
    BY <1>0, <2>1
<1>11. QED
  BY StepCases, <1>2, <1>3, <1>4, <1>5, <1>6, <1>7, <1>8, <1>9, <1>10

\* The registrations come and go around the card.
LEMMA ModStep ==
  ASSUME IInv, [Next]_vars
  PROVE  ModInv'
<1>0. TypeOK /\ ModInv /\ CardInv
  BY DEF IInv
<1> USE <1>0 DEF ModInv, modVars, cardVars, actVars, irqVars, appVars, vars
<1>1. ASSUME Load PROVE ModInv'
  BY <1>1, LayerCount DEF Load, Unloading
<1>2. ASSUME Register PROVE ModInv'
  <2>1. PICK n \in 0 .. 4 : mod = FirstLayers(n) /\ Cardinality(mod) = n
    BY <1>2, LayerCount DEF Register
  <2>2. mod' = FirstLayers(n + 1) /\ loading' = (n + 1 < 5)
    BY <1>2, <2>1, LayerCount DEF Register
  <2>3. UNCHANGED <<todo, phase>> /\ todo = <<>>
    BY <1>2 DEF Register
  <2>4. phase = "unbound"
    BY <2>1, LayerCount
  <2>5. CASE n = 4
    <3>1. n + 1 = 5
      BY <2>5
    <3>2. mod' = FirstLayers(5) /\ ~loading'
      <4>1. mod' = FirstLayers(5)
        BY <2>2, <3>1, Zenon
      <4>2. ~(n + 1 < 5)
        BY <2>5
      <4>3. QED
        BY <2>2, <4>1, <4>2, Zenon
    <3>3. mod' = AllLayers
      BY <3>2, LayerCount
    <3>4. QED
      BY <2>3, <2>4, <3>2, <3>3
  <2>6. CASE n # 4
    <3>1. n + 1 \in 0 .. 4
      BY <2>6
    <3>2. QED
      BY <2>2, <2>3, <2>4, <3>1, LayerCount
  <2>7. QED
    BY <2>5, <2>6
<1>3. ASSUME RegisterFails PROVE ModInv'
  <2>1. "pci" \notin mod
    BY <1>3, LayerCount DEF RegisterFails
  <2>2. QED
    BY <1>3, <2>1 DEF RegisterFails
<1>4. ASSUME Unload PROVE ModInv'
  <2>1. mod = AllLayers /\ Head(ExitOrder) = "pci"
    BY <1>4, LayerCount DEF Unload, ExitOrder
  <2>2. ~loading
    BY <2>1 DEF AllLayers
  <2>3. QED
    BY <1>4, <2>1, <2>2 DEF Unload
<1>5. ASSUME Unregister PROVE ModInv'
  <2>1. todo # <<>> /\ mod' = mod \ {Head(todo)} /\ UNCHANGED <<loading, phase>>
    BY <1>5 DEF Unregister, Unloading
  <2>2. "pci" \notin mod'
    BY <2>1
  <2>3. phase = "unbound"
    BY <1>5, <2>1 DEF Unregister
  <2>4. ~loading
    BY <2>1
  <2>5. QED
    BY <2>1, <2>2, <2>3, <2>4
<1>6. ASSUME Bind PROVE ModInv'
  BY <1>6 DEF Bind
<1>7. ASSUME ProbeStep \/ ProbeFails \/ Unbind \/ Release PROVE ModInv'
  BY <1>7 DEF ProbeStep, ProbeFails, Unbind, Release
<1>8. ASSUME FirmwareWorks \/ Recover \/ Show \/ ShowEnd \/ DebugEnd
      PROVE  ModInv'
  BY <1>8 DEF FirmwareWorks, Recover, Show, ShowEnd, DebugEnd
<1>9. ASSUME NEW v \in Vectors, Interrupt(v) \/ HandlerStep(v) PROVE ModInv'
  BY <1>9 DEF Interrupt, HandlerStep
<1>10. ASSUME NEW f \in Files, Debug(f) PROVE ModInv'
  BY <1>10 DEF Debug
<1>11. ASSUME NEW a \in Apps,
              \/ OpenBegin(a) \/ Open(a) \/ Ioctl(a) \/ IoctlEnd(a) \/ Close(a)
              \/ CloseEnd(a)
       PROVE  ModInv'
  <2>1. UNCHANGED <<modVars, cardVars>>
    BY <1>11 DEF OpenBegin, Open, Ioctl, IoctlEnd, Close, CloseEnd
  <2>2. QED
    BY <2>1
<1>12. ASSUME UNCHANGED vars PROVE ModInv'
  BY <1>12
<1>13. QED
  BY StepCases, <1>1, <1>2, <1>3, <1>4, <1>5, <1>6, <1>7, <1>8, <1>9, <1>10,
     <1>11, <1>12
-----------------------------------------------------------------------------
\* Every step keeps the types of the registrations.
LEMMA ModTypeStep ==
  ASSUME IInv, [Next]_vars
  PROVE  ModType'
<1>0. ModType /\ ModInv
  BY DEF IInv, TypeOK
<1> DEFINE S == Elems(Layers)
<1>1. ASSUME Register PROVE ModType'
  <2>1. PICK n \in 0 .. 4 : mod = FirstLayers(n) /\ Cardinality(mod) = n
    BY <1>0, <1>1, LayerCount DEF Register, ModInv
  <2>2. Layers[n + 1] \in S
    BY LayerCount DEF Layers, Elems
  <2>3. /\ mod' = mod \cup {Layers[n + 1]} /\ loading' \in BOOLEAN /\ todo' = todo
    BY <1>1, <2>1, LayerCount DEF Register
  <2>4. QED
    BY <1>0, <2>2, <2>3 DEF ModType
<1>2. ASSUME RegisterFails PROVE ModType'
  <2>1. PICK n \in 0 .. 4 : Cardinality(mod) = n
    BY <1>0, <1>2, LayerCount DEF RegisterFails, ModInv
  <2>2. \A i \in 1 .. n : Layers[n + 1 - i] \in S
    BY DEF Layers, Elems
  <2>3. [i \in 1 .. n |-> Layers[n + 1 - i]] \in Seq(S)
    BY <2>2
  <2>4. /\ todo' = [i \in 1 .. n |-> Layers[n + 1 - i]]
        /\ loading' = FALSE /\ mod' = mod
    BY <1>2, <2>1 DEF RegisterFails
  <2>5. QED
    BY <1>0, <2>3, <2>4 DEF ModType
<1>3. ASSUME Unload PROVE ModType'
  <2>1. ExitOrder \in Seq(S)
    BY LayerCount DEF ExitOrder, AllLayers
  <2>2. QED
    BY <1>0, <1>3, <2>1 DEF Unload, ModType
<1>4. ASSUME Unregister PROVE ModType'
  <2>1. Tail(todo) \in Seq(S)
    BY <1>0, <1>4 DEF Unregister, Unloading, ModType
  <2>2. QED
    BY <1>0, <1>4, <2>1 DEF Unregister, ModType
<1>5. ASSUME Load PROVE ModType'
  BY <1>0, <1>5 DEF Load, ModType
<1>6. \/ Load \/ Register \/ RegisterFails \/ Unload \/ Unregister
      \/ UNCHANGED modVars
  BY StepCases DEF Bind, ProbeStep, ProbeFails, Unbind, Release, FirmwareWorks,
     Recover, Interrupt, HandlerStep, Show, ShowEnd, Debug, DebugEnd, OpenBegin,
     Open, Ioctl, IoctlEnd, Close, CloseEnd, vars
<1>7. QED
  BY <1>0, <1>1, <1>2, <1>3, <1>4, <1>5, <1>6 DEF ModType, modVars

\* Every step keeps the types of the card's state.
LEMMA CardTypeStep ==
  ASSUME IInv, [Next]_vars
  PROVE  CardType'
<1>0. CardType /\ CardInv
  BY DEF IInv, TypeOK
<1> USE <1>0 DEF CardType
<1>1. ASSUME Bind PROVE CardType'
  <2>1. 1 \in 0 .. Len(Steps) /\ inst + 1 \in 0 .. MaxBinds
    BY <1>1, StepNumbers, BindAssumption DEF Bind, NodeAt
  <2>2. QED
    BY <1>1, <2>1 DEF Bind
<1>2. ASSUME ProbeStep PROVE CardType'
  <2>1. held + 1 \in 1 .. NodeAt /\ held' = held + 1
    BY <1>2, StepNumbers DEF ProbeStep, NodeAt
  <2>2. FilesOf(Steps[held + 1]) \subseteq Files
    BY <2>1, StepNumbers DEF Files
  <2>3. QED
    BY <1>2, <2>1, <2>2, StepNumbers DEF ProbeStep, NodeAt
<1>3. ASSUME ProbeFails \/ Unbind PROVE CardType'
  BY <1>3 DEF ProbeFails, Unbind
<1>4. ASSUME Release PROVE CardType'
  BY <1>4, StepNumbers DEF Release, CardInv, NodeAt
<1>5. Bind \/ ProbeStep \/ ProbeFails \/ Unbind \/ Release \/ UNCHANGED cardVars
  BY StepCases DEF Load, Register, RegisterFails, Unload, Unregister,
     FirmwareWorks, Recover, Interrupt, HandlerStep, Show, ShowEnd, Debug,
     DebugEnd, OpenBegin, Open, Ioctl, IoctlEnd, Close, CloseEnd, vars
<1>6. QED
  BY <1>1, <1>2, <1>3, <1>4, <1>5 DEF cardVars

\* Every step keeps the types of what runs on the card.
LEMMA ActTypeStep ==
  ASSUME IInv, [Next]_vars
  PROVE  ActType'
<1>0. ActType /\ CardType
  BY DEF IInv, TypeOK
<1> USE <1>0 DEF ActType, actVars, irqVars
<1>1. ASSUME ProbeStep \/ Release PROVE ActType'
  BY <1>1 DEF ProbeStep, Release, Vectors
<1>2. ASSUME FirmwareWorks \/ Recover \/ Show \/ ShowEnd PROVE ActType'
  BY <1>2 DEF FirmwareWorks, Recover, Show, ShowEnd, Vectors
<1>3. ASSUME DebugEnd PROVE ActType'
  BY <1>3 DEF DebugEnd, Vectors
<1>4. ASSUME NEW v \in Vectors, Interrupt(v) \/ HandlerStep(v) PROVE ActType'
  BY <1>4 DEF Interrupt, HandlerStep
<1>5. ASSUME NEW f \in Files, Debug(f) PROVE ActType'
  BY <1>5 DEF Debug
<1>6. ASSUME UNCHANGED <<actVars, irqVars>> PROVE ActType'
  BY <1>6
<1>7. \/ ProbeStep \/ Release \/ FirmwareWorks \/ Recover \/ Show \/ ShowEnd
      \/ DebugEnd \/ (\E v \in Vectors : Interrupt(v) \/ HandlerStep(v))
      \/ (\E f \in Files : Debug(f)) \/ UNCHANGED <<actVars, irqVars>>
  BY StepCases DEF Load, Register, RegisterFails, Unload, Unregister, Bind,
     ProbeFails, Unbind, OpenBegin, Open, Ioctl, IoctlEnd, Close, CloseEnd, vars
<1>8. QED
  BY <1>1, <1>2, <1>3, <1>4, <1>5, <1>6, <1>7

\* Every step keeps the types of the applications.
LEMMA AppTypeStep ==
  ASSUME IInv, [Next]_vars
  PROVE  AppType'
<1>0. AppType /\ CardType
  BY DEF IInv, TypeOK
<1> USE <1>0 DEF AppType, appVars
<1>1. ASSUME Bind PROVE AppType'
  BY <1>1 DEF Bind
<1>2. ASSUME NEW a \in Apps, OpenBegin(a) PROVE AppType'
  BY <1>2 DEF OpenBegin, CardType
<1>3. ASSUME NEW a \in Apps, NEW l \in {"away", "open", "ioctl", "closing"},
             MoveApp(a, l)
      PROVE  app' \in [Apps -> [at : {"away", "opening", "open", "ioctl", "closing"},
                               card : 0 .. MaxBinds]]
  BY <1>3 DEF MoveApp
<1>4. ASSUME NEW a \in Apps, Open(a) PROVE AppType'
  <2>1. usage' \in BOOLEAN /\ \E l \in {"away", "open"} : MoveApp(a, l)
    BY <1>4 DEF Open
  <2>2. QED
    BY <1>3, <2>1
<1>5. ASSUME NEW a \in Apps, Ioctl(a) \/ IoctlEnd(a) \/ Close(a) \/ CloseEnd(a)
      PROVE  AppType'
  <2>1. /\ usage' \in BOOLEAN
        /\ \E l \in {"away", "open", "ioctl", "closing"} : MoveApp(a, l)
    BY <1>5 DEF Ioctl, IoctlEnd, Close, CloseEnd
  <2>2. QED
    BY <1>3, <2>1
<1>6. ASSUME UNCHANGED appVars PROVE AppType'
  BY <1>6
<1>7. \/ Bind \/ UNCHANGED appVars
      \/ \E a \in Apps : \/ OpenBegin(a) \/ Open(a) \/ Ioctl(a) \/ IoctlEnd(a)
                         \/ Close(a) \/ CloseEnd(a)
  BY StepCases DEF Load, Register, RegisterFails, Unload, Unregister, ProbeStep,
     ProbeFails, Unbind, Release, FirmwareWorks, Recover, Interrupt, HandlerStep,
     Show, ShowEnd, Debug, DebugEnd, vars
<1>8. QED
  BY <1>1, <1>2, <1>4, <1>5, <1>6, <1>7

-----------------------------------------------------------------------------
\* At the start there is no module and no card.
LEMMA InitInv == Init => IInv
<1> SUFFICES ASSUME Init PROVE IInv
  OBVIOUS
<1>1. ModType /\ ActType /\ AppType
  <2>1. <<>> \in Seq(Elems(Layers)) /\ 0 \in 0 .. MaxBinds
    BY BindAssumption
  <2>2. ModType
    BY <2>1 DEF Init, ModType
  <2>3. ActType
    BY DEF Init, ActType
  <2>4. AppType
    BY <2>1 DEF Init, AppType
  <2>5. QED
    BY <2>2, <2>3, <2>4
<1>2. CardType
  <2>1. 0 \in 0 .. Len(Steps) /\ 0 \in 0 .. MaxBinds
    BY StepNumbers, BindAssumption DEF NodeAt
  <2>2. QED
    BY <2>1 DEF Init, CardType
<1>3. CardInv /\ UseInv /\ ModInv
  BY DEF Init, CardInv, UseInv, ModInv, NodeAt
<1>4. QED
  BY <1>1, <1>2, <1>3 DEF IInv, TypeOK

\* The invariant holds throughout.
LEMMA Invariance == Spec => []IInv
<1>1. IInv /\ [Next]_vars => IInv'
  BY CardStep, ModStep, ModTypeStep, CardTypeStep, ActTypeStep, AppTypeStep
     DEF IInv, TypeOK
<1>2. QED
  BY InitInv, <1>1, PTL DEF Spec

\* Type correctness of the module, the card and everything that runs on it.
THEOREM TypeCorrect == Spec => []TypeOK
<1>1. IInv => TypeOK
  BY DEF IInv
<1>2. QED
  BY <1>1, Invariance, PTL

\* An interrupt handler, a reader of a sysfs attribute and a user of a debugfs
\* file find what the kernel's release order keeps for them, however a probe
\* that fails or an unbind races them (velocitor_pci_probe()).
THEOREM CallbacksAreSafe == Spec => []CallbacksSafe
<1>1. ASSUME IInv PROVE CallbacksSafe
  <2>1. UseInv /\ held \in 0 .. NodeAt
    BY <1>1, StepNumbers DEF IInv, TypeOK, CardType
  <2>2. \A i \in 1 .. held : Steps[i] \in Held
    BY DEF Held
  <2>3. \A v \in Vectors :
          handler[v] = "registers" => {"device", "bar0", "vring"} \subseteq Held
    BY <2>1, <2>2, StepNumbers DEF UseInv, IrqAt, NodeAt
  <2>4. shows => {"device", "identity"} \subseteq Held
    BY <2>1, <2>2, StepNumbers DEF UseInv, NodeAt
  <2>5. user # "none" => "device" \in Held
    BY <2>1, <2>2, StepNumbers DEF UseInv, DirAt, NodeAt
  <2>6. QED
    BY <2>3, <2>4, <2>5 DEF CallbacksSafe
<1>2. QED
  BY <1>1, Invariance, PTL

\* Firmware that runs or may be restarted has its memory, its interrupts and the
\* driver's state behind both sub-drivers: velocitor_remoteproc_initialize() boots
\* it last, and the release stops it first.
THEOREM FirmwareIsBacked == Spec => []FirmwareBacked
<1>1. ASSUME IInv PROVE FirmwareBacked
  <2>1. UseInv /\ held \in 0 .. NodeAt
    BY <1>1, StepNumbers DEF IInv, TypeOK, CardType
  <2>2. \A i \in 1 .. held : Steps[i] \in Held
    BY DEF Held
  <2>3. QED
    BY <2>1, <2>2, StepNumbers DEF FirmwareBacked, UseInv, RprocAt, NodeAt
<1>2. QED
  BY <1>1, Invariance, PTL

\* The class and both sub-drivers are registered as long as a card is bound: init_()
\* registers the PCI driver last, and exit_() unregisters it first.
THEOREM DriversArePresent == Spec => []DriversPresent
<1>1. IInv => DriversPresent
  BY DEF IInv, ModInv, DriversPresent, AllLayers
<1>2. QED
  BY <1>1, Invariance, PTL
=============================================================================
