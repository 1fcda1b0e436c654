---------------------- MODULE FirmwareLifecycleProofs ----------------------
(***************************************************************************)
(* The safety of boots, crashes and recoveries for any number of queues,   *)
(* buffers, boots and errors: what a start has done so far (core) decides  *)
(* what the device may have been told.                                     *)
(***************************************************************************)
EXTENDS FirmwareLifecycle, TLAPS

\* A start before it has described a queue, and from then on.
Quiet  == {"load", "invalidate", "publish", "release", "poll", "learn", "walk"}
Active == {"select", "program", "enable", "negotiate", "fill", "kick"}

\* Whoever holds rproc->lock is somewhere; a start finds the state offline; the
\* subdevices are there between the end of a start and the next unplug.
TaskInv ==
  /\ task = "none" <=> core = "idle"
  /\ core \in Quiet \cup Active => rstate = "offline"
  /\ subdev => core = "unplug" \/ (core = "idle" /\ rstate = "running")

\* Between the selection of a queue and its enabling nobody else selects.
WindowInv ==
  /\ core \in {"program", "enable"} => vlock = "core" /\ vqSelect = qi
  /\ core = "enable" => prog[qi] = qi
  /\ RingsProgrammed

\* No queue is enabled while a start prepares the rings, nor while the firmware
\* is down; what is enabled then was cleared by this start, and the index of a
\* queue that is not enabled is zero.
QueueInv ==
  /\ core \in Quiet \/ (core = "idle" /\ rstate = "offline") => enable = {}
  /\ core \in {"publish", "release", "poll", "learn", "walk", "select",
               "program", "enable", "negotiate", "fill"} =>
       \A q \in Queues : ring[q].start = sessions /\ ring[q].idx = 0
  /\ \A q \in Queues \ enable : lastAvail[q] = 0
  /\ FreshRings

\* What the two sides know of the notifyids once a table was offered, and when
\* the image's own table is the one in the shadow page.
TableInv ==
  /\ core \in Active \/ enable # {} => drvIds = Queues /\ image # "badtable"
  /\ core \in Active \cup {"release", "poll", "learn", "walk"} \/ enable # {} =>
       (shadow = "good" => rscValid /\ devIds = Queues)
  /\ core \in (Quiet \ {"load"}) \cup Active \/ enable # {} =>
       shadow = "good" \/ image \in {"badtable", "bigtable"}

\* The boot timer runs only while a start polls, or is about to be stopped after
\* it gave up; the generation is learnt when no timer can move it any more.
GenInv ==
  /\ bootTimer => /\ core \in {"poll", "stop"} /\ rstate # "running"
                  /\ fwStatus = "verified" /\ ~inReset
  /\ core \in Active \cup {"walk"} \/ rstate = "running" => drvGen = generation

\* A crash that a start no longer looks for is on its way to the worker.
CrashInv ==
  /\ core \in Active \cup {"learn", "walk"} /\ fwStatus # "running" =>
       irq \/ crashWork
  /\ CrashNotMissed

IInv == /\ TypeOK /\ TaskInv /\ WindowInv /\ QueueInv /\ TableInv /\ GenInv
        /\ CrashInv

-----------------------------------------------------------------------------
\* What the provers need of the queues' numbers.
LEMMA QueueFacts ==
  /\ 0 \in Queues /\ Rx \in Queues /\ Tx \in Queues /\ Rx # Tx
  /\ \A q \in Queues : q # NQueues - 1 => q + 1 \in Queues
  /\ RxBufs \in Nat /\ MaxHeads \in Nat
  /\ 0 \in 0 .. RxBufs + MaxHeads /\ RxBufs \in 0 .. RxBufs + MaxHeads
BY LifecycleAssumption DEF Queues, Rx, Tx

\* The card before its first boot satisfies the invariant.
LEMMA InitInv == Init => IInv
<1> SUFFICES ASSUME Init PROVE IInv
  OBVIOUS
<1> USE QueueFacts DEF Init
<1>1. FlagType /\ StateType
  BY DEF FlagType, StateType, Labels
<1>2. CountType /\ QueueType
  BY LifecycleAssumption DEF CountType, QueueType
<1>3. TaskInv /\ WindowInv /\ QueueInv /\ TableInv
  BY DEF TaskInv, WindowInv, RingsProgrammed, QueueInv, FreshRings, TableInv,
         Quiet, Active
<1>4. GenInv /\ CrashInv
  BY DEF GenInv, CrashInv, CrashNotMissed, Active
<1>5. QED
  BY <1>1, <1>2, <1>3, <1>4 DEF IInv, TypeOK

\* Every step keeps the flags Boolean.
LEMMA FlagStep == ASSUME IInv, [Next]_vars PROVE FlagType'
<1>0. FlagType
  BY DEF IInv, TypeOK
<1> USE <1>0, LifecycleAssumption DEF FlagType, fwVars, tableVars, windowVars,
        queueVars, errorVars, stateVars, coreVars, driverVars, hostVars,
        showVars
<1>1. ASSUME NEW bad, NEW taken \in [Queues -> 0 .. RxBufs + MaxHeads],
              Service(bad, taken)
      PROVE  FlagType'
  BY <1>1 DEF Service, Raise, Pending, Least
<1>2. ASSUME Crash PROVE FlagType'
  BY <1>2 DEF Crash, Purge, Raise
<1>3. ASSUME Stop PROVE FlagType'
  BY <1>3 DEF Stop, ResetAssert, Purge, Goto, Done
<1>4. ASSUME Publish PROVE FlagType'
  BY <1>4 DEF Publish, RscPublish, Raise, Goto
<1>5. ASSUME Release PROVE FlagType'
  BY <1>5 DEF Release, ResetRelease, Raise, Goto
<1>6. ASSUME NEW q \in Queues, Submit(q) PROVE FlagType'
  BY <1>6 DEF Submit
<1>7. ASSUME NEW q \in Queues, Kick(q) PROVE FlagType'
  BY <1>7 DEF Kick, Doorbell
<1>8. ASSUME BootDone PROVE FlagType'
  BY <1>8 DEF BootDone
<1>9. ASSUME HandleError PROVE FlagType'
  BY <1>9 DEF HandleError
<1>10. ASSUME CrashWork PROVE FlagType'
  BY <1>10 DEF CrashWork
<1>11. ASSUME BootBegin PROVE FlagType'
  BY <1>11 DEF BootBegin
<1>12. ASSUME StopBegin PROVE FlagType'
  BY <1>12 DEF StopBegin
<1>13. ASSUME Unplug PROVE FlagType'
  BY <1>13 DEF Unplug
<1>14. ASSUME Load PROVE FlagType'
  BY <1>14 DEF Load, Goto
<1>15. ASSUME Invalidate PROVE FlagType'
  BY <1>15 DEF Invalidate, Goto
<1>16. ASSUME Poll PROVE FlagType'
  BY <1>16 DEF Poll, Goto
<1>17. ASSUME Learn PROVE FlagType'
  BY <1>17 DEF Learn, Goto
<1>18. ASSUME Walk PROVE FlagType'
  BY <1>18 DEF Walk, Goto, MaySelect, LastQueue
<1>19. ASSUME ActivateSelect PROVE FlagType'
  BY <1>19 DEF ActivateSelect, Goto, MaySelect
<1>20. ASSUME ActivateProgram PROVE FlagType'
  BY <1>20 DEF ActivateProgram, Goto
<1>21. ASSUME ActivateEnable PROVE FlagType'
  BY <1>21 DEF ActivateEnable, Goto, VqEnable, LastQueue
<1>22. ASSUME Negotiate PROVE FlagType'
  BY <1>22 DEF Negotiate, Goto
<1>23. ASSUME Fill PROVE FlagType'
  BY <1>23 DEF Fill, Goto
<1>24. ASSUME ProbeKick PROVE FlagType'
  BY <1>24 DEF ProbeKick, Goto, Doorbell, Done
<1>25. ASSUME Show PROVE FlagType'
  BY <1>25 DEF Show, MayShow
<1>26. ASSUME UNCHANGED vars PROVE FlagType'
  BY <1>26 DEF vars
<1>27. QED
  BY <1>1, <1>2, <1>3, <1>4, <1>5, <1>6, <1>7, <1>8, <1>9, <1>10, <1>11,
     <1>12, <1>13, <1>14, <1>15, <1>16, <1>17, <1>18, <1>19, <1>20,
     <1>21, <1>22, <1>23, <1>24, <1>25, <1>26
     DEF Next, CoreStep, ServiceStep

\* Every step keeps the states among those named.
LEMMA StateStep == ASSUME IInv, [Next]_vars PROVE StateType'
<1>0. StateType
  BY DEF IInv, TypeOK
<1> USE <1>0, LifecycleAssumption DEF StateType, Labels, fwVars, tableVars,
        windowVars, queueVars, errorVars, stateVars, coreVars, driverVars,
        hostVars, showVars
<1>1. ASSUME NEW bad, NEW taken \in [Queues -> 0 .. RxBufs + MaxHeads],
              Service(bad, taken)
      PROVE  StateType'
  BY <1>1 DEF Service, Raise, Pending, Least
<1>2. ASSUME NEW q \in Queues, Submit(q) PROVE StateType'
  BY <1>2 DEF Submit
<1>3. ASSUME NEW q \in Queues, Kick(q) PROVE StateType'
  BY <1>3 DEF Kick, Doorbell
<1>4. ASSUME BootDone \/ Crash \/ HandleError \/ CrashWork \/ BootBegin
      PROVE  StateType'
  BY <1>4 DEF BootDone, Crash, HandleError, CrashWork, BootBegin, Purge,
     Raise
<1>5. ASSUME StopBegin \/ Unplug \/ Stop \/ Load \/ Invalidate PROVE StateType'
  BY <1>5 DEF StopBegin, Unplug, Stop, Load, Invalidate, Goto, ResetAssert,
     Purge, Done
<1>6. ASSUME Publish \/ Release \/ Poll \/ Learn \/ Walk PROVE StateType'
  BY <1>6 DEF Publish, Release, Poll, Learn, Walk, RscPublish, Raise, Goto,
     ResetRelease
<1>7. ASSUME ActivateSelect \/ ActivateProgram \/ ActivateEnable \/ Negotiate \/ Fill
      PROVE  StateType'
  BY <1>7 DEF ActivateSelect, ActivateProgram, ActivateEnable, Negotiate,
     Fill, Goto, MaySelect, VqEnable, LastQueue
<1>8. ASSUME ProbeKick \/ Show PROVE StateType'
  BY <1>8 DEF ProbeKick, Show, Doorbell, Done, MayShow
<1>9. ASSUME UNCHANGED vars PROVE StateType'
  BY <1>9 DEF vars
<1>10. QED
  BY <1>1, <1>2, <1>3, <1>4, <1>5, <1>6, <1>7, <1>8, <1>9
     DEF Next, CoreStep, ServiceStep

\* Every step keeps the counters natural numbers within their bounds.
LEMMA CountStep == ASSUME IInv, [Next]_vars PROVE CountType'
<1>0. CountType
  BY DEF IInv, TypeOK
<1> USE <1>0, LifecycleAssumption DEF CountType, fwVars, tableVars, windowVars,
        queueVars, errorVars, stateVars, coreVars, driverVars, hostVars,
        showVars
<1>1. ASSUME NEW bad, NEW taken \in [Queues -> 0 .. RxBufs + MaxHeads],
              Service(bad, taken)
      PROVE  CountType'
  BY <1>1 DEF Service, Raise, Pending, Least
<1>2. ASSUME NEW q \in Queues, Submit(q) PROVE CountType'
  BY <1>2 DEF Submit
<1>3. ASSUME NEW q \in Queues, Kick(q) PROVE CountType'
  BY <1>3 DEF Kick, Doorbell
<1>4. ASSUME BootDone \/ Crash \/ HandleError \/ CrashWork \/ BootBegin
      PROVE  CountType'
  BY <1>4 DEF BootDone, Crash, HandleError, CrashWork, BootBegin, Purge,
     Raise
<1>5. ASSUME StopBegin \/ Unplug \/ Stop \/ Load \/ Invalidate PROVE CountType'
  BY <1>5 DEF StopBegin, Unplug, Stop, Load, Invalidate, Goto, ResetAssert,
     Purge, Done
<1>6. ASSUME Publish \/ Release \/ Poll \/ Learn \/ Walk PROVE CountType'
  BY <1>6 DEF Publish, Release, Poll, Learn, Walk, RscPublish, Raise, Goto,
     ResetRelease
<1>7. ASSUME ActivateSelect \/ ActivateProgram \/ ActivateEnable \/ Negotiate \/ Fill
      PROVE  CountType'
  BY <1>7 DEF ActivateSelect, ActivateProgram, ActivateEnable, Negotiate,
     Fill, Goto, MaySelect, VqEnable, LastQueue
<1>8. ASSUME ProbeKick \/ Show PROVE CountType'
  BY <1>8 DEF ProbeKick, Show, Doorbell, Done, MayShow
<1>9. ASSUME UNCHANGED vars PROVE CountType'
  BY <1>9 DEF vars
<1>10. QED
  BY <1>1, <1>2, <1>3, <1>4, <1>5, <1>6, <1>7, <1>8, <1>9
     DEF Next, CoreStep, ServiceStep

\* Every step keeps the queues' types; the heads a sweep takes are on the ring.
LEMMA QueueTypeStep == ASSUME IInv, [Next]_vars PROVE QueueType'
<1>0. QueueType /\ CountType
  BY DEF IInv, TypeOK
<1> USE <1>0, QueueFacts DEF QueueType, CountType, fwVars, tableVars,
        windowVars, queueVars, errorVars, stateVars, coreVars, driverVars,
        hostVars, showVars
<1>1. ASSUME NEW bad, NEW taken \in [Queues -> 0 .. RxBufs + MaxHeads],
              Service(bad, taken)
      PROVE  QueueType'
  <2>1. ASSUME NEW q \in Queues
        PROVE  lastAvail[q] + taken[q] \in 0 .. RxBufs + MaxHeads
    <3>1. /\ lastAvail[q] \in 0 .. RxBufs + MaxHeads
          /\ taken[q] \in 0 .. RxBufs + MaxHeads
          /\ ring[q].idx \in 0 .. RxBufs + MaxHeads
          /\ taken[Tx] \in Nat
      OBVIOUS
    <3>2. taken[q] = 0 \/ taken[q] <= Pending(q)
      <4>1. CASE q = Rx
        BY <1>1, <3>1, <4>1 DEF Service, Least, Pending
      <4>2. CASE q # Rx
        BY <1>1, <3>1, <4>2 DEF Service, Pending
      <4>3. QED
        BY <4>1, <4>2
    <3>3. QED
      BY <3>1, <3>2 DEF Pending
  <2>2. lastAvail' = [q \in Queues |-> lastAvail[q] + taken[q]] /\ sweep' = {}
    BY <1>1 DEF Service
  <2>3. lastAvail' \in [Queues -> 0 .. RxBufs + MaxHeads]
    BY <2>1, <2>2
  <2>4. QED
    BY <1>1, <2>2, <2>3 DEF Service
<1>2. ASSUME Crash PROVE QueueType'
  BY <1>2 DEF Crash, Purge, Raise
<1>3. ASSUME Stop PROVE QueueType'
  BY <1>3 DEF Stop, ResetAssert, Purge, Goto, Done
<1>4. ASSUME Invalidate PROVE QueueType'
  BY <1>4 DEF Invalidate, Goto
<1>5. ASSUME Walk PROVE QueueType'
  BY <1>5 DEF Walk, Goto
<1>6. ASSUME ActivateProgram PROVE QueueType'
  BY <1>6 DEF ActivateProgram, Goto
<1>7. ASSUME ActivateEnable PROVE QueueType'
  BY <1>7 DEF ActivateEnable, VqEnable, LastQueue
<1>8. ASSUME Fill PROVE QueueType'
  BY <1>8 DEF Fill, Goto
<1>9. ASSUME NEW q \in Queues, Submit(q) PROVE QueueType'
  BY <1>9 DEF Submit
<1>10. ASSUME NEW q \in Queues, Kick(q) PROVE QueueType'
  BY <1>10 DEF Kick, Doorbell
<1>11. ASSUME Show PROVE QueueType'
  BY <1>11 DEF Show, MayShow
<1>12. ASSUME BootDone \/ HandleError \/ CrashWork \/ BootBegin \/ StopBegin
      PROVE  QueueType'
  BY <1>12 DEF BootDone, HandleError, CrashWork, BootBegin, StopBegin
<1>13. ASSUME Unplug \/ Load \/ Publish \/ Release \/ Poll PROVE QueueType'
  BY <1>13 DEF Unplug, Load, Publish, Release, Poll, Goto, RscPublish,
     Raise, ResetRelease
<1>14. ASSUME Learn \/ ActivateSelect \/ Negotiate \/ ProbeKick PROVE QueueType'
  BY <1>14 DEF Learn, ActivateSelect, Negotiate, ProbeKick, Goto, MaySelect,
     Doorbell, Done
<1>15. ASSUME UNCHANGED vars PROVE QueueType'
  BY <1>15 DEF vars
<1>16. QED
  BY <1>1, <1>2, <1>3, <1>4, <1>5, <1>6, <1>7, <1>8, <1>9, <1>10, <1>11,
     <1>12, <1>13, <1>14, <1>15
     DEF Next, CoreStep, ServiceStep

\* Every step keeps the task, the state and the subdevices together.
LEMMA TaskStep == ASSUME IInv, [Next]_vars PROVE TaskInv'
<1>0. QueueType /\ CountType /\ StateType /\ TaskInv
  BY DEF IInv, TypeOK
<1> USE <1>0, LifecycleAssumption DEF TaskInv, Quiet, Active, fwVars, tableVars,
        windowVars, queueVars, errorVars, stateVars, coreVars, driverVars,
        hostVars, showVars
<1>1. ASSUME NEW bad, NEW taken \in [Queues -> 0 .. RxBufs + MaxHeads],
              Service(bad, taken)
      PROVE  TaskInv'
  BY <1>1 DEF Service, Raise, Pending, Least
<1>2. ASSUME CrashWork PROVE TaskInv'
  BY <1>2 DEF CrashWork
<1>3. ASSUME BootBegin PROVE TaskInv'
  BY <1>3 DEF BootBegin
<1>4. ASSUME Unplug PROVE TaskInv'
  BY <1>4 DEF Unplug, Goto
<1>5. ASSUME Stop PROVE TaskInv'
  BY <1>5 DEF Stop, ResetAssert, Purge, Goto, Done
<1>6. ASSUME Load PROVE TaskInv'
  BY <1>6 DEF Load, Goto
<1>7. ASSUME ProbeKick PROVE TaskInv'
  BY <1>7 DEF ProbeKick, Doorbell, Done
<1>8. ASSUME NEW q \in Queues, Submit(q) PROVE TaskInv'
  BY <1>8 DEF Submit
<1>9. ASSUME NEW q \in Queues, Kick(q) PROVE TaskInv'
  BY <1>9 DEF Kick, Doorbell
<1>10. ASSUME BootDone \/ Crash \/ HandleError \/ StopBegin \/ Invalidate
      PROVE  TaskInv'
  BY <1>10 DEF BootDone, Crash, HandleError, StopBegin, Invalidate, Purge,
     Raise, Goto
<1>11. ASSUME Publish \/ Release \/ Poll \/ Learn \/ Walk PROVE TaskInv'
  BY <1>11 DEF Publish, Release, Poll, Learn, Walk, RscPublish, Raise, Goto,
     ResetRelease
<1>12. ASSUME ActivateSelect \/ ActivateProgram \/ ActivateEnable \/ Negotiate \/ Fill
      PROVE  TaskInv'
  BY <1>12 DEF ActivateSelect, ActivateProgram, ActivateEnable, Negotiate,
     Fill, Goto, MaySelect, VqEnable, LastQueue
<1>13. ASSUME Show PROVE TaskInv'
  BY <1>13 DEF Show, MayShow
<1>14. ASSUME UNCHANGED vars PROVE TaskInv'
  BY <1>14 DEF vars
<1>15. QED
  BY <1>1, <1>2, <1>3, <1>4, <1>5, <1>6, <1>7, <1>8, <1>9, <1>10, <1>11,
     <1>12, <1>13, <1>14
     DEF Next, CoreStep, ServiceStep

\* Every step keeps the selection of a queue and its description together.
LEMMA WindowStep == ASSUME IInv, [Next]_vars PROVE WindowInv'
<1>0. QueueType /\ CountType /\ StateType /\ TaskInv /\ WindowInv
  BY DEF IInv, TypeOK
<1> USE <1>0, LifecycleAssumption DEF WindowInv, RingsProgrammed, Queues,
        QueueType, CountType, StateType, TaskInv, None, fwVars, tableVars,
        windowVars, queueVars, errorVars, stateVars, coreVars, driverVars,
        hostVars, showVars
<1>1. ASSUME NEW bad, NEW taken \in [Queues -> 0 .. RxBufs + MaxHeads],
              Service(bad, taken)
      PROVE  WindowInv'
  BY <1>1 DEF Service, Raise, Pending, Least
<1>2. ASSUME Crash PROVE WindowInv'
  BY <1>2 DEF Crash, Purge, Raise
<1>3. ASSUME Stop PROVE WindowInv'
  BY <1>3 DEF Stop, ResetAssert, Purge, Goto, Done
<1>4. ASSUME ActivateSelect PROVE WindowInv'
  BY <1>4 DEF ActivateSelect, Goto, MaySelect
<1>5. ASSUME ActivateProgram PROVE WindowInv'
  BY <1>5 DEF ActivateProgram, Goto
<1>6. ASSUME ActivateEnable PROVE WindowInv'
  BY <1>6 DEF ActivateEnable, VqEnable, LastQueue
<1>7. ASSUME NEW q \in Queues, Submit(q) PROVE WindowInv'
  BY <1>7 DEF Submit
<1>8. ASSUME NEW q \in Queues, Kick(q) PROVE WindowInv'
  BY <1>8 DEF Kick, Doorbell
<1>9. ASSUME Show PROVE WindowInv'
  BY <1>9 DEF Show, MayShow
<1>10. ASSUME BootDone \/ HandleError \/ CrashWork \/ BootBegin \/ StopBegin
      PROVE  WindowInv'
  BY <1>10 DEF BootDone, HandleError, CrashWork, BootBegin, StopBegin
<1>11. ASSUME Unplug \/ Load \/ Invalidate \/ Publish \/ Release
      PROVE  WindowInv'
  BY <1>11 DEF Unplug, Load, Invalidate, Publish, Release, Goto, RscPublish,
     Raise, ResetRelease
<1>12. ASSUME Poll \/ Learn \/ Walk \/ Negotiate \/ Fill PROVE WindowInv'
  BY <1>12 DEF Poll, Learn, Walk, Negotiate, Fill, Goto
<1>13. ASSUME ProbeKick PROVE WindowInv'
  BY <1>13 DEF ProbeKick, Doorbell, Done
<1>14. ASSUME UNCHANGED vars PROVE WindowInv'
  BY <1>14 DEF vars
<1>15. QED
  BY <1>1, <1>2, <1>3, <1>4, <1>5, <1>6, <1>7, <1>8, <1>9, <1>10, <1>11,
     <1>12, <1>13, <1>14
     DEF Next, CoreStep, ServiceStep

\* Every step keeps dead rings out of the device's reach.
LEMMA QueueStep == ASSUME IInv, [Next]_vars PROVE QueueInv'
<1>0. QueueType /\ CountType /\ StateType /\ TaskInv /\ QueueInv
  BY DEF IInv, TypeOK
<1> USE <1>0, QueueFacts DEF QueueInv, FreshRings, TaskInv, Quiet, Active,
        QueueType, CountType, StateType, fwVars, tableVars, windowVars,
        queueVars, errorVars, stateVars, coreVars, driverVars, hostVars,
        showVars
<1>1. ASSUME NEW bad, NEW taken \in [Queues -> 0 .. RxBufs + MaxHeads],
              Service(bad, taken)
      PROVE  QueueInv'
  <2>1. UNCHANGED <<core, rstate, enable, ring, sessions>>
    BY <1>1 DEF Service
  <2>2. ASSUME NEW q \in Queues PROVE lastAvail'[q] = lastAvail[q] + taken[q]
    BY <1>1 DEF Service
  <2>3. ASSUME NEW q \in Queues \ enable PROVE lastAvail'[q] = 0
    <3>1. taken[q] = 0
      BY <1>1 DEF Service
    <3>2. QED
      BY <2>2, <3>1
  <2>4. ASSUME NEW q \in enable PROVE lastAvail'[q] <= ring[q].idx
    <3>1. /\ lastAvail[q] \in Nat /\ ring[q].idx \in Nat /\ taken[q] \in Nat
          /\ taken[Tx] \in Nat /\ lastAvail[q] <= ring[q].idx
      OBVIOUS
    <3>2. taken[q] = 0 \/ taken[q] <= Pending(q)
      <4>1. CASE q = Rx
        BY <1>1, <3>1, <4>1 DEF Service, Least, Pending
      <4>2. CASE q # Rx
        BY <1>1, <3>1, <4>2 DEF Service, Pending
      <4>3. QED
        BY <4>1, <4>2
    <3>3. QED
      BY <2>2, <3>1, <3>2 DEF Pending
  <2>5. QED
    BY <2>1, <2>3, <2>4
<1>2. ASSUME Crash PROVE QueueInv'
  BY <1>2 DEF Crash, Purge, Raise
<1>3. ASSUME BootBegin PROVE QueueInv'
  BY <1>3 DEF BootBegin
<1>4. ASSUME Stop PROVE QueueInv'
  BY <1>4 DEF Stop, ResetAssert, Purge, Goto, Done
<1>5. ASSUME Load PROVE QueueInv'
  BY <1>5 DEF Load, Goto
<1>6. ASSUME Invalidate PROVE QueueInv'
  BY <1>6 DEF Invalidate, Goto
<1>7. ASSUME ActivateEnable PROVE QueueInv'
  <2>1. UNCHANGED <<lastAvail, ring, sessions, rstate>>
    BY <1>7 DEF ActivateEnable
  <2>2. enable \subseteq enable' /\ enable' \subseteq enable \cup {vqSelect}
    BY <1>7 DEF ActivateEnable, VqEnable
  <2>3. core = "enable" /\ core' \in {"select", "negotiate"}
    BY <1>7 DEF ActivateEnable
  <2>4. \A q \in Queues : ring[q].start = sessions /\ ring[q].idx = 0
    BY <2>3
  <2>5. ASSUME NEW q \in enable'
        PROVE  ring[q].start = sessions /\ lastAvail[q] <= ring[q].idx
    <3>1. CASE q \in enable
      BY <3>1
    <3>2. CASE q \notin enable
      <4>1. q \in Queues /\ lastAvail[q] = 0 /\ ring[q].idx = 0
        BY <2>2, <2>4, <3>2
      <4>2. QED
        BY <2>4, <4>1
    <3>3. QED
      BY <3>1, <3>2
  <2>6. QED
    BY <2>1, <2>2, <2>3, <2>4, <2>5
<1>8. ASSUME Fill PROVE QueueInv'
  <2>1. UNCHANGED <<lastAvail, enable, sessions, rstate>> /\ core = "fill"
        /\ core' = "kick"
    BY <1>8 DEF Fill, Goto
  <2>2. ASSUME NEW q \in Queues
        PROVE  /\ ring'[q].start = ring[q].start
               /\ ring[q].idx <= ring'[q].idx /\ ring'[q].idx \in Nat
    BY <1>8, <2>1 DEF Fill
  <2>3. ASSUME NEW q \in enable PROVE lastAvail[q] <= ring'[q].idx
    <3>1. lastAvail[q] \in Nat /\ ring[q].idx \in Nat /\ lastAvail[q] <= ring[q].idx
      OBVIOUS
    <3>2. QED
      BY <2>2, <3>1
  <2>4. QED
    BY <2>1, <2>2, <2>3
<1>9. ASSUME NEW q \in Queues, Submit(q) PROVE QueueInv'
  <2>1. UNCHANGED <<lastAvail, enable, sessions, rstate, core>>
        /\ core \in {"unplug", "idle"}
    BY <1>9 DEF Submit
  <2>2. ASSUME NEW k \in Queues
        PROVE  /\ ring'[k].start = ring[k].start
               /\ ring[k].idx <= ring'[k].idx /\ ring'[k].idx \in Nat
    BY <1>9, <2>1 DEF Submit
  <2>3. ASSUME NEW k \in enable PROVE lastAvail[k] <= ring'[k].idx
    <3>1. lastAvail[k] \in Nat /\ ring[k].idx \in Nat /\ lastAvail[k] <= ring[k].idx
      OBVIOUS
    <3>2. QED
      BY <2>2, <3>1
  <2>4. QED
    BY <2>1, <2>2, <2>3
<1>10. ASSUME NEW q \in Queues, Kick(q) PROVE QueueInv'
  BY <1>10 DEF Kick, Doorbell
<1>11. ASSUME BootDone \/ HandleError \/ CrashWork \/ StopBegin \/ Unplug
      PROVE  QueueInv'
  BY <1>11 DEF BootDone, HandleError, CrashWork, StopBegin, Unplug, Goto
<1>12. ASSUME Publish \/ Release \/ Poll \/ Learn \/ Walk PROVE QueueInv'
  BY <1>12 DEF Publish, Release, Poll, Learn, Walk, RscPublish, Raise, Goto,
     ResetRelease
<1>13. ASSUME ActivateSelect \/ ActivateProgram \/ Negotiate \/ ProbeKick \/ Show
      PROVE  QueueInv'
  BY <1>13 DEF ActivateSelect, ActivateProgram, Negotiate, ProbeKick, Show,
     Goto, MaySelect, Doorbell, Done, MayShow
<1>14. ASSUME UNCHANGED vars PROVE QueueInv'
  BY <1>14 DEF vars
<1>15. QED
  BY <1>1, <1>2, <1>3, <1>4, <1>5, <1>6, <1>7, <1>8, <1>9, <1>10, <1>11,
     <1>12, <1>13, <1>14
     DEF Next, CoreStep, ServiceStep

\* Every step keeps what is known of the notifyids on both sides.
LEMMA TableStep == ASSUME IInv, [Next]_vars PROVE TableInv'
<1>0. QueueType /\ CountType /\ StateType /\ TaskInv /\ QueueInv /\ TableInv
  BY DEF IInv, TypeOK
<1> USE <1>0, LifecycleAssumption DEF TableInv, QueueInv, TaskInv, QueueType,
        CountType, StateType, Quiet, Active, Queues, fwVars, tableVars,
        windowVars, queueVars, errorVars, stateVars, coreVars, driverVars,
        hostVars, showVars
<1>1. ASSUME NEW bad, NEW taken \in [Queues -> 0 .. RxBufs + MaxHeads],
              Service(bad, taken)
      PROVE  TableInv'
  BY <1>1 DEF Service, Raise, Pending, Least
<1>2. ASSUME Stop PROVE TableInv'
  BY <1>2 DEF Stop, ResetAssert, Purge, Goto, Done
<1>3. ASSUME Load PROVE TableInv'
  BY <1>3 DEF Load, Goto
<1>4. ASSUME Invalidate PROVE TableInv'
  BY <1>4 DEF Invalidate, Goto
<1>5. ASSUME Publish PROVE TableInv'
  BY <1>5 DEF Publish, RscPublish, Raise, Goto
<1>6. ASSUME Walk PROVE TableInv'
  BY <1>6 DEF Walk, Goto
<1>7. ASSUME ActivateEnable PROVE TableInv'
  BY <1>7 DEF ActivateEnable, VqEnable, LastQueue
<1>8. ASSUME NEW q \in Queues, Submit(q) PROVE TableInv'
  BY <1>8 DEF Submit
<1>9. ASSUME NEW q \in Queues, Kick(q) PROVE TableInv'
  BY <1>9 DEF Kick, Doorbell
<1>10. ASSUME BootDone \/ Crash \/ HandleError \/ CrashWork \/ BootBegin
      PROVE  TableInv'
  BY <1>10 DEF BootDone, Crash, HandleError, CrashWork, BootBegin, Purge,
     Raise
<1>11. ASSUME StopBegin \/ Unplug \/ Release \/ Poll \/ Learn PROVE TableInv'
  BY <1>11 DEF StopBegin, Unplug, Release, Poll, Learn, Goto, ResetRelease,
     Raise
<1>12. ASSUME ActivateSelect \/ ActivateProgram \/ Negotiate \/ Fill \/ ProbeKick
      PROVE  TableInv'
  BY <1>12 DEF ActivateSelect, ActivateProgram, Negotiate, Fill, ProbeKick,
     Goto, MaySelect, Doorbell, Done
<1>13. ASSUME Show PROVE TableInv'
  BY <1>13 DEF Show, MayShow
<1>14. ASSUME UNCHANGED vars PROVE TableInv'
  BY <1>14 DEF vars
<1>15. QED
  BY <1>1, <1>2, <1>3, <1>4, <1>5, <1>6, <1>7, <1>8, <1>9, <1>10, <1>11,
     <1>12, <1>13, <1>14
     DEF Next, CoreStep, ServiceStep

\* Every step keeps the timer and the generation under control.
LEMMA GenStep == ASSUME IInv, [Next]_vars PROVE GenInv'
<1>0. QueueType /\ CountType /\ StateType /\ TaskInv /\ GenInv
  BY DEF IInv, TypeOK
<1> USE <1>0, LifecycleAssumption DEF GenInv, TaskInv, QueueType, CountType,
        StateType, Quiet, Active, fwVars, tableVars, windowVars, queueVars,
        errorVars, stateVars, coreVars, driverVars, hostVars, showVars
<1>1. ASSUME BootDone PROVE GenInv'
  BY <1>1 DEF BootDone
<1>2. ASSUME NEW bad, NEW taken \in [Queues -> 0 .. RxBufs + MaxHeads],
              Service(bad, taken)
      PROVE  GenInv'
  BY <1>2 DEF Service, Raise, Pending, Least
<1>3. ASSUME Stop PROVE GenInv'
  BY <1>3 DEF Stop, ResetAssert, Purge, Goto, Done
<1>4. ASSUME Release PROVE GenInv'
  BY <1>4 DEF Release, ResetRelease, Raise, Goto
<1>5. ASSUME Poll PROVE GenInv'
  BY <1>5 DEF Poll, Goto
<1>6. ASSUME Learn PROVE GenInv'
  BY <1>6 DEF Learn, Goto
<1>7. ASSUME Walk PROVE GenInv'
  BY <1>7 DEF Walk, Goto
<1>8. ASSUME NEW q \in Queues, Submit(q) PROVE GenInv'
  BY <1>8 DEF Submit
<1>9. ASSUME NEW q \in Queues, Kick(q) PROVE GenInv'
  BY <1>9 DEF Kick, Doorbell
<1>10. ASSUME Crash \/ HandleError \/ CrashWork \/ BootBegin \/ StopBegin
      PROVE  GenInv'
  BY <1>10 DEF Crash, HandleError, CrashWork, BootBegin, StopBegin, Purge,
     Raise
<1>11. ASSUME Unplug \/ Load \/ Invalidate \/ Publish \/ ActivateSelect
      PROVE  GenInv'
  BY <1>11 DEF Unplug, Load, Invalidate, Publish, ActivateSelect, Goto,
     RscPublish, Raise, MaySelect
<1>12. ASSUME ActivateProgram \/ ActivateEnable \/ Negotiate \/ Fill \/ ProbeKick
      PROVE  GenInv'
  BY <1>12 DEF ActivateProgram, ActivateEnable, Negotiate, Fill, ProbeKick,
     Goto, VqEnable, LastQueue, Doorbell, Done
<1>13. ASSUME Show PROVE GenInv'
  BY <1>13 DEF Show, MayShow
<1>14. ASSUME UNCHANGED vars PROVE GenInv'
  BY <1>14 DEF vars
<1>15. QED
  BY <1>1, <1>2, <1>3, <1>4, <1>5, <1>6, <1>7, <1>8, <1>9, <1>10, <1>11,
     <1>12, <1>13, <1>14
     DEF Next, CoreStep, ServiceStep

\* Every step keeps a crash from being forgotten.
LEMMA CrashStep == ASSUME IInv, [Next]_vars PROVE CrashInv'
<1>0. QueueType /\ CountType /\ StateType /\ TaskInv /\ GenInv /\ CrashInv
  BY DEF IInv, TypeOK
<1> USE <1>0, LifecycleAssumption DEF CrashInv, CrashNotMissed, TaskInv, GenInv,
        QueueType, CountType, StateType, Quiet, Active, fwVars, tableVars,
        windowVars, queueVars, errorVars, stateVars, coreVars, driverVars,
        hostVars, showVars
<1>1. ASSUME NEW bad, NEW taken \in [Queues -> 0 .. RxBufs + MaxHeads],
              Service(bad, taken)
      PROVE  CrashInv'
  BY <1>1 DEF Service, Raise, Pending, Least
<1>2. ASSUME Crash PROVE CrashInv'
  BY <1>2 DEF Crash, Purge, Raise
<1>3. ASSUME HandleError PROVE CrashInv'
  BY <1>3 DEF HandleError
<1>4. ASSUME CrashWork PROVE CrashInv'
  BY <1>4 DEF CrashWork
<1>5. ASSUME Stop PROVE CrashInv'
  BY <1>5 DEF Stop, ResetAssert, Purge, Goto, Done
<1>6. ASSUME Poll PROVE CrashInv'
  BY <1>6 DEF Poll, Goto
<1>7. ASSUME NEW q \in Queues, Submit(q) PROVE CrashInv'
  BY <1>7 DEF Submit
<1>8. ASSUME NEW q \in Queues, Kick(q) PROVE CrashInv'
  BY <1>8 DEF Kick, Doorbell
<1>9. ASSUME BootDone \/ BootBegin \/ StopBegin \/ Unplug \/ Load
      PROVE  CrashInv'
  BY <1>9 DEF BootDone, BootBegin, StopBegin, Unplug, Load, Goto
<1>10. ASSUME Invalidate \/ Publish \/ Release \/ Learn \/ Walk PROVE CrashInv'
  BY <1>10 DEF Invalidate, Publish, Release, Learn, Walk, Goto, RscPublish,
     Raise, ResetRelease
<1>11. ASSUME ActivateSelect \/ ActivateProgram \/ ActivateEnable \/ Negotiate \/ Fill
      PROVE  CrashInv'
  BY <1>11 DEF ActivateSelect, ActivateProgram, ActivateEnable, Negotiate,
     Fill, Goto, MaySelect, VqEnable, LastQueue
<1>12. ASSUME ProbeKick \/ Show PROVE CrashInv'
  BY <1>12 DEF ProbeKick, Show, Doorbell, Done, MayShow
<1>13. ASSUME UNCHANGED vars PROVE CrashInv'
  BY <1>13 DEF vars
<1>14. QED
  BY <1>1, <1>2, <1>3, <1>4, <1>5, <1>6, <1>7, <1>8, <1>9, <1>10, <1>11,
     <1>12, <1>13
     DEF Next, CoreStep, ServiceStep

-----------------------------------------------------------------------------
\* The invariant holds throughout.
LEMMA Invariance == Spec => []IInv
<1>1. IInv /\ [Next]_vars => IInv'
  BY FlagStep, StateStep, CountStep, QueueTypeStep, TaskStep, WindowStep,
     QueueStep, TableStep, GenStep, CrashStep DEF IInv, TypeOK
<1>2. QED
  BY InitInv, <1>1, PTL DEF Spec

\* Type correctness of the remoteproc glue, the transport and the device's side
\* of a boot.
THEOREM TypeCorrect == Spec => []TypeOK
BY Invariance, PTL DEF IInv

\* Every queue that is enabled describes its own ring, whatever readers of
\* debugfs/vring do with VQ_SELECT meanwhile.
THEOREM RingsAreProgrammed == Spec => []RingsProgrammed
<1>1. IInv => RingsProgrammed
  BY DEF IInv, WindowInv
<1>2. QED
  BY Invariance, <1>1, PTL

\* The device reads only rings of the last start, and never ahead of them.
THEOREM RingsAreFresh == Spec => []FreshRings
<1>1. IInv => FreshRings
  BY DEF IInv, QueueInv
<1>2. QED
  BY Invariance, <1>1, PTL

\* A queue that is enabled is known by its notifyid on both sides, unless the
\* image's table did not fit into the shadow page.
THEOREM QueuesAreRoutable == Spec => []Routable
<1>1. IInv => Routable
  BY DEF IInv, TypeOK, QueueType, TableInv, Routable
<1>2. QED
  BY Invariance, <1>1, PTL

\* Driver and device agree on the generation, and no boot timer is left behind
\* a reset to change it.
THEOREM GenerationsAgree == Spec => []GenerationAgrees
<1>1. IInv => GenerationAgrees
  BY DEF IInv, GenInv, GenerationAgrees
<1>2. QED
  BY Invariance, <1>1, PTL

\* No crash is forgotten, whenever in a start or a recovery it happens.
THEOREM CrashesAreSeen == Spec => []CrashNotMissed
<1>1. IInv => CrashNotMissed
  BY DEF IInv, CrashInv
<1>2. QED
  BY Invariance, <1>1, PTL
=============================================================================
