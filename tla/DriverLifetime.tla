--------------------------- MODULE DriverLifetime ---------------------------
(***************************************************************************)
(* The life of the driver: the module's own registrations, the probe of a  *)
(* card step by step, the managed release that undoes it, and everything   *)
(* that may run meanwhile: interrupt handlers, the firmware, the sysfs and *)
(* debugfs files and the applications that hold the character device.      *)
(*                                                                         *)
(* Source: module/src/lifecycle.c and the *_initialize() function of every *)
(* component, cdev.c (open, release, ioctl), cdev-sysfs.c, debugfs.c,      *)
(* irq.c.                                                                  *)
(*                                                                         *)
(* The kernel's share is external: managed resources are released in the   *)
(* reverse order of their acquisition, after the driver's empty remove();  *)
(* releasing an interrupt, a sysfs node or a debugfs directory waits for   *)
(* whoever is inside it; an open file keeps the module, not the card.      *)
(***************************************************************************)
EXTENDS Integers, Sequences, FiniteSets

CONSTANTS
  Apps,      \* processes that use /dev/velocitor0
  MaxBinds   \* bound: how many times a card is bound

ASSUME BindAssumption == MaxBinds \in Nat \ {0}

\* What init_() registers, in this order.
Layers == <<"root", "class", "rpmsg", "virtio", "pci">>

\* exit_() with the sub-drivers unregistered before the card.
ExitOrderCardLast == <<"rpmsg", "virtio", "pci", "class", "root">>

\* The order in which exit_() gives them back.
ExitOrder == <<"pci", "rpmsg", "virtio", "class", "root">>

\* The registers and the aperture.
BarSteps == <<"bar0", "bar2">>

\* The vectors, then a handler on each.
IrqSteps == <<"vectors", "irq">>

\* The rproc, its shadow table, and the boot.
RprocSteps == <<"handle", "rsc", "rproc">>

\* The device number, the cdev, and its node with the sysfs attributes.
CdevSteps == <<"region", "cdev", "node">>

\* Interrupts requested as soon as the card is enabled.
StepsIrqEarly ==
  <<"device", "debugfs", "enable">> \o IrqSteps \o BarSteps
  \o <<"identity", "counters", "window", "pool", "vring", "ctrl", "data", "dtrace">>
  \o RprocSteps \o CdevSteps

\* The firmware booted before the data plane has its memory.
StepsBootEarly ==
  <<"device", "debugfs", "enable">> \o BarSteps
  \o <<"identity", "counters", "window", "pool", "vring">> \o IrqSteps
  \o <<"ctrl">> \o RprocSteps \o <<"data", "dtrace">> \o CdevSteps

\* What velocitor_pci_probe() acquires, in this order.
Steps ==
  <<"device", "debugfs", "enable">> \o BarSteps
  \o <<"identity", "counters", "window", "pool", "vring">> \o IrqSteps
  \o <<"ctrl", "data", "dtrace">> \o RprocSteps \o CdevSteps

\* The files of velocitor_counters_initialize() and velocitor_dma_initialize().
CounterFiles == {"counters", "counters_reset"}
PoolFiles    == {"dma_pool", "dma_ctrl"}

\* The debugfs files each step creates.
FilesOf(step) ==
  CASE step = "debugfs"  -> {"inject_error"}
    [] step = "identity" -> {"identity"}
    [] step = "counters" -> CounterFiles
    [] step = "window"   -> {"mem"}
    [] step = "pool"     -> PoolFiles
    [] step = "vring"    -> {"vring"}
    [] step = "dtrace"   -> {"trace"}
    [] OTHER             -> {}

\* What the operations behind each file dereference, besides the device.
Uses(file) ==
  CASE file \in {"inject_error", "counters", "counters_reset"} -> {"bar0"}
    [] file = "identity" -> {}
    [] file = "mem"      -> {"bar0", "bar2", "window"}
    [] file = "dma_pool" -> {"pool"}
    [] file = "dma_ctrl" -> {"bar0", "pool"}
    [] file = "vring"    -> {"bar0", "vring"}
    [] file = "trace"    -> {"bar2", "dtrace"}

Files   == UNION {FilesOf(Steps[i]) : i \in DOMAIN Steps}
Vectors == {"config", "queue", "error"}

VARIABLES
  mod,      \* registrations the module holds
  todo,     \* registrations it is about to give back
  loading,  \* init_() is running
  held,     \* how many of Steps the card holds
  phase,    \* "unbound", "probing", "bound" or "unbinding"
  inst,     \* how many cards were bound: names the struct velocitor_dev
  dir,      \* device->debugfs: "none", "live" or "dangling"
  files,    \* debugfs files that exist
  user,     \* debugfs file an operation is inside, "none" if nobody
  shows,    \* a sysfs attribute is being read
  handle,   \* device->rproc.handle is set
  fw,       \* the firmware: "off", "up" or "crashed"
  pending,  \* vectors raised
  handler,  \* where each interrupt handler is
  usage,    \* device->cdev.usageFlags
  app       \* where each application is, and the card it holds

modVars  == <<mod, todo, loading>>
cardVars == <<held, phase, inst, dir, files, handle>>
actVars  == <<user, shows>>
irqVars  == <<fw, pending, handler>>
appVars  == <<usage, app>>
vars     == <<modVars, cardVars, actVars, irqVars, appVars>>

Elems(s) == {s[i] : i \in DOMAIN s}

ModType ==
  /\ mod \subseteq Elems(Layers) /\ todo \in Seq(Elems(Layers))
  /\ loading \in BOOLEAN

CardType ==
  /\ held \in 0 .. Len(Steps) /\ inst \in 0 .. MaxBinds
  /\ phase \in {"unbound", "probing", "bound", "unbinding"}
  /\ dir \in {"none", "live", "dangling"} /\ files \subseteq Files
  /\ handle \in BOOLEAN

ActType ==
  /\ user \in Files \cup {"none"} /\ shows \in BOOLEAN
  /\ fw \in {"off", "up", "crashed"} /\ pending \subseteq Vectors
  /\ handler \in [Vectors -> {"idle", "registers", "report"}]

AppType ==
  /\ usage \in BOOLEAN
  /\ app \in [Apps -> [at : {"away", "opening", "open", "ioctl", "closing"},
                       card : 0 .. MaxBinds]]

TypeOK == ModType /\ CardType /\ ActType /\ AppType

Init ==
  /\ mod = {} /\ todo = <<>> /\ loading = FALSE
  /\ held = 0 /\ phase = "unbound" /\ inst = 0
  /\ dir = "none" /\ files = {} /\ user = "none" /\ shows = FALSE
  /\ handle = FALSE /\ fw = "off" /\ pending = {} /\ handler = [v \in Vectors |-> "idle"]
  /\ usage = FALSE
  /\ app = [a \in Apps |-> [at |-> "away", card |-> 0]]

\* The card holds this.
Has(step) == \E i \in 1 .. held : Steps[i] = step

\* Application a's card is the one that is bound, and not freed.
CardLives(a) == app[a].card = inst /\ Has("device")

-----------------------------------------------------------------------------
(***************************************************************************)
(* The module: init_() and exit_().                                        *)
(***************************************************************************)

Unloading == todo # <<>>

Load ==
  /\ mod = {} /\ ~loading /\ ~Unloading
  /\ inst < MaxBinds
  /\ loading' = TRUE
  /\ UNCHANGED <<mod, todo, cardVars, actVars, irqVars, appVars>>

Register ==
  /\ loading
  /\ LET n == Cardinality(mod) IN
     /\ mod' = mod \cup {Layers[n + 1]}
     /\ loading' = (n + 1 < Len(Layers))
  /\ UNCHANGED <<todo, cardVars, actVars, irqVars, appVars>>

\* A registration fails: the labels at the end of init_() undo the earlier
\* ones in reverse.  Creating the debugfs root is not checked.
RegisterFails ==
  /\ loading /\ mod # {}
  /\ loading' = FALSE
  /\ todo' = [i \in 1 .. Cardinality(mod) |-> Layers[Cardinality(mod) + 1 - i]]
  /\ UNCHANGED <<mod, cardVars, actVars, irqVars, appVars>>

\* An open file of the module keeps it loaded.
Pinned == user # "none" \/ \E a \in Apps : app[a].at # "away"

Unload ==
  /\ mod = Elems(Layers) /\ ~Unloading
  /\ ~Pinned
  /\ todo' = ExitOrder
  /\ UNCHANGED <<mod, loading, cardVars, actVars, irqVars, appVars>>

\* pci_unregister_driver() unbinds the card before it returns.
Unregister ==
  /\ Unloading
  /\ Head(todo) = "pci" => phase = "unbound"
  /\ mod' = mod \ {Head(todo)}
  /\ todo' = Tail(todo)
  /\ UNCHANGED <<loading, cardVars, actVars, irqVars, appVars>>

Module == Load \/ Register \/ RegisterFails \/ Unload \/ Unregister

-----------------------------------------------------------------------------
(***************************************************************************)
(* The card: velocitor_pci_probe() and the managed release.                *)
(***************************************************************************)

Bind ==
  /\ phase = "unbound" /\ "pci" \in mod /\ ~Unloading
  /\ inst < MaxBinds
  /\ inst' = inst + 1
  /\ phase' = "probing"
  /\ held' = 1
  /\ handle' = FALSE /\ usage' = FALSE
  /\ UNCHANGED <<dir, files, modVars, actVars, irqVars, app>>

\* The next step of the probe.  Whatever becomes of the debugfs directory the
\* probe goes on, and later steps put their files into it.  The last step of
\* velocitor_remoteproc_initialize() boots the firmware.
ProbeStep ==
  /\ phase = "probing" /\ held < Len(Steps)
  /\ LET step == Steps[held + 1] IN
     /\ held' = held + 1
     /\ phase' = IF held' = Len(Steps) THEN "bound" ELSE "probing"
     /\ IF step = "debugfs" THEN dir' \in {"live", "dangling"} ELSE UNCHANGED dir
     /\ files' = IF dir' = "live" THEN files \cup FilesOf(step) ELSE files
     /\ handle' = (handle \/ step = "handle")
     /\ IF step = "rproc"
          THEN fw' = "up" /\ pending' = pending \cup {"config"}
          ELSE UNCHANGED <<fw, pending>>
  /\ UNCHANGED <<inst, handler, modVars, actVars, appVars>>

\* The next step fails and probe returns its error.
ProbeFails ==
  /\ phase = "probing"
  /\ Steps[held + 1] \notin {"debugfs", "identity"}
  /\ phase' = "unbinding"
  /\ UNCHANGED <<held, inst, dir, files, handle, modVars, actVars, irqVars, appVars>>

\* The driver is unbound by hand, or by exit_().
Unbind ==
  /\ phase = "bound"
  /\ phase' = "unbinding"
  /\ UNCHANGED <<held, inst, dir, files, handle, modVars, actVars, irqVars, appVars>>

\* Who must have left before a step can be undone.
Left(step) ==
  CASE step = "debugfs" -> user = "none"
    [] step = "node"    -> ~shows
    [] step = "irq"     -> \A v \in Vectors : handler[v] = "idle"
    [] OTHER            -> TRUE

\* The newest resource is released.  Deleting the rproc stops the firmware
\* (external: rproc_del() shuts down an rproc that it finds running);
\* device->rproc.handle keeps its value.
Release ==
  /\ phase = "unbinding"
  /\ LET step == Steps[held] IN
     /\ Left(step)
     /\ held' = held - 1
     /\ phase' = IF held' = 0 THEN "unbound" ELSE phase
     /\ fw' = IF step = "rproc" THEN "off" ELSE fw
     /\ pending' = IF step = "irq" THEN {} ELSE pending
     /\ IF step = "debugfs"
          THEN dir' = "none" /\ files' = {}
          ELSE UNCHANGED <<dir, files>>
  /\ UNCHANGED <<inst, handle, handler, modVars, actVars, appVars>>

Card == Bind \/ ProbeStep \/ ProbeFails \/ Unbind \/ Release

-----------------------------------------------------------------------------
(***************************************************************************)
(* What runs on the card.                                                  *)
(***************************************************************************)

\* The firmware answers on a queue, or crashes and raises the error vector.
FirmwareWorks ==
  /\ fw = "up"
  /\ \/ /\ pending' = pending \cup {"queue"}
        /\ UNCHANGED fw
     \/ /\ pending' = pending \cup {"error"}
        /\ fw' = "crashed"
  /\ UNCHANGED <<handler, modVars, cardVars, actVars, appVars>>

\* The recovery of remoteproc, through the driver's stop and start.
Recover ==
  /\ fw = "crashed" /\ Has("rproc")
  /\ fw' = "up"
  /\ pending' = pending \cup {"config"}
  /\ UNCHANGED <<handler, modVars, cardVars, actVars, appVars>>

\* A handler starts on the registers of BAR0, or on its vring.
Interrupt(v) ==
  /\ v \in pending /\ Has("irq")
  /\ handler[v] = "idle"
  /\ pending' = pending \ {v}
  /\ handler' = [handler EXCEPT ![v] = "registers"]
  /\ UNCHANGED <<fw, modVars, cardVars, actVars, appVars>>

\* The vector of the queues and of errors go on to remoteproc, if the device
\* has a handle; that of the configuration is done.
HandlerStep(v) ==
  /\ \/ /\ handler[v] = "registers"
        /\ handler' = [handler EXCEPT ![v] =
             IF v # "config" /\ handle THEN "report" ELSE "idle"]
     \/ /\ handler[v] = "report"
        /\ handler' = [handler EXCEPT ![v] = "idle"]
  /\ UNCHANGED <<fw, pending, modVars, cardVars, actVars, appVars>>

\* One of the attributes of cdev-sysfs.c is read.
Show ==
  /\ ~shows /\ Has("node")
  /\ shows' = TRUE
  /\ UNCHANGED <<user, modVars, cardVars, irqVars, appVars>>

ShowEnd ==
  /\ shows
  /\ shows' = FALSE
  /\ UNCHANGED <<user, modVars, cardVars, irqVars, appVars>>

\* A debugfs file is opened and used.
Debug(f) ==
  /\ user = "none" /\ f \in files /\ ~Unloading
  /\ user' = f
  /\ UNCHANGED <<shows, modVars, cardVars, irqVars, appVars>>

\* The operation ends.  inject_error may make the device raise its error
\* vector, whatever state the firmware is in.
DebugEnd ==
  /\ user # "none"
  /\ user' = "none"
  /\ IF user = "inject_error"
       THEN /\ pending' \in {pending, pending \cup {"error"}}
            /\ fw' = IF fw = "up" /\ "error" \in pending' THEN "crashed" ELSE fw
       ELSE UNCHANGED <<pending, fw>>
  /\ UNCHANGED <<shows, handler, modVars, cardVars, appVars>>

Activity == \/ FirmwareWorks \/ Recover
            \/ \E v \in Vectors : Interrupt(v) \/ HandlerStep(v)
            \/ Show \/ ShowEnd
            \/ \E f \in Files : Debug(f)
            \/ DebugEnd

-----------------------------------------------------------------------------
(***************************************************************************)
(* The character device.                                                   *)
(***************************************************************************)

MoveApp(a, label) == app' = [app EXCEPT ![a].at = label]

\* chrdev_open() finds the cdev and takes a reference on the module.
OpenBegin(a) ==
  /\ app[a].at = "away" /\ Has("cdev") /\ ~Unloading
  /\ app' = [app EXCEPT ![a] = [at |-> "opening", card |-> inst]]
  /\ UNCHANGED <<usage, modVars, cardVars, actVars, irqVars>>

\* velocitor_cdev_open(): test_and_set_bit() in the device.  On a card that was
\* freed meanwhile the bit is whatever is there.
Open(a) ==
  /\ app[a].at = "opening"
  /\ IF CardLives(a)
       THEN /\ usage' = TRUE
            /\ MoveApp(a, IF usage THEN "away" ELSE "open")
       ELSE /\ MoveApp(a, "open") \/ MoveApp(a, "away")
            /\ UNCHANGED usage
  /\ UNCHANGED <<modVars, cardVars, actVars, irqVars>>

\* velocitor_cdev_ioctl(): any of the four commands, all through
\* file->private_data.
Ioctl(a) ==
  /\ app[a].at = "open"
  /\ MoveApp(a, "ioctl")
  /\ UNCHANGED <<usage, modVars, cardVars, actVars, irqVars>>

IoctlEnd(a) ==
  /\ app[a].at = "ioctl"
  /\ MoveApp(a, "open")
  /\ UNCHANGED <<usage, modVars, cardVars, actVars, irqVars>>

Close(a) ==
  /\ app[a].at = "open"
  /\ MoveApp(a, "closing")
  /\ UNCHANGED <<usage, modVars, cardVars, actVars, irqVars>>

\* velocitor_cdev_release(): clear_bit() in the device.
CloseEnd(a) ==
  /\ app[a].at = "closing"
  /\ MoveApp(a, "away")
  /\ usage' = IF CardLives(a) THEN FALSE ELSE usage
  /\ UNCHANGED <<modVars, cardVars, actVars, irqVars>>

Application(a) == \/ OpenBegin(a) \/ Open(a) \/ Ioctl(a) \/ IoctlEnd(a)
                  \/ Close(a) \/ CloseEnd(a)

-----------------------------------------------------------------------------
Next ==
  \/ Module
  \/ Card
  \/ Activity
  \/ \E a \in Apps : Application(a)

Spec == Init /\ [][Next]_vars
-----------------------------------------------------------------------------
(***************************************************************************)
(* Properties.                                                             *)
(***************************************************************************)

Held == {Steps[i] : i \in 1 .. held}

\* Whatever the kernel calls into the driver on its own finds what it is about,
\* in a probe that fails half way as in a release that races the last of them: an
\* interrupt handler the registers and the vrings, a reader of a sysfs attribute
\* or of a debugfs file the device, which neither kind of file survives.
CallbacksSafe ==
  /\ \A v \in Vectors :
       handler[v] = "registers" => {"device", "bar0", "vring"} \subseteq Held
  /\ shows => {"device", "identity"} \subseteq Held
  /\ user # "none" => "device" \in Held

\* Firmware that runs, or that a recovery may restart at any time, finds all
\* the memory the device reaches by DMA and all the driver's state behind the
\* two sub-drivers, at every step of the probe and of the release.
FirmwareBacked ==
  fw # "off" => {"bar0", "bar2", "pool", "vring", "irq", "ctrl", "data", "dtrace",
                 "rsc"} \subseteq Held

\* While a card is bound or on its way in or out, the sub-drivers that its
\* firmware's devices bind to and the class of its node are registered: a
\* failed init_() and exit_() unregister them around the card.
DriversPresent ==
  phase # "unbound" => {"root", "class", "rpmsg", "virtio"} \subseteq mod

\* Stated by the device specification, section 10.1: the character device
\* refuses every operation with -ENODEV while the sub-drivers are not ready.
\* After an unbind they are gone, and an open descriptor still leads every
\* operation into the device that was freed.
AppSafe ==
  \A a \in Apps :
    app[a].at \in {"ioctl", "closing"} => CardLives(a) /\ Has("bar0")

\* A debugfs file finds what it is about.  The directory is made before the
\* registers are mapped and removed after they are unmapped.
DebugfsSafe == user # "none" => Uses(user) \subseteq Held

\* What a handler reports to is there.  The handle stays in the device after
\* remoteproc has freed it, and vectors are released later.
ReportSafe == \A v \in Vectors : handler[v] = "report" => Has("handle")

\* The debugfs directory that later steps of the probe use exists, although
\* probe does not look at what velocitor_debugfs_initialize() returned.
DirectoryLive == phase = "probing" /\ held > 2 => dir = "live"
=============================================================================
