-------------------------------- MODULE Xhci --------------------------------
(***************************************************************************)
(* The xHCI driver from power-on to the end of the installer: taking the   *)
(* controller over, enumerating the ports, trying every device as a        *)
(* keyboard and then as a mass storage, and reading from the latter        *)
(* (driver/usb/xhci.cpp, keyboard/keyboard.cpp and                         *)
(* mass_storage/mass_storage.cpp).  The driver is sequential and polls; it *)
(* is in one step at a time and sends one thing per step.  The controller  *)
(* and the devices answer when they like, or report an error.              *)
(*                                                                         *)
(* A slot is named by its port, an endpoint by what it is used for, and a  *)
(* command or control request by the port and the step that sent it.       *)
(***************************************************************************)
EXTENDS UsbRings, FiniteSets

CONSTANTS NPorts,
          MaxFaults,    \* bound: errors and late answers in one behaviour
          MaxReads      \* bound: sectors that the installer reads

(***************************************************************************)
(* drv: where the driver is (step, port; issued: it has sent and polls),   *)
(* what the mass storage is being read for (job), g_usb_keyboard (kb, a    *)
(* slot or 0) and g_mass_storage (ms).                                     *)
(* bus: the state of the controller, the commands and control requests     *)
(* that have not been answered, the other transfer rings, and the          *)
(* endpoints that an error has halted.                                     *)
(***************************************************************************)
VARIABLES devices,      \* what is plugged into each port
          drv, bus,
          er,           \* the event ring
          marks,        \* what has happened out of the ordinary
          faults        \* for the bound

bootVars == <<devices, drv, bus, er, marks, faults>>

Ports == 1 .. NPorts
Classes == {"keyboard", "storage", "other"}
HcSteps == {"stop", "reset", "start"}
Commands == {"slot", "address", "kbep", "msin", "msout"}
KeyboardSteps == {"kbdev", "kbhead", "kbconf", "kbep"}
Controls == {"dev", "kbdev", "kbhead", "kbconf", "mshead", "msconf"}
Bulks == {"cbw", "data", "csw"}
Endpoint == [kbep |-> "int", msin |-> "in", msout |-> "out", cbw |-> "out", data |-> "in", csw |-> "in"]
NoStorage == [slot |-> 0, found |-> FALSE, ready |-> FALSE]
Event(type, p, ep, s, ok) == [type |-> type, port |-> p, ep |-> ep, step |-> s, ok |-> ok]

BootInit ==
    /\ devices \in [Ports -> Classes \cup {"none"}]
    /\ \E hc \in {"running", "halted"} :
         bus = [hc |-> hc, cmds |-> <<>>,
                ep0 |-> [p \in Ports |-> <<>>],
                eps |-> [p \in Ports |-> [e \in {"int", "in", "out"} |-> NoRing]],
                halted |-> {}]
    /\ drv = [step |-> "handoff", port |-> 1, issued |-> FALSE,
              job |-> "capacity", reads |-> 0, kb |-> 0, ms |-> NoStorage]
    /\ er = NewEventRing
    /\ marks = {}
    /\ faults = 0

At(steps, issued) == drv.step \in steps /\ drv.issued = issued
Own == <<drv.port, drv.step>>

-----------------------------------------------------------------------------
(* Taking the controller over. *)

(* The BIOS gives the controller up, or the driver stops waiting for it. *)
BiosHandoff ==
    /\ drv.step = "handoff"
    /\ drv' = [drv EXCEPT !.step = "stop"]
    /\ UNCHANGED <<devices, bus, er, marks, faults>>

Goal == [stop |-> "halted", reset |-> "fresh", start |-> "running"]
Then == [stop |-> "reset", reset |-> "start", start |-> "port"]

(* Halt, reset, and with new rings run: each is requested and waited for. *)
RequestHc ==
    /\ At(HcSteps, FALSE)
    /\ drv' = [drv EXCEPT !.issued = TRUE]
    /\ UNCHANGED <<devices, bus, er, marks, faults>>

HcObeys ==
    /\ At(HcSteps, TRUE)
    /\ bus' = [bus EXCEPT !.hc = Goal[drv.step]]
    /\ UNCHANGED <<devices, drv, er, marks, faults>>

HcReady ==
    /\ At(HcSteps, TRUE)
    /\ bus.hc = Goal[drv.step]
    /\ drv' = [drv EXCEPT !.step = Then[drv.step], !.issued = FALSE]
    /\ UNCHANGED <<devices, bus, er, marks, faults>>

-----------------------------------------------------------------------------
(* The driver sends. *)

(* The reset of a port may, but need not, be reported by an event. *)
ResetPort ==
    /\ drv.step = "port"
    /\ drv.port \in Ports
    /\ IF devices[drv.port] = "none"
       THEN drv' = [drv EXCEPT !.port = @ + 1] /\ UNCHANGED er
       ELSE /\ drv' = [drv EXCEPT !.step = "slot"]
            /\ er' \in {er, Post(er, Event("port", drv.port, "", "", TRUE))}
    /\ UNCHANGED <<devices, bus, marks, faults>>

(* EnableSlot, AddressDevice, ConfigureEndpoint. *)
SendCommand ==
    /\ At(Commands, FALSE)
    /\ drv' = [drv EXCEPT !.issued = TRUE]
    /\ bus' = [bus EXCEPT !.cmds = Append(@, Own),
                          !.eps[drv.port] = [e \in DOMAIN @ |->
                              IF drv.step \in DOMAIN Endpoint /\ e = Endpoint[drv.step] /\ @[e] = NoRing
                              THEN NewRing ELSE @[e]]]
    /\ UNCHANGED <<devices, er, marks, faults>>

(* The status stage is reported by an event as well (a mutant). *)
ControlInStatusEvent ==
    /\ At(Controls, FALSE)
    /\ drv' = [drv EXCEPT !.issued = TRUE]
    /\ bus' = [bus EXCEPT !.ep0[drv.port] = @ \o <<Own, Own>>]
    /\ UNCHANGED <<devices, er, marks, faults>>

(* Only the data stage is reported by an event. *)
ControlIn ==
    /\ At(Controls, FALSE)
    /\ drv' = [drv EXCEPT !.issued = TRUE]
    /\ bus' = [bus EXCEPT !.ep0[drv.port] = Append(@, Own)]
    /\ UNCHANGED <<devices, er, marks, faults>>

(***************************************************************************)
(* SendCBW, TransferData and ReceiveCSW put a TRB on a ring and poll.  The *)
(* address of an endpoint that was never found is 0, which stands for the  *)
(* control endpoint; a ring that was never made gets no TRB, and they poll *)
(* all the same.                                                           *)
(***************************************************************************)
(* The status is awaited on the endpoint of the command (a mutant). *)
PolledEndpointOfCommand == IF drv.ms.found THEN Endpoint["cbw"] ELSE "ep0"
PolledEndpoint == IF drv.ms.found THEN Endpoint[drv.step] ELSE "ep0"

SendBulk ==
    /\ At(Bulks, FALSE)
    /\ drv' = [drv EXCEPT !.issued = TRUE]
    /\ bus' = IF ~drv.ms.found
              THEN [bus EXCEPT !.ep0[drv.ms.slot] = Append(@, <<drv.ms.slot, drv.step>>)]
              ELSE [bus EXCEPT !.eps[drv.ms.slot][Endpoint[drv.step]] =
                                   IF @ = NoRing THEN @ ELSE SendNormalTRB(@)]
    /\ UNCHANGED <<devices, er, marks, faults>>

-----------------------------------------------------------------------------
(* The driver goes on with the next step, or with the next port.            *)

After == [slot |-> "address", address |-> "dev", dev |-> "kbdev", kbdev |-> "kbhead",
          kbhead |-> "kbconf", kbconf |-> "kbep", mshead |-> "msconf", msconf |-> "msin",
          msin |-> "msout", msout |-> "cbw"]

NextPort(d) == [d EXCEPT !.step = "port", !.port = @ + 1, !.job = "capacity"]

(* A device that is no keyboard takes the place of the last one in          *)
(* g_usb_keyboard, which becomes nullptr, and that of g_mass_storage.       *)
Proceed(good) ==
    LET d == [drv EXCEPT !.issued = FALSE]
    IN  IF good /\ d.step = "kbep" THEN NextPort(d)
        ELSE IF good
        THEN [d EXCEPT !.step = After[d.step],
                       !.kb = IF d.step = "dev" THEN d.port ELSE @,
                       !.ms.found = @ \/ d.step = "msconf"]
        ELSE IF d.step \in KeyboardSteps
        THEN [d EXCEPT !.step = "mshead", !.kb = 0, !.ms = [NoStorage EXCEPT !.slot = d.port]]
        ELSE NextPort(d)

(* ReadCapacity is followed by a read of sector 0, in the installer by more. *)
AfterStatus(good) ==
    LET d == [drv EXCEPT !.issued = FALSE]
    IN  IF d.job = "install" THEN [d EXCEPT !.step = "installer"]
        ELSE IF good /\ d.job = "capacity"
        THEN [d EXCEPT !.job = "probe", !.step = "cbw", !.ms.ready = TRUE]
        ELSE NextPort(d)

-----------------------------------------------------------------------------
(* The driver polls the event ring. *)

Behind(r) == IF InRing(r) THEN {} ELSE {"behind the ring"}
Dropped(ev) == IF ev.ep = "int" THEN {"report dropped"} ELSE {}

CommandEvent ==
    /\ At(Commands, TRUE)
    /\ HasEvent(er)
    /\ er' = TakeEvent(er)
    /\ LET ev == Current(er)
           own == ev.type = "command" /\ <<ev.port, ev.step>> = Own
           armed == own /\ ev.ok /\ drv.step = "kbep"
       IN  /\ drv' = IF own THEN Proceed(ev.ok) ELSE drv
           /\ bus' = IF armed THEN [bus EXCEPT !.eps[drv.port]["int"] = SendNormalTRB(@)] ELSE bus
    /\ marks' = marks \cup Behind(er') \cup Dropped(Current(er))
    /\ UNCHANGED <<devices, faults>>

(* Any transfer event does, whichever device and endpoint it is from. *)
EndsControlIn(ev) == ev.type = "transfer"

(* What the buffer holds when the answer was not its own is unknown. *)
Parsed(class, own) == IF own THEN {devices[drv.port] = class} ELSE BOOLEAN

ControlEvent ==
    /\ At(Controls, TRUE)
    /\ HasEvent(er)
    /\ er' = TakeEvent(er)
    /\ LET ev == Current(er)
           own == <<ev.port, ev.step>> = Own
           fits == CASE drv.step = "kbconf" -> Parsed("keyboard", own)
                     [] drv.step = "msconf" -> Parsed("storage", own)
                     [] OTHER -> {TRUE}
       IN  IF EndsControlIn(ev)
           THEN /\ \E fit \in fits : drv' = Proceed(ev.ok /\ fit)
                /\ marks' = marks \cup Behind(er')
                              \cup (IF own THEN {} ELSE {"foreign answer"})
                              \cup Dropped(ev)
           ELSE /\ UNCHANGED drv
                /\ marks' = marks \cup Behind(er')
    /\ UNCHANGED <<devices, bus, faults>>

(***************************************************************************)
(* PollEndpoint discards the events of other endpoints.  The completion    *)
(* code is not looked at; after an error the status that is examined is    *)
(* whatever the memory holds.                                              *)
(***************************************************************************)
BulkEvent ==
    /\ At(Bulks, TRUE)
    /\ HasEvent(er)
    /\ er' = Advance(er, er.idx)
    /\ LET ev == Current(er)
           own == ev.type = "transfer" /\ ev.port = drv.ms.slot /\ ev.ep = PolledEndpoint
       IN  /\ IF ~own THEN UNCHANGED drv
              ELSE IF drv.step = "csw"
              THEN \E good \in BOOLEAN : (ev.ok => good) /\ drv' = AfterStatus(good)
              ELSE drv' = [drv EXCEPT !.issued = FALSE,
                                      !.step = IF drv.step = "cbw" THEN "data" ELSE "csw"]
           /\ marks' = marks \cup Dropped(ev)
    /\ UNCHANGED <<devices, bus, faults>>

Elements(s) == {s[i] : i \in DOMAIN s}
AnswerDue ==
    \/ drv.step \in Commands /\ Own \in Elements(bus.cmds)
    \/ drv.step \in Controls /\ Own \in Elements(bus.ep0[drv.port])
         /\ <<drv.port, "ep0">> \notin bus.halted

(* The polls of the mass storage have no limit. *)
TimeOut ==
    /\ At(Commands \cup Controls, TRUE)
    /\ InRing(er)
    /\ ~HasEvent(er)
    /\ AnswerDue => faults < MaxFaults
    /\ faults' = IF AnswerDue THEN faults + 1 ELSE faults
    /\ marks' = IF AnswerDue THEN marks \cup {"timeout"} ELSE marks
    /\ drv' = Proceed(FALSE)
    /\ UNCHANGED <<devices, bus, er>>

(* EnableSlot stops the machine. *)
HostSystemError ==
    /\ At({"slot"}, TRUE)
    /\ faults < MaxFaults
    /\ faults' = faults + 1
    /\ marks' = marks \cup {"host system error"}
    /\ drv' = [drv EXCEPT !.step = "hlt"]
    /\ UNCHANGED <<devices, bus, er>>

(* RunInstaller asks only whether there is a g_mass_storage. *)
InstallerReads ==
    /\ \/ drv.step = "port" /\ drv.port \notin Ports
       \/ drv.step = "installer" /\ drv.reads < MaxReads
    /\ drv.ms.slot # 0
    /\ drv' = [drv EXCEPT !.step = "cbw", !.job = "install", !.reads = @ + 1]
    /\ marks' = IF drv.ms.ready THEN marks ELSE marks \cup {"no storage"}
    /\ UNCHANGED <<devices, bus, er, faults>>

(* Without NVMe, or without a mass storage, there is no installation. *)
BootEnds ==
    /\ drv.step = "installer" \/ (drv.step = "port" /\ drv.port \notin Ports)
    /\ drv' = [drv EXCEPT !.step = "run"]
    /\ UNCHANGED <<devices, bus, er, marks, faults>>

-----------------------------------------------------------------------------
(* The controller and the devices. *)

Fault(ok, what) ==
    /\ ok \/ faults < MaxFaults
    /\ faults' = IF ok THEN faults ELSE faults + 1
    /\ marks' = IF ok THEN marks ELSE marks \cup {what}

AnswerCommand(ok) ==
    /\ bus.cmds # <<>>
    /\ er' = Post(er, Event("command", Head(bus.cmds)[1], "", Head(bus.cmds)[2], ok))
    /\ bus' = [bus EXCEPT !.cmds = Tail(@)]
    /\ Fault(ok, "command failed")
    /\ UNCHANGED <<devices, drv>>

(* A TRB that is no control request is an error of the control endpoint. *)
AnswerControl(p, ok) ==
    LET req == Head(bus.ep0[p])
        done == ok /\ req[2] \in Controls
    IN  /\ bus.ep0[p] # <<>>
        /\ <<p, "ep0">> \notin bus.halted
        /\ er' = Post(er, Event("transfer", p, "ep0", req[2], done))
        /\ bus' = [bus EXCEPT !.ep0[p] = Tail(@),
                              !.halted = IF done THEN @ ELSE @ \cup {<<p, "ep0">>}]
        /\ Fault(ok, "request failed")
        /\ UNCHANGED <<devices, drv>>

AnswerBulk(p, e, ok) ==
    /\ devices[p] = "storage"
    /\ Armed(bus.eps[p][e])
    /\ <<p, e>> \notin bus.halted
    /\ er' = Post(er, Event("transfer", p, e, "", ok))
    /\ bus' = [bus EXCEPT !.eps[p][e] = Complete(@),
                          !.halted = IF ok THEN @ ELSE @ \cup {<<p, e>>}]
    /\ Fault(ok, "transfer failed")
    /\ UNCHANGED <<devices, drv>>

(* The driver, and everything that answers it. *)
BootStep ==
    \/ BiosHandoff \/ RequestHc \/ HcReady \/ ResetPort
    \/ SendCommand \/ ControlIn \/ SendBulk
    \/ CommandEvent \/ ControlEvent \/ BulkEvent \/ TimeOut \/ HostSystemError
    \/ InstallerReads \/ BootEnds

Answer(ok) ==
    \/ AnswerCommand(ok)
    \/ \E p \in Ports : AnswerControl(p, ok)
    \/ \E p \in Ports, e \in {"in", "out"} : AnswerBulk(p, e, ok)
=============================================================================
