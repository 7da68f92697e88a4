----------------------------- MODULE UsbDevice -----------------------------
(***************************************************************************)
(* The LUFA device core under the main loop of firmware/InOut: the two     *)
(* interrupt routines of USBInterrupt_AVR8.c, the control requests of       *)
(* DeviceStandardReq.c that run inside the second one with interrupts       *)
(* enabled, and the main loop they interrupt.  All of them share the        *)
(* register that selects an endpoint, UENUM, and the global request.        *)
(*                                                                         *)
(* The stack holds the main loop at its bottom and above it the control     *)
(* interrupts under way, each one interrupting the one below.  Only its top *)
(* runs; a bus interrupt runs at once and to its end.  The USB host and the *)
(* controller's hardware are the environment.                               *)
(***************************************************************************)
EXTENDS Naturals, Sequences, FiniteSets

CONSTANTS
    Requests,     \* the control requests the host makes
    MaxDisturbances,  \* bus resets, the one that starts the enumeration included,
                      \* suspends, control transfers the host gives up, and SETUP
                      \* packets the main loop sees before the interrupt
    MaxDepth      \* the longest stack a SETUP packet finds

RequestNames == {"GetStatus", "ClearFeature", "SetFeature", "SetAddress",
                 "GetDescriptor", "GetConfiguration", "SetConfiguration",
                 "SetInterface",  \* one the library does not carry out
                 "none"}
Request == [bRequest : RequestNames, wValue : Nat, wIndex : Nat, wLength : Nat]

ASSUME BoundAssumption ==
    MaxDisturbances \in Nat /\ MaxDepth \in Nat

ASSUME RequestsAssumption == Requests \subseteq Request

\* A host gives a device an address that is not zero, of seven bits.
ASSUME AddressAssumption ==
    \A r \in Requests : r.bRequest = "SetAddress" => r.wValue \in 1..127

VARIABLES
    USB_DeviceState, USB_Device_ConfigurationNumber, USB_ControlRequest,
    UDADDR,      \* [address, enabled]: UADD and ADDEN
    UENUM,       \* the selected endpoint
    allocated,   \* endpoints that are configured: the control endpoint as one
                 \* for control transfers, the others for data
    stalled,     \* endpoints with STALLRQ set
    rxstp, rxout, txin,  \* flags of the control endpoint: a SETUP packet, an
                         \* OUT packet, room for an IN packet
    bank,        \* the IN packet: the request it answers, its length
    UDINT,       \* bus interrupts that have occurred
    enabled,     \* interrupts that are enabled
    stack,
    bus,         \* "active" or "idle"
    host,        \* the host's control transfer, and the address it uses
    disturbances,
    cuts,        \* bus resets that fell into a control request, ProcessOUT or
                 \* ProcessIN
    overtaken,   \* the main loop has found a SETUP packet after its poll, in the
                 \* instant before the interrupt took it
    aborts       \* transfers given up

lufaVars == <<USB_DeviceState, USB_Device_ConfigurationNumber, USB_ControlRequest>>
ep0Vars == <<rxstp, rxout, txin, bank>>
endpointVars == <<UENUM, allocated, stalled>>
interruptVars == <<UDINT, enabled>>
historyVars == <<disturbances, cuts, overtaken, aborts>>
busVars == <<bus, host, historyVars>>
vars == <<lufaVars, UDADDR, endpointVars, ep0Vars, interruptVars, stack, busVars>>

ControlEp == 0
DataOut == 1
DataIn == 2
TotalEndpoints == 5  \* ENDPOINT_TOTAL_ENDPOINTS of this chip
Endpoints == 0..(TotalEndpoints - 1)
ControlSize == 8     \* FIXED_CONTROL_ENDPOINT_SIZE

NoRequest == [bRequest |-> "none", wValue |-> 0, wIndex |-> 0, wLength |-> 0]
Empty == [request |-> NoRequest, length |-> 0]

\* The direction bit of bmRequestType.
ToHost(r) == r.bRequest \in {"GetStatus", "GetConfiguration", "GetDescriptor"}

\* The address the controller answers at.
AnswerAddress == IF UDADDR.enabled THEN UDADDR.address ELSE 0

Smaller(a, b) == IF a < b THEN a ELSE b
-----------------------------------------------------------------------------
\* What the processor runs next: a bus interrupt, then the control interrupt,
\* then the top of the stack.
BusPending == UDINT \cap enabled # {}
ControlPending == rxstp /\ "RXSTPI" \in enabled

Top == stack[Len(stack)]
Runs(label) == Top.pc = label /\ ~BusPending /\ ~ControlPending

\* A flag may come up while an instruction reads it, before its interrupt.
Reads(label) == Top.pc = label /\ ~BusPending

SetTop(frame) == stack' = [stack EXCEPT ![Len(stack)] = frame]
Goto(label) == SetTop([Top EXCEPT !.pc = label])

Frame(label, selected) ==
    [pc |-> label, prev |-> selected, wait |-> "in", next |-> "check", local |-> 0,
     full |-> FALSE]

\* The request has been carried out, or has not been one.
Finish == SetTop(Frame("check", Top.prev))

Disturb ==
    disturbances < MaxDisturbances /\ disturbances' = disturbances + 1

LoopLabels == {"task", "poll", "out", "in"}
Handlers == {k \in 2..Len(stack) : stack[k].pc # "return"}
Handling == Handlers # {}
-----------------------------------------------------------------------------
\* Endpoint_ConfigureEndpoint of the control endpoint: it is selected, with empty
\* banks.  The loop over the endpoints above it enables those that are configured,
\* which the reset has disabled, and releases them.
ConfigureControl ==
    /\ UENUM' = ControlEp
    /\ rxstp' = FALSE /\ rxout' = FALSE /\ txin' = TRUE
    /\ allocated' = allocated \cup {ControlEp}
    /\ stalled' = {}
    /\ bank' = Empty

\* USB_GEN_vect: a suspend, which this chip takes for a disconnection, then a
\* wake-up, then a reset.
USB_GEN_vect ==
    /\ BusPending
    /\ LET suspend == "SUSPI" \in UDINT \cap enabled
           e1 == IF suspend THEN (enabled \ {"SUSPI"}) \cup {"WAKEUPI"} ELSE enabled
           wake == "WAKEUPI" \in UDINT \cap e1
           e2 == IF wake THEN (e1 \ {"WAKEUPI"}) \cup {"SUSPI"} ELSE e1
           reset == "EORSTI" \in UDINT
           woken == IF USB_Device_ConfigurationNumber # 0 THEN "Configured"
                    ELSE IF UDADDR.enabled THEN "Addressed" ELSE "Powered"
       IN /\ USB_DeviceState' = IF reset THEN "Default"
                                ELSE IF wake THEN woken ELSE "Unattached"
          /\ UDINT' = UDINT \ ((IF wake THEN {"WAKEUPI"} ELSE {}) \cup
                               (IF reset THEN {"EORSTI", "SUSPI"} ELSE {}))
          /\ enabled' = IF reset
                        THEN (e2 \ {"SUSPI"}) \cup {"WAKEUPI", "RXSTPI"} ELSE e2
          /\ IF reset
             THEN USB_Device_ConfigurationNumber' = 0 /\ ConfigureControl
             ELSE UNCHANGED <<USB_Device_ConfigurationNumber, endpointVars, ep0Vars>>
    /\ UNCHANGED <<USB_ControlRequest, UDADDR, stack, busVars>>

\* Mutants: the selected endpoint is saved too late; the interrupt stays enabled.
USB_COM_vect_SavesLate ==
    /\ ControlPending /\ ~BusPending
    /\ stack' = Append(stack, Frame("read", ControlEp))
    /\ UENUM' = ControlEp
    /\ enabled' = enabled \ {"RXSTPI"}
    /\ UNCHANGED <<lufaVars, UDADDR, allocated, stalled, ep0Vars, UDINT, busVars>>

USB_COM_vect_StaysEnabled ==
    /\ ControlPending /\ ~BusPending
    /\ stack' = Append(stack, Frame("read", UENUM))
    /\ UENUM' = ControlEp
    /\ UNCHANGED <<lufaVars, UDADDR, allocated, stalled, ep0Vars, interruptVars,
                   busVars>>

\* USB_COM_vect up to GlobalInterruptEnable.
USB_COM_vect ==
    /\ ControlPending /\ ~BusPending
    /\ stack' = Append(stack, Frame("read", UENUM))
    /\ UENUM' = ControlEp
    /\ enabled' = enabled \ {"RXSTPI"}
    /\ UNCHANGED <<lufaVars, UDADDR, allocated, stalled, ep0Vars, UDINT, busVars>>

\* Mutant: the interrupt is not enabled again.
EnableRXSTPI_Forgotten ==
    /\ Runs("end") /\ Len(stack) > 1
    /\ UENUM' = ControlEp
    /\ SetTop(Frame("return", Top.prev))
    /\ UNCHANGED <<lufaVars, UDADDR, allocated, stalled, ep0Vars, interruptVars,
                   busVars>>

\* USB_COM_vect after the request, up to the last selection.
EnableRXSTPI ==
    /\ Runs("end") /\ Len(stack) > 1
    /\ UENUM' = ControlEp
    /\ enabled' = enabled \cup {"RXSTPI"}
    /\ SetTop(Frame("return", Top.prev))
    /\ UNCHANGED <<lufaVars, UDADDR, allocated, stalled, ep0Vars, UDINT, busVars>>

RestoreEndpoint ==
    /\ Runs("return")
    /\ UENUM' = Top.prev
    /\ stack' = SubSeq(stack, 1, Len(stack) - 1)
    /\ UNCHANGED <<lufaVars, UDADDR, allocated, stalled, ep0Vars, interruptVars,
                   busVars>>
-----------------------------------------------------------------------------
\* USB_DeviceTask, called by the main loop, does nothing without a bus.
\* Otherwise it polls for a SETUP packet too,
DeviceTask ==
    /\ Runs("task") /\ USB_DeviceState # "Unattached"
    /\ SetTop(Frame("poll", UENUM)) /\ UENUM' = ControlEp
    /\ UNCHANGED <<lufaVars, UDADDR, allocated, stalled, ep0Vars, interruptVars,
                   busVars>>

\* which it finds only in the instant before the interrupt takes it,
PollSetup ==
    /\ Reads("poll")
    /\ Goto(IF rxstp THEN "read" ELSE "end")
    /\ IF ControlPending THEN Disturb ELSE UNCHANGED disturbances
    /\ UNCHANGED <<lufaVars, UDADDR, endpointVars, ep0Vars, interruptVars, bus, host,
                   cuts, overtaken, aborts>>

\* selects the endpoint it found selected, and returns to the main loop, which
\* serves the data endpoints of a configured device.
RestoreTask ==
    /\ Runs("end") /\ Len(stack) = 1
    /\ IF USB_DeviceState = "Configured"
       THEN UENUM' = DataOut /\ Goto("out")
       ELSE UENUM' = Top.prev /\ SetTop(Frame("task", 0))
    /\ UNCHANGED <<lufaVars, UDADDR, allocated, stalled, ep0Vars, interruptVars,
                   busVars>>

\* ProcessOUT and ProcessIN select their endpoint, then use it.
ProcessOUT ==
    /\ Runs("out")
    /\ Goto("in") /\ UENUM' = DataIn
    /\ UNCHANGED <<lufaVars, UDADDR, allocated, stalled, ep0Vars, interruptVars,
                   busVars>>

ProcessIN ==
    /\ Runs("in")
    /\ SetTop(Frame("task", 0))
    /\ UNCHANGED <<lufaVars, UDADDR, endpointVars, ep0Vars, interruptVars, busVars>>
-----------------------------------------------------------------------------
\* USB_Device_ProcessControlRequest: the header is read.  The poll of the main
\* loop may have been overtaken by the interrupt: the empty bank returns no
\* request anybody made.
ReadHeader ==
    /\ Runs("read")
    /\ USB_ControlRequest' = IF rxstp THEN host.request ELSE NoRequest
    /\ Goto("received")
    /\ UNCHANGED <<USB_DeviceState, USB_Device_ConfigurationNumber, UDADDR,
                   endpointVars, ep0Vars, interruptVars, busVars>>

\* A look at the SETUP flag of the selected endpoint; only the control endpoint
\* has one.  In the main loop it comes a moment before the interrupt.
SetupSeen == rxstp /\ UENUM = ControlEp
Overtaken == overtaken' = (overtaken \/ (SetupSeen /\ Len(stack) = 1))

\* The request is carried out if the packet is still in the bank.
Received ==
    /\ Reads("received")
    /\ IF SetupSeen THEN Goto("switch") ELSE Finish
    /\ Overtaken
    /\ UNCHANGED <<lufaVars, UDADDR, endpointVars, ep0Vars, interruptVars, bus, host,
                   disturbances, cuts, aborts>>

\* Whatever has been done, a SETUP packet that is in the bank now is thrown away:
\* that of a request nobody has carried out, or one that came in the meantime.
CheckSetup ==
    /\ Reads("check")
    /\ Goto(IF SetupSeen THEN "stall" ELSE "end")
    /\ Overtaken
    /\ UNCHANGED <<lufaVars, UDADDR, endpointVars, ep0Vars, interruptVars, bus, host,
                   disturbances, cuts, aborts>>

\* The requests the library carries out.
Supported(r) ==
    CASE r.bRequest = "SetConfiguration" -> r.wValue <= 1
      [] r.bRequest = "GetDescriptor" -> r.wValue > 0
      [] r.bRequest \in {"SetFeature", "ClearFeature"} ->
            r.wIndex \in Endpoints \ {ControlEp}
      [] r.bRequest = "GetStatus" -> r.wIndex \in Endpoints
      [] OTHER -> r.bRequest \in {"SetAddress", "GetConfiguration"}

Dispatched(names) ==
    /\ Runs("switch")
    /\ Supported(USB_ControlRequest)
    /\ USB_ControlRequest.bRequest \in names

\* Mutant: the bank keeps what it held.
ClearSETUP_KeepsBank == rxstp' = FALSE /\ UNCHANGED <<txin, bank, rxout>>

\* Endpoint_ClearSETUP: the bank is free for the answer.
ClearSETUP == rxstp' = FALSE /\ txin' = TRUE /\ bank' = Empty /\ UNCHANGED rxout

\* The entry of Endpoint_ClearStatusStage, which looks at the direction once.
EnterStatus(next, local) ==
    SetTop([Top EXCEPT !.pc = "status", !.next = next, !.local = local,
                       !.wait = IF ToHost(USB_ControlRequest) THEN "out" ELSE "in"])

Unhandled ==
    /\ Runs("switch") /\ ~Supported(USB_ControlRequest)
    /\ Finish
    /\ UNCHANGED <<lufaVars, UDADDR, endpointVars, ep0Vars, interruptVars, busVars>>

\* Endpoint_ClearSETUP, which does nothing when the interrupt has taken the packet,
\* and Endpoint_StallTransaction: the host's next IN or OUT packet is refused.
StallSetup ==
    /\ Runs("stall")
    /\ IF rxstp THEN ClearSETUP ELSE UNCHANGED ep0Vars
    /\ stalled' = stalled \cup {UENUM}
    /\ Goto("end")
    /\ UNCHANGED <<lufaVars, UDADDR, UENUM, allocated, interruptVars, busVars>>

\* Mutant: the address is enabled before the status stage.
SetAddressAtOnce ==
    /\ Dispatched({"SetAddress"})
    /\ UDADDR' = [enabled |-> TRUE, address |-> USB_ControlRequest.wValue]
    /\ ClearSETUP
    /\ EnterStatus("wait_sent", USB_ControlRequest.wValue)
    /\ UNCHANGED <<lufaVars, endpointVars, interruptVars, busVars>>

SetAddress ==
    /\ Dispatched({"SetAddress"})
    /\ UDADDR' = [UDADDR EXCEPT !.address = USB_ControlRequest.wValue]
    /\ ClearSETUP
    /\ EnterStatus("wait_sent", USB_ControlRequest.wValue)
    /\ UNCHANGED <<lufaVars, endpointVars, interruptVars, busVars>>

\* Mutant: the device state does not follow the address.
EnableAddress_StateKept ==
    /\ Runs("wait_sent") /\ txin
    /\ UDADDR' = [UDADDR EXCEPT !.enabled = TRUE]
    /\ Finish
    /\ UNCHANGED <<lufaVars, endpointVars, ep0Vars, interruptVars, busVars>>

\* USB_Device_SetAddress once the status packet has left: this wait has no way
\* out but the packet being taken.
EnableAddress ==
    /\ Runs("wait_sent") /\ txin
    /\ UDADDR' = [UDADDR EXCEPT !.enabled = TRUE]
    /\ USB_DeviceState' = IF Top.local # 0 THEN "Addressed" ELSE "Default"
    /\ Finish
    /\ UNCHANGED <<USB_Device_ConfigurationNumber, USB_ControlRequest,
                   endpointVars, ep0Vars, interruptVars, busVars>>

SetConfiguration ==
    /\ Dispatched({"SetConfiguration"})
    /\ ClearSETUP
    /\ USB_Device_ConfigurationNumber' = USB_ControlRequest.wValue
    /\ EnterStatus("configured", 0)
    /\ UNCHANGED <<USB_DeviceState, USB_ControlRequest, UDADDR, endpointVars,
                   interruptVars, busVars>>

\* The end of USB_Device_SetConfiguration.  EVENT_USB_Device_ConfigurationChanged
\* selects the OUT endpoint,
Configured ==
    /\ Runs("configured")
    /\ USB_DeviceState' =
          IF USB_Device_ConfigurationNumber # 0 \/ UDADDR.enabled
          THEN "Configured" ELSE "Powered"
    /\ UENUM' = DataOut
    /\ Goto("configure_out")
    /\ UNCHANGED <<USB_Device_ConfigurationNumber, USB_ControlRequest, UDADDR,
                   allocated, stalled, ep0Vars, interruptVars, busVars>>

\* The selected endpoint is disabled, and enabled again as endpoint e is to be.  A
\* bus reset since it was selected makes it the control endpoint, which is then
\* one no more unless e is the control endpoint itself; it has had no packet since.
Allocate(e) ==
    /\ allocated' = IF UENUM = ControlEp /\ e # ControlEp
                    THEN allocated \ {ControlEp} ELSE allocated \cup {UENUM}
    /\ enabled' = IF UENUM = ControlEp /\ e # ControlEp
                  THEN enabled \ {"RXSTPI"} ELSE enabled
    /\ stalled' = stalled \ {UENUM}
    /\ UNCHANGED <<lufaVars, UDADDR, ep0Vars, UDINT, busVars>>

\* and configures it.  The loop goes on to the endpoints above it, of which only
\* the IN endpoint is ever configured:
ConfigureOUT ==
    /\ Runs("configure_out")
    /\ Allocate(DataOut)
    /\ UENUM' = DataIn
    /\ Goto("inspect")

\* if it is, it is to be configured once more, as what is selected here is.
Inspect ==
    /\ Runs("inspect")
    /\ SetTop([Top EXCEPT !.pc = IF UENUM \in allocated THEN "reallocate"
                                 ELSE "configure_in",
                          !.local = UENUM])
    /\ UENUM' = IF UENUM \in allocated THEN UENUM ELSE DataIn
    /\ UNCHANGED <<lufaVars, UDADDR, allocated, stalled, ep0Vars, interruptVars,
                   busVars>>

Reallocate ==
    /\ Runs("reallocate")
    /\ Allocate(Top.local)
    /\ UENUM' = DataIn
    /\ Goto("configure_in")

\* The same for the IN endpoint, which stays selected.
ConfigureIN ==
    /\ Runs("configure_in")
    /\ Allocate(DataIn)
    /\ UENUM' = DataIn
    /\ SetTop([Frame("check", Top.prev) EXCEPT !.local = DataIn])

\* The answer of one or two bytes is written.
WriteBytes ==
    /\ rxstp' = FALSE /\ txin' = FALSE
    /\ bank' = [request |-> USB_ControlRequest, length |-> USB_ControlRequest.wLength]
    /\ EnterStatus("check", 0)
    /\ UNCHANGED <<lufaVars, UDADDR, allocated, stalled, rxout, interruptVars,
                   busVars>>

GetConfiguration ==
    /\ Dispatched({"GetConfiguration"})
    /\ WriteBytes
    /\ UNCHANGED UENUM

\* GetStatus selects the endpoint it is asked about (the device itself, index 0,
\* needs none), reads its stall and selects the control endpoint again.
GetStatus ==
    /\ Dispatched({"GetStatus"})
    /\ UENUM' = USB_ControlRequest.wIndex
    /\ SetTop([Top EXCEPT !.pc = "stalled", !.local = USB_ControlRequest.wIndex])
    /\ UNCHANGED <<lufaVars, UDADDR, allocated, stalled, ep0Vars, interruptVars,
                   busVars>>

EndpointStatus ==
    /\ Runs("stalled")
    /\ UENUM' = ControlEp
    /\ WriteBytes

\* ClearFeature and SetFeature of an endpoint's halt: the endpoint is selected,
Feature ==
    /\ Dispatched({"SetFeature", "ClearFeature"})
    /\ UENUM' = USB_ControlRequest.wIndex
    /\ SetTop([Top EXCEPT !.pc = "feature", !.local = USB_ControlRequest.wIndex])
    /\ UNCHANGED <<lufaVars, UDADDR, allocated, stalled, ep0Vars, interruptVars,
                   busVars>>

\* Mutant: the endpoint is stalled though it is not enabled.
Halt_Unchecked ==
    /\ Runs("feature")
    /\ stalled' = IF USB_ControlRequest.bRequest = "SetFeature"
                  THEN stalled \cup {UENUM} ELSE stalled \ {UENUM}
    /\ UENUM' = ControlEp
    /\ ClearSETUP
    /\ EnterStatus("check", 0)
    /\ UNCHANGED <<lufaVars, UDADDR, allocated, interruptVars, busVars>>

\* what is selected now is stalled or released, and the control endpoint selected
\* again for the status stage.
Halt ==
    /\ Runs("feature")
    /\ stalled' = IF UENUM \notin allocated THEN stalled
                  ELSE IF USB_ControlRequest.bRequest = "SetFeature"
                       THEN stalled \cup {UENUM} ELSE stalled \ {UENUM}
    /\ UENUM' = ControlEp
    /\ ClearSETUP
    /\ EnterStatus("check", 0)
    /\ UNCHANGED <<lufaVars, UDADDR, allocated, interruptVars, busVars>>

GetDescriptor ==
    /\ Dispatched({"GetDescriptor"})
    /\ ClearSETUP
    /\ SetTop([Top EXCEPT !.pc = "stream",
                          !.local = Smaller(USB_ControlRequest.wValue,
                                            USB_ControlRequest.wLength)])
    /\ UNCHANGED <<lufaVars, UDADDR, endpointVars, interruptVars, busVars>>

\* Endpoint_Write_Control_PStream_LE: packets are written while there are bytes
\* left, and one more after a full one.  One packet of n bytes:
Packet(n, full) ==
    /\ Runs("stream")
    /\ Top.local > 0 \/ Top.full
    /\ USB_DeviceState # "Unattached" /\ ~rxstp /\ ~rxout
    /\ txin /\ txin' = FALSE
    /\ bank' = [request |-> USB_ControlRequest, length |-> n]
    /\ SetTop([Top EXCEPT !.local = @ - n, !.full = full])
    /\ UNCHANGED <<lufaVars, UDADDR, endpointVars, rxstp, rxout, interruptVars,
                   busVars>>

\* Mutants: a packet is a byte short; no packet follows a full one.
StreamPacket_Short == Packet(Smaller(Top.local, ControlSize - 1), FALSE)
StreamPacket_NoLast == Packet(Smaller(Top.local, ControlSize), FALSE)

StreamPacket ==
    Packet(Smaller(Top.local, ControlSize), Top.local >= ControlSize)

\* The stream is over, or the host has acknowledged it early.
StreamDone ==
    /\ Runs("stream")
    /\ \/ Top.local = 0 /\ ~Top.full
       \/ USB_DeviceState # "Unattached" /\ ~rxstp /\ rxout
    /\ SetTop(Frame("acknowledge", Top.prev))
    /\ UNCHANGED <<lufaVars, UDADDR, endpointVars, ep0Vars, interruptVars, busVars>>

\* It is left when the device is disconnected or another SETUP arrives, and
\* with the host's acknowledgement; Endpoint_ClearOUT follows in every case.
StreamEnd ==
    /\ \/ /\ Runs("stream") /\ (Top.local > 0 \/ Top.full)
          /\ USB_DeviceState = "Unattached" \/ rxstp
       \/ /\ Runs("acknowledge")
          /\ rxout \/ USB_DeviceState = "Unattached" \/ rxstp
    /\ rxout' = FALSE
    /\ Finish
    /\ UNCHANGED <<lufaVars, UDADDR, endpointVars, rxstp, txin, bank, interruptVars,
                   busVars>>

Leave == SetTop([Frame(Top.next, Top.prev) EXCEPT !.local = Top.local])

\* Endpoint_ClearStatusStage: a zero-length packet is sent or received.
StatusSent ==
    /\ Runs("status") /\ Top.wait = "in"
    /\ txin /\ txin' = FALSE
    /\ bank' = [request |-> USB_ControlRequest, length |-> 0]
    /\ Leave
    /\ UNCHANGED <<lufaVars, UDADDR, endpointVars, rxstp, rxout, interruptVars,
                   busVars>>

StatusReceived ==
    /\ Runs("status") /\ Top.wait = "out"
    /\ rxout /\ rxout' = FALSE
    /\ Leave
    /\ UNCHANGED <<lufaVars, UDADDR, endpointVars, rxstp, txin, bank, interruptVars,
                   busVars>>

\* It is left without that when the device is disconnected.
StatusLeft ==
    /\ Runs("status")
    /\ IF Top.wait = "in" THEN ~txin ELSE ~rxout
    /\ USB_DeviceState = "Unattached"
    /\ Leave
    /\ UNCHANGED <<lufaVars, UDADDR, endpointVars, ep0Vars, interruptVars, busVars>>

Interrupt == USB_GEN_vect \/ USB_COM_vect
MainLoop == DeviceTask \/ PollSetup \/ RestoreTask \/ ProcessOUT \/ ProcessIN
ControlRequest ==
    \/ ReadHeader \/ Received \/ Unhandled \/ CheckSetup \/ StallSetup
    \/ SetAddress \/ EnableAddress \/ SetConfiguration \/ Configured
    \/ ConfigureOUT \/ Inspect \/ Reallocate \/ ConfigureIN
    \/ GetConfiguration \/ GetStatus \/ EndpointStatus \/ Feature \/ Halt
    \/ GetDescriptor \/ StreamPacket \/ StreamDone \/ StreamEnd
    \/ StatusSent \/ StatusReceived \/ StatusLeft \/ EnableRXSTPI \/ RestoreEndpoint
Device == Interrupt \/ MainLoop \/ ControlRequest
-----------------------------------------------------------------------------
\* The host: one control transfer at a time, a SETUP packet, for an answer IN
\* packets until it has what it asked for, and a packet the other way.
deviceVars == <<lufaVars, endpointVars, enabled, stack, overtaken>>

\* The host takes milliseconds to give a transfer up, to go on after a reset, or
\* to resume the bus: by then the processor is in its main loop or waits for the
\* host.
Waiting ==
    /\ ~BusPending /\ ~ControlPending
    /\ \/ Top.pc \in LoopLabels
       \/ Top.pc = "wait_sent" /\ ~txin
       \/ /\ USB_DeviceState # "Unattached"
          /\ CASE Top.pc = "status" -> IF Top.wait = "in" THEN ~txin ELSE ~rxout
               [] Top.pc = "stream" -> ~txin /\ ~rxout /\ ~rxstp
               [] Top.pc = "acknowledge" -> ~rxout /\ ~rxstp
               [] OTHER -> FALSE

Idle(addr) == [phase |-> "idle", request |-> NoRequest, addr |-> addr, left |-> 0]

\* The device hears the host and takes its packets for its own.
Addressable == bus = "active" /\ host.addr = AnswerAddress /\ ControlEp \in allocated

HostSetup ==
    /\ host.phase = "idle" /\ Addressable
    /\ Len(stack) <= MaxDepth
    /\ \E r \in Requests :
          /\ IF host.addr = 0 THEN r.bRequest \in {"SetAddress", "GetDescriptor"}
                              ELSE r.bRequest # "SetAddress"
          /\ host' = [host EXCEPT !.phase = IF ToHost(r) THEN "data" ELSE "status",
                                  !.request = r, !.left = r.wLength]
    /\ rxstp' = TRUE
    /\ stalled' = stalled \ {ControlEp}
    /\ UNCHANGED <<lufaVars, UDADDR, UENUM, allocated, interruptVars, stack, overtaken,
                   rxout, txin, bank, bus, disturbances, cuts, aborts>>

HostRecovered ==
    /\ host.phase = "recovery" /\ Waiting
    /\ host' = Idle(0)
    /\ UNCHANGED <<deviceVars, UDADDR, UDINT, ep0Vars, bus, disturbances, cuts,
                   aborts>>

\* An IN packet is fetched; the controller refuses it while a SETUP waits.
HostIN ==
    /\ host.phase \in {"data", "status"} /\ Addressable
    /\ ~txin /\ ~rxstp /\ ControlEp \notin stalled
    /\ txin' = TRUE /\ bank' = Empty
    /\ LET left == host.left - Smaller(host.left, bank.length)
           done == left = 0 \/ bank.length < ControlSize
       IN host' = IF host.phase = "status"
                  THEN Idle(IF host.request.bRequest = "SetAddress"
                            THEN host.request.wValue ELSE host.addr)
                  ELSE [host EXCEPT !.phase = IF done THEN "acknowledge" ELSE @,
                                    !.left = left]
    /\ UNCHANGED <<deviceVars, UDADDR, UDINT, rxstp, rxout, bus, disturbances, cuts,
                   aborts>>

HostOUT ==
    /\ host.phase = "acknowledge" /\ Addressable
    /\ ~rxout /\ ControlEp \notin stalled
    /\ rxout' = TRUE
    /\ host' = Idle(host.addr)
    /\ UNCHANGED <<deviceVars, UDADDR, UDINT, rxstp, txin, bank, bus, disturbances,
                   cuts, aborts>>

\* The transfer is refused with a STALL.
HostStalled ==
    /\ host.phase \notin {"unknown", "recovery", "idle"} /\ Addressable
    /\ ControlEp \in stalled
    /\ host' = Idle(host.addr)
    /\ UNCHANGED <<deviceVars, UDADDR, UDINT, ep0Vars, bus, disturbances, cuts,
                   aborts>>

\* The host gives a transfer up.  A SETUP packet it has sent stays in the bank.
HostAbort ==
    /\ host.phase \notin {"unknown", "recovery", "idle"}
    /\ Waiting
    /\ Disturb
    /\ aborts' = aborts + 1
    /\ host' = [host EXCEPT !.phase = "idle", !.left = 0]
    /\ UNCHANGED <<deviceVars, UDADDR, UDINT, ep0Vars, bus, cuts>>

\* Code that uses no endpoint but the control endpoint, and may be that of the main
\* loop.
UsesNoData(f) ==
    \/ f.pc \in {"task", "poll", "read", "received", "end"}
    \/ f.pc = "check" /\ f.local = ControlEp

\* The controller forgets its address, and disables the data endpoints until the
\* interrupt.
BusReset ==
    /\ Disturb
    /\ cuts' = IF Handling \/ ~UsesNoData(stack[1]) THEN cuts + 1 ELSE cuts
    /\ UDADDR' = [address |-> 0, enabled |-> FALSE]
    /\ UDINT' = (UDINT \ {"SUSPI"}) \cup {"WAKEUPI", "EORSTI"}
    /\ host' = [Idle(0) EXCEPT !.phase = "recovery"] /\ bus' = "active"
    /\ UNCHANGED <<deviceVars, ep0Vars, aborts>>

BusSuspend ==
    /\ bus = "active"
    /\ Disturb
    /\ UDINT' = (UDINT \ {"WAKEUPI"}) \cup {"SUSPI"}
    /\ bus' = "idle"
    /\ UNCHANGED <<deviceVars, UDADDR, ep0Vars, host, cuts, aborts>>

BusResume ==
    /\ bus = "idle" /\ Waiting
    /\ UDINT' = (UDINT \ {"SUSPI"}) \cup {"WAKEUPI"}
    /\ bus' = "active"
    /\ UNCHANGED <<deviceVars, UDADDR, ep0Vars, host, disturbances, cuts,
                   aborts>>

Transfer == HostIN \/ HostOUT \/ HostStalled \/ HostRecovered
Host == HostSetup \/ Transfer \/ HostAbort \/ BusReset \/ BusSuspend \/ BusResume

\* USB_Init_Device.
Init ==
    /\ USB_DeviceState = "Unattached" /\ USB_Device_ConfigurationNumber = 0
    /\ USB_ControlRequest = NoRequest
    /\ UDADDR = [address |-> 0, enabled |-> FALSE]
    /\ UENUM = ControlEp /\ allocated = {ControlEp} /\ stalled = {}
    /\ rxstp = FALSE /\ rxout = FALSE /\ txin = TRUE
    /\ bank = Empty
    /\ UDINT = {} /\ enabled = {"SUSPI", "EORSTI"}
    /\ stack = <<Frame("task", 0)>>
    /\ bus = "active" /\ host = [Idle(0) EXCEPT !.phase = "unknown"]
    /\ disturbances = 0 /\ cuts = 0 /\ overtaken = FALSE /\ aborts = 0

Next == Device \/ Host
Spec == Init /\ [][Next]_vars

\* The device runs, and the host goes on with a transfer the device lets go on.
FairSpec == Spec /\ WF_vars(Device) /\ WF_vars(Transfer)
-----------------------------------------------------------------------------
UsbTypeOK ==
    /\ USB_DeviceState \in {"Unattached", "Powered", "Default", "Addressed",
                           "Configured"}
    /\ USB_Device_ConfigurationNumber \in {0, 1}
    /\ USB_ControlRequest \in Requests \cup {NoRequest}
    /\ UENUM \in Endpoints
    /\ allocated \subseteq {ControlEp, DataOut, DataIn}
    /\ cuts = 0 => ControlEp \in allocated /\ stalled \subseteq allocated
    /\ {rxstp, rxout, txin, UDADDR.enabled, overtaken} \subseteq BOOLEAN
    /\ UDINT \subseteq {"SUSPI", "WAKEUPI", "EORSTI"}
    /\ enabled \subseteq {"SUSPI", "WAKEUPI", "EORSTI", "RXSTPI"}
    /\ cuts + aborts \in 0..MaxDisturbances

\* The endpoints code in a frame may find selected: the one it selected last and,
\* once a bus reset has fallen into it, the control endpoint.  The code of the
\* labels that allow every endpoint uses none.
AfterCut(e) == {e} \cup (IF cuts = 0 THEN {} ELSE {ControlEp})
Selected(f) ==
    CASE f.pc \in {"out", "configure_out"} -> AfterCut(DataOut)
      [] f.pc \in {"in", "inspect", "reallocate", "configure_in"} -> AfterCut(DataIn)
      [] f.pc \in {"feature", "stalled", "check"} -> AfterCut(f.local)
      [] f.pc \in {"task", "end", "return"} -> Endpoints
      [] OTHER -> {ControlEp}

\* Every register access reaches the endpoint its code selected, whatever
\* interrupted it between the selection and the access (the saved endpoint of
\* USBInterrupt_AVR8.c:263-274, USBTask.c:66-73).  The exception is a bus reset
\* while an endpoint other than the control endpoint is selected, in ProcessOUT
\* and ProcessIN, in the halt and status requests and in the configuration of the
\* endpoints: its interrupt restores nothing, and the code goes on with the
\* control endpoint.
EndpointSelected == UENUM \in Selected(Top)

\* No bus reset has fallen into a control request, ProcessOUT, ProcessIN, and the
\* poll of the main loop has not raced the interrupt for a SETUP packet.
Undisturbed == cuts = 0 /\ ~overtaken

\* Between control requests the device state agrees with the registers it is
\* computed from after a wake-up: a configuration means Configured, Addressed
\* an enabled address, and the states below it neither.  Not so once a bus reset
\* has cut a request short, or the main loop has served one twice.
StateMatchesRegisters ==
    (Undisturbed /\ ~Handling /\ ~BusPending /\ USB_DeviceState # "Unattached") =>
        /\ USB_Device_ConfigurationNumber # 0 => USB_DeviceState = "Configured"
        /\ USB_DeviceState = "Addressed" => UDADDR.enabled
        /\ USB_DeviceState \in {"Powered", "Default"} =>
              ~UDADDR.enabled /\ USB_Device_ConfigurationNumber = 0

\* Control requests do not nest in one another, except that a bus reset that
\* falls into one lets the next one interrupt it (RXSTPI is enabled again by
\* USBInterrupt_AVR8.c:177): this bounds the stack the interrupts take.
NestingBounded == Cardinality(Handlers) <= 1 + cuts

\* The device changes the address it answers at only once the host has had the
\* status packet of its SET_ADDRESS, or with a bus reset.  A bus reset during
\* that status stage leaves ADDEN set, and the next SET_ADDRESS breaks the rule.
AddressKept ==
    [][AnswerAddress' # AnswerAddress /\ Undisturbed =>
          host'.phase = "recovery" \/ host.phase = "idle"]_vars

\* An IN packet the host is about to fetch answers the request it made last,
\* never one it has given up or one that ended early: a SETUP packet that ends a
\* request early is itself thrown away and refused (DeviceStandardReq.c:118-122).
NoStaleAnswer ==
    (/\ Undisturbed /\ host.phase = "data" /\ ~txin /\ ~rxstp
     /\ ControlEp \notin stalled) =>
        bank.request = host.request

\* The host that goes on to the status stage of a GET_DESCRIPTOR has had the
\* whole descriptor, or all it asked for: the packets of the stream, with the
\* empty one after a full last one, tell it where the end is.
DescriptorDelivered ==
    (/\ Undisturbed /\ host.phase = "acknowledge"
     /\ host.request.bRequest = "GetDescriptor") =>
        host.left = host.request.wLength
                    - Smaller(host.request.wValue, host.request.wLength)

\* A control request comes to its end unless the bus goes idle, a reset falls into
\* it or the host gives a transfer up: none of the waits of
\* Endpoint_ClearStatusStage, SET_ADDRESS and the stream is for ever.
HandlersEnd == Handling ~> (~Handling \/ bus = "idle" \/ cuts > 0 \/ aborts > 0)

\* A SETUP packet is taken, carried out or stalled, even when a bus reset has left a
\* control request waiting for a host that has forgotten it.
SetupTaken == rxstp ~> (~rxstp \/ aborts > 0)
=============================================================================
