-------------------------- MODULE UsbDevice_proofs --------------------------
(***************************************************************************)
(* Theorems about the LUFA core with any host and any number of bus resets, *)
(* suspends, aborted transfers and interrupts in one another: every piece    *)
(* of code works on the endpoint it selected, or on the control endpoint     *)
(* once a bus reset has fallen into it, and control requests nest in one     *)
(* another only as often as a bus reset has fallen into one.                 *)
(***************************************************************************)
EXTENDS UsbDevice, Integers, SequenceTheorems, FiniteSetTheorems, TLAPS

Labels == {"task", "poll", "out", "in", "read", "received", "switch", "check",
           "stall", "status", "wait_sent", "configured", "configure_out", "inspect",
           "reallocate", "configure_in", "feature", "stalled", "stream",
           "acknowledge", "end", "return"}

\* The labels of the code that works on the control endpoint only.
ControlLabels == {"poll", "read", "received", "switch", "stall", "status", "wait_sent",
                  "configured", "stream", "acknowledge"}

\* Code that works on an endpoint it was told knows which.
FrameFields == [pc : Labels, prev : Endpoints, wait : {"in", "out"},
                next : {"check", "configured", "wait_sent"}, local : Int, full : BOOLEAN]
Frames ==
    {f \in FrameFields :
        /\ f.pc \in {"feature", "stalled", "check"} => f.local \in Endpoints
        /\ (f.pc = "status" /\ f.next = "check") => f.local = 0}

Phases == {"unknown", "recovery", "idle", "data", "status", "acknowledge"}

CountersInv ==
    /\ cuts \in Nat /\ aborts \in Nat /\ disturbances \in Nat
    /\ overtaken \in BOOLEAN
    /\ cuts + aborts <= disturbances /\ disturbances <= MaxDisturbances

\* The main loop is at the bottom of the stack, and nowhere else.
StackInv ==
    /\ stack \in Seq(Frames) /\ Len(stack) > 0
    /\ stack[1].pc # "return"
    /\ \A k \in 2..Len(stack) : stack[k].pc \notin LoopLabels

\* What each interrupted piece of code has selected is saved above it.
SelectInv ==
    /\ UENUM \in Selected(Top)
    /\ \A k \in 1..(Len(stack) - 1) : stack[k + 1].prev \in Selected(stack[k])

\* A reset that waits for its interrupt has been counted, unless all it finds is
\* code of the main loop that uses no data endpoint.
BusInv ==
    /\ "EORSTI" \in enabled
    /\ ("EORSTI" \in UDINT /\ (Handling \/ ~UsesNoData(stack[1]))) => cuts # 0

\* While the control interrupt is enabled, or about to be, there is room for
\* one more request.
NestInv ==
    /\ cuts \in Nat
    /\ Cardinality(Handlers) <= 1 + cuts
    /\ ("RXSTPI" \in enabled \/ "EORSTI" \in UDINT) => Cardinality(Handlers) <= cuts

ControlInv == StackInv /\ SelectInv /\ BusInv /\ NestInv

\* The types of what the requests and the bus change, one part of the state
\* after the other.
LufaTypes ==
    /\ USB_DeviceState \in {"Unattached", "Powered", "Default", "Addressed", "Configured"}
    /\ USB_Device_ConfigurationNumber \in {0, 1}
    /\ USB_ControlRequest \in Requests \cup {NoRequest}
    /\ UDADDR \in [address : Nat, enabled : BOOLEAN]
    /\ host \in [phase : Phases, request : Requests \cup {NoRequest}, addr : Nat,
                 left : Int]

RegisterTypes ==
    /\ UENUM \in Endpoints
    /\ allocated \subseteq {ControlEp, DataOut, DataIn}
    /\ cuts = 0 => ControlEp \in allocated /\ stalled \subseteq allocated
    /\ UDINT \subseteq {"SUSPI", "WAKEUPI", "EORSTI"}
    /\ enabled \subseteq {"SUSPI", "WAKEUPI", "EORSTI", "RXSTPI"}

PacketTypes ==
    /\ rxstp \in BOOLEAN /\ rxout \in BOOLEAN /\ txin \in BOOLEAN
    /\ bank \in [request : Request, length : Int]

UsbInv ==
    /\ LufaTypes /\ RegisterTypes /\ PacketTypes /\ CountersInv
    /\ ControlInv
-----------------------------------------------------------------------------
LEMMA EndpointFacts ==
    /\ ControlEp \in Endpoints /\ DataOut \in Endpoints /\ DataIn \in Endpoints
    /\ ControlEp # DataOut /\ ControlEp # DataIn /\ DataOut # DataIn
BY DEF Endpoints, TotalEndpoints, ControlEp, DataOut, DataIn

\* Which endpoints code may find selected.
LEMMA SelectedFacts ==
    ASSUME NEW f \in Frames
    PROVE  /\ f.pc \in {"task", "end", "return"} => Selected(f) = Endpoints
           /\ f.pc \in ControlLabels => Selected(f) = {ControlEp}
           /\ f.pc \in {"out", "configure_out"} => DataOut \in Selected(f)
           /\ f.pc \in {"in", "inspect", "reallocate", "configure_in"} =>
                 DataIn \in Selected(f)
           /\ f.pc \in {"feature", "stalled", "check"} => f.local \in Selected(f)
           /\ Selected(f) \subseteq Endpoints
           /\ (cuts # 0 \/ UsesNoData(f) \/ f.pc = "return") => ControlEp \in Selected(f)
<1> USE EndpointFacts
<1>1. f \in FrameFields /\ f.pc \in Labels
      /\ (f.pc \in {"feature", "stalled", "check"} => f.local \in Endpoints)
  BY DEF Frames, FrameFields
<1>2. \A e \in Endpoints : e \in AfterCut(e) /\ AfterCut(e) \subseteq Endpoints
                          /\ (cuts # 0 => ControlEp \in AfterCut(e))
  BY DEF AfterCut
<1>3. CASE f.pc \in {"task", "end", "return"}
  <2>1. Selected(f) = Endpoints /\ f.pc \notin ControlLabels
    BY <1>3 DEF Selected, ControlLabels
  <2> QED
    BY <1>3, <2>1
<1>4. CASE f.pc \in ControlLabels
  <2>1. Selected(f) = {ControlEp}
    BY <1>4 DEF Selected, ControlLabels
  <2> QED
    BY <1>4, <2>1 DEF ControlLabels
<1>5. CASE f.pc \in {"out", "configure_out"}
  <2>1. Selected(f) = AfterCut(DataOut) /\ f.pc \notin ControlLabels
    BY <1>5 DEF Selected, ControlLabels
  <2> QED
    BY <1>2, <1>5, <2>1 DEF UsesNoData
<1>6. CASE f.pc \in {"in", "inspect", "reallocate", "configure_in"}
  <2>1. Selected(f) = AfterCut(DataIn) /\ f.pc \notin ControlLabels
    BY <1>6 DEF Selected, ControlLabels
  <2> QED
    BY <1>2, <1>6, <2>1 DEF UsesNoData
<1>7. CASE f.pc \in {"feature", "stalled", "check"}
  <2>1. Selected(f) = AfterCut(f.local) /\ f.pc \notin ControlLabels
        /\ f.local \in Endpoints
    BY <1>1, <1>7 DEF Selected, ControlLabels
  <2>2. UsesNoData(f) => f.local = ControlEp
    BY <1>7 DEF UsesNoData
  <2> QED
    BY <1>2, <1>7, <2>1, <2>2
<1> QED
  BY <1>1, <1>3, <1>4, <1>5, <1>6, <1>7 DEF Labels, ControlLabels

LEMMA TopFacts ==
    ASSUME StackInv
    PROVE  /\ Len(stack) \in Nat \ {0}
           /\ Top \in Frames
           /\ Top.pc \in LoopLabels => Len(stack) = 1
           /\ \A k \in 1..Len(stack) : stack[k] \in Frames
<1>1. Len(stack) \in Nat \ {0}
  BY DEF StackInv
<1>2. \A k \in 1..Len(stack) : stack[k] \in Frames
  BY ElementOfSeq DEF StackInv
<1>3. Top \in Frames
  BY <1>1, <1>2 DEF Top
<1>4. Top.pc \in LoopLabels => Len(stack) = 1
  <2> SUFFICES ASSUME Top.pc \in LoopLabels, Len(stack) # 1 PROVE FALSE
    OBVIOUS
  <2>0. \A n \in Nat \ {0} : n # 1 => n \in 2..n
    OBVIOUS
  <2>1. Len(stack) \in 2..Len(stack)
    BY <1>1, <2>0
  <2> QED
    BY <2>1 DEF StackInv, Top
<1> QED
  BY <1>1, <1>2, <1>3, <1>4

LEMMA HandlersFinite ==
    ASSUME StackInv
    PROVE  IsFiniteSet(Handlers) /\ Cardinality(Handlers) \in Nat
<1>1. Len(stack) \in Nat
  BY TopFacts
<1>2. IsFiniteSet(2..Len(stack))
  BY <1>1, FS_Interval
<1>3. Handlers \in SUBSET (2..Len(stack))
  BY DEF Handlers
<1>4. IsFiniteSet(Handlers)
  BY <1>2, <1>3, FS_Subset
<1> QED
  BY <1>4, FS_CardinalityType

\* What SetTop does to the stack.
LEMMA SetTopFacts ==
    ASSUME StackInv, NEW f \in Frames, SetTop(f)
    PROVE  /\ stack' \in Seq(Frames) /\ Len(stack') = Len(stack)
           /\ \A k \in 1..Len(stack) :
                 stack'[k] = IF k = Len(stack) THEN f ELSE stack[k]
           /\ Top' = f
<1>1. Len(stack) \in Nat \ {0} /\ stack \in Seq(Frames)
  BY TopFacts DEF StackInv
<1>0. \A n \in Nat \ {0} : n \in 1..n
  OBVIOUS
<1>2. Len(stack) \in 1..Len(stack)
  BY <1>1, <1>0
<1>3. stack' = [stack EXCEPT ![Len(stack)] = f]
  BY DEF SetTop
<1>4. /\ stack' \in Seq(Frames) /\ Len(stack') = Len(stack)
      /\ \A k \in 1..Len(stack) :
            stack'[k] = IF k = Len(stack) THEN f ELSE stack[k]
  BY <1>1, <1>2, <1>3, ExceptSeq
<1>5. Top' = f
  BY <1>2, <1>4 DEF Top
<1> QED
  BY <1>4, <1>5

LEMMA SelectedKept ==
    ASSUME UNCHANGED cuts
    PROVE  \A f : Selected(f)' = Selected(f)
BY DEF Selected, AfterCut

\* A step of the code at the top of the stack keeps the invariant when it
\* selects what it uses next.
LEMMA TopStep ==
    ASSUME ControlInv, ~BusPending, Top.pc # "return",
           NEW f \in Frames, SetTop(f),
           f.pc # "return", f.pc \in LoopLabels => Len(stack) = 1,
           f.prev = Top.prev \/ Len(stack) = 1,
           UENUM' \in Selected(f), enabled' \in {enabled, enabled \ {"RXSTPI"}},
           UNCHANGED <<UDINT, cuts>>
    PROVE  ControlInv'
<1> USE DEF ControlInv
<1>1. /\ stack' \in Seq(Frames) /\ Len(stack') = Len(stack)
      /\ \A k \in 1..Len(stack) :
            stack'[k] = IF k = Len(stack) THEN f ELSE stack[k]
      /\ Top' = f
  BY SetTopFacts
<1>2. Len(stack) \in Nat \ {0}
  BY TopFacts
<1>3. \A g : Selected(g)' = Selected(g)
  BY SelectedKept
<1>4. StackInv'
  <2>1. stack'[1].pc # "return"
    BY <1>1, <1>2 DEF StackInv
  <2>2. ASSUME NEW k \in 2..Len(stack') PROVE stack'[k].pc \notin LoopLabels
    <3>1. k \in 1..Len(stack) /\ k \in 2..Len(stack) /\ Len(stack) # 1
      BY <1>1, <1>2
    <3> QED
      BY <1>1, <3>1 DEF StackInv
  <2> QED
    BY <1>1, <1>2, <2>1, <2>2 DEF StackInv
<1>5. SelectInv'
  <2>1. UENUM' \in Selected(Top)'
    BY <1>1, <1>3
  <2>2. ASSUME NEW k \in 1..(Len(stack') - 1)
        PROVE  stack'[k + 1].prev \in Selected(stack[k])' /\ stack'[k] = stack[k]
    <3>1. /\ k \in 1..Len(stack) /\ k + 1 \in 1..Len(stack)
          /\ k \in 1..(Len(stack) - 1) /\ k # Len(stack) /\ Len(stack) # 1
      BY <1>1, <1>2
    <3>2. stack'[k] = stack[k]
      BY <1>1, <3>1
    <3>3. stack'[k + 1].prev = stack[k + 1].prev
      BY <1>1, <3>1 DEF Top
    <3>4. stack[k + 1].prev \in Selected(stack[k])
      BY <3>1 DEF SelectInv
    <3> QED
      BY <1>3, <3>2, <3>3, <3>4
  <2> QED
    BY <2>1, <2>2 DEF SelectInv
<1>6. "EORSTI" \notin UDINT
  BY DEF BusPending, BusInv
<1>7. BusInv'
  BY <1>6 DEF BusInv
<1>8. Handlers' = Handlers
  <2>1. ASSUME NEW k \in 2..Len(stack)
        PROVE  stack'[k].pc # "return" <=> stack[k].pc # "return"
    <3>1. k \in 1..Len(stack)
      BY <1>2
    <3> QED
      BY <1>1, <3>1 DEF Top
  <2> QED
    BY <1>1, <2>1 DEF Handlers
<1>9. NestInv'
  BY <1>8 DEF NestInv
<1> QED
  BY <1>4, <1>5, <1>7, <1>9

-----------------------------------------------------------------------------
\* Code at label l may find endpoint e selected, though it was told none.
Right(l, e) ==
    \/ l \in ControlLabels /\ e = ControlEp
    \/ l \in {"out", "configure_out"} /\ e = DataOut
    \/ l \in {"in", "inspect", "reallocate", "configure_in"} /\ e = DataIn
    \/ l \in {"task", "end"} /\ e \in Endpoints

LEMMA GotoFacts ==
    ASSUME StackInv, NEW l \in Labels \ {"feature", "stalled", "check", "status"}
    PROVE  /\ [Top EXCEPT !.pc = l] \in Frames
           /\ [Top EXCEPT !.pc = l].pc = l
           /\ [Top EXCEPT !.pc = l].prev = Top.prev
BY TopFacts DEF Frames, FrameFields

LEMMA FrameFacts ==
    ASSUME NEW l \in Labels, NEW e \in Endpoints
    PROVE  Frame(l, e) \in Frames /\ Frame(l, e).pc = l /\ Frame(l, e).prev = e
           /\ Frame(l, e).local = ControlEp
BY EndpointFacts DEF Frame, Frames, FrameFields, ControlEp

LEMMA EndpointTypes ==
    ASSUME ControlInv
    PROVE  /\ UENUM \in Endpoints /\ Top.prev \in Endpoints /\ Top.pc \in Labels
           /\ Top.pc \in ControlLabels => UENUM = ControlEp
<1>1. Top \in Frames
  BY TopFacts DEF ControlInv
<1>2. Top.prev \in Endpoints /\ Top.pc \in Labels
  BY <1>1 DEF Frames, FrameFields
<1>3. UENUM \in Selected(Top)
  BY DEF ControlInv, SelectInv
<1>4. Selected(Top) \subseteq Endpoints
      /\ (Top.pc \in ControlLabels => Selected(Top) = {ControlEp})
  BY <1>1, SelectedFacts
<1> QED
  BY <1>2, <1>3, <1>4

LEMMA GotoStep ==
    ASSUME ControlInv, ~BusPending, Top.pc # "return",
           NEW l \in Labels \ {"feature", "stalled", "check", "status", "return"}, Goto(l),
           l \in LoopLabels => Len(stack) = 1,
           Right(l, UENUM'), enabled' \in {enabled, enabled \ {"RXSTPI"}},
           UNCHANGED <<UDINT, cuts>>
    PROVE  ControlInv'
<1> DEFINE f == [Top EXCEPT !.pc = l]
<1>1. f \in Frames /\ f.pc = l /\ f.prev = Top.prev
  BY GotoFacts DEF ControlInv
<1>2. SetTop(f)
  BY DEF Goto
<1> HIDE DEF f
<1>3. UENUM' \in Selected(f)
  BY <1>1, SelectedFacts DEF Right
<1> QED
  BY <1>1, <1>2, <1>3, TopStep

LEMMA FrameStep ==
    ASSUME ControlInv, ~BusPending, Top.pc # "return",
           NEW l \in Labels \ {"feature", "stalled", "return"}, NEW e \in Endpoints,
           SetTop(Frame(l, e)),
           l \in LoopLabels => Len(stack) = 1,
           e = Top.prev \/ Len(stack) = 1,
           Right(l, UENUM') \/ (l = "check" /\ UENUM' = ControlEp),
           UNCHANGED <<UDINT, enabled, cuts>>
    PROVE  ControlInv'
<1> DEFINE f == Frame(l, e)
<1>1. f \in Frames /\ f.pc = l /\ f.prev = e /\ f.local = ControlEp
  BY FrameFacts
<1> HIDE DEF f
<1>2. UENUM' \in Selected(f)
  BY <1>1, SelectedFacts DEF Right
<1>3. SetTop(f)
  BY DEF f
<1> QED
  BY <1>1, <1>2, <1>3, TopStep

\* A request that is over leaves the control endpoint selected.
LEMMA FinishStep ==
    ASSUME ControlInv, ~BusPending, Top.pc # "return", Finish,
           UENUM' = ControlEp, UNCHANGED <<UDINT, enabled, cuts>>
    PROVE  ControlInv'
<1>1. "check" \in Labels \ {"feature", "stalled", "return"} /\ "check" \notin LoopLabels
  BY DEF Labels, LoopLabels
<1>2. Top.prev \in Endpoints
  BY EndpointTypes
<1>3. SetTop(Frame("check", Top.prev))
  BY DEF Finish
<1> QED
  BY <1>1, <1>2, <1>3, FrameStep

\* The status stage works on the control endpoint.
LEMMA StatusStep ==
    ASSUME ControlInv, ~BusPending, Top.pc # "return",
           NEW next \in {"check", "configured", "wait_sent"}, NEW local \in Int,
           next = "check" => local = 0,
           EnterStatus(next, local),
           UENUM' = ControlEp, UNCHANGED <<UDINT, enabled, cuts>>
    PROVE  ControlInv'
<1> DEFINE f == [Top EXCEPT !.pc = "status", !.next = next, !.local = local,
                            !.wait = IF ToHost(USB_ControlRequest) THEN "out" ELSE "in"]
<1>1. Top \in Frames
  BY TopFacts DEF ControlInv
<1>2. "status" \in Labels /\ "status" \notin LoopLabels /\ "status" # "return"
      /\ "status" \in ControlLabels
  BY DEF Labels, LoopLabels, ControlLabels
<1>3. f \in Frames /\ f.pc = "status" /\ f.prev = Top.prev
  BY <1>1, <1>2 DEF Frames, FrameFields
<1>4. SetTop(f)
  BY DEF EnterStatus
<1> HIDE DEF f
<1>5. UENUM' \in Selected(f)
  BY <1>2, <1>3, SelectedFacts
<1> QED
  BY <1>2, <1>3, <1>4, <1>5, TopStep

LEMMA LeaveStep ==
    ASSUME ControlInv, Runs("status"), Leave, UNCHANGED <<UENUM, UDINT, enabled, cuts>>
    PROVE  ControlInv'
<1> DEFINE f == [Frame(Top.next, Top.prev) EXCEPT !.local = Top.local]
<1>6. ~BusPending /\ Top.pc = "status"
  BY DEF Runs
<1>1. Top \in Frames
  BY TopFacts DEF ControlInv
<1>2. Top.next \in {"check", "configured", "wait_sent"} /\ Top.prev \in Endpoints
      /\ Top.local \in Int /\ (Top.next = "check" => Top.local = ControlEp)
  BY <1>1, <1>6 DEF Frames, FrameFields, ControlEp
<1>3. Top.next \in Labels /\ Top.next \notin LoopLabels /\ Top.next # "return"
  BY <1>2 DEF Labels, LoopLabels
<1>4. f \in Frames /\ f.pc = Top.next /\ f.prev = Top.prev /\ f.local = Top.local
  BY <1>2, <1>3, EndpointFacts DEF Frame, Frames, FrameFields
<1>5. SetTop(f)
  BY DEF Leave
<1> HIDE DEF f
<1>7. UENUM' = ControlEp
  <2>1. "status" \in ControlLabels
    BY DEF ControlLabels
  <2> QED
    BY <1>6, <2>1, EndpointTypes
<1>8. ControlEp \in Selected(f)
  <2>1. Top.next # "check" => Top.next \in ControlLabels
    BY <1>2 DEF ControlLabels
  <2> QED
    BY <1>2, <1>4, <2>1, SelectedFacts
<1> QED
  BY <1>3, <1>4, <1>5, <1>6, <1>7, <1>8, TopStep

-----------------------------------------------------------------------------
\* The main loop: it selects the control endpoint for its poll, and each data
\* endpoint before it uses it.
LEMMA MainLoopKeeps ==
    ASSUME ControlInv, MainLoop
    PROVE  ControlInv'
<1> USE DEF interruptVars, busVars, historyVars
<1>1. \A l \in LoopLabels : Top.pc = l => Len(stack) = 1
  BY TopFacts DEF ControlInv
<1>2. {"poll", "read", "end", "out", "in", "task"} \subseteq
         Labels \ {"feature", "stalled", "check", "status", "return"}
  BY DEF Labels
<1>3. 0 \in Endpoints /\ UENUM \in Endpoints /\ Top.prev \in Endpoints
  BY EndpointTypes, EndpointFacts DEF ControlEp
<1>4. {"task", "poll", "out", "in"} = LoopLabels
      /\ "read" \notin LoopLabels /\ "end" \notin LoopLabels
  BY DEF LoopLabels
<1>10. Right("poll", ControlEp) /\ Right("read", ControlEp) /\ Right("out", DataOut)
       /\ Right("in", DataIn) /\ \A e \in Endpoints : Right("task", e) /\ Right("end", e)
  BY DEF Right, ControlLabels
<1>5. CASE DeviceTask
  <2>1. ~BusPending /\ Top.pc = "task" /\ Len(stack) = 1
    BY <1>1, <1>4, <1>5 DEF DeviceTask, Runs
  <2>2. SetTop(Frame("poll", UENUM)) /\ UENUM' = ControlEp
        /\ UNCHANGED <<UDINT, enabled, cuts>>
    BY <1>5 DEF DeviceTask
  <2> QED
    BY <1>2, <1>3, <1>10, <2>1, <2>2, FrameStep
<1>6. CASE PollSetup
  <2>1. ~BusPending /\ Top.pc = "poll"
    BY <1>6 DEF PollSetup, Reads
  <2>2. Goto("read") \/ Goto("end")
    BY <1>6 DEF PollSetup
  <2>3. UNCHANGED <<UENUM, UDINT, enabled, cuts>>
    BY <1>6 DEF PollSetup, endpointVars
  <2>4. UENUM' = ControlEp
    BY <2>1, <2>3, EndpointTypes DEF ControlLabels
  <2> QED
    BY <1>2, <1>3, <1>4, <1>10, <2>1, <2>2, <2>3, <2>4, GotoStep
<1>7. CASE RestoreTask
  <2>1. ~BusPending /\ Top.pc = "end" /\ Len(stack) = 1
        /\ UNCHANGED <<UDINT, enabled, cuts>>
    BY <1>7 DEF RestoreTask, Runs
  <2>2. CASE UENUM' = DataOut /\ Goto("out")
    BY <1>2, <1>10, <2>1, <2>2, GotoStep
  <2>3. CASE UENUM' = Top.prev /\ SetTop(Frame("task", 0))
    BY <1>2, <1>3, <1>10, <2>1, <2>3, FrameStep
  <2> QED
    BY <1>7, <2>2, <2>3 DEF RestoreTask
<1>8. CASE ProcessOUT
  <2>1. ~BusPending /\ Top.pc = "out" /\ Len(stack) = 1
        /\ UNCHANGED <<UDINT, enabled, cuts>>
    BY <1>1, <1>4, <1>8 DEF ProcessOUT, Runs
  <2>2. Goto("in") /\ UENUM' = DataIn
    BY <1>8 DEF ProcessOUT
  <2> QED
    BY <1>2, <1>10, <2>1, <2>2, GotoStep
<1>9. CASE ProcessIN
  <2>1. ~BusPending /\ Top.pc = "in" /\ Len(stack) = 1
        /\ UNCHANGED <<UENUM, UDINT, enabled, cuts>>
    BY <1>1, <1>4, <1>9 DEF ProcessIN, Runs, endpointVars
  <2>2. SetTop(Frame("task", 0)) /\ UENUM' \in Endpoints
    BY <1>3, <1>9, <2>1 DEF ProcessIN
  <2> QED
    BY <1>2, <1>3, <1>10, <2>1, <2>2, FrameStep
<1> QED
  BY <1>5, <1>6, <1>7, <1>8, <1>9 DEF MainLoop

-----------------------------------------------------------------------------
\* The requests, up to their status stage: the control endpoint stays selected,
\* except in the requests that look at another one.
LEMMA RequestKeeps ==
    ASSUME ControlInv, USB_ControlRequest \in Request,
           \/ ReadHeader \/ Received \/ Unhandled \/ CheckSetup \/ StallSetup
           \/ Feature \/ Halt \/ GetStatus \/ EndpointStatus
           \/ SetAddress \/ SetConfiguration \/ GetConfiguration \/ GetDescriptor
    PROVE  ControlInv'
<1> USE DEF interruptVars, busVars, historyVars
<1>1. /\ {"received", "switch", "stall", "end", "stream"} \subseteq
            Labels \ {"feature", "stalled", "check", "status", "return"}
      /\ {"received", "switch", "stall", "end", "stream", "feature", "stalled"}
            \cap LoopLabels = {}
      /\ {"feature", "stalled", "stream"} \subseteq Labels \ {"return"}
  BY DEF Labels, LoopLabels
<1>2. Top.pc \in {"read", "received", "switch", "stall"} => UENUM = ControlEp
  BY EndpointTypes DEF ControlLabels
<1>3. Right("received", ControlEp) /\ Right("switch", ControlEp) /\ Right("stall", ControlEp)
      /\ \A e \in Endpoints : Right("end", e)
  BY DEF Right, ControlLabels
<1>14. UENUM \in Endpoints /\ ControlEp \in Endpoints
  BY EndpointTypes, EndpointFacts
<1>4. USB_ControlRequest.wValue \in Nat /\ USB_ControlRequest.wLength \in Nat
  BY DEF Request
<1>5. ASSUME NEW names, Dispatched(names)
      PROVE  ~BusPending /\ Top.pc = "switch" /\ UENUM = ControlEp
             /\ Supported(USB_ControlRequest) /\ USB_ControlRequest.bRequest \in names
  BY <1>2, <1>5 DEF Dispatched, Runs
<1>6. CASE ReadHeader
  <2>1. ~BusPending /\ Top.pc = "read" /\ Goto("received")
        /\ UNCHANGED <<UENUM, UDINT, enabled, cuts>>
    BY <1>6 DEF ReadHeader, Runs, endpointVars
  <2> QED
    BY <1>1, <1>2, <1>3, <2>1, GotoStep
<1>15. CASE Received
  <2>1. ~BusPending /\ Top.pc = "received" /\ (Goto("switch") \/ Finish)
        /\ UNCHANGED <<UENUM, UDINT, enabled, cuts>>
    BY <1>15 DEF Received, Reads, endpointVars
  <2> QED
    BY <1>1, <1>2, <1>3, <2>1, GotoStep, FinishStep
<1>7. CASE Unhandled
  <2>1. ~BusPending /\ Top.pc = "switch" /\ UNCHANGED <<UENUM, UDINT, enabled, cuts>>
        /\ Finish
    BY <1>7 DEF Unhandled, Runs, endpointVars
  <2> QED
    BY <1>2, <2>1, FinishStep
<1>16. CASE CheckSetup
  <2>1. ~BusPending /\ Top.pc = "check" /\ UNCHANGED <<UENUM, UDINT, enabled, cuts>>
        /\ ((UENUM = ControlEp /\ Goto("stall")) \/ Goto("end"))
    BY <1>16 DEF CheckSetup, Reads, endpointVars, SetupSeen
  <2> QED
    BY <1>1, <1>3, <1>14, <2>1, GotoStep
<1>17. CASE StallSetup
  <2>1. ~BusPending /\ Top.pc = "stall" /\ UNCHANGED <<UENUM, UDINT, enabled, cuts>>
        /\ Goto("end")
    BY <1>17 DEF StallSetup, Runs
  <2> QED
    BY <1>1, <1>3, <1>14, <2>1, GotoStep
<1>8. CASE Feature \/ GetStatus
  <2> DEFINE label == IF Feature THEN "feature" ELSE "stalled"
             f == [Top EXCEPT !.pc = label, !.local = USB_ControlRequest.wIndex]
  <2>1. ~BusPending /\ Top.pc = "switch" /\ Supported(USB_ControlRequest)
        /\ USB_ControlRequest.bRequest \in {"SetFeature", "ClearFeature", "GetStatus"}
    BY <1>5, <1>8 DEF Feature, GetStatus
  <2>2. UENUM' = USB_ControlRequest.wIndex /\ SetTop(f)
        /\ UNCHANGED <<UDINT, enabled, cuts>>
    BY <1>8 DEF Feature, GetStatus
  <2>3. USB_ControlRequest.wIndex \in Endpoints
    BY <2>1 DEF Supported
  <2>4. USB_ControlRequest.wIndex \in Int /\ Top \in Frames /\ label \in {"feature", "stalled"}
    BY <2>3, TopFacts DEF Endpoints, TotalEndpoints, ControlInv
  <2> HIDE DEF label
  <2>5. f \in Frames /\ f.pc \in {"feature", "stalled"} /\ f.prev = Top.prev
        /\ f.local = USB_ControlRequest.wIndex
    BY <1>1, <2>3, <2>4 DEF Frames, FrameFields
  <2> HIDE DEF f
  <2>6. UENUM' \in Selected(f)
    BY <2>2, <2>5, SelectedFacts
  <2> QED
    BY <1>1, <2>1, <2>2, <2>5, <2>6, TopStep
<1>9. CASE Halt
  <2>1. ~BusPending /\ Top.pc = "feature" /\ UENUM' = ControlEp
        /\ EnterStatus("check", 0) /\ UNCHANGED <<UDINT, enabled, cuts>>
    BY <1>9 DEF Halt, Runs
  <2> QED
    BY <2>1, StatusStep
<1>18. CASE EndpointStatus
  <2>1. ~BusPending /\ Top.pc = "stalled" /\ UENUM' = ControlEp
        /\ EnterStatus("check", 0) /\ UNCHANGED <<UDINT, enabled, cuts>>
    BY <1>18 DEF EndpointStatus, WriteBytes, Runs
  <2> QED
    BY <2>1, StatusStep
<1>10. CASE SetAddress
  <2>1. ~BusPending /\ Top.pc = "switch" /\ UENUM = ControlEp
    BY <1>5, <1>10 DEF SetAddress
  <2>2. EnterStatus("wait_sent", USB_ControlRequest.wValue)
        /\ UNCHANGED <<UENUM, UDINT, enabled, cuts>>
    BY <1>10 DEF SetAddress, endpointVars
  <2>3. UENUM' = ControlEp /\ USB_ControlRequest.wValue \in Int
    BY <1>4, <2>1, <2>2
  <2> QED
    BY <2>1, <2>2, <2>3, StatusStep
<1>11. CASE SetConfiguration
  <2>1. ~BusPending /\ Top.pc = "switch" /\ UENUM = ControlEp
    BY <1>5, <1>11 DEF SetConfiguration
  <2>2. EnterStatus("configured", 0) /\ UNCHANGED <<UENUM, UDINT, enabled, cuts>>
    BY <1>11 DEF SetConfiguration, endpointVars
  <2> QED
    BY <2>1, <2>2, StatusStep
<1>12. CASE GetConfiguration
  <2>1. ~BusPending /\ Top.pc = "switch" /\ UENUM = ControlEp
    BY <1>5, <1>12 DEF GetConfiguration
  <2>2. EnterStatus("check", 0) /\ UNCHANGED <<UENUM, UDINT, enabled, cuts>>
    BY <1>12 DEF GetConfiguration, WriteBytes
  <2> QED
    BY <2>1, <2>2, StatusStep
<1>13. CASE GetDescriptor
  <2>1. ~BusPending /\ Top.pc = "switch" /\ UENUM = ControlEp
    BY <1>5, <1>13 DEF GetDescriptor
  <2> DEFINE n == Smaller(USB_ControlRequest.wValue, USB_ControlRequest.wLength)
             f == [Top EXCEPT !.pc = "stream", !.local = n]
  <2>2. SetTop(f) /\ UNCHANGED <<UENUM, UDINT, enabled, cuts>>
    BY <1>13 DEF GetDescriptor, endpointVars
  <2>3. n \in Int
    BY <1>4 DEF Smaller
  <2>4. Top \in Frames
    BY TopFacts DEF ControlInv
  <2> HIDE DEF n
  <2>5. f \in Frames /\ f.pc = "stream" /\ f.prev = Top.prev
    BY <1>1, <2>3, <2>4 DEF Frames, FrameFields
  <2> HIDE DEF f
  <2>6. UENUM' \in Selected(f)
    BY <2>1, <2>2, <2>5, SelectedFacts DEF ControlLabels
  <2> QED
    BY <1>1, <2>1, <2>2, <2>5, <2>6, TopStep
<1> QED
  BY <1>6, <1>7, <1>8, <1>9, <1>10, <1>11, <1>12, <1>13, <1>15, <1>16, <1>17, <1>18

\* The stream of a descriptor and the status stage.
LEMMA AnswerKeeps ==
    ASSUME ControlInv,
           \/ StreamPacket \/ StreamDone \/ StreamEnd
           \/ StatusSent \/ StatusReceived \/ StatusLeft
    PROVE  ControlInv'
<1> USE DEF interruptVars, busVars, historyVars
<1>1. /\ {"acknowledge", "stream"} \subseteq Labels \ LoopLabels
      /\ {"acknowledge", "stream"} \cap {"feature", "stalled", "check", "return"} = {}
      /\ {"acknowledge", "stream"} \subseteq ControlLabels
  BY DEF Labels, LoopLabels, ControlLabels
<1>2. Top.pc \in {"stream", "acknowledge"} => UENUM = ControlEp
  BY <1>1, EndpointTypes
<1>3. Right("acknowledge", ControlEp)
  BY <1>1 DEF Right
<1>4. CASE StreamPacket
  <2> DEFINE n == Smaller(Top.local, ControlSize)
             full == Top.local >= ControlSize
             m == Top.local - n
             f == [Top EXCEPT !.local = m, !.full = full]
  <2>1. Packet(n, full)
    BY <1>4 DEF StreamPacket
  <2>2. Top \in Frames
    BY TopFacts DEF ControlInv
  <2>3. Top.local \in Int
    BY <2>2 DEF Frames, FrameFields
  <2>4. n \in Int /\ m \in Int
    BY <2>3 DEF Smaller, ControlSize
  <2> HIDE DEF n
  <2>9. full \in BOOLEAN
    OBVIOUS
  <2> HIDE DEF full
  <2>5. ~BusPending /\ Top.pc = "stream"
    BY <2>1 DEF Packet, Runs
  <2>6. SetTop(f) /\ UNCHANGED <<UENUM, UDINT, enabled, cuts>>
    BY <2>1 DEF Packet, endpointVars
  <2> HIDE DEF m
  <2>7. f \in Frames /\ f.pc = Top.pc /\ f.prev = Top.prev
    BY <2>2, <2>4, <2>5, <2>9 DEF Frames, FrameFields
  <2> HIDE DEF f
  <2>8. UENUM' \in Selected(f)
    BY <1>1, <1>2, <2>5, <2>6, <2>7, SelectedFacts
  <2> QED
    BY <1>1, <2>5, <2>6, <2>7, <2>8, TopStep
<1>5. CASE StreamDone
  <2>1. ~BusPending /\ Top.pc = "stream" /\ SetTop(Frame("acknowledge", Top.prev))
        /\ UNCHANGED <<UENUM, UDINT, enabled, cuts>>
    BY <1>5 DEF StreamDone, Runs, endpointVars
  <2>2. Right("acknowledge", UENUM') /\ Top.prev \in Endpoints
    BY <1>2, <1>3, <2>1, EndpointTypes
  <2> QED
    BY <1>1, <2>1, <2>2, FrameStep
<1>6. CASE StreamEnd
  <2>1. ~BusPending /\ Top.pc \in {"stream", "acknowledge"} /\ Finish
        /\ UNCHANGED <<UENUM, UDINT, enabled, cuts>>
    BY <1>6 DEF StreamEnd, Runs, endpointVars
  <2> QED
    BY <1>1, <1>2, <2>1, FinishStep
<1>7. CASE StatusSent \/ StatusReceived \/ StatusLeft
  <2>1. Runs("status") /\ Leave /\ UNCHANGED <<UENUM, UDINT, enabled, cuts>>
    BY <1>7 DEF StatusSent, StatusReceived, StatusLeft, endpointVars
  <2> QED
    BY <2>1, LeaveStep
<1> QED
  BY <1>4, <1>5, <1>6, <1>7

\* The end of SET_ADDRESS, and that of SET_CONFIGURATION, which selects each
\* endpoint it configures.
LEMMA SetEndKeeps ==
    ASSUME ControlInv,
           \/ EnableAddress \/ Configured
           \/ ConfigureOUT \/ Inspect \/ Reallocate \/ ConfigureIN
    PROVE  ControlInv'
<1> USE DEF interruptVars, busVars, historyVars
<1>1. {"configure_out", "inspect", "reallocate", "configure_in"} \subseteq
         Labels \ (LoopLabels \cup {"feature", "stalled", "check", "status", "return"})
  BY DEF Labels, LoopLabels
<1>2. Right("configure_out", DataOut) /\ Right("inspect", DataIn)
      /\ Right("configure_in", DataIn)
  BY DEF Right
<1>3. \A e : Allocate(e) => UNCHANGED <<UDINT, cuts>>
                             /\ enabled' \in {enabled, enabled \ {"RXSTPI"}}
  BY DEF Allocate
<1>4. Top \in Frames /\ UENUM \in Endpoints /\ Top.prev \in Endpoints
  BY TopFacts, EndpointTypes DEF ControlInv
<1>5. CASE EnableAddress
  <2>1. ~BusPending /\ Top.pc = "wait_sent" /\ Finish
        /\ UNCHANGED <<UENUM, UDINT, enabled, cuts>>
    BY <1>5 DEF EnableAddress, Runs, endpointVars
  <2> QED
    BY <2>1, EndpointTypes, FinishStep DEF ControlLabels
<1>6. CASE Configured
  <2>1. ~BusPending /\ Top.pc # "return" /\ Goto("configure_out") /\ UENUM' = DataOut
        /\ UNCHANGED <<UDINT, enabled, cuts>>
    BY <1>6 DEF Configured, Runs
  <2> QED
    BY <1>1, <1>2, <2>1, GotoStep
<1>7. CASE ConfigureOUT
  <2>1. ~BusPending /\ Top.pc # "return" /\ Goto("inspect") /\ UENUM' = DataIn
        /\ Allocate(DataOut)
    BY <1>7 DEF ConfigureOUT, Runs
  <2> QED
    BY <1>1, <1>2, <1>3, <2>1, GotoStep
<1>8. CASE Reallocate
  <2>1. ~BusPending /\ Top.pc # "return" /\ Goto("configure_in") /\ UENUM' = DataIn
        /\ Allocate(Top.local)
    BY <1>8 DEF Reallocate, Runs
  <2> QED
    BY <1>1, <1>2, <1>3, <2>1, GotoStep
<1>9. CASE Inspect
  <2> DEFINE label == IF UENUM \in allocated THEN "reallocate" ELSE "configure_in"
             f == [Top EXCEPT !.pc = label, !.local = UENUM]
  <2>1. ~BusPending /\ Top.pc = "inspect" /\ SetTop(f) /\ UENUM' \in {UENUM, DataIn}
        /\ UNCHANGED <<UDINT, enabled, cuts>>
    BY <1>9 DEF Inspect, Runs
  <2>2. label \in {"reallocate", "configure_in"} /\ UENUM \in Int
    BY <1>4 DEF Endpoints, TotalEndpoints
  <2> HIDE DEF label
  <2>3. f \in Frames /\ f.pc = label /\ f.prev = Top.prev
    BY <1>1, <1>4, <2>2 DEF Frames, FrameFields
  <2> HIDE DEF f
  <2>4. UENUM \in Selected(Top) /\ Selected(f) = Selected(Top)
    BY <2>1, <2>2, <2>3 DEF ControlInv, SelectInv, Selected
  <2>5. DataIn \in Selected(f)
    BY <2>2, <2>3, SelectedFacts
  <2> QED
    BY <1>1, <2>1, <2>2, <2>3, <2>4, <2>5, TopStep
<1>10. CASE ConfigureIN
  <2> DEFINE f == [Frame("check", Top.prev) EXCEPT !.local = DataIn]
  <2>1. ~BusPending /\ Top.pc # "return" /\ SetTop(f) /\ UENUM' = DataIn
        /\ Allocate(DataIn)
    BY <1>10 DEF ConfigureIN, Runs
  <2>2. "check" \in Labels /\ "check" \notin LoopLabels /\ DataIn \in Int
    BY DEF Labels, LoopLabels, DataIn
  <2>3. f \in Frames /\ f.pc = "check" /\ f.prev = Top.prev /\ f.local = DataIn
    BY <1>4, <2>2, EndpointFacts DEF Frame, Frames, FrameFields
  <2> HIDE DEF f
  <2>4. UENUM' \in Selected(f)
    BY <2>1, <2>3, SelectedFacts
  <2> QED
    BY <1>3, <2>1, <2>2, <2>3, <2>4, TopStep
<1> QED
  BY <1>5, <1>6, <1>7, <1>8, <1>9, <1>10

-----------------------------------------------------------------------------
\* The control interrupt: its entry saves the selected endpoint and disables it,
\* its end enables it, when it no longer counts as a request, and restores what
\* was selected.
LEMMA EntryKeeps ==
    ASSUME ControlInv, USB_COM_vect
    PROVE  ControlInv'
<1> DEFINE f == Frame("read", UENUM)
<1>1. /\ UENUM \in Endpoints /\ UENUM \in Selected(Top)
      /\ f \in Frames /\ f.pc = "read" /\ f.prev = UENUM
  <2>1. "read" \in Labels
    BY DEF Labels
  <2> QED
    BY <2>1, EndpointTypes, FrameFacts DEF ControlInv, SelectInv
<1> HIDE DEF f
<1>2. stack \in Seq(Frames) /\ Len(stack) \in Nat \ {0}
  BY TopFacts DEF ControlInv, StackInv
<1>3. stack' = Append(stack, f) /\ UENUM' = ControlEp
      /\ enabled' = enabled \ {"RXSTPI"} /\ UNCHANGED <<UDINT, cuts>>
      /\ ~BusPending /\ "RXSTPI" \in enabled
  BY DEF USB_COM_vect, f, busVars, historyVars, ControlPending
<1>4. /\ stack' \in Seq(Frames) /\ Len(stack') = Len(stack) + 1
      /\ \A k \in 1..Len(stack) : stack'[k] = stack[k]
      /\ stack'[Len(stack) + 1] = f
  BY <1>1, <1>2, <1>3, AppendProperties
<1>5. Top' = f
  BY <1>4 DEF Top
<1>6. \A g : Selected(g)' = Selected(g)
  BY <1>3, SelectedKept
<1>7. "read" \notin LoopLabels /\ "read" # "return"
  BY DEF LoopLabels
<1>8. \A k : k \in 2..Len(stack') <=> k \in 2..Len(stack) \/ k = Len(stack) + 1
  BY <1>2, <1>4
<1>9. 1 \in 1..Len(stack) /\ \A k \in 2..Len(stack) : k \in 1..Len(stack)
  BY <1>2
<1>10. StackInv'
  <2>1. stack'[1].pc # "return"
    BY <1>4, <1>9 DEF ControlInv, StackInv
  <2>2. ASSUME NEW k \in 2..Len(stack') PROVE stack'[k].pc \notin LoopLabels
    BY <1>1, <1>4, <1>7, <1>8, <1>9 DEF ControlInv, StackInv
  <2> QED
    BY <1>2, <1>4, <2>1, <2>2 DEF StackInv
<1>11. SelectInv'
  <2>1. UENUM' \in Selected(Top)'
    <3>1. Selected(f) = {ControlEp}
      BY <1>1, SelectedFacts DEF ControlLabels
    <3> QED
      BY <1>3, <1>5, <1>6, <3>1
  <2>2. ASSUME NEW k \in 1..(Len(stack') - 1)
        PROVE  stack'[k + 1].prev \in Selected(stack[k])'
    <3>1. CASE k = Len(stack)
      <4>1. stack'[k] = Top /\ stack'[k + 1] = f
        BY <1>2, <1>4, <3>1 DEF Top
      <4> QED
        BY <1>1, <1>6, <4>1
    <3>2. CASE k # Len(stack)
      <4>1. k \in 1..(Len(stack) - 1) /\ k \in 1..Len(stack) /\ k + 1 \in 1..Len(stack)
        BY <1>2, <1>4, <3>2
      <4>2. stack[k + 1].prev \in Selected(stack[k])
        BY <4>1 DEF ControlInv, SelectInv
      <4> QED
        BY <1>4, <1>6, <4>1, <4>2
    <3> QED
      BY <3>1, <3>2
  <2> QED
    BY <2>1, <2>2 DEF SelectInv
<1>12. "EORSTI" \notin UDINT' /\ "EORSTI" \in enabled' /\ "RXSTPI" \notin enabled'
  BY <1>3 DEF BusPending, ControlInv, BusInv
<1>13. BusInv'
  BY <1>12 DEF BusInv
<1>14. NestInv'
  <2>1. Handlers' = Handlers \cup {Len(stack) + 1}
    BY <1>1, <1>4, <1>7, <1>8, <1>9 DEF Handlers
  <2>2. IsFiniteSet(Handlers) /\ Cardinality(Handlers) \in Nat
    BY HandlersFinite DEF ControlInv
  <2>3. Len(stack) + 1 \notin Handlers
    BY <1>2 DEF Handlers
  <2>4. Cardinality(Handlers') = Cardinality(Handlers) + 1
    BY <2>1, <2>2, <2>3, FS_AddElement
  <2>5. Cardinality(Handlers) <= cuts
    BY <1>3 DEF ControlInv, NestInv
  <2>6. Cardinality(Handlers') <= 1 + cuts /\ cuts' = cuts /\ cuts \in Nat
    BY <1>3, <2>2, <2>4, <2>5 DEF ControlInv, NestInv
  <2> QED
    BY <1>3, <1>12, <2>6 DEF NestInv
<1> QED
  BY <1>10, <1>11, <1>13, <1>14 DEF ControlInv

LEMMA EnableKeeps ==
    ASSUME ControlInv, EnableRXSTPI
    PROVE  ControlInv'
<1> DEFINE f == Frame("return", Top.prev)
           last == Len(stack)
<1>1. /\ Top.pc = "end" /\ Len(stack) > 1 /\ ~BusPending
      /\ UENUM' = ControlEp /\ enabled' = enabled \cup {"RXSTPI"}
      /\ SetTop(f) /\ UNCHANGED <<UDINT, cuts>>
  BY DEF EnableRXSTPI, Runs, busVars, historyVars
<1>2. f \in Frames /\ f.pc = "return" /\ f.prev = Top.prev
  <2>1. "return" \in Labels
    BY DEF Labels
  <2> QED
    BY <2>1, EndpointTypes, FrameFacts
<1> HIDE DEF f
<1>3. /\ stack' \in Seq(Frames) /\ Len(stack') = last
      /\ \A k \in 1..last : stack'[k] = IF k = last THEN f ELSE stack[k]
      /\ Top' = f
  BY <1>1, <1>2, SetTopFacts DEF ControlInv
<1>4. last \in Nat \ {0, 1}
  BY <1>1, TopFacts DEF ControlInv
<1>5. Top = stack[last]
  BY DEF Top
<1> HIDE DEF last
<1>6. \A g : Selected(g)' = Selected(g)
  BY <1>1, SelectedKept
<1>7. /\ \A k \in 2..last : k \in 1..last
      /\ last \in 2..last /\ 1 \in 1..last /\ last # 1
  BY <1>4
<1>8. Len(stack) = last
  BY DEF last
<1>9. StackInv'
  <2>1. stack'[1].pc # "return"
    BY <1>3, <1>7 DEF ControlInv, StackInv
  <2>2. "return" \notin LoopLabels
    BY DEF LoopLabels
  <2>3. ASSUME NEW k \in 2..last PROVE stack'[k].pc \notin LoopLabels
    BY <1>2, <1>3, <1>7, <1>8, <2>2 DEF ControlInv, StackInv
  <2> QED
    BY <1>3, <1>4, <2>1, <2>3 DEF StackInv
<1>10. SelectInv'
  <2>1. UENUM' \in Selected(f)
    BY <1>1, <1>2, SelectedFacts, EndpointFacts
  <2>2. UENUM' \in Selected(Top)'
    BY <1>3, <1>6, <2>1
  <2>3. ASSUME NEW k \in 1..(Len(stack') - 1)
        PROVE  stack'[k + 1].prev \in Selected(stack[k])'
    <3>1. k \in 1..last /\ k + 1 \in 1..last /\ k \in 1..(last - 1) /\ k # last
      BY <1>3, <1>4
    <3>2. stack'[k] = stack[k]
      BY <1>3, <3>1
    <3>3. stack'[k + 1].prev = stack[k + 1].prev
      BY <1>2, <1>3, <1>5, <3>1
    <3>4. stack[k + 1].prev \in Selected(stack[k])
      BY <1>8, <3>1 DEF ControlInv, SelectInv
    <3> QED
      BY <1>6, <3>2, <3>3, <3>4
  <2> QED
    BY <2>2, <2>3 DEF SelectInv
<1>11. "EORSTI" \notin UDINT' /\ "EORSTI" \in enabled'
  BY <1>1 DEF BusPending, ControlInv, BusInv
<1>12. NestInv'
  <2>1. Handlers' = Handlers \ {last}
    BY <1>2, <1>3, <1>7, <1>8 DEF Handlers
  <2>2. last \in Handlers
    BY <1>1, <1>5, <1>7, <1>8 DEF Handlers
  <2>3. IsFiniteSet(Handlers) /\ Cardinality(Handlers) \in Nat
    BY HandlersFinite DEF ControlInv
  <2>4. Cardinality(Handlers') = Cardinality(Handlers) - 1
    BY <2>1, <2>2, <2>3, FS_RemoveElement
  <2>5. Cardinality(Handlers') <= cuts /\ Cardinality(Handlers') <= 1 + cuts
        /\ cuts' = cuts /\ cuts \in Nat
    BY <1>1, <2>3, <2>4 DEF ControlInv, NestInv
  <2> QED
    BY <2>5 DEF NestInv
<1> QED
  BY <1>9, <1>10, <1>11, <1>12 DEF ControlInv, BusInv

LEMMA RestoreKeeps ==
    ASSUME ControlInv, RestoreEndpoint
    PROVE  ControlInv'
<1> DEFINE last == Len(stack)
<1>1. /\ Top.pc = "return" /\ ~BusPending
      /\ UENUM' = Top.prev /\ stack' = SubSeq(stack, 1, last - 1)
      /\ UNCHANGED <<UDINT, enabled, cuts>>
  BY DEF RestoreEndpoint, Runs, busVars, historyVars, interruptVars
<1>2. last \in Nat \ {0} /\ \A k \in 1..last : stack[k] \in Frames
  BY TopFacts DEF ControlInv
<1>3. Len(stack) = last /\ Top = stack[last]
  BY DEF Top
<1> HIDE DEF last
<1>4. last # 1
  BY <1>1, <1>3 DEF ControlInv, StackInv
<1>5. /\ stack' \in Seq(Frames) /\ Len(stack') = last - 1
      /\ \A k \in 1..(last - 1) : stack'[k] = stack[k]
  <2>1. 1 \in Int /\ last - 1 \in Int /\ \A k \in 1..(last - 1) : k \in 1..last
    BY <1>2
  <2>2. \A k \in 1..(last - 1) : stack[k] \in Frames
    BY <1>2, <2>1
  <2>3. /\ SubSeq(stack, 1, last - 1) \in Seq(Frames)
        /\ Len(SubSeq(stack, 1, last - 1)) =
              IF 1 <= last - 1 THEN (last - 1) - 1 + 1 ELSE 0
        /\ \A k \in 1..((last - 1) - 1 + 1) :
              SubSeq(stack, 1, last - 1)[k] = stack[1 + k - 1]
    BY <2>1, <2>2, SubSeqProperties
  <2>4. (last - 1) - 1 + 1 = last - 1 /\ 1 <= last - 1
        /\ \A k \in 1..(last - 1) : 1 + k - 1 = k
    BY <1>2, <1>4
  <2> QED
    BY <1>1, <2>3, <2>4
<1>6. \A g : Selected(g)' = Selected(g)
  BY <1>1, SelectedKept
<1>7. /\ 1 \in 1..(last - 1) /\ last - 1 \in 1..(last - 1) /\ (last - 1) + 1 = last
      /\ \A k \in 2..(last - 1) : k \in 1..(last - 1) /\ k \in 2..last
      /\ \A k \in 2..last : k = last \/ k \in 2..(last - 1)
  BY <1>2, <1>4
<1>8. StackInv'
  <2>1. stack'[1].pc # "return"
    BY <1>5, <1>7 DEF ControlInv, StackInv
  <2>2. ASSUME NEW k \in 2..(last - 1) PROVE stack'[k].pc \notin LoopLabels
    BY <1>3, <1>5, <1>7 DEF ControlInv, StackInv
  <2>3. last - 1 > 0
    BY <1>2, <1>4
  <2> QED
    BY <1>5, <2>1, <2>2, <2>3 DEF StackInv
<1>9. SelectInv'
  <2>1. stack[last].prev \in Selected(stack[last - 1])
    BY <1>3, <1>7 DEF ControlInv, SelectInv
  <2>2. Top' = stack[last - 1]
    BY <1>5, <1>7 DEF Top
  <2>3. UENUM' \in Selected(Top)'
    BY <1>1, <1>3, <1>6, <2>1, <2>2
  <2>4. ASSUME NEW k \in 1..(Len(stack') - 1)
        PROVE  stack'[k + 1].prev \in Selected(stack[k])'
    <3>1. k \in 1..(last - 1) /\ k + 1 \in 1..(last - 1)
      BY <1>2, <1>4, <1>5
    <3>2. stack[k + 1].prev \in Selected(stack[k])
      BY <1>3, <3>1 DEF ControlInv, SelectInv
    <3> QED
      BY <1>5, <1>6, <3>1, <3>2
  <2> QED
    BY <2>3, <2>4 DEF SelectInv
<1>10. BusInv'
  BY <1>1 DEF ControlInv, BusInv, BusPending
<1>11. Handlers' = Handlers
  BY <1>1, <1>3, <1>5, <1>7 DEF Handlers
<1>12. NestInv'
  BY <1>1, <1>11 DEF ControlInv, NestInv
<1> QED
  BY <1>8, <1>9, <1>10, <1>12 DEF ControlInv

-----------------------------------------------------------------------------
LEMMA StackKept ==
    ASSUME ControlInv, UNCHANGED <<stack, cuts>>
    PROVE  /\ StackInv' /\ Top' = Top /\ Handlers' = Handlers
           /\ \A k \in 1..(Len(stack') - 1) :
                 stack'[k + 1].prev \in Selected(stack[k])'
<1>1. \A g : Selected(g)' = Selected(g)
  BY SelectedKept
<1>2. StackInv' /\ Top' = Top /\ Handlers' = Handlers
  BY DEF ControlInv, StackInv, Top, Handlers
<1>3. ASSUME NEW k \in 1..(Len(stack') - 1)
      PROVE  stack'[k + 1].prev \in Selected(stack[k])'
  <2>1. stack[k + 1].prev \in Selected(stack[k])
    BY DEF ControlInv, SelectInv
  <2> QED
    BY <1>1, <2>1
<1> QED
  BY <1>2, <1>3

\* A bus interrupt changes no code's stack; a reset selects the control
\* endpoint, which only the counted ones let code work on that uses another.
LEMMA BusInterruptKeeps ==
    ASSUME ControlInv, USB_GEN_vect
    PROVE  ControlInv'
<1>1. UNCHANGED <<stack, cuts>>
  BY DEF USB_GEN_vect, busVars, historyVars
<1>2. \/ "EORSTI" \in UDINT /\ UENUM' = ControlEp /\ "EORSTI" \notin UDINT'
      \/ "EORSTI" \notin UDINT /\ UENUM' = UENUM /\ "EORSTI" \notin UDINT'
         /\ ("RXSTPI" \in enabled' => "RXSTPI" \in enabled)
  BY DEF USB_GEN_vect, ConfigureControl, endpointVars
<1>3. "EORSTI" \in enabled'
  BY DEF USB_GEN_vect, ControlInv, BusInv
<1>4. StackInv' /\ Top' = Top /\ Handlers' = Handlers
  BY <1>1, StackKept
<1>5. UENUM' \in Selected(Top)
  <2>1. CASE UENUM' = UENUM
    BY <2>1 DEF ControlInv, SelectInv
  <2>2. CASE "EORSTI" \in UDINT /\ UENUM' = ControlEp
    <3>1. Top \in Frames /\ Len(stack) \in Nat \ {0}
      BY TopFacts DEF ControlInv
    <3>2. CASE Len(stack) = 1
      <4>1. Top = stack[1]
        BY <3>2 DEF Top
      <4>2. cuts # 0 \/ UsesNoData(Top)
        BY <2>2, <4>1 DEF ControlInv, BusInv
      <4> QED
        BY <2>2, <3>1, <4>2, SelectedFacts
    <3>3. CASE Len(stack) # 1
      <4>1. Len(stack) \in 2..Len(stack)
        BY <3>1, <3>3
      <4>2. Top.pc # "return" => Len(stack) \in Handlers
        BY <4>1 DEF Handlers, Top
      <4>3. cuts # 0 \/ Top.pc = "return"
        BY <2>2, <4>2 DEF ControlInv, BusInv, Handling
      <4> QED
        BY <2>2, <3>1, <4>3, SelectedFacts
    <3> QED
      BY <3>2, <3>3
  <2> QED
    BY <1>2, <2>1, <2>2
<1>6. SelectInv'
  <2>1. \A g : Selected(g)' = Selected(g)
    BY <1>1, SelectedKept
  <2>2. UENUM' \in Selected(Top)'
    BY <1>4, <1>5, <2>1
  <2> QED
    BY <1>1, <2>2, StackKept DEF SelectInv
<1>7. BusInv'
  BY <1>2, <1>3 DEF BusInv
<1>8. NestInv'
  BY <1>1, <1>2, <1>4 DEF ControlInv, NestInv
<1> QED
  BY <1>4, <1>6, <1>7, <1>8 DEF ControlInv

\* The host changes the flags of the controller; a reset during a control
\* request, or while the main loop uses its data endpoints, is counted.
LEMMA HostKeeps ==
    ASSUME ControlInv, Host
    PROVE  ControlInv'
<1>1. CASE BusReset
  <2>1. /\ UNCHANGED <<stack, UENUM, enabled>>
        /\ cuts' = IF Handling \/ ~UsesNoData(stack[1]) THEN cuts + 1 ELSE cuts
    BY <1>1 DEF BusReset, deviceVars, endpointVars
  <2>2. cuts \in Nat /\ cuts' \in Nat
    BY <2>1 DEF ControlInv, NestInv
  <2>3. cuts' # 0 \/ (cuts' = cuts /\ cuts = 0)
    BY <2>1, <2>2
  <2>4. ASSUME NEW f PROVE Selected(f) \subseteq Selected(f)'
    <3>1. \A e : AfterCut(e) \subseteq AfterCut(e)'
      BY <2>3 DEF AfterCut
    <3> QED
      BY <3>1 DEF Selected
  <2>5. StackInv' /\ Top' = Top /\ Handlers' = Handlers
    BY <2>1 DEF ControlInv, StackInv, Top, Handlers
  <2>6. SelectInv'
    <3>1. UENUM' \in Selected(Top)'
      BY <2>1, <2>4, <2>5 DEF ControlInv, SelectInv
    <3>2. ASSUME NEW k \in 1..(Len(stack') - 1)
          PROVE  stack'[k + 1].prev \in Selected(stack[k])'
      <4>1. stack[k + 1].prev \in Selected(stack[k])
        BY <2>1 DEF ControlInv, SelectInv
      <4> QED
        BY <2>1, <2>4, <4>1
    <3> QED
      BY <3>1, <3>2 DEF SelectInv
  <2>7. BusInv'
    <3>1. Handling' = Handling /\ UsesNoData(stack[1])' = UsesNoData(stack[1])
      BY <2>1, <2>5 DEF Handling, UsesNoData
    <3> QED
      BY <2>1, <2>2, <2>5, <3>1 DEF ControlInv, BusInv, NestInv
  <2>8. NestInv'
    <3>1. IsFiniteSet(Handlers) /\ Cardinality(Handlers) \in Nat
      BY HandlersFinite DEF ControlInv
    <3>2. Cardinality(Handlers) <= cuts'
      <4>1. CASE Handling
        BY <2>1, <2>2, <3>1, <4>1 DEF ControlInv, NestInv
      <4>2. CASE ~Handling
        BY <2>2, <4>2, FS_EmptySet DEF Handling
      <4> QED
        BY <4>1, <4>2
    <3>3. Cardinality(Handlers') <= cuts' /\ Cardinality(Handlers') <= 1 + cuts'
      BY <2>2, <2>5, <3>1, <3>2
    <3> QED
      BY <2>2, <3>3 DEF NestInv
  <2> QED
    BY <2>5, <2>6, <2>7, <2>8 DEF ControlInv
<1>2. CASE HostSetup \/ Transfer \/ HostAbort \/ BusSuspend \/ BusResume
  <2>1. UNCHANGED <<stack, cuts, UENUM, enabled>>
    BY <1>2 DEF HostSetup, Transfer, HostIN, HostOUT, HostStalled, HostRecovered,
                HostAbort, BusSuspend, BusResume, deviceVars, endpointVars, interruptVars,
                Disturb
  <2>2. "EORSTI" \in UDINT' <=> "EORSTI" \in UDINT
    BY <1>2 DEF HostSetup, Transfer, HostIN, HostOUT, HostStalled, HostRecovered,
                HostAbort, BusSuspend, BusResume, interruptVars
  <2>3. StackInv' /\ Top' = Top /\ Handlers' = Handlers
    BY <2>1, StackKept
  <2>4. \A g : Selected(g)' = Selected(g)
    BY <2>1, SelectedKept
  <2>5. SelectInv'
    <3>1. UENUM' \in Selected(Top)'
      BY <2>1, <2>3, <2>4 DEF ControlInv, SelectInv
    <3> QED
      BY <2>1, <3>1, StackKept DEF SelectInv
  <2>6. BusInv' /\ NestInv'
    <3>1. Handling' = Handling /\ UsesNoData(stack[1])' = UsesNoData(stack[1])
      BY <2>1, <2>3 DEF Handling, UsesNoData
    <3> QED
      BY <2>1, <2>2, <2>3, <3>1 DEF ControlInv, BusInv, NestInv
  <2> QED
    BY <2>3, <2>5, <2>6 DEF ControlInv
<1> QED
  BY <1>1, <1>2 DEF Host

-----------------------------------------------------------------------------
LEMMA TypesSplit ==
    LufaTypes /\ RegisterTypes /\ PacketTypes /\ CountersInv => UsbTypeOK
<1> SUFFICES ASSUME LufaTypes, RegisterTypes, PacketTypes, CountersInv
             PROVE  UsbTypeOK
  OBVIOUS
<1>1. cuts + aborts \in 0..MaxDisturbances
  BY BoundAssumption DEF CountersInv
<1>2. UDADDR.enabled \in BOOLEAN
  BY DEF LufaTypes
<1> QED
  BY <1>1, <1>2 DEF LufaTypes, RegisterTypes, PacketTypes, CountersInv, UsbTypeOK

LEMMA RequestTypes ==
    /\ NoRequest \in Request
    /\ \A r \in Requests \cup {NoRequest} :
          r \in Request /\ r.wValue \in Nat /\ r.wLength \in Nat
<1>1. NoRequest \in Request
  BY DEF NoRequest, Request, RequestNames
<1>2. \A r \in Request : r.wValue \in Nat /\ r.wLength \in Nat
  BY DEF Request
<1> QED
  BY <1>1, <1>2, RequestsAssumption

LEMMA CountersKept ==
    ASSUME CountersInv, Next
    PROVE  CountersInv'
<1>1. CASE Device /\ ~PollSetup /\ ~Received /\ ~CheckSetup
  <2>1. UNCHANGED historyVars
    BY <1>1 DEF Device, Interrupt, MainLoop, ControlRequest, USB_GEN_vect,
       USB_COM_vect, DeviceTask, RestoreTask, ProcessOUT, ProcessIN, ReadHeader,
       Unhandled, StallSetup, SetAddress, EnableAddress, SetConfiguration, Configured,
       ConfigureOUT, Inspect, Reallocate, ConfigureIN, Allocate, GetConfiguration,
       GetStatus, EndpointStatus, WriteBytes, Feature, Halt, GetDescriptor,
       StreamPacket, Packet, StreamDone, StreamEnd, StatusSent, StatusReceived,
       StatusLeft, EnableRXSTPI, RestoreEndpoint, busVars
  <2> QED
    BY <2>1 DEF CountersInv, historyVars
<1>4. CASE PollSetup
  BY <1>4, BoundAssumption DEF CountersInv, PollSetup, Disturb
<1>5. CASE Received \/ CheckSetup
  BY <1>5 DEF CountersInv, Received, CheckSetup, Overtaken, SetupSeen
<1>2. CASE HostSetup \/ Transfer \/ BusResume
  BY <1>2 DEF CountersInv, HostSetup, Transfer, HostIN, HostOUT, HostStalled,
     HostRecovered, BusResume, deviceVars
<1>3. CASE HostAbort \/ BusReset \/ BusSuspend
  BY <1>3, BoundAssumption DEF CountersInv, HostAbort, BusReset, BusSuspend, Disturb,
     deviceVars
<1> QED
  BY <1>1, <1>2, <1>3, <1>4, <1>5 DEF Next, Host

LEMMA PacketsKept ==
    ASSUME PacketTypes, LufaTypes, StackInv, Next
    PROVE  PacketTypes'
<1>1. USB_ControlRequest \in Request /\ USB_ControlRequest.wLength \in Int
  BY RequestTypes DEF LufaTypes
<1>2. Empty \in [request : Request, length : Int]
  BY RequestTypes DEF Empty
<1>3. Top.local \in Int
  BY TopFacts DEF Frames, FrameFields
<1>4. CASE UNCHANGED <<rxstp, rxout, txin, bank>>
  BY <1>4 DEF PacketTypes
<1>5. CASE ClearSETUP
  BY <1>2, <1>5 DEF PacketTypes, ClearSETUP
<1>6. CASE USB_GEN_vect
  BY <1>2, <1>6 DEF PacketTypes, USB_GEN_vect, ConfigureControl, ep0Vars
<1>7. CASE StreamEnd \/ StatusReceived \/ HostSetup \/ HostOUT
  BY <1>7 DEF PacketTypes, StreamEnd, StatusReceived, HostSetup, HostOUT
<1>8. CASE GetConfiguration \/ EndpointStatus \/ StatusSent
  <2>1. bank' = [request |-> USB_ControlRequest, length |-> USB_ControlRequest.wLength]
        \/ bank' = [request |-> USB_ControlRequest, length |-> 0]
    BY <1>8 DEF GetConfiguration, EndpointStatus, WriteBytes, StatusSent
  <2>2. bank' \in [request : Request, length : Int]
    BY <1>1, <2>1
  <2>3. rxstp' \in BOOLEAN /\ rxout' \in BOOLEAN /\ txin' \in BOOLEAN
    BY <1>8 DEF PacketTypes, GetConfiguration, EndpointStatus, WriteBytes, StatusSent
  <2> QED
    BY <2>2, <2>3 DEF PacketTypes
<1>9. CASE StreamPacket
  <2> DEFINE n == Smaller(Top.local, ControlSize)
  <2>1. n \in Int
    BY <1>3 DEF Smaller, ControlSize
  <2> HIDE DEF n
  <2>2. /\ txin' = FALSE /\ bank' = [request |-> USB_ControlRequest, length |-> n]
        /\ UNCHANGED <<rxstp, rxout>>
    BY <1>9 DEF StreamPacket, Packet, n
  <2> QED
    BY <1>1, <2>1, <2>2 DEF PacketTypes
<1>10. CASE HostIN
  BY <1>2, <1>10 DEF PacketTypes, HostIN
<1>11. CASE SetAddress \/ SetConfiguration \/ Halt \/ GetDescriptor
  BY <1>5, <1>11 DEF SetAddress, SetConfiguration, Halt, GetDescriptor
<1>13. CASE StallSetup
  BY <1>4, <1>5, <1>13 DEF StallSetup, ep0Vars
<1>12. CASE \/ USB_COM_vect \/ MainLoop \/ ReadHeader \/ Received \/ Unhandled
            \/ CheckSetup \/ EnableAddress \/ Configured \/ ConfigureOUT \/ Inspect
            \/ Reallocate \/ ConfigureIN \/ GetStatus
            \/ Feature \/ StreamDone \/ StatusLeft \/ EnableRXSTPI \/ RestoreEndpoint
            \/ HostStalled \/ HostRecovered \/ HostAbort \/ BusReset \/ BusSuspend
            \/ BusResume
  <2>1. UNCHANGED ep0Vars
    BY <1>12 DEF USB_COM_vect, MainLoop, DeviceTask, PollSetup, RestoreTask, ProcessOUT,
       ProcessIN, ReadHeader, Received, Unhandled, CheckSetup, EnableAddress, Configured,
       ConfigureOUT, Inspect, Reallocate, ConfigureIN, Allocate, GetStatus, Feature,
       StreamDone, StatusLeft, EnableRXSTPI, RestoreEndpoint, HostStalled,
       HostRecovered, HostAbort, BusReset, BusSuspend, BusResume
  <2> QED
    BY <1>4, <2>1 DEF ep0Vars
<1> QED
  BY <1>6, <1>7, <1>8, <1>9, <1>10, <1>11, <1>12, <1>13
     DEF Next, Device, Interrupt, ControlRequest, Host, Transfer

LEMMA IdleType ==
    ASSUME NEW a \in Nat
    PROVE  /\ Idle(a) \in [phase : Phases, request : Requests \cup {NoRequest},
                           addr : Nat, left : Int]
           /\ [Idle(a) EXCEPT !.phase = "recovery"] \in
                 [phase : Phases, request : Requests \cup {NoRequest}, addr : Nat,
                  left : Int]
           /\ [Idle(a) EXCEPT !.phase = "unknown"] \in
                 [phase : Phases, request : Requests \cup {NoRequest}, addr : Nat,
                  left : Int]
BY DEF Idle, Phases

\* The host's part of the types.
LEMMA HostKept ==
    ASSUME LufaTypes, PacketTypes, Host
    PROVE  LufaTypes'
<1> DEFINE H == [phase : Phases, request : Requests \cup {NoRequest}, addr : Nat,
                 left : Int]
<1>1. host \in H /\ host.addr \in Nat /\ host.left \in Int
  BY DEF LufaTypes
<1>2. \A a \in Nat : Idle(a) \in H /\ [Idle(a) EXCEPT !.phase = "recovery"] \in H
  BY IdleType
<1>3. ASSUME UNCHANGED <<lufaVars, UDADDR>>, host' \in H
      PROVE  LufaTypes'
  BY <1>3 DEF LufaTypes, lufaVars
<1>4. CASE HostSetup
  <2>1. PICK r \in Requests :
           host' = [host EXCEPT !.phase = IF ToHost(r) THEN "data" ELSE "status",
                                !.request = r, !.left = r.wLength]
    BY <1>4 DEF HostSetup
  <2>2. r.wLength \in Int
    BY RequestTypes
  <2>3. host' \in H
    BY <1>1, <2>1, <2>2 DEF Phases
  <2> QED
    BY <1>3, <1>4, <2>3 DEF HostSetup
<1>5. CASE HostIN
  <2> DEFINE left == host.left - Smaller(host.left, bank.length)
  <2>1. bank.length \in Int
    BY DEF PacketTypes
  <2>2. left \in Int
    BY <1>1, <2>1 DEF Smaller
  <2>3. host.request.wValue \in Nat
    BY RequestTypes DEF LufaTypes
  <2> HIDE DEF left
  <2> DEFINE next == IF left = 0 \/ bank.length < ControlSize
                     THEN "acknowledge" ELSE host.phase
  <2>4. \/ host' = Idle(host.request.wValue) \/ host' = Idle(host.addr)
        \/ host' = [host EXCEPT !.phase = next, !.left = left]
    BY <1>5 DEF HostIN, left
  <2>7. next \in Phases
    BY <1>1 DEF Phases
  <2> HIDE DEF next
  <2>5. [host EXCEPT !.phase = next, !.left = left] \in H
    BY <1>1, <2>2, <2>7
  <2>6. host' \in H
    BY <1>1, <1>2, <2>3, <2>4, <2>5
  <2> QED
    BY <1>3, <1>5, <2>6 DEF HostIN, deviceVars
<1>6. CASE HostOUT \/ HostStalled \/ HostAbort \/ HostRecovered
  <2>1. \/ host' = Idle(host.addr) \/ host' = Idle(0)
        \/ host' = [host EXCEPT !.phase = "idle", !.left = 0]
    BY <1>6 DEF HostOUT, HostStalled, HostAbort, HostRecovered
  <2>2. host' \in H
    <3>1. \A p \in Phases, n \in Int : [host EXCEPT !.phase = p, !.left = n] \in H
      BY <1>1
    <3>2. "idle" \in Phases /\ 0 \in Int
      BY DEF Phases
    <3>3. [host EXCEPT !.phase = "idle", !.left = 0] \in H
      BY <3>1, <3>2
    <3> HIDE DEF H
    <3> QED
      BY <1>1, <1>2, <2>1, <3>3
  <2> QED
    BY <1>3, <1>6, <2>2 DEF HostOUT, HostStalled, HostAbort, HostRecovered, deviceVars
<1>7. CASE BusSuspend \/ BusResume
  BY <1>1, <1>3, <1>7 DEF BusSuspend, BusResume, deviceVars
<1>8. CASE BusReset
  <2>1. host' = [Idle(0) EXCEPT !.phase = "recovery"] /\ UNCHANGED lufaVars
        /\ UDADDR' = [address |-> 0, enabled |-> FALSE]
    BY <1>8 DEF BusReset, deviceVars
  <2>2. host' \in H
    BY <1>2, <2>1
  <2>3. UDADDR' \in [address : Nat, enabled : BOOLEAN]
    BY <2>1
  <2> QED
    BY <2>1, <2>2, <2>3 DEF LufaTypes, lufaVars
<1> QED
  BY <1>4, <1>5, <1>6, <1>7, <1>8 DEF Host, Transfer

\* The device's part: the configuration number is one the device has, for
\* SET_CONFIGURATION is refused otherwise.
LEMMA LufaKept ==
    ASSUME LufaTypes, Device
    PROVE  LufaTypes'
<1>1. USB_ControlRequest.wValue \in Nat
  BY RequestTypes DEF LufaTypes
<1>2. CASE UNCHANGED <<lufaVars, UDADDR, host>>
  BY <1>2 DEF LufaTypes, lufaVars
<1>3. CASE USB_GEN_vect
  BY <1>3 DEF LufaTypes, USB_GEN_vect, busVars
<1>4. CASE ReadHeader
  BY <1>4 DEF LufaTypes, ReadHeader, busVars
<1>5. CASE SetAddress
  <2>1. UDADDR' = [UDADDR EXCEPT !.address = USB_ControlRequest.wValue]
        /\ UNCHANGED <<lufaVars, host>>
    BY <1>5 DEF SetAddress, busVars
  <2>2. UDADDR' \in [address : Nat, enabled : BOOLEAN]
    BY <1>1, <2>1 DEF LufaTypes
  <2> QED
    BY <2>1, <2>2 DEF LufaTypes, lufaVars
<1>6. CASE EnableAddress
  <2>1. UDADDR' = [UDADDR EXCEPT !.enabled = TRUE]
        /\ USB_DeviceState' \in {"Addressed", "Default"}
        /\ UNCHANGED <<USB_Device_ConfigurationNumber, USB_ControlRequest, host>>
    BY <1>6 DEF EnableAddress, busVars
  <2>2. UDADDR' \in [address : Nat, enabled : BOOLEAN]
    BY <2>1 DEF LufaTypes
  <2> QED
    BY <2>1, <2>2 DEF LufaTypes
<1>7. CASE SetConfiguration
  <2>1. Supported(USB_ControlRequest) /\ USB_ControlRequest.bRequest = "SetConfiguration"
    BY <1>7 DEF SetConfiguration, Dispatched
  <2>2. USB_ControlRequest.wValue <= 1
    BY <2>1 DEF Supported
  <2>3. USB_ControlRequest.wValue \in {0, 1}
    BY <1>1, <2>2
  <2>4. USB_Device_ConfigurationNumber' \in {0, 1}
        /\ UNCHANGED <<USB_DeviceState, USB_ControlRequest, UDADDR, host>>
    BY <1>7, <2>3 DEF SetConfiguration, busVars
  <2> QED
    BY <2>4 DEF LufaTypes
<1>8. CASE Configured
  BY <1>8 DEF LufaTypes, Configured, busVars
<1>9. CASE \/ USB_COM_vect \/ MainLoop \/ Received \/ Unhandled \/ CheckSetup
           \/ StallSetup \/ ConfigureOUT \/ Inspect \/ Reallocate \/ ConfigureIN
           \/ GetConfiguration \/ GetStatus \/ EndpointStatus \/ Feature \/ Halt
           \/ GetDescriptor \/ StreamPacket \/ StreamDone \/ StreamEnd \/ StatusSent
           \/ StatusReceived \/ StatusLeft \/ EnableRXSTPI \/ RestoreEndpoint
  <2>1. UNCHANGED <<lufaVars, UDADDR, host>>
    BY <1>9 DEF USB_COM_vect, MainLoop, DeviceTask, PollSetup, RestoreTask, ProcessOUT,
       ProcessIN, Received, Unhandled, CheckSetup, StallSetup, ConfigureOUT, Inspect,
       Reallocate, ConfigureIN, Allocate, GetConfiguration, GetStatus, EndpointStatus,
       WriteBytes, Feature, Halt, GetDescriptor, StreamPacket, Packet, StreamDone,
       StreamEnd, StatusSent, StatusReceived, StatusLeft, EnableRXSTPI,
       RestoreEndpoint, busVars
  <2> QED
    BY <1>2, <2>1
<1> QED
  BY <1>3, <1>4, <1>5, <1>6, <1>7, <1>8, <1>9
     DEF Device, Interrupt, ControlRequest

\* What has disturbed the requests is not forgotten.
LEMMA UndisturbedKept ==
    ASSUME CountersInv, Next
    PROVE  (cuts' = 0 => cuts = 0) /\ (~overtaken' => ~overtaken)
<1>1. CASE Device /\ ~PollSetup /\ ~Received /\ ~CheckSetup
  <2>1. UNCHANGED historyVars
    BY <1>1 DEF Device, Interrupt, MainLoop, ControlRequest, USB_GEN_vect,
       USB_COM_vect, DeviceTask, RestoreTask, ProcessOUT, ProcessIN, ReadHeader,
       Unhandled, StallSetup, SetAddress, EnableAddress, SetConfiguration, Configured,
       ConfigureOUT, Inspect, Reallocate, ConfigureIN, Allocate, GetConfiguration,
       GetStatus, EndpointStatus, WriteBytes, Feature, Halt, GetDescriptor,
       StreamPacket, Packet, StreamDone, StreamEnd, StatusSent, StatusReceived,
       StatusLeft, EnableRXSTPI, RestoreEndpoint, busVars
  <2> QED
    BY <2>1 DEF historyVars
<1>2. CASE PollSetup \/ Received \/ CheckSetup
  <2>1. UNCHANGED cuts /\ (UNCHANGED overtaken \/ Overtaken)
    BY <1>2 DEF PollSetup, Received, CheckSetup
  <2>2. Overtaken => (overtaken => overtaken')
    BY DEF Overtaken
  <2> QED
    BY <2>1, <2>2
<1>3. CASE HostSetup \/ Transfer \/ HostAbort \/ BusSuspend \/ BusResume
  <2>1. UNCHANGED <<cuts, overtaken>>
    BY <1>3 DEF HostSetup, Transfer, HostIN, HostOUT, HostStalled, HostRecovered,
       HostAbort, BusSuspend, BusResume, deviceVars
  <2> QED
    BY <2>1
<1>4. CASE BusReset
  <2>1. UNCHANGED overtaken /\ (cuts' = cuts \/ cuts' = cuts + 1)
    BY <1>4 DEF BusReset, deviceVars
  <2>2. cuts' = 0 => cuts = 0
    BY <2>1 DEF CountersInv
  <2> QED
    BY <2>1, <2>2
<1> QED
  BY <1>1, <1>2, <1>3, <1>4 DEF Next, Host

\* The endpoint registers and the interrupt flags.
LEMMA RegistersKept ==
    ASSUME RegisterTypes, LufaTypes, ControlInv, CountersInv, Next
    PROVE  RegisterTypes'
<1> USE DEF historyVars
<1>1. UENUM \in Endpoints /\ Top.prev \in Endpoints /\ Top \in Frames
  BY EndpointTypes, TopFacts DEF ControlInv
<1>2. ControlEp \in Endpoints /\ DataOut \in Endpoints /\ DataIn \in Endpoints
      /\ ControlEp # DataOut /\ ControlEp # DataIn
  BY EndpointFacts
<1>17. cuts' = 0 => cuts = 0
  BY UndisturbedKept
<1>3. CASE UNCHANGED <<endpointVars, interruptVars>>
  BY <1>3, <1>17 DEF RegisterTypes, endpointVars, interruptVars
<1>4. CASE /\ UNCHANGED <<allocated, stalled, interruptVars>>
           /\ UENUM' \in Endpoints
  BY <1>4, <1>17 DEF RegisterTypes, interruptVars
<1>5. CASE USB_GEN_vect
  <2>1. UDINT' \subseteq UDINT /\ enabled' \subseteq enabled \cup {"SUSPI", "WAKEUPI", "RXSTPI"}
    BY <1>5 DEF USB_GEN_vect
  <2>2. \/ UENUM' = ControlEp /\ stalled' = {} /\ allocated' = allocated \cup {ControlEp}
        \/ UNCHANGED <<UENUM, allocated, stalled>>
    BY <1>5 DEF USB_GEN_vect, ConfigureControl, endpointVars
  <2> QED
    BY <1>2, <1>17, <2>1, <2>2 DEF RegisterTypes
<1>6. CASE USB_COM_vect \/ EnableRXSTPI
  BY <1>2, <1>6, <1>17 DEF RegisterTypes, USB_COM_vect, EnableRXSTPI
<1>7. CASE StallSetup
  <2>1. UENUM = ControlEp
    BY <1>7, EndpointTypes DEF StallSetup, Runs, ControlLabels
  <2> QED
    BY <1>7, <1>17, <2>1 DEF RegisterTypes, StallSetup, interruptVars
<1>8. CASE Feature \/ GetStatus
  <2>1. Supported(USB_ControlRequest)
        /\ USB_ControlRequest.bRequest \in {"SetFeature", "ClearFeature", "GetStatus"}
    BY <1>8 DEF Feature, GetStatus, Dispatched
  <2>2. USB_ControlRequest.wIndex \in Endpoints
    BY <2>1 DEF Supported
  <2> QED
    BY <1>4, <1>8, <2>2 DEF Feature, GetStatus
<1>9. CASE Halt
  <2>1. \/ stalled' = stalled
        \/ UENUM \in allocated /\ stalled' = stalled \cup {UENUM}
        \/ stalled' = stalled \ {UENUM}
    BY <1>9 DEF Halt
  <2>2. UENUM' = ControlEp /\ UNCHANGED <<allocated, interruptVars>>
    BY <1>9 DEF Halt
  <2> QED
    BY <1>2, <1>17, <2>1, <2>2 DEF RegisterTypes, interruptVars
<1>10. CASE ConfigureOUT \/ Reallocate \/ ConfigureIN
  <2>1. Top.pc \in {"configure_out", "reallocate", "configure_in"}
        /\ UENUM' \in {DataIn}
    BY <1>10 DEF ConfigureOUT, Reallocate, ConfigureIN, Runs
  <2>2. /\ UENUM \in {ControlEp, DataOut, DataIn}
        /\ cuts = 0 => UENUM # ControlEp
    BY <1>2, <2>1 DEF ControlInv, SelectInv, Selected, AfterCut
  <2>3. /\ UNCHANGED UDINT /\ enabled' \subseteq enabled
        /\ allocated' \subseteq allocated \cup {UENUM}
        /\ UENUM # ControlEp => allocated' = allocated \cup {UENUM}
        /\ stalled' = stalled \ {UENUM}
    BY <1>10 DEF ConfigureOUT, Reallocate, ConfigureIN, Allocate
  <2> QED
    BY <1>2, <1>17, <2>1, <2>2, <2>3 DEF RegisterTypes
<1>11. CASE DeviceTask \/ RestoreTask \/ ProcessOUT \/ RestoreEndpoint \/ Configured
            \/ Inspect \/ GetConfiguration \/ EndpointStatus
  <2>1. UENUM' \in Endpoints /\ UNCHANGED <<allocated, stalled, interruptVars>>
    BY <1>1, <1>2, <1>11 DEF DeviceTask, RestoreTask, ProcessOUT, RestoreEndpoint,
       Configured, Inspect, GetConfiguration, EndpointStatus, WriteBytes
  <2> QED
    BY <1>4, <2>1
<1>12. CASE \/ PollSetup \/ ProcessIN \/ ReadHeader \/ Received \/ Unhandled
            \/ CheckSetup \/ SetAddress \/ EnableAddress
            \/ SetConfiguration \/ GetDescriptor \/ StreamPacket
            \/ StreamDone \/ StreamEnd \/ StatusSent \/ StatusReceived \/ StatusLeft
  <2>1. UNCHANGED <<endpointVars, interruptVars>>
    BY <1>12 DEF PollSetup, ProcessIN, ReadHeader, Received, Unhandled, CheckSetup,
       SetAddress, EnableAddress, SetConfiguration, GetDescriptor, StreamPacket, Packet,
       StreamDone, StreamEnd, StatusSent, StatusReceived, StatusLeft
  <2> QED
    BY <1>3, <2>1
<1>13. CASE HostSetup
  BY <1>13, <1>17 DEF RegisterTypes, HostSetup, interruptVars
<1>14. CASE HostIN \/ HostOUT \/ HostStalled \/ HostRecovered \/ HostAbort
  <2>1. UNCHANGED <<endpointVars, interruptVars>>
    BY <1>14 DEF HostIN, HostOUT, HostStalled, HostRecovered, HostAbort, deviceVars,
       interruptVars
  <2> QED
    BY <1>3, <2>1
<1>15. CASE BusReset
  BY <1>15, <1>17 DEF RegisterTypes, BusReset, deviceVars, endpointVars
<1>16. CASE BusSuspend \/ BusResume
  BY <1>16, <1>17 DEF RegisterTypes, BusSuspend, BusResume, deviceVars, endpointVars
<1> QED
  BY <1>5, <1>6, <1>7, <1>8, <1>9, <1>10, <1>11, <1>12, <1>13, <1>14, <1>15, <1>16
     DEF Next, Device, Interrupt, MainLoop, ControlRequest, Host, Transfer
-----------------------------------------------------------------------------
LEMMA UsbInvInit ==
    Init => UsbInv
<1> SUFFICES ASSUME Init PROVE UsbInv
  OBVIOUS
<1>1. stack = <<Frame("task", 0)>>
  BY DEF Init
<1>2. "task" \in Labels /\ 0 \in Endpoints
  BY EndpointFacts DEF Labels, ControlEp
<1>3. Frame("task", 0) \in Frames /\ Frame("task", 0).pc = "task"
  BY <1>2, FrameFacts
<1>4. stack \in Seq(Frames) /\ Len(stack) = 1 /\ stack[1] = Frame("task", 0)
  BY <1>1, <1>3
<1>5. Top.pc = "task"
  BY <1>3, <1>4 DEF Top
<1>6. \A k : k \notin 2..Len(stack) /\ k \notin 1..(Len(stack) - 1)
  BY <1>4
<1>7. StackInv
  BY <1>3, <1>4, <1>6 DEF StackInv
<1>8. SelectInv
  <2>1. Top \in Frames
    BY <1>3, <1>4 DEF Top
  <2>2. Selected(Top) = Endpoints
    BY <1>5, <2>1, SelectedFacts
  <2> QED
    BY <1>6, <2>2, EndpointFacts DEF SelectInv, Init
<1>9. BusInv
  BY DEF BusInv, Init
<1>10. NestInv
  <2>1. Handlers = {}
    BY <1>6 DEF Handlers
  <2>2. Cardinality(Handlers) = 0
    BY <2>1, FS_EmptySet
  <2> QED
    BY <2>2 DEF NestInv, Init
<1>11. LufaTypes
  BY IdleType DEF LufaTypes, Init
<1>12. RegisterTypes
  BY EndpointFacts DEF RegisterTypes, Init
<1>13. PacketTypes
  <2>1. Empty \in [request : Request, length : Int]
    BY RequestTypes DEF Empty
  <2> QED
    BY <2>1 DEF PacketTypes, Init
<1>14. CountersInv
  <2>1. disturbances = 0 /\ cuts = 0 /\ aborts = 0
    BY DEF Init
  <2>2. overtaken \in BOOLEAN
    BY DEF Init
  <2> QED
    BY <2>1, <2>2, BoundAssumption DEF CountersInv
<1> QED
  BY <1>7, <1>8, <1>9, <1>10, <1>11, <1>12, <1>13, <1>14 DEF UsbInv, ControlInv

LEMMA UsbInvKept ==
    UsbInv /\ [Next]_vars => UsbInv'
<1> SUFFICES ASSUME UsbInv, [Next]_vars PROVE UsbInv'
  OBVIOUS
<1> USE DEF UsbInv
<1>1. CASE UNCHANGED vars
  <2>1. LufaTypes' /\ RegisterTypes' /\ PacketTypes' /\ CountersInv'
    BY <1>1 DEF vars, lufaVars, endpointVars, ep0Vars, interruptVars, busVars, historyVars,
       LufaTypes, RegisterTypes, PacketTypes, CountersInv
  <2>2. UNCHANGED <<stack, cuts, UENUM, UDINT, enabled>>
    BY <1>1 DEF vars, endpointVars, interruptVars, busVars, historyVars
  <2>3. StackInv' /\ Top' = Top /\ Handlers' = Handlers
    BY <2>2, StackKept
  <2>4. \A g : Selected(g)' = Selected(g)
    BY <2>2, SelectedKept
  <2>5. UENUM' \in Selected(Top)'
    BY <2>2, <2>3, <2>4 DEF ControlInv, SelectInv
  <2>6. SelectInv'
    BY <2>2, <2>5, StackKept DEF SelectInv
  <2>7. BusInv' /\ NestInv'
    <3>1. Handling' = Handling /\ UsesNoData(stack[1])' = UsesNoData(stack[1])
      BY <2>2, <2>3 DEF Handling, UsesNoData
    <3> QED
      BY <2>2, <2>3, <3>1 DEF ControlInv, BusInv, NestInv
  <2> QED
    BY <2>1, <2>3, <2>6, <2>7 DEF ControlInv
<1>2. CASE Next
  <2>1. CountersInv' /\ PacketTypes' /\ RegisterTypes'
    BY <1>2, CountersKept, PacketsKept, RegistersKept DEF ControlInv
  <2>2. LufaTypes'
    BY <1>2, HostKept, LufaKept DEF Next
  <2>3. USB_ControlRequest \in Request
    BY RequestTypes DEF LufaTypes
  <2>4. ControlInv'
    BY <1>2, <2>3, MainLoopKeeps, RequestKeeps, AnswerKeeps, SetEndKeeps, EntryKeeps,
       EnableKeeps, RestoreKeeps, BusInterruptKeeps, HostKeeps
       DEF Next, Device, Interrupt, ControlRequest
  <2> QED
    BY <2>1, <2>2, <2>4
<1> QED
  BY <1>1, <1>2

\* The inductive invariant the theorems below rest on.
THEOREM UsbInvariant == Spec => []UsbInv
BY UsbInvInit, UsbInvKept, PTL DEF Spec

\* The library's variables, the registers and the host's view keep their types:
\* only endpoints that are set up are ever stalled (DeviceStandardReq.c:363), but
\* for what follows a bus reset in the middle of a request.
THEOREM UsbTypeCorrect == Spec => []UsbTypeOK
<1>1. UsbInv => UsbTypeOK
  BY TypesSplit DEF UsbInv
<1> QED
  BY <1>1, UsbInvariant, PTL

\* However the interrupts fall, and however deep they nest, what runs finds the
\* endpoint it selected last, in ProcessOUT and ProcessIN, in the halt and status
\* requests and in the configuration of the endpoints too; only once a bus reset
\* has fallen into a request or into the use of a data endpoint may that be the
\* control endpoint instead (USBInterrupt_AVR8.c:173).
THEOREM EndpointsSelected == Spec => []EndpointSelected
<1>1. UsbInv => EndpointSelected
  BY DEF UsbInv, ControlInv, SelectInv, EndpointSelected
<1> QED
  BY <1>1, UsbInvariant, PTL

\* There is never more than one control request under way for each bus reset
\* that fell into one, and one more: the stack of the interrupts is bounded by
\* what the bus does, not by what the host asks for.
THEOREM RequestsNestBounded == Spec => []NestingBounded
<1>1. UsbInv => NestingBounded
  BY DEF UsbInv, ControlInv, NestInv, NestingBounded
<1> QED
  BY <1>1, UsbInvariant, PTL
-----------------------------------------------------------------------------
\* Control transfers.  What follows holds as long as no bus reset has fallen into
\* a control request, ProcessOUT or ProcessIN and the poll of the main loop has not
\* raced the interrupt (Undisturbed), the premise of the properties.

\* The host has gone on after the last reset; a control request is carried out.
Served == host.phase \notin {"unknown", "recovery"}
Busy == Len(stack) > 1 /\ Top.pc # "return"

\* Only the top of the stack handles a request: what it has interrupted is about
\* to return, or is the main loop, whose poll finds no SETUP packet.
LoopPlaces == LoopLabels \cup {"read", "received", "check", "end"}

StackOrder ==
    /\ \A k \in 2..(Len(stack) - 1) : stack[k].pc = "return"
    /\ stack[1].pc \in LoopPlaces

\* A device that reports a disconnection on a bus that is awake is about to be
\* woken or reset.
WakeInv ==
    /\ "SUSPI" \in UDINT => bus = "idle"
    /\ (USB_DeviceState = "Unattached" /\ host.phase # "unknown") =>
          \/ "EORSTI" \in UDINT
          \/ "WAKEUPI" \in enabled /\ (bus = "idle" \/ "WAKEUPI" \in UDINT)

\* The control interrupt is enabled unless a request is under way, and none is
\* before the host goes on.
TurnInv ==
    /\ Served => "EORSTI" \notin UDINT /\ ("RXSTPI" \in enabled \/ Busy)
    /\ ~Served => ~Busy /\ ("EORSTI" \in UDINT \/ ~rxstp)
    /\ host.phase = "recovery" => "EORSTI" \in UDINT \/ "RXSTPI" \in enabled

\* A handler that waits for a host that has given its request up.
Stuck == \/ Top.pc = "status" /\ Top.wait = "out" /\ ~rxout
         \/ Top.pc = "wait_sent" /\ ~txin

\* A SETUP packet in the bank is that of the host's request.  If the host has
\* given it up, no handler takes it while the bus is awake.
SetupInv ==
    (rxstp /\ Served) =>
        /\ ControlEp \notin stalled
        /\ host.phase # "acknowledge"
        /\ host.phase = "idle" => bus = "idle" \/ Stuck

\* Here the SETUP packet is still in the bank.
TakenPlaces == {"read", "received", "switch", "feature", "stalled"}

\* What each place in a handler knows of the request it carries out.
HandlerInv ==
    /\ (Len(stack) > 1 /\ Top.pc \in TakenPlaces) =>
          /\ rxstp
          /\ host.phase = "idle" => bus = "idle"
          /\ Top.pc # "read" => USB_ControlRequest = host.request
    /\ Top.pc = "feature" =>
          /\ USB_ControlRequest.bRequest \in {"SetFeature", "ClearFeature"}
          /\ UENUM # ControlEp
    /\ Top.pc = "stalled" => USB_ControlRequest.bRequest = "GetStatus"
    /\ (Top.pc = "status" /\ Top.wait = "in") =>
          /\ txin /\ ~rxstp /\ ControlEp \notin stalled
          /\ host.phase = "status" \/ (host.phase = "idle" /\ bus = "idle")
    /\ (Top.pc \in {"status", "stream"} /\ host.phase = "data" /\ ~rxstp) =>
          /\ USB_ControlRequest = host.request
          /\ Top.pc = "status" => USB_ControlRequest.bRequest # "GetDescriptor"

DirectionInv ==
    /\ host.phase = "data" => ToHost(host.request)
    /\ host.phase = "status" => ~ToHost(host.request)

AnswerInv ==
    (host.phase = "data" /\ ~txin /\ ~rxstp /\ ControlEp \notin stalled) =>
        bank.request = host.request

\* The bytes of a descriptor: all of it, those the host has, those in the bank,
\* and those the stream still has to write.
Whole == Smaller(host.request.wValue, host.request.wLength)
Got == host.request.wLength - host.left
OnItsWay == IF txin THEN 0 ELSE bank.length

StreamInv ==
    /\ OnItsWay >= 0 /\ Got + OnItsWay <= Whole
    /\ (~txin /\ bank.length < ControlSize) => Got + OnItsWay = Whole
    /\ Top.pc = "stream" => Got + OnItsWay + Top.local = Whole /\ Top.local >= 0

DescriptorInv ==
    host.request.bRequest = "GetDescriptor" =>
        /\ (host.phase = "data" /\ rxstp) => Got = 0
        /\ (host.phase = "data" /\ ~rxstp /\ ControlEp \notin stalled) => StreamInv
        /\ host.phase = "acknowledge" => Got = Whole

TransferInv ==
    /\ StackOrder /\ WakeInv /\ TurnInv
    /\ SetupInv /\ HandlerInv /\ DirectionInv /\ AnswerInv /\ DescriptorInv

-----------------------------------------------------------------------------
\* Where the top of the stack can be.
LEMMA Depth ==
    ASSUME ControlInv, StackOrder
    PROVE  /\ Len(stack) \in Nat \ {0}
           /\ Top.pc \in Labels
           /\ Len(stack) = 1 => Top.pc \in LoopPlaces
           /\ Top.pc \in LoopLabels => Len(stack) = 1
           /\ Len(stack) = 1 \/ Len(stack) > 1
           /\ ~(Len(stack) = 1 /\ Len(stack) > 1)
<1>1. Len(stack) \in Nat \ {0} /\ Top.pc \in Labels
      /\ (Top.pc \in LoopLabels => Len(stack) = 1)
  BY TopFacts, EndpointTypes DEF ControlInv
<1>2. Len(stack) = 1 => Top.pc \in LoopPlaces
  BY DEF Top, StackOrder
<1>3. (Len(stack) = 1 \/ Len(stack) > 1) /\ ~(Len(stack) = 1 /\ Len(stack) > 1)
  <2>1. \A n \in Nat \ {0} : (n = 1 \/ n > 1) /\ ~(n = 1 /\ n > 1)
    OBVIOUS
  <2> QED
    BY <1>1, <2>1
<1> QED
  BY <1>1, <1>2, <1>3

LEMMA Places ==
    ASSUME ControlInv, StackOrder, cuts = 0
    PROVE  /\ Handling <=> Busy
           /\ "RXSTPI" \in enabled => ~Busy
<1>1. Len(stack) \in Nat \ {0}
  BY Depth
<1>3. Busy => Handling
  <2> SUFFICES ASSUME Busy PROVE Handling
    OBVIOUS
  <2>1. Len(stack) \in 2..Len(stack)
    BY <1>1 DEF Busy
  <2>2. Len(stack) \in Handlers
    BY <2>1 DEF Handlers, Busy, Top
  <2> QED
    BY <2>2 DEF Handling
<1>4. Handling => Busy
  <2> SUFFICES ASSUME Handling PROVE Busy
    OBVIOUS
  <2>1. PICK k \in 2..Len(stack) : stack[k].pc # "return"
    BY DEF Handling, Handlers
  <2>2. k \notin 2..(Len(stack) - 1)
    BY <2>1 DEF StackOrder
  <2>3. k = Len(stack) /\ Len(stack) > 1
    BY <1>1, <2>2
  <2> QED
    BY <2>1, <2>3 DEF Busy, Top
<1>5. "RXSTPI" \in enabled => ~Handling
  <2>1. IsFiniteSet(Handlers) /\ Cardinality(Handlers) \in Nat
    BY HandlersFinite DEF ControlInv
  <2>2. "RXSTPI" \in enabled => Cardinality(Handlers) = 0
    BY <2>1 DEF ControlInv, NestInv
  <2> QED
    BY <2>1, <2>2, FS_EmptySet DEF Handling
<1> QED
  BY <1>3, <1>4, <1>5

\* The code at the top goes to another place.
LEMMA SetTopOrder ==
    ASSUME ControlInv, StackOrder, NEW f \in Frames, SetTop(f),
           Len(stack) = 1 => f.pc \in LoopPlaces
    PROVE  StackOrder' /\ Top' = f /\ Len(stack') = Len(stack)
<1>1. /\ Len(stack') = Len(stack)
      /\ \A k \in 1..Len(stack) :
            stack'[k] = IF k = Len(stack) THEN f ELSE stack[k]
      /\ Top' = f
  BY SetTopFacts DEF ControlInv
<1>2. Len(stack) \in Nat \ {0}
  BY TopFacts DEF ControlInv
<1>3. \A k \in 2..(Len(stack) - 1) : k \in 1..Len(stack) /\ k # Len(stack)
  BY <1>2
<1>4. ASSUME NEW k \in 2..(Len(stack') - 1) PROVE stack'[k].pc = "return"
  BY <1>1, <1>3 DEF StackOrder
<1>5. stack'[1].pc \in LoopPlaces
  BY <1>1, <1>2 DEF StackOrder
<1> QED
  BY <1>1, <1>4, <1>5 DEF StackOrder

\* A SETUP packet interrupts.
LEMMA EntryOrder ==
    ASSUME ControlInv, StackOrder, cuts = 0, USB_COM_vect
    PROVE  StackOrder' /\ Len(stack') > 1 /\ Top'.pc = "read" /\ ~Busy
<1> DEFINE f == Frame("read", UENUM)
<1>1. f \in Frames /\ f.pc = "read"
  <2>1. "read" \in Labels
    BY DEF Labels
  <2> QED
    BY <2>1, EndpointTypes, FrameFacts
<1>2. stack' = Append(stack, f) /\ ~Busy
  BY Places DEF USB_COM_vect, ControlPending
<1> HIDE DEF f
<1>3. stack \in Seq(Frames) /\ Len(stack) \in Nat \ {0}
  BY TopFacts DEF ControlInv, StackInv
<1>4. /\ Len(stack') = Len(stack) + 1
      /\ \A k \in 1..Len(stack) : stack'[k] = stack[k]
      /\ stack'[Len(stack) + 1] = f
  BY <1>1, <1>2, <1>3, AppendProperties
<1>5. Top'.pc = "read" /\ Len(stack') > 1
  BY <1>1, <1>3, <1>4 DEF Top
<1>6. ASSUME NEW k \in 2..(Len(stack') - 1) PROVE stack'[k].pc = "return"
  <2>1. k \in 1..Len(stack) /\ (k \in 2..(Len(stack) - 1) \/ (k = Len(stack) /\ Len(stack) > 1))
    BY <1>3, <1>4
  <2> QED
    BY <1>2, <1>4, <2>1 DEF StackOrder, Busy, Top
<1>7. stack'[1].pc \in LoopPlaces
  <2>1. 1 \in 1..Len(stack)
    BY <1>3
  <2> QED
    BY <1>4, <2>1 DEF StackOrder
<1> QED
  BY <1>2, <1>5, <1>6, <1>7 DEF StackOrder

\* An interrupt returns.
LEMMA ReturnOrder ==
    ASSUME ControlInv, StackOrder, RestoreEndpoint
    PROVE  /\ StackOrder' /\ ~Busy'
           /\ Top'.pc \in LoopPlaces \cup {"return"}
           /\ Top'.pc \in {"read", "received"} => ~(Len(stack') > 1)
<1> DEFINE last == Len(stack)
<1>1. Top.pc = "return" /\ stack' = SubSeq(stack, 1, last - 1)
  BY DEF RestoreEndpoint, Runs
<1>2. last \in Nat \ {0} /\ \A k \in 1..last : stack[k] \in Frames
  BY TopFacts DEF ControlInv
<1>3. Len(stack) = last /\ Top = stack[last]
  BY DEF Top
<1> HIDE DEF last
<1>4. last # 1
  BY <1>1, <1>3 DEF ControlInv, StackInv
<1>5. Len(stack') = last - 1 /\ \A k \in 1..(last - 1) : stack'[k] = stack[k]
  <2>1. 1 \in Int /\ last - 1 \in Int /\ \A k \in 1..(last - 1) : k \in 1..last
    BY <1>2
  <2>2. \A k \in 1..(last - 1) : stack[k] \in Frames
    BY <1>2, <2>1
  <2>3. /\ Len(SubSeq(stack, 1, last - 1)) =
              IF 1 <= last - 1 THEN (last - 1) - 1 + 1 ELSE 0
        /\ \A k \in 1..((last - 1) - 1 + 1) :
              SubSeq(stack, 1, last - 1)[k] = stack[1 + k - 1]
    BY <2>1, <2>2, SubSeqProperties
  <2>4. (last - 1) - 1 + 1 = last - 1 /\ 1 <= last - 1
        /\ \A k \in 1..(last - 1) : 1 + k - 1 = k
    BY <1>2, <1>4
  <2> QED
    BY <1>1, <2>3, <2>4
<1>6. 1 \in 1..(last - 1) /\ last - 1 \in 1..(last - 1)
      /\ \A k \in 2..(last - 2) : k \in 1..(last - 1) /\ k \in 2..(last - 1)
      /\ (last - 1) - 1 = last - 2
  BY <1>2, <1>4
<1>7. Top' = stack[last - 1]
  BY <1>5, <1>6 DEF Top
<1>10. last - 1 = 1 \/ last - 1 \in 2..(last - 1)
  BY <1>2, <1>4
<1>8. CASE last - 1 = 1
  <2>1. Top'.pc \in LoopPlaces /\ Len(stack') = 1
    BY <1>5, <1>7, <1>8 DEF StackOrder
  <2>4. ~(Len(stack') > 1)
    BY <1>5, <1>8
  <2>2. ~Busy'
    BY <2>4 DEF Busy
  <2>3. StackOrder'
    BY <1>3, <1>5, <1>6 DEF StackOrder
  <2> QED
    BY <2>1, <2>2, <2>3, <2>4
<1>9. CASE last - 1 \in 2..(last - 1)
  <2>1. Top'.pc = "return"
    BY <1>3, <1>7, <1>9 DEF StackOrder
  <2>2. StackOrder'
    BY <1>3, <1>5, <1>6 DEF StackOrder
  <2> QED
    BY <2>1, <2>2 DEF Busy
<1> QED
  BY <1>8, <1>9, <1>10

-----------------------------------------------------------------------------
\* A step of the code at the top that leaves the bus and the host alone.
LEMMA CodeStep ==
    ASSUME ControlInv, StackOrder, WakeInv, TurnInv, Top.pc # "return",
           NEW f \in Frames, SetTop(f), f.pc # "return",
           Len(stack) = 1 => f.pc \in LoopPlaces,
           UNCHANGED <<UDINT, enabled, bus, host>>, rxstp' => rxstp,
           USB_DeviceState' = "Unattached" => USB_DeviceState = "Unattached"
    PROVE  StackOrder' /\ WakeInv' /\ TurnInv' /\ Top' = f /\ Len(stack') = Len(stack)
<1>1. StackOrder' /\ Top' = f /\ Len(stack') = Len(stack)
  BY SetTopOrder
<1>2. Busy' <=> Busy
  BY <1>1 DEF Busy
<1>3. TurnInv'
  BY <1>2 DEF TurnInv, Served
<1>4. WakeInv'
  BY DEF WakeInv
<1> QED
  BY <1>1, <1>3, <1>4

\* Code that knows nothing of the request.
LEMMA Settles ==
    ASSUME SetupInv, HandlerInv, DirectionInv, AnswerInv, DescriptorInv,
           UNCHANGED <<rxstp, txin, bank, host, bus>>,
           ControlEp \in stalled' <=> ControlEp \in stalled,
           Top'.pc \notin {"switch", "feature", "stalled", "status", "stream"},
           Top'.pc \in {"read", "received"} => ~(Len(stack') > 1),
           (rxstp /\ Served /\ host.phase = "idle") => bus = "idle"
    PROVE  SetupInv' /\ HandlerInv' /\ DirectionInv' /\ AnswerInv' /\ DescriptorInv'
<1>1. SetupInv'
  BY DEF SetupInv, Served
<1>2. HandlerInv'
  <2>1. ~(Len(stack') > 1 /\ Top'.pc \in TakenPlaces)
    BY DEF TakenPlaces
  <2> QED
    BY <2>1 DEF HandlerInv
<1>3. DirectionInv' /\ AnswerInv'
  BY DEF DirectionInv, AnswerInv
<1>4. Whole' = Whole /\ Got' = Got /\ OnItsWay' = OnItsWay
  BY DEF Whole, Got, OnItsWay
<1>5. DescriptorInv'
  BY <1>4 DEF DescriptorInv, StreamInv
<1> QED
  BY <1>1, <1>2, <1>3, <1>5

\* The code of a request at these places does not look at it.
QuietPlaces == {"acknowledge", "configured", "wait_sent", "stall", "configure_out",
                "inspect", "reallocate", "configure_in"}

LEMMA QuietStep ==
    ASSUME ControlInv, TransferInv, Top.pc # "return",
           NEW f \in Frames, SetTop(f),
           f.pc \in LoopPlaces \cup QuietPlaces,
           Len(stack) = 1 => f.pc \in LoopPlaces,
           f.pc \in {"read", "received"} => ~(Len(stack) > 1),
           (rxstp /\ Served /\ host.phase = "idle") => bus = "idle",
           UNCHANGED <<UDINT, enabled, bus, host, rxstp, txin, bank>>,
           ControlEp \in stalled' <=> ControlEp \in stalled,
           USB_DeviceState' = "Unattached" => USB_DeviceState = "Unattached"
    PROVE  TransferInv'
<1>1. f.pc \notin {"switch", "feature", "stalled", "status", "stream", "return"}
  BY DEF LoopPlaces, LoopLabels, QuietPlaces
<1>2. StackOrder' /\ WakeInv' /\ TurnInv' /\ Top' = f /\ Len(stack') = Len(stack)
  BY <1>1, CodeStep DEF TransferInv
<1>3. SetupInv' /\ HandlerInv' /\ DirectionInv' /\ AnswerInv' /\ DescriptorInv'
  BY <1>1, <1>2, Settles DEF TransferInv
<1> QED
  BY <1>2, <1>3 DEF TransferInv

\* Only a handler stuck in a wait leaves a given-up SETUP packet on a bus that
\* is awake.
LEMMA GivenUp ==
    ASSUME SetupInv, ~Stuck, rxstp, Served, host.phase = "idle"
    PROVE  bus = "idle"
BY DEF SetupInv

LEMMA MainLoopTransfer ==
    ASSUME ControlInv, TransferInv, cuts = 0, MainLoop
    PROVE  TransferInv'
<1>1. /\ Len(stack) \in Nat \ {0} /\ Len(stack) = 1
      /\ Top.pc \in LoopLabels \cup {"end"}
  <2>1. (Top.pc \in LoopLabels => Len(stack) = 1) /\ Len(stack) \in Nat \ {0}
    BY Depth DEF TransferInv
  <2>2. Top.pc \in LoopLabels \/ (Top.pc = "end" /\ Len(stack) = 1)
    BY DEF MainLoop, DeviceTask, PollSetup, RestoreTask, ProcessOUT, ProcessIN, Runs,
           Reads, LoopLabels
  <2> QED
    BY <2>1, <2>2
<1>2. Top.pc # "return" /\ ~Stuck
  BY <1>1 DEF LoopLabels, Stuck
<1>3. (rxstp /\ Served /\ host.phase = "idle") => bus = "idle"
  BY <1>2, GivenUp DEF TransferInv
<1>4. UNCHANGED <<UDINT, enabled, bus, host, rxstp, txin, bank, stalled, USB_DeviceState>>
  BY DEF MainLoop, DeviceTask, PollSetup, RestoreTask, ProcessOUT, ProcessIN,
         lufaVars, endpointVars, ep0Vars, interruptVars, busVars, historyVars
<1> DEFINE L == {"poll", "read", "end", "out", "in", "task"}
<1>5. L \subseteq Labels \ {"feature", "stalled", "check", "status"}
      /\ L \subseteq LoopPlaces
  BY DEF Labels, LoopPlaces, LoopLabels
<1>6. 0 \in Endpoints /\ UENUM \in Endpoints
  BY EndpointTypes, EndpointFacts DEF ControlEp
<1>7. \/ \E l \in L : Goto(l)
      \/ \E l \in L, e \in Endpoints : SetTop(Frame(l, e))
  <2>1. CASE DeviceTask
    BY <1>5, <1>6, <2>1 DEF DeviceTask
  <2>2. CASE PollSetup
    BY <1>5, <2>2 DEF PollSetup
  <2>3. CASE RestoreTask
    BY <1>5, <1>6, <2>3 DEF RestoreTask
  <2>4. CASE ProcessOUT
    BY <1>5, <2>4 DEF ProcessOUT
  <2>5. CASE ProcessIN
    BY <1>5, <1>6, <2>5 DEF ProcessIN
  <2> QED
    BY <2>1, <2>2, <2>3, <2>4, <2>5 DEF MainLoop
<1>8. PICK f \in Frames : SetTop(f) /\ f.pc \in LoopPlaces
  <2>1. CASE \E l \in L : Goto(l)
    <3>1. PICK l \in L : Goto(l)
      BY <2>1
    <3>2. SetTop([Top EXCEPT !.pc = l]) /\ l \in LoopPlaces
          /\ l \in Labels \ {"feature", "stalled", "check", "status"}
      BY <1>5, <3>1 DEF Goto
    <3> QED
      BY <3>2, GotoFacts DEF ControlInv
  <2>2. CASE \E l \in L, e \in Endpoints : SetTop(Frame(l, e))
    <3>1. PICK l \in L, e \in Endpoints : SetTop(Frame(l, e))
      BY <2>2
    <3>2. l \in Labels /\ l \in LoopPlaces
      BY <1>5
    <3> QED
      BY <3>1, <3>2, FrameFacts
  <2> QED
    BY <1>7, <2>1, <2>2
<1>9. ~(Len(stack) > 1)
  BY <1>1
<1> QED
  BY <1>1, <1>2, <1>3, <1>4, <1>8, <1>9, QuietStep

\* The control interrupt: its entry, its end and its return.
LEMMA InterruptTransfer ==
    ASSUME ControlInv, TransferInv, cuts = 0,
           USB_COM_vect \/ EnableRXSTPI \/ RestoreEndpoint
    PROVE  TransferInv'
<1> USE DEF lufaVars, endpointVars, ep0Vars, interruptVars, busVars, historyVars
<1>1. UNCHANGED <<UDINT, bus, host, rxstp, txin, bank, stalled, USB_DeviceState,
                  USB_ControlRequest>>
  BY DEF USB_COM_vect, EnableRXSTPI, RestoreEndpoint
<1>2. "WAKEUPI" \in enabled => "WAKEUPI" \in enabled'
  BY DEF USB_COM_vect, EnableRXSTPI, RestoreEndpoint
<1>3. WakeInv'
  BY <1>1, <1>2 DEF TransferInv, WakeInv
<1>4. CASE USB_COM_vect
  <2>1. StackOrder' /\ Len(stack') > 1 /\ Top'.pc = "read" /\ ~Busy
    BY <1>4, EntryOrder DEF TransferInv
  <2>2. rxstp /\ ~BusPending
    BY <1>4 DEF USB_COM_vect, ControlPending
  <2>3. "EORSTI" \notin UDINT
    BY <2>2 DEF ControlInv, BusInv, BusPending
  <2>4. Served
    BY <2>2, <2>3 DEF TransferInv, TurnInv
  <2>5. TurnInv'
    BY <1>1, <2>1, <2>3, <2>4 DEF TurnInv, Served, Busy
  <2>6. ~Stuck
    <3>1. (Len(stack) = 1 => Top.pc \in LoopPlaces)
          /\ (Len(stack) = 1 \/ Len(stack) > 1)
      BY Depth DEF TransferInv
    <3>2. Top.pc \in LoopPlaces \/ Top.pc = "return"
      BY <2>1, <3>1 DEF Busy
    <3> QED
      BY <3>2 DEF Stuck, LoopPlaces, LoopLabels
  <2>7. host.phase = "idle" => bus = "idle"
    BY <2>2, <2>4, <2>6, GivenUp DEF TransferInv
  <2>8. SetupInv'
    BY <1>1, <2>7 DEF TransferInv, SetupInv, Served
  <2>9. HandlerInv'
    BY <1>1, <2>1, <2>2, <2>7 DEF HandlerInv
  <2>10. DirectionInv' /\ AnswerInv'
    BY <1>1 DEF TransferInv, DirectionInv, AnswerInv
  <2>11. Whole' = Whole /\ Got' = Got /\ OnItsWay' = OnItsWay
    BY <1>1 DEF Whole, Got, OnItsWay
  <2>12. DescriptorInv'
    BY <1>1, <2>1, <2>11 DEF TransferInv, DescriptorInv, StreamInv
  <2> QED
    BY <1>3, <2>1, <2>5, <2>8, <2>9, <2>10, <2>12 DEF TransferInv
<1>5. CASE EnableRXSTPI
  <2> DEFINE f == Frame("return", Top.prev)
  <2>1. Top.pc = "end" /\ SetTop(f) /\ Len(stack) > 1 /\ "RXSTPI" \in enabled'
        /\ ~BusPending
    BY <1>5 DEF EnableRXSTPI, Runs
  <2>2. f \in Frames /\ f.pc = "return"
    <3>1. "return" \in Labels
      BY DEF Labels
    <3> QED
      BY <3>1, EndpointTypes, FrameFacts
  <2> HIDE DEF f
  <2>3. Len(stack) # 1
    BY <2>1, Depth DEF TransferInv
  <2>4. StackOrder' /\ Top' = f
    BY <2>1, <2>2, <2>3, SetTopOrder DEF TransferInv
  <2>5. Top'.pc = "return" /\ ~Busy'
    BY <2>2, <2>4 DEF Busy
  <2>6. Busy
    BY <2>1 DEF Busy
  <2>7. TurnInv'
    BY <1>1, <2>1, <2>5, <2>6 DEF TransferInv, TurnInv, Served
  <2>8. (rxstp /\ Served /\ host.phase = "idle") => bus = "idle"
    BY <2>1, GivenUp DEF TransferInv, Stuck
  <2>9. SetupInv' /\ HandlerInv' /\ DirectionInv' /\ AnswerInv' /\ DescriptorInv'
    BY <1>1, <2>5, <2>8, Settles DEF TransferInv
  <2> QED
    BY <1>3, <2>4, <2>7, <2>9 DEF TransferInv
<1>6. CASE RestoreEndpoint
  <2>1. Top.pc = "return" /\ UNCHANGED enabled
    BY <1>6 DEF RestoreEndpoint, Runs
  <2>2. /\ StackOrder' /\ ~Busy' /\ Top'.pc \in LoopPlaces \cup {"return"}
        /\ Top'.pc \in {"read", "received"} => ~(Len(stack') > 1)
    BY <1>6, ReturnOrder DEF TransferInv
  <2>3. Top'.pc \notin {"switch", "feature", "stalled", "status", "stream"}
        /\ (Top'.pc \in {"read", "received"} => ~(Len(stack') > 1))
    BY <2>2 DEF LoopPlaces, LoopLabels
  <2>4. ~Busy
    BY <2>1 DEF Busy
  <2>5. TurnInv'
    BY <1>1, <2>1, <2>2, <2>4 DEF TransferInv, TurnInv, Served
  <2>6. (rxstp /\ Served /\ host.phase = "idle") => bus = "idle"
    BY <2>1, GivenUp DEF TransferInv, Stuck
  <2>7. SetupInv' /\ HandlerInv' /\ DirectionInv' /\ AnswerInv' /\ DescriptorInv'
    BY <1>1, <2>3, <2>6, Settles DEF TransferInv
  <2> QED
    BY <1>3, <2>2, <2>5, <2>7 DEF TransferInv
<1> QED
  BY <1>4, <1>5, <1>6

-----------------------------------------------------------------------------
\* A request is carried out in an interrupt, and for a host that has begun one.
LEMMA HandlerPlace ==
    ASSUME ControlInv, TransferInv, Top.pc \notin LoopPlaces, Top.pc # "return"
    PROVE  /\ Busy /\ Served /\ "EORSTI" \notin UDINT
           /\ Len(stack) > 1 /\ Len(stack) # 1
<1>1. Len(stack) > 1 /\ Len(stack) # 1
  BY Depth DEF TransferInv
<1>2. Busy
  BY <1>1 DEF Busy
<1> QED
  BY <1>1, <1>2 DEF TransferInv, TurnInv

\* A request whose packet is still in the bank goes on with it.
LEMMA TakenStep ==
    ASSUME ControlInv, TransferInv, Len(stack) > 1, ~BusPending,
           Top.pc \in {"read", "received", "switch"},
           NEW f \in Frames, SetTop(f), f.pc \in TakenPlaces, f.pc # "read",
           USB_ControlRequest' = host.request,
           f.pc = "feature" =>
              /\ USB_ControlRequest'.bRequest \in {"SetFeature", "ClearFeature"}
              /\ UENUM' # ControlEp,
           f.pc = "stalled" => USB_ControlRequest'.bRequest = "GetStatus",
           UNCHANGED <<UDINT, enabled, bus, host, rxstp, txin, bank, stalled,
                       USB_DeviceState>>
    PROVE  TransferInv'
<1>1. Top.pc # "return" /\ f.pc # "return" /\ Len(stack) # 1
  BY Depth DEF TakenPlaces, TransferInv
<1>2. rxstp /\ (host.phase = "idle" => bus = "idle")
  BY DEF TransferInv, HandlerInv, TakenPlaces
<1>3. StackOrder' /\ WakeInv' /\ TurnInv' /\ Top' = f
  BY <1>1, CodeStep DEF TransferInv
<1>4. SetupInv'
  BY <1>2 DEF TransferInv, SetupInv, Served
<1>5. Top'.pc \notin {"read", "status", "stream"}
  BY <1>3 DEF TakenPlaces
<1>6. HandlerInv'
  <2>1. /\ rxstp' /\ (host'.phase = "idle" => bus' = "idle")
        /\ USB_ControlRequest' = host'.request
    BY <1>2
  <2> QED
    BY <1>3, <1>5, <2>1 DEF HandlerInv
<1>7. DirectionInv' /\ AnswerInv'
  BY DEF TransferInv, DirectionInv, AnswerInv
<1>8. Whole' = Whole /\ Got' = Got
  BY DEF Whole, Got
<1>9. DescriptorInv'
  BY <1>2, <1>8 DEF TransferInv, DescriptorInv
<1> QED
  BY <1>3, <1>4, <1>6, <1>7, <1>9 DEF TransferInv

LEMMA ReadHeaderTransfer ==
    ASSUME ControlInv, TransferInv, cuts = 0, ReadHeader
    PROVE  TransferInv'
<1> USE DEF endpointVars, ep0Vars, interruptVars, busVars, historyVars
<1>1. Top.pc = "read" /\ ~BusPending /\ ~ControlPending /\ Goto("received")
      /\ UNCHANGED <<UDINT, enabled, bus, host, rxstp, txin, bank, stalled, UENUM,
                     USB_DeviceState>>
  BY DEF ReadHeader, Runs
<1> DEFINE f == [Top EXCEPT !.pc = "received"]
<1>2. f \in Frames /\ f.pc = "received" /\ SetTop(f)
  <2>1. "received" \in Labels \ {"feature", "stalled", "check", "status"}
    BY DEF Labels
  <2> QED
    BY <1>1, <2>1, GotoFacts DEF ControlInv, Goto
<1> HIDE DEF f
<1>3. CASE Len(stack) > 1
  <2>1. rxstp
    BY <1>1, <1>3 DEF TransferInv, HandlerInv, TakenPlaces
  <2>2. USB_ControlRequest' = host.request
    BY <2>1 DEF ReadHeader
  <2> QED
    BY <1>1, <1>2, <1>3, <2>2, TakenStep DEF TakenPlaces
<1>4. CASE ~(Len(stack) > 1)
  <2>1. Top.pc # "return" /\ ~Stuck
    BY <1>1 DEF Stuck
  <2>2. (rxstp /\ Served /\ host.phase = "idle") => bus = "idle"
    BY <2>1, GivenUp DEF TransferInv
  <2>3. f.pc \in LoopPlaces
    BY <1>2 DEF LoopPlaces
  <2> QED
    BY <1>1, <1>2, <1>4, <2>1, <2>2, <2>3, QuietStep
<1> QED
  BY <1>3, <1>4

\* In a request the packet is there; in the main loop, where the poll has not raced
\* the interrupt, it is not.
LEMMA ReceivedTransfer ==
    ASSUME ControlInv, TransferInv, CountersInv, cuts = 0, Received, ~overtaken'
    PROVE  TransferInv'
<1> USE DEF lufaVars, endpointVars, ep0Vars, interruptVars
<1>1. Top.pc = "received" /\ ~BusPending
      /\ UNCHANGED <<UDINT, enabled, bus, host, rxstp, txin, bank, stalled, UENUM,
                     USB_DeviceState, USB_ControlRequest>>
  BY DEF Received, Reads
<1>2. ~(SetupSeen /\ Len(stack) = 1)
  BY DEF Received, Overtaken
<1>3. IF SetupSeen THEN Goto("switch") ELSE Finish
  BY DEF Received
<1>4. UENUM = ControlEp
  BY <1>1, EndpointTypes DEF ControlLabels
<1>5. CASE Len(stack) > 1
  <2>1. rxstp /\ USB_ControlRequest = host.request
    BY <1>1, <1>5 DEF TransferInv, HandlerInv, TakenPlaces
  <2>2. Goto("switch")
    BY <1>3, <1>4, <2>1 DEF SetupSeen
  <2> DEFINE f == [Top EXCEPT !.pc = "switch"]
  <2>3. f \in Frames /\ f.pc = "switch" /\ SetTop(f)
    <3>1. "switch" \in Labels \ {"feature", "stalled", "check", "status"}
      BY DEF Labels
    <3> QED
      BY <2>2, <3>1, GotoFacts DEF ControlInv, Goto
  <2> HIDE DEF f
  <2> QED
    BY <1>1, <1>5, <2>1, <2>3, TakenStep DEF TakenPlaces
<1>6. CASE Len(stack) = 1
  <2> DEFINE f == Frame("check", Top.prev)
  <2>1. SetTop(f)
    BY <1>2, <1>3, <1>6 DEF Finish
  <2>2. f \in Frames /\ f.pc = "check"
    <3>1. "check" \in Labels
      BY DEF Labels
    <3> QED
      BY <3>1, EndpointTypes, FrameFacts
  <2> HIDE DEF f
  <2>3. Top.pc # "return" /\ ~Stuck
    BY <1>1 DEF Stuck
  <2>4. (rxstp /\ Served /\ host.phase = "idle") => bus = "idle"
    BY <2>3, GivenUp DEF TransferInv
  <2>5. f.pc \in LoopPlaces /\ f.pc \notin {"read", "received"}
    BY <2>2 DEF LoopPlaces
  <2> QED
    BY <1>1, <2>1, <2>2, <2>3, <2>4, <2>5, QuietStep
<1> QED
  BY <1>5, <1>6, Depth DEF TransferInv

\* The second look at the flag.
LEMMA CheckSetupTransfer ==
    ASSUME ControlInv, TransferInv, CountersInv, cuts = 0, CheckSetup, ~overtaken'
    PROVE  TransferInv'
<1> USE DEF lufaVars, endpointVars, ep0Vars, interruptVars
<1>1. Top.pc = "check" /\ ~BusPending
      /\ UNCHANGED <<UDINT, enabled, bus, host, rxstp, txin, bank, stalled, UENUM,
                     USB_DeviceState, USB_ControlRequest>>
  BY DEF CheckSetup, Reads
<1>2. ~(SetupSeen /\ Len(stack) = 1)
  BY DEF CheckSetup, Overtaken
<1>3. \E l \in {"stall", "end"} : Goto(l) /\ (Len(stack) = 1 => l = "end")
  BY <1>2 DEF CheckSetup
<1>4. PICK l \in {"stall", "end"} : Goto(l) /\ (Len(stack) = 1 => l = "end")
  BY <1>3
<1>5. l \in Labels \ {"feature", "stalled", "check", "status"}
      /\ l \in LoopPlaces \cup QuietPlaces /\ l \notin {"read", "received"}
      /\ (Len(stack) = 1 => l \in LoopPlaces)
  BY <1>4 DEF Labels, LoopPlaces, QuietPlaces
<1> DEFINE f == [Top EXCEPT !.pc = l]
<1>6. f \in Frames /\ f.pc = l /\ SetTop(f)
  BY <1>4, <1>5, GotoFacts DEF ControlInv, Goto
<1> HIDE DEF f
<1>7. Top.pc # "return" /\ ~Stuck
  BY <1>1 DEF Stuck
<1>8. (rxstp /\ Served /\ host.phase = "idle") => bus = "idle"
  BY <1>7, GivenUp DEF TransferInv
<1> QED
  BY <1>1, <1>5, <1>6, <1>7, <1>8, QuietStep

\* A SETUP packet nobody carries out is thrown away, and the endpoint stalled.
LEMMA StallSetupTransfer ==
    ASSUME ControlInv, TransferInv, StallSetup
    PROVE  TransferInv'
<1> USE DEF interruptVars, busVars, historyVars
<1>1. Top.pc = "stall" /\ Goto("end") /\ stalled' = stalled \cup {UENUM}
      /\ UNCHANGED <<UDINT, enabled, bus, host, USB_DeviceState>>
  BY DEF StallSetup, Runs, lufaVars
<1>2. rxstp' => rxstp
  BY DEF StallSetup, ClearSETUP, ep0Vars
<1>3. Top.pc \notin LoopPlaces /\ Top.pc # "return"
      /\ "end" \in Labels \ {"feature", "stalled", "check", "status"}
  BY <1>1 DEF LoopPlaces, LoopLabels, Labels
<1>4. Len(stack) > 1 /\ Len(stack) # 1
  BY <1>3, HandlerPlace
<1>5. UENUM = ControlEp
  BY <1>1, EndpointTypes DEF ControlLabels
<1> DEFINE f == [Top EXCEPT !.pc = "end"]
<1>6. f \in Frames /\ f.pc = "end" /\ SetTop(f) /\ f.pc # "return"
  BY <1>1, <1>3, GotoFacts DEF ControlInv, Goto
<1> HIDE DEF f
<1>7. StackOrder' /\ WakeInv' /\ TurnInv' /\ Top' = f
  BY <1>1, <1>2, <1>3, <1>4, <1>6, CodeStep DEF TransferInv
<1>8. Top'.pc = "end" /\ ControlEp \in stalled'
  BY <1>1, <1>5, <1>6, <1>7
<1>9. ~rxstp'
  <2>1. rxstp => ~rxstp'
    BY DEF StallSetup, ClearSETUP
  <2> QED
    BY <1>2, <2>1
<1>10. SetupInv' /\ HandlerInv' /\ AnswerInv'
  BY <1>8, <1>9 DEF SetupInv, HandlerInv, AnswerInv, TakenPlaces
<1>11. DirectionInv'
  BY <1>1 DEF TransferInv, DirectionInv
<1>12. Whole' = Whole /\ Got' = Got
  BY <1>1 DEF Whole, Got
<1>13. DescriptorInv'
  BY <1>1, <1>8, <1>9, <1>12 DEF TransferInv, DescriptorInv
<1> QED
  BY <1>7, <1>10, <1>11, <1>13 DEF TransferInv

\* What a dispatched request knows: it is the host's, and its packet is still in
\* the bank.
LEMMA DispatchFacts ==
    ASSUME ControlInv, TransferInv, LufaTypes, Top.pc \in {"switch", "feature", "stalled"}
    PROVE  /\ Len(stack) > 1 /\ Len(stack) # 1 /\ Top.pc # "return"
           /\ rxstp /\ Served /\ ControlEp \notin stalled
           /\ USB_ControlRequest = host.request
           /\ host.phase \in {"idle", "data", "status"}
           /\ host.phase = "idle" => bus = "idle"
           /\ host.phase = "data" => ToHost(USB_ControlRequest)
<1>1. Top.pc \notin LoopPlaces /\ Top.pc # "return"
  BY DEF LoopPlaces, LoopLabels
<1>2. Len(stack) > 1 /\ Len(stack) # 1 /\ Served
  BY <1>1, HandlerPlace
<1>3. rxstp /\ USB_ControlRequest = host.request /\ (host.phase = "idle" => bus = "idle")
  BY <1>2 DEF TransferInv, HandlerInv, TakenPlaces
<1>4. ControlEp \notin stalled /\ host.phase # "acknowledge"
  BY <1>2, <1>3 DEF TransferInv, SetupInv
<1>5. host.phase \in {"idle", "data", "status"}
  BY <1>2, <1>4 DEF LufaTypes, Served, Phases
<1>6. host.phase = "data" => ToHost(USB_ControlRequest)
  BY <1>3 DEF TransferInv, DirectionInv
<1> QED
  BY <1>1, <1>2, <1>3, <1>4, <1>5, <1>6

LEMMA StatusFrame ==
    ASSUME ControlInv, NEW next \in {"check", "configured", "wait_sent"},
           NEW local \in Int, next = "check" => local = 0, EnterStatus(next, local)
    PROVE  \E f \in Frames :
              /\ SetTop(f) /\ f.pc = "status" /\ f.next = next /\ f.local = local
              /\ f.wait = IF ToHost(USB_ControlRequest) THEN "out" ELSE "in"
<1> DEFINE f == [Top EXCEPT !.pc = "status", !.next = next, !.local = local,
                            !.wait = IF ToHost(USB_ControlRequest) THEN "out" ELSE "in"]
<1>1. Top \in Frames
  BY TopFacts DEF ControlInv
<1>2. "status" \in Labels
  BY DEF Labels
<1>3. /\ f \in Frames /\ f.pc = "status" /\ f.next = next /\ f.local = local
      /\ f.wait = IF ToHost(USB_ControlRequest) THEN "out" ELSE "in"
  BY <1>1, <1>2 DEF Frames, FrameFields
<1>4. SetTop(f)
  BY DEF EnterStatus
<1> QED
  BY <1>3, <1>4

\* A request that the host ends with a packet of its own sends its status.
LEMMA StatusInTransfer ==
    ASSUME ControlInv, TransferInv, LufaTypes, Top.pc \in {"switch", "feature"},
           NEW next \in {"check", "configured", "wait_sent"}, NEW local \in Int,
           next = "check" => local = 0, EnterStatus(next, local), ClearSETUP, ~ToHost(USB_ControlRequest),
           UNCHANGED <<UDINT, enabled, bus, host, USB_DeviceState>>,
           ControlEp \in stalled' => ControlEp \in stalled
    PROVE  TransferInv'
<1>1. /\ Len(stack) > 1 /\ Len(stack) # 1 /\ Top.pc # "return"
      /\ ControlEp \notin stalled
      /\ host.phase \in {"idle", "status"} /\ (host.phase = "idle" => bus = "idle")
  BY DispatchFacts
<1>2. PICK f \in Frames : SetTop(f) /\ f.pc = "status" /\ f.wait = "in"
  BY StatusFrame
<1>3. ~rxstp' /\ txin'
  BY DEF ClearSETUP
<1>4. StackOrder' /\ WakeInv' /\ TurnInv' /\ Top' = f
  BY <1>1, <1>2, <1>3, CodeStep DEF TransferInv
<1>5. Top'.pc = "status" /\ Top'.wait = "in"
  BY <1>2, <1>4
<1>6. SetupInv' /\ HandlerInv' /\ AnswerInv' /\ DescriptorInv'
  BY <1>1, <1>3, <1>5 DEF SetupInv, HandlerInv, AnswerInv, DescriptorInv, TakenPlaces
<1>7. DirectionInv'
  BY DEF TransferInv, DirectionInv
<1> QED
  BY <1>4, <1>6, <1>7 DEF TransferInv

LEMMA SetRequestTransfer ==
    ASSUME ControlInv, TransferInv, LufaTypes, SetAddress \/ SetConfiguration \/ Halt
    PROVE  TransferInv'
<1> USE DEF interruptVars, busVars, historyVars
<1>1. UNCHANGED <<UDINT, enabled, bus, host, USB_DeviceState>> /\ ClearSETUP
  BY DEF SetAddress, SetConfiguration, Halt, lufaVars
<1>2. USB_ControlRequest.wValue \in Int
  BY RequestTypes DEF LufaTypes
<1>3. CASE SetAddress \/ SetConfiguration
  <2>1. Top.pc = "switch" /\ USB_ControlRequest.bRequest \in {"SetAddress", "SetConfiguration"}
        /\ UNCHANGED stalled
    BY <1>3 DEF SetAddress, SetConfiguration, Dispatched, Runs, endpointVars
  <2>2. ~ToHost(USB_ControlRequest)
    BY <2>1 DEF ToHost
  <2>3. EnterStatus("wait_sent", USB_ControlRequest.wValue) \/ EnterStatus("configured", 0)
    BY <1>3 DEF SetAddress, SetConfiguration
  <2> QED
    BY <1>1, <1>2, <2>1, <2>2, <2>3, StatusInTransfer
<1>4. CASE Halt
  <2>1. Top.pc = "feature" /\ EnterStatus("check", 0)
    BY <1>4 DEF Halt, Runs
  <2>2. USB_ControlRequest.bRequest \in {"SetFeature", "ClearFeature"} /\ UENUM # ControlEp
    BY <2>1 DEF TransferInv, HandlerInv
  <2>3. ~ToHost(USB_ControlRequest)
    BY <2>2 DEF ToHost
  <2>4. ControlEp \in stalled' => ControlEp \in stalled
    BY <1>4, <2>2 DEF Halt
  <2> QED
    BY <1>1, <2>1, <2>3, <2>4, StatusInTransfer
<1> QED
  BY <1>3, <1>4

\* The endpoint a request is about is selected.
LEMMA AskedFrame ==
    ASSUME ControlInv, NEW l \in {"feature", "stalled"}, NEW e \in Endpoints
    PROVE  /\ [Top EXCEPT !.pc = l, !.local = e] \in Frames
           /\ [Top EXCEPT !.pc = l, !.local = e].pc = l
<1>1. Top \in Frames
  BY TopFacts DEF ControlInv
<1>2. l \in Labels /\ e \in Int /\ l # "status"
  BY DEF Labels, Endpoints, TotalEndpoints
<1>3. [Top EXCEPT !.pc = l, !.local = e] \in FrameFields
  BY <1>1, <1>2 DEF Frames, FrameFields
<1> QED
  BY <1>1, <1>2, <1>3 DEF Frames, FrameFields

LEMMA FeatureTransfer ==
    ASSUME ControlInv, TransferInv, LufaTypes, Feature \/ GetStatus
    PROVE  TransferInv'
<1> DEFINE l == IF Feature THEN "feature" ELSE "stalled"
           f == [Top EXCEPT !.pc = l, !.local = USB_ControlRequest.wIndex]
<1>1. Top.pc = "switch" /\ ~BusPending /\ Supported(USB_ControlRequest)
      /\ UENUM' = USB_ControlRequest.wIndex
      /\ UNCHANGED <<UDINT, enabled, bus, host, USB_DeviceState, USB_ControlRequest,
                     stalled, rxstp, txin, bank>>
  BY DEF Feature, GetStatus, Dispatched, Runs, lufaVars, ep0Vars, interruptVars, busVars
<1>2. SetTop(f)
  BY DEF Feature, GetStatus
<1>3. CASE Feature
  <2>1. l = "feature" /\ USB_ControlRequest.bRequest \in {"SetFeature", "ClearFeature"}
    BY <1>3 DEF Feature, Dispatched
  <2>2. USB_ControlRequest.wIndex \in Endpoints \ {ControlEp}
    BY <1>1, <2>1 DEF Supported
  <2>3. f \in Frames /\ f.pc = "feature"
    BY <2>1, <2>2, AskedFrame
  <2>4. Len(stack) > 1 /\ USB_ControlRequest = host.request
    BY <1>1, DispatchFacts
  <2> HIDE DEF f, l
  <2> QED
    BY <1>1, <1>2, <2>1, <2>2, <2>3, <2>4, TakenStep DEF TakenPlaces
<1>4. CASE GetStatus
  <2>1. USB_ControlRequest.bRequest = "GetStatus"
    BY <1>4 DEF GetStatus, Dispatched
  <2>2. l = "stalled"
    BY <2>1 DEF Feature, Dispatched
  <2>3. USB_ControlRequest.wIndex \in Endpoints
    BY <1>1, <2>1 DEF Supported
  <2>4. f \in Frames /\ f.pc = "stalled"
    BY <2>2, <2>3, AskedFrame
  <2>5. Len(stack) > 1 /\ USB_ControlRequest = host.request
    BY <1>1, DispatchFacts
  <2> HIDE DEF f, l
  <2> QED
    BY <1>1, <1>2, <2>1, <2>4, <2>5, TakenStep DEF TakenPlaces
<1> QED
  BY <1>3, <1>4

\* One or two bytes are put into the bank.
LEMMA WriteBytesTransfer ==
    ASSUME ControlInv, TransferInv, LufaTypes, GetConfiguration \/ EndpointStatus
    PROVE  TransferInv'
<1> USE DEF interruptVars, busVars, historyVars
<1>1. WriteBytes
  BY DEF GetConfiguration, EndpointStatus
<1>2. Top.pc \in {"switch", "stalled"}
      /\ USB_ControlRequest.bRequest \in {"GetStatus", "GetConfiguration"}
  BY DEF GetConfiguration, EndpointStatus, Dispatched, Runs, TransferInv, HandlerInv
<1>3. /\ ~rxstp' /\ ~txin' /\ bank'.request = USB_ControlRequest /\ EnterStatus("check", 0)
      /\ UNCHANGED <<UDINT, enabled, bus, host, USB_DeviceState, USB_ControlRequest,
                     stalled>>
  BY <1>1 DEF WriteBytes, lufaVars
<1>4. /\ Len(stack) > 1 /\ Len(stack) # 1 /\ Top.pc # "return"
      /\ USB_ControlRequest = host.request
  BY <1>2, DispatchFacts
<1>5. PICK f \in Frames : SetTop(f) /\ f.pc = "status" /\ f.wait = "out"
  BY <1>2, <1>3, StatusFrame DEF ToHost
<1>6. StackOrder' /\ WakeInv' /\ TurnInv' /\ Top' = f
  BY <1>3, <1>4, <1>5, CodeStep DEF TransferInv
<1>7. Top'.pc = "status" /\ Top'.wait = "out"
  BY <1>5, <1>6
<1>8. SetupInv' /\ HandlerInv' /\ AnswerInv'
  BY <1>2, <1>3, <1>4, <1>7 DEF SetupInv, HandlerInv, AnswerInv, TakenPlaces
<1>9. DescriptorInv'
  <2>1. host'.request.bRequest # "GetDescriptor"
    BY <1>2, <1>3, <1>4
  <2> QED
    BY <2>1 DEF DescriptorInv
<1>10. DirectionInv'
  BY <1>3 DEF TransferInv, DirectionInv
<1> QED
  BY <1>6, <1>8, <1>9, <1>10 DEF TransferInv

\* The stream of a descriptor begins with all of it to write.
LEMMA GetDescriptorTransfer ==
    ASSUME ControlInv, TransferInv, LufaTypes, GetDescriptor
    PROVE  TransferInv'
<1> USE DEF interruptVars, busVars, historyVars
<1> DEFINE n == Smaller(USB_ControlRequest.wValue, USB_ControlRequest.wLength)
           f == [Top EXCEPT !.pc = "stream", !.local = n]
<1>1. Top.pc = "switch" /\ ~rxstp' /\ txin' /\ SetTop(f)
      /\ UNCHANGED <<UDINT, enabled, bus, host, USB_DeviceState, USB_ControlRequest,
                     stalled>>
  BY DEF GetDescriptor, Dispatched, Runs, ClearSETUP, lufaVars, endpointVars
<1>2. /\ Len(stack) > 1 /\ Len(stack) # 1 /\ Top.pc # "return" /\ rxstp
      /\ USB_ControlRequest = host.request
      /\ host.phase \in {"idle", "data", "status"}
  BY <1>1, DispatchFacts
<1>3. USB_ControlRequest.wValue \in Nat /\ USB_ControlRequest.wLength \in Nat
  BY RequestTypes DEF LufaTypes
<1>4. n \in Int /\ n >= 0
  BY <1>3 DEF Smaller
<1>5. n = Whole
  BY <1>2 DEF Whole
<1> HIDE DEF n
<1>6. f \in Frames /\ f.pc = "stream" /\ f.local = n
  <2>1. Top \in Frames /\ "stream" \in Labels
    BY TopFacts DEF ControlInv, Labels
  <2> QED
    BY <1>4, <2>1 DEF Frames, FrameFields
<1> HIDE DEF f
<1>7. StackOrder' /\ WakeInv' /\ TurnInv' /\ Top' = f
  BY <1>1, <1>2, <1>6, CodeStep DEF TransferInv
<1>8. Top'.pc = "stream" /\ Top'.local = n
  BY <1>6, <1>7
<1>9. SetupInv' /\ HandlerInv' /\ AnswerInv'
  BY <1>1, <1>2, <1>8 DEF SetupInv, HandlerInv, AnswerInv, TakenPlaces
<1>10. DirectionInv'
  BY <1>1 DEF TransferInv, DirectionInv
<1>11. Whole' = Whole /\ Got' = Got /\ OnItsWay' = 0
  BY <1>1 DEF Whole, Got, OnItsWay
<1>12. DescriptorInv'
  <2> SUFFICES ASSUME host.request.bRequest = "GetDescriptor", host.phase = "data"
               PROVE  StreamInv'
    BY <1>1, <1>2 DEF DescriptorInv
  <2>1. Got = 0
    BY <1>2 DEF TransferInv, DescriptorInv
  <2>2. OnItsWay' >= 0 /\ Got' + OnItsWay' <= Whole'
        /\ Got' + OnItsWay' + Top'.local = Whole' /\ Top'.local >= 0
    BY <1>4, <1>5, <1>8, <1>11, <2>1
  <2> QED
    BY <1>1, <2>2 DEF StreamInv
<1> QED
  BY <1>7, <1>9, <1>10, <1>12 DEF TransferInv

-----------------------------------------------------------------------------
\* One packet of the stream goes into the bank: as many bytes as it holds.
LEMMA StreamPacketTransfer ==
    ASSUME ControlInv, TransferInv, LufaTypes, StreamPacket
    PROVE  TransferInv'
<1> USE DEF interruptVars, busVars, historyVars
<1> DEFINE n == Smaller(Top.local, ControlSize)
           m == Top.local - n
           full == Top.local >= ControlSize
           f == [Top EXCEPT !.local = m, !.full = full]
<1>1. /\ Top.pc = "stream" /\ ~rxstp /\ txin /\ ~txin' /\ SetTop(f)
      /\ bank'.request = USB_ControlRequest /\ bank'.length = n
      /\ UNCHANGED <<UDINT, enabled, bus, host, USB_DeviceState, USB_ControlRequest,
                     stalled, rxstp>>
  BY DEF StreamPacket, Packet, Runs, lufaVars, endpointVars
<1>2. Top.pc \notin LoopPlaces /\ Top.pc # "return" /\ "stream" # "return"
  BY <1>1 DEF LoopPlaces, LoopLabels
<1>3. Len(stack) # 1
  BY <1>2, HandlerPlace
<1>4. Top \in Frames
  BY TopFacts DEF ControlInv
<1>5. Top.local \in Int
  BY <1>4 DEF Frames, FrameFields
<1>6. /\ n \in Int /\ n <= Top.local /\ (Top.local >= 0 => n >= 0)
      /\ (n < ControlSize => n = Top.local)
  BY <1>5 DEF Smaller, ControlSize
<1>13. m \in Int /\ m = Top.local - n
  BY <1>5, <1>6
<1>14. full \in BOOLEAN
  OBVIOUS
<1> HIDE DEF n, full, m
<1>7. f \in Frames /\ f.pc = "stream" /\ f.local = m
  BY <1>1, <1>4, <1>13, <1>14 DEF Frames, FrameFields
<1> HIDE DEF f
<1>8. StackOrder' /\ WakeInv' /\ TurnInv' /\ Top' = f
  BY <1>1, <1>2, <1>3, <1>7, CodeStep DEF TransferInv
<1>9. Top'.pc = "stream" /\ Top'.local = m
  BY <1>7, <1>8
<1>10. SetupInv' /\ HandlerInv' /\ AnswerInv'
  BY <1>1, <1>9 DEF TransferInv, SetupInv, HandlerInv, AnswerInv, TakenPlaces
<1>11. DirectionInv'
  BY <1>1 DEF TransferInv, DirectionInv
<1>12. DescriptorInv'
  <2>1. /\ Whole' = Whole /\ Got' = Got /\ OnItsWay' = n /\ OnItsWay = 0
    BY <1>1 DEF Whole, Got, OnItsWay
  <2>2. CASE host.request.bRequest = "GetDescriptor" /\ host.phase = "data"
              /\ ControlEp \notin stalled
    <3>1. StreamInv
      BY <1>1, <2>2 DEF TransferInv, DescriptorInv
    <3>2. Got + 0 + Top.local = Whole /\ Top.local >= 0
      BY <1>1, <2>1, <3>1 DEF StreamInv
    <3>3. Got \in Int /\ Whole \in Int
      BY RequestTypes DEF LufaTypes, Got, Whole, Smaller
    <3>4. /\ n >= 0 /\ Got + n <= Whole
          /\ (n < ControlSize => Got + n = Whole)
          /\ Got + n + m = Whole /\ m >= 0
      BY <1>5, <1>6, <1>13, <3>2, <3>3
    <3>5. bank'.length < ControlSize => n < ControlSize
      BY <1>1
    <3>6. StreamInv'
      BY <1>9, <2>1, <3>4, <3>5 DEF StreamInv
    <3> QED
      BY <1>1, <2>2, <3>6 DEF DescriptorInv
  <2>3. CASE ~(host.request.bRequest = "GetDescriptor" /\ host.phase = "data"
                /\ ControlEp \notin stalled)
    BY <1>1, <2>1, <2>3 DEF TransferInv, DescriptorInv
  <2> QED
    BY <2>2, <2>3
<1> QED
  BY <1>8, <1>10, <1>11, <1>12 DEF TransferInv

\* A device that reports a disconnection while a handler runs is suspended.
LEMMA Disconnected ==
    ASSUME ControlInv, TransferInv, ~BusPending, USB_DeviceState = "Unattached", Served
    PROVE  bus = "idle"
<1>1. "EORSTI" \notin UDINT /\ host.phase # "unknown"
  BY DEF TransferInv, TurnInv, Served
<1> QED
  BY <1>1 DEF TransferInv, WakeInv, BusPending

LEMMA FinishFrame ==
    ASSUME ControlInv
    PROVE  /\ Frame("check", Top.prev) \in Frames /\ Frame("check", Top.prev).pc = "check"
           /\ Frame("acknowledge", Top.prev) \in Frames
           /\ Frame("acknowledge", Top.prev).pc = "acknowledge"
<1>1. {"check", "acknowledge"} \subseteq Labels
  BY DEF Labels
<1> QED
  BY <1>1, EndpointTypes, FrameFacts

\* A request that is not carried out, and the end of the stream and of SET_ADDRESS.
LEMMA FinishTransfer ==
    ASSUME ControlInv, TransferInv, Unhandled \/ StreamDone \/ StreamEnd \/ EnableAddress
    PROVE  TransferInv'
<1> USE DEF interruptVars, busVars, historyVars
<1>1. Top.pc \in {"switch", "stream", "acknowledge", "wait_sent"}
      /\ (Top.pc = "wait_sent" => txin)
  BY DEF Unhandled, StreamDone, StreamEnd, EnableAddress, Runs
<1>2. Top.pc \notin LoopPlaces /\ Top.pc # "return" /\ ~Stuck
  BY <1>1 DEF LoopPlaces, LoopLabels, Stuck
<1>3. Len(stack) # 1
  BY <1>2, HandlerPlace
<1>4. (rxstp /\ Served /\ host.phase = "idle") => bus = "idle"
  BY <1>2, GivenUp DEF TransferInv
<1>5. /\ UNCHANGED <<UDINT, enabled, bus, host, rxstp, txin, bank, stalled>>
      /\ USB_DeviceState' = "Unattached" => USB_DeviceState = "Unattached"
  BY DEF Unhandled, StreamDone, StreamEnd, EnableAddress, lufaVars, endpointVars, ep0Vars
<1>6. PICK f \in Frames : SetTop(f) /\ f.pc \in {"check", "acknowledge"}
  BY FinishFrame DEF Unhandled, StreamDone, StreamEnd, EnableAddress, Finish
<1>7. f.pc \in LoopPlaces \cup QuietPlaces /\ f.pc \notin {"read", "received"}
  BY <1>6 DEF LoopPlaces, QuietPlaces
<1> QED
  BY <1>2, <1>3, <1>4, <1>5, <1>6, <1>7, QuietStep

\* The configuration of the data endpoints, which leaves the control endpoint alone
\* as long as no bus reset falls into it.
LEMMA ConfigureTransfer ==
    ASSUME ControlInv, TransferInv, cuts = 0,
           Configured \/ ConfigureOUT \/ Inspect \/ Reallocate \/ ConfigureIN
    PROVE  TransferInv'
<1> USE DEF interruptVars, busVars, historyVars, lufaVars, endpointVars, ep0Vars
<1>1. Top.pc \in {"configured", "configure_out", "inspect", "reallocate", "configure_in"}
  BY DEF Configured, ConfigureOUT, Inspect, Reallocate, ConfigureIN, Runs
<1>2. Top.pc \notin LoopPlaces /\ Top.pc # "return" /\ ~Stuck
  BY <1>1 DEF LoopPlaces, LoopLabels, Stuck
<1>3. Len(stack) # 1
  BY <1>2, HandlerPlace
<1>4. (rxstp /\ Served /\ host.phase = "idle") => bus = "idle"
  BY <1>2, GivenUp DEF TransferInv
<1>5. Top.pc # "configured" => UENUM # ControlEp
  <2>1. UENUM \in Selected(Top)
    BY DEF ControlInv, SelectInv
  <2>2. Top.pc = "configure_out" => Selected(Top) = {DataOut}
    BY DEF Selected, AfterCut
  <2>3. Top.pc \in {"inspect", "reallocate", "configure_in"} => Selected(Top) = {DataIn}
    BY DEF Selected, AfterCut
  <2> QED
    BY <1>1, <2>1, <2>2, <2>3, EndpointFacts
<1>6. /\ UNCHANGED <<UDINT, enabled, bus, host, rxstp, txin, bank>>
      /\ ControlEp \in stalled' <=> ControlEp \in stalled
      /\ USB_DeviceState' = "Unattached" => USB_DeviceState = "Unattached"
  <2>1. CASE Configured
    BY <2>1 DEF Configured
  <2>2. CASE Inspect
    BY <2>2 DEF Inspect
  <2>3. CASE ConfigureOUT \/ Reallocate \/ ConfigureIN
    <3>1. Top.pc # "configured"
      BY <2>3 DEF ConfigureOUT, Reallocate, ConfigureIN, Runs
    <3>2. \E e : Allocate(e)
      BY <2>3 DEF ConfigureOUT, Reallocate, ConfigureIN
    <3> QED
      BY <1>5, <3>1, <3>2 DEF Allocate
  <2> QED
    BY <2>1, <2>2, <2>3
<1>7. PICK f \in Frames : SetTop(f) /\ f.pc \in LoopPlaces \cup QuietPlaces
                         /\ f.pc \notin {"read", "received"}
  <2>1. Top \in Frames /\ UENUM \in Endpoints
    BY TopFacts, EndpointTypes DEF ControlInv
  <2>2. CASE Configured \/ ConfigureOUT \/ Reallocate
    <3>1. PICK l \in {"configure_out", "inspect", "configure_in"} : Goto(l)
      BY <2>2 DEF Configured, ConfigureOUT, Reallocate
    <3>2. l \in Labels \ {"feature", "stalled", "check", "status"}
          /\ l \in QuietPlaces /\ l \notin {"read", "received"}
      BY DEF Labels, QuietPlaces
    <3> QED
      BY <3>1, <3>2, GotoFacts DEF ControlInv, Goto
  <2>3. CASE Inspect
    <3> DEFINE l == IF UENUM \in allocated THEN "reallocate" ELSE "configure_in"
               g == [Top EXCEPT !.pc = l, !.local = UENUM]
    <3>1. SetTop(g)
      BY <2>3 DEF Inspect
    <3>2. l \in Labels /\ l \notin {"feature", "stalled", "check", "status"}
          /\ l \in QuietPlaces /\ l \notin {"read", "received"}
      BY DEF Labels, QuietPlaces
    <3>3. UENUM \in Int
      BY <2>1 DEF Endpoints, TotalEndpoints
    <3> HIDE DEF l
    <3>4. g \in Frames /\ g.pc = l
      BY <2>1, <3>2, <3>3 DEF Frames, FrameFields
    <3> QED
      BY <3>1, <3>2, <3>4
  <2>4. CASE ConfigureIN
    <3> DEFINE g == [Frame("check", Top.prev) EXCEPT !.local = DataIn]
    <3>1. SetTop(g)
      BY <2>4 DEF ConfigureIN
    <3>2. Frame("check", Top.prev) \in Frames /\ Frame("check", Top.prev).pc = "check"
      BY FinishFrame
    <3>3. DataIn \in Int /\ DataIn \in Endpoints
      BY EndpointFacts DEF DataIn
    <3>4. g \in Frames /\ g.pc = "check"
      BY <3>2, <3>3 DEF Frames, FrameFields
    <3> QED
      BY <3>1, <3>4 DEF LoopPlaces
  <2> QED
    BY <2>2, <2>3, <2>4
<1> QED
  BY <1>2, <1>3, <1>4, <1>6, <1>7, QuietStep

LEMMA LeaveFrame ==
    ASSUME ControlInv, Top.pc = "status", Leave
    PROVE  \E f \in Frames :
              /\ SetTop(f) /\ f.pc = Top.next /\ f.local = Top.local
              /\ f.pc \in {"check", "configured", "wait_sent"}
<1> DEFINE f == [Frame(Top.next, Top.prev) EXCEPT !.local = Top.local]
<1>1. Top \in Frames
  BY TopFacts DEF ControlInv
<1>2. Top.next \in {"check", "configured", "wait_sent"} /\ Top.prev \in Endpoints
      /\ Top.local \in Int /\ (Top.next = "check" => Top.local = 0)
  BY <1>1 DEF Frames, FrameFields
<1>3. Top.next \in Labels
  BY <1>2 DEF Labels
<1>4. f \in Frames /\ f.pc = Top.next /\ f.local = Top.local
  BY <1>2, <1>3, EndpointFacts DEF Frame, Frames, FrameFields, ControlEp
<1>5. SetTop(f)
  BY DEF Leave
<1> QED
  BY <1>2, <1>4, <1>5

\* The status stage: sent, received, or left.
LEMMA StatusTransfer ==
    ASSUME ControlInv, TransferInv, StatusSent \/ StatusReceived \/ StatusLeft
    PROVE  TransferInv'
<1> USE DEF interruptVars, busVars, historyVars
<1>1. Top.pc = "status" /\ ~BusPending /\ Leave
      /\ UNCHANGED <<UDINT, enabled, bus, host, rxstp, stalled, USB_DeviceState,
                     USB_ControlRequest>>
  BY DEF StatusSent, StatusReceived, StatusLeft, Runs, lufaVars, endpointVars, ep0Vars
<1>2. Top.pc \notin LoopPlaces /\ Top.pc # "return"
  BY <1>1 DEF LoopPlaces, LoopLabels
<1>3. Len(stack) # 1 /\ Served
  BY <1>2, HandlerPlace
<1>4. PICK f \in Frames : SetTop(f) /\ f.pc \in {"check", "configured", "wait_sent"}
  BY <1>1, LeaveFrame
<1>5. f.pc \in LoopPlaces \cup QuietPlaces /\ f.pc \notin {"read", "received", "return"}
  BY <1>4 DEF LoopPlaces, QuietPlaces
<1>6. CASE StatusSent
  <2>1. Top.wait = "in" /\ ~txin'
    BY <1>6 DEF StatusSent
  <2>2. ~rxstp /\ host.phase \in {"status", "idle"}
    BY <1>1, <2>1 DEF TransferInv, HandlerInv
  <2>3. StackOrder' /\ WakeInv' /\ TurnInv' /\ Top' = f
    BY <1>1, <1>2, <1>3, <1>4, <1>5, CodeStep DEF TransferInv
  <2>4. Top'.pc \in {"check", "configured", "wait_sent"}
    BY <1>4, <2>3
  <2>5. SetupInv' /\ HandlerInv' /\ AnswerInv' /\ DescriptorInv'
    BY <1>1, <2>2, <2>4 DEF SetupInv, HandlerInv, AnswerInv, DescriptorInv, TakenPlaces
  <2>6. DirectionInv'
    BY <1>1 DEF TransferInv, DirectionInv
  <2> QED
    BY <2>3, <2>5, <2>6 DEF TransferInv
<1>7. CASE StatusReceived \/ StatusLeft
  <2>1. UNCHANGED <<txin, bank>>
    BY <1>7 DEF StatusReceived, StatusLeft, ep0Vars
  <2>2. (rxstp /\ host.phase = "idle") => bus = "idle"
    <3>1. CASE StatusReceived
      <4>1. ~Stuck
        BY <1>1, <3>1 DEF StatusReceived, Stuck
      <4> QED
        BY <1>3, <4>1, GivenUp DEF TransferInv
    <3>2. CASE StatusLeft
      BY <1>1, <1>3, <3>2, Disconnected DEF StatusLeft
    <3> QED
      BY <1>7, <3>1, <3>2
  <2> QED
    BY <1>1, <1>2, <1>3, <1>4, <1>5, <2>1, <2>2, QuietStep
<1> QED
  BY <1>6, <1>7

-----------------------------------------------------------------------------
\* Steps that leave the stack alone.
LEMMA SameStack ==
    ASSUME StackOrder, UNCHANGED stack
    PROVE  StackOrder' /\ Top' = Top /\ Len(stack') = Len(stack) /\ (Busy' <=> Busy)
BY DEF StackOrder, Top, Busy

\* A suspend or a wake-up is not seen by the code it interrupts.
LEMMA Unseen ==
    ASSUME SetupInv, HandlerInv, DirectionInv, AnswerInv, DescriptorInv,
           Top' = Top, Len(stack') = Len(stack),
           UNCHANGED <<rxstp, rxout, txin, bank, host, stalled, USB_ControlRequest, UENUM>>,
           (rxstp /\ Served) => Stuck \/ (bus = "idle" => bus' = "idle"),
           (Top.pc = "status" /\ Top.wait = "in") => (bus = "idle" => bus' = "idle"),
           (Len(stack) > 1 /\ Top.pc \in TakenPlaces) =>
               (bus = "idle" => bus' = "idle")
    PROVE  SetupInv' /\ HandlerInv' /\ DirectionInv' /\ AnswerInv' /\ DescriptorInv'
<1>1. Stuck' <=> Stuck
  BY DEF Stuck
<1>2. SetupInv'
  BY <1>1 DEF SetupInv, Served
<1>3. HandlerInv'
  BY DEF HandlerInv
<1>4. DirectionInv' /\ AnswerInv'
  BY DEF DirectionInv, AnswerInv
<1>5. Whole' = Whole /\ Got' = Got /\ OnItsWay' = OnItsWay
  BY DEF Whole, Got, OnItsWay
<1>6. DescriptorInv'
  BY <1>5 DEF DescriptorInv, StreamInv
<1> QED
  BY <1>2, <1>3, <1>4, <1>6

\* Before the host goes on, nobody is in a request.
LEMMA NobodyServed ==
    ASSUME ControlInv, TransferInv, ~Busy
    PROVE  /\ Top.pc \notin {"switch", "feature", "stalled", "status", "stream",
                             "wait_sent"}
           /\ ~(Len(stack) > 1 /\ Top.pc \in TakenPlaces)
           /\ ~Stuck
<1>1. Top.pc \in LoopPlaces \/ Top.pc = "return"
  BY Depth DEF TransferInv, Busy
<1>2. Top.pc \notin {"switch", "feature", "stalled", "status", "stream", "wait_sent"}
  BY <1>1 DEF LoopPlaces, LoopLabels
<1>3. ~(Len(stack) > 1 /\ Top.pc \in TakenPlaces)
  BY DEF Busy, TakenPlaces
<1> QED
  BY <1>2, <1>3 DEF Stuck

LEMMA BusInterruptTransfer ==
    ASSUME ControlInv, TransferInv, RegisterTypes, USB_GEN_vect
    PROVE  TransferInv'
<1>1. UNCHANGED <<stack, host, bus, rxout, USB_ControlRequest>> \/ "EORSTI" \in UDINT
  BY DEF USB_GEN_vect, busVars, ep0Vars
<1>2. UNCHANGED <<stack, host, bus>> /\ BusPending
  BY DEF USB_GEN_vect, busVars
<1>3. StackOrder' /\ Top' = Top /\ Len(stack') = Len(stack) /\ (Busy' <=> Busy)
  BY <1>2, SameStack DEF TransferInv
<1>4. CASE "EORSTI" \in UDINT
  <2>1. ~Served /\ ~Busy
    BY <1>4 DEF TransferInv, TurnInv
  <2>2. /\ ~rxstp' /\ "RXSTPI" \in enabled' /\ USB_DeviceState' = "Default"
        /\ "SUSPI" \notin UDINT'
    BY <1>4 DEF USB_GEN_vect, ConfigureControl
  <2>3. WakeInv' /\ TurnInv'
    BY <1>2, <1>3, <2>1, <2>2 DEF WakeInv, TurnInv, Served
  <2>4. host.phase \notin {"data", "status", "acknowledge"}
    BY <2>1 DEF TransferInv, Served, TurnInv
  <2>5. SetupInv' /\ DirectionInv' /\ AnswerInv' /\ DescriptorInv'
    BY <1>2, <2>2, <2>4 DEF SetupInv, DirectionInv, AnswerInv, DescriptorInv
  <2>6. HandlerInv'
    BY <1>3, <2>1, NobodyServed DEF HandlerInv
  <2> QED
    BY <1>3, <2>3, <2>5, <2>6 DEF TransferInv
<1>5. CASE "EORSTI" \notin UDINT
  <2> DEFINE suspend == "SUSPI" \in UDINT \cap enabled
             e1 == IF suspend THEN (enabled \ {"SUSPI"}) \cup {"WAKEUPI"} ELSE enabled
             wake == "WAKEUPI" \in UDINT \cap e1
             e2 == IF wake THEN (e1 \ {"WAKEUPI"}) \cup {"SUSPI"} ELSE e1
             woken == IF USB_Device_ConfigurationNumber # 0 THEN "Configured"
                      ELSE IF UDADDR.enabled THEN "Addressed" ELSE "Powered"
  <2>1. /\ USB_DeviceState' = (IF wake THEN woken ELSE "Unattached")
        /\ UDINT' \subseteq UDINT /\ enabled' = e2
        /\ UNCHANGED <<rxstp, rxout, txin, bank, stalled, UENUM, USB_ControlRequest>>
    BY <1>5 DEF USB_GEN_vect, endpointVars, ep0Vars
  <2>2. woken # "Unattached"
    OBVIOUS
  <2>3. suspend \/ ("WAKEUPI" \in UDINT /\ "WAKEUPI" \in enabled)
    BY <1>2, <1>5 DEF BusPending, RegisterTypes
  <2>4. USB_DeviceState' = "Unattached" => ~wake
    BY <2>1, <2>2
  <2>5. ~wake => suspend /\ "WAKEUPI" \in e2
    BY <2>3
  <2>6. suspend => bus = "idle"
    BY DEF TransferInv, WakeInv
  <2>7. "SUSPI" \in UDINT' => bus' = "idle"
    BY <1>2, <2>1 DEF TransferInv, WakeInv
  <2>8. "RXSTPI" \in e2 <=> "RXSTPI" \in enabled
    OBVIOUS
  <2> HIDE DEF suspend, wake, e2, woken
  <2>9. WakeInv'
    BY <1>2, <2>1, <2>4, <2>5, <2>6, <2>7 DEF WakeInv
  <2>10. TurnInv'
    BY <1>2, <1>3, <1>5, <2>1, <2>8 DEF TransferInv, TurnInv, Served
  <2>11. SetupInv' /\ HandlerInv' /\ DirectionInv' /\ AnswerInv' /\ DescriptorInv'
    BY <1>2, <1>3, <2>1, Unseen DEF TransferInv
  <2> QED
    BY <1>3, <2>9, <2>10, <2>11 DEF TransferInv
<1> QED
  BY <1>4, <1>5

-----------------------------------------------------------------------------
\* What the host's steps leave alone.
LEMMA HostFrame ==
    ASSUME Host
    PROVE  UNCHANGED <<stack, USB_DeviceState, USB_ControlRequest, UENUM, enabled,
                       USB_Device_ConfigurationNumber>>
BY DEF Host, HostSetup, Transfer, HostIN, HostOUT, HostStalled, HostRecovered, HostAbort,
       BusReset, BusSuspend, BusResume, deviceVars, lufaVars, endpointVars, interruptVars

\* A new request: no handler is about to take a packet.
LEMMA HostSetupTransfer ==
    ASSUME ControlInv, TransferInv, LufaTypes, HostSetup
    PROVE  TransferInv'
<1>1. UNCHANGED <<stack, USB_DeviceState, USB_ControlRequest, UENUM, enabled>>
  BY HostFrame DEF Host
<1>2. StackOrder' /\ Top' = Top /\ Len(stack') = Len(stack) /\ (Busy' <=> Busy)
  BY <1>1, SameStack DEF TransferInv
<1>3. PICK r \in Requests :
         host' = [host EXCEPT !.phase = IF ToHost(r) THEN "data" ELSE "status",
                              !.request = r, !.left = r.wLength]
  BY DEF HostSetup
<1>4. /\ host.phase = "idle" /\ bus = "active" /\ rxstp'
      /\ ControlEp \notin stalled' /\ UNCHANGED <<UDINT, rxout, txin, bank, bus>>
  BY DEF HostSetup, Addressable, interruptVars
<1>5. r \in Request /\ r.wLength \in Nat
  BY RequestTypes
<1>6. /\ host'.phase = IF ToHost(r) THEN "data" ELSE "status"
      /\ host'.request = r /\ host'.left = r.wLength
  <2>1. host \in [phase : Phases, request : Requests \cup {NoRequest}, addr : Nat,
                  left : Int]
    BY DEF LufaTypes
  <2> QED
    BY <1>3, <2>1
<1>7. host'.phase \in {"data", "status"}
  BY <1>6
<1>8. Top.pc \notin {"switch", "feature", "stalled"}
      /\ ~(Len(stack) > 1 /\ Top.pc \in TakenPlaces)
  <2>1. Top.pc \in {"switch", "feature", "stalled"} => Len(stack) > 1
    BY Depth DEF TransferInv, LoopPlaces, LoopLabels
  <2>2. ~(Len(stack) > 1 /\ Top.pc \in TakenPlaces)
    BY <1>4 DEF TransferInv, HandlerInv
  <2> QED
    BY <2>1, <2>2 DEF TakenPlaces
<1>9. ~(Top.pc = "status" /\ Top.wait = "in")
  BY <1>4 DEF TransferInv, HandlerInv
<1>10. WakeInv' /\ TurnInv'
  BY <1>1, <1>2, <1>4, <1>7 DEF TransferInv, WakeInv, TurnInv, Served
<1>11. SetupInv' /\ HandlerInv' /\ AnswerInv'
  BY <1>1, <1>2, <1>4, <1>7, <1>8, <1>9 DEF SetupInv, HandlerInv, AnswerInv
<1>12. DirectionInv'
  BY <1>6 DEF DirectionInv
<1>13. DescriptorInv'
  <2>1. Got' = 0
    BY <1>5, <1>6 DEF Got
  <2> QED
    BY <1>4, <1>7, <2>1 DEF DescriptorInv
<1> QED
  BY <1>2, <1>10, <1>11, <1>12, <1>13 DEF TransferInv

\* A packet is fetched: what it held is the host's now.
LEMMA HostINTransfer ==
    ASSUME ControlInv, TransferInv, LufaTypes, PacketTypes, HostIN
    PROVE  TransferInv'
<1> DEFINE left == host.left - Smaller(host.left, bank.length)
           done == left = 0 \/ bank.length < ControlSize
           H == [phase : Phases, request : Requests \cup {NoRequest}, addr : Nat, left : Int]
<1>1. UNCHANGED <<stack, USB_DeviceState, USB_ControlRequest, UENUM, enabled>>
  BY HostFrame DEF Host, Transfer
<1>2. StackOrder' /\ Top' = Top /\ Len(stack') = Len(stack) /\ (Busy' <=> Busy)
  BY <1>1, SameStack DEF TransferInv
<1>3. /\ host.phase \in {"data", "status"} /\ ~txin /\ ~rxstp /\ ControlEp \notin stalled
      /\ txin' /\ UNCHANGED <<UDINT, bus, rxstp, rxout, stalled>>
  BY DEF HostIN, deviceVars, endpointVars
<1>4. host \in H /\ bank.length \in Int
  BY DEF LufaTypes, PacketTypes
<1>5. CASE host.phase = "status"
  <2>1. host'.phase = "idle"
    BY <1>5 DEF HostIN, Idle
  <2>2. WakeInv' /\ TurnInv'
    BY <1>1, <1>2, <1>3, <2>1 DEF TransferInv, WakeInv, TurnInv, Served
  <2>3. HandlerInv'
    BY <1>1, <1>2, <1>3, <2>1 DEF TransferInv, HandlerInv
  <2>4. SetupInv' /\ DirectionInv' /\ AnswerInv' /\ DescriptorInv'
    BY <1>3, <2>1 DEF SetupInv, DirectionInv, AnswerInv, DescriptorInv
  <2> QED
    BY <1>2, <2>2, <2>3, <2>4 DEF TransferInv
<1>6. CASE host.phase = "data"
  <2>1. host' = [host EXCEPT !.phase = IF done THEN "acknowledge" ELSE @, !.left = left]
    BY <1>6 DEF HostIN
  <2>2. left \in Int
    BY <1>4 DEF Smaller
  <2>3. /\ host'.phase = (IF done THEN "acknowledge" ELSE "data")
        /\ host'.request = host.request /\ host'.left = left
    BY <1>4, <1>6, <2>1
  <2> HIDE DEF H
  <2>4. host'.phase \in {"acknowledge", "data"}
    BY <2>3
  <2>5. WakeInv' /\ TurnInv'
    BY <1>1, <1>2, <1>3, <2>4 DEF TransferInv, WakeInv, TurnInv, Served
  <2>6. HandlerInv'
    BY <1>1, <1>2, <1>3, <1>6, <2>3, <2>4 DEF TransferInv, HandlerInv
  <2>7. SetupInv' /\ AnswerInv'
    BY <1>3 DEF SetupInv, AnswerInv
  <2>8. DirectionInv'
    BY <1>6, <2>3, <2>4 DEF TransferInv, DirectionInv
  <2>9. DescriptorInv'
    <3> SUFFICES ASSUME host.request.bRequest = "GetDescriptor" PROVE DescriptorInv'
      BY <2>3 DEF DescriptorInv
    <3>1. StreamInv
      BY <1>3, <1>6 DEF TransferInv, DescriptorInv
    <3>2. /\ bank.length >= 0 /\ Got + bank.length <= Whole
          /\ bank.length < ControlSize => Got + bank.length = Whole
      BY <1>3, <3>1 DEF StreamInv, OnItsWay
    <3>3. Top.pc = "stream" => Got + bank.length + Top.local = Whole /\ Top.local >= 0
      BY <1>3, <3>1 DEF StreamInv, OnItsWay
    <3>4. host.request.wValue \in Nat /\ host.request.wLength \in Nat /\ host.left \in Int
      BY RequestTypes DEF LufaTypes
    <3>5. Whole <= host.request.wLength /\ Whole \in Int /\ Got \in Int
          /\ Got = host.request.wLength - host.left
      BY <3>4 DEF Whole, Smaller, Got
    <3>6. bank.length <= host.left
      BY <1>4, <3>2, <3>4, <3>5
    <3>7. left = host.left - bank.length
      BY <1>4, <3>4, <3>6 DEF Smaller
    <3>8. Whole' = Whole /\ OnItsWay' = 0
      BY <1>3, <2>3 DEF Whole, OnItsWay
    <3>9. Got' = Got + bank.length
      BY <1>4, <2>3, <3>4, <3>5, <3>7 DEF Got
    <3> HIDE DEF left
    <3>10. done => Got' = Whole'
      BY <1>4, <3>2, <3>4, <3>5, <3>7, <3>8, <3>9
    <3> HIDE DEF done
    <3>11. host'.phase = "acknowledge" => Got' = Whole'
      BY <2>3, <3>10
    <3>12. Top \in Frames
      BY TopFacts DEF ControlInv
    <3>13. Top.local \in Int
      BY <3>12 DEF Frames, FrameFields
    <3>14. /\ OnItsWay' >= 0 /\ Got' + OnItsWay' <= Whole'
           /\ Top.pc = "stream" => Got' + OnItsWay' + Top.local = Whole' /\ Top.local >= 0
      BY <1>4, <3>2, <3>3, <3>5, <3>8, <3>9, <3>13
    <3>15. StreamInv'
      BY <1>2, <1>3, <3>14 DEF StreamInv
    <3> QED
      BY <1>3, <2>4, <3>11, <3>15 DEF DescriptorInv
  <2> QED
    BY <1>2, <2>5, <2>6, <2>7, <2>8, <2>9 DEF TransferInv
<1> QED
  BY <1>3, <1>5, <1>6

\* A transfer ends with the host's own packet, or with a stall.
LEMMA HostEndTransfer ==
    ASSUME ControlInv, TransferInv, HostOUT \/ HostStalled
    PROVE  TransferInv'
<1>1. UNCHANGED <<stack, USB_DeviceState, USB_ControlRequest, UENUM, enabled>>
  BY HostFrame DEF Host, Transfer
<1>2. StackOrder' /\ Top' = Top /\ Len(stack') = Len(stack) /\ (Busy' <=> Busy)
  BY <1>1, SameStack DEF TransferInv
<1>3. /\ host.phase \notin {"unknown", "recovery", "idle"} /\ host'.phase = "idle"
      /\ host.phase = "acknowledge" \/ ControlEp \in stalled
      /\ UNCHANGED <<UDINT, bus, rxstp, txin, stalled>>
  BY DEF HostOUT, HostStalled, Idle, deviceVars, endpointVars, ep0Vars
<1>4. ~rxstp
  BY <1>3 DEF TransferInv, SetupInv, Served
<1>5. WakeInv' /\ TurnInv'
  BY <1>1, <1>2, <1>3 DEF TransferInv, WakeInv, TurnInv, Served
<1>6. HandlerInv'
  BY <1>1, <1>2, <1>3, <1>4 DEF TransferInv, HandlerInv
<1>7. SetupInv' /\ DirectionInv' /\ AnswerInv' /\ DescriptorInv'
  BY <1>3, <1>4 DEF SetupInv, DirectionInv, AnswerInv, DescriptorInv
<1> QED
  BY <1>2, <1>5, <1>6, <1>7 DEF TransferInv

\* When the host gives a transfer up, or resumes the bus, no handler is about to
\* take a packet.
LEMMA WaitingFacts ==
    ASSUME ControlInv, TransferInv, Waiting
    PROVE  /\ Top.pc \notin TakenPlaces
           /\ ~(Top.pc = "status" /\ Top.wait = "in")
           /\ (rxstp /\ Served) => Stuck
<1>1. Top.pc \notin TakenPlaces
  BY DEF Waiting, LoopLabels, TakenPlaces
<1>2. ~(Top.pc = "status" /\ Top.wait = "in")
  BY DEF Waiting, LoopLabels, TransferInv, HandlerInv
<1>3. ASSUME rxstp, Served PROVE Stuck
  <2>1. Busy
    BY <1>3 DEF Waiting, ControlPending, TransferInv, TurnInv
  <2>2. Top.pc \notin LoopLabels
    BY <2>1, Depth DEF TransferInv, Busy
  <2>3. Top \in Frames
    BY TopFacts DEF ControlInv
  <2>4. Top.wait \in {"in", "out"}
    BY <2>3 DEF Frames, FrameFields
  <2> QED
    BY <1>2, <1>3, <2>2, <2>4 DEF Waiting, Stuck
<1> QED
  BY <1>1, <1>2, <1>3

LEMMA HostAbortTransfer ==
    ASSUME ControlInv, TransferInv, LufaTypes, HostAbort
    PROVE  TransferInv'
<1>1. UNCHANGED <<stack, USB_DeviceState, USB_ControlRequest, UENUM, enabled>>
  BY HostFrame DEF Host
<1>2. StackOrder' /\ Top' = Top /\ Len(stack') = Len(stack) /\ (Busy' <=> Busy)
  BY <1>1, SameStack DEF TransferInv
<1>3. /\ host.phase \notin {"unknown", "recovery", "idle"}
      /\ host' = [host EXCEPT !.phase = "idle", !.left = 0] /\ Waiting
      /\ UNCHANGED <<UDINT, bus, rxstp, rxout, txin, stalled>>
  BY DEF HostAbort, deviceVars, endpointVars, ep0Vars
<1>4. host'.phase = "idle"
  <2>1. host \in [phase : Phases, request : Requests \cup {NoRequest}, addr : Nat,
                  left : Int]
    BY DEF LufaTypes
  <2> QED
    BY <1>3, <2>1
<1>5. WakeInv' /\ TurnInv'
  BY <1>1, <1>2, <1>3, <1>4 DEF TransferInv, WakeInv, TurnInv, Served
<1>6. Stuck' <=> Stuck
  BY <1>2, <1>3 DEF Stuck
<1>7. Served
  BY <1>3 DEF Served
<1>8. SetupInv'
  BY <1>3, <1>4, <1>6, <1>7, WaitingFacts DEF TransferInv, SetupInv
<1>9. HandlerInv'
  BY <1>2, <1>3, <1>4, WaitingFacts DEF HandlerInv, TakenPlaces
<1>10. DirectionInv' /\ AnswerInv' /\ DescriptorInv'
  BY <1>4 DEF DirectionInv, AnswerInv, DescriptorInv
<1> QED
  BY <1>2, <1>5, <1>8, <1>9, <1>10 DEF TransferInv

LEMMA BusSuspendTransfer ==
    ASSUME ControlInv, TransferInv, BusSuspend \/ BusResume
    PROVE  TransferInv'
<1>1. UNCHANGED <<stack, USB_DeviceState, USB_ControlRequest, UENUM, enabled>>
  BY HostFrame DEF Host
<1>2. StackOrder' /\ Top' = Top /\ Len(stack') = Len(stack) /\ (Busy' <=> Busy)
  BY <1>1, SameStack DEF TransferInv
<1>3. /\ UNCHANGED <<host, rxstp, rxout, txin, bank, stalled>>
      /\ "EORSTI" \in UDINT' <=> "EORSTI" \in UDINT
  BY DEF BusSuspend, BusResume, deviceVars, endpointVars, ep0Vars
<1>4. \/ bus' = "idle"
      \/ bus' = "active" /\ "WAKEUPI" \in UDINT' /\ "SUSPI" \notin UDINT' /\ Waiting
  BY DEF BusSuspend, BusResume
<1>5. WakeInv' /\ TurnInv'
  BY <1>1, <1>2, <1>3, <1>4 DEF TransferInv, WakeInv, TurnInv, Served
<1>6. SetupInv' /\ HandlerInv' /\ DirectionInv' /\ AnswerInv' /\ DescriptorInv'
  BY <1>1, <1>2, <1>3, <1>4, WaitingFacts, Unseen DEF TransferInv
<1> QED
  BY <1>2, <1>5, <1>6 DEF TransferInv

LEMMA HostRecoveredTransfer ==
    ASSUME ControlInv, TransferInv, HostRecovered
    PROVE  TransferInv'
<1>1. UNCHANGED <<stack, USB_DeviceState, USB_ControlRequest, UENUM, enabled>>
  BY HostFrame DEF Host, Transfer
<1>2. StackOrder' /\ Top' = Top /\ Len(stack') = Len(stack) /\ (Busy' <=> Busy)
  BY <1>1, SameStack DEF TransferInv
<1>3. /\ host.phase = "recovery" /\ host'.phase = "idle" /\ ~BusPending
      /\ UNCHANGED <<UDINT, bus, rxstp>>
  BY DEF HostRecovered, Idle, Waiting, ep0Vars
<1>4. "EORSTI" \notin UDINT
  BY <1>3 DEF ControlInv, BusInv, BusPending
<1>5. ~Busy /\ ~rxstp /\ "RXSTPI" \in enabled
  BY <1>3, <1>4 DEF TransferInv, TurnInv, Served
<1>6. WakeInv' /\ TurnInv'
  BY <1>1, <1>2, <1>3, <1>4, <1>5 DEF TransferInv, WakeInv, TurnInv, Served
<1>7. HandlerInv'
  BY <1>2, <1>5, NobodyServed DEF HandlerInv
<1>8. SetupInv' /\ DirectionInv' /\ AnswerInv' /\ DescriptorInv'
  BY <1>3, <1>5 DEF SetupInv, DirectionInv, AnswerInv, DescriptorInv
<1> QED
  BY <1>2, <1>6, <1>7, <1>8 DEF TransferInv

\* A reset that falls into no request.
LEMMA BusResetTransfer ==
    ASSUME ControlInv, TransferInv, cuts = 0, cuts' = 0, BusReset
    PROVE  TransferInv'
<1>1. UNCHANGED <<stack, USB_DeviceState, USB_ControlRequest, UENUM, enabled>>
  BY HostFrame DEF Host
<1>2. StackOrder' /\ Top' = Top /\ Len(stack') = Len(stack) /\ (Busy' <=> Busy)
  BY <1>1, SameStack DEF TransferInv
<1>3. ~Handling
  BY DEF BusReset
<1>4. ~Busy
  BY <1>3, Places DEF TransferInv
<1>5. host'.phase = "recovery" /\ "EORSTI" \in UDINT' /\ "SUSPI" \notin UDINT'
  BY DEF BusReset, Idle
<1>6. WakeInv' /\ TurnInv'
  BY <1>2, <1>4, <1>5 DEF WakeInv, TurnInv, Served
<1>7. HandlerInv'
  BY <1>2, <1>4, NobodyServed DEF HandlerInv
<1>8. SetupInv' /\ DirectionInv' /\ AnswerInv' /\ DescriptorInv'
  BY <1>5 DEF SetupInv, Served, DirectionInv, AnswerInv, DescriptorInv
<1> QED
  BY <1>2, <1>6, <1>7, <1>8 DEF TransferInv

LEMMA TransferKept ==
    ASSUME UsbInv, TransferInv, cuts = 0, cuts' = 0, ~overtaken', Next
    PROVE  TransferInv'
<1>1. ControlInv /\ LufaTypes /\ PacketTypes /\ RegisterTypes /\ CountersInv
  BY DEF UsbInv
<1>2. CASE Interrupt \/ MainLoop
  BY <1>1, <1>2, BusInterruptTransfer, InterruptTransfer, MainLoopTransfer DEF Interrupt
<1>3. CASE ControlRequest
  BY <1>1, <1>3, ReadHeaderTransfer, ReceivedTransfer, CheckSetupTransfer,
     StallSetupTransfer, SetRequestTransfer, ConfigureTransfer, FeatureTransfer,
     WriteBytesTransfer, GetDescriptorTransfer, StreamPacketTransfer, FinishTransfer,
     StatusTransfer, InterruptTransfer DEF ControlRequest
<1>4. CASE Host
  BY <1>1, <1>4, HostSetupTransfer, HostINTransfer, HostEndTransfer, HostAbortTransfer,
     BusSuspendTransfer, HostRecoveredTransfer, BusResetTransfer DEF Host, Transfer
<1> QED
  BY <1>2, <1>3, <1>4 DEF Next, Device

LEMMA TransferInit ==
    Init => TransferInv
<1> SUFFICES ASSUME Init PROVE TransferInv
  OBVIOUS
<1>1. ControlInv
  BY UsbInvInit DEF UsbInv
<1>2. Len(stack) = 1 /\ stack[1].pc = "task"
  <2>1. stack = <<Frame("task", 0)>> /\ Frame("task", 0).pc = "task"
    BY DEF Init, Frame
  <2> QED
    BY <2>1
<1>3. Top.pc = "task" /\ ~(Len(stack) > 1) /\ \A k : k \notin 2..(Len(stack) - 1)
  BY <1>2 DEF Top
<1>4. host.phase = "unknown" /\ host.request = NoRequest
  BY DEF Init, Idle
<1>5. StackOrder
  BY <1>2, <1>3 DEF StackOrder, LoopPlaces, LoopLabels
<1>6. WakeInv /\ TurnInv
  BY <1>3, <1>4 DEF WakeInv, TurnInv, Served, Busy, Init
<1>7. SetupInv /\ HandlerInv /\ DirectionInv /\ AnswerInv
  BY <1>3, <1>4 DEF SetupInv, HandlerInv, DirectionInv, AnswerInv, Served
<1>8. DescriptorInv
  BY <1>4 DEF DescriptorInv, NoRequest
<1> QED
  BY <1>5, <1>6, <1>7, <1>8 DEF TransferInv

LEMMA TransferStutter ==
    ASSUME TransferInv, UNCHANGED vars
    PROVE  TransferInv'
<1> USE DEF vars, lufaVars, endpointVars, ep0Vars, interruptVars, busVars, historyVars
<1>1. StackOrder' /\ Top' = Top /\ Len(stack') = Len(stack) /\ (Busy' <=> Busy)
  BY SameStack DEF TransferInv
<1>2. WakeInv' /\ TurnInv'
  BY <1>1 DEF TransferInv, WakeInv, TurnInv, Served
<1>3. SetupInv' /\ HandlerInv' /\ DirectionInv' /\ AnswerInv' /\ DescriptorInv'
  BY <1>1, Unseen DEF TransferInv
<1> QED
  BY <1>1, <1>2, <1>3 DEF TransferInv

\* The inductive invariant of the control transfers: what the stack, the
\* interrupts, the SETUP packet in the bank, the handler at the top of the stack
\* and the host's transfer have to do with one another.
THEOREM TransferInvariant == Spec => [](Undisturbed => TransferInv)
<1> DEFINE I == UsbInv /\ (Undisturbed => TransferInv)
<1>1. Init => I
  BY UsbInvInit, TransferInit
<1>2. I /\ [Next]_vars => I'
  <2> SUFFICES ASSUME I, [Next]_vars PROVE I'
    OBVIOUS
  <2>1. UsbInv'
    BY UsbInvKept
  <2>2. ASSUME Undisturbed' PROVE TransferInv'
    <3>1. CASE UNCHANGED vars
      <4>1. UNCHANGED <<cuts, overtaken>>
        BY <3>1 DEF vars, busVars, historyVars
      <4>2. Undisturbed
        BY <2>2, <4>1 DEF Undisturbed
      <4> QED
        BY <3>1, <4>2, TransferStutter
    <3>2. CASE Next
      <4>1. Undisturbed /\ cuts = 0 /\ cuts' = 0 /\ ~overtaken'
        BY <2>2, <3>2, UndisturbedKept DEF UsbInv, Undisturbed
      <4> QED
        BY <3>2, <4>1, TransferKept
    <3> QED
      BY <3>1, <3>2
  <2> QED
    BY <2>1, <2>2
<1>3. I => (Undisturbed => TransferInv)
  OBVIOUS
<1> QED
  BY <1>1, <1>2, <1>3, PTL DEF Spec

\* The packet in the bank answers the host's last request, whatever requests it
\* has given up before and however the interrupts fell: no handler writes a packet
\* while a newer SETUP waits, what it wrote earlier is dropped with the next SETUP
\* (Endpoint_ClearSETUP), and a SETUP found at the end of a request is refused with
\* a STALL (DeviceStandardReq.c:118-122), never answered with what is left there.
THEOREM AnswersFresh == Spec => []NoStaleAnswer
<1>1. (Undisturbed => TransferInv) => NoStaleAnswer
  BY DEF TransferInv, AnswerInv, NoStaleAnswer
<1> QED
  BY <1>1, TransferInvariant, PTL

\* The host that acknowledges a descriptor has had all of it, or all it asked
\* for: for every length, on both sides, and every cut of the stream by other
\* requests, suspends and disconnections (EndpointStream_AVR8.c and
\* Template_Endpoint_Control_W.c).
THEOREM DescriptorWhole == Spec => []DescriptorDelivered
<1>1. UsbInv /\ (Undisturbed => TransferInv) => DescriptorDelivered
  <2> SUFFICES ASSUME UsbInv, TransferInv, host.phase = "acknowledge",
                      host.request.bRequest = "GetDescriptor"
               PROVE  host.left = host.request.wLength
                          - Smaller(host.request.wValue, host.request.wLength)
    BY DEF DescriptorDelivered
  <2>1. Got = Whole
    BY DEF TransferInv, DescriptorInv
  <2>2. host.left \in Int /\ host.request.wLength \in Nat /\ host.request.wValue \in Nat
    BY RequestTypes DEF UsbInv, LufaTypes
  <2> QED
    BY <2>1, <2>2 DEF Got, Whole, Smaller
<1> QED
  BY <1>1, UsbInvariant, TransferInvariant, PTL

-----------------------------------------------------------------------------
\* The address and the state.  A device with an address is asked for everything
\* but SET_ADDRESS, one without it for nothing but that and its descriptors; the
\* address being set is enabled only when the host has had its status packet.
AddressInv ==
    /\ UDADDR.enabled => UDADDR.address # 0
    /\ ~Served => ~UDADDR.enabled
    /\ (rxstp /\ Served) =>
          /\ host.request.bRequest = "SetAddress" => ~UDADDR.enabled
          /\ host.request.bRequest \notin {"SetAddress", "GetDescriptor"} => UDADDR.enabled
    /\ (Top.pc = "status" /\ Top.next = "wait_sent") =>
          /\ Top.wait = "in" /\ Top.local # 0 /\ UDADDR.address # 0 /\ ~UDADDR.enabled
          /\ host.phase = "status" => host.request.bRequest = "SetAddress"
    /\ Top.pc = "wait_sent" =>
          /\ Top.local # 0 /\ UDADDR.address # 0 /\ ~UDADDR.enabled
          /\ txin => host.phase = "idle" /\ ~rxstp /\ host.addr # 0
          /\ (~txin /\ ~rxstp) =>
                \/ host.phase = "idle"
                \/ host.phase = "status" /\ host.request.bRequest = "SetAddress"

\* SET_CONFIGURATION is carried out: the number is set, the state not yet.
Configuring == Top.pc = "configured" \/ (Top.pc = "status" /\ Top.next = "configured")

StateInv ==
    "EORSTI" \notin UDINT =>
        /\ USB_Device_ConfigurationNumber # 0 =>
              /\ UDADDR.enabled
              /\ USB_DeviceState \in {"Configured", "Unattached"} \/ Configuring
        /\ USB_DeviceState = "Addressed" => UDADDR.enabled
        /\ USB_DeviceState \in {"Powered", "Default"} => ~UDADDR.enabled

LEMMA TopSet ==
    ASSUME StackInv, NEW f, SetTop(f)
    PROVE  Top' = f
<1>1. stack \in Seq(Frames \cup {f}) /\ Len(stack) \in Nat \ {0}
  BY DEF StackInv
<1>2. Len(stack) \in 1..Len(stack)
  BY <1>1
<1>3. stack' = [stack EXCEPT ![Len(stack)] = f]
  BY DEF SetTop
<1>4. Len(stack') = Len(stack) /\ stack'[Len(stack)] = f
  BY <1>1, <1>2, <1>3, ExceptSeq
<1> QED
  BY <1>4 DEF Top

\* The steps that neither set nor enable an address, nor change the configuration.
Ordinary ==
    \/ MainLoop \/ USB_COM_vect \/ EnableRXSTPI \/ RestoreEndpoint
    \/ ReadHeader \/ Received \/ Unhandled \/ CheckSetup \/ StallSetup
    \/ ConfigureOUT \/ Inspect \/ Reallocate \/ ConfigureIN
    \/ GetConfiguration \/ GetStatus \/ EndpointStatus \/ Feature \/ Halt
    \/ GetDescriptor \/ StreamPacket \/ StreamDone \/ StreamEnd

LEMMA OrdinaryStep ==
    ASSUME ControlInv, TransferInv, cuts = 0, Ordinary
    PROVE  /\ Top.pc \notin {"status", "configured", "wait_sent"}
           /\ Top'.pc \notin {"configured", "wait_sent"}
           /\ Top'.pc = "status" => Top'.next = "check"
           /\ UNCHANGED <<UDADDR, host, UDINT, USB_DeviceState,
                          USB_Device_ConfigurationNumber>>
           /\ rxstp' => rxstp
<1>1. UNCHANGED <<UDADDR, host, UDINT, USB_DeviceState, USB_Device_ConfigurationNumber>>
  BY DEF Ordinary, MainLoop, DeviceTask, PollSetup, RestoreTask, ProcessOUT, ProcessIN,
     USB_COM_vect, EnableRXSTPI, RestoreEndpoint, ReadHeader, Received, Unhandled,
     CheckSetup, StallSetup, ConfigureOUT, Inspect, Reallocate, ConfigureIN, Allocate,
     GetConfiguration, GetStatus, EndpointStatus, WriteBytes, Feature, Halt,
     GetDescriptor, StreamPacket, Packet, StreamDone, StreamEnd,
     lufaVars, interruptVars, busVars
<1>2. rxstp' => rxstp
  BY DEF Ordinary, MainLoop, DeviceTask, PollSetup, RestoreTask, ProcessOUT, ProcessIN,
     USB_COM_vect, EnableRXSTPI, RestoreEndpoint, ReadHeader, Received, Unhandled,
     CheckSetup, StallSetup, ConfigureOUT, Inspect, Reallocate, ConfigureIN, Allocate,
     GetConfiguration, GetStatus, EndpointStatus, WriteBytes, Feature, Halt,
     GetDescriptor, StreamPacket, Packet, StreamDone, StreamEnd, ClearSETUP, ep0Vars
<1>3. StackInv /\ Top \in Frames
  BY TopFacts DEF ControlInv
<1>4. Top.pc \notin {"status", "configured", "wait_sent"}
  <2>1. CASE USB_COM_vect
    BY <2>1, EntryOrder, NobodyServed, Depth DEF TransferInv, Busy, LoopPlaces, LoopLabels
  <2>2. CASE ~USB_COM_vect
    BY <2>2 DEF Ordinary, MainLoop, DeviceTask, PollSetup, RestoreTask, ProcessOUT,
       ProcessIN, EnableRXSTPI, RestoreEndpoint, ReadHeader, Received, Unhandled,
       CheckSetup, StallSetup, ConfigureOUT, Inspect, Reallocate, ConfigureIN,
       GetConfiguration, GetStatus, EndpointStatus, Feature, Halt, GetDescriptor,
       StreamPacket, Packet, StreamDone, StreamEnd, Runs, Reads, Dispatched
  <2> QED
    BY <2>1, <2>2
<1> DEFINE Standing == {"status", "configured", "wait_sent"}
<1>5. \A l : Goto(l) => Top'.pc = l
  BY <1>3, TopSet DEF Goto, Frames, FrameFields
<1>6. \A l, e : SetTop(Frame(l, e)) => Top'.pc = l
  BY <1>3, TopSet DEF Frame
<1>7. CASE \/ MainLoop \/ EnableRXSTPI \/ ReadHeader \/ Received \/ Unhandled
           \/ CheckSetup \/ StallSetup \/ ConfigureOUT \/ Reallocate
           \/ StreamDone \/ StreamEnd
  <2>1. Top'.pc \notin Standing
    BY <1>5, <1>6, <1>7 DEF MainLoop, DeviceTask, PollSetup, RestoreTask, ProcessOUT,
       ProcessIN, EnableRXSTPI, ReadHeader, Received, Unhandled, CheckSetup, StallSetup,
       ConfigureOUT, Reallocate, StreamDone, StreamEnd, Finish
  <2> QED
    BY <1>1, <1>2, <1>4, <2>1
<1>8. CASE USB_COM_vect \/ RestoreEndpoint
  <2>1. Top'.pc \notin Standing
    BY <1>8, EntryOrder, ReturnOrder DEF TransferInv, LoopPlaces, LoopLabels
  <2> QED
    BY <1>1, <1>2, <1>4, <2>1
<1>9. CASE GetConfiguration \/ EndpointStatus \/ Halt
  <2>1. EnterStatus("check", 0)
    BY <1>9 DEF GetConfiguration, EndpointStatus, WriteBytes, Halt
  <2>2. Top'.pc = "status" /\ Top'.next = "check"
    BY <1>3, <2>1, TopSet DEF EnterStatus, Frames, FrameFields
  <2> QED
    BY <1>1, <1>2, <1>4, <2>2
<1>10. CASE \/ GetDescriptor \/ StreamPacket \/ Feature \/ GetStatus
            \/ Inspect \/ ConfigureIN
  <2>1. CASE GetDescriptor
    BY <1>1, <1>2, <1>3, <1>4, <2>1, TopSet DEF GetDescriptor, Frames, FrameFields
  <2>2. CASE StreamPacket
    BY <1>1, <1>2, <1>3, <1>4, <2>2, TopSet
       DEF StreamPacket, Packet, Runs, Frames, FrameFields
  <2>3. CASE Feature \/ GetStatus
    BY <1>1, <1>2, <1>3, <1>4, <2>3, TopSet DEF Feature, GetStatus, Frames, FrameFields
  <2>4. CASE Inspect
    BY <1>1, <1>2, <1>3, <1>4, <2>4, TopSet DEF Inspect, Frames, FrameFields
  <2>5. CASE ConfigureIN
    BY <1>1, <1>2, <1>3, <1>4, <2>5, TopSet DEF ConfigureIN, Frame
  <2> QED
    BY <1>10, <2>1, <2>2, <2>3, <2>4, <2>5
<1> QED
  BY <1>7, <1>8, <1>9, <1>10 DEF Ordinary

LEMMA AddressFrame ==
    ASSUME AddressInv, UNCHANGED <<UDADDR, host>>, rxstp' => rxstp,
           Top'.pc # "wait_sent",
           Top'.pc = "status" => Top'.next # "wait_sent"
    PROVE  AddressInv'
BY DEF AddressInv, Served

LEMMA StateFrame ==
    ASSUME StateInv, UNCHANGED <<UDADDR, USB_DeviceState, USB_Device_ConfigurationNumber>>,
           "EORSTI" \in UDINT' <=> "EORSTI" \in UDINT,
           Configuring => Configuring'
    PROVE  StateInv'
BY DEF StateInv

LEMMA OrdinaryState ==
    ASSUME ControlInv, TransferInv, AddressInv, StateInv, cuts = 0, Ordinary
    PROVE  AddressInv' /\ StateInv'
<1>1. ~Configuring
  BY OrdinaryStep DEF Configuring
<1>2. StateInv'
  BY <1>1, OrdinaryStep, StateFrame
<1>3. AddressInv'
  <2>1. Top'.pc # "wait_sent" /\ (Top'.pc = "status" => Top'.next # "wait_sent")
        /\ UNCHANGED <<UDADDR, host>> /\ (rxstp' => rxstp)
    BY OrdinaryStep
  <2> QED
    BY <2>1, AddressFrame
<1> QED
  BY <1>2, <1>3

\* The three requests that change the address or the configuration.
LEMMA SetAddressState ==
    ASSUME UsbInv, TransferInv, AddressInv, StateInv, SetAddress
    PROVE  AddressInv' /\ StateInv'
<1> USE DEF lufaVars, interruptVars, busVars, historyVars
<1>1. Top.pc = "switch" /\ USB_ControlRequest.bRequest = "SetAddress"
      /\ EnterStatus("wait_sent", USB_ControlRequest.wValue) /\ ~rxstp'
      /\ UDADDR' = [UDADDR EXCEPT !.address = USB_ControlRequest.wValue]
      /\ UNCHANGED <<host, UDINT, USB_DeviceState, USB_Device_ConfigurationNumber>>
  BY DEF SetAddress, Dispatched, Runs, ClearSETUP
<1>2. /\ rxstp /\ Served /\ USB_ControlRequest = host.request
  BY <1>1, DispatchFacts DEF UsbInv
<1>3. USB_ControlRequest \in Requests /\ USB_ControlRequest.wValue # 0
      /\ USB_ControlRequest.wValue \in Nat
  <2>1. USB_ControlRequest \in Requests
    BY <1>1 DEF UsbInv, LufaTypes, NoRequest
  <2>2. USB_ControlRequest.wValue \in 1..127
    BY <1>1, <2>1, AddressAssumption
  <2> QED
    BY <2>1, <2>2
<1>4. ~UDADDR.enabled
  BY <1>1, <1>2 DEF AddressInv
<1>5. UDADDR'.address = USB_ControlRequest.wValue /\ UDADDR'.enabled = UDADDR.enabled
  BY <1>1 DEF UsbInv, LufaTypes
<1>6. Top'.pc = "status" /\ Top'.wait = "in" /\ Top'.local # 0
  <2>1. Top \in Frames /\ StackInv
    BY TopFacts DEF UsbInv, ControlInv
  <2>2. ~ToHost(USB_ControlRequest)
    BY <1>1 DEF ToHost
  <2>3. Top' = [Top EXCEPT !.pc = "status", !.next = "wait_sent",
                           !.local = USB_ControlRequest.wValue, !.wait = "in"]
    BY <1>1, <2>1, <2>2, TopSet DEF EnterStatus
  <2> QED
    BY <1>3, <2>1, <2>3 DEF Frames, FrameFields
<1>7. AddressInv'
  BY <1>1, <1>2, <1>3, <1>4, <1>5, <1>6 DEF AddressInv, Served
<1>8. StateInv'
  <2>1. ~Configuring
    BY <1>1 DEF Configuring
  <2> QED
    BY <1>1, <1>4, <1>5, <2>1 DEF StateInv
<1> QED
  BY <1>7, <1>8

LEMMA EnableAddressState ==
    ASSUME UsbInv, TransferInv, AddressInv, StateInv, EnableAddress
    PROVE  AddressInv' /\ StateInv'
<1>1. Top.pc = "wait_sent" /\ txin /\ ~BusPending
  BY DEF EnableAddress, Runs
<1>2. UNCHANGED <<host, rxstp, UDINT, USB_Device_ConfigurationNumber>>
  BY DEF EnableAddress, interruptVars, busVars, ep0Vars
<1>3. Served
  <2>1. Busy
    BY <1>1, NobodyServed DEF UsbInv
  <2> QED
    BY <2>1 DEF TransferInv, TurnInv
<1>4. Top.local # 0 /\ UDADDR.address # 0 /\ ~UDADDR.enabled /\ ~rxstp
  BY <1>1 DEF AddressInv
<1>5. "EORSTI" \notin UDINT
  BY <1>1 DEF UsbInv, ControlInv, BusInv, BusPending
<1>6. UDADDR'.enabled /\ UDADDR'.address # 0
  <2>1. UDADDR' = [UDADDR EXCEPT !.enabled = TRUE]
    BY DEF EnableAddress
  <2> QED
    BY <1>4, <2>1 DEF UsbInv, LufaTypes
<1>7. USB_DeviceState' = "Addressed"
  BY <1>4 DEF EnableAddress
<1>8. Top'.pc = "check"
  <2>1. SetTop(Frame("check", Top.prev)) /\ StackInv
    BY DEF EnableAddress, Finish, UsbInv, ControlInv
  <2>2. Top' = Frame("check", Top.prev)
    BY <2>1, TopSet
  <2> QED
    BY <2>2 DEF Frame
<1>9. AddressInv'
  BY <1>2, <1>3, <1>4, <1>6, <1>8 DEF AddressInv, Served
<1>10. USB_Device_ConfigurationNumber = 0
  BY <1>4, <1>5 DEF StateInv
<1>11. StateInv'
  BY <1>2, <1>6, <1>7, <1>10 DEF StateInv
<1> QED
  BY <1>9, <1>11

LEMMA ConfigurationState ==
    ASSUME UsbInv, TransferInv, AddressInv, StateInv, SetConfiguration \/ Configured
    PROVE  AddressInv' /\ StateInv'
<1> USE DEF lufaVars, interruptVars, busVars, historyVars, ep0Vars
<1>1. Top \in Frames /\ StackInv
  BY TopFacts DEF UsbInv, ControlInv
<1>2. UNCHANGED <<UDADDR, host, UDINT>> /\ (rxstp' => rxstp)
  BY DEF SetConfiguration, Configured, ClearSETUP
<1>3. CASE SetConfiguration
  <2>1. Top.pc = "switch" /\ USB_ControlRequest.bRequest = "SetConfiguration"
        /\ EnterStatus("configured", 0) /\ UNCHANGED USB_DeviceState
    BY <1>3 DEF SetConfiguration, Dispatched, Runs
  <2>2. rxstp /\ Served /\ USB_ControlRequest = host.request
    BY <2>1, DispatchFacts DEF UsbInv
  <2>3. UDADDR.enabled
    BY <2>1, <2>2 DEF AddressInv
  <2>4. Top'.pc = "status" /\ Top'.next = "configured"
    BY <1>1, <2>1, TopSet DEF EnterStatus, Frames, FrameFields
  <2>5. AddressInv'
    BY <1>2, <2>4, AddressFrame
  <2>6. StateInv'
    BY <1>2, <2>1, <2>3, <2>4 DEF StateInv, Configuring
  <2> QED
    BY <2>5, <2>6
<1>4. CASE Configured
  <2>1. Goto("configure_out") /\ UNCHANGED USB_Device_ConfigurationNumber
        /\ USB_DeviceState' =
              IF USB_Device_ConfigurationNumber # 0 \/ UDADDR.enabled
              THEN "Configured" ELSE "Powered"
    BY <1>4 DEF Configured
  <2>2. Top'.pc = "configure_out"
    BY <1>1, <2>1, TopSet DEF Goto, Frames, FrameFields
  <2>3. AddressInv'
    BY <1>2, <2>2, AddressFrame
  <2>4. StateInv'
    BY <1>2, <2>1 DEF StateInv
  <2> QED
    BY <2>3, <2>4
<1> QED
  BY <1>3, <1>4

\* The status stage: the address is enabled, or the configuration set up, after it.
LEMMA StatusState ==
    ASSUME UsbInv, TransferInv, AddressInv, StateInv,
           StatusSent \/ StatusReceived \/ StatusLeft
    PROVE  AddressInv' /\ StateInv'
<1> USE DEF lufaVars, interruptVars, busVars, historyVars, ep0Vars
<1>1. Top \in Frames /\ StackInv
  BY TopFacts DEF UsbInv, ControlInv
<1>2. Top.pc = "status" /\ Leave
      /\ UNCHANGED <<UDADDR, host, UDINT, USB_DeviceState, USB_Device_ConfigurationNumber,
                     rxstp>>
  BY DEF StatusSent, StatusReceived, StatusLeft, Runs
<1>3. Top'.pc = Top.next /\ Top'.local = Top.local
      /\ Top.next \in {"check", "configured", "wait_sent"}
  BY <1>1, <1>2, TopSet DEF Leave, Frame, Frames, FrameFields
<1>4. StateInv'
  BY <1>2, <1>3, StateFrame DEF Configuring
<1>5. CASE Top.next # "wait_sent"
  <2>1. Top'.pc # "wait_sent" /\ Top'.pc # "status"
    BY <1>3, <1>5
  <2>2. AddressInv'
    BY <1>2, <2>1, AddressFrame
  <2> QED
    BY <1>4, <2>2
<1>6. CASE Top.next = "wait_sent"
  <2>1. Top.wait = "in" /\ Top.local # 0 /\ UDADDR.address # 0 /\ ~UDADDR.enabled
        /\ (host.phase = "status" => host.request.bRequest = "SetAddress")
    BY <1>2, <1>6 DEF AddressInv
  <2>2. txin /\ ~rxstp
        /\ (host.phase = "status" \/ host.phase = "idle")
    BY <1>2, <2>1 DEF TransferInv, HandlerInv
  <2>3. ~txin'
    BY <2>1, <2>2 DEF StatusSent, StatusReceived, StatusLeft
  <2> QED
    BY <1>2, <1>3, <1>4, <1>6, <2>1, <2>2, <2>3 DEF AddressInv, Served
<1> QED
  BY <1>4, <1>5, <1>6

\* A bus interrupt.
LEMMA BusInterruptState ==
    ASSUME UsbInv, TransferInv, AddressInv, StateInv, USB_GEN_vect
    PROVE  AddressInv' /\ StateInv'
<1>1. UNCHANGED <<UDADDR, stack, host>> /\ (rxstp' => rxstp)
  BY DEF USB_GEN_vect, busVars, ep0Vars, ConfigureControl
<1>2. Top' = Top
  BY <1>1 DEF Top
<1>3. CASE "EORSTI" \in UDINT
  <2>1. ~Served /\ ~Busy
    BY <1>3 DEF TransferInv, TurnInv
  <2>2. Top.pc \notin {"status", "wait_sent"}
    BY <2>1, NobodyServed DEF UsbInv
  <2>3. USB_Device_ConfigurationNumber' = 0 /\ USB_DeviceState' = "Default"
    BY <1>3 DEF USB_GEN_vect
  <2>4. ~UDADDR.enabled
    BY <2>1 DEF AddressInv
  <2>5. AddressInv'
    BY <1>1, <1>2, <2>2, AddressFrame
  <2>6. StateInv'
    BY <1>1, <2>3, <2>4 DEF StateInv
  <2> QED
    BY <2>5, <2>6
<1>4. CASE "EORSTI" \notin UDINT
  <2>1. /\ UNCHANGED <<USB_Device_ConfigurationNumber, rxstp, txin>>
        /\ \/ USB_DeviceState' = "Unattached"
           \/ USB_DeviceState' = IF USB_Device_ConfigurationNumber # 0 THEN "Configured"
                                 ELSE IF UDADDR.enabled THEN "Addressed" ELSE "Powered"
    <3>1. UNCHANGED <<USB_Device_ConfigurationNumber, endpointVars, ep0Vars>>
      BY <1>4 DEF USB_GEN_vect
    <3>2. \/ USB_DeviceState' = "Unattached"
          \/ USB_DeviceState' = IF USB_Device_ConfigurationNumber # 0 THEN "Configured"
                                ELSE IF UDADDR.enabled THEN "Addressed" ELSE "Powered"
      BY <1>4 DEF USB_GEN_vect
    <3> QED
      BY <3>1, <3>2 DEF ep0Vars
  <2>2. AddressInv'
    BY <1>1, <1>2, <2>1 DEF AddressInv, Served
  <2>3. StateInv'
    BY <1>1, <1>2, <1>4, <2>1 DEF StateInv
  <2> QED
    BY <2>2, <2>3
<1> QED
  BY <1>3, <1>4

\* What the host does to its transfer.
LEMMA HostState ==
    ASSUME UsbInv, TransferInv, AddressInv, StateInv, cuts = 0, cuts' = 0, Host
    PROVE  AddressInv' /\ StateInv'
<1>1. UNCHANGED <<stack, USB_DeviceState, USB_Device_ConfigurationNumber>>
  BY HostFrame
<1>2. Top' = Top /\ (Configuring' <=> Configuring)
  BY <1>1 DEF Top, Configuring
<1>3. host \in [phase : Phases, request : Requests \cup {NoRequest}, addr : Nat, left : Int]
  BY DEF UsbInv, LufaTypes
<1>4. ASSUME UNCHANGED UDADDR, "EORSTI" \in UDINT' <=> "EORSTI" \in UDINT
      PROVE  StateInv'
  BY <1>1, <1>2, <1>4, StateFrame
<1>5. CASE HostSetup
  <2>1. /\ host.phase = "idle" /\ bus = "active" /\ rxstp' /\ UNCHANGED <<UDADDR, UDINT, txin>>
        /\ host.addr = AnswerAddress
    BY <1>5 DEF HostSetup, Addressable, interruptVars
  <2>2. PICK r \in Requests :
           /\ IF host.addr = 0 THEN r.bRequest \in {"SetAddress", "GetDescriptor"}
                               ELSE r.bRequest # "SetAddress"
           /\ host' = [host EXCEPT !.phase = IF ToHost(r) THEN "data" ELSE "status",
                                   !.request = r, !.left = r.wLength]
    BY <1>5 DEF HostSetup
  <2>3. host'.request = r /\ host'.phase \in {"data", "status"} /\ host'.addr = host.addr
    BY <1>3, <2>2
  <2>4. UDADDR.enabled <=> host.addr # 0
    BY <2>1 DEF AddressInv, AnswerAddress
  <2>5. ~(Top.pc = "status" /\ Top.next = "wait_sent")
    <3>1. (Top.pc = "status" /\ Top.next = "wait_sent") => Top.wait = "in"
      BY DEF AddressInv
    <3> QED
      BY <2>1, <3>1 DEF TransferInv, HandlerInv
  <2>6. Top.pc = "wait_sent" => ~txin /\ Top.local # 0 /\ UDADDR.address # 0 /\ ~UDADDR.enabled
    BY <2>4 DEF AddressInv
  <2>7. AddressInv'
    BY <1>2, <2>1, <2>2, <2>3, <2>4, <2>5, <2>6 DEF AddressInv, Served
  <2> QED
    BY <1>4, <2>1, <2>7
<1>6. CASE HostIN
  <2>1. /\ host.phase \in {"data", "status"} /\ ~txin /\ ~rxstp /\ txin' /\ ~rxstp'
        /\ UNCHANGED <<UDADDR, UDINT>>
    BY <1>6 DEF HostIN
  <2>2. ~(Top.pc = "status" /\ Top.next = "wait_sent")
    <3>1. (Top.pc = "status" /\ Top.next = "wait_sent") => Top.wait = "in"
      BY DEF AddressInv
    <3> QED
      BY <2>1, <3>1 DEF TransferInv, HandlerInv
  <2>3. Top.pc = "wait_sent" =>
           /\ host.phase = "status" /\ host.request.bRequest = "SetAddress"
           /\ Top.local # 0 /\ UDADDR.address # 0 /\ ~UDADDR.enabled
    BY <2>1 DEF AddressInv
  <2>4. Top.pc = "wait_sent" => host'.phase = "idle" /\ host'.addr # 0
    <3> SUFFICES ASSUME Top.pc = "wait_sent" PROVE host'.phase = "idle" /\ host'.addr # 0
      OBVIOUS
    <3>1. host' = Idle(host.request.wValue)
      BY <1>6, <2>3 DEF HostIN
    <3>2. host.request \in Requests
      BY <1>3, <2>3 DEF NoRequest
    <3>3. host.request.wValue \in 1..127
      BY <2>3, <3>2, AddressAssumption
    <3>4. host.request.wValue # 0
      BY <3>3
    <3> QED
      BY <3>1, <3>4 DEF Idle
  <2>5. host'.phase \notin {"unknown", "recovery"}
    <3> DEFINE left == host.left - Smaller(host.left, bank.length)
               next == IF left = 0 \/ bank.length < ControlSize
                       THEN "acknowledge" ELSE host.phase
    <3>1. CASE host.phase = "status"
      <4>1. PICK a : host' = Idle(a)
        BY <1>6, <3>1 DEF HostIN
      <4> QED
        BY <4>1 DEF Idle
    <3>2. CASE host.phase # "status"
      <4>1. host' = [host EXCEPT !.phase = next, !.left = left]
        BY <1>6, <3>2 DEF HostIN
      <4>2. next \in {"acknowledge", "data"}
        BY <2>1, <3>2
      <4> HIDE DEF next, left
      <4>3. host'.phase = next
        BY <1>3, <4>1
      <4> QED
        BY <4>2, <4>3
    <3> QED
      BY <3>1, <3>2
  <2>6. AddressInv'
    BY <1>2, <2>1, <2>2, <2>3, <2>4, <2>5 DEF AddressInv, Served
  <2> QED
    BY <1>4, <2>1, <2>6
<1>7. CASE HostOUT \/ HostStalled \/ HostAbort
  <2>1. /\ host.phase \notin {"unknown", "recovery", "idle"} /\ UNCHANGED <<UDADDR, UDINT, rxstp, txin>>
        /\ \/ host' = [host EXCEPT !.phase = "idle", !.left = 0]
           \/ host.phase = "acknowledge" /\ host' = Idle(host.addr)
           \/ ControlEp \in stalled /\ host' = Idle(host.addr)
    <3>1. CASE HostOUT
      BY <3>1 DEF HostOUT
    <3>2. CASE HostStalled
      BY <3>2 DEF HostStalled, ep0Vars
    <3>3. CASE HostAbort
      BY <3>3 DEF HostAbort, ep0Vars
    <3> QED
      BY <1>7, <3>1, <3>2, <3>3
  <2>2. host'.phase = "idle"
    <3>1. [host EXCEPT !.phase = "idle", !.left = 0].phase = "idle"
      BY <1>3
    <3>2. \A a : Idle(a).phase = "idle"
      BY DEF Idle
    <3> QED
      BY <2>1, <3>1, <3>2
  <2>3. rxstp => host'.request = host.request
    BY <1>3, <2>1 DEF TransferInv, SetupInv, Served
  <2>4. Top.pc = "wait_sent" => ~txin
    BY <2>1 DEF AddressInv
  <2>5. AddressInv'
    BY <1>2, <2>1, <2>2, <2>3, <2>4 DEF AddressInv, Served
  <2> QED
    BY <1>4, <2>1, <2>5
<1>8. CASE HostRecovered
  <2>1. host.phase = "recovery" /\ host' = Idle(0) /\ ~BusPending
        /\ UNCHANGED <<UDADDR, UDINT, rxstp>>
    BY <1>8 DEF HostRecovered, Waiting, ep0Vars
  <2>2. ~Served /\ ~Busy
    BY <2>1 DEF Served, TransferInv, TurnInv
  <2>3. Top.pc \notin {"status", "wait_sent"}
    BY <2>2, NobodyServed DEF UsbInv
  <2>4. ~rxstp
    BY <2>1, <2>2 DEF TransferInv, TurnInv, UsbInv, ControlInv, BusInv, BusPending
  <2>5. AddressInv'
    BY <1>2, <2>1, <2>2, <2>3, <2>4 DEF AddressInv
  <2> QED
    BY <1>4, <2>1, <2>5
<1>9. CASE BusSuspend \/ BusResume
  <2>1. UNCHANGED <<UDADDR, host, rxstp, txin>>
        /\ ("EORSTI" \in UDINT' <=> "EORSTI" \in UDINT)
    BY <1>9 DEF BusSuspend, BusResume, ep0Vars
  <2>2. AddressInv'
    BY <1>2, <2>1 DEF AddressInv, Served
  <2> QED
    BY <1>4, <2>1, <2>2
<1>10. CASE BusReset
  <2>1. /\ UDADDR' = [address |-> 0, enabled |-> FALSE]
        /\ host'.phase = "recovery" /\ "EORSTI" \in UDINT'
    BY <1>10 DEF BusReset, Idle
  <2>2. ~Handling
    BY <1>10 DEF BusReset, UsbInv, CountersInv
  <2>3. Top.pc \notin {"status", "wait_sent"}
    BY <2>2, Places, NobodyServed DEF UsbInv, TransferInv
  <2>4. AddressInv'
    BY <1>2, <2>1, <2>3 DEF AddressInv, Served
  <2>5. StateInv'
    BY <2>1 DEF StateInv
  <2> QED
    BY <2>4, <2>5
<1> QED
  BY <1>5, <1>6, <1>7, <1>8, <1>9, <1>10 DEF Host, Transfer

LEMMA StateKept ==
    ASSUME UsbInv, TransferInv, AddressInv, StateInv, cuts = 0, cuts' = 0, Next
    PROVE  AddressInv' /\ StateInv'
<1>1. ControlInv
  BY DEF UsbInv
<1>2. CASE Ordinary
  BY <1>1, <1>2, OrdinaryState
<1>3. CASE \/ USB_GEN_vect \/ SetAddress \/ EnableAddress \/ SetConfiguration
           \/ Configured \/ StatusSent \/ StatusReceived \/ StatusLeft
  BY <1>3, BusInterruptState, SetAddressState, EnableAddressState, ConfigurationState,
     StatusState
<1>4. CASE Host
  BY <1>4, HostState
<1> QED
  BY <1>2, <1>3, <1>4 DEF Next, Device, Interrupt, ControlRequest, Ordinary

LEMMA StateInit ==
    Init => AddressInv /\ StateInv
<1> SUFFICES ASSUME Init PROVE AddressInv /\ StateInv
  OBVIOUS
<1>1. Top.pc = "task"
  <2>1. stack = <<Frame("task", 0)>> /\ Frame("task", 0).pc = "task"
    BY DEF Init, Frame
  <2> QED
    BY <2>1 DEF Top
<1>2. host.phase = "unknown" /\ ~UDADDR.enabled
  BY DEF Init, Idle
<1>3. AddressInv
  BY <1>1, <1>2 DEF AddressInv, Served
<1>4. StateInv
  BY <1>2 DEF StateInv, Init
<1> QED
  BY <1>3, <1>4

LEMMA StateStutter ==
    ASSUME AddressInv, StateInv, UNCHANGED vars
    PROVE  AddressInv' /\ StateInv'
<1> USE DEF vars, lufaVars, ep0Vars, interruptVars, busVars, historyVars
<1>1. Top' = Top /\ (Configuring' <=> Configuring)
  BY DEF Top, Configuring
<1>2. AddressInv'
  BY <1>1 DEF AddressInv, Served
<1>3. StateInv'
  BY <1>1 DEF StateInv
<1> QED
  BY <1>2, <1>3

\* The inductive invariant of the address, the configuration and the state.
StandingInv == UsbInv /\ (Undisturbed => TransferInv /\ AddressInv /\ StateInv)

THEOREM StandingInvariant == Spec => []StandingInv
<1>1. Init => StandingInv
  BY UsbInvInit, TransferInit, StateInit DEF StandingInv
<1>2. StandingInv /\ [Next]_vars => StandingInv'
  <2> SUFFICES ASSUME StandingInv, [Next]_vars PROVE StandingInv'
    OBVIOUS
  <2>1. UsbInv'
    BY UsbInvKept DEF StandingInv
  <2>2. ASSUME Undisturbed' PROVE TransferInv' /\ AddressInv' /\ StateInv'
    <3>1. CASE UNCHANGED vars
      <4>1. UNCHANGED <<cuts, overtaken>>
        BY <3>1 DEF vars, busVars, historyVars
      <4>2. Undisturbed
        BY <2>2, <4>1 DEF Undisturbed
      <4> QED
        BY <3>1, <4>2, TransferStutter, StateStutter DEF StandingInv
    <3>2. CASE Next
      <4>1. Undisturbed /\ cuts = 0 /\ cuts' = 0 /\ ~overtaken'
        BY <2>2, <3>2, UndisturbedKept DEF StandingInv, UsbInv, Undisturbed
      <4> QED
        BY <3>2, <4>1, TransferKept, StateKept DEF StandingInv
    <3> QED
      BY <3>1, <3>2
  <2> QED
    BY <2>1, <2>2 DEF StandingInv
<1> QED
  BY <1>1, <1>2, PTL DEF Spec

\* Whatever resets, suspends and wake-ups the bus has seen, between requests the
\* state agrees with the registers a wake-up computes it from: SET_CONFIGURATION
\* is carried out at an enabled address only, and SET_ADDRESS without a
\* configuration (USBInterrupt_AVR8.c:160-170, DeviceStandardReq.c:125-145).  A
\* reset or a poll that has disturbed a request (Undisturbed) is excepted.
THEOREM StateTrue == Spec => []StateMatchesRegisters
<1>1. StandingInv => StateMatchesRegisters
  <2> SUFFICES ASSUME StandingInv, ~Handling, ~BusPending, Undisturbed
               PROVE  StateMatchesRegisters
    BY DEF StateMatchesRegisters
  <2>1. ControlInv /\ TransferInv /\ StateInv
    BY DEF StandingInv, UsbInv
  <2>2. "EORSTI" \notin UDINT
    BY <2>1 DEF ControlInv, BusInv, BusPending
  <2>3. ~Configuring
    <3>1. ~Busy /\ (Top.pc \in LoopPlaces \/ Top.pc = "return")
      BY <2>1, Places, Depth DEF TransferInv, Busy, Undisturbed
    <3> QED
      BY <3>1 DEF Configuring, LoopPlaces, LoopLabels
  <2> QED
    BY <2>1, <2>2, <2>3 DEF StateInv, StateMatchesRegisters
<1> QED
  BY <1>1, StandingInvariant, PTL

\* The device answers at another address only from the moment the host has had
\* the status packet of its SET_ADDRESS, or after a reset: the wait of
\* DeviceStandardReq.c:138 cannot end with another request's packet unless a reset
\* or a poll has disturbed a request (Undisturbed).
THEOREM AddressStays == Spec => AddressKept
<1> DEFINE Kept == AnswerAddress' # AnswerAddress /\ Undisturbed =>
                       host'.phase = "recovery" \/ host.phase = "idle"
<1>1. StandingInv /\ [Next]_vars => [Kept]_vars
  <2> SUFFICES ASSUME StandingInv, Next, AnswerAddress' # AnswerAddress, Undisturbed
               PROVE  host'.phase = "recovery" \/ host.phase = "idle"
    BY DEF AnswerAddress
  <2>1. UsbInv /\ TransferInv /\ AddressInv
    BY DEF StandingInv
  <2>2. UDADDR' # UDADDR
    BY DEF AnswerAddress
  <2>3. SetAddress \/ EnableAddress \/ BusReset
    BY <2>2 DEF Next, Device, Interrupt, MainLoop, ControlRequest, Host, Transfer,
       USB_GEN_vect, USB_COM_vect, DeviceTask, PollSetup, RestoreTask, ProcessOUT,
       ProcessIN, ReadHeader, Received, Unhandled, CheckSetup, StallSetup,
       SetConfiguration, Configured, ConfigureOUT, Inspect, Reallocate, ConfigureIN,
       Allocate, GetConfiguration, GetStatus, EndpointStatus, WriteBytes, Feature, Halt,
       GetDescriptor, StreamPacket, Packet, StreamDone, StreamEnd, StatusSent,
       StatusReceived, StatusLeft, EnableRXSTPI, RestoreEndpoint, HostSetup, HostIN,
       HostOUT, HostStalled, HostRecovered, HostAbort, BusSuspend, BusResume
  <2>4. CASE SetAddress
    <3>1. Top.pc = "switch" /\ USB_ControlRequest.bRequest = "SetAddress"
          /\ UDADDR' = [UDADDR EXCEPT !.address = USB_ControlRequest.wValue]
      BY <2>4 DEF SetAddress, Dispatched, Runs
    <3>2. rxstp /\ Served /\ USB_ControlRequest = host.request
      BY <2>1, <3>1, DispatchFacts DEF UsbInv
    <3>3. ~UDADDR.enabled
      BY <2>1, <3>1, <3>2 DEF AddressInv
    <3>4. UDADDR'.enabled = UDADDR.enabled
      BY <2>1, <3>1 DEF UsbInv, LufaTypes
    <3> QED
      BY <3>3, <3>4 DEF AnswerAddress
  <2>5. CASE EnableAddress
    BY <2>1, <2>5 DEF EnableAddress, Runs, AddressInv
  <2>6. CASE BusReset
    BY <2>6 DEF BusReset, Idle
  <2> QED
    BY <2>3, <2>4, <2>5, <2>6
<1> QED
  BY <1>1, StandingInvariant, PTL DEF Spec, AddressKept
=============================================================================
