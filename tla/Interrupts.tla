------------------------------- MODULE Interrupts -------------------------------
(******************************************************************************)
(* The way of an interrupt: the interrupt controller (i8259.c), the gates and *)
(* the dispatch (idt.c, isr.c, isr_asm.asm, irq.c), and the order in which    *)
(* the kernel's start sets them up and unmasks the timer and the keyboard     *)
(* (hal.c, main.c, timer.c).  Devices run on at any time.  The controller is  *)
(* external, and of the pair only the first is at work: the lines of the      *)
(* second stay masked.                                                        *)
(******************************************************************************)
EXTENDS Keyboard

CONSTANTS
    BIOS_BASE,          \* the vectors the BIOS has given to IRQ 0..7
    PIC_REMAP_OFFSET    \* the vectors the kernel gives to them

ASSUME InterruptsAssumption == BIOS_BASE \in 0 .. 248 /\ PIC_REMAP_OFFSET \in 0 .. 248

VARIABLES
    pc,                 \* where the kernel's start is
    IF_FLAG,            \* interrupts are enabled
    has_pic,            \* the machine has a controller
    g_Driver,           \* it is known to the kernel
    absent,             \* interrupts whose gate is not present
    g_ISRHandlers,      \* interrupts that IRQ_Handler is registered for
    g_IRQHandlers,      \* the handler of each line
    g_PicMask,
    pic,                \* the controller: its mask, first vector, requests,
                        \* interrupts in service, and a request that was withdrawn
    timer,              \* the level of the timer's line
    frames,             \* interrupts being handled, the innermost first
    unhandled,          \* lines whose interrupt found no handler
    stuck               \* a byte was waiting when the controller was reset

startVars == <<g_Driver, absent, g_ISRHandlers, g_IRQHandlers, g_PicMask>>
vars == <<keyboardVars, pc, IF_FLAG, has_pic, startVars, pic, timer, frames, unhandled, stuck>>

Line == 0 .. 7

Init ==
    /\ KeyboardInit
    /\ pc = "gates"
    /\ IF_FLAG = FALSE
    /\ has_pic \in BOOLEAN
    /\ g_Driver = FALSE
    /\ absent = 0 .. 255 /\ g_ISRHandlers = {}
    /\ g_IRQHandlers = [i \in Line |-> "NULL"]
    /\ g_PicMask = Line
    /\ pic = [mask |-> Line, base |-> BIOS_BASE, requests |-> {}, service |-> {},
              withdrawn |-> FALSE]
    /\ timer = FALSE
    /\ frames = <<>> /\ unhandled = {}
    /\ stuck = FALSE

--------------------------------------------------------------------------------
(* The devices and the controller.                                            *)

\* A line that rises is latched; one that falls takes its request back, which
\* the controller may have passed on already.
Rises(irq) == pic' = [pic EXCEPT !.requests = @ \cup {irq}]

Falls(irq) ==
    \E late \in {FALSE, (irq \in pic.requests \ pic.mask)} :
        pic' = [pic EXCEPT !.requests = @ \ {irq}, !.withdrawn = @ \/ late]

\* The timer's line is high for half of its period.  The period, 10 ms, is longer
\* than what its interrupt takes.
TimerTurns ==
    /\ timer' = ~timer
    /\ IF timer THEN Falls(0) ELSE Rises(0) /\ \A i \in DOMAIN frames : frames[i].irq # 0
    /\ UNCHANGED <<keyboardVars, pc, IF_FLAG, has_pic, startVars, frames, unhandled, stuck>>

Press ==
    /\ \E key \in Keys, press \in BOOLEAN : Stroke(key, press)
    /\ UNCHANGED <<pc, IF_FLAG, has_pic, startVars, pic, timer, frames, unhandled, stuck>>

\* The next byte comes to the port when that was read; the line is high until
\* it is read.
ByteArrives ==
    /\ ~port.full /\ fifo # <<>>
    /\ port' = [code |-> Head(fifo).code, meant |-> Head(fifo).meant, full |-> TRUE]
    /\ fifo' = Tail(fifo)
    /\ Rises(1)
    /\ UNCHANGED <<down, caps, decodeVars, pc, IF_FLAG, has_pic, startVars, timer,
                   frames, unhandled, stuck>>

\* Requests that the processor is shown: the first line of those that are not
\* masked, if none before it is in service.
Shown ==
    {i \in pic.requests \ pic.mask :
        /\ \A j \in pic.requests \ pic.mask : i <= j
        /\ \A j \in pic.service : i < j}

--------------------------------------------------------------------------------
(* The start of the kernel, with interrupts disabled up to EnableInterrupts.  *)

Rest == UNCHANGED <<keyboardVars, has_pic, timer, frames, unhandled>>

Step(here, there) == frames = <<>> /\ pc = here /\ pc' = there

\* Every gate but that of 0x80.
i686_ISR_Initialize ==
    /\ Step("gates", "probe")
    /\ absent' = {128}
    /\ UNCHANGED <<IF_FLAG, g_Driver, g_ISRHandlers, g_IRQHandlers, g_PicMask, pic, stuck>>
    /\ Rest

\* The mask 0x1337 (here its lower half) is written and read back.
i8259_Probe ==
    /\ Step("probe", IF has_pic THEN "configure" ELSE "timer")
    /\ g_Driver' = has_pic
    /\ g_PicMask' = {0, 1, 2, 4, 5}
    /\ pic' = [pic EXCEPT !.mask = g_PicMask']
    /\ UNCHANGED <<IF_FLAG, absent, g_ISRHandlers, g_IRQHandlers, stuck>>
    /\ Rest

\* The first command word: the controller forgets its mask and all requests,
\* and a line has to rise again.
ConfigureResets ==
    /\ Step("configure", "words")
    /\ g_PicMask' = Line
    /\ pic' = [pic EXCEPT !.mask = {}, !.requests = {}, !.service = {}, !.withdrawn = FALSE]
    /\ stuck' = port.full
    /\ UNCHANGED <<IF_FLAG, g_Driver, absent, g_ISRHandlers, g_IRQHandlers>>
    /\ Rest

\* A mutant of ConfigureEnds: the vectors stay those of the BIOS.
ConfigureEnds_SameVectors ==
    /\ Step("words", "register")
    /\ g_PicMask' = Line
    /\ pic' = [pic EXCEPT !.mask = Line]
    /\ UNCHANGED <<IF_FLAG, g_Driver, absent, g_ISRHandlers, g_IRQHandlers, stuck>>
    /\ Rest

\* The other words: the vectors; then everything is masked.
ConfigureEnds ==
    /\ Step("words", "register")
    /\ g_PicMask' = Line
    /\ pic' = [pic EXCEPT !.mask = Line, !.base = PIC_REMAP_OFFSET]
    /\ UNCHANGED <<IF_FLAG, g_Driver, absent, g_ISRHandlers, g_IRQHandlers, stuck>>
    /\ Rest

i686_ISR_RegisterHandler ==
    /\ Step("register", "enable")
    /\ g_ISRHandlers' = {PIC_REMAP_OFFSET + i : i \in Line}
    /\ absent' = absent \ g_ISRHandlers'
    /\ UNCHANGED <<IF_FLAG, g_Driver, g_IRQHandlers, g_PicMask, pic, stuck>>
    /\ Rest

i686_EnableInterrupts ==
    /\ Step("enable", "timer")
    /\ IF_FLAG' = TRUE
    /\ UNCHANGED <<startVars, pic, stuck>>
    /\ Rest

i686_IRQ_RegisterHandler(here, irq, handler, there) ==
    /\ Step(here, there)
    /\ g_IRQHandlers' = [g_IRQHandlers EXCEPT ![irq] = handler]
    /\ UNCHANGED <<IF_FLAG, g_Driver, absent, g_ISRHandlers, g_PicMask, pic, stuck>>
    /\ Rest

\* A mutant of Unmasked: the bit is set.
Unmasked_Set(irq) == g_PicMask \cup {irq}

Unmasked(irq) == g_PicMask \ {irq}

\* Without a driver the call goes through a NULL pointer.
i686_IRQ_Unmask(here, irq, there) ==
    /\ Step(here, IF g_Driver THEN there ELSE "wild")
    /\ g_PicMask' = IF g_Driver THEN Unmasked(irq) ELSE g_PicMask
    /\ pic' = IF g_Driver THEN [pic EXCEPT !.mask = g_PicMask'] ELSE pic
    /\ UNCHANGED <<IF_FLAG, g_Driver, absent, g_ISRHandlers, g_IRQHandlers, stuck>>
    /\ Rest

i686_Timer_Initialize ==
    \/ i686_IRQ_RegisterHandler("timer", 0, "timer.c", "unmask timer")
    \/ i686_IRQ_Unmask("unmask timer", 0, "main")

start ==
    \/ i686_IRQ_RegisterHandler("main", 0, "main.c", "unmask main")
    \/ i686_IRQ_Unmask("unmask main", 0, "keyboard")

i686_Keyboard_Initialize ==
    \/ i686_IRQ_RegisterHandler("keyboard", 1, "keyboard.c", "unmask keyboard")
    \/ i686_IRQ_Unmask("unmask keyboard", 1, "idle")

Start ==
    \/ i686_ISR_Initialize \/ i8259_Probe \/ ConfigureResets \/ ConfigureEnds
    \/ i686_ISR_RegisterHandler \/ i686_EnableInterrupts
    \/ i686_Timer_Initialize \/ start \/ i686_Keyboard_Initialize

--------------------------------------------------------------------------------
(* An interrupt: its gate may disable interrupts; iret restores the flags.    *)

\* A mutant of InterruptGates: they are trap gates.
InterruptGates_Trap == {}

\* Every gate that is generated is an interrupt gate, which disables interrupts.
InterruptGates == 0 .. 255

\* An interrupt whose gate is not present is exception 11 instead.
Frame(irq) ==
    LET vector == pic.base + irq
    IN  [irq |-> irq, vector |-> IF vector \in absent THEN 11 ELSE vector,
         flag |-> IF_FLAG, at |-> "handler"]

Interrupt(irq) ==
    /\ IF_FLAG
    /\ Shown = {irq}
    /\ pic' = [pic EXCEPT !.requests = @ \ {irq}, !.service = @ \cup {irq}, !.withdrawn = FALSE]
    /\ frames' = <<Frame(irq)>> \o frames
    /\ IF_FLAG' = (frames'[1].vector \notin InterruptGates)
    /\ UNCHANGED <<keyboardVars, pc, has_pic, startVars, timer, unhandled, stuck>>

\* A request that was withdrawn is shown as line 7, which is then not in service.
Spurious ==
    /\ IF_FLAG
    /\ Shown = {} /\ pic.withdrawn /\ pic.service = {}
    /\ pic' = [pic EXCEPT !.withdrawn = FALSE]
    /\ frames' = <<Frame(7)>> \o frames
    /\ IF_FLAG' = (frames'[1].vector \notin InterruptGates)
    /\ UNCHANGED <<keyboardVars, pc, has_pic, startVars, timer, unhandled, stuck>>

\* What lies at NULL is executed: it ends in an exception, or raises an interrupt
\* that nobody has registered for.
Wild ==
    /\ pc = "wild" /\ frames = <<>>
    /\ \E vector \in {6, 64} :
        frames' = <<[irq |-> 16, vector |-> vector, flag |-> IF_FLAG, at |-> "handler"]>>
    /\ UNCHANGED <<keyboardVars, pc, IF_FLAG, has_pic, startVars, pic, timer, unhandled, stuck>>

Taken == \E irq \in Line : Interrupt(irq)

AtPlace(here) == pc # "panic" /\ frames # <<>> /\ frames[1].at = here
Goto(there) == frames' = [frames EXCEPT ![1].at = there]

\* An exception without a handler is a panic; another interrupt is not ended.
i686_ISR_Handler ==
    /\ AtPlace("handler") /\ frames[1].vector \notin g_ISRHandlers
    /\ IF frames[1].vector >= 32
       THEN Goto("iret") /\ UNCHANGED pc
       ELSE pc' = "panic" /\ UNCHANGED frames
    /\ UNCHANGED <<keyboardVars, IF_FLAG, has_pic, startVars, pic, timer, unhandled, stuck>>

\* The handler that is installed for the line.  The timer's are main.c's flag and
\* timer.c's count, of which Kernel is about the first.
i686_IRQ_Handler ==
    /\ AtPlace("handler") /\ frames[1].vector \in g_ISRHandlers
    /\ LET irq == frames[1].vector - PIC_REMAP_OFFSET IN
       /\ IF g_IRQHandlers[irq] = "keyboard.c"
          THEN keyboard_handler /\ UNCHANGED unhandled
          ELSE /\ unhandled' = unhandled \cup {i \in {irq} : g_IRQHandlers[i] = "NULL"}
               /\ UNCHANGED keyboardVars
    /\ Goto("end")
    /\ UNCHANGED <<pc, IF_FLAG, has_pic, startVars, pic, timer, stuck>>

\* A mutant of i8259_SendEndOfInterrupt: only the second controller is told.
i8259_SendEndOfInterrupt_Slave ==
    /\ AtPlace("end")
    /\ Goto("iret")
    /\ UNCHANGED <<keyboardVars, pc, IF_FLAG, has_pic, startVars, pic, timer, unhandled, stuck>>

\* It names no line: the controller ends the first one in service.
i8259_SendEndOfInterrupt ==
    /\ AtPlace("end")
    /\ pic' = [pic EXCEPT !.service = {i \in @ : \E j \in @ : j < i}]
    /\ Goto("iret")
    /\ UNCHANGED <<keyboardVars, pc, IF_FLAG, has_pic, startVars, timer, unhandled, stuck>>

iret ==
    /\ AtPlace("iret")
    /\ frames' = Tail(frames)
    /\ IF_FLAG' = frames[1].flag
    /\ UNCHANGED <<keyboardVars, pc, has_pic, startVars, pic, timer, unhandled, stuck>>

Handling == i686_ISR_Handler \/ i686_IRQ_Handler \/ i8259_SendEndOfInterrupt \/ iret

Next ==
    \/ TimerTurns \/ Press \/ ByteArrives
    \/ Start
    \/ Taken \/ Spurious \/ Wild
    \/ Handling

\* The processor goes on.  Ticks leave it time between them, for the kernel's own
\* code and for a keyboard whose request waits behind the timer's.
Spec ==
    /\ Init /\ [][Next]_vars
    /\ WF_vars(Taken) /\ WF_vars(Handling) /\ SF_vars(Start) /\ SF_vars(Interrupt(1))

--------------------------------------------------------------------------------
\* One interrupt is handled at a time, and the end that names no line always ends
\* the line whose handler ran: lines are in service only while their handler is at
\* work.  None comes before the vectors and the handlers are there, so none is
\* taken for an exception or finds no handler, but for the one that stands for a
\* withdrawn request (without a controller the kernel calls NULL); and the keyboard's handler finds a byte
\* (irq.c:16-28, 49-60, isr.c:59-84, hal.c:10-18, main.c:50-54).
InterruptsSound ==
    /\ Len(frames) <= 1
    /\ frames # <<>> => ~IF_FLAG
    /\ pic.service = {frames[i].irq : i \in {j \in DOMAIN frames :
                                                frames[j].irq < 7 /\ frames[j].at # "iret"}}
    /\ pc = "panic" => ~has_pic
    /\ unhandled \subseteq {7}
    /\ frames # <<>> /\ frames[1].irq = 1 /\ frames[1].at = "handler" => port.full

\* A byte at the port is read, whatever the timer does and whenever it came,
\* except one that came before the controller was reset: its line is high and
\* rises no more, and nobody reads the port when the keyboard is set up
\* (i8259.c:72-108, irq.c:16-28, keyboard.c:139-142).
KeysAnswered == port.full ~> (~port.full \/ stuck \/ ~has_pic)
================================================================================
