--------------------------------- MODULE Kernel ---------------------------------
(******************************************************************************)
(* The kernel's own tasks on the scheduler: the idle loop and the timer       *)
(* handler of main.c, the shell with the commands that create, kill or wait   *)
(* for tasks, and the tasks those commands create (shell.c).                  *)
(*                                                                            *)
(* Multitasking is cooperative: an interrupt sets g_NeedSchedule and the      *)
(* running task looks at it in its loops.  Between two looks a task's code is *)
(* alone but for interrupts, so a step here is the code from one point where  *)
(* an interrupt, a key press or a switch can make a difference to the next.   *)
(* A test of g_NeedSchedule, its reset and the yield are one step: a tick     *)
(* between them finds the flag set and the task on its way out either way.    *)
(******************************************************************************)
EXTENDS Scheduler

CONSTANTS
    DemoPages,      \* the length of cmd_pmm_demo's pages[]: 5
    StopTicks,      \* the ticks after which sched_demo stops itself: 1500
    SleepTicks      \* what counter_thread_1..3 pass to Thread_Sleep: 50, 75, 100

ASSUME KernelAssumption ==
    /\ DemoPages \in Nat \ {0}
    /\ StopTicks \in Nat \ {0}
    /\ SleepTicks \in [1 .. 3 -> Nat \ {0}]

VARIABLES
    entry,              \* the function each task runs
    pc,                 \* where in it the task is
    since,              \* start, in Thread_Sleep and in cmd_sched_demo
    k,                  \* the index of the loop a command of the shell is in
    ids,                \* t1..t3 of cmd_thread_demo, base.. of cmd_sched_demo
    g_TimerTicks,
    g_DemoRunning,
    g_DemoTasks,
    g_ThreadDemoRunning,
    g_SharedCounter

shellVars == <<since, k, ids, g_DemoRunning, g_DemoTasks, g_ThreadDemoRunning,
               g_SharedCounter>>
taskVars == <<entry, pc, shellVars, g_TimerTicks>>
vars == <<schedVars, taskVars>>

Shell == 1
DemoFns == <<"demo_task_a", "demo_task_b", "demo_task_c">>
CounterFns == <<"counter_thread_1", "counter_thread_2", "counter_thread_3">>
FnNames == {"none", "start", "shell_task"}
           \cup {DemoFns[n] : n \in 1 .. 3} \cup {CounterFns[n] : n \in 1 .. 3}
Labels == {"check", "to_hlt", "hlt", "prompt", "td_create", "td_wait",
           "td_kill", "sd_create", "sd_wait", "sd_kill", "pd_alloc", "pd_free",
           "body", "delay", "sleep", "spin", "yield"}

me == g_CurrentTask
At(label) == Running /\ pc[me] = label
Goto(label) == pc' = [pc EXCEPT ![me] = label]
Stay == UNCHANGED <<pmmVars, schedOnly, g_NeedSchedule>>

Init ==
    /\ SchedInit
    /\ entry = [i \in TaskIds |-> "none"]
    /\ pc = [i \in TaskIds |-> "body"]
    /\ since = [i \in TaskIds |-> 0]
    /\ k = 1
    /\ ids = <<-1, -1, -1>>
    /\ g_TimerTicks = 0
    /\ g_DemoRunning = FALSE
    /\ g_DemoTasks = <<-1, -1, -1>>
    /\ g_ThreadDemoRunning = FALSE
    /\ g_SharedCounter = 0

\* start(): memory, the idle task, the shell's task; then the idle loop.
Boot ==
    \/ /\ BootPmm
       /\ UNCHANGED taskVars
    \/ /\ BootIdle
       /\ entry' = [entry EXCEPT ![Idle] = "start"]
       /\ pc' = [pc EXCEPT ![Idle] = "check"]
       /\ UNCHANGED <<shellVars, g_TimerTicks>>
    \/ /\ BootShell
       /\ entry' = [entry EXCEPT ![Shell] = "shell_task"]
       /\ pc' = [pc EXCEPT ![Shell] = "prompt"]
       /\ UNCHANGED <<shellVars, g_TimerTicks>>

\* An interrupt ends the hlt of the idle loop, if that is what the processor is
\* at; an interrupt between the test of the flag and the hlt does not.
WakeUp == pc' = IF me = Idle /\ pc[Idle] = "hlt"
                THEN [pc EXCEPT ![Idle] = "check"] ELSE pc

\* timer_handler of main.c, which replaces the one timer.c installs: the flag is
\* set and g_TimerTicks is left alone (only Scheduler_Tick, which nothing calls,
\* counts it).
TimerHandler ==
    /\ TimerIRQ
    /\ g_TimerTicks' = g_TimerTicks

Timer ==
    /\ TimerHandler
    /\ WakeUp
    /\ UNCHANGED <<entry, shellVars>>

\* A key press, whose character waits in the ring until a task asks for it.
Key ==
    /\ Running
    /\ WakeUp
    /\ Stay
    /\ UNCHANGED <<entry, shellVars, g_TimerTicks>>

\* A mutant of IdleLoop: the flag is reset and the yield forgotten.
IdleLoop_NoYield ==
    \/ /\ At("check")
       /\ g_NeedSchedule' = FALSE
       /\ Goto("to_hlt")
       /\ UNCHANGED <<pmmVars, schedOnly, entry, shellVars, g_TimerTicks>>
    \/ /\ At("to_hlt")
       /\ Stay
       /\ Goto("hlt")
       /\ UNCHANGED <<entry, shellVars, g_TimerTicks>>

\* for (;;) { if (g_NeedSchedule) {...Scheduler_Yield();} hlt; }
IdleLoop ==
    \/ /\ At("check")
       /\ IF g_NeedSchedule THEN Poll ELSE Stay
       /\ Goto("to_hlt")
       /\ UNCHANGED <<entry, shellVars, g_TimerTicks>>
    \/ /\ At("to_hlt")
       /\ Stay
       /\ Goto("hlt")
       /\ UNCHANGED <<entry, shellVars, g_TimerTicks>>

\* A turn of a loop of the running task that only waits: with the flag set it
\* yields, and the loop at "yield" yields whatever the flag.
WaitTurn(label) ==
    /\ At(label)
    /\ IF label = "yield" THEN Thread_Yield ELSE Poll
    /\ UNCHANGED taskVars

--------------------------------------------------------------------------------
\* A command line was completed at the prompt: the command starts.
ThreadDemo ==
    /\ At("prompt")
    /\ g_SharedCounter' = 0
    /\ g_ThreadDemoRunning' = TRUE
    /\ k' = 1
    /\ Goto("td_create")
    /\ Stay
    /\ UNCHANGED <<entry, since, ids, g_DemoRunning, g_DemoTasks, g_TimerTicks>>

\* A mutant of Create: the loop goes on after the third task.
Create_NoEnd(fns) ==
    /\ CreateTask
    /\ entry' = IF g_TaskCount' = g_TaskCount THEN entry
                ELSE [entry EXCEPT ![g_TaskCount] = fns[k]]
    /\ pc' = [i \in TaskIds |->
                IF i = g_TaskCount /\ g_TaskCount' # g_TaskCount THEN "body" ELSE pc[i]]
    /\ k' = k + 1
    /\ UNCHANGED <<g_DemoRunning, g_ThreadDemoRunning, g_SharedCounter,
                   g_TimerTicks>>

\* Thread_Create: the id is that of the slot taken, -1 if none was.  The task's
\* function is the loop index's.
Create(fns) ==
    /\ CreateTask
    /\ entry' = IF g_TaskCount' = g_TaskCount THEN entry
                ELSE [entry EXCEPT ![g_TaskCount] = fns[k]]
    /\ pc' = [i \in TaskIds |->
                IF i = g_TaskCount /\ g_TaskCount' # g_TaskCount THEN "body"
                ELSE IF i = me /\ k = 3
                     THEN IF fns = DemoFns THEN "sd_wait" ELSE "td_wait"
                ELSE pc[i]]
    /\ k' = IF k = 3 THEN 1 ELSE k + 1
    /\ UNCHANGED <<g_DemoRunning, g_ThreadDemoRunning, g_SharedCounter,
                   g_TimerTicks>>

ThreadDemoCreate ==
    /\ At("td_create")
    /\ Create(CounterFns)
    /\ ids' = [ids EXCEPT ![k] = IF g_TaskCount' = g_TaskCount THEN -1
                                 ELSE g_TaskCount]
    /\ UNCHANGED <<since, g_DemoTasks>>

\* Enter ends the demo; the flag is dropped before the threads are killed.
ThreadDemoStop ==
    /\ At("td_wait")
    /\ g_ThreadDemoRunning' = FALSE
    /\ Goto("td_kill")
    /\ Stay
    /\ UNCHANGED <<entry, since, k, ids, g_DemoRunning, g_DemoTasks,
                   g_SharedCounter, g_TimerTicks>>

\* A mutant of KillLoop: the shell yields between the kills.
KillLoop_Yields(label, who) ==
    /\ At(label)
    /\ IF g_NeedSchedule THEN Poll /\ pc' = pc /\ k' = k
       ELSE /\ KillTask(who[k])
            /\ k' = IF k = 3 THEN 1 ELSE k + 1
            /\ IF k = 3 THEN Goto("prompt") ELSE pc' = pc
    /\ UNCHANGED <<entry, since, ids, g_DemoRunning, g_DemoTasks,
                   g_ThreadDemoRunning, g_SharedCounter, g_TimerTicks>>

\* Kill demo tasks, one after the other, with no yield between them.
KillLoop(label, who) ==
    /\ At(label)
    /\ KillTask(who[k])
    /\ k' = IF k = 3 THEN 1 ELSE k + 1
    /\ IF k = 3 THEN Goto("prompt") ELSE pc' = pc
    /\ UNCHANGED <<entry, since, ids, g_DemoRunning, g_DemoTasks,
                   g_ThreadDemoRunning, g_SharedCounter, g_TimerTicks>>

ThreadDemoKill == KillLoop("td_kill", ids)

\* A mutant of SchedDemo: the first id is taken to be the next one.
SchedDemo_BaseOff ==
    /\ At("prompt")
    /\ IF g_DemoRunning
       THEN UNCHANGED <<pc, shellVars>>
       ELSE /\ g_DemoRunning' = TRUE
            /\ ids' = [n \in 1 .. 3 |-> g_TaskCount + n]
            /\ k' = 1
            /\ Goto("sd_create")
            /\ UNCHANGED <<since, g_DemoTasks, g_ThreadDemoRunning,
                           g_SharedCounter>>
    /\ Stay
    /\ UNCHANGED <<entry, g_TimerTicks>>

\* sched_demo at the prompt; base + i are the ids its tasks will have.
SchedDemo ==
    /\ At("prompt")
    /\ IF g_DemoRunning
       THEN UNCHANGED <<pc, shellVars>>
       ELSE /\ g_DemoRunning' = TRUE
            /\ ids' = [n \in 1 .. 3 |-> g_TaskCount + n - 1]
            /\ k' = 1
            /\ Goto("sd_create")
            /\ UNCHANGED <<since, g_DemoTasks, g_ThreadDemoRunning,
                           g_SharedCounter>>
    /\ Stay
    /\ UNCHANGED <<entry, g_TimerTicks>>

\* After the third: g_DemoTasks[i] = base + i, and the clock is read.
SchedDemoCreate ==
    /\ At("sd_create")
    /\ Create(DemoFns)
    /\ g_DemoTasks' = IF k = 3 THEN ids ELSE g_DemoTasks
    /\ since' = IF k = 3 THEN [since EXCEPT ![me] = g_TimerTicks] ELSE since
    /\ UNCHANGED ids

\* The waiting loop: the time is over, or Enter, and the flag is dropped before
\* the tasks are killed; else a look at g_NeedSchedule.
SchedDemoStop ==
    /\ At("sd_wait")
    /\ g_DemoRunning' = FALSE
    /\ Goto("sd_kill")
    /\ Stay
    /\ UNCHANGED <<entry, since, k, ids, g_DemoTasks, g_ThreadDemoRunning,
                   g_SharedCounter, g_TimerTicks>>

SchedDemoTurn ==
    /\ At("sd_wait")
    /\ IF g_TimerTicks - since[me] >= StopTicks THEN SchedDemoStop
       ELSE Poll /\ UNCHANGED taskVars

SchedDemoKill == KillLoop("sd_kill", g_DemoTasks)

\* kill <id>: the idle task and ids of no task are refused; nothing keeps the
\* shell from its own id.
Kill(id) ==
    /\ At("prompt")
    /\ id # Idle
    /\ id < g_TaskCount
    /\ g_DemoRunning' = FALSE
    /\ KillTask(id)
    /\ UNCHANGED <<entry, pc, since, k, ids, g_DemoTasks, g_ThreadDemoRunning,
                   g_SharedCounter, g_TimerTicks>>

PmmDemo ==
    /\ At("prompt")
    /\ k' = 1
    /\ Goto("pd_alloc")
    /\ Stay
    /\ UNCHANGED <<entry, since, ids, g_DemoRunning, g_DemoTasks,
                   g_ThreadDemoRunning, g_SharedCounter, g_TimerTicks>>

\* A mutant of PmmDemoLoop: the loop that frees stops one entry early.
PmmDemoLoop_Short(label, after) ==
    LET last == IF label = "pd_free" THEN DemoPages - 1 ELSE DemoPages
    IN  /\ At(label)
        /\ k' = IF k = last THEN 1 ELSE k + 1
        /\ IF k = last THEN Goto(after) ELSE pc' = pc
        /\ UNCHANGED <<entry, since, ids, g_DemoRunning, g_DemoTasks,
                       g_ThreadDemoRunning, g_SharedCounter, g_TimerTicks>>

\* The loops over pages[]; the entries of a failed allocation are NULL.
PmmDemoLoop(label, after) ==
    /\ At(label)
    /\ k' = IF k = DemoPages THEN 1 ELSE k + 1
    /\ IF k = DemoPages THEN Goto(after) ELSE pc' = pc
    /\ UNCHANGED <<entry, since, ids, g_DemoRunning, g_DemoTasks,
                   g_ThreadDemoRunning, g_SharedCounter, g_TimerTicks>>

PmmDemoAlloc == PmmDemoLoop("pd_alloc", "pd_free") /\ DemoAlloc

\* The order of the frees shows nowhere: the pages first, then the NULLs.
PmmDemoFree ==
    /\ PmmDemoLoop("pd_free", "prompt")
    /\ DemoFree
    /\ demo_pages # {} => demo_pages' # demo_pages

--------------------------------------------------------------------------------
\* A mutant of DemoTask: prints without the delay, in which the flag is seen.
DemoTask_NoDelay(n) ==
    /\ At("body")
    /\ entry[me] = DemoFns[n]
    /\ IF g_DemoRunning
       THEN Stay /\ Goto("body")
       ELSE KillTask(g_DemoTasks[n]) /\ Goto("spin")
    /\ UNCHANGED <<entry, shellVars, g_TimerTicks>>

\* demo_task_a, b, c: print and delay while the demo runs; then kill the task
\* g_DemoTasks names and spin.
DemoTask(n) ==
    /\ At("body")
    /\ entry[me] = DemoFns[n]
    /\ IF g_DemoRunning
       THEN Stay /\ Goto("delay")
       ELSE KillTask(g_DemoTasks[n]) /\ Goto("spin")
    /\ UNCHANGED <<entry, shellVars, g_TimerTicks>>

\* The delay loop looks at the flag in each turn: it ends with the flag clear.
DemoDelayOver ==
    /\ At("delay")
    /\ ~g_NeedSchedule
    /\ Goto("body")
    /\ Stay
    /\ UNCHANGED <<entry, shellVars, g_TimerTicks>>

\* counter_thread_1, 2, 3: count, or watch the count, and sleep; after the demo
\* the first two kill what they take to be their own task, and all yield on.
CounterThread(n) ==
    /\ At("body")
    /\ entry[me] = CounterFns[n]
    /\ IF g_ThreadDemoRunning
       THEN /\ g_SharedCounter' = CASE n = 1 -> g_SharedCounter + 1
                                    [] n = 2 -> g_SharedCounter + 10
                                    [] n = 3 -> IF g_SharedCounter > 100 THEN 0
                                                ELSE g_SharedCounter
            /\ since' = [since EXCEPT ![me] = g_TimerTicks]
            /\ Goto("sleep")
            /\ Stay
       ELSE /\ IF n = 3 THEN Stay ELSE KillTask(g_TaskCount - 3 + n)
            /\ Goto("yield")
            /\ UNCHANGED <<since, g_SharedCounter>>
    /\ UNCHANGED <<entry, k, ids, g_DemoRunning, g_DemoTasks,
                   g_ThreadDemoRunning, g_TimerTicks>>

\* A turn of the loop of Thread_Sleep: back to the thread when the time is over,
\* else a look at the flag.
Thread_Sleep(n) ==
    /\ At("sleep")
    /\ entry[me] = CounterFns[n]
    /\ IF g_TimerTicks - since[me] < SleepTicks[n]
       THEN Poll /\ pc' = pc
       ELSE Stay /\ Goto("body")
    /\ UNCHANGED <<entry, shellVars, g_TimerTicks>>

\* What the processor does by itself: no key press is needed.
Step ==
    \/ IdleLoop
    \/ \E label \in {"prompt", "td_wait", "delay", "spin", "yield"} : WaitTurn(label)
    \/ ThreadDemoCreate
    \/ ThreadDemoKill
    \/ SchedDemoCreate
    \/ SchedDemoTurn
    \/ SchedDemoKill
    \/ PmmDemoAlloc
    \/ PmmDemoFree
    \/ \E n \in 1 .. 3 : DemoTask(n) \/ CounterThread(n) \/ Thread_Sleep(n)
    \/ DemoDelayOver

\* What the user's keys make the shell do.
Command ==
    \/ ThreadDemo
    \/ ThreadDemoStop
    \/ SchedDemo
    \/ SchedDemoStop
    \/ \E id \in TaskIds : Kill(id)
    \/ PmmDemo

Next ==
    \/ Boot
    \/ Timer
    \/ Key
    \/ Step
    \/ Command
    \/ Undefined /\ UNCHANGED taskVars

Spec == Init /\ [][Next]_vars

\* The timer is periodic, the processor keeps executing the running task, and
\* the start-up goes on.  The user pauses now and then: the shell's loop at the
\* prompt looks at the flag only while no key waits (shell.c:1142-1147), and it
\* finds no key waiting again and again.
Fairness ==
    /\ WF_vars(Boot)
    /\ WF_vars(Timer)
    /\ WF_vars(Step)
    /\ SF_vars(WaitTurn("prompt"))

FairSpec == Spec /\ Fairness

--------------------------------------------------------------------------------
TypeOK ==
    /\ SchedTypeOK
    /\ entry \in [TaskIds -> FnNames]
    /\ pc \in [TaskIds -> Labels]
    /\ since \in [TaskIds -> Nat]
    /\ k \in 1 .. (IF DemoPages > 3 THEN DemoPages ELSE 3)
    /\ ids \in [1 .. 3 -> -1 .. MaxTasks + 2]
    /\ g_TimerTicks \in Nat
    /\ g_DemoRunning \in BOOLEAN
    /\ g_DemoTasks \in [1 .. 3 -> -1 .. MaxTasks + 2]
    /\ g_ThreadDemoRunning \in BOOLEAN
    /\ g_SharedCounter \in Nat

\* The kernel's tasks use the scheduler's interface and nothing else of it.
RefinesScheduler == SchedSpec

\* The usable pages below the boot stack hold the shell's stack and what one demo
\* takes.  On a PC the stack is on page 15 (entry.asm:23), the kernel at 1 MB
\* (linker.ld:3), and pages 1 to 14 are such pages.
LowMemory ==
    LET Low(map) == {p \in (1 .. BootStack - 1) \ KernelPages : \E i \in DOMAIN map :
                       /\ map[i].Type = 1
                       /\ map[i].Begin <= p * PageSize
                       /\ (p + 1) * PageSize <= map[i].Begin + map[i].Length}
    IN  \A map \in E820Maps :
          Cardinality(Low(map)) > (IF DemoPages > 3 THEN DemoPages ELSE 3)

\* With enough low memory the kernel never runs out of pages and never hands out
\* the page its boot stack is on, which nothing reserves (main.c:55-57,
\* pmm.c:66-77, stage2/entry.asm:23): first-fit stays below it, because a slot is
\* used once and a demo gives back all it took.
BootStackSafe ==
    /\ ~out_of_memory
    /\ frame_of[BootStack] = Idle
    /\ BootStack \notin demo_pages

\* When the prompt is back, the demos have left nothing behind: every task but
\* the idle one and the shell is dead, and every usable page but the shell's
\* stack is free (shell.c:240-242, 596-597, 798-801).
NothingLeftBehind ==
    Running /\ pc[Shell] = "prompt" =>
        /\ \A i \in Tasks \ {Idle, Shell} : taskState[i] = DEAD
        /\ FreeSet = Ram \ (Reserved \cup {taskStack[Shell]})

\* Only the shell can kill itself, by the user's word: the demo tasks, which kill
\* the task a shared table or a count names, never hit their own running task
\* or another that is still wanted (shell.c:22, 31, 363, 382, 401).
OnlyTheShellKillsItself == killed_self => taskStack[Shell] = NULL

\* The demos keep to their own tasks and pages and clean up (shell.c:540-801).
DemosClean == NothingLeftBehind /\ OnlyTheShellKillsItself

\* Typed, with memory to spare and the boot stack in nobody's hands (main.c:43-64).
KernelSound == TypeOK /\ BootStackSafe

\* Every task that is READY runs again or is killed: no task's loop keeps the
\* processor from the others (shell.c:16-46, 347-406, main.c:57-64).
ReadyRuns ==
    \A i \in TaskIds :
        (Running /\ i \in Tasks /\ taskState[i] = READY)
            ~> (wild \/ g_CurrentTask = i \/ taskState[i] = DEAD)

\* "DEAD = terminated" (utop's legend, shell.c:492).
DeadTerminated ==
    [][\A i \in Tasks : taskState[i] = DEAD => taskState'[i] = DEAD]_vars

================================================================================
