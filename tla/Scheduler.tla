-------------------------------- MODULE Scheduler -------------------------------
(******************************************************************************)
(* Tasks and the switch between them (src/kernel/scheduler.c, thread.c and    *)
(* scheduler_asm.asm), over the page allocator of Pmm.                        *)
(*                                                                            *)
(* Here the running task may make any call of the scheduler's interface at    *)
(* any time; Kernel says which calls the kernel's own tasks make and is shown *)
(* to be a case of this specification.                                        *)
(*                                                                            *)
(* A task's context lives on a stack page; a stack pointer is abstracted to   *)
(* the page it points into, and three variables that the program does not     *)
(* have say whether the context behind it is still there: fresh, frame_of and *)
(* wild.                                                                      *)
(******************************************************************************)
EXTENDS Pmm

CONSTANTS
    MaxTasks,       \* MAX_TASKS
    BootStack       \* the page the boot loader's stack, and so task 0, is on

ASSUME SchedulerAssumption ==
    /\ MaxTasks \in Nat
    /\ MaxTasks >= 2
    /\ BootStack \in Pages \ {0}

VARIABLES
    taskState,      \* g_Tasks[i].state
    taskStack,      \* g_Tasks[i].stack, a page or NULL
    taskEsp,        \* the page g_Tasks[i].esp points into (0 for esp = 0)
    g_TaskCount,
    g_CurrentTask,
    g_NeedSchedule,
    up,             \* start() has unmasked IRQ 0 and entered its idle loop
    cpu_stack,      \* the page the processor's esp points into
    demo_pages,     \* the entries of cmd_pmm_demo's pages[] not yet freed
    fresh,          \* fresh[i]: taskEsp[i] is where task i was suspended
    frame_of,       \* frame_of[p]: the task whose frames were last built in p
    wild,           \* a switch loaded a context that was not there
    killed_self,    \* some task has been killed while it was the running one
    passed          \* passed[i]: the tasks switched to since task i last ran

schedOnly == <<taskState, taskStack, taskEsp, g_TaskCount, g_CurrentTask,
               up, cpu_stack, demo_pages, fresh, frame_of, wild, killed_self,
               passed>>
schedVars == <<pmmVars, schedOnly, g_NeedSchedule>>

TaskIds == 0 .. MaxTasks - 1
Idle == 0
NoTask == -1

READY == "READY"
RUNNING == "RUNNING"
DEAD == "DEAD"

Tasks == 0 .. g_TaskCount - 1

SchedInit ==
    /\ PmmInit
    /\ taskState = [i \in TaskIds |-> READY]
    /\ taskStack = [i \in TaskIds |-> NULL]
    /\ taskEsp = [i \in TaskIds |-> 0]
    /\ g_TaskCount = 0
    /\ g_CurrentTask = 0
    /\ g_NeedSchedule = FALSE
    /\ up = FALSE
    /\ cpu_stack = BootStack
    /\ demo_pages = {}
    /\ fresh = [i \in TaskIds |-> FALSE]
    /\ frame_of = [p \in Pages |-> IF p = BootStack THEN Idle ELSE NoTask]
    /\ wild = FALSE
    /\ killed_self = FALSE
    /\ passed = [i \in TaskIds |-> {}]

Scheduler_RegisterIdle ==
    /\ taskStack' = [taskStack EXCEPT ![Idle] = NULL]
    /\ taskState' = [taskState EXCEPT ![Idle] = READY]
    /\ taskEsp' = [taskEsp EXCEPT ![Idle] = 0]
    /\ g_TaskCount' = 1
    /\ g_CurrentTask' = Idle
    /\ UNCHANGED <<pmmVars, g_NeedSchedule, up, cpu_stack, demo_pages, fresh,
                   frame_of, wild, killed_self, passed>>

\* A mutant of Scheduler_CreateTask: the table's limit is not tested.
Scheduler_CreateTask_NoLimit ==
    \E page \in Pages :
        /\ PMM_AllocPage(page)
        /\ taskStack' = [taskStack EXCEPT ![g_TaskCount] = page]
        /\ taskEsp' = [taskEsp EXCEPT ![g_TaskCount] = page]
        /\ g_TaskCount' = g_TaskCount + 1
        /\ fresh' = [fresh EXCEPT ![g_TaskCount] = TRUE]
        /\ frame_of' = [frame_of EXCEPT ![page] = g_TaskCount]
        /\ UNCHANGED <<taskState, passed>>

\* The new task's first frame is built at the top of its page; the task is
\* counted last.
Scheduler_CreateTask ==
    \/ /\ g_TaskCount >= MaxTasks
       /\ UNCHANGED <<pmmVars, taskState, taskStack, taskEsp, g_TaskCount,
                      fresh, frame_of, passed>>
    \/ /\ g_TaskCount < MaxTasks
       /\ \E page \in Pages :
            /\ PMM_AllocPage(page)
            /\ taskStack' = [taskStack EXCEPT ![g_TaskCount] = page]
            /\ IF page = NULL
               THEN UNCHANGED <<taskState, taskEsp, g_TaskCount, fresh,
                                frame_of, passed>>
               ELSE /\ taskEsp' = [taskEsp EXCEPT ![g_TaskCount] = page]
                    /\ taskState' = [taskState EXCEPT ![g_TaskCount] = READY]
                    /\ g_TaskCount' = g_TaskCount + 1
                    /\ fresh' = [fresh EXCEPT ![g_TaskCount] = TRUE]
                    /\ frame_of' = [frame_of EXCEPT ![page] = g_TaskCount]
                    /\ passed' = [passed EXCEPT ![g_TaskCount] = {}]

\* A mutant of Scheduler_KillTask: the stack pointer is not set to NULL, so a
\* second kill frees a page that may be another's by then.
Scheduler_KillTask_KeepStack(idx) ==
    \/ /\ idx <= 0 \/ idx >= g_TaskCount
       /\ UNCHANGED <<pmmVars, taskState, taskStack, killed_self>>
    \/ /\ idx \in Tasks \ {Idle}
       /\ taskState' = [taskState EXCEPT ![idx] = DEAD]
       /\ PMM_FreePage(taskStack[idx])
       /\ killed_self' = (killed_self \/ idx = g_CurrentTask)
       /\ UNCHANGED taskStack

Scheduler_KillTask(idx) ==
    \/ /\ idx <= 0 \/ idx >= g_TaskCount
       /\ UNCHANGED <<pmmVars, taskState, taskStack, killed_self>>
    \/ /\ idx \in Tasks \ {Idle}
       /\ taskState' = [taskState EXCEPT ![idx] = DEAD]
       /\ taskStack' = [taskStack EXCEPT ![idx] = NULL]
       /\ IF taskStack[idx] # NULL
          THEN PMM_FreePage(taskStack[idx])
          ELSE UNCHANGED pmmVars
       /\ killed_self' = (killed_self \/ idx = g_CurrentTask)

\* A mutant of Scheduler_Switch: the old stack pointer is not kept.
Scheduler_Switch_NoSave(prev, next) ==
    /\ cpu_stack' = taskEsp[next]
    /\ fresh' = [fresh EXCEPT ![next] = FALSE]
    /\ wild' = (~fresh[next] \/ frame_of[taskEsp[next]] # next)
    /\ passed' = [i \in TaskIds |-> IF i = next THEN {} ELSE passed[i] \cup {next}]
    /\ UNCHANGED taskEsp

\* Scheduler_Switch(&prev.esp, next.esp): the registers go to the stack in use,
\* whose pointer is kept; the other stack's pointer is loaded as it was read
\* before the call, and the registers and the return address are popped from it.
Scheduler_Switch(prev, next) ==
    /\ taskEsp' = [taskEsp EXCEPT ![prev] = cpu_stack]
    /\ cpu_stack' = taskEsp[next]
    /\ fresh' = [fresh EXCEPT ![prev] = TRUE, ![next] = FALSE]
    /\ wild' = (~fresh[next] \/ frame_of[taskEsp[next]] # next)
    /\ passed' = [i \in TaskIds |-> IF i = next THEN {} ELSE passed[i] \cup {next}]

\* A mutant of Steps: every scan starts at the first slot.
Steps_FromFirst(i) == IF i = g_CurrentTask THEN g_TaskCount ELSE i

\* How far the scan that starts after the running task goes to reach task i;
\* the running task itself is looked at last.
Steps(i) == IF i > g_CurrentTask THEN i - g_CurrentTask
            ELSE i - g_CurrentTask + g_TaskCount

\* A mutant of Scheduler_Yield: the scan passes over RUNNING tasks only.
Scheduler_Yield_AnyNotRunning ==
    LET found == {i \in Tasks : taskState[i] # RUNNING} \cup {g_CurrentTask}
    IN  \E next \in found :
          /\ \A i \in found : Steps(next) <= Steps(i)
          /\ taskState' = [taskState EXCEPT ![g_CurrentTask] = READY,
                                            ![next] = RUNNING]
          /\ g_CurrentTask' = next
          /\ Scheduler_Switch(g_CurrentTask, next)
          /\ UNCHANGED <<pmmVars, taskStack, g_TaskCount, up, demo_pages,
                         frame_of, killed_self>>

\* The running task is made READY whatever it was, and the first READY task
\* after it in the table is switched to.
Scheduler_Yield ==
    LET ready == {i \in Tasks : taskState[i] = READY} \cup {g_CurrentTask}
    IN  \E next \in ready :
          /\ \A i \in ready : Steps(next) <= Steps(i)
          /\ taskState' = [taskState EXCEPT ![g_CurrentTask] = READY,
                                            ![next] = RUNNING]
          /\ g_CurrentTask' = next
          /\ Scheduler_Switch(g_CurrentTask, next)
          /\ UNCHANGED <<pmmVars, taskStack, g_TaskCount, up, demo_pages,
                         frame_of, killed_self>>

--------------------------------------------------------------------------------
\* The start-up in start(), with interrupts of the timer still masked.
BootPmm ==
    /\ PMM_Initialize
    /\ UNCHANGED <<schedOnly, g_NeedSchedule>>

BootIdle ==
    /\ PmmReady
    /\ g_TaskCount = 0
    /\ Scheduler_RegisterIdle

BootShell ==
    /\ g_TaskCount = 1
    /\ ~up
    /\ Scheduler_CreateTask
    /\ up' = TRUE
    /\ UNCHANGED <<g_CurrentTask, g_NeedSchedule, cpu_stack, demo_pages, wild,
                   killed_self>>

\* The machine runs tasks until a switch loads a context that was overwritten:
\* what the processor does from there on is not described.
Running == up /\ ~wild

\* The idle task calls nothing but Scheduler_Yield (main.c:57-64).
Calling == Running /\ g_CurrentTask # Idle

Undefined == wild /\ UNCHANGED schedVars

\* timer_handler: the flag is all it sets; no switch is made in the handler.
TimerIRQ ==
    /\ Running
    /\ g_NeedSchedule' = TRUE
    /\ UNCHANGED <<pmmVars, schedOnly>>

\* if (g_NeedSchedule) { g_NeedSchedule = 0; Scheduler_Yield(); }
Poll ==
    /\ Running
    /\ g_NeedSchedule
    /\ g_NeedSchedule' = FALSE
    /\ Scheduler_Yield

Thread_Yield ==
    /\ Running
    /\ g_NeedSchedule' = TRUE
    /\ Scheduler_Yield

CreateTask ==
    /\ Calling
    /\ Scheduler_CreateTask
    /\ UNCHANGED <<g_CurrentTask, g_NeedSchedule, up, cpu_stack, demo_pages,
                   wild, killed_self>>

KillTask(idx) ==
    /\ Calling
    /\ Scheduler_KillTask(idx)
    /\ UNCHANGED <<taskEsp, g_TaskCount, g_CurrentTask, g_NeedSchedule, up,
                   cpu_stack, demo_pages, fresh, frame_of, wild, passed>>

\* pages[i] = PMM_AllocPage() of cmd_pmm_demo.  A NULL in the array is not kept:
\* that one was given is what out_of_memory says.
DemoAlloc ==
    /\ Calling
    /\ \E page \in Pages :
         /\ PMM_AllocPage(page)
         /\ demo_pages' = demo_pages \cup ({page} \ {NULL})
    /\ UNCHANGED <<taskState, taskStack, taskEsp, g_TaskCount, g_CurrentTask,
                   g_NeedSchedule, up, cpu_stack, fresh, frame_of, wild,
                   killed_self, passed>>

\* PMM_FreePage(pages[i]), of a page or of the NULL of a failed allocation.
DemoFree ==
    /\ Calling
    /\ \E page \in demo_pages \cup (IF out_of_memory THEN {NULL} ELSE {}) :
         /\ PMM_FreePage(page)
         /\ demo_pages' = demo_pages \ {page}
    /\ UNCHANGED <<taskState, taskStack, taskEsp, g_TaskCount, g_CurrentTask,
                   g_NeedSchedule, up, cpu_stack, fresh, frame_of, wild,
                   killed_self, passed>>

SchedNext ==
    \/ BootPmm
    \/ BootIdle
    \/ BootShell
    \/ TimerIRQ
    \/ Poll
    \/ Thread_Yield
    \/ CreateTask
    \/ \E idx \in -1 .. MaxTasks : KillTask(idx)
    \/ DemoAlloc
    \/ DemoFree
    \/ Undefined

SchedSpec == SchedInit /\ [][SchedNext]_schedVars

--------------------------------------------------------------------------------
SchedTypeOK ==
    /\ PmmTypeOK
    /\ taskState \in [TaskIds -> {READY, RUNNING, DEAD}]
    /\ taskStack \in [TaskIds -> Pages]
    /\ taskEsp \in [TaskIds -> Pages]
    /\ g_TaskCount \in 0 .. MaxTasks
    /\ g_CurrentTask \in TaskIds
    /\ g_CurrentTask < g_TaskCount \/ g_TaskCount + g_CurrentTask = 0
    /\ g_NeedSchedule \in BOOLEAN
    /\ up \in BOOLEAN
    /\ cpu_stack \in Pages
    /\ demo_pages \subseteq Pages
    /\ fresh \in [TaskIds -> BOOLEAN]
    /\ frame_of \in [Pages -> TaskIds \cup {NoTask}]
    /\ wild \in BOOLEAN
    /\ killed_self \in BOOLEAN
    /\ passed \in [TaskIds -> SUBSET TaskIds]

Stacks == {taskStack[i] : i \in Tasks} \ {NULL}

\* Every task but the idle one that is not dead owns a stack page: marked used,
\* no other task's, not handed to the demo, not page 0 or the kernel's
\* (scheduler.c:41-45, 176-184) - for as long as no task kills itself.
StackExclusive ==
    ~killed_self =>
        \A i \in Tasks \ {Idle} :
            taskState[i] # DEAD =>
                /\ taskStack[i] \in g_Used \ Reserved
                /\ taskStack[i] \notin demo_pages
                /\ \A j \in Tasks \ {i} : taskStack[j] # taskStack[i]

\* A switch always loads the context its task was suspended with, found intact
\* on its own page (scheduler.c:141-158, scheduler_asm.asm) - for as long as no
\* task kills itself, the shell's task was created, and no task was given the
\* page the idle task's frames are on.
NoWildSwitch ==
    ~killed_self /\ g_TaskCount >= 2 /\ frame_of[BootStack] = Idle => ~wild

\* The task table and the stacks stay sound: typed and bounded, exclusive, and
\* every context intact when it is loaded (scheduler.c:32-78, 141-184).
TasksSound == SchedTypeOK /\ StackExclusive /\ NoWildSwitch

\* A task that was killed by another is never switched to again and its slot
\* never becomes READY again (scheduler.c:145-149, 176-178).
DeadForGood ==
    [][\A i \in Tasks : taskState[i] = DEAD /\ ~killed_self
                            => taskState'[i] = DEAD /\ g_CurrentTask' # i]_schedVars

\* Round robin: while a task is READY no other task is switched to twice
\* (scheduler.c:144-149), whatever is created and killed in between.
RoundRobin ==
    [][up' /\ g_CurrentTask' # g_CurrentTask
        => \A i \in Tasks \ {g_CurrentTask, g_CurrentTask'} :
             taskState[i] = READY => g_CurrentTask' \notin passed[i]]_schedVars

\* The scheduler and the demo use the page allocator as PmmClients describes its
\* callers: the pages held are the stacks in the task table and the demo's.
Client == INSTANCE PmmClients
          WITH held <- [c \in {"sched", "demo"} |->
                          IF c = "sched" THEN Stacks ELSE demo_pages]
UsesPmmWell == Client!Spec
================================================================================
