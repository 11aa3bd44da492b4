------------------------------ MODULE KernelProofs ------------------------------
(******************************************************************************)
(* Proofs about tasks and the switch between them (Scheduler), for every size *)
(* of the table, memory map and place of the boot stack, and about the        *)
(* kernel's own tasks (Kernel), for every length of the demos and the sleeps. *)
(******************************************************************************)
EXTENDS Kernel, FiniteSetTheorems, TLAPS

\* The proofs about the page allocator, of the pages that the table and the demo
\* hold: the state functions are those of Client.
Granted == INSTANCE PmmProofs
           WITH held <- [c \in {"sched", "demo"} |->
                           IF c = "sched" THEN Stacks ELSE demo_pages]

\* The types of the table, the allocator's own left to Granted.
TableShape ==
    /\ taskState \in [TaskIds -> {READY, RUNNING, DEAD}]
    /\ taskStack \in [TaskIds -> Pages]
    /\ taskEsp \in [TaskIds -> Pages]
    /\ g_TaskCount \in 0 .. MaxTasks
    /\ g_CurrentTask \in TaskIds
    /\ g_CurrentTask < g_TaskCount \/ g_TaskCount + g_CurrentTask = 0
    /\ g_NeedSchedule \in BOOLEAN
    /\ up \in BOOLEAN
    /\ cpu_stack \in Pages
    /\ demo_pages \subseteq Pages
    /\ fresh \in [TaskIds -> BOOLEAN]
    /\ frame_of \in [Pages -> TaskIds \cup {NoTask}]
    /\ wild \in BOOLEAN
    /\ killed_self \in BOOLEAN
    /\ passed \in [TaskIds -> SUBSET TaskIds]

\* The order of the start: memory, the idle task, the shell's task, and then
\* switches.
Started ==
    /\ g_TaskCount > 0 => PmmReady
    /\ up => g_TaskCount > 0
    /\ wild => up
    /\ g_TaskCount = 0 => /\ cpu_stack = BootStack
                          /\ \A i \in TaskIds : taskState[i] = READY /\ passed[i] = {}

\* A page is in the table once, and the idle task has none.
StacksApart ==
    /\ taskStack[Idle] = NULL
    /\ \A i, j \in Tasks : i # j /\ taskStack[i] = taskStack[j] => taskStack[i] = NULL

\* Only the current task runs.  While no task has killed itself the current one
\* lives, and so do the idle task and another; and a live task has its stack.
Alive ==
    /\ \A i \in TaskIds : taskState[i] = RUNNING => i = g_CurrentTask
    /\ ~killed_self =>
         /\ taskState[g_CurrentTask] # DEAD /\ taskState[Idle] # DEAD
         /\ \A i \in Tasks \ {Idle} : taskState[i] # DEAD => taskStack[i] # NULL
         /\ g_TaskCount > 1 => \E i \in Tasks \ {Idle} : taskState[i] # DEAD

\* Where the frames of a task are.
Home(i) == IF i = Idle THEN BootStack ELSE taskStack[i]

\* The processor works on the current task's own page, and every other live task
\* has its context on its own; the saved pointer of the current one is stale.
Contexts ==
    /\ ~fresh[g_CurrentTask]
    /\ ~killed_self /\ ~wild /\ frame_of[BootStack] = Idle =>
        \A i \in Tasks : taskState[i] # DEAD =>
            /\ frame_of[Home(i)] = i
            /\ i = g_CurrentTask => cpu_stack = Home(i)
            /\ i # g_CurrentTask => fresh[i] /\ taskEsp[i] = Home(i)

\* Going round the table from task i, task j comes before or with task n.
UpTo(i, j, n) == IF i < n THEN i < j /\ j <= n ELSE i < j \/ j <= n

\* The tasks that a live task has been passed by lie between it and the current.
InOrder ==
    /\ passed[g_CurrentTask] = {}
    /\ \A i \in Tasks \ {g_CurrentTask} :
          taskState[i] # DEAD => \A j \in passed[i] : UpTo(i, j, g_CurrentTask)

SInv ==
    /\ Granted!IInv /\ TableShape /\ Started /\ StacksApart
    /\ Alive /\ Contexts /\ NoWildSwitch /\ InOrder

\* A step of the allocator's callers, or one that leaves it and them alone.
GrantedStep == [Granted!Next]_(Granted!clientVars)

--------------------------------------------------------------------------------
\* What the allocator's invariant says of the stacks.
LEMMA GrantedGives ==
    ASSUME Granted!IInv
    PROVE  /\ Stacks \subseteq g_Used /\ demo_pages \subseteq g_Used
           /\ Stacks \cap demo_pages = {}
           /\ (Stacks \cup demo_pages) \cap Reserved = {}
           /\ NULL \notin demo_pages
           /\ PmmTypeOK
<1>1. Granted!Exclusive /\ Granted!TypeOK
  BY Granted!IInvGives, PmmAssumption DEF Granted!Region, Region
<1>2. PmmTypeOK
  BY <1>1 DEF Granted!TypeOK, Granted!PmmTypeOK, PmmTypeOK, Granted!Pages, Pages,
     Granted!BootPhases, BootPhases
<1>3. Granted!Reserved = Reserved
  BY DEF Granted!Reserved, Reserved, Granted!KernelPages, KernelPages, Granted!Pages, Pages
<1> QED BY <1>1, <1>2, <1>3 DEF Granted!Exclusive, Granted!Held, Reserved, NULL

LEMMA GrantedInductive == Granted!IInv /\ GrantedStep => Granted!IInv'
BY Granted!Inductive, PmmAssumption DEF GrantedStep, Granted!Region, Region

\* A call of the scheduler or of the demo is a step of the allocator's callers.
LEMMA GrantedAlloc ==
    ASSUME PmmReady, NEW page \in Pages, PMM_AllocPage(page),
           \/ Stacks' = Stacks \cup ({page} \ {NULL}) /\ demo_pages' = demo_pages
           \/ Stacks' = Stacks /\ demo_pages' = demo_pages \cup ({page} \ {NULL})
    PROVE  GrantedStep
<1>1. ASSUME NEW c \in {"sched", "demo"},
             [d \in {"sched", "demo"} |-> IF d = "sched" THEN Stacks' ELSE demo_pages']
               = [[d \in {"sched", "demo"} |-> IF d = "sched" THEN Stacks ELSE demo_pages]
                   EXCEPT ![c] = IF page = NULL THEN @ ELSE @ \cup {page}]
      PROVE  GrantedStep
  <2>1. Granted!Alloc(c, page)
    BY <1>1 DEF Granted!Alloc, Granted!PmmReady, PmmReady, Granted!PMM_AllocPage,
       PMM_AllocPage, Granted!FreeSet, FreeSet, Granted!Pages, Pages, Granted!NULL, NULL
  <2>2. Granted!Next
    BY <2>1 DEF Granted!Next, Granted!Callers, Granted!Pages, Pages
  <2> QED BY <2>2 DEF GrantedStep
<1>2. CASE Stacks' = Stacks \cup ({page} \ {NULL}) /\ demo_pages' = demo_pages
  BY <1>2, <1>1
<1>3. CASE Stacks' = Stacks /\ demo_pages' = demo_pages \cup ({page} \ {NULL})
  BY <1>3, <1>1
<1> QED BY <1>2, <1>3

LEMMA GrantedFree ==
    ASSUME PmmReady, NEW page \in Pages, PMM_FreePage(page),
           \/ page \in Stacks /\ Stacks' = Stacks \ {page} /\ demo_pages' = demo_pages
           \/ page \in demo_pages /\ Stacks' = Stacks /\ demo_pages' = demo_pages \ {page}
           \/ page = NULL /\ out_of_memory /\ Stacks' = Stacks /\ demo_pages' = demo_pages
    PROVE  GrantedStep
<1>1. ASSUME NEW c \in {"sched", "demo"}, page \in IF c = "sched" THEN Stacks ELSE demo_pages,
             [d \in {"sched", "demo"} |-> IF d = "sched" THEN Stacks' ELSE demo_pages']
               = [[d \in {"sched", "demo"} |-> IF d = "sched" THEN Stacks ELSE demo_pages]
                   EXCEPT ![c] = @ \ {page}]
      PROVE  GrantedStep
  <2>1. Granted!Free(c, page)
    BY <1>1 DEF Granted!Free, Granted!PmmReady, PmmReady, Granted!PMM_FreePage, PMM_FreePage
  <2>2. Granted!Next
    BY <2>1 DEF Granted!Next, Granted!Callers, Granted!Pages, Pages
  <2> QED BY <2>2 DEF GrantedStep
<1>2. CASE page \in Stacks /\ Stacks' = Stacks \ {page} /\ demo_pages' = demo_pages
  BY <1>2, <1>1
<1>3. CASE page \in demo_pages /\ Stacks' = Stacks /\ demo_pages' = demo_pages \ {page}
  BY <1>3, <1>1
<1>4. CASE page = NULL /\ out_of_memory /\ Stacks' = Stacks /\ demo_pages' = demo_pages
  <2>1. Granted!FreeNull
    BY <1>4 DEF Granted!FreeNull, Granted!NULL, NULL, Granted!PmmReady, PmmReady,
       Granted!PMM_FreePage, PMM_FreePage
  <2>2. Granted!Next
    BY <2>1 DEF Granted!Next
  <2> QED BY <2>2 DEF GrantedStep
<1> QED BY <1>2, <1>3, <1>4

LEMMA GrantedKept ==
    ASSUME UNCHANGED pmmVars, Stacks' = Stacks, demo_pages' = demo_pages
    PROVE  GrantedStep
<1>1. UNCHANGED Granted!clientVars
  BY DEF Granted!clientVars, pmmVars
<1> QED BY <1>1 DEF GrantedStep

LEMMA GrantedBoot ==
    ASSUME PMM_Initialize, Stacks' = Stacks, demo_pages' = demo_pages
    PROVE  GrantedStep
<1>1. Granted!PMM_Initialize
  BY DEF Granted!PMM_Initialize, PMM_Initialize, Granted!PMM_InitRegion, PMM_InitRegion,
     Granted!PMM_InitRegionsDone, PMM_InitRegionsDone, Granted!PMM_InitReserve,
     PMM_InitReserve, Granted!RegionPages, RegionPages, Granted!Pages, Pages,
     Granted!Reserved, Reserved, Granted!KernelPages, KernelPages, Granted!FreeSet, FreeSet,
     Granted!Cardinality, Cardinality, Granted!IsFiniteSet, IsFiniteSet
<1>2. Granted!Initialize
  BY <1>1 DEF Granted!Initialize
<1> QED BY <1>2, Zenon DEF GrantedStep, Granted!Next

--------------------------------------------------------------------------------
\* What the scheduler's calls do to the set of stacks: a task created adds its
\* page, a task killed takes its page away and no other's.
LEMMA StacksAdd ==
    ASSUME TableShape, NEW page \in Pages \ {NULL}, g_TaskCount < MaxTasks,
           taskStack' = [taskStack EXCEPT ![g_TaskCount] = page],
           g_TaskCount' = g_TaskCount + 1
    PROVE  Stacks' = Stacks \cup {page}
<1>1. Tasks' = Tasks \cup {g_TaskCount} /\ g_TaskCount \in TaskIds \ Tasks /\ Tasks \subseteq TaskIds
  BY SchedulerAssumption DEF Tasks, TaskIds, TableShape
<1>2. \A i \in Tasks : taskStack'[i] = taskStack[i]
  BY <1>1 DEF TableShape
<1>3. taskStack'[g_TaskCount] = page
  BY <1>1 DEF TableShape
<1> QED BY <1>1, <1>2, <1>3 DEF Stacks

LEMMA StacksSame ==
    ASSUME TableShape, taskStack' = [taskStack EXCEPT ![g_TaskCount] = NULL],
           UNCHANGED g_TaskCount
    PROVE  Stacks' = Stacks
<1>1. Tasks' = Tasks /\ g_TaskCount \notin Tasks /\ Tasks \subseteq TaskIds
  BY SchedulerAssumption DEF Tasks, TaskIds, TableShape
<1>2. \A i \in Tasks : taskStack'[i] = taskStack[i]
  BY <1>1 DEF TableShape
<1> QED BY <1>1, <1>2 DEF Stacks

LEMMA StacksRemove ==
    ASSUME TableShape, StacksApart, NEW idx \in Tasks,
           taskStack' = [taskStack EXCEPT ![idx] = NULL],
           UNCHANGED g_TaskCount
    PROVE  Stacks' = Stacks \ {taskStack[idx]}
<1>1. Tasks' = Tasks /\ Tasks \subseteq TaskIds
  BY SchedulerAssumption DEF Tasks, TaskIds, TableShape
<1>2. taskStack'[idx] = NULL /\ \A i \in Tasks \ {idx} : taskStack'[i] = taskStack[i]
  BY <1>1 DEF TableShape
<1>3. \A i \in Tasks \ {idx} : taskStack[i] = taskStack[idx] => taskStack[i] = NULL
  BY DEF StacksApart
<1> QED BY <1>1, <1>2, <1>3 DEF Stacks

--------------------------------------------------------------------------------
\* A step that leaves the table, the contexts and the processor alone.
LEMMA StepQuiet ==
    ASSUME SInv, GrantedStep, g_NeedSchedule' \in BOOLEAN, demo_pages' \subseteq Pages,
           g_TaskCount > 0 => PmmReady',
           UNCHANGED <<taskState, taskStack, taskEsp, g_TaskCount, g_CurrentTask, up,
                       cpu_stack, fresh, frame_of, wild, killed_self, passed>>
    PROVE  SInv'
<1>1. Granted!IInv'
  BY GrantedInductive DEF SInv
<1>2. TableShape'
  BY DEF SInv, TableShape
<1>3. Started' /\ StacksApart' /\ Alive' /\ Contexts' /\ NoWildSwitch' /\ InOrder'
  BY DEF SInv, Started, StacksApart, Alive, Contexts, NoWildSwitch, InOrder, Tasks, Home
<1> QED BY <1>1, <1>2, <1>3 DEF SInv

LEMMA StepBootPmm == ASSUME SInv, BootPmm PROVE SInv' /\ GrantedStep
<1>1. GrantedStep
  BY GrantedBoot DEF BootPmm, schedOnly, Stacks, Tasks
<1>2. g_TaskCount = 0
  BY DEF BootPmm, PMM_Initialize, PMM_InitRegion, PMM_InitRegionsDone, PMM_InitReserve,
     SInv, Started, PmmReady, TableShape
<1> QED BY <1>1, <1>2, StepQuiet DEF BootPmm, schedOnly, SInv, TableShape

LEMMA StepBootIdle == ASSUME SInv, BootIdle PROVE SInv' /\ GrantedStep
<1> USE DEF BootIdle, Scheduler_RegisterIdle
<1>1. /\ g_TaskCount = 0 /\ g_CurrentTask = 0 /\ Idle \in TaskIds /\ NULL \in Pages
      /\ ~up /\ ~wild /\ cpu_stack = BootStack
      /\ \A i \in TaskIds : taskState[i] = READY /\ passed[i] = {}
  BY SchedulerAssumption, PmmAssumption
     DEF SInv, TableShape, Started, Idle, TaskIds, NULL, Pages
<1>2. Tasks = {} /\ Tasks' = {Idle}
  BY <1>1 DEF Tasks, Idle
<1>3. /\ taskStack'[Idle] = NULL /\ g_CurrentTask' = Idle /\ g_TaskCount' = 1
      /\ \A i \in TaskIds : taskState'[i] = READY
  BY <1>1 DEF SInv, TableShape
<1>4. Stacks' = Stacks
  BY <1>2, <1>3 DEF Stacks
<1>5. GrantedStep
  BY <1>4, GrantedKept
<1>6. Granted!IInv'
  BY <1>5, GrantedInductive DEF SInv
<1>7. TableShape'
  <2>1. /\ taskStack' \in [TaskIds -> Pages] /\ taskEsp' \in [TaskIds -> Pages]
        /\ taskState' \in [TaskIds -> {READY, RUNNING, DEAD}]
    BY <1>1 DEF SInv, TableShape, NULL
  <2>2. g_TaskCount' \in 0 .. MaxTasks /\ g_CurrentTask' \in TaskIds
        /\ g_CurrentTask' < g_TaskCount'
    BY <1>1, <1>3, SchedulerAssumption DEF Idle
  <2> QED BY <2>1, <2>2 DEF SInv, TableShape
<1>8. Started' /\ NoWildSwitch'
  BY <1>1, <1>3 DEF SInv, Started, NoWildSwitch, PmmReady, pmmVars
<1>9. StacksApart' /\ Alive' /\ InOrder'
  BY <1>1, <1>2, <1>3 DEF StacksApart, Alive, InOrder, READY, RUNNING, DEAD
<1>10. Contexts'
  BY <1>1, <1>2, <1>3 DEF SInv, Contexts, Home, Idle
<1> QED BY <1>5, <1>6, <1>7, <1>8, <1>9, <1>10 DEF SInv


\* Scheduler_CreateTask, from the start-up or from a task: the page is nobody's
\* and the task is not switched to before its first frame is there.
LEMMA StepCreate ==
    ASSUME SInv, PmmReady, g_TaskCount > 0, ~wild, Scheduler_CreateTask, up' \in BOOLEAN,
           UNCHANGED <<g_CurrentTask, g_NeedSchedule, cpu_stack, demo_pages, wild,
                       killed_self>>
    PROVE  SInv' /\ GrantedStep
<1>1. CASE g_TaskCount >= MaxTasks /\ UNCHANGED <<pmmVars, taskState, taskStack, taskEsp,
                                                  g_TaskCount, fresh, frame_of, passed>>
  <2>1. GrantedStep
    BY <1>1, GrantedKept DEF Stacks, Tasks
  <2>2. Granted!IInv' /\ PmmReady'
    BY <1>1, <2>1, GrantedInductive DEF SInv, PmmReady, pmmVars
  <2>3. TableShape' /\ Started'
    BY <1>1, <2>2 DEF SInv, TableShape, Started
  <2>4. StacksApart' /\ Alive' /\ Contexts' /\ NoWildSwitch' /\ InOrder'
    BY <1>1 DEF SInv, StacksApart, Alive, Contexts, NoWildSwitch, InOrder, Tasks, Home
  <2> QED BY <2>1, <2>2, <2>3, <2>4 DEF SInv
<1>2. ASSUME NEW page \in Pages, g_TaskCount < MaxTasks, PMM_AllocPage(page),
             taskStack' = [taskStack EXCEPT ![g_TaskCount] = page],
             page = NULL,
             UNCHANGED <<taskState, taskEsp, g_TaskCount, fresh, frame_of, passed>>
      PROVE  SInv' /\ GrantedStep
  <2>1. Stacks' = Stacks
    BY <1>2, StacksSame DEF SInv
  <2>2. GrantedStep
    BY <1>2, <2>1, GrantedAlloc
  <2>3. Granted!IInv' /\ PmmReady'
    BY <1>2, <2>2, GrantedInductive DEF SInv, PmmReady, PMM_AllocPage
  <2>4. Tasks' = Tasks /\ (\A i \in Tasks : taskStack'[i] = taskStack[i] /\ Home(i)' = Home(i))
        /\ Idle \in Tasks
    BY <1>2, SchedulerAssumption DEF SInv, TableShape, Tasks, TaskIds, Home, Idle
  <2>5. TableShape' /\ Started'
    BY <1>2, <2>3 DEF SInv, TableShape, Started
  <2>6. StacksApart' /\ Alive' /\ NoWildSwitch'
    BY <1>2, <2>4 DEF SInv, StacksApart, Alive, NoWildSwitch
  <2>7. Contexts' /\ InOrder'
    BY <1>2, <2>4 DEF SInv, Contexts, InOrder
  <2> QED BY <2>2, <2>3, <2>5, <2>6, <2>7 DEF SInv
<1>3. ASSUME NEW page \in Pages, g_TaskCount < MaxTasks, PMM_AllocPage(page),
             taskStack' = [taskStack EXCEPT ![g_TaskCount] = page],
             page # NULL,
             taskEsp' = [taskEsp EXCEPT ![g_TaskCount] = page],
             taskState' = [taskState EXCEPT ![g_TaskCount] = READY],
             g_TaskCount' = g_TaskCount + 1,
             fresh' = [fresh EXCEPT ![g_TaskCount] = TRUE],
             frame_of' = [frame_of EXCEPT ![page] = g_TaskCount],
             passed' = [passed EXCEPT ![g_TaskCount] = {}]
      PROVE  SInv' /\ GrantedStep
  <2> DEFINE new == g_TaskCount
  <2>1. Stacks' = Stacks \cup {page}
    BY <1>3, StacksAdd DEF SInv
  <2>2. GrantedStep
    BY <1>3, <2>1, GrantedAlloc
  <2>3. Granted!IInv' /\ PmmReady'
    BY <1>3, <2>2, GrantedInductive DEF SInv, PmmReady, PMM_AllocPage
  <2>4. page \notin Stacks
    BY <1>3, GrantedGives DEF SInv, PMM_AllocPage, FreeSet
  <2>5. /\ Tasks' = Tasks \cup {new} /\ new \in TaskIds \ Tasks /\ Tasks \subseteq TaskIds
        /\ Idle \in Tasks /\ g_CurrentTask \in Tasks
    BY <1>3, SchedulerAssumption DEF SInv, TableShape, Tasks, TaskIds, Idle
  <2>6. \A i \in TaskIds \ {new} :
          /\ taskStack'[i] = taskStack[i] /\ taskEsp'[i] = taskEsp[i]
          /\ taskState'[i] = taskState[i] /\ fresh'[i] = fresh[i] /\ passed'[i] = passed[i]
    BY <1>3 DEF SInv, TableShape
  <2>7. /\ taskStack'[new] = page /\ taskEsp'[new] = page /\ taskState'[new] = READY
        /\ fresh'[new] = TRUE /\ passed'[new] = {} /\ frame_of'[page] = new
    BY <1>3, <2>5 DEF SInv, TableShape
  <2>8. \A i \in Tasks : taskStack[i] # NULL => taskStack[i] # page
    BY <2>4 DEF Stacks
  <2>9. TableShape'
    BY <1>3, <2>5, SchedulerAssumption DEF SInv, TableShape, TaskIds
  <2>10. Started' /\ NoWildSwitch'
    BY <1>3, <2>3, <2>9 DEF SInv, Started, NoWildSwitch, TableShape
  <2>11. StacksApart'
    <3>1. taskStack'[Idle] = NULL
      BY <2>5, <2>6 DEF SInv, StacksApart
    <3>2. ASSUME NEW i \in Tasks', NEW j \in Tasks', i # j, taskStack'[i] = taskStack'[j]
          PROVE  taskStack'[i] = NULL
      BY <3>2, <1>3, <2>5, <2>6, <2>7, <2>8 DEF SInv, StacksApart
    <3> QED BY <3>1, <3>2 DEF StacksApart
  <2>12. Alive'
    BY <1>3, <2>5, <2>6, <2>7 DEF SInv, Alive, READY, RUNNING, DEAD
  <2>13. Contexts'
    <3>1. ~fresh'[g_CurrentTask']
      BY <2>5, <2>6 DEF SInv, Contexts
    <3>2. ASSUME ~killed_self', ~wild', frame_of'[BootStack] = Idle,
                 NEW i \in Tasks', taskState'[i] # DEAD
          PROVE  /\ frame_of'[Home(i)'] = i
                 /\ i = g_CurrentTask => cpu_stack = Home(i)'
                 /\ i # g_CurrentTask => fresh'[i] /\ taskEsp'[i] = Home(i)'
      <4>1. page # BootStack
        BY <3>2, <2>5, <2>7
      <4>2. frame_of[BootStack] = Idle
        BY <3>2, <4>1, <1>3, SchedulerAssumption DEF SInv, TableShape
      <4>3. CASE i = new
        BY <4>3, <2>5, <2>7 DEF Home
      <4>4. CASE i \in Tasks
        <5>1. Home(i)' = Home(i) /\ Home(i) \in Pages /\ taskState[i] # DEAD
          BY <3>2, <4>4, <2>5, <2>6, SchedulerAssumption DEF Home, SInv, TableShape
        <5>2. Home(i) # page
          BY <4>1, <4>4, <5>1, <3>2, <2>8 DEF Home, SInv, Alive
        <5>3. frame_of'[Home(i)] = frame_of[Home(i)]
          BY <5>1, <5>2, <1>3 DEF SInv, TableShape
        <5> QED BY <3>2, <4>2, <4>4, <5>1, <5>3, <2>5, <2>6 DEF SInv, Contexts
      <4> QED BY <4>3, <4>4, <2>5
    <3> QED BY <3>1, <3>2 DEF Contexts
  <2>14. InOrder'
    BY <2>5, <2>6, <2>7 DEF SInv, InOrder
  <2> QED BY <2>2, <2>3, <2>9, <2>10, <2>11, <2>12, <2>13, <2>14 DEF SInv
<1> QED BY <1>1, <1>2, <1>3 DEF Scheduler_CreateTask

\* Scheduler_KillTask: the stack goes back to the allocator once.
LEMMA StepKill ==
    ASSUME SInv, NEW idx \in -1 .. MaxTasks, KillTask(idx)
    PROVE  SInv' /\ GrantedStep
<1> USE DEF KillTask
<1>1. /\ g_TaskCount > 0 /\ PmmReady /\ g_CurrentTask \in Tasks \ {Idle}
      /\ Tasks \subseteq TaskIds
  BY SchedulerAssumption
     DEF SInv, Started, Calling, Running, TableShape, Tasks, TaskIds, Idle
<1>2. CASE UNCHANGED <<pmmVars, taskState, taskStack, killed_self>>
  <2>1. GrantedStep
    BY <1>2, GrantedKept DEF Stacks, Tasks
  <2> QED BY <1>1, <1>2, <2>1, StepQuiet DEF SInv, TableShape, PmmReady, pmmVars
<1>3. ASSUME idx \in Tasks \ {Idle},
             taskState' = [taskState EXCEPT ![idx] = DEAD],
             taskStack' = [taskStack EXCEPT ![idx] = NULL],
             IF taskStack[idx] # NULL THEN PMM_FreePage(taskStack[idx])
                                      ELSE UNCHANGED pmmVars,
             killed_self' = (killed_self \/ idx = g_CurrentTask)
      PROVE  SInv' /\ GrantedStep
  <2>1. Stacks' = Stacks \ {taskStack[idx]} /\ taskStack[idx] \in Pages
    BY <1>1, <1>3, StacksRemove DEF SInv, TableShape
  <2>2. GrantedStep
    <3>1. CASE taskStack[idx] # NULL
      <4>1. taskStack[idx] \in Stacks
        BY <1>3, <3>1 DEF Stacks
      <4> QED BY <1>1, <1>3, <2>1, <3>1, <4>1, GrantedFree
    <3>2. CASE taskStack[idx] = NULL
      BY <1>3, <2>1, <3>2, GrantedKept DEF Stacks
    <3> QED BY <3>1, <3>2
  <2>3. Granted!IInv' /\ PmmReady'
    BY <1>1, <1>3, <2>2, GrantedInductive DEF SInv, PmmReady, PMM_FreePage, pmmVars
  <2>4. /\ Tasks' = Tasks /\ g_CurrentTask' = g_CurrentTask
        /\ taskState'[idx] = DEAD /\ taskStack'[idx] = NULL
        /\ \A i \in TaskIds \ {idx} :
              taskState'[i] = taskState[i] /\ taskStack'[i] = taskStack[i]
    BY <1>1, <1>3 DEF SInv, TableShape, Tasks
  <2>5. TableShape'
    BY <1>1, <1>3, PmmAssumption DEF SInv, TableShape, NULL, Pages
  <2>6. Started' /\ NoWildSwitch'
    BY <1>1, <2>3 DEF SInv, Started, NoWildSwitch, Calling, Running
  <2>7. StacksApart' /\ InOrder'
    BY <1>1, <1>3, <2>4 DEF SInv, StacksApart, InOrder, Idle, TaskIds
  <2>8. Alive'
    <3>1. \A i \in TaskIds : taskState'[i] = RUNNING => i = g_CurrentTask
      BY <2>4 DEF SInv, Alive, RUNNING, DEAD
    <3>2. ASSUME ~killed_self'
          PROVE  /\ taskState'[g_CurrentTask] # DEAD /\ taskState'[Idle] # DEAD
                 /\ \A i \in Tasks \ {Idle} : taskState'[i] # DEAD => taskStack'[i] # NULL
                 /\ \E i \in Tasks \ {Idle} : taskState'[i] # DEAD
      <4>1. idx # g_CurrentTask /\ idx # Idle /\ ~killed_self /\ Idle \in TaskIds
        <5>1. idx # g_CurrentTask /\ ~killed_self
          BY <1>3, <3>2, Zenon
        <5> QED BY <1>3, <5>1, SchedulerAssumption DEF Idle, TaskIds
      <4>2. taskState'[g_CurrentTask] # DEAD /\ taskState'[Idle] # DEAD
        BY <1>1, <2>4, <4>1 DEF SInv, Alive
      <4>3. ASSUME NEW i \in Tasks \ {Idle}, taskState'[i] # DEAD PROVE taskStack'[i] # NULL
        BY <1>1, <2>4, <4>1, <4>3 DEF SInv, Alive
      <4> QED BY <1>1, <4>2, <4>3
    <3> QED BY <3>1, <3>2, <2>4 DEF Alive
  <2>9. Contexts'
    <3>1. ASSUME ~killed_self', ~wild', frame_of'[BootStack] = Idle,
                 NEW i \in Tasks, taskState'[i] # DEAD
          PROVE  /\ frame_of'[Home(i)'] = i
                 /\ i = g_CurrentTask => cpu_stack = Home(i)'
                 /\ i # g_CurrentTask => fresh'[i] /\ taskEsp'[i] = Home(i)'
      <4>1. Home(i)' = Home(i) /\ taskState[i] # DEAD
        BY <1>1, <3>1, <2>4 DEF Home
      <4> QED BY <1>3, <3>1, <4>1 DEF SInv, Contexts
    <3> QED BY <2>4, <3>1 DEF SInv, Contexts
  <2> QED BY <2>2, <2>3, <2>5, <2>6, <2>7, <2>8, <2>9 DEF SInv
<1> QED BY <1>2, <1>3 DEF Scheduler_KillTask

--------------------------------------------------------------------------------
\* Where the scan of Scheduler_Yield ends.  A task is found when it is READY or,
\* at the end of the round, when it is the running one; no READY task lies
\* between the running one and the one found.
LEMMA ScanEnds ==
    ASSUME TableShape, g_TaskCount > 0, NEW next \in Tasks, NEW i \in Tasks,
           Steps(next) <= Steps(i), i # g_CurrentTask, next # i
    PROVE  /\ next # g_CurrentTask
           /\ ~UpTo(i, next, g_CurrentTask)
           /\ \A j \in TaskIds : UpTo(i, j, g_CurrentTask) => UpTo(i, j, next)
           /\ UpTo(i, next, next)
BY SchedulerAssumption DEF TableShape, Steps, UpTo, Tasks, TaskIds

LEMMA NotBack ==
    ASSUME TableShape, g_TaskCount > 0, NEW i \in Tasks, i # g_CurrentTask
    PROVE  Steps(i) < Steps(g_CurrentTask)
BY SchedulerAssumption DEF TableShape, Steps, Tasks, TaskIds

\* Scheduler_Yield, from a poll of the flag or from a task's own call.
LEMMA StepYield ==
    ASSUME SInv, Running, Scheduler_Yield, g_NeedSchedule' \in BOOLEAN
    PROVE  SInv' /\ GrantedStep
<1> DEFINE ready == {i \in Tasks : taskState[i] = READY} \cup {g_CurrentTask}
           cur == g_CurrentTask
<1>1. PICK next \in ready :
        /\ \A i \in ready : Steps(next) <= Steps(i)
        /\ taskState' = [taskState EXCEPT ![cur] = READY, ![next] = RUNNING]
        /\ g_CurrentTask' = next
        /\ Scheduler_Switch(cur, next)
        /\ UNCHANGED <<pmmVars, taskStack, g_TaskCount, up, demo_pages,
                       frame_of, killed_self>>
  BY DEF Scheduler_Yield
<1>2. /\ taskEsp' = [taskEsp EXCEPT ![cur] = cpu_stack]
      /\ cpu_stack' = taskEsp[next]
      /\ fresh' = [fresh EXCEPT ![cur] = TRUE, ![next] = FALSE]
      /\ wild' = (~fresh[next] \/ frame_of[taskEsp[next]] # next)
      /\ passed' = [i \in TaskIds |-> IF i = next THEN {} ELSE passed[i] \cup {next}]
  BY <1>1, Zenon DEF Scheduler_Switch
<1>3. /\ g_TaskCount > 0 /\ PmmReady /\ up /\ ~wild
      /\ Tasks' = Tasks /\ Tasks \subseteq TaskIds /\ Idle \in Tasks
      /\ cur \in Tasks /\ next \in Tasks
  BY <1>1, SchedulerAssumption
     DEF SInv, Started, Running, TableShape, Tasks, TaskIds, Idle
<1>4. GrantedStep
  BY <1>1, GrantedKept DEF Stacks, Tasks
<1>5. Granted!IInv' /\ PmmReady'
  BY <1>1, <1>3, <1>4, GrantedInductive DEF SInv, PmmReady, pmmVars
<1>6. /\ taskState'[next] = RUNNING
      /\ \A i \in TaskIds \ {next, cur} : taskState'[i] = taskState[i]
      /\ cur # next => taskState'[cur] = READY
  BY <1>1, <1>3 DEF SInv, TableShape
<1>7. \A i \in Tasks \ {cur} : taskState[i] # DEAD => taskState[i] = READY /\ i \in ready
  BY <1>3 DEF SInv, TableShape, Alive
<1>8. TableShape'
  <2>1. taskState' \in [TaskIds -> {READY, RUNNING, DEAD}] /\ taskEsp' \in [TaskIds -> Pages]
        /\ fresh' \in [TaskIds -> BOOLEAN]
    BY <1>1, <1>2, <1>3 DEF SInv, TableShape
  <2>2. cpu_stack' \in Pages /\ wild' \in BOOLEAN /\ passed' \in [TaskIds -> SUBSET TaskIds]
    BY <1>2, <1>3 DEF SInv, TableShape
  <2>3. g_CurrentTask' \in TaskIds /\ g_CurrentTask' < g_TaskCount'
    BY <1>1, <1>3, SchedulerAssumption DEF Tasks, SInv, TableShape
  <2> QED BY <1>1, <2>1, <2>2, <2>3 DEF SInv, TableShape
<1>9. Started'
  BY <1>1, <1>3, <1>5 DEF Started
<1>10. StacksApart'
  BY <1>1, <1>3 DEF SInv, StacksApart
<1>11. Alive'
  <2>1. \A i \in TaskIds : taskState'[i] = RUNNING => i = g_CurrentTask'
    BY <1>1, <1>3, <1>6 DEF SInv, Alive, READY, RUNNING
  <2>2. ASSUME ~killed_self
        PROVE  \A i \in Tasks : taskState'[i] # DEAD <=> taskState[i] # DEAD
    BY <1>3, <1>6, <1>7, <2>2 DEF SInv, Alive, READY, RUNNING, DEAD
  <2>3. ASSUME ~killed_self
        PROVE  /\ taskState'[next] # DEAD /\ taskState'[Idle] # DEAD
               /\ \A i \in Tasks \ {Idle} : taskState'[i] # DEAD => taskStack'[i] # NULL
               /\ g_TaskCount > 1 => \E i \in Tasks \ {Idle} : taskState'[i] # DEAD
    <3>1. taskState'[next] # DEAD /\ taskState'[Idle] # DEAD
      BY <1>3, <1>6, <2>2, <2>3 DEF SInv, Alive, RUNNING, DEAD
    <3>2. \A i \in Tasks \ {Idle} : taskState'[i] # DEAD => taskStack'[i] # NULL
      BY <1>1, <2>2, <2>3 DEF SInv, Alive
    <3>3. g_TaskCount > 1 => \E i \in Tasks \ {Idle} : taskState'[i] # DEAD
      BY <2>2, <2>3 DEF SInv, Alive
    <3> QED BY <3>1, <3>2, <3>3
  <2> QED BY <1>1, <1>3, <2>1, <2>3 DEF Alive
<1>12. ASSUME ~killed_self, frame_of[BootStack] = Idle, next # cur
       PROVE  taskState[next] # DEAD /\ fresh[next] /\ taskEsp[next] = Home(next)
              /\ frame_of[Home(next)] = next /\ frame_of[Home(cur)] = cur
              /\ cpu_stack = Home(cur)
  BY <1>1, <1>3, <1>12 DEF SInv, Contexts, Alive, READY, DEAD
<1>13. Contexts'
  <2>1. ~fresh'[next]
    BY <1>2, <1>3 DEF SInv, TableShape
  <2>2. ASSUME ~killed_self, ~wild', frame_of[BootStack] = Idle,
               NEW i \in Tasks, taskState'[i] # DEAD
        PROVE  /\ frame_of[Home(i)] = i
               /\ i = next => cpu_stack' = Home(i)
               /\ i # next => fresh'[i] /\ taskEsp'[i] = Home(i)
    <3>1. next # cur
      BY <1>2, <2>2 DEF SInv, Contexts
    <3>2. CASE i = next
      BY <1>2, <1>12, <2>2, <3>1, <3>2
    <3>3. CASE i = cur
      BY <1>2, <1>3, <1>12, <2>2, <3>1, <3>3 DEF SInv, TableShape
    <3>4. CASE i # cur /\ i # next
      <4>1. taskState[i] # DEAD /\ fresh'[i] = fresh[i] /\ taskEsp'[i] = taskEsp[i]
        BY <1>2, <1>3, <1>6, <2>2, <3>4 DEF SInv, TableShape
      <4> QED BY <1>3, <2>2, <3>4, <4>1 DEF SInv, Contexts
    <3> QED BY <3>2, <3>3, <3>4
  <2>3. \A i \in Tasks : Home(i)' = Home(i)
    BY <1>1 DEF Home
  <2>4. ASSUME ~killed_self', ~wild', frame_of'[BootStack] = Idle,
               NEW i \in Tasks', taskState'[i] # DEAD
        PROVE  /\ frame_of'[Home(i)'] = i
               /\ i = g_CurrentTask' => cpu_stack' = Home(i)'
               /\ i # g_CurrentTask' => fresh'[i] /\ taskEsp'[i] = Home(i)'
    BY <1>1, <1>3, <2>2, <2>3, <2>4
  <2> QED BY <1>1, <2>1, <2>4 DEF Contexts
<1>14. NoWildSwitch'
  <2>1. ASSUME ~killed_self, g_TaskCount >= 2, frame_of[BootStack] = Idle
        PROVE  ~wild'
    <3>1. PICK other \in Tasks \ {cur} : taskState[other] # DEAD
      BY <2>1, <1>3, SchedulerAssumption DEF SInv, TableShape, Alive
    <3>2. Steps(next) <= Steps(other) /\ Steps(other) < Steps(cur)
      BY <1>1, <1>3, <1>7, <3>1, NotBack DEF SInv
    <3>3. next # cur
      BY <1>3, <3>1, <3>2, SchedulerAssumption DEF Steps, SInv, TableShape, Tasks, TaskIds
    <3> QED BY <1>2, <1>12, <2>1, <3>3
  <2> QED BY <1>1, <2>1 DEF NoWildSwitch
<1>15. InOrder'
  <2>1. passed'[next] = {}
    BY <1>2, <1>3
  <2>2. ASSUME NEW i \in Tasks \ {next}, taskState'[i] # DEAD, NEW j \in passed'[i]
        PROVE  UpTo(i, j, next)
    <3>1. j = next \/ j \in passed[i]
      BY <1>2, <1>3, <2>2
    <3>2. CASE i = cur
      <4>1. j = next
        BY <3>1, <3>2 DEF SInv, InOrder
      <4> QED BY <1>3, <2>2, <4>1, SchedulerAssumption DEF UpTo, Tasks, SInv, TableShape
    <3>3. CASE i # cur
      <4>1. taskState[i] # DEAD /\ Steps(next) <= Steps(i)
        BY <1>1, <1>3, <1>6, <1>7, <2>2, <3>3
      <4>2. j \in passed[i] => UpTo(i, j, cur) /\ j \in TaskIds
        BY <1>3, <2>2, <3>3, <4>1 DEF SInv, InOrder, TableShape
      <4> QED BY <1>3, <2>2, <3>1, <3>3, <4>1, <4>2, ScanEnds DEF SInv
    <3> QED BY <3>2, <3>3
  <2> QED BY <1>1, <1>3, <2>1, <2>2 DEF InOrder
<1> QED BY <1>4, <1>5, <1>8, <1>9, <1>10, <1>11, <1>13, <1>14, <1>15 DEF SInv

--------------------------------------------------------------------------------
LEMMA InitSInv == SchedInit => SInv /\ Granted!Init
<1> SUFFICES ASSUME SchedInit PROVE SInv /\ Granted!Init
  OBVIOUS
<1>1. Tasks = {} /\ Stacks = {} /\ Idle \in TaskIds
  BY SchedulerAssumption DEF SchedInit, Tasks, Stacks, Idle, TaskIds
<1>2. Granted!Init
  <2>1. Granted!PmmInit
    BY DEF SchedInit, PmmInit, Granted!PmmInit, Granted!Pages, Pages
  <2>2. [c \in {"sched", "demo"} |-> IF c = "sched" THEN Stacks ELSE demo_pages]
          = [c \in {"sched", "demo"} |-> {}]
    BY <1>1 DEF SchedInit
  <2> QED BY <2>1, <2>2 DEF Granted!Init, Granted!Callers
<1>3. Granted!IInv
  BY <1>2, Granted!InitIInv, PmmAssumption DEF Granted!Region, Region
<1>4. TableShape
  <2>1. NULL \in Pages /\ 0 \in Pages /\ 0 \in TaskIds /\ g_TaskCount \in 0 .. MaxTasks
    BY PmmAssumption, SchedulerAssumption DEF NULL, Pages, TaskIds, SchedInit
  <2>2. fresh \in [TaskIds -> BOOLEAN] /\ frame_of \in [Pages -> TaskIds \cup {NoTask}]
    BY <1>1 DEF SchedInit
  <2>3. taskState \in [TaskIds -> {READY, RUNNING, DEAD}] /\ taskStack \in [TaskIds -> Pages]
        /\ taskEsp \in [TaskIds -> Pages] /\ passed \in [TaskIds -> SUBSET TaskIds]
    BY <2>1 DEF SchedInit
  <2>4. g_CurrentTask \in TaskIds /\ g_TaskCount + g_CurrentTask = 0
        /\ cpu_stack \in Pages /\ demo_pages \subseteq Pages
    BY <2>1, SchedulerAssumption DEF SchedInit
  <2>5. /\ g_NeedSchedule \in BOOLEAN /\ up \in BOOLEAN /\ wild \in BOOLEAN
        /\ killed_self \in BOOLEAN
    BY Zenon DEF SchedInit
  <2> QED BY <2>1, <2>2, <2>3, <2>4, <2>5, Zenon DEF TableShape
<1>5. Started /\ StacksApart /\ Alive /\ Contexts /\ NoWildSwitch /\ InOrder
  BY <1>1, SchedulerAssumption
     DEF SchedInit, Started, StacksApart, Alive, Contexts, NoWildSwitch, InOrder, TaskIds,
         READY, RUNNING, DEAD
<1> QED BY <1>2, <1>3, <1>4, <1>5 DEF SInv

LEMMA StepDemo == ASSUME SInv, DemoAlloc \/ DemoFree PROVE SInv' /\ GrantedStep
<1>1. PmmReady /\ Stacks' = Stacks
  BY DEF DemoAlloc, DemoFree, Calling, Running, SInv, Started, Stacks, Tasks
<1>2. GrantedStep /\ demo_pages' \subseteq Pages /\ PmmReady'
  <2>1. CASE DemoAlloc
    <3>1. PICK page \in Pages : PMM_AllocPage(page)
                                /\ demo_pages' = demo_pages \cup ({page} \ {NULL})
      BY <2>1 DEF DemoAlloc
    <3> QED BY <1>1, <3>1, GrantedAlloc DEF SInv, TableShape, PMM_AllocPage, PmmReady
  <2>2. CASE DemoFree
    <3>1. PICK page \in demo_pages \cup (IF out_of_memory THEN {NULL} ELSE {}) :
             PMM_FreePage(page) /\ demo_pages' = demo_pages \ {page}
      BY <2>2 DEF DemoFree
    <3>2. NULL \notin demo_pages /\ NULL \in Pages /\ demo_pages \subseteq Pages
      BY GrantedGives, PmmAssumption DEF SInv, TableShape, NULL, Pages
    <3>3. CASE page \in demo_pages
      BY <1>1, <3>1, <3>2, <3>3, GrantedFree DEF PMM_FreePage, PmmReady
    <3>4. CASE page = NULL /\ out_of_memory
      <4>1. demo_pages' = demo_pages
        BY <3>1, <3>2, <3>4
      <4> QED BY <1>1, <3>1, <3>2, <3>4, <4>1, GrantedFree DEF PMM_FreePage, PmmReady
    <3> QED BY <3>1, <3>3, <3>4
  <2> QED BY <2>1, <2>2
<1> QED BY <1>2, StepQuiet DEF DemoAlloc, DemoFree, SInv, TableShape

LEMMA SchedInductive == SInv /\ [SchedNext]_schedVars => SInv' /\ GrantedStep
<1> SUFFICES ASSUME SInv, [SchedNext]_schedVars PROVE SInv' /\ GrantedStep
  OBVIOUS
<1>1. CASE BootPmm
  BY <1>1, StepBootPmm
<1>2. CASE BootIdle
  BY <1>2, StepBootIdle
<1>3. CASE BootShell
  <2>1. PmmReady /\ g_TaskCount > 0 /\ ~wild
    BY <1>3 DEF BootShell, SInv, Started, TableShape
  <2> QED BY <1>3, <2>1, StepCreate DEF BootShell
<1>4. CASE CreateTask
  <2>1. PmmReady /\ g_TaskCount > 0 /\ ~wild /\ up' \in BOOLEAN
    BY <1>4 DEF CreateTask, Calling, Running, SInv, Started, TableShape
  <2> QED BY <1>4, <2>1, StepCreate DEF CreateTask
<1>5. CASE Poll \/ Thread_Yield
  <2>1. Running /\ Scheduler_Yield /\ g_NeedSchedule' \in BOOLEAN
    BY <1>5 DEF Poll, Thread_Yield
  <2> QED BY <2>1, StepYield
<1>6. ASSUME NEW idx \in -1 .. MaxTasks, KillTask(idx) PROVE SInv' /\ GrantedStep
  BY <1>6, StepKill
<1>7. CASE DemoAlloc \/ DemoFree
  BY <1>7, StepDemo
<1>8. CASE TimerIRQ \/ Undefined \/ UNCHANGED schedVars
  <2>1. UNCHANGED <<pmmVars, schedOnly>> /\ g_NeedSchedule' \in BOOLEAN
    BY <1>8 DEF TimerIRQ, Undefined, schedVars, SInv, TableShape
  <2>2. GrantedStep
    BY <2>1, GrantedKept DEF schedOnly, Stacks, Tasks
  <2> QED BY <2>1, <2>2, StepQuiet
          DEF schedOnly, pmmVars, PmmReady, SInv, Started, TableShape
<1> QED BY <1>1, <1>2, <1>3, <1>4, <1>5, <1>6, <1>7, <1>8 DEF SchedNext

\* The invariant that the rest follows from: the table, the stacks its tasks own
\* and the contexts that are saved on them (scheduler.c:16-184).
THEOREM SchedInvariance == SchedSpec => []SInv
BY InitSInv, SchedInductive, PTL DEF SchedSpec

LEMMA SInvGives == SInv => TasksSound
<1> SUFFICES ASSUME SInv PROVE TasksSound
  OBVIOUS
<1>1. SchedTypeOK
  BY GrantedGives DEF SInv, SchedTypeOK, TableShape
<1>2. ASSUME ~killed_self, NEW i \in Tasks \ {Idle}, taskState[i] # DEAD
      PROVE  /\ taskStack[i] \in g_Used \ Reserved /\ taskStack[i] \notin demo_pages
             /\ \A j \in Tasks \ {i} : taskStack[j] # taskStack[i]
  <2>1. taskStack[i] # NULL /\ taskStack[i] \in Stacks
    BY <1>2 DEF SInv, Alive, Stacks
  <2> QED BY <1>2, <2>1, GrantedGives DEF SInv, StacksApart
<1> QED BY <1>1, <1>2 DEF TasksSound, StackExclusive, SInv

\* The task table stays typed and bounded, every live task keeps a stack page of
\* its own that the allocator counts as used, and a switch finds the context it
\* loads intact (scheduler.c:32-78, 141-184, scheduler_asm.asm).
THEOREM TasksStaySound == SchedSpec => []TasksSound
BY SchedInvariance, SInvGives, PTL

\* What the scan of Scheduler_Yield finds.
LEMMA YieldFinds ==
    ASSUME SInv, Running, Scheduler_Yield
    PROVE  /\ g_CurrentTask' \in Tasks
           /\ g_CurrentTask' # g_CurrentTask => taskState[g_CurrentTask'] = READY
           /\ \A i \in Tasks : taskState[i] = READY => Steps(g_CurrentTask') <= Steps(i)
           /\ \A i \in TaskIds \ {g_CurrentTask, g_CurrentTask'} : taskState'[i] = taskState[i]
           /\ g_TaskCount > 0 /\ g_CurrentTask \in Tasks
<1>1. g_TaskCount > 0 /\ Tasks \subseteq TaskIds /\ g_CurrentTask \in Tasks
  BY SchedulerAssumption DEF SInv, Started, Running, TableShape, Tasks, TaskIds
<1> QED BY <1>1 DEF Scheduler_Yield, SInv, TableShape

\* A killed task is never run again and its slot never becomes READY again
\* (scheduler.c:145-149, 176-178), unless a task killed itself.
THEOREM DeadStayDead == SchedSpec => DeadForGood
<1> DEFINE Kept == \A i \in Tasks : taskState[i] = DEAD /\ ~killed_self
                                      => taskState'[i] = DEAD /\ g_CurrentTask' # i
<1>1. SInv /\ [SchedNext]_schedVars => [Kept]_schedVars
  <2> SUFFICES ASSUME SInv, SchedNext, ~killed_self, NEW i \in Tasks, taskState[i] = DEAD
               PROVE  taskState'[i] = DEAD /\ g_CurrentTask' # i
    OBVIOUS
  <2>1. i # g_CurrentTask /\ i \in TaskIds /\ i # g_TaskCount
    BY SchedulerAssumption DEF SInv, Alive, TableShape, Tasks, TaskIds
  <2>2. CASE UNCHANGED <<taskState, g_CurrentTask>>
    BY <2>1, <2>2
  <2>3. CASE BootIdle
    BY <2>3, SchedulerAssumption DEF BootIdle, Tasks
  <2>4. CASE Scheduler_CreateTask /\ UNCHANGED g_CurrentTask
    BY <2>1, <2>4 DEF Scheduler_CreateTask, SInv, TableShape
  <2>5. CASE \E idx \in -1 .. MaxTasks : KillTask(idx)
    BY <2>1, <2>5 DEF KillTask, Scheduler_KillTask, SInv, TableShape
  <2>6. CASE Poll \/ Thread_Yield
    BY <2>1, <2>6, YieldFinds DEF Poll, Thread_Yield, READY, DEAD
  <2> QED BY <2>2, <2>3, <2>4, <2>5, <2>6
          DEF SchedNext, BootPmm, BootShell, CreateTask, TimerIRQ, DemoAlloc, DemoFree,
              Undefined, schedOnly, schedVars
<1> QED BY <1>1, SchedInvariance, PTL DEF SchedSpec, DeadForGood

\* While a task is READY no other task is switched to twice (scheduler.c:144-149).
THEOREM RoundsAreFair == SchedSpec => RoundRobin
<1> DEFINE Fair == up' /\ g_CurrentTask' # g_CurrentTask
              => \A i \in Tasks \ {g_CurrentTask, g_CurrentTask'} :
                   taskState[i] = READY => g_CurrentTask' \notin passed[i]
<1>1. SInv /\ [SchedNext]_schedVars => [Fair]_schedVars
  <2> SUFFICES ASSUME SInv, SchedNext, up', g_CurrentTask' # g_CurrentTask,
                      NEW i \in Tasks \ {g_CurrentTask, g_CurrentTask'},
                      taskState[i] = READY
               PROVE  g_CurrentTask' \notin passed[i]
    OBVIOUS
  <2>1. Poll \/ Thread_Yield
    <3>1. ~BootIdle
      BY DEF BootIdle, Tasks
    <3> QED BY <3>1 DEF SchedNext, BootPmm, BootShell, CreateTask, TimerIRQ, KillTask,
                        DemoAlloc, DemoFree, Undefined, schedOnly, schedVars
  <2>2. ~UpTo(i, g_CurrentTask', g_CurrentTask)
    BY <2>1, YieldFinds, ScanEnds DEF Poll, Thread_Yield, SInv
  <2> QED BY <2>2 DEF SInv, InOrder, READY, DEAD
<1> QED BY <1>1, SchedInvariance, PTL DEF SchedSpec, RoundRobin

\* Granted and Client say the same of the pages that are held.
LEMMA SameCallers ==
    /\ Granted!Init <=> Client!Init
    /\ GrantedStep <=> [Client!Next]_(Client!clientVars)
<1> USE DEF Granted!Pages, Client!Pages, Granted!FreeSet, Client!FreeSet, Granted!NULL,
            Client!NULL, Granted!Callers, Client!Callers, Granted!PmmReady, Client!PmmReady
<1>1. Granted!Init <=> Client!Init
  BY DEF Granted!Init, Client!Init, Granted!PmmInit, Client!PmmInit
<1>2. Granted!PMM_Initialize <=> Client!PMM_Initialize
  BY DEF Granted!PMM_Initialize, Client!PMM_Initialize, Granted!PMM_InitRegion,
         Client!PMM_InitRegion, Granted!PMM_InitRegionsDone, Client!PMM_InitRegionsDone,
         Granted!PMM_InitReserve, Client!PMM_InitReserve, Granted!RegionPages,
         Client!RegionPages, Granted!Reserved, Client!Reserved, Granted!KernelPages,
         Client!KernelPages, Granted!Cardinality, Client!Cardinality
<1>3. ASSUME NEW page
      PROVE  /\ Granted!PMM_AllocPage(page) <=> Client!PMM_AllocPage(page)
             /\ Granted!PMM_FreePage(page) <=> Client!PMM_FreePage(page)
  BY DEF Granted!PMM_AllocPage, Client!PMM_AllocPage, Granted!PMM_FreePage,
         Client!PMM_FreePage
<1>4. ASSUME NEW c, NEW page
      PROVE  /\ Granted!Alloc(c, page) <=> Client!Alloc(c, page)
             /\ Granted!Free(c, page) <=> Client!Free(c, page)
  BY <1>3 DEF Granted!Alloc, Client!Alloc, Granted!Free, Client!Free
<1>5. /\ Granted!Initialize <=> Client!Initialize
      /\ Granted!FreeNull <=> Client!FreeNull
  BY <1>2, <1>3 DEF Granted!Initialize, Client!Initialize, Granted!FreeNull, Client!FreeNull
<1>6. Granted!Next <=> Client!Next
  BY <1>4, <1>5 DEF Granted!Next, Client!Next
<1>7. Granted!clientVars = Client!clientVars /\ Granted!clientVars' = Client!clientVars'
  BY DEF Granted!clientVars, Client!clientVars
<1> QED BY <1>1, <1>6, <1>7 DEF GrantedStep

\* The scheduler and the demo call the page allocator as its clients promise: a
\* page is freed by the one who was given it, and once (scheduler.c:41-45, 179-182).
THEOREM CallsPmmWell == SchedSpec => UsesPmmWell
<1>1. SchedInit => Client!Init
  BY InitSInv, SameCallers
<1>2. SInv /\ [SchedNext]_schedVars => [Client!Next]_(Client!clientVars)
  BY SchedInductive, SameCallers
<1> QED BY <1>1, <1>2, SchedInvariance, PTL DEF SchedSpec, UsesPmmWell, Client!Spec

--------------------------------------------------------------------------------
\* The kernel's own tasks.
IdleLabels == {"check", "to_hlt", "hlt"}
ThreadDemoLabels == {"td_create", "td_wait", "td_kill"}
SchedDemoLabels == {"sd_create", "sd_wait", "sd_kill"}
PmmDemoLabels == {"pd_alloc", "pd_free"}
ShellLabels == {"prompt"} \cup ThreadDemoLabels \cup SchedDemoLabels \cup PmmDemoLabels
DemoEntries == {DemoFns[n] : n \in 1 .. 3}
CounterEntries == {CounterFns[n] : n \in 1 .. 3}

\* The tasks the shell's commands created.
Others == Tasks \ {Idle, Shell}
LiveOthers == {i \in Others : taskState[i] # DEAD}

\* Which function a task runs, and that it is at a place in that function.
Roles ==
    /\ g_TaskCount > 0 => entry[Idle] = "start" /\ pc[Idle] \in IdleLabels
    /\ up => entry[Shell] = "shell_task" /\ pc[Shell] \in ShellLabels
    /\ \A i \in Others :
          \/ entry[i] \in DemoEntries /\ pc[i] \in {"body", "delay", "spin"}
          \/ entry[i] \in CounterEntries /\ pc[i] \in {"body", "sleep", "yield"}

\* The loop index and the ids the shell's commands keep.
Numbers ==
    /\ k \in 1 .. (IF DemoPages > 3 THEN DemoPages ELSE 3)
    /\ up /\ pc[Shell] \in ThreadDemoLabels \cup SchedDemoLabels => k <= 3
    /\ up /\ pc[Shell] \in PmmDemoLabels => k <= DemoPages
    /\ up /\ pc[Shell] \in {"td_wait", "sd_wait"} => k = 1
    /\ ids \in [1 .. 3 -> (-1 .. MaxTasks + 2) \ {Shell}]
    /\ g_DemoTasks \in [1 .. 3 -> (-1 .. MaxTasks + 2) \ {Shell}]
    /\ entry \in [TaskIds -> FnNames]
    /\ pc \in [TaskIds -> Labels]
    /\ since \in [TaskIds -> Nat]
    /\ g_TimerTicks \in Nat
    /\ g_SharedCounter \in Nat
    /\ g_DemoRunning \in BOOLEAN
    /\ g_ThreadDemoRunning \in BOOLEAN

\* The order of the start, and what a killed shell leaves: a slot without a task
\* has no stack, a dead task neither, and only the shell is current when dead.
Slots ==
    /\ g_TaskCount <= 1 \/ up
    /\ killed_self => up /\ taskStack[Shell] = NULL
    /\ \A i \in TaskIds \ Tasks : taskStack[i] = NULL
    /\ \A i \in Others : taskState[i] = DEAD => taskStack[i] = NULL
    /\ g_CurrentTask \in Others => taskState[g_CurrentTask] # DEAD

\* What is alive in each phase of the shell's commands.  While a demo's task can
\* run its flag is set; the flag is dropped with the shell running and the tasks
\* are killed before it yields.
Phases ==
    up =>
    /\ pc[Shell] \in {"prompt", "pd_alloc", "pd_free"} => LiveOthers = {}
    /\ pc[Shell] \in ThreadDemoLabels => \A i \in LiveOthers : entry[i] \in CounterEntries
    /\ pc[Shell] \in SchedDemoLabels => \A i \in LiveOthers : entry[i] \in DemoEntries
    /\ pc[Shell] = "td_create" => LiveOthers \subseteq {ids[m] : m \in 1 .. k - 1}
    /\ pc[Shell] = "td_wait" => LiveOthers \subseteq {ids[m] : m \in 1 .. 3}
    /\ pc[Shell] = "td_kill" => LiveOthers \subseteq {ids[m] : m \in k .. 3}
    /\ pc[Shell] = "sd_create" =>
         /\ \A m \in 1 .. 3 : ids[m] = ids[1] + m - 1
         /\ LiveOthers \subseteq ids[1] .. g_TaskCount - 1
         /\ ids[1] <= g_TaskCount /\ g_TaskCount <= ids[1] + k - 1
    /\ pc[Shell] = "sd_wait" => LiveOthers \subseteq {g_DemoTasks[m] : m \in 1 .. 3}
    /\ pc[Shell] = "sd_kill" => LiveOthers \subseteq {g_DemoTasks[m] : m \in k .. 3}
    /\ pc[Shell] \in {"td_create", "td_wait"} => g_ThreadDemoRunning
    /\ pc[Shell] \in {"sd_create", "sd_wait"} => g_DemoRunning
    /\ pc[Shell] \in {"td_kill", "sd_kill"} => g_CurrentTask = Shell

\* cmd_pmm_demo frees as many pages as it allocated.
DemoHeld ==
    /\ demo_pages # {} => up
    /\ up /\ pc[Shell] \notin PmmDemoLabels => demo_pages = {}
    /\ up /\ pc[Shell] = "pd_alloc" => Cardinality(demo_pages) <= k - 1
    /\ up /\ pc[Shell] = "pd_free" => Cardinality(demo_pages) <= DemoPages - k + 1

Control == Roles /\ Numbers /\ Slots /\ Phases /\ DemoHeld

KInv == SInv /\ Granted!Filled /\ Control

--------------------------------------------------------------------------------
\* A step of the kernel's tasks is a step of the scheduler's interface.
LEMMA KillIsStep ==
    ASSUME SInv, NEW idx \in Int, KillTask(idx)
    PROVE  [SchedNext]_schedVars
<1>1. CASE idx \in Tasks \ {Idle}
  <2>1. idx \in -1 .. MaxTasks
    BY <1>1, SchedulerAssumption DEF Tasks, SInv, TableShape
  <2> QED BY <2>1 DEF SchedNext
<1>2. CASE idx \notin Tasks \ {Idle}
  BY <1>2 DEF KillTask, Scheduler_KillTask, schedVars, schedOnly
<1> QED BY <1>1, <1>2

\* The place a task is at tells which task it is.
LEMMA WhoRuns ==
    ASSUME SInv, Roles, Running
    PROVE  /\ g_TaskCount > 0 /\ up /\ me \in Tasks /\ me \in TaskIds
           /\ pc[me] \in IdleLabels => me = Idle
           /\ pc[me] \in ShellLabels => me = Shell
           /\ pc[me] \in {"body", "delay", "spin", "sleep", "yield"} => me \in Others
<1>1. g_TaskCount > 0 /\ up /\ me \in Tasks /\ me \in TaskIds
  BY SchedulerAssumption DEF Running, SInv, Started, TableShape, Tasks, TaskIds, me
<1>2. me \in {Idle, Shell} \cup Others
  BY <1>1 DEF Others
<1> QED BY <1>1, <1>2 DEF Roles, IdleLabels, ShellLabels, ThreadDemoLabels, SchedDemoLabels,
          PmmDemoLabels

LEMMA StepMaps == SInv /\ Roles /\ Numbers /\ [Next]_vars => [SchedNext]_schedVars
<1> SUFFICES ASSUME SInv, Roles, Numbers, [Next]_vars PROVE [SchedNext]_schedVars
  OBVIOUS
<1>1. CASE Boot \/ Timer \/ (Undefined /\ UNCHANGED taskVars) \/ UNCHANGED vars
  BY <1>1 DEF Boot, Timer, TimerHandler, SchedNext, vars, schedVars
<1>2. Stay => UNCHANGED schedVars
  BY DEF Stay, schedVars
<1>3. Poll \/ Thread_Yield \/ CreateTask \/ DemoAlloc \/ DemoFree => SchedNext
  BY DEF SchedNext
<1>4. CASE Key \/ IdleLoop \/ \E label \in {"prompt", "td_wait", "delay", "spin", "yield"} : WaitTurn(label)
  BY <1>2, <1>3, <1>4 DEF Key, IdleLoop, WaitTurn
<1>5. CASE ThreadDemoCreate \/ SchedDemoCreate
  BY <1>3, <1>5 DEF ThreadDemoCreate, SchedDemoCreate, Create
<1>6. CASE ThreadDemoKill \/ SchedDemoKill
  <2>1. k \in 1 .. 3
    <3>1. Running /\ pc[me] \in {"td_kill", "sd_kill"}
      BY <1>6 DEF ThreadDemoKill, SchedDemoKill, KillLoop, At
    <3>2. me = Shell
      BY <3>1, WhoRuns DEF ShellLabels, ThreadDemoLabels, SchedDemoLabels
    <3> QED BY <3>1, <3>2, KernelAssumption
            DEF Numbers, Running, ThreadDemoLabels, SchedDemoLabels
  <2>2. ids[k] \in Int /\ g_DemoTasks[k] \in Int
    BY <2>1, SchedulerAssumption DEF Numbers
  <2> QED BY <1>6, <2>2, KillIsStep DEF ThreadDemoKill, SchedDemoKill, KillLoop
<1>7. CASE SchedDemoTurn
  BY <1>2, <1>3, <1>7 DEF SchedDemoTurn, SchedDemoStop
<1>8. CASE PmmDemoAlloc \/ PmmDemoFree \/ DemoDelayOver
  BY <1>2, <1>3, <1>8 DEF PmmDemoAlloc, PmmDemoFree, DemoDelayOver
<1>9. ASSUME NEW n \in 1 .. 3, DemoTask(n) \/ CounterThread(n) \/ Thread_Sleep(n)
      PROVE  [SchedNext]_schedVars
  <2>1. g_DemoTasks[n] \in Int /\ g_TaskCount - 3 + n \in Int
    BY SchedulerAssumption DEF Numbers, SInv, TableShape
  <2> QED BY <1>2, <1>3, <1>9, <2>1, KillIsStep DEF DemoTask, CounterThread, Thread_Sleep
<1>10. CASE Command
  <2>1. ASSUME NEW id \in TaskIds, Kill(id) PROVE [SchedNext]_schedVars
    BY <2>1, KillIsStep DEF Kill, TaskIds
  <2> QED BY <1>2, <1>10, <2>1 DEF Command, ThreadDemo, ThreadDemoStop, SchedDemo,
             SchedDemoStop, PmmDemo
<1> QED BY <1>1, <1>4, <1>5, <1>6, <1>7, <1>8, <1>9, <1>10 DEF Next, Step

--------------------------------------------------------------------------------
\* The steps of the scheduler, as far as the kernel's tasks see them.
SameTasks ==
    /\ Tasks' = Tasks /\ Others' = Others /\ LiveOthers' = LiveOthers
    /\ UNCHANGED <<g_TaskCount, up>>

LEMMA TaskSets ==
    ASSUME TableShape
    PROVE  /\ Tasks \subseteq TaskIds /\ Idle \in TaskIds /\ Shell \in TaskIds
           /\ Others = 2 .. g_TaskCount - 1
           /\ g_TaskCount \in TaskIds <=> g_TaskCount < MaxTasks
BY SchedulerAssumption DEF TableShape, Tasks, TaskIds, Idle, Shell, Others

LEMMA QuietKeeps ==
    ASSUME Slots, UNCHANGED <<taskState, taskStack, g_TaskCount, g_CurrentTask, up,
                              killed_self>>
    PROVE  SameTasks /\ Slots'
BY DEF Slots, SameTasks, Tasks, Others, LiveOthers

LEMMA YieldKeeps ==
    ASSUME SInv, Slots, Running, Scheduler_Yield
    PROVE  SameTasks /\ Slots' /\ UNCHANGED <<pmmVars, demo_pages>>
<1>1. PICK next \in {i \in Tasks : taskState[i] = READY} \cup {g_CurrentTask} :
        /\ taskState' = [taskState EXCEPT ![g_CurrentTask] = READY, ![next] = RUNNING]
        /\ g_CurrentTask' = next
        /\ UNCHANGED <<pmmVars, taskStack, g_TaskCount, up, demo_pages, killed_self>>
  BY DEF Scheduler_Yield
<1>2. /\ Tasks' = Tasks /\ Others' = Others /\ Others \subseteq TaskIds
      /\ g_CurrentTask \in TaskIds /\ next \in TaskIds
  BY <1>1, TaskSets DEF Tasks, Others, SInv, TableShape
<1>3. /\ taskState'[next] = RUNNING
      /\ g_CurrentTask # next => taskState'[g_CurrentTask] = READY
      /\ \A i \in TaskIds \ {next, g_CurrentTask} : taskState'[i] = taskState[i]
  BY <1>1, <1>2 DEF SInv, TableShape
<1>4. \A i \in Others : taskState'[i] # DEAD <=> taskState[i] # DEAD
  BY <1>1, <1>2, <1>3 DEF Slots, READY, RUNNING, DEAD
<1>5. LiveOthers' = LiveOthers
  BY <1>2, <1>4 DEF LiveOthers
<1>6. Slots'
  BY <1>1, <1>2, <1>3, <1>4 DEF Slots, RUNNING, DEAD
<1> QED BY <1>1, <1>2, <1>5, <1>6 DEF SameTasks

\* A task that kills itself is the shell.
LEMMA KillRemoves ==
    ASSUME SInv, Slots, NEW idx \in Int, KillTask(idx),
           idx = g_CurrentTask => idx = Shell
    PROVE  /\ Slots' /\ Tasks' = Tasks /\ Others' = Others
           /\ LiveOthers' = LiveOthers \ {idx}
           /\ UNCHANGED <<g_TaskCount, g_CurrentTask, up, demo_pages>>
<1>1. UNCHANGED <<g_TaskCount, g_CurrentTask, up, demo_pages>> /\ up
  BY DEF KillTask, Calling, Running
<1>2. Tasks' = Tasks /\ Others' = Others
  BY <1>1 DEF Tasks, Others
<1>3. CASE idx \in Tasks \ {Idle}
  <2>1. /\ taskState' = [taskState EXCEPT ![idx] = DEAD]
        /\ taskStack' = [taskStack EXCEPT ![idx] = NULL]
        /\ killed_self' = (killed_self \/ idx = g_CurrentTask)
    BY <1>3, SchedulerAssumption
       DEF KillTask, Scheduler_KillTask, Tasks, Idle, SInv, TableShape
  <2>2. /\ taskState'[idx] = DEAD /\ taskStack'[idx] = NULL
        /\ \A i \in TaskIds \ {idx} :
              taskState'[i] = taskState[i] /\ taskStack'[i] = taskStack[i]
    BY <1>3, <2>1, TaskSets DEF SInv, TableShape
  <2>3. LiveOthers' = LiveOthers \ {idx}
    BY <1>2, <2>2, TaskSets DEF LiveOthers, Others, SInv
  <2>4. killed_self' => up' /\ taskStack'[Shell] = NULL
    BY <1>1, <2>1, <2>2, TaskSets DEF Slots, SInv
  <2>5. Slots'
    BY <1>1, <1>2, <1>3, <2>2, <2>4, TaskSets DEF Slots, SInv, Others
  <2> QED BY <1>1, <1>2, <2>3, <2>5
<1>4. CASE idx \notin Tasks \ {Idle}
  <2>1. UNCHANGED <<taskState, taskStack, killed_self>>
    BY <1>4 DEF KillTask, Scheduler_KillTask
  <2>2. idx \notin LiveOthers
    BY <1>4 DEF LiveOthers, Others
  <2> QED BY <1>1, <1>2, <2>1, <2>2, QuietKeeps DEF SameTasks
<1> QED BY <1>3, <1>4

LEMMA CreateAdds ==
    ASSUME SInv, Slots, CreateTask, g_CurrentTask = Shell
    PROVE  /\ Slots' /\ g_TaskCount \in Nat /\ g_TaskCount >= 2 /\ g_TaskCount <= MaxTasks
           /\ UNCHANGED <<g_CurrentTask, up, demo_pages>>
           /\ \/ g_TaskCount' = g_TaskCount /\ SameTasks
              \/ /\ g_TaskCount' = g_TaskCount + 1 /\ g_TaskCount \in TaskIds \ Tasks
                 /\ Tasks' = Tasks \cup {g_TaskCount} /\ Others' = Others \cup {g_TaskCount}
                 /\ LiveOthers' = LiveOthers \cup {g_TaskCount}
<1>1. /\ UNCHANGED <<g_CurrentTask, up, demo_pages, killed_self>> /\ up
      /\ g_TaskCount \in Nat /\ g_TaskCount >= 2 /\ g_TaskCount <= MaxTasks
  BY SchedulerAssumption DEF CreateTask, Calling, Running, SInv, TableShape, Shell
<1>2. CASE UNCHANGED <<taskState, taskStack, g_TaskCount>>
  BY <1>1, <1>2, QuietKeeps DEF SameTasks
<1>3. CASE taskStack' = [taskStack EXCEPT ![g_TaskCount] = NULL]
           /\ UNCHANGED <<taskState, g_TaskCount>>
  <2>1. SameTasks
    BY <1>1, <1>3 DEF SameTasks, Tasks, Others, LiveOthers
  <2>2. \A i \in TaskIds : taskStack'[i] = taskStack[i] \/ taskStack'[i] = NULL
    BY <1>3 DEF SInv, TableShape
  <2>3. \A i \in Tasks : taskStack'[i] = taskStack[i]
    BY <1>1, <1>3 DEF SInv, TableShape, Tasks
  <2>4. Slots'
    BY <1>1, <1>3, <2>1, <2>2, <2>3, TaskSets DEF Slots, SameTasks, SInv
  <2> QED BY <1>1, <1>3, <2>1, <2>4
<1>4. ASSUME NEW page \in Pages, g_TaskCount < MaxTasks,
             taskStack' = [taskStack EXCEPT ![g_TaskCount] = page],
             taskState' = [taskState EXCEPT ![g_TaskCount] = READY],
             g_TaskCount' = g_TaskCount + 1
      PROVE  /\ Slots' /\ g_TaskCount \in TaskIds \ Tasks
             /\ Tasks' = Tasks \cup {g_TaskCount} /\ Others' = Others \cup {g_TaskCount}
             /\ LiveOthers' = LiveOthers \cup {g_TaskCount}
  <2>1. /\ g_TaskCount \in TaskIds \ Tasks /\ g_TaskCount \notin {Idle, Shell}
        /\ Tasks' = Tasks \cup {g_TaskCount} /\ Shell \in Tasks
    BY <1>1, <1>4, SchedulerAssumption DEF Tasks, TaskIds, Idle, Shell
  <2>2. Others' = Others \cup {g_TaskCount}
    BY <2>1 DEF Others
  <2>3. /\ taskState'[g_TaskCount] = READY
        /\ \A i \in TaskIds \ {g_TaskCount} :
              taskState'[i] = taskState[i] /\ taskStack'[i] = taskStack[i]
    BY <1>4, <2>1 DEF SInv, TableShape
  <2>4. Others \subseteq TaskIds \ {g_TaskCount}
    BY <2>1, TaskSets DEF Others, SInv
  <2>5. LiveOthers' = LiveOthers \cup {g_TaskCount}
    BY <2>2, <2>3, <2>4 DEF LiveOthers, READY, DEAD
  <2>6. Slots'
    <3>1. \A i \in TaskIds \ Tasks' : taskStack'[i] = NULL
      BY <2>1, <2>3 DEF Slots
    <3>2. \A i \in Others' : taskState'[i] = DEAD => taskStack'[i] = NULL
      BY <2>2, <2>3, <2>4 DEF Slots, READY, DEAD
    <3>3. killed_self' => up' /\ taskStack'[Shell] = NULL
      BY <1>1, <2>1, <2>3, TaskSets DEF Slots, SInv
    <3>4. g_CurrentTask' \notin Others'
      BY <1>1 DEF Others
    <3> QED BY <1>1, <3>1, <3>2, <3>3, <3>4 DEF Slots
  <2> QED BY <2>1, <2>2, <2>5, <2>6
<1> QED BY <1>1, <1>2, <1>3, <1>4 DEF CreateTask, Scheduler_CreateTask

--------------------------------------------------------------------------------
\* Nothing but where the running task is, or nothing at all, is new: the parts of
\* the invariant that a move to another label keeps.
LEMMA InitControl == Init => Control
<1> SUFFICES ASSUME Init PROVE Control
  OBVIOUS
<1>1. /\ g_TaskCount = 0 /\ ~up /\ ~killed_self /\ g_CurrentTask = 0 /\ demo_pages = {}
      /\ Tasks = {} /\ Others = {} /\ \A i \in TaskIds : taskStack[i] = NULL
  BY DEF Init, SchedInit, Tasks, Others
<1>2. Roles /\ Slots /\ Phases /\ DemoHeld
  BY <1>1 DEF Roles, Slots, Phases, DemoHeld
<1>3. Numbers
  <2>1. k \in 1 .. (IF DemoPages > 3 THEN DemoPages ELSE 3)
    BY KernelAssumption DEF Init
  <2>2. <<-1, -1, -1>> \in [1 .. 3 -> (-1 .. MaxTasks + 2) \ {Shell}]
    BY SchedulerAssumption DEF Shell
  <2>3. "none" \in FnNames /\ "body" \in Labels
    BY DEF FnNames, Labels
  <2> QED BY <1>1, <2>1, <2>2, <2>3 DEF Init, Numbers
<1> QED BY <1>2, <1>3 DEF Control

LEMMA StepBoot ==
    ASSUME SInv, Control, Boot, SInv'
    PROVE  Control'
<1> USE DEF Control
<1>0. ~up
  BY DEF Boot, BootPmm, BootIdle, BootShell, PMM_Initialize, PMM_InitRegion, PmmReady,
         PMM_InitRegionsDone, PMM_InitReserve, SInv, Started, TableShape
<1>1. demo_pages = {} /\ ~killed_self
  BY <1>0 DEF DemoHeld, Slots
<1>2. CASE BootPmm /\ UNCHANGED taskVars
  BY <1>0, <1>1, <1>2 DEF BootPmm, schedOnly, taskVars, shellVars, Roles, Numbers, Slots,
     Phases, DemoHeld, Others, Tasks
<1>3. CASE /\ BootIdle
           /\ entry' = [entry EXCEPT ![Idle] = "start"]
           /\ pc' = [pc EXCEPT ![Idle] = "check"]
           /\ UNCHANGED <<shellVars, g_TimerTicks>>
  <2>1. /\ ~up' /\ g_TaskCount' = 1 /\ demo_pages' = {} /\ ~killed_self'
        /\ Others' = {} /\ Tasks = {} /\ g_CurrentTask' = Idle
        /\ taskStack' = [taskStack EXCEPT ![Idle] = NULL]
    BY <1>0, <1>1, <1>3 DEF BootIdle, Scheduler_RegisterIdle, Others, Tasks, Idle
  <2>2. Roles'
    BY <1>3, <2>1, SchedulerAssumption DEF Roles, Numbers, Idle, TaskIds, IdleLabels
  <2>3. Numbers'
    BY <1>3, <2>1, SchedulerAssumption
       DEF Numbers, shellVars, Idle, TaskIds, FnNames, Labels
  <2>4. Slots'
    BY <2>1, SchedulerAssumption DEF Slots, SInv, TableShape, TaskIds, Idle
  <2> QED BY <2>1, <2>2, <2>3, <2>4 DEF Phases, DemoHeld
<1>4. CASE /\ BootShell
           /\ entry' = [entry EXCEPT ![Shell] = "shell_task"]
           /\ pc' = [pc EXCEPT ![Shell] = "prompt"]
           /\ UNCHANGED <<shellVars, g_TimerTicks>>
  <2>1. /\ up' /\ g_TaskCount = 1 /\ demo_pages' = {} /\ ~killed_self'
        /\ g_CurrentTask' = Idle /\ Tasks = {Idle}
        /\ g_TaskCount' \in {1, 2}
    <3>1. /\ up' /\ g_TaskCount = 1 /\ demo_pages' = {} /\ ~killed_self'
          /\ g_CurrentTask' = g_CurrentTask
      BY <1>1, <1>4 DEF BootShell
    <3>2. g_CurrentTask = Idle /\ Tasks = {Idle}
      BY <3>1, SchedulerAssumption DEF SInv, TableShape, Idle, Tasks, TaskIds
    <3>3. g_TaskCount' \in {1, 2}
      BY <1>4, <3>1 DEF BootShell, Scheduler_CreateTask
    <3> QED BY <3>1, <3>2, <3>3
  <2>2. Others' = {} /\ Others = {}
    <3>0. g_TaskCount' = 1 \/ g_TaskCount' = 2
      BY <2>1
    <3>1. Tasks' \subseteq {Idle, Shell}
      BY <3>0 DEF Tasks, Idle, Shell
    <3> QED BY <2>1, <3>1, Zenon DEF Others
  <2>3. Roles'
    <3>1. /\ Idle \in TaskIds /\ Shell \in TaskIds /\ Idle # Shell
          /\ IdleLabels \subseteq Labels /\ pc'[Shell] = "prompt" /\ pc'[Idle] = pc[Idle]
      BY <1>4, SchedulerAssumption
         DEF Numbers, Shell, Idle, TaskIds, Labels, IdleLabels
    <3>2. pc'[Shell] \in ShellLabels
      BY <3>1 DEF ShellLabels
    <3>3. entry'[Shell] = "shell_task" /\ entry'[Idle] = entry[Idle]
      BY <1>4, <3>1 DEF Numbers
    <3>4. entry[Idle] = "start" /\ pc[Idle] \in IdleLabels
      BY <2>1 DEF Roles
    <3> QED BY <2>2, <3>1, <3>2, <3>3, <3>4 DEF Roles
  <2>4. Numbers'
    <3>1. entry' \in [TaskIds -> FnNames] /\ pc' \in [TaskIds -> Labels] /\ pc'[Shell] = "prompt"
      <4>1. entry \in [TaskIds -> FnNames] /\ pc \in [TaskIds -> Labels]
        BY DEF Numbers
      <4>2. Shell \in TaskIds /\ "shell_task" \in FnNames
        BY SchedulerAssumption DEF Shell, TaskIds, FnNames
      <4>3. "prompt" \in Labels
        BY DEF Labels
      <4> QED BY <1>4, <4>1, <4>2, <4>3
    <3> QED BY <1>4, <3>1
            DEF Numbers, shellVars, ThreadDemoLabels, SchedDemoLabels, PmmDemoLabels
  <2>5. Slots'
    <3>1. \A i \in TaskIds \ Tasks' : taskStack'[i] = NULL
      <4>1. \/ taskStack' = taskStack /\ g_TaskCount' = 1
            \/ \E page \in Pages : /\ taskStack' = [taskStack EXCEPT ![1] = page]
                                   /\ page = NULL \/ g_TaskCount' = 2
        BY <1>4, <2>1 DEF BootShell, Scheduler_CreateTask
      <4>2. ASSUME NEW i \in TaskIds \ Tasks' PROVE taskStack'[i] = NULL
        <5>1. i \in TaskIds \ Tasks /\ taskStack[i] = NULL
          <6>0. g_TaskCount' = 1 \/ g_TaskCount' = 2
            BY <2>1
          <6>1. Idle \in Tasks'
            BY <6>0 DEF Tasks, Idle
          <6>2. i \in TaskIds \ Tasks
            BY <2>1, <4>2, <6>1
          <6> QED BY <6>2 DEF Slots
        <5>2. g_TaskCount' = 2 => i # 1
          BY <4>2 DEF Tasks
        <5>3. taskStack \in [TaskIds -> Pages] /\ i \in TaskIds
          BY <4>2 DEF SInv, TableShape
        <5>4. CASE taskStack' = taskStack
          BY <5>1, <5>4
        <5>5. ASSUME NEW page \in Pages, taskStack' = [taskStack EXCEPT ![1] = page],
                     page = NULL \/ g_TaskCount' = 2
              PROVE  taskStack'[i] = NULL
          BY <5>1, <5>2, <5>3, <5>5
        <5> QED BY <4>1, <5>4, <5>5
      <4> QED BY <4>2
    <3> QED BY <2>1, <2>2, <3>1 DEF Slots
  <2>6. Phases' /\ DemoHeld'
    BY <1>4, <2>1, <2>2, SchedulerAssumption
       DEF Phases, DemoHeld, LiveOthers, Numbers, Shell, TaskIds, ThreadDemoLabels,
           SchedDemoLabels, PmmDemoLabels
  <2> QED BY <2>3, <2>4, <2>5, <2>6
<1> QED BY <1>2, <1>3, <1>4 DEF Boot


\* A step of a task that leaves the shell's places and numbers alone, whoever is
\* switched to.
LEMMA StepAside ==
    ASSUME SInv, Control, Running, SameTasks, Slots', Roles', Numbers',
           UNCHANGED <<ids, k, entry, g_DemoTasks, g_DemoRunning, g_ThreadDemoRunning,
                       demo_pages>>,
           pc'[Shell] = pc[Shell],
           pc[Shell] \in {"td_kill", "sd_kill"} => g_CurrentTask' = g_CurrentTask
    PROVE  Control'
BY DEF Control, SameTasks, Phases, DemoHeld, Running

LEMMA Aside ==
    ASSUME SInv, Control, Running,
           \/ UNCHANGED <<taskState, taskStack, g_TaskCount, g_CurrentTask, up, killed_self,
                          demo_pages>>
           \/ Scheduler_Yield /\ pc[me] \notin {"td_kill", "sd_kill"},
           \/ pc' = pc
           \/ \E label \in Labels :
                /\ pc' = [pc EXCEPT ![me] = label]
                /\ \/ me = Idle /\ label \in IdleLabels
                   \/ me \in Others /\ label \in {"body", "delay", "spin"}
                      /\ entry[me] \in DemoEntries
                   \/ me \in Others /\ label \in {"body", "sleep", "yield"}
                      /\ entry[me] \in CounterEntries,
           since' \in [TaskIds -> Nat], g_TimerTicks' \in Nat, g_SharedCounter' \in Nat,
           UNCHANGED <<entry, ids, k, g_DemoTasks, g_DemoRunning, g_ThreadDemoRunning>>
    PROVE  Control'
<1>1. SameTasks /\ Slots' /\ demo_pages' = demo_pages
  BY QuietKeeps, YieldKeeps DEF Control
<1>2. /\ pc' \in [TaskIds -> Labels] /\ pc'[Shell] = pc[Shell]
      /\ \A i \in TaskIds \ {me} : pc'[i] = pc[i]
  BY WhoRuns, TaskSets DEF Control, Numbers, SInv, Others, Idle, Shell
<1>3. Others' = Others /\ Others \subseteq TaskIds /\ Idle \in TaskIds /\ me \in TaskIds
      /\ g_TaskCount > 0 /\ Idle \notin Others
  BY <1>1, WhoRuns, TaskSets DEF SameTasks, Others, SInv, Control
<1>4. Roles'
  <2>1. pc'[Idle] \in IdleLabels
    BY <1>2, <1>3 DEF Control, Roles, Numbers
  <2>2. ASSUME NEW i \in Others
        PROVE  \/ entry[i] \in DemoEntries /\ pc'[i] \in {"body", "delay", "spin"}
               \/ entry[i] \in CounterEntries /\ pc'[i] \in {"body", "sleep", "yield"}
    BY <1>2, <1>3, <2>2 DEF Control, Roles, Numbers
  <2> QED BY <1>1, <1>2, <1>3, <2>1, <2>2 DEF Control, Roles, SameTasks
<1>5. Numbers'
  BY <1>1, <1>2 DEF Control, Numbers, SameTasks
<1>6. pc[Shell] \in {"td_kill", "sd_kill"} => g_CurrentTask' = g_CurrentTask
  BY DEF Control, Phases, Running, me
<1> QED BY <1>1, <1>2, <1>4, <1>5, <1>6, StepAside


\* The interrupts, and the waiting turns and loops of the idle task, the demos'
\* tasks and the shell: where each of them goes and who may be switched to.
LEMMA StepWait ==
    ASSUME SInv, Control,
           \/ Timer \/ Key \/ IdleLoop \/ DemoDelayOver
           \/ \E label \in {"prompt", "td_wait", "delay", "spin", "yield"} : WaitTurn(label)
           \/ \E n \in 1 .. 3 : Thread_Sleep(n)
    PROVE  Control'
<1>0. UNCHANGED <<since, g_TimerTicks, g_SharedCounter>> =>
        since' \in [TaskIds -> Nat] /\ g_TimerTicks' \in Nat /\ g_SharedCounter' \in Nat
  BY DEF Control, Numbers
<1>1. Stay => UNCHANGED <<taskState, taskStack, g_TaskCount, g_CurrentTask, up, killed_self,
                          demo_pages>>
  BY DEF Stay, schedOnly
<1>2. Poll \/ Thread_Yield => Scheduler_Yield
  BY DEF Poll, Thread_Yield
<1>3. CASE Timer \/ Key
  <2>1. Running /\ UNCHANGED <<taskState, taskStack, g_TaskCount, g_CurrentTask, up,
                               killed_self, demo_pages>>
    BY <1>1, <1>3 DEF Timer, TimerHandler, TimerIRQ, Key, schedOnly
  <2>2. \/ pc' = pc
        \/ me = Idle /\ pc' = [pc EXCEPT ![me] = "check"]
    BY <1>3 DEF Timer, Key, WakeUp
  <2>3. "check" \in Labels /\ "check" \in IdleLabels
    BY DEF Labels, IdleLabels
  <2> QED BY <1>0, <1>3, <2>1, <2>2, <2>3, Aside
          DEF Timer, TimerHandler, Key, shellVars
<1>4. CASE IdleLoop
  <2>1. Running /\ pc[me] \in IdleLabels /\ (Stay \/ Scheduler_Yield)
    BY <1>2, <1>4 DEF IdleLoop, At, IdleLabels
  <2>2. me = Idle /\ pc[me] \notin {"td_kill", "sd_kill"}
    BY <2>1, WhoRuns DEF IdleLabels, Control
  <2>3. \E label \in IdleLabels : label \in Labels /\ pc' = [pc EXCEPT ![me] = label]
    BY <1>4 DEF IdleLoop, Goto, IdleLabels, Labels
  <2> QED BY <1>0, <1>1, <1>4, <2>1, <2>2, <2>3, Aside DEF IdleLoop, shellVars
<1>5. CASE DemoDelayOver
  <2>1. Running /\ me \in Others /\ pc[me] = "delay"
    BY <1>5, WhoRuns DEF DemoDelayOver, At, Control
  <2>2. entry[me] \in DemoEntries
    BY <2>1 DEF Control, Roles
  <2>3. "body" \in Labels /\ pc' = [pc EXCEPT ![me] = "body"]
    BY <1>5 DEF DemoDelayOver, Goto, Labels
  <2> QED BY <1>0, <1>1, <1>5, <2>1, <2>2, <2>3, Aside DEF DemoDelayOver, shellVars
<1>6. ASSUME NEW label \in {"prompt", "td_wait", "delay", "spin", "yield"}, WaitTurn(label)
      PROVE  Control'
  <2>1. Running /\ pc[me] \notin {"td_kill", "sd_kill"} /\ Scheduler_Yield
    BY <1>2, <1>6 DEF WaitTurn, At
  <2> QED BY <1>0, <1>6, <2>1, Aside DEF WaitTurn, taskVars, shellVars
<1>7. ASSUME NEW n \in 1 .. 3, Thread_Sleep(n) PROVE Control'
  <2>1. Running /\ me \in Others /\ pc[me] = "sleep" /\ (Stay \/ Scheduler_Yield)
    BY <1>2, <1>7, WhoRuns DEF Thread_Sleep, At, Control
  <2>2. entry[me] \in CounterEntries
    BY <1>7 DEF Thread_Sleep, CounterEntries
  <2>3. "body" \in Labels /\ (pc' = pc \/ pc' = [pc EXCEPT ![me] = "body"])
    BY <1>7 DEF Thread_Sleep, Goto, Labels
  <2> QED BY <1>0, <1>1, <1>7, <2>1, <2>2, <2>3, Aside DEF Thread_Sleep, shellVars
<1> QED BY <1>3, <1>4, <1>5, <1>6, <1>7

\* While a task of a demo runs, the demo's flag is set: it never comes to kill.
LEMMA FlagSet ==
    ASSUME SInv, Control, Running, me \in Others
    PROVE  /\ entry[me] \in DemoEntries => g_DemoRunning
           /\ entry[me] \in CounterEntries => g_ThreadDemoRunning
<1>1. me \in LiveOthers /\ up /\ pc[Shell] \in ShellLabels
  BY DEF Control, Slots, LiveOthers, Roles, Running, me
<1>2. DemoEntries \cap CounterEntries = {}
  BY DEF DemoEntries, CounterEntries, DemoFns, CounterFns
<1>3. me # Shell
  BY DEF Others
<1> QED BY <1>1, <1>2, <1>3
        DEF Control, Phases, ShellLabels, ThreadDemoLabels, SchedDemoLabels, PmmDemoLabels, me

\* The bodies of the demos' tasks.
LEMMA StepBody ==
    ASSUME SInv, Control, NEW n \in 1 .. 3, DemoTask(n) \/ CounterThread(n)
    PROVE  Control'
<1>1. Running /\ me \in Others /\ me \in TaskIds
  BY WhoRuns DEF DemoTask, CounterThread, At, Control
<1>2. Stay => UNCHANGED <<taskState, taskStack, g_TaskCount, g_CurrentTask, up, killed_self,
                          demo_pages>>
  BY DEF Stay, schedOnly
<1>3. CASE DemoTask(n)
  <2>1. entry[me] \in DemoEntries
    BY <1>3 DEF DemoTask, DemoEntries
  <2>2. Stay /\ pc' = [pc EXCEPT ![me] = "delay"] /\ UNCHANGED <<entry, shellVars, g_TimerTicks>>
    BY <1>1, <1>3, <2>1, FlagSet DEF DemoTask, Goto
  <2>3. "delay" \in Labels
    BY DEF Labels
  <2> QED BY <1>1, <1>2, <2>1, <2>2, <2>3, Aside DEF shellVars, Control, Numbers
<1>4. CASE CounterThread(n)
  <2>1. entry[me] \in CounterEntries
    BY <1>4 DEF CounterThread, CounterEntries
  <2>2. /\ Stay /\ pc' = [pc EXCEPT ![me] = "sleep"]
        /\ g_SharedCounter' = CASE n = 1 -> g_SharedCounter + 1
                                [] n = 2 -> g_SharedCounter + 10
                                [] n = 3 -> IF g_SharedCounter > 100 THEN 0
                                            ELSE g_SharedCounter
        /\ since' = [since EXCEPT ![me] = g_TimerTicks]
        /\ UNCHANGED <<entry, k, ids, g_DemoRunning, g_DemoTasks, g_ThreadDemoRunning,
                       g_TimerTicks>>
    BY <1>1, <1>4, <2>1, FlagSet DEF CounterThread, Goto
  <2>3. "sleep" \in Labels
    BY DEF Labels
  <2>4. g_SharedCounter' \in Nat
    <3>1. n = 1 \/ n = 2 \/ n = 3
      OBVIOUS
    <3> QED BY <2>2, <3>1 DEF Control, Numbers
  <2>5. since' \in [TaskIds -> Nat] /\ g_TimerTicks' \in Nat
    BY <1>1, <2>2 DEF Control, Numbers
  <2> QED BY <1>1, <1>2, <2>1, <2>2, <2>3, <2>4, <2>5, Aside
<1> QED BY <1>3, <1>4

--------------------------------------------------------------------------------
\* The shell, at a prompt or in a command, goes to a place of its own.
LEMMA ShellGoes ==
    ASSUME SInv, Control, Running, me = Shell, NEW label \in ShellLabels,
           Others' = Others, entry' = entry, UNCHANGED <<g_TaskCount, up>>,
           pc' = [pc EXCEPT ![me] = label] \/ (pc' = pc /\ pc[Shell] = label)
    PROVE  Roles' /\ pc'[Shell] = label /\ pc' \in [TaskIds -> Labels] /\ up'
<1>1. Shell \in TaskIds /\ Others \subseteq TaskIds /\ Idle # Shell /\ Shell \notin Others
      /\ label \in Labels /\ Idle \in TaskIds /\ Idle \notin Others
  BY TaskSets DEF SInv, Others, Idle, Shell, ShellLabels, ThreadDemoLabels, SchedDemoLabels,
     PmmDemoLabels, Labels
<1>2. /\ pc'[Shell] = label /\ pc' \in [TaskIds -> Labels]
      /\ \A i \in TaskIds \ {Shell} : pc'[i] = pc[i]
  BY <1>1 DEF Control, Numbers
<1> QED BY <1>1, <1>2 DEF Control, Roles, Running

LEMMA StepMove ==
    ASSUME SInv, Control,
           ThreadDemo \/ ThreadDemoStop \/ SchedDemo \/ SchedDemoStop \/ PmmDemo
    PROVE  Control'
<1> USE DEF ShellLabels, ThreadDemoLabels, SchedDemoLabels, PmmDemoLabels
<1>1. Running /\ Stay /\ up /\ pc[me] \in ShellLabels
  BY DEF ThreadDemo, ThreadDemoStop, SchedDemo, SchedDemoStop, PmmDemo, At, Running
<1>2. me = Shell
  BY <1>1, WhoRuns DEF Control
<1>3. UNCHANGED <<taskState, taskStack, g_TaskCount, g_CurrentTask, up, killed_self,
                  demo_pages>>
  BY <1>1 DEF Stay, schedOnly
<1>4. SameTasks /\ Slots'
  BY <1>3, QuietKeeps DEF Control
<1>5. Others' = Others /\ LiveOthers' = LiveOthers /\ g_CurrentTask' = Shell
  BY <1>2, <1>3, <1>4 DEF SameTasks, me
<1>6. CASE ThreadDemo
  <2>1. Roles' /\ pc'[Shell] = "td_create" /\ pc' \in [TaskIds -> Labels] /\ up'
    <3>1. "td_create" \in ShellLabels
      OBVIOUS
    <3>2. pc' = [pc EXCEPT ![me] = "td_create"] /\ entry' = entry
      BY <1>6 DEF ThreadDemo, Goto
    <3> HIDE DEF ShellLabels
    <3> QED BY <1>1, <1>2, <1>3, <1>5, <3>1, <3>2, ShellGoes
  <2>2. LiveOthers' = {} /\ demo_pages' = {} /\ k' = 1 /\ g_ThreadDemoRunning' = TRUE
    BY <1>1, <1>2, <1>3, <1>5, <1>6 DEF ThreadDemo, At, Control, Phases, DemoHeld
  <2>3. Numbers'
    BY <1>6, <2>1, <2>2, KernelAssumption DEF ThreadDemo, Control, Numbers
  <2> QED BY <1>4, <2>1, <2>2, <2>3 DEF Control, Phases, DemoHeld
<1>7. CASE ThreadDemoStop
  <2>1. Roles' /\ pc'[Shell] = "td_kill" /\ pc' \in [TaskIds -> Labels] /\ up'
    <3>1. "td_kill" \in ShellLabels
      OBVIOUS
    <3>2. pc' = [pc EXCEPT ![me] = "td_kill"] /\ entry' = entry
      BY <1>7 DEF ThreadDemoStop, Goto
    <3> HIDE DEF ShellLabels
    <3> QED BY <1>1, <1>2, <1>3, <1>5, <3>1, <3>2, ShellGoes
  <2>2. /\ LiveOthers' \subseteq {ids'[m] : m \in k' .. 3} /\ demo_pages' = {} /\ k' = 1
        /\ \A i \in LiveOthers' : entry'[i] \in CounterEntries
    BY <1>1, <1>2, <1>3, <1>5, <1>7
       DEF ThreadDemoStop, At, Control, Phases, DemoHeld, Numbers
  <2>3. Numbers'
    <3>1. k' \in 1 .. (IF DemoPages > 3 THEN DemoPages ELSE 3) /\ k' <= 3
      BY <2>2, KernelAssumption
    <3> QED BY <1>7, <2>1, <2>2, <3>1, Zenon DEF ThreadDemoStop, Control, Numbers
  <2> QED BY <1>4, <1>5, <2>1, <2>2, <2>3 DEF Control, Phases, DemoHeld
<1>8. CASE SchedDemoStop
  <2>1. Roles' /\ pc'[Shell] = "sd_kill" /\ pc' \in [TaskIds -> Labels] /\ up'
    <3>1. "sd_kill" \in ShellLabels
      OBVIOUS
    <3>2. pc' = [pc EXCEPT ![me] = "sd_kill"] /\ entry' = entry
      BY <1>8 DEF SchedDemoStop, Goto
    <3> HIDE DEF ShellLabels
    <3> QED BY <1>1, <1>2, <1>3, <1>5, <3>1, <3>2, ShellGoes
  <2>2. /\ LiveOthers' \subseteq {g_DemoTasks'[m] : m \in k' .. 3} /\ demo_pages' = {} /\ k' = 1
        /\ \A i \in LiveOthers' : entry'[i] \in DemoEntries
    BY <1>1, <1>2, <1>3, <1>5, <1>8
       DEF SchedDemoStop, At, Control, Phases, DemoHeld, Numbers
  <2>3. Numbers'
    <3>1. k' \in 1 .. (IF DemoPages > 3 THEN DemoPages ELSE 3) /\ k' <= 3
      BY <2>2, KernelAssumption
    <3> QED BY <1>8, <2>1, <2>2, <3>1, Zenon DEF SchedDemoStop, Control, Numbers
  <2> QED BY <1>4, <1>5, <2>1, <2>2, <2>3 DEF Control, Phases, DemoHeld
<1>9. CASE SchedDemo /\ g_DemoRunning
  BY <1>3, <1>4, <1>5, <1>9
     DEF SchedDemo, Control, Roles, Numbers, Phases, DemoHeld, shellVars, SameTasks, me
<1>10. CASE SchedDemo /\ ~g_DemoRunning
  <2>1. Roles' /\ pc'[Shell] = "sd_create" /\ pc' \in [TaskIds -> Labels] /\ up'
    <3>1. "sd_create" \in ShellLabels
      OBVIOUS
    <3>2. pc' = [pc EXCEPT ![me] = "sd_create"] /\ entry' = entry
      BY <1>10 DEF SchedDemo, Goto
    <3> HIDE DEF ShellLabels
    <3> QED BY <1>1, <1>2, <1>3, <1>5, <3>1, <3>2, ShellGoes
  <2>2. LiveOthers' = {} /\ demo_pages' = {} /\ k' = 1 /\ g_DemoRunning' = TRUE
        /\ ids' = [n \in 1 .. 3 |-> g_TaskCount + n - 1]
    BY <1>1, <1>2, <1>3, <1>5, <1>10 DEF SchedDemo, At, Control, Phases, DemoHeld
  <2>3. g_TaskCount \in 2 .. MaxTasks
    BY <1>2, SchedulerAssumption DEF SInv, TableShape, me, Shell
  <2>4. ids' \in [1 .. 3 -> (-1 .. MaxTasks + 2) \ {Shell}]
    BY <2>2, <2>3, SchedulerAssumption DEF Shell
  <2>5. /\ \A m \in 1 .. 3 : ids'[m] = ids'[1] + m - 1
        /\ ids'[1] <= g_TaskCount' /\ g_TaskCount' <= ids'[1] + k' - 1
    BY <1>3, <2>2, <2>3
  <2>6. Numbers'
    BY <1>10, <2>1, <2>2, <2>4, KernelAssumption DEF SchedDemo, Control, Numbers
  <2> QED BY <1>4, <2>1, <2>2, <2>5, <2>6 DEF Control, Phases, DemoHeld
<1>11. CASE PmmDemo
  <2>1. Roles' /\ pc'[Shell] = "pd_alloc" /\ pc' \in [TaskIds -> Labels] /\ up'
    <3>1. "pd_alloc" \in ShellLabels
      OBVIOUS
    <3>2. pc' = [pc EXCEPT ![me] = "pd_alloc"] /\ entry' = entry
      BY <1>11 DEF PmmDemo, Goto
    <3> HIDE DEF ShellLabels
    <3> QED BY <1>1, <1>2, <1>3, <1>5, <3>1, <3>2, ShellGoes
  <2>2. LiveOthers' = {} /\ demo_pages' = {} /\ k' = 1
    BY <1>1, <1>2, <1>3, <1>5, <1>11 DEF PmmDemo, At, Control, Phases, DemoHeld
  <2>3. Numbers'
    BY <1>11, <2>1, <2>2, KernelAssumption DEF PmmDemo, Control, Numbers
  <2>4. Cardinality({}) = 0
    BY FS_EmptySet
  <2> QED BY <1>4, <2>1, <2>2, <2>3, <2>4 DEF Control, Phases, DemoHeld
<1> QED BY <1>6, <1>7, <1>8, <1>9, <1>10, <1>11

\* A demo's tasks are killed one by one, and the user's kill at the prompt hits
\* no task that is alive but the shell.
LEMMA StepKills ==
    ASSUME SInv, Control,
           ThreadDemoKill \/ SchedDemoKill \/ \E id \in TaskIds : Kill(id)
    PROVE  Control'
<1> USE DEF ShellLabels, ThreadDemoLabels, SchedDemoLabels, PmmDemoLabels
<1>1. Running /\ up /\ pc[me] \in ShellLabels
  BY DEF ThreadDemoKill, SchedDemoKill, KillLoop, Kill, At, Running
<1>2. me = Shell
  BY <1>1, WhoRuns DEF Control
<1>3. ASSUME NEW label \in {"td_kill", "sd_kill"}, NEW who \in [1 .. 3 -> (-1 .. MaxTasks + 2) \ {Shell}],
             KillLoop(label, who),
             LiveOthers \subseteq {who[m] : m \in k .. 3},
             label = "td_kill" => who = ids, label = "sd_kill" => who = g_DemoTasks
      PROVE  Control'
  <2>1. /\ KillTask(who[k]) /\ k' = (IF k = 3 THEN 1 ELSE k + 1)
        /\ IF k = 3 THEN Goto("prompt") ELSE pc' = pc
        /\ UNCHANGED <<entry, since, ids, g_DemoRunning, g_DemoTasks, g_ThreadDemoRunning,
                       g_SharedCounter, g_TimerTicks>>
        /\ pc[Shell] = label
    BY <1>2, <1>3 DEF KillLoop, At
  <2>2. k \in 1 .. 3
    BY <1>1, <2>1, KernelAssumption DEF Control, Numbers
  <2>3. who[k] \in Int /\ who[k] # Shell
    BY <1>3, <2>2, SchedulerAssumption
  <2>4. /\ Slots' /\ Others' = Others /\ LiveOthers' = LiveOthers \ {who[k]}
        /\ UNCHANGED <<g_TaskCount, g_CurrentTask, up, demo_pages>>
    BY <1>2, <2>1, <2>3, KillRemoves DEF Control, me
  <2>5. demo_pages' = {}
    BY <1>1, <1>3, <2>1, <2>4 DEF Control, DemoHeld
  <2>6. CASE k = 3
    <3>1. LiveOthers' = {}
      BY <1>3, <2>4, <2>6
    <3>2. Roles' /\ pc'[Shell] = "prompt" /\ pc' \in [TaskIds -> Labels] /\ up'
      <4>1. "prompt" \in ShellLabels
        OBVIOUS
      <4>2. pc' = [pc EXCEPT ![me] = "prompt"]
        BY <2>1, <2>6 DEF Goto
      <4> HIDE DEF ShellLabels
      <4> QED BY <1>1, <1>2, <2>1, <2>4, <4>1, <4>2, ShellGoes
    <3>3. Numbers'
      BY <2>1, <2>6, <3>2, KernelAssumption DEF Control, Numbers
    <3> QED BY <2>4, <2>5, <3>1, <3>2, <3>3 DEF Control, Phases, DemoHeld
  <2>7. CASE k # 3
    <3>1. k' = k + 1 /\ pc' = pc /\ k' \in 1 .. 3
      BY <2>1, <2>2, <2>7
    <3>2. LiveOthers' \subseteq {who[m] : m \in k' .. 3}
      <4>1. k .. 3 = {k} \cup (k' .. 3)
        BY <2>2, <2>7, <3>1
      <4> QED BY <1>3, <2>4, <4>1
    <3>3. Roles' /\ pc'[Shell] = label /\ pc' \in [TaskIds -> Labels] /\ up'
      BY <1>1, <1>2, <1>3, <2>1, <2>4, <3>1, ShellGoes
    <3>4. Numbers'
      BY <1>3, <2>1, <3>1, <3>3, KernelAssumption DEF Control, Numbers
    <3>5. /\ label = "td_kill" => \A i \in LiveOthers' : entry'[i] \in CounterEntries
          /\ label = "sd_kill" => \A i \in LiveOthers' : entry'[i] \in DemoEntries
      BY <1>1, <2>1, <2>4 DEF Control, Phases
    <3>6. Phases'
      BY <1>2, <1>3, <2>1, <2>4, <3>2, <3>3, <3>5 DEF Phases, me
    <3> QED BY <2>4, <2>5, <3>3, <3>4, <3>6 DEF Control, DemoHeld
  <2> QED BY <2>6, <2>7
<1>4. CASE ThreadDemoKill
  <2>1. pc[Shell] = "td_kill"
    BY <1>2, <1>4 DEF ThreadDemoKill, KillLoop, At
  <2>2. LiveOthers \subseteq {ids[m] : m \in k .. 3}
    BY <1>1, <2>1 DEF Control, Phases
  <2> QED BY <1>3, <1>4, <2>2 DEF ThreadDemoKill, Control, Numbers
<1>5. CASE SchedDemoKill
  <2>1. pc[Shell] = "sd_kill"
    BY <1>2, <1>5 DEF SchedDemoKill, KillLoop, At
  <2>2. LiveOthers \subseteq {g_DemoTasks[m] : m \in k .. 3}
    BY <1>1, <2>1 DEF Control, Phases
  <2> QED BY <1>3, <1>5, <2>2 DEF SchedDemoKill, Control, Numbers
<1>6. ASSUME NEW id \in TaskIds, Kill(id) PROVE Control'
  <2>1. /\ pc[Shell] = "prompt" /\ KillTask(id) /\ g_DemoRunning' = FALSE
        /\ UNCHANGED <<entry, pc, since, k, ids, g_DemoTasks, g_ThreadDemoRunning,
                       g_SharedCounter, g_TimerTicks>>
    BY <1>2, <1>6 DEF Kill, At
  <2>2. LiveOthers = {} /\ demo_pages = {}
    BY <1>1, <2>1 DEF Control, Phases, DemoHeld
  <2>3. /\ Slots' /\ Others' = Others /\ LiveOthers' = LiveOthers \ {id}
        /\ UNCHANGED <<g_TaskCount, g_CurrentTask, up, demo_pages>>
    BY <1>2, <2>1, KillRemoves DEF Control, me, TaskIds
  <2>4. Numbers' /\ Roles'
    BY <1>1, <2>1, <2>3 DEF Control, Numbers, Roles
  <2>5. Phases' /\ DemoHeld'
    BY <2>1, <2>2, <2>3 DEF Phases, DemoHeld
  <2> QED BY <2>3, <2>4, <2>5 DEF Control
<1> QED BY <1>4, <1>5, <1>6

\* The tasks of a demo are created: what Create does to the tasks' places.
LEMMA CreatePlaces ==
    ASSUME SInv, Control, NEW fns \in {CounterFns, DemoFns}, Create(fns),
           pc[me] \in {"td_create", "sd_create"}, me = Shell
    PROVE  /\ k \in 1 .. 3 /\ k' = (IF k = 3 THEN 1 ELSE k + 1)
           /\ Roles' /\ entry' \in [TaskIds -> FnNames] /\ pc' \in [TaskIds -> Labels]
           /\ pc'[Shell] = IF k # 3 THEN pc[Shell]
                           ELSE IF fns = DemoFns THEN "sd_wait" ELSE "td_wait"
           /\ \A i \in Others : entry'[i] = entry[i]
           /\ g_TaskCount' = g_TaskCount
              \/ entry'[g_TaskCount] \in (IF fns = DemoFns THEN DemoEntries ELSE CounterEntries)
<1> DEFINE new == g_TaskCount
           wait == IF fns = DemoFns THEN "sd_wait" ELSE "td_wait"
<1>1. /\ Slots' /\ up' = up /\ up /\ new \in Nat /\ new >= 2
      /\ \/ new' = new /\ Others' = Others
         \/ new' = new + 1 /\ new \in TaskIds \ Tasks /\ Others' = Others \cup {new}
  BY CreateAdds DEF Create, Control, me, SameTasks, CreateTask, Calling, Running
<1>2. k \in 1 .. 3
  BY <1>1, KernelAssumption DEF Control, Numbers, ThreadDemoLabels, SchedDemoLabels
<1>3. /\ k' = (IF k = 3 THEN 1 ELSE k + 1)
      /\ entry' = (IF new' = new THEN entry ELSE [entry EXCEPT ![new] = fns[k]])
      /\ pc' = [i \in TaskIds |-> IF i = new /\ new' # new THEN "body"
                                  ELSE IF i = Shell /\ k = 3 THEN wait ELSE pc[i]]
  BY DEF Create
<1>4. /\ fns[k] \in (IF fns = DemoFns THEN DemoEntries ELSE CounterEntries)
      /\ DemoEntries \cup CounterEntries \subseteq FnNames
  <2>1. fns = DemoFns => fns[k] \in DemoEntries
    BY <1>2 DEF DemoEntries
  <2>2. fns # DemoFns => fns[k] \in CounterEntries
    BY <1>2 DEF CounterEntries
  <2>3. DemoEntries \cup CounterEntries \subseteq FnNames
    BY DEF DemoEntries, CounterEntries, FnNames
  <2> QED BY <2>1, <2>2, <2>3
<1>5. /\ Shell \in TaskIds /\ Idle \in TaskIds /\ Others \subseteq TaskIds
      /\ Shell # new /\ Idle # new /\ new \notin Others /\ Idle # Shell
      /\ Idle \notin Others /\ Shell \notin Others
  <2>1. Shell # new /\ Idle # new /\ Idle # Shell
    BY <1>1 DEF Shell, Idle
  <2>2. new \notin Tasks
    BY <1>1 DEF Tasks
  <2> QED BY <2>1, <2>2, TaskSets DEF SInv, Others
<1>6. entry' \in [TaskIds -> FnNames]
  BY <1>1, <1>3, <1>4 DEF Control, Numbers
<1>7. "body" \in Labels /\ wait \in Labels /\ wait \in ShellLabels
  BY DEF Labels, ShellLabels, ThreadDemoLabels, SchedDemoLabels
<1>8. pc' \in [TaskIds -> Labels]
  BY <1>3, <1>7 DEF Control, Numbers
<1>9. /\ pc'[Shell] = IF k # 3 THEN pc[Shell] ELSE wait
      /\ pc'[Idle] = pc[Idle]
      /\ \A i \in Others : pc'[i] = pc[i]
      /\ new' # new /\ new \in TaskIds => pc'[new] = "body"
  BY <1>3, <1>5
<1>10. /\ \A i \in Others \cup {Idle, Shell} : entry'[i] = entry[i]
       /\ new' # new /\ new \in TaskIds => entry'[new] = fns[k]
  BY <1>3, <1>5 DEF Control, Numbers
<1>11. Roles'
  <2>1. entry'[Idle] = "start" /\ pc'[Idle] \in IdleLabels
    BY <1>1, <1>9, <1>10 DEF Control, Roles
  <2>2. entry'[Shell] = "shell_task" /\ pc'[Shell] \in ShellLabels
    BY <1>1, <1>7, <1>9, <1>10 DEF Control, Roles
  <2>3. ASSUME NEW i \in Others'
        PROVE  \/ entry'[i] \in DemoEntries /\ pc'[i] \in {"body", "delay", "spin"}
               \/ entry'[i] \in CounterEntries /\ pc'[i] \in {"body", "sleep", "yield"}
    <3>1. CASE i \in Others
      BY <1>9, <1>10, <3>1 DEF Control, Roles
    <3>2. CASE i = new /\ new' # new /\ new \in TaskIds
      BY <1>4, <1>9, <1>10, <3>2
    <3>3. new' = new + 1 => new' # new
      BY <1>1
    <3> QED BY <1>1, <2>3, <3>1, <3>2, <3>3
  <2> QED BY <2>1, <2>2, <2>3 DEF Roles
<1>12. new' = new + 1 => new' # new
  BY <1>1
<1> QED BY <1>1, <1>2, <1>3, <1>4, <1>6, <1>8, <1>9, <1>10, <1>11, <1>12

LEMMA StepThreadDemoCreate ==
    ASSUME SInv, Control, ThreadDemoCreate
    PROVE  Control'
<1>1. /\ Running /\ up /\ pc[me] = "td_create" /\ me = Shell
      /\ Create(CounterFns) /\ UNCHANGED <<since, g_DemoTasks>>
      /\ ids' = [ids EXCEPT ![k] = IF g_TaskCount' = g_TaskCount THEN -1 ELSE g_TaskCount]
  BY WhoRuns DEF ThreadDemoCreate, At, Running, Control, ShellLabels, ThreadDemoLabels
<1>2. CounterFns # DemoFns
  <2>1. CounterFns[1] # DemoFns[1]
    BY DEF CounterFns, DemoFns
  <2> QED BY <2>1
<1>3. /\ k \in 1 .. 3 /\ k' = (IF k = 3 THEN 1 ELSE k + 1)
      /\ Roles' /\ entry' \in [TaskIds -> FnNames] /\ pc' \in [TaskIds -> Labels]
      /\ pc'[Shell] = (IF k # 3 THEN "td_create" ELSE "td_wait")
      /\ \A i \in Others : entry'[i] = entry[i]
      /\ g_TaskCount' = g_TaskCount \/ entry'[g_TaskCount] \in CounterEntries
  BY <1>1, <1>2, CreatePlaces
<1>4. /\ Slots' /\ g_TaskCount \in Nat /\ g_TaskCount >= 2 /\ g_TaskCount <= MaxTasks
      /\ UNCHANGED <<g_CurrentTask, up, demo_pages>>
      /\ \/ g_TaskCount' = g_TaskCount /\ LiveOthers' = LiveOthers
         \/ g_TaskCount' = g_TaskCount + 1 /\ LiveOthers' = LiveOthers \cup {g_TaskCount}
  BY <1>1, CreateAdds DEF Create, Control, me, SameTasks
<1>5. /\ ids' \in [1 .. 3 -> (-1 .. MaxTasks + 2) \ {Shell}]
      /\ \A m \in 1 .. 3 : m # k => ids'[m] = ids[m]
      /\ g_TaskCount' # g_TaskCount => ids'[k] = g_TaskCount
  BY <1>1, <1>3, <1>4, SchedulerAssumption DEF Control, Numbers, Shell
<1>6. LiveOthers \subseteq {ids[m] : m \in 1 .. k - 1} /\ g_ThreadDemoRunning
      /\ demo_pages = {} /\ \A i \in LiveOthers : entry[i] \in CounterEntries
  BY <1>1 DEF Control, Phases, DemoHeld, PmmDemoLabels, ThreadDemoLabels
<1>7. LiveOthers' \subseteq {ids'[m] : m \in 1 .. k}
  <2>1. {ids[m] : m \in 1 .. k - 1} \subseteq {ids'[m] : m \in 1 .. k}
    BY <1>3, <1>5
  <2>2. g_TaskCount' # g_TaskCount => g_TaskCount \in {ids'[m] : m \in 1 .. k}
    BY <1>3, <1>5
  <2>3. g_TaskCount' = g_TaskCount + 1 => g_TaskCount' # g_TaskCount
    BY <1>4
  <2> QED BY <1>4, <1>6, <2>1, <2>2, <2>3
<1>8. \A i \in LiveOthers' : entry'[i] \in CounterEntries
  <2>1. g_TaskCount' = g_TaskCount + 1 => g_TaskCount' # g_TaskCount
    BY <1>4
  <2> QED BY <1>3, <1>4, <1>6, <2>1 DEF LiveOthers
<1>9. UNCHANGED <<g_DemoRunning, g_ThreadDemoRunning, g_SharedCounter, g_TimerTicks>>
  BY <1>1 DEF Create
<1>10. Numbers'
  <2>1. k' \in 1 .. (IF DemoPages > 3 THEN DemoPages ELSE 3) /\ k' <= 3 /\ (k = 3 => k' = 1)
    BY <1>3, KernelAssumption
  <2>2. pc'[Shell] \notin PmmDemoLabels /\ pc'[Shell] # "sd_wait" /\ (pc'[Shell] = "td_wait" => k = 3)
    BY <1>3 DEF PmmDemoLabels
  <2> QED BY <1>1, <1>3, <1>5, <1>9, <2>1, <2>2, Zenon DEF Control, Numbers
<1>11. Phases' /\ DemoHeld'
  <2>1. pc'[Shell] = "td_create" => k # 3 /\ k' - 1 = k
    BY <1>3
  <2>2. pc'[Shell] = "td_wait" => k = 3
    BY <1>3
  <2>3. pc'[Shell] \in {"td_create", "td_wait"}
    BY <1>3
  <2>4. demo_pages' = {} /\ g_ThreadDemoRunning'
    BY <1>4, <1>6, <1>9
  <2> QED BY <1>7, <1>8, <2>1, <2>2, <2>3, <2>4
          DEF Phases, DemoHeld, ThreadDemoLabels, SchedDemoLabels, PmmDemoLabels
<1> QED BY <1>3, <1>4, <1>10, <1>11 DEF Control

LEMMA StepSchedDemoCreate ==
    ASSUME SInv, Control, SchedDemoCreate
    PROVE  Control'
<1>1. /\ Running /\ up /\ pc[me] = "sd_create" /\ me = Shell
      /\ Create(DemoFns) /\ UNCHANGED ids
      /\ g_DemoTasks' = (IF k = 3 THEN ids ELSE g_DemoTasks)
      /\ since' = IF k = 3 THEN [since EXCEPT ![me] = g_TimerTicks] ELSE since
  BY WhoRuns DEF SchedDemoCreate, At, Running, Control, ShellLabels, SchedDemoLabels
<1>2. /\ k \in 1 .. 3 /\ k' = (IF k = 3 THEN 1 ELSE k + 1)
      /\ Roles' /\ entry' \in [TaskIds -> FnNames] /\ pc' \in [TaskIds -> Labels]
      /\ pc'[Shell] = (IF k # 3 THEN "sd_create" ELSE "sd_wait")
      /\ \A i \in Others : entry'[i] = entry[i]
      /\ g_TaskCount' = g_TaskCount \/ entry'[g_TaskCount] \in DemoEntries
  BY <1>1, CreatePlaces
<1>3. /\ Slots' /\ g_TaskCount \in Nat /\ g_TaskCount >= 2 /\ g_TaskCount <= MaxTasks
      /\ UNCHANGED <<g_CurrentTask, up, demo_pages>>
      /\ \/ g_TaskCount' = g_TaskCount /\ LiveOthers' = LiveOthers
         \/ g_TaskCount' = g_TaskCount + 1 /\ LiveOthers' = LiveOthers \cup {g_TaskCount}
  BY <1>1, CreateAdds DEF Create, Control, me, SameTasks
<1>4. /\ \A m \in 1 .. 3 : ids[m] = ids[1] + m - 1
      /\ LiveOthers \subseteq ids[1] .. g_TaskCount - 1
      /\ ids[1] <= g_TaskCount /\ g_TaskCount <= ids[1] + k - 1
      /\ g_DemoRunning /\ demo_pages = {} /\ \A i \in LiveOthers : entry[i] \in DemoEntries
  BY <1>1 DEF Control, Phases, DemoHeld, PmmDemoLabels, SchedDemoLabels
<1>5. ids[1] \in Int /\ ids \in [1 .. 3 -> (-1 .. MaxTasks + 2) \ {Shell}]
  BY SchedulerAssumption DEF Control, Numbers
<1>6. LiveOthers' \subseteq ids[1] .. g_TaskCount' - 1
  <2>1. ids[1] .. g_TaskCount - 1 \subseteq ids[1] .. g_TaskCount
    BY <1>3, <1>5
  <2>2. g_TaskCount \in ids[1] .. g_TaskCount
    BY <1>3, <1>4, <1>5
  <2>3. g_TaskCount' = g_TaskCount + 1 => g_TaskCount' - 1 = g_TaskCount
    BY <1>3
  <2> QED BY <1>3, <1>4, <2>1, <2>2, <2>3
<1>7. ids[1] <= g_TaskCount' /\ g_TaskCount' <= ids[1] + k
  BY <1>2, <1>3, <1>4, <1>5
<1>8. k = 3 => LiveOthers' \subseteq {ids[m] : m \in 1 .. 3}
  <2>1. ASSUME k = 3, NEW i \in LiveOthers' PROVE i \in {ids[m] : m \in 1 .. 3}
    <3>1. i \in ids[1] .. ids[1] + 2
      BY <1>3, <1>5, <1>6, <1>7, <2>1
    <3>2. i = ids[1] \/ i = ids[1] + 1 \/ i = ids[1] + 2
      BY <1>5, <3>1
    <3>3. ids[2] = ids[1] + 1 /\ ids[3] = ids[1] + 2
      <4>1. ids[2] = ids[1] + 2 - 1 /\ ids[3] = ids[1] + 3 - 1
        BY <1>4
      <4> QED BY <1>5, <4>1
    <3> QED BY <3>2, <3>3
  <2> QED BY <2>1
<1>9. \A i \in LiveOthers' : entry'[i] \in DemoEntries
  <2>1. g_TaskCount' = g_TaskCount + 1 => g_TaskCount' # g_TaskCount
    BY <1>3
  <2> QED BY <1>2, <1>3, <1>4, <2>1 DEF LiveOthers
<1>10. UNCHANGED <<g_DemoRunning, g_ThreadDemoRunning, g_SharedCounter, g_TimerTicks>>
  BY <1>1 DEF Create
<1>11. Numbers'
  <2>1. k' \in 1 .. (IF DemoPages > 3 THEN DemoPages ELSE 3) /\ k' <= 3 /\ (k = 3 => k' = 1)
    BY <1>2, KernelAssumption
  <2>2. pc'[Shell] \notin PmmDemoLabels /\ pc'[Shell] # "td_wait" /\ (pc'[Shell] = "sd_wait" => k = 3)
    BY <1>2 DEF PmmDemoLabels
  <2>3. since' \in [TaskIds -> Nat]
    BY <1>1 DEF Control, Numbers
  <2>4. g_DemoTasks' \in [1 .. 3 -> (-1 .. MaxTasks + 2) \ {Shell}]
    BY <1>1, <1>5 DEF Control, Numbers
  <2> QED BY <1>1, <1>2, <1>5, <1>10, <2>1, <2>2, <2>3, <2>4, Zenon DEF Control, Numbers
<1>12. Phases' /\ DemoHeld'
  <2>1. pc'[Shell] = "sd_create" => k' - 1 = k
    BY <1>2
  <2>2. pc'[Shell] = "sd_create" => g_TaskCount' <= ids'[1] + k' - 1
    BY <1>1, <1>2, <1>3, <1>5, <1>7
  <2>3. pc'[Shell] = "sd_wait" => k = 3
    BY <1>2
  <2>4. pc'[Shell] \in {"sd_create", "sd_wait"}
    BY <1>2
  <2>5. demo_pages' = {} /\ g_DemoRunning' /\ ids' = ids
    BY <1>1, <1>3, <1>4, <1>10
  <2>6. pc'[Shell] = "sd_wait" => LiveOthers' \subseteq {g_DemoTasks'[m] : m \in 1 .. 3}
    BY <1>1, <1>8, <2>3
  <2>7. DemoHeld'
    BY <2>4, <2>5 DEF DemoHeld, PmmDemoLabels
  <2> QED BY <1>4, <1>6, <1>7, <1>9, <2>2, <2>4, <2>5, <2>6, <2>7
          DEF Phases, ThreadDemoLabels, SchedDemoLabels
<1> QED BY <1>2, <1>3, <1>11, <1>12 DEF Control

--------------------------------------------------------------------------------
LEMMA PageSets ==
    ASSUME NEW S, S \subseteq Pages
    PROVE  IsFiniteSet(S) /\ Cardinality(S) \in Nat
<1>1. IsFiniteSet(Pages)
  BY FS_Interval, PmmAssumption DEF Pages
<1> QED BY <1>1, FS_Subset, FS_CardinalityType

\* The demo of the page allocator takes DemoPages pages at most and gives as many
\* back: an entry of its array is NULL or a page, and each is freed once.
LEMMA StepPmmDemo ==
    ASSUME SInv, Control, PmmDemoAlloc \/ PmmDemoFree
    PROVE  Control'
<1>1. Running /\ up /\ pc[me] \in PmmDemoLabels /\ me = Shell
  BY WhoRuns DEF PmmDemoAlloc, PmmDemoFree, PmmDemoLoop, At, Running, Control, PmmDemoLabels,
     ShellLabels
<1>2. /\ k \in 1 .. DemoPages /\ DemoPages \in Nat \ {0}
      /\ demo_pages \subseteq Pages /\ LiveOthers = {}
  BY <1>1, KernelAssumption DEF Control, Numbers, Phases, SInv, TableShape, PmmDemoLabels
<1>3. /\ k' = (IF k = DemoPages THEN 1 ELSE k + 1)
      /\ k' \in 1 .. DemoPages
      /\ UNCHANGED <<entry, since, ids, g_DemoRunning, g_DemoTasks, g_ThreadDemoRunning,
                     g_SharedCounter, g_TimerTicks>>
      /\ UNCHANGED <<taskState, taskStack, g_TaskCount, g_CurrentTask, up, killed_self>>
  BY <1>2 DEF PmmDemoAlloc, PmmDemoFree, PmmDemoLoop, DemoAlloc, DemoFree
<1>4. Slots' /\ SameTasks /\ Others' = Others /\ LiveOthers' = {}
  BY <1>2, <1>3, QuietKeeps DEF Control, SameTasks
<1>5. ASSUME NEW label \in ShellLabels \ (ThreadDemoLabels \cup SchedDemoLabels),
             pc' = [pc EXCEPT ![me] = label] \/ (pc' = pc /\ pc[Shell] = label),
             label = "prompt" => demo_pages' = {},
             label = "pd_alloc" => Cardinality(demo_pages') <= k' - 1,
             label = "pd_free" => Cardinality(demo_pages') <= DemoPages - k' + 1
      PROVE  Control'
  <2>1. Roles' /\ pc'[Shell] = label /\ pc' \in [TaskIds -> Labels] /\ up'
    BY <1>1, <1>3, <1>4, <1>5, ShellGoes
  <2>2. /\ k' \in 1 .. (IF DemoPages > 3 THEN DemoPages ELSE 3) /\ k' <= DemoPages
        /\ label \notin ThreadDemoLabels \cup SchedDemoLabels
        /\ label \notin {"td_wait", "sd_wait"}
    BY <1>2, <1>3, <1>5 DEF ThreadDemoLabels, SchedDemoLabels
  <2>3. Numbers'
    BY <1>3, <2>1, <2>2, Zenon DEF Control, Numbers
  <2>4. label = "prompt" \/ label = "pd_alloc" \/ label = "pd_free"
    BY <1>5 DEF ShellLabels, PmmDemoLabels
  <2>5. Phases' /\ DemoHeld'
    BY <1>4, <1>5, <2>1, <2>4
       DEF Phases, DemoHeld, ThreadDemoLabels, SchedDemoLabels, PmmDemoLabels
  <2> QED BY <1>4, <2>1, <2>3, <2>5 DEF Control
<1>6. /\ {"prompt", "pd_alloc", "pd_free"} \subseteq ShellLabels \ (ThreadDemoLabels \cup SchedDemoLabels)
  BY DEF ShellLabels, PmmDemoLabels, ThreadDemoLabels, SchedDemoLabels
<1>7. CASE PmmDemoAlloc
  <2>1. PICK page \in Pages : demo_pages' = demo_pages \cup ({page} \ {NULL})
    BY <1>7 DEF PmmDemoAlloc, DemoAlloc
  <2>2. /\ pc[Shell] = "pd_alloc" /\ Cardinality(demo_pages) <= k - 1
        /\ IF k = DemoPages THEN Goto("pd_free") ELSE pc' = pc
    BY <1>1, <1>7 DEF PmmDemoAlloc, PmmDemoLoop, At, Control, DemoHeld
  <2>3. Cardinality(demo_pages') <= k
    <3>1. IsFiniteSet(demo_pages) /\ Cardinality(demo_pages) \in Nat
      BY <1>2, PageSets
    <3>2. demo_pages' = demo_pages \/ (page \notin demo_pages /\ demo_pages' = demo_pages \cup {page})
      BY <2>1
    <3>3. page \notin demo_pages =>
            Cardinality(demo_pages \cup {page}) = Cardinality(demo_pages) + 1
      BY <3>1, FS_AddElement
    <3>4. \/ Cardinality(demo_pages') = Cardinality(demo_pages)
          \/ Cardinality(demo_pages') = Cardinality(demo_pages) + 1
      BY <3>2, <3>3, Zenon
    <3> QED BY <1>2, <2>2, <3>1, <3>4
  <2>4. CASE k = DemoPages
    <3>1. k' = 1 /\ Cardinality(demo_pages') <= DemoPages - k' + 1
      BY <1>2, <1>3, <2>3, <2>4
    <3> QED BY <1>5, <1>6, <2>2, <2>4, <3>1 DEF Goto
  <2>5. CASE k # DemoPages
    <3>1. Cardinality(demo_pages') <= k' - 1
      BY <1>2, <1>3, <2>3, <2>5
    <3> QED BY <1>5, <1>6, <2>2, <2>5, <3>1
  <2> QED BY <2>4, <2>5
<1>8. CASE PmmDemoFree
  <2>1. PICK page : demo_pages' = demo_pages \ {page}
    BY <1>8 DEF PmmDemoFree, DemoFree
  <2>2. /\ pc[Shell] = "pd_free" /\ Cardinality(demo_pages) <= DemoPages - k + 1
        /\ IF k = DemoPages THEN Goto("prompt") ELSE pc' = pc
        /\ demo_pages # {} => demo_pages' # demo_pages
    BY <1>1, <1>8 DEF PmmDemoFree, PmmDemoLoop, At, Control, DemoHeld
  <2>3. /\ Cardinality(demo_pages') <= DemoPages - k
        /\ IsFiniteSet(demo_pages') /\ Cardinality(demo_pages') \in Nat
    <3>1. /\ IsFiniteSet(demo_pages) /\ Cardinality(demo_pages) \in Nat
          /\ IsFiniteSet(demo_pages') /\ Cardinality(demo_pages') \in Nat
      BY <1>2, <2>1, PageSets
    <3>2. CASE demo_pages = {}
      <4>1. Cardinality(demo_pages') = 0
        BY <2>1, <3>2, FS_EmptySet
      <4> QED BY <1>2, <3>1, <4>1
    <3>3. CASE demo_pages # {}
      <4>1. page \in demo_pages
        BY <2>1, <2>2, <3>3
      <4>2. Cardinality(demo_pages \ {page}) = Cardinality(demo_pages) - 1
        BY <3>1, <4>1, FS_RemoveElement
      <4> QED BY <1>2, <2>1, <2>2, <3>1, <4>2
    <3> QED BY <3>2, <3>3
  <2>4. CASE k = DemoPages
    <3>1. Cardinality(demo_pages') = 0
      BY <1>2, <2>3, <2>4
    <3>2. demo_pages' = {}
      BY <2>3, <3>1, FS_EmptySet
    <3> QED BY <1>5, <1>6, <2>2, <2>4, <3>2 DEF Goto
  <2>5. CASE k # DemoPages
    <3>1. Cardinality(demo_pages') <= DemoPages - k' + 1
      BY <1>2, <1>3, <2>3, <2>5
    <3> QED BY <1>5, <1>6, <2>2, <2>5, <3>1
  <2> QED BY <2>4, <2>5
<1> QED BY <1>7, <1>8

LEMMA ControlStays == ASSUME Control, UNCHANGED vars PROVE Control'
BY DEF vars, taskVars, shellVars, schedVars, schedOnly, Control, Roles, Numbers, Slots, Phases,
   DemoHeld, Others, LiveOthers, Tasks

LEMMA ControlInductive == SInv /\ Control /\ SInv' /\ [Next]_vars => Control'
<1> SUFFICES ASSUME SInv, Control, SInv', [Next]_vars PROVE Control'
  OBVIOUS
<1>1. CASE Boot
  BY <1>1, StepBoot
<1>2. CASE \/ Timer \/ Key \/ IdleLoop \/ DemoDelayOver
           \/ \E label \in {"prompt", "td_wait", "delay", "spin", "yield"} : WaitTurn(label)
           \/ \E n \in 1 .. 3 : Thread_Sleep(n)
  BY <1>2, StepWait
<1>3. CASE \E n \in 1 .. 3 : DemoTask(n) \/ CounterThread(n)
  BY <1>3, StepBody
<1>4. CASE ThreadDemo \/ ThreadDemoStop \/ SchedDemo \/ SchedDemoStop \/ PmmDemo
  BY <1>4, StepMove
<1>5. CASE ThreadDemoKill \/ SchedDemoKill \/ \E id \in TaskIds : Kill(id)
  BY <1>5, StepKills
<1>6. CASE ThreadDemoCreate \/ SchedDemoCreate
  BY <1>6, StepThreadDemoCreate, StepSchedDemoCreate
<1>7. CASE SchedDemoTurn
  <2>1. CASE SchedDemoStop
    BY <2>1, StepMove
  <2>2. CASE At("sd_wait") /\ Poll /\ UNCHANGED taskVars
    <3>1. Running /\ Scheduler_Yield /\ pc[me] \notin {"td_kill", "sd_kill"}
      BY <2>2 DEF At, Poll
    <3>2. since' \in [TaskIds -> Nat] /\ g_TimerTicks' \in Nat /\ g_SharedCounter' \in Nat
      BY <2>2 DEF taskVars, shellVars, Control, Numbers
    <3> QED BY <2>2, <3>1, <3>2, Aside DEF taskVars, shellVars
  <2> QED BY <1>7, <2>1, <2>2 DEF SchedDemoTurn
<1>8. CASE PmmDemoAlloc \/ PmmDemoFree
  BY <1>8, StepPmmDemo
<1>9. CASE (Undefined /\ UNCHANGED taskVars) \/ UNCHANGED vars
  BY <1>9, ControlStays DEF Undefined, vars
<1> QED BY <1>1, <1>2, <1>3, <1>4, <1>5, <1>6, <1>7, <1>8, <1>9 DEF Next, Step, Command

LEMMA KInductive == KInv /\ [Next]_vars => KInv' /\ [SchedNext]_schedVars
<1> SUFFICES ASSUME KInv, [Next]_vars PROVE KInv' /\ [SchedNext]_schedVars
  OBVIOUS
<1>1. [SchedNext]_schedVars
  BY StepMaps DEF KInv, Control
<1>2. SInv' /\ GrantedStep
  BY <1>1, SchedInductive DEF KInv
<1>3. Control'
  BY <1>2, ControlInductive DEF KInv
<1>4. Granted!Filled'
  BY <1>2, Granted!StepFilled, PmmAssumption DEF KInv, SInv, GrantedStep, Granted!Region, Region
<1> QED BY <1>1, <1>2, <1>3, <1>4 DEF KInv

LEMMA InitKInv == Init => KInv /\ SchedInit
<1>1. SchedInit => SInv /\ Granted!Init
  BY InitSInv
<1>2. Granted!Init => Granted!Filled
  BY Granted!InitFilled, PmmAssumption DEF Granted!Region, Region
<1> QED BY <1>1, <1>2, InitControl DEF KInv, Init

\* The invariant of the kernel's own tasks.
THEOREM KernelInvariance == Spec => []KInv
BY InitKInv, KInductive, PTL DEF Spec

\* The kernel's tasks use the scheduler's interface and nothing else of it, so
\* what holds of the scheduler under any calls holds of the kernel (main.c:43-64,
\* shell.c:16-46, 216-242, 347-406, 540-600, 780-801).
THEOREM TasksUseTheScheduler == Spec => RefinesScheduler
BY KernelInvariance, InitKInv, KInductive, PTL DEF Spec, RefinesScheduler, SchedSpec

--------------------------------------------------------------------------------
\* Types, and what the prompt finds when it is back.
THEOREM KernelTyped == Spec => []TypeOK
<1>1. KInv => TypeOK
  <2> SUFFICES ASSUME KInv PROVE TypeOK
    OBVIOUS
  <2>1. SchedTypeOK
    BY SInvGives DEF KInv, TasksSound
  <2>2. \A f \in [1 .. 3 -> (-1 .. MaxTasks + 2) \ {Shell}] : f \in [1 .. 3 -> -1 .. MaxTasks + 2]
    OBVIOUS
  <2> QED BY <2>1, <2>2, Zenon DEF TypeOK, KInv, Control, Numbers
<1> QED BY <1>1, KernelInvariance, PTL

\* The pages held, in the scheduler's words.
LEMMA HeldPages ==
    ASSUME KInv
    PROVE  /\ Granted!Held = Stacks \cup demo_pages
           /\ Stacks \subseteq {taskStack[Shell]} \cup {taskStack[i] : i \in LiveOthers}
           /\ taskStack[Shell] # NULL => Shell \in Tasks
           /\ PmmReady => (FreeSet \cup Stacks \cup demo_pages) \ {0} = Ram \ Reserved
           /\ PmmReady /\ ~out_of_memory => 0 \in g_Used
<1>1. Granted!Held = Stacks \cup demo_pages
  BY DEF Granted!Held
<1>2. Stacks \subseteq {taskStack[Shell]} \cup {taskStack[i] : i \in LiveOthers}
  BY DEF Stacks, KInv, SInv, StacksApart, Control, Slots, LiveOthers, Others
<1>3. taskStack[Shell] # NULL => Shell \in Tasks
  BY TaskSets DEF KInv, SInv, Control, Slots
<1>4. Granted!Ram = Ram /\ Granted!Reserved = Reserved /\ Granted!FreeSet = FreeSet
      /\ (Granted!PmmReady <=> PmmReady)
  BY DEF Granted!Ram, Ram, Granted!Reserved, Reserved, Granted!KernelPages, KernelPages,
     Granted!Pages, Pages, Granted!FreeSet, FreeSet, Granted!PmmReady, PmmReady
<1>5. PmmReady => (FreeSet \cup Stacks \cup demo_pages) \ {0} = Ram \ Reserved
  BY <1>1, <1>4 DEF KInv, Granted!Filled
<1>6. PmmReady /\ ~out_of_memory => 0 \in g_Used
  BY <1>4 DEF KInv, SInv, Granted!IInv, Granted!ReservedUsed
<1> QED BY <1>1, <1>2, <1>3, <1>5, <1>6

LEMMA CleanPrompt == KInv => (~out_of_memory => DemosClean)
<1> SUFFICES ASSUME KInv, ~out_of_memory PROVE DemosClean
  OBVIOUS
<1>1. OnlyTheShellKillsItself
  BY DEF KInv, Control, Slots, OnlyTheShellKillsItself
<1>2. ASSUME Running, pc[Shell] = "prompt"
      PROVE  /\ \A i \in Tasks \ {Idle, Shell} : taskState[i] = DEAD
             /\ FreeSet = Ram \ (Reserved \cup {taskStack[Shell]})
  <2>1. up /\ PmmReady /\ LiveOthers = {} /\ demo_pages = {}
    BY <1>2 DEF Running, KInv, SInv, Started, Control, Phases, DemoHeld, PmmDemoLabels
  <2>2. \A i \in Tasks \ {Idle, Shell} : taskState[i] = DEAD
    BY <2>1 DEF LiveOthers, Others
  <2>3. Stacks \cup {NULL} = {taskStack[Shell], NULL}
    BY <2>1, HeldPages DEF Stacks
  <2>4. Stacks \subseteq g_Used
    BY GrantedGives DEF KInv, SInv
  <2>5. 0 \notin FreeSet /\ (FreeSet \cup Stacks) \ {0} = Ram \ Reserved /\ FreeSet \cap Stacks = {}
    BY <2>1, <2>4, HeldPages DEF FreeSet
  <2>6. FreeSet = Ram \ (Reserved \cup {taskStack[Shell]})
    BY <2>3, <2>5 DEF NULL, Reserved
  <2> QED BY <2>2, <2>6
<1> QED BY <1>1, <1>2 DEF DemosClean, NothingLeftBehind

--------------------------------------------------------------------------------
\* First-fit stays below the boot stack while less is held than fits there.
Fits == IF DemoPages > 3 THEN DemoPages ELSE 3

LEMMA AllocLow ==
    ASSUME LowMemory, KInv, PmmReady, ~out_of_memory, NEW page \in Pages, PMM_AllocPage(page),
           Cardinality(Stacks \cup demo_pages) <= Fits
    PROVE  page < BootStack /\ page # NULL /\ out_of_memory' = out_of_memory
<1> DEFINE Low == {p \in (1 .. BootStack - 1) \ KernelPages : \E i \in DOMAIN regions :
                     /\ regions[i].Type = 1
                     /\ regions[i].Begin <= p * PageSize
                     /\ (p + 1) * PageSize <= regions[i].Begin + regions[i].Length}
           held == Stacks \cup demo_pages
<1>1. regions \in E820Maps /\ held \subseteq Pages /\ g_Used \subseteq Pages
  BY GrantedGives DEF KInv, SInv, PmmTypeOK
<1>2. Cardinality(Low) > Fits
  BY <1>1 DEF LowMemory, Fits
<1>3. Low \subseteq Ram \ Reserved
  <2>1. \A p \in 1 .. BootStack - 1 : p \in Pages \ {0}
    BY SchedulerAssumption, PmmAssumption DEF Pages
  <2> QED BY <2>1, Zenon DEF Ram, Reserved
<1>4. ~(Low \subseteq held)
  <2>1. IsFiniteSet(held) /\ Cardinality(held) \in Nat
    BY <1>1, PageSets
  <2>2. Low \subseteq held => Cardinality(Low) \in Nat /\ Cardinality(Low) <= Cardinality(held)
    BY <2>1, FS_Subset, FS_CardinalityType
  <2> QED BY <1>2, <2>1, <2>2, KernelAssumption DEF Fits
<1>5. PICK p \in Low : p \notin held
  BY <1>4
<1>6. p \in FreeSet /\ p < BootStack
  BY <1>3, <1>5, HeldPages, SchedulerAssumption DEF Reserved, Pages
<1>7. 0 \notin FreeSet
  BY HeldPages DEF FreeSet
<1> QED BY <1>6, <1>7, SchedulerAssumption DEF PMM_AllocPage, FreeSet, Pages, NULL

\* What is held when an action of the shell takes a page.
LEMMA FewHeld ==
    ASSUME KInv, Running, me = Shell, pc[Shell] \in {"td_create", "sd_create", "pd_alloc"}
    PROVE  Cardinality(Stacks \cup demo_pages) <= Fits
<1>1. /\ up /\ k \in Nat /\ Stacks \cup demo_pages \subseteq Pages /\ demo_pages \subseteq Pages
      /\ Fits \in Nat /\ Fits >= 3 /\ Fits >= DemoPages /\ DemoPages \in Nat
      /\ Stacks \subseteq {taskStack[Shell]} \cup {taskStack[i] : i \in LiveOthers}
  BY GrantedGives, HeldPages, KernelAssumption, SMTT(30)
     DEF Running, KInv, SInv, PmmTypeOK, Control, Numbers, Fits
<1>2. ASSUME NEW S, S \subseteq Pages, NEW T, NEW x, T \subseteq S \cup {x}
      PROVE  /\ IsFiniteSet(T) /\ Cardinality(T) \in Nat
             /\ Cardinality(T) <= Cardinality(S) + 1
  <2>1. IsFiniteSet(S) /\ Cardinality(S) \in Nat
    BY <1>2, PageSets
  <2>2. IsFiniteSet(S \cup {x}) /\ Cardinality(S \cup {x}) <= Cardinality(S) + 1
    <3>1. CASE x \in S
      <4>1. S \cup {x} = S
        BY <3>1
      <4>2. IsFiniteSet(S \cup {x}) /\ Cardinality(S \cup {x}) = Cardinality(S)
        BY <2>1, <4>1, Zenon
      <4> QED BY <2>1, <4>2
    <3>2. CASE x \notin S
      <4>1. IsFiniteSet(S \cup {x}) /\ Cardinality(S \cup {x}) = Cardinality(S) + 1
        BY <2>1, <3>2, FS_AddElement, Zenon
      <4> QED BY <2>1, <4>1
    <3> QED BY <3>1, <3>2
  <2>3. /\ IsFiniteSet(T) /\ Cardinality(T) \in Nat /\ Cardinality(S \cup {x}) \in Nat
        /\ Cardinality(T) <= Cardinality(S \cup {x})
    BY <1>2, <2>2, FS_Subset, FS_CardinalityType
  <2> QED BY <2>1, <2>2, <2>3
<1>3. CASE pc[Shell] = "pd_alloc"
  <2>1. LiveOthers = {} /\ Cardinality(demo_pages) <= k - 1 /\ k <= DemoPages
    BY <1>1, <1>3 DEF KInv, Control, Phases, DemoHeld, Numbers, PmmDemoLabels
  <2>2. Stacks \cup demo_pages \subseteq demo_pages \cup {taskStack[Shell]}
    BY <1>1, <2>1
  <2>3. /\ Cardinality(Stacks \cup demo_pages) \in Nat
        /\ Cardinality(Stacks \cup demo_pages) <= Cardinality(demo_pages) + 1
    BY <1>1, <1>2, <2>2
  <2>4. Cardinality(demo_pages) \in Nat
    BY <1>1, PageSets
  <2> QED BY <1>1, <2>1, <2>3, <2>4
<1>4. CASE pc[Shell] \in {"td_create", "sd_create"}
  <2>1. demo_pages = {}
    BY <1>1, <1>4 DEF KInv, Control, DemoHeld, PmmDemoLabels
  <2>2. \E a, b : LiveOthers \subseteq {a, b}
    <3>1. k <= 3
      BY <1>1, <1>4 DEF KInv, Control, Numbers, ThreadDemoLabels, SchedDemoLabels
    <3>2. CASE pc[Shell] = "td_create"
      <4>1. LiveOthers \subseteq {ids[m] : m \in 1 .. k - 1}
        BY <1>1, <3>2 DEF KInv, Control, Phases
      <4>2. 1 .. k - 1 \subseteq {1, 2}
        BY <1>1, <3>1
      <4>3. LiveOthers \subseteq {ids[1], ids[2]}
        BY <4>1, <4>2
      <4> QED BY <4>3
    <3>3. CASE pc[Shell] = "sd_create"
      <4>1. /\ LiveOthers \subseteq ids[1] .. g_TaskCount - 1
            /\ g_TaskCount <= ids[1] + k - 1 /\ ids[1] \in Int /\ g_TaskCount \in Int
        BY <1>1, <3>3, SchedulerAssumption
           DEF KInv, Control, Phases, Numbers, SInv, TableShape
      <4>2. ids[1] .. g_TaskCount - 1 \subseteq {ids[1], ids[1] + 1}
        BY <1>1, <3>1, <4>1
      <4>3. LiveOthers \subseteq {ids[1], ids[1] + 1}
        BY <4>1, <4>2
      <4> QED BY <4>3
    <3> QED BY <1>4, <3>2, <3>3
  <2>3. PICK a, b : LiveOthers \subseteq {a, b}
    BY <2>2
  <2> DEFINE S1 == Stacks \ {taskStack[Shell]}
             S2 == S1 \ {taskStack[a]}
             S3 == S2 \ {taskStack[b]}
  <2>4. S3 = {}
    BY <1>1, <2>3
  <2>5. S1 \subseteq Pages /\ S2 \subseteq Pages /\ S3 \subseteq Pages
    BY <1>1
  <2>6. Cardinality(S3) = 0
    BY <2>4, FS_EmptySet
  <2>7. Cardinality(S2) \in Nat /\ Cardinality(S2) <= Cardinality(S3) + 1
    <3>1. S2 \subseteq S3 \cup {taskStack[b]}
      OBVIOUS
    <3> QED BY <1>2, <2>5, <3>1
  <2>8. Cardinality(S1) \in Nat /\ Cardinality(S1) <= Cardinality(S2) + 1
    <3>1. S1 \subseteq S2 \cup {taskStack[a]}
      OBVIOUS
    <3> QED BY <1>2, <2>5, <3>1
  <2>9. /\ Cardinality(Stacks \cup demo_pages) \in Nat
        /\ Cardinality(Stacks \cup demo_pages) <= Cardinality(S1) + 1
    <3>1. Stacks \cup demo_pages \subseteq S1 \cup {taskStack[Shell]}
      BY <2>1
    <3> QED BY <1>2, <2>5, <3>1
  <2> HIDE DEF S1, S2, S3
  <2> QED BY <1>1, <2>6, <2>7, <2>8, <2>9
<1> QED BY <1>3, <1>4

LEMMA SafeStays ==
    ASSUME BootStackSafe, UNCHANGED <<out_of_memory, frame_of>>, demo_pages' \subseteq demo_pages
    PROVE  BootStackSafe'
BY DEF BootStackSafe

\* A task created, the shell's at the start or one by the shell, gets a page
\* below the boot stack.
LEMMA SafeCreate ==
    ASSUME LowMemory, KInv, BootStackSafe, Scheduler_CreateTask, PmmReady,
           demo_pages' = demo_pages, Cardinality(Stacks \cup demo_pages) <= Fits
    PROVE  BootStackSafe'
<1>1. frame_of \in [Pages -> TaskIds \cup {NoTask}] /\ BootStack \in Int /\ ~out_of_memory
  BY SchedulerAssumption DEF KInv, SInv, TableShape, Pages, BootStackSafe
<1>2. CASE UNCHANGED <<pmmVars, frame_of>>
  BY <1>2, SafeStays DEF pmmVars
<1>3. ASSUME NEW page \in Pages, PMM_AllocPage(page),
             page # NULL => frame_of' = [frame_of EXCEPT ![page] = g_TaskCount],
             page = NULL => frame_of' = frame_of
      PROVE  BootStackSafe'
  <2>1. page < BootStack /\ page # NULL /\ out_of_memory' = out_of_memory
    BY <1>1, <1>3, AllocLow
  <2>2. page # BootStack
    BY <1>1, <2>1, PmmAssumption DEF Pages
  <2>3. frame_of'[BootStack] = frame_of[BootStack]
    BY <1>1, <1>3, <2>1, <2>2, SchedulerAssumption
  <2> QED BY <2>1, <2>3 DEF BootStackSafe
<1> QED BY <1>2, <1>3 DEF Scheduler_CreateTask

LEMMA SafeInductive ==
    ASSUME LowMemory, KInv, BootStackSafe, [Next]_vars
    PROVE  BootStackSafe'
<1> DEFINE Quiet == UNCHANGED <<out_of_memory, frame_of, demo_pages>>
<1>1. /\ Stay \/ Scheduler_Yield \/ TimerIRQ \/ BootPmm \/ BootIdle \/ UNCHANGED vars => Quiet
      /\ \A idx : KillTask(idx) => Quiet
  BY DEF Stay, Scheduler_Yield, TimerIRQ, BootPmm, BootIdle, Scheduler_RegisterIdle, KillTask,
         Scheduler_KillTask, PMM_FreePage, PMM_Initialize, PMM_InitRegion,
         PMM_InitRegionsDone, PMM_InitReserve, pmmVars, schedOnly, vars, schedVars
<1>2. Quiet => BootStackSafe'
  BY SafeStays
<1> HIDE DEF Quiet
<1>3. CASE BootShell
  <2>1. /\ Scheduler_CreateTask /\ demo_pages' = demo_pages /\ ~up /\ g_TaskCount = 1
        /\ PmmReady
    BY <1>3 DEF BootShell, KInv, SInv, Started
  <2>2. Stacks \cup demo_pages = {}
    <3>1. Tasks = {Idle}
      BY <2>1 DEF Tasks, Idle
    <3>2. demo_pages = {} /\ taskStack[Idle] = NULL
      BY <2>1 DEF KInv, Control, DemoHeld, SInv, StacksApart
    <3> QED BY <3>1, <3>2 DEF Stacks
  <2>3. Cardinality(Stacks \cup demo_pages) <= Fits
    <3>1. Cardinality(Stacks \cup demo_pages) = 0
      BY <2>2, FS_EmptySet, Zenon
    <3> QED BY <3>1, KernelAssumption DEF Fits
  <2> QED BY <2>1, <2>3, SafeCreate
<1>4. CASE ThreadDemoCreate \/ SchedDemoCreate
  <2>1. /\ Running /\ pc[me] \in {"td_create", "sd_create"} /\ CreateTask
    BY <1>4 DEF ThreadDemoCreate, SchedDemoCreate, At, Create
  <2>2. me = Shell /\ PmmReady
    BY <2>1, WhoRuns DEF KInv, Control, ShellLabels, ThreadDemoLabels, SchedDemoLabels, SInv,
                         Started
  <2>3. Scheduler_CreateTask /\ demo_pages' = demo_pages
    BY <2>1 DEF CreateTask
  <2> QED BY <2>1, <2>2, <2>3, FewHeld, SafeCreate
<1>5. CASE PmmDemoAlloc
  <2>1. /\ Running /\ pc[me] = "pd_alloc" /\ DemoAlloc
    BY <1>5 DEF PmmDemoAlloc, PmmDemoLoop, At
  <2>2. me = Shell /\ PmmReady
    BY <2>1, WhoRuns DEF KInv, Control, ShellLabels, PmmDemoLabels, SInv, Started
  <2>3. PICK page \in Pages : /\ PMM_AllocPage(page)
                              /\ demo_pages' = demo_pages \cup ({page} \ {NULL})
    BY <2>1 DEF DemoAlloc
  <2>4. page < BootStack /\ out_of_memory' = out_of_memory /\ frame_of' = frame_of
    BY <2>1, <2>2, <2>3, FewHeld, AllocLow DEF BootStackSafe, DemoAlloc
  <2>5. page # BootStack
    BY <2>4, PmmAssumption DEF Pages
  <2> QED BY <2>3, <2>4, <2>5 DEF BootStackSafe
<1>6. CASE PmmDemoFree
  BY <1>6, SafeStays DEF PmmDemoFree, DemoFree, PMM_FreePage
<1>7. Poll \/ Thread_Yield => BootStackSafe'
  BY <1>1, <1>2 DEF Poll, Thread_Yield
<1>8. CASE \/ BootPmm \/ BootIdle \/ Timer \/ Key \/ IdleLoop \/ DemoDelayOver
           \/ \E label \in {"prompt", "td_wait", "delay", "spin", "yield"} : WaitTurn(label)
           \/ ThreadDemoKill \/ SchedDemoKill \/ SchedDemoTurn
           \/ (Undefined /\ UNCHANGED taskVars) \/ UNCHANGED vars
  BY <1>1, <1>2, <1>7, <1>8
     DEF Timer, TimerHandler, Key, IdleLoop, DemoDelayOver, WaitTurn, ThreadDemoKill,
         SchedDemoKill, KillLoop, SchedDemoTurn, SchedDemoStop, Undefined, vars
<1>9. CASE \E n \in 1 .. 3 : DemoTask(n) \/ CounterThread(n) \/ Thread_Sleep(n)
  BY <1>1, <1>2, <1>7, <1>9 DEF DemoTask, CounterThread, Thread_Sleep
<1>10. CASE Command
  BY <1>1, <1>2, <1>10
     DEF Command, ThreadDemo, ThreadDemoStop, SchedDemo, SchedDemoStop, Kill, PmmDemo
<1> QED BY <1>3, <1>4, <1>5, <1>6, <1>8, <1>9, <1>10 DEF Next, Step, Boot

LEMMA InitSafe == Init => BootStackSafe
BY SchedulerAssumption DEF Init, SchedInit, PmmInit, BootStackSafe, Pages

\* With room below the boot stack the kernel stays typed, never runs out of pages
\* and never hands out the page the idle task's frames are on (main.c:55-57,
\* pmm.c:66-77, stage2/entry.asm:23).
THEOREM KernelStaysSound ==
    ASSUME LowMemory
    PROVE  Spec => []KernelSound
<1>1. KInv /\ BootStackSafe /\ [Next]_vars => BootStackSafe'
  BY SafeInductive
<1> QED BY <1>1, InitSafe, KernelInvariance, KernelTyped, PTL DEF Spec, KernelSound

\* Then every demo has cleaned up when the prompt is back, and no task but the
\* shell ever kills itself (shell.c:22, 31, 240-242, 363, 382, 401, 596-597, 798-801).
THEOREM DemosCleanUp ==
    ASSUME LowMemory
    PROVE  Spec => []DemosClean
<1>1. KInv /\ KernelSound => DemosClean
  BY CleanPrompt DEF KernelSound, BootStackSafe
<1> QED BY <1>1, KernelStaysSound, KernelInvariance, PTL
================================================================================
