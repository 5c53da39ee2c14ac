--------------------------- MODULE UserModeProofs ---------------------------
(***************************************************************************)
(* Proofs about UserMode, for any finite set of Task structures.           *)
(*                                                                         *)
(* Every step of USpec is a step of Scheduler or leaves its variables      *)
(* alone, so KernelInv of SchedulerProofs comes for free.  What has to be  *)
(* added is who can lose the CPU: an application is never preempted, and   *)
(* the idle task, while it loads a program, has nobody to lose it to.      *)
(* Hence only the current task is in user mode or inside CreateProcess,    *)
(* and SwitchContext stores in a context only the page table that is       *)
(* already there.                                                          *)
(***************************************************************************)
EXTENDS UserMode, SchedulerProofs

UTypeOK ==
    /\ mode \in [Task -> {"new", "user", "syscall"}]
    /\ gs_kernel \in BOOLEAN
    /\ cr3 \in TaskOrNull
    /\ context_cr3 \in [Task -> TaskOrNull]
    /\ caller_cr3 \in [Task -> TaskOrNull]
    /\ tables \in SUBSET Task

\* Everybody but the idle task is an application, and the idle task never
\* enters user mode.
OnlyAppsEnter ==
    /\ g_idle_task = Null => \A t \in Task : mode[t] = "new"
    /\ g_idle_task # Null => mode[g_idle_task] = "new"
    /\ \A t \in allocated \ {g_idle_task} : is_app[t] = TRUE

UserIsCurrent ==
    \A a \in Task : mode[a] = "user" =>
        a = current /\ a \in allocated /\ loading[a] = Null

LoaderIsCurrent == \A c \in Task : loading[c] # Null => c = current

\* The context of an application holds its own page table, also while it runs,
\* and the CPU uses it unless a program is being loaded into another one.
TablesLoaded ==
    /\ \A a \in tables : context_cr3[a] = a
    /\ current \in tables =>
          /\ loading[current] = Null => cr3 = current
          /\ loading[current] # Null => caller_cr3[current] = current

UInv ==
    /\ KernelInv
    /\ UTypeOK
    /\ OnlyAppsEnter
    /\ UserIsCurrent
    /\ LoaderIsCurrent
    /\ TablesLoaded
    /\ SwapgsParity
    /\ TablesConserved

LEMMA UInvInit == UInit => UInv
<1> SUFFICES ASSUME UInit PROVE UInv
  OBVIOUS
<1>1. KernelInv
  BY KernelInvInit DEF UInit
<1>2. UTypeOK
  BY DEF UInit, UTypeOK, TaskOrNull
<1>3. SwapgsParity /\ TablesConserved
  BY DEF UInit, Init, SwapgsParity, InUserMode, TablesConserved
<1> QED
  BY <1>1, <1>2, <1>3
     DEF UInv, UInit, Init, OnlyAppsEnter, UserIsCurrent, LoaderIsCurrent, TablesLoaded

\* What UserMode adds does not change what Scheduler does.
LEMMA UStepIsStep ==
    ASSUME KernelInv, [UNext]_<<vars, uvars>>
    PROVE  [Next]_vars
<1>1. CASE UBoot
  BY <1>1 DEF UBoot, Next
<1>2. CASE UTimerHandler \/ UTaskExitSchedule
  BY <1>2 DEF UTimerHandler, UTaskExitSchedule, Next
<1>3. ASSUME NEW t \in Task, UStartShell(t) PROVE [Next]_vars
  <2>1. g_idle_task \in Task
    BY <1>3 DEF UStartShell, KernelInv, ApiInv, TypeOK, TaskOrNull
  <2> QED
    BY <1>3, <2>1 DEF UStartShell, NewProcess, Next
<1>4. ASSUME NEW a \in Task, NEW t \in Task, USpawn(a, t) PROVE [Next]_vars
  BY <1>4 DEF USpawn, NewProcess, Next
<1>5. ASSUME NEW c \in Task, ULoadSucceeds(c) \/ ULoadFails(c) PROVE [Next]_vars
  BY <1>5 DEF ULoadSucceeds, ULoadFails, Next
<1>6. ASSUME NEW a \in Task, AppTaskEntry(a) \/ SyscallReturn(a) PROVE [Next]_vars
  BY <1>6 DEF AppTaskEntry, SyscallReturn
<1>7. ASSUME NEW a \in Task, UYield(a) \/ UExit(a) \/ UTaskExit(a) PROVE [Next]_vars
  BY <1>7 DEF UYield, UExit, UTaskExit, Next
<1> QED
  BY <1>1, <1>2, <1>3, <1>4, <1>5, <1>6, <1>7 DEF UNext

-----------------------------------------------------------------------------
(***************************************************************************)
(* Who loses the CPU.                                                      *)
(***************************************************************************)
\* An application that is running is not preempted, and neither is a task
\* inside CreateProcess: the idle task has no company then.
LEMMA NotPreempted ==
    ASSUME UInv, current \in Task,
           current \in tables \/ loading[current] # Null
    PROVE  KeepsCPU(FALSE, current)
<1> USE DEF UInv, KernelInv
<1>1. current \in allocated
  BY DEF TablesConserved, ApiInv, LoadingApart
<1>2. state[current] = "RUNNING" /\ current # Null
  BY <1>1, TaskAssumption DEF CurrentRuns
<1>3. CASE current # g_idle_task
  BY <1>1, <1>2, <1>3 DEF OnlyAppsEnter, KeepsCPU, IsRunning
<1>4. CASE current = g_idle_task
  <2>1. loading[g_idle_task] \in Task
    BY <1>4 DEF TablesConserved, ApiInv, TypeOK, TaskOrNull
  <2>2. allocated = {g_idle_task, loading[g_idle_task]}
    BY <1>2, <1>4, <2>1, TaskAssumption DEF StartOnce
  <2>3. \A t \in Task : ~Queued(rq, t)
    BY <1>2, <1>4, <2>1, <2>2, TaskAssumption DEF ApiInv, QueuedAreReady, LoadingApart, RunningIsCurrent
  <2>4. rq.head = Null
    BY <2>3, HeadLemma DEF ApiInv, TypeOK, QueueWellFormed
  <2> QED
    BY <2>4 DEF KeepsCPU, GetNextTask
<1> QED
  BY <1>3, <1>4

\* Schedule and SwitchContext together: nothing happens, or a task that waited
\* with its own page table in its context gets the CPU, and a task that held
\* the CPU with its page table finds the same in its context.
LEMMA SwitchEffect ==
    ASSUME UInv, NEW voluntary \in BOOLEAN, NEW cur \in {current, Null},
           Schedule(voluntary, cur), SwitchContext(cur),
           cur = Null => current = Null \/ current \notin allocated,
           cur # Null /\ voluntary => loading[cur] = Null
    PROVE  /\ context_cr3' \in [Task -> TaskOrNull] /\ cr3' \in TaskOrNull
           /\ \A a \in tables : context_cr3'[a] = a
           /\ \/ current' = cur /\ cr3' = cr3
              \/ /\ current' \in Task
                 /\ current' # current
                 /\ current' \in tables => cr3' = current'
                 /\ \A c \in Task : loading[c] = Null
           /\ \A t \in Task : state'[t] = "TERMINATED" <=> state[t] = "TERMINATED"
<1> USE DEF UInv, KernelInv
<1>1. CASE KeepsCPU(voluntary, cur)
  BY <1>1 DEF Schedule, SwitchContext, UTypeOK, TablesLoaded
<1>2. CASE ~KeepsCPU(voluntary, cur)
  <2> DEFINE next == rq.head
  <2>1. /\ next \in Task /\ Queued(rq, next) /\ next # cur /\ current' = next
        /\ state' = [t \in Task |-> IF t = next THEN "RUNNING"
                                    ELSE IF IsRunning(cur) /\ t = cur THEN "READY"
                                    ELSE state[t]]
    BY <1>2, DispatchEffect
  <2>2. next \in allocated /\ state[next] = "READY"
    BY <2>1 DEF ApiInv, QueuedAreReady
  <2>3. next # current
    <3>1. current = next => current # Null /\ current \in allocated
      BY <2>1, <2>2, TaskAssumption
    <3> QED
      BY <2>2, <3>1 DEF CurrentRuns
  <2>4. current' # Null
    BY <2>1, TaskAssumption
  <2>5. /\ cr3' = context_cr3[next]
        /\ context_cr3' = [t \in Task |-> IF t = cur THEN cr3 ELSE context_cr3[t]]
    BY <2>1, <2>4 DEF SwitchContext
  <2>6. \A c \in Task : loading[c] = Null
    <3> SUFFICES ASSUME NEW c \in Task, loading[c] # Null PROVE FALSE
      OBVIOUS
    <3>1. c = current
      BY DEF LoaderIsCurrent
    <3>2. c \in allocated
      BY DEF ApiInv, LoadingApart
    <3>3. KeepsCPU(FALSE, current)
      BY <3>1, NotPreempted
    <3>4. cur = current
      BY <3>1, <3>2, TaskAssumption
    <3> QED
      BY <1>2, <3>1, <3>3, <3>4, TaskAssumption DEF KeepsCPU
  <2>7. \A a \in tables : context_cr3'[a] = a
    BY <2>5, <2>6, TaskAssumption DEF TablesLoaded, UTypeOK, TablesConserved
  <2>8. /\ context_cr3' \in [Task -> TaskOrNull] /\ cr3' \in TaskOrNull
        /\ next \in tables => cr3' = next
    BY <2>1, <2>5 DEF UTypeOK, TablesLoaded
  <2>9. \A t \in Task : state'[t] = "TERMINATED" <=> state[t] = "TERMINATED"
    BY <2>1, <2>2 DEF IsRunning
  <2> QED
    BY <2>1, <2>3, <2>6, <2>7, <2>8, <2>9
<1> QED
  BY <1>1, <1>2

\* A tick, or the Schedule at the end of TaskExit.  Whoever loses the CPU is
\* not in user mode, and whoever gets it was not either.
LEMMA SwitchKeepsUInv ==
    ASSUME UInv, KernelInv', NEW voluntary \in BOOLEAN, NEW cur \in {current, Null},
           Schedule(voluntary, cur), SwitchContext(cur),
           cur = Null => current = Null \/ current \notin allocated,
           cur # Null /\ voluntary => loading[cur] = Null,
           voluntary => \A a \in Task : mode'[a] # "user",
           voluntary => mode' \in [Task -> {"new", "user", "syscall"}],
           voluntary => gs_kernel' = TRUE,
           voluntary => g_idle_task # Null /\ mode'[g_idle_task] = "new",
           ~voluntary => mode' = mode /\ gs_kernel' = gs_kernel,
           UNCHANGED <<is_app, allocated, g_idle_task, loading, caller_cr3, tables>>
    PROVE  UInv'
<1> USE DEF UInv
<1>1. /\ context_cr3' \in [Task -> TaskOrNull] /\ cr3' \in TaskOrNull
      /\ \A a \in tables : context_cr3'[a] = a
      /\ \/ current' = cur /\ cr3' = cr3
         \/ /\ current' \in Task
            /\ current' # current
            /\ current' \in tables => cr3' = current'
            /\ \A c \in Task : loading[c] = Null
      /\ \A t \in Task : state'[t] = "TERMINATED" <=> state[t] = "TERMINATED"
  BY SwitchEffect
<1>2. UTypeOK'
  BY <1>1 DEF UTypeOK
<1>3. OnlyAppsEnter'
  BY DEF OnlyAppsEnter
<1>4. TablesConserved'
  BY <1>1 DEF TablesConserved, KernelInv, ApiInv, TypeOK
<1>5. current' = cur => current' = current \/ \A c \in Task : loading[c] = Null
  BY DEF KernelInv, ApiInv, LoadingApart, LoaderIsCurrent
<1>6. LoaderIsCurrent'
  BY <1>1, <1>5 DEF LoaderIsCurrent
<1>7. TablesLoaded'
  BY <1>1, <1>5, TaskAssumption DEF TablesLoaded, UTypeOK
<1>8. ASSUME ~voluntary, NEW a \in Task, mode[a] = "user"
      PROVE  current' = current
  <2>1. a = current /\ a \in allocated
    BY <1>8 DEF UserIsCurrent
  <2>2. a # g_idle_task /\ a # Null /\ cur = current
    BY <1>8, <2>1, TaskAssumption DEF OnlyAppsEnter
  <2>3. a \in tables
    BY <2>1, <2>2 DEF TablesConserved, KernelInv, CurrentRuns
  <2>4. KeepsCPU(voluntary, cur)
    BY <1>8, <2>1, <2>2, <2>3, NotPreempted
  <2> QED
    BY <2>2, <2>4 DEF Schedule
<1>9. UserIsCurrent'
  BY <1>8 DEF UserIsCurrent
<1>10. SwapgsParity'
  <2>1. CASE voluntary
    BY <2>1 DEF SwapgsParity, InUserMode
  <2>2. CASE ~voluntary
    BY <1>8, <2>2 DEF SwapgsParity, InUserMode, UserIsCurrent
  <2> QED
    BY <2>1, <2>2
<1> QED
  BY <1>2, <1>3, <1>4, <1>6, <1>7, <1>9, <1>10

-----------------------------------------------------------------------------
(***************************************************************************)
(* The steps.                                                              *)
(***************************************************************************)
\* A system call finds the user's GS base, and leaves nobody in user mode.
LEMMA EntryEffect ==
    ASSUME UInv, NEW a \in Task, SyscallEntry(a)
    PROVE  /\ a = current /\ a \in allocated /\ a # g_idle_task /\ a \in tables
           /\ g_idle_task # Null /\ cr3 = a /\ context_cr3[a] = a
           /\ gs_kernel' = TRUE
           /\ mode' = [mode EXCEPT ![a] = "syscall"]
           /\ \A t \in Task : mode'[t] # "user"
           /\ mode' \in [Task -> {"new", "user", "syscall"}]
           /\ mode'[g_idle_task] = "new"
<1> USE DEF UInv
<1>1. /\ a = current /\ mode[a] = "user" /\ gs_kernel' = ~gs_kernel
      /\ mode' = [mode EXCEPT ![a] = "syscall"]
  BY DEF SyscallEntry
<1>2. a \in allocated /\ loading[a] = Null
  BY <1>1 DEF UserIsCurrent
<1>3. a # g_idle_task /\ g_idle_task # Null
  BY <1>1 DEF OnlyAppsEnter
<1>4. a \in tables
  BY <1>1, <1>2, <1>3, TaskAssumption DEF TablesConserved, KernelInv, CurrentRuns
<1>5. cr3 = a /\ context_cr3[a] = a
  BY <1>1, <1>2, <1>4 DEF TablesLoaded
<1>6. gs_kernel = FALSE
  BY <1>1 DEF SwapgsParity, InUserMode, UTypeOK
<1>7. \A t \in Task : mode'[t] # "user"
  BY <1>1 DEF UserIsCurrent, UTypeOK
<1>8. /\ mode' \in [Task -> {"new", "user", "syscall"}]
      /\ g_idle_task \in Task /\ mode'[g_idle_task] = "new"
  BY <1>1, <1>3 DEF UTypeOK, OnlyAppsEnter, KernelInv, ApiInv, TypeOK, TaskOrNull
<1> QED
  BY <1>1, <1>2, <1>3, <1>4, <1>5, <1>6, <1>7, <1>8

LEMMA YieldKeepsUInv ==
    ASSUME UInv, KernelInv', NEW a \in Task, UYield(a)
    PROVE  UInv'
<1>1. /\ Schedule(TRUE, a) /\ SwitchContext(a) /\ loading[a] = Null
      /\ UNCHANGED <<is_app, allocated, g_idle_task, loading, caller_cr3, tables>>
  BY DEF UYield, Yield, IsUserCode, Executes
<1>2. /\ a = current /\ a # Null /\ g_idle_task # Null /\ gs_kernel' = TRUE
      /\ \A t \in Task : mode'[t] # "user"
      /\ mode' \in [Task -> {"new", "user", "syscall"}]
      /\ mode'[g_idle_task] = "new"
  BY EntryEffect, TaskAssumption DEF UYield
<1> QED
  BY <1>1, <1>2, SwitchKeepsUInv

\* Exit and TaskExit: the task leaves, with the table it was running on.
LEMMA EndKeepsUInv ==
    ASSUME UInv, KernelInv', NEW a \in Task, UExit(a) \/ UTaskExit(a)
    PROVE  UInv'
<1> USE DEF UInv
<1>1. /\ a = current /\ a \in allocated /\ a # g_idle_task /\ a \in tables
      /\ g_idle_task # Null /\ context_cr3[a] = a
      /\ gs_kernel' = TRUE
      /\ \A t \in Task : mode'[t] # "user"
      /\ mode' \in [Task -> {"new", "user", "syscall"}]
      /\ mode'[g_idle_task] = "new"
  BY EntryEffect DEF UExit, UTaskExit
<1>2. /\ state' = [state EXCEPT ![a] = "TERMINATED"]
      /\ tables' = tables \ {a}
      /\ cr3' \in {cr3, Null}
      /\ current' \in {current, Null}
      /\ allocated' \in {allocated, allocated \ {a}}
      /\ UNCHANGED <<is_app, g_idle_task, loading, context_cr3, caller_cr3>>
  BY <1>1 DEF UExit, UTaskExit, Exit, TaskExit, TerminateTask
<1>3. loading[a] = Null
  BY DEF UExit, UTaskExit, Exit, TaskExit, IsUserCode, Executes
<1>4. UTypeOK'
  BY <1>1, <1>2 DEF UTypeOK, TaskOrNull
<1>5. OnlyAppsEnter'
  BY <1>1, <1>2 DEF OnlyAppsEnter
<1>6. UserIsCurrent' /\ SwapgsParity'
  BY <1>1 DEF UserIsCurrent, SwapgsParity, InUserMode
<1>7. LoaderIsCurrent'
  BY <1>1, <1>2, <1>3 DEF LoaderIsCurrent
<1>8. TablesLoaded'
  BY <1>1, <1>2, TaskAssumption DEF TablesLoaded, UTypeOK
<1>9. TablesConserved'
  BY <1>1, <1>2 DEF TablesConserved, KernelInv, ApiInv, TypeOK
<1> QED
  BY <1>4, <1>5, <1>6, <1>7, <1>8, <1>9

\* The first entry into user mode, and the return of a system call.
LEMMA EnterKeepsUInv ==
    ASSUME UInv, KernelInv', NEW a \in Task, AppTaskEntry(a) \/ SyscallReturn(a)
    PROVE  UInv'
<1> USE DEF UInv
<1>1. /\ a = current /\ a \in allocated /\ loading[a] = Null
      /\ mode[a] # "user"
      /\ mode' = [mode EXCEPT ![a] = "user"]
      /\ UNCHANGED vars /\ UNCHANGED <<context_cr3, caller_cr3, tables>>
  BY DEF AppTaskEntry, SyscallReturn, Executes
<1>2. a # g_idle_task
  BY DEF AppTaskEntry, SyscallReturn, OnlyAppsEnter, KernelInv, ApiInv, TypeOK
<1>3. g_idle_task # Null
  BY <1>1, TaskAssumption DEF KernelInv, StartOnce
<1>4. a \in tables
  BY <1>1, <1>2, TaskAssumption DEF TablesConserved, KernelInv, CurrentRuns
<1>5. cr3 = a /\ cr3' = a
  BY <1>1, <1>4 DEF AppTaskEntry, SyscallReturn, TablesLoaded
<1>6. gs_kernel = TRUE
  BY <1>1 DEF SwapgsParity, InUserMode, UTypeOK
<1>7. gs_kernel' = FALSE
  BY <1>6 DEF AppTaskEntry, SyscallReturn
<1>8. UTypeOK'
  BY <1>1, <1>5, <1>7 DEF UTypeOK, TaskOrNull
<1>9. mode'[g_idle_task] = "new"
  BY <1>1, <1>2, <1>3 DEF OnlyAppsEnter, UTypeOK, KernelInv, ApiInv, TypeOK, TaskOrNull
<1>10. OnlyAppsEnter'
  BY <1>1, <1>3, <1>9 DEF OnlyAppsEnter, vars
<1>11. UserIsCurrent' /\ SwapgsParity'
  BY <1>1, <1>7 DEF UserIsCurrent, SwapgsParity, InUserMode, UTypeOK, vars
<1>12. LoaderIsCurrent' /\ TablesConserved'
  BY <1>1 DEF LoaderIsCurrent, TablesConserved, vars
<1>13. TablesLoaded'
  BY <1>1, <1>5 DEF TablesLoaded, vars
<1> QED
  BY <1>8, <1>10, <1>11, <1>12, <1>13

\* CreateProcess: the new task gets a page table, on which its caller goes on.
LEMMA NewProcessKeepsUInv ==
    ASSUME UInv, KernelInv', NEW c \in Task, NEW t \in Task, NewProcess(c, t),
           gs_kernel' = TRUE,
           \A u \in Task : mode'[u] # "user",
           mode' \in [Task -> {"new", "user", "syscall"}],
           mode'[g_idle_task] = "new"
    PROVE  UInv'
<1> USE DEF UInv
<1>1. /\ c = current /\ c \in allocated /\ loading[c] = Null
      /\ t \notin allocated /\ t # Null
      /\ allocated' = allocated \cup {t}
      /\ state' = [state EXCEPT ![t] = "READY"]
      /\ is_app' = [is_app EXCEPT ![t] = TRUE]
      /\ loading' = [loading EXCEPT ![c] = t]
      /\ caller_cr3' = [caller_cr3 EXCEPT ![c] = cr3]
      /\ cr3' = t
      /\ context_cr3' = [context_cr3 EXCEPT ![t] = t]
      /\ tables' = tables \cup {t}
      /\ UNCHANGED <<current, g_idle_task>>
  BY TaskAssumption DEF NewProcess, CreateProcess, MayCreate, Executes, CreateTask
<1>2. g_idle_task # Null /\ g_idle_task # t
  BY <1>1 DEF KernelInv, StartOnce, IdleLive
<1>3. UTypeOK'
  BY <1>1 DEF UTypeOK, TaskOrNull
<1>4. OnlyAppsEnter'
  BY <1>1, <1>2 DEF OnlyAppsEnter, KernelInv, ApiInv, TypeOK
<1>5. UserIsCurrent' /\ SwapgsParity'
  BY DEF UserIsCurrent, SwapgsParity, InUserMode
<1>6. LoaderIsCurrent'
  BY <1>1 DEF LoaderIsCurrent, KernelInv, ApiInv, TypeOK
<1>7. TablesLoaded'
  BY <1>1 DEF TablesLoaded, UTypeOK, KernelInv, ApiInv, TypeOK
<1>8. TablesConserved'
  BY <1>1, <1>2 DEF TablesConserved, KernelInv, ApiInv, TypeOK
<1> QED
  BY <1>3, <1>4, <1>5, <1>6, <1>7, <1>8

LEMMA StartShellKeepsUInv ==
    ASSUME UInv, KernelInv', NEW t \in Task, UStartShell(t)
    PROVE  UInv'
<1> USE DEF UInv
<1>1. /\ g_idle_task \in Task /\ g_idle_task = current /\ g_idle_task # t
      /\ NewProcess(g_idle_task, t)
      /\ mode' = [mode EXCEPT ![t] = "new"] /\ gs_kernel' = gs_kernel
  BY DEF UStartShell, NewProcess, CreateProcess, CreateTask, MayCreate, Executes,
         KernelInv, ApiInv, TypeOK, TaskOrNull
<1>2. mode[g_idle_task] = "new"
  BY <1>1, TaskAssumption DEF OnlyAppsEnter
<1>3. \A u \in Task : mode[u] # "user"
  BY <1>1, <1>2 DEF UserIsCurrent
<1>4. gs_kernel = TRUE
  BY <1>3 DEF SwapgsParity, InUserMode, UTypeOK
<1>5. /\ \A u \in Task : mode'[u] # "user"
      /\ mode' \in [Task -> {"new", "user", "syscall"}]
      /\ mode'[g_idle_task] = "new"
  BY <1>1, <1>2, <1>3 DEF UTypeOK
<1> QED
  BY <1>1, <1>4, <1>5, NewProcessKeepsUInv

LEMMA SpawnKeepsUInv ==
    ASSUME UInv, KernelInv', NEW a \in Task, NEW t \in Task, USpawn(a, t)
    PROVE  UInv'
<1> USE DEF UInv
<1>1. /\ a = current /\ a # t /\ mode[a] = "user" /\ a \in allocated
      /\ NewProcess(a, t)
      /\ mode' = [mode EXCEPT ![a] = "syscall", ![t] = "new"]
      /\ gs_kernel' = ~gs_kernel
  BY DEF USpawn, NewProcess, CreateProcess, MayCreate, Executes
<1>2. gs_kernel' = TRUE
  BY <1>1 DEF SwapgsParity, InUserMode, UTypeOK
<1>3. g_idle_task \in Task /\ mode[g_idle_task] = "new"
  BY <1>1 DEF OnlyAppsEnter, KernelInv, ApiInv, TypeOK, TaskOrNull
<1>4. /\ \A u \in Task : mode'[u] # "user"
      /\ mode' \in [Task -> {"new", "user", "syscall"}]
      /\ mode'[g_idle_task] = "new"
  BY <1>1, <1>3 DEF UTypeOK, UserIsCurrent
<1> QED
  BY <1>1, <1>2, <1>4, NewProcessKeepsUInv

\* The end of CreateProcess: back to the caller's page table, and without the
\* new one when the program could not be loaded.
LEMMA LoadKeepsUInv ==
    ASSUME UInv, KernelInv', NEW c \in Task, ULoadSucceeds(c) \/ ULoadFails(c)
    PROVE  UInv'
<1> USE DEF UInv
<1> DEFINE t == loading[c]
<1>1. /\ c = current /\ t \in Task /\ t # Null /\ t \in allocated /\ t # c
      /\ c \in allocated /\ state[t] = "READY" /\ ~Queued(rq, t)
  BY DEF ULoadSucceeds, ULoadFails, LoadSucceeds, LoadFails, KernelInv, ApiInv,
         LoadingApart, TypeOK, TaskOrNull
<1>2. t # g_idle_task /\ g_idle_task # Null
  BY <1>1 DEF KernelInv, IdleAlive, StartOnce
<1>3. t \in tables /\ context_cr3[t] = t
  BY <1>1, <1>2 DEF TablesConserved, TablesLoaded
<1>4. /\ \/ allocated' = allocated /\ state' = state /\ tables' = tables
         \/ /\ allocated' = allocated \ {t}
            /\ state' = [state EXCEPT ![t] = "TERMINATED"]
            /\ tables' = tables \ {t}
      /\ loading' = [loading EXCEPT ![c] = Null]
      /\ cr3' = caller_cr3[c]
      /\ UNCHANGED <<is_app, current, g_idle_task, mode, gs_kernel, context_cr3,
                     caller_cr3>>
  <2>1. CASE ULoadSucceeds(c)
    BY <1>1, <2>1 DEF ULoadSucceeds, LoadSucceeds, RestoreCallerCR3, Publish,
       KernelInv, ApiInv, TypeOK
  <2>2. CASE ULoadFails(c)
    BY <1>3, <2>2 DEF ULoadFails, LoadFails, RestoreCallerCR3, TerminateTask
  <2> QED
    BY <2>1, <2>2
<1> HIDE DEF t
<1>5. UTypeOK'
  BY <1>4 DEF UTypeOK
<1>6. OnlyAppsEnter'
  BY <1>4 DEF OnlyAppsEnter
<1>7. UserIsCurrent' /\ SwapgsParity'
  BY <1>1, <1>4 DEF UserIsCurrent, SwapgsParity, InUserMode, KernelInv, ApiInv, TypeOK
<1>8. LoaderIsCurrent'
  BY <1>4 DEF LoaderIsCurrent, KernelInv, ApiInv, TypeOK
<1>9. TablesLoaded'
  BY <1>1, <1>4 DEF TablesLoaded, KernelInv, ApiInv, TypeOK, t
<1>10. TablesConserved'
  BY <1>1, <1>2, <1>4 DEF TablesConserved, KernelInv, ApiInv, TypeOK
<1> QED
  BY <1>5, <1>6, <1>7, <1>8, <1>9, <1>10

\* The boot creates the idle task, which has no page table of its own.
LEMMA BootKeepsUInv ==
    ASSUME UInv, KernelInv', UBoot
    PROVE  UInv'
<1> USE DEF UInv
<1>1. CASE Enable
  BY <1>1 DEF UBoot, Enable, uvars, UTypeOK, OnlyAppsEnter, UserIsCurrent,
       LoaderIsCurrent, TablesLoaded, SwapgsParity, InUserMode, TablesConserved
<1>2. ASSUME NEW t \in Task, InitializeIdleTask(t) PROVE UInv'
  <2>1. /\ g_idle_task = Null /\ allocated = {} /\ current = Null
        /\ tables = {} /\ \A u \in Task : mode[u] = "new"
        /\ \A u \in Task : loading[u] = Null
    BY <1>2 DEF InitializeIdleTask, KernelInv, StartOnce, CurrentRuns, ApiInv,
       LoadingApart, TablesConserved, OnlyAppsEnter
  <2>2. /\ g_idle_task' = t /\ allocated' = {t} /\ current' = Null
        /\ loading' = loading /\ UNCHANGED uvars
    BY <1>2, <2>1 DEF InitializeIdleTask, UBoot
  <2> QED
    BY <2>1, <2>2 DEF uvars, UTypeOK, OnlyAppsEnter, UserIsCurrent,
       LoaderIsCurrent, TablesLoaded, SwapgsParity, InUserMode, TablesConserved
<1> QED
  BY <1>1, <1>2 DEF UBoot

LEMMA UInvStep == UInv /\ [UNext]_<<vars, uvars>> => UInv'
<1> SUFFICES ASSUME UInv, [UNext]_<<vars, uvars>> PROVE UInv'
  OBVIOUS
<1>1. KernelInv'
  BY UStepIsStep, KernelInvStep DEF UInv
<1>2. CASE UBoot
  BY <1>1, <1>2, BootKeepsUInv
<1>3. CASE UTimerHandler
  <2>1. /\ Schedule(FALSE, current) /\ SwitchContext(current)
        /\ UNCHANGED <<is_app, allocated, g_idle_task, loading, caller_cr3, tables,
                       mode, gs_kernel>>
    BY <1>3 DEF UTimerHandler, TimerHandler
  <2> QED
    BY <1>1, <2>1, SwitchKeepsUInv
<1>4. CASE UTaskExitSchedule
  <2>1. /\ Schedule(FALSE, Null) /\ SwitchContext(Null) /\ current \notin allocated
        /\ UNCHANGED <<is_app, allocated, g_idle_task, loading, caller_cr3, tables,
                       mode, gs_kernel>>
    BY <1>4 DEF UTaskExitSchedule, TaskExitSchedule
  <2> QED
    BY <1>1, <2>1, SwitchKeepsUInv
<1>5. ASSUME NEW t \in Task, UStartShell(t) PROVE UInv'
  BY <1>1, <1>5, StartShellKeepsUInv
<1>6. ASSUME NEW a \in Task, NEW t \in Task, USpawn(a, t) PROVE UInv'
  BY <1>1, <1>6, SpawnKeepsUInv
<1>7. ASSUME NEW c \in Task, ULoadSucceeds(c) \/ ULoadFails(c) PROVE UInv'
  BY <1>1, <1>7, LoadKeepsUInv
<1>8. ASSUME NEW a \in Task, AppTaskEntry(a) \/ SyscallReturn(a) PROVE UInv'
  BY <1>1, <1>8, EnterKeepsUInv
<1>9. ASSUME NEW a \in Task, UYield(a) PROVE UInv'
  BY <1>1, <1>9, YieldKeepsUInv
<1>10. ASSUME NEW a \in Task, UExit(a) \/ UTaskExit(a) PROVE UInv'
  BY <1>1, <1>10, EndKeepsUInv
<1>11. CASE UNCHANGED <<vars, uvars>>
  BY <1>1, <1>11 DEF vars, uvars, UInv, UTypeOK, OnlyAppsEnter, UserIsCurrent,
     LoaderIsCurrent, TablesLoaded, SwapgsParity, InUserMode, TablesConserved
<1> QED
  BY <1>2, <1>3, <1>4, <1>5, <1>6, <1>7, <1>8, <1>9, <1>10, <1>11 DEF UNext

THEOREM UInvariant == USpec => []UInv
BY UInvInit, UInvStep, PTL DEF USpec

\* The GS base is the kernel's exactly while no user code runs: every swapgs of
\* every interleaving of system calls, switches and exits is matched.
THEOREM SwapgsAlwaysMatched == USpec => []SwapgsParity
<1>1. UInv => SwapgsParity
  BY DEF UInv
<1> QED
  BY <1>1, UInvariant, PTL

\* User code, and every system call that returns to it, has its own page table
\* in CR3 or in its context, and that table is not released.
THEOREM UserCodeOnOwnTable == USpec => []OwnPageTable
<1>1. UInv => OwnPageTable
  <2> SUFFICES ASSUME UInv PROVE OwnPageTable
    OBVIOUS
  <2> USE DEF UInv
  <2>1. ASSUME NEW a \in Task, InUserMode(a) PROVE cr3 = a /\ a \in tables
    <3>1. a = current /\ a \in allocated /\ loading[a] = Null /\ a # g_idle_task
      BY <2>1 DEF InUserMode, UserIsCurrent, OnlyAppsEnter
    <3>2. a \in tables
      BY <3>1, TaskAssumption DEF TablesConserved, KernelInv, CurrentRuns
    <3> QED
      BY <3>1, <3>2 DEF TablesLoaded
  <2>2. ASSUME NEW a \in allocated, mode[a] # "new", state[a] = "READY"
        PROVE  context_cr3[a] = a /\ a \in tables
    <3>1. a # g_idle_task
      BY <2>2, TaskAssumption DEF OnlyAppsEnter, KernelInv, ApiInv, TypeOK
    <3> QED
      BY <2>2, <3>1 DEF TablesConserved, TablesLoaded
  <2> QED
    BY <2>1, <2>2 DEF OwnPageTable
<1> QED
  BY <1>1, UInvariant, PTL

\* Every application that has not ended has its page table, and no other table
\* is left: nothing is released twice, early, or never.
THEOREM TablesNeverLeak == USpec => []TablesConserved
<1>1. UInv => TablesConserved
  BY DEF UInv
<1> QED
  BY <1>1, UInvariant, PTL

\* What is proved of Scheduler holds with user mode and page tables as well.
THEOREM SchedulingUnchanged == USpec => Spec
<1>1. UInit => Init
  BY DEF UInit
<1>2. UInv /\ [UNext]_<<vars, uvars>> => [Next]_vars
  BY UStepIsStep DEF UInv
<1> QED
  BY <1>1, <1>2, UInvariant, PTL DEF USpec, Spec
=============================================================================
