------------------------------ MODULE UserMode ------------------------------
(***************************************************************************)
(* The way into and out of user mode, on top of Scheduler: AppTaskEntry    *)
(* (kernel/app/elf/app_wrapper.cpp), EnterUserMode, SyscallEntry and       *)
(* ExitApp (kernel/asmfunc.asm), and the page tables that SwitchContext,   *)
(* CreateProcess and the ends of a task load and release.                  *)
(*                                                                         *)
(* All applications share one SyscallContext: the kernel stack pointer     *)
(* that SyscallEntry loads, which only AppTaskEntry sets, and a slot for   *)
(* the user stack pointer, left out here.  A stack or a page table is      *)
(* named after the task it belongs to; Null is the stack that              *)
(* InitializeSyscall allocates, and the kernel's page table.               *)
(***************************************************************************)
EXTENDS Scheduler

VARIABLES
    mode,               \* per task: not started, in user code, in a system call
    kernel_stack_ptr,   \* g_syscall_context: the stack SyscallEntry switches to
    gs_kernel,          \* GS_BASE, not KERNEL_GS_BASE, is g_syscall_context
    frame,              \* per kernel stack: whose registers lie at its top
    call_stack,         \* per task: the stack its system call runs on
    cr3,                \* the page table the CPU uses
    context_cr3,        \* Task::context.cr3 of every structure
    caller_cr3,         \* per task: the local variable of CreateProcess
    tables              \* the page tables that are not released

uvars == <<mode, kernel_stack_ptr, gs_kernel, frame, call_stack,
           cr3, context_cr3, caller_cr3, tables>>

UInit ==
    /\ Init
    /\ mode = [t \in Task |-> "new"]
    /\ kernel_stack_ptr = Null
    /\ gs_kernel = TRUE
    /\ frame = [s \in TaskOrNull |-> Null]
    /\ call_stack = [t \in Task |-> Null]
    /\ cr3 = Null
    /\ context_cr3 = [t \in Task |-> Null]
    /\ caller_cr3 = [t \in Task |-> Null]
    /\ tables = {}

-----------------------------------------------------------------------------
\* SyscallEntry: swapgs, load the kernel stack pointer, push the registers.
SyscallEntry(a) ==
    /\ current = a /\ mode[a] = "user"
    /\ gs_kernel' = ~gs_kernel
    /\ frame' = [frame EXCEPT ![kernel_stack_ptr] = a]
    /\ call_stack' = [call_stack EXCEPT ![a] = kernel_stack_ptr]
    /\ mode' = [mode EXCEPT ![a] = "syscall"]
    /\ UNCHANGED kernel_stack_ptr

\* Its end: pop the registers, swapgs, sysret.
SyscallReturn(a) ==
    /\ Executes(a) /\ mode[a] = "syscall"
    /\ gs_kernel' = ~gs_kernel
    /\ mode' = [mode EXCEPT ![a] = "user"]
    /\ UNCHANGED <<vars, kernel_stack_ptr, frame, call_stack, cr3,
                   context_cr3, caller_cr3, tables>>

\* Mutant: the GS bases are not set for a new application.
AppTaskEntryKeepingGS(a) ==
    /\ Executes(a) /\ a # g_idle_task /\ mode[a] = "new"
    /\ cr3' = context_cr3[a]
    /\ kernel_stack_ptr' = a
    /\ mode' = [mode EXCEPT ![a] = "user"]
    /\ UNCHANGED <<vars, gs_kernel, frame, call_stack, context_cr3,
                   caller_cr3, tables>>

\* AppTaskEntry and EnterUserMode: the first time an application runs.
AppTaskEntry(a) ==
    /\ Executes(a) /\ a # g_idle_task /\ mode[a] = "new"
    /\ cr3' = context_cr3[a]
    /\ kernel_stack_ptr' = a
    /\ gs_kernel' = FALSE
    /\ mode' = [mode EXCEPT ![a] = "user"]
    /\ UNCHANGED <<vars, frame, call_stack, context_cr3, caller_cr3,
                   tables>>

\* SwitchContext at the end of Schedule, if Schedule gets that far: from's
\* context (none for Null) receives CR3, and CR3 comes from the next task's.
SwitchContext(from) ==
    IF current' = from \/ current' = Null
    THEN UNCHANGED <<cr3, context_cr3>>
    ELSE /\ cr3' = context_cr3[current']
         /\ context_cr3' = [t \in Task |-> IF t = from THEN cr3 ELSE context_cr3[t]]

-----------------------------------------------------------------------------
\* The actions of Scheduler, with the above.
UYield(a) ==
    /\ SyscallEntry(a)
    /\ Yield(a)
    /\ SwitchContext(a)
    /\ UNCHANGED <<caller_cr3, tables>>

UTimerHandler ==
    /\ TimerHandler
    /\ SwitchContext(current)
    /\ UNCHANGED <<mode, kernel_stack_ptr, gs_kernel, frame,
                   call_stack, caller_cr3, tables>>

\* Mutant: Exit does not release the page table.
UExitLeaking(a) ==
    /\ SyscallEntry(a)
    /\ Exit(a)
    /\ cr3' = Null
    /\ UNCHANGED <<tables, context_cr3, caller_cr3>>

\* Exit switches to the kernel's page table and releases the application's.
UExit(a) ==
    /\ SyscallEntry(a)
    /\ Exit(a)
    /\ cr3' = Null
    /\ tables' = tables \ {context_cr3[a]}
    /\ UNCHANGED <<context_cr3, caller_cr3>>

\* TaskExit releases the page table it runs on, and then schedules.
UTaskExit(a) ==
    /\ SyscallEntry(a)
    /\ TaskExit(a)
    /\ tables' = tables \ {context_cr3[a]}
    /\ UNCHANGED <<cr3, context_cr3, caller_cr3>>

UTaskExitSchedule ==
    /\ TaskExitSchedule
    /\ SwitchContext(Null)
    /\ UNCHANGED <<mode, kernel_stack_ptr, gs_kernel, frame,
                   call_stack, caller_cr3, tables>>

\* CreateProcess up to the loading of the program, which runs on the page table
\* of the new task.  Its kernel stack is zeroed.
NewProcess(c, t) ==
    /\ CreateProcess(c, t)
    /\ caller_cr3' = [caller_cr3 EXCEPT ![c] = cr3]
    /\ cr3' = t
    /\ context_cr3' = [context_cr3 EXCEPT ![t] = t]
    /\ tables' = tables \cup {t}

\* The idle task calls it directly, an application through Spawn.
UStartShell(t) ==
    /\ g_idle_task # Null
    /\ NewProcess(g_idle_task, t)
    /\ mode' = [mode EXCEPT ![t] = "new"]
    /\ frame' = [frame EXCEPT ![t] = Null]
    /\ UNCHANGED <<kernel_stack_ptr, gs_kernel, call_stack>>

USpawn(a, t) ==
    /\ a # t
    /\ NewProcess(a, t)
    /\ mode[a] = "user"
    /\ gs_kernel' = ~gs_kernel
    /\ frame' = [frame EXCEPT ![kernel_stack_ptr] = a, ![t] = Null]
    /\ call_stack' = [call_stack EXCEPT ![a] = kernel_stack_ptr]
    /\ mode' = [mode EXCEPT ![a] = "syscall", ![t] = "new"]
    /\ UNCHANGED kernel_stack_ptr

\* Mutant: the caller goes on with the kernel's page table.
RestoreKernelCR3(c) == cr3' = Null

\* "Go back to the caller's page table".
RestoreCallerCR3(c) == cr3' = caller_cr3[c]

ULoadSucceeds(c) ==
    /\ LoadSucceeds(c)
    /\ RestoreCallerCR3(c)
    /\ UNCHANGED <<mode, kernel_stack_ptr, gs_kernel, frame,
                   call_stack, context_cr3, caller_cr3, tables>>

ULoadFails(c) ==
    /\ LoadFails(c)
    /\ RestoreCallerCR3(c)
    /\ tables' = tables \ {context_cr3[loading[c]]}
    /\ UNCHANGED <<mode, kernel_stack_ptr, gs_kernel, frame,
                   call_stack, context_cr3, caller_cr3>>

\* The boot of Scheduler: the idle task runs on the kernel's page table.
UBoot ==
    /\ Enable \/ \E t \in Task : InitializeIdleTask(t)
    /\ UNCHANGED uvars

UNext ==
    \/ UBoot
    \/ UTimerHandler
    \/ UTaskExitSchedule
    \/ \E t \in Task : UStartShell(t)
    \/ \E a, t \in Task : USpawn(a, t)
    \/ \E c \in Task : ULoadSucceeds(c) \/ ULoadFails(c)
    \/ \E a \in Task : \/ AppTaskEntry(a) \/ SyscallReturn(a)
                       \/ UYield(a) \/ UExit(a) \/ UTaskExit(a)

USpec == UInit /\ [][UNext]_<<vars, uvars>>

-----------------------------------------------------------------------------
\* User code of a is what the CPU executes.
InUserMode(a) == current = a /\ mode[a] = "user"

\* swapgs has no memory of its own: the GS base is the kernel's exactly while no
\* user code runs, however system calls of several applications interleave, so
\* that SyscallEntry never reads its stack pointer through a user's GS.
SwapgsParity == gs_kernel <=> \A a \in Task : ~InUserMode(a)

\* User code runs on its own page table, which is not released; so does every
\* system call that will return to it, whatever was loaded or switched to in
\* the meantime (SwitchContext stores CR3 in the context again and again).
OwnPageTable ==
    /\ \A a \in Task : InUserMode(a) => cr3 = a /\ a \in tables
    /\ \A a \in allocated :
          mode[a] # "new" /\ state[a] = "READY" => context_cr3[a] = a /\ a \in tables

\* Every application that has not ended has a page table, and nobody else has:
\* each way a task ends (Exit, TaskExit, a load that fails) releases exactly its
\* own, once.
TablesConserved ==
    tables = {a \in allocated \ {g_idle_task} : state[a] # "TERMINATED"}

\* "Without this the stack contents are overwritten when several tasks make
\* system calls": the registers that a suspended system call will pop are on
\* the stack where it pushed them.
SyscallFramesIntact ==
    \A a \in allocated :
        mode[a] = "syscall" /\ state[a] \in {"READY", "RUNNING"} => frame[call_stack[a]] = a
=============================================================================
