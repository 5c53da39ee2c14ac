# Sylphia-OS: TLA+ models, model checking and proofs

Sylphia-OS is a hobby 64-bit operating system: a UEFI boot loader, a C++ kernel
with an ELF loader in Rust, and a few user programs.  One CPU runs everything.
This directory models the parts whose correctness depends on the order of
events, checks them with TLC on small instances and proves the central
properties with TLAPS for every size.

## The system and its parts

| part | source (under `src/`) | what it does |
|---|---|---|
| task manager | `kernel/task/task_manager.*`, `task.hpp` | Task structures, the ready queue (intrusive doubly linked list), `current_task_` |
| scheduler | `kernel/task/scheduler.*`, `context_switch.asm` | round robin; applications are never preempted, kernel tasks are |
| idle task | `kernel/task/idle_task.*` | starts the shell once, then `hlt` |
| timer, exceptions | `kernel/interrupt.cpp`, `apic.cpp` | the timer handler polls the keyboard and calls `Schedule()` |
| system calls | `kernel/sys/syscall.cpp`, `asmfunc.asm` | Exit, Yield, TaskExit, Spawn, and the file and console calls |
| user mode entry | `kernel/app/elf/app_wrapper.cpp`, `asmfunc.asm`, `segmentation.cpp` | stacks, CR3 and MSRs of an application |
| program loading | `kernel/app/elf/elf_loader.cpp`, `kernel/rust/src/elf/*` | CreateProcess: new page table, segments, stack, publish |
| memory manager | `kernel/memory/*`, `kernel/new.cpp` | one bitmap of 4 KiB frames, first fit |
| paging | `kernel/paging.*` | page tables of the kernel and of processes |
| descriptors, input | `kernel/sys/std/file_descriptor.*`, `driver/usb/keyboard` | keyboard ring, pipe, files |
| FAT32, installer | `kernel/fs/*` | file system on the NVMe disk; first-boot installation |
| NVMe, xHCI, mass storage | `kernel/driver/*` | polled queues and rings |
| logger | `kernel/sys/logger/*` | ring of entries in memory |
| shell, apps, console, PCI, boot loader | `apps/`, `kernel/console.cpp`, `kernel/pci`, `bootloader/` | sequential code |

What interleaves is the timer interrupt, the tasks that yield to each other,
the devices that answer a polled command, and, on the disk, the loss of power.
Applications are never preempted: Schedule() returns when the timer interrupts
a RUNNING application.  The timer handler itself does run inside the system
calls of an application, which execute with interrupts enabled, and polls the
keyboard there.  The idle task is the only code that loses the CPU to a tick.

## Modules

| module | models | state and actions |
|---|---|---|
| `ReadyList` | the intrusive list of `TaskManager` | a record `[head, tail, next, prev]`; `AddToReadyQueue`, `RemoveFromReadyQueue`, `GetNextTask` as functions of it |
| `RoundRobin` | what the scheduler promises | abstract: a FIFO sequence and the running task |
| `Scheduler` | `TaskManager`, `Scheduler`, idle task, and the system calls that move the CPU | one action per operation: `InitializeIdleTask`, `Enable`, `TimerHandler`, `CreateProcess` with `LoadSucceeds` and `LoadFails`, `Yield`, `Exit`, `TaskExit` with `TaskExitSchedule`; `ApiSpec` adds `BlockTask`, `WakeTask`, `Disable` |
| `PreemptibleKernel` | the `Schedule` of `TaskExit`, called with interrupts on | splits it into its stores, with a tick between any two |
| `UserMode` | `AppTaskEntry`, `SyscallEntry`, `SwitchContext`'s CR3, release of page tables | extends `Scheduler`; each of its actions is a `Scheduler` action together with what it does to GS, CR3, stacks and page tables |
| `FrameAllocator` | what the memory manager promises | abstract first fit: `Grant`, `Refuse`, `Release` |
| `MemoryManager` | `MemoryManager`, `Bitmap` | the memory map, the bitmap as the set of clear bits, the search loop one iteration per step (`Probe`) |
| `Paging` | `PageManager`, `CreateAppTask`, `load_segments` | tables as frames with entries; `CreateProcess`, `LoadSucceeds`, `LoadFails`, `Exit` |
| `BlockDevice` | what a disk promises | abstract: a call moves all its blocks or none |
| `NvmeQueue` | one submission/completion queue pair, `SetupPRPs` | a record with both sides' positions; submit, poll, consume as functions of it |
| `Nvme` | the NVMe driver against a controller (external) | bring-up, Identify, creation of the I/O queues, `ReadLBA`, `WriteLBA`; the controller takes and answers commands when it likes and may fail them |
| `Fat32` | the FAT32 driver | every operation as a function from the disk to the list of sector writes it issues |
| `FileSystem` | boots, formatting, `RunInstaller`, calls of the driver, open files | extends `Fat32`; a step per sector write, with `PowerLoss` between any two |
| `UsbRings` | event ring and transfer rings with their cycle bits | records; `Post`, `TakeEvent`, `Advance`, `SendNormalTRB`, `Complete` |
| `Xhci` | the xHCI driver and the two device drivers up to the end of the installer | one step per request sent and per event read; controller and devices (external) answer late, in error, or not in time |
| `KeyboardInput` | from a key to Read: reports, `Keyboard::Update`, `KeyboardFD`, timer handler, Read, the Flush of Exit | extends `Xhci`; a tick is one step, Read is a step per access to what a tick changes too |
| `MCScheduler`, `MCMemoryManager`, `MCNvme`, `MCFileSystem`, `MCUsb` | constants for TLC | symmetry of tasks; memory maps; requests; names, installation and calls |
| `ReadyListProofs`, `SchedulerProofs`, `MemoryManagerProofs`, `NvmeProofs`, `UsbProofs` | proofs | see below |

How they fit together: `Scheduler` uses `ReadyList` and implements
`RoundRobin`; `PreemptibleKernel` and `UserMode` extend `Scheduler`;
`MemoryManager` implements `FrameAllocator`; `Paging` uses the first-fit
`AllocateFrame` that `MemoryManager` is proved to be, and relies on
`IdleLoadsAlone` of `Scheduler` to treat a creation or a load as one step.
`Nvme` implements `BlockDevice`, whose writes are the steps of `FileSystem`;
since the driver waits for each one, they reach the disk in order.
`KeyboardInput` composes `Xhci` with what runs after the boot.

Abstractions.  `Scheduler` leaves out data: a Task is a model value with a
state, and a released structure is one that is not in `allocated`; its bytes
stay, as in the code, until the next CreateTask.  In `UserMode` a stack or a
page table is named after its task, so a structure that is used again brings
its stack back.  `UserMode` assumes that page tables can be allocated;
`Paging` has the failures.  `Paging` reduces an address space to two pages,
the one where every program is linked (`apps/_link/linker.ld`) and the user
stack, and does not model frames used for anything else.  In `Fat32` a unit of
data is a token that names its file and position, so that a read shows whose
data it returns; long names are left out, 8.3 names are given by a function
that maps two names to one, as the code's truncation does.  In `Xhci` a slot is
named by its port and an endpoint by its use; descriptors are reduced to the
class of the device.  A command that the controller fails is in `Nvme`, where
the caller is not told of it; `FileSystem` has power losses, but no write that
is silently left out.

Marks.  `Xhci`, `KeyboardInput` and `FileSystem` keep in `marks` which mishaps
have happened: a report thrown away, a full buffer, a tick inside Update, a
torn deletion.  A property that does not survive one of them says so by name,
and thereby that it survives everything else.

## Runs

Passing runs:

| run | shows | bounds |
|---|---|---|
| `scheduler_api` | the queue stays a proper list, RUNNING means current, no task is lost, and all of it implements round robin, for every order of calls of the public interface | 5 structures, with symmetry (`RoundRobin` treats tasks alike too): a queue with two ends, an interior and a task outside |
| `scheduler_kernel` | the idle task is never lost, TaskExit never returns to its released stack, the preemptible idle task loads without company; nobody starves, the CPU is never abandoned | 4 structures, no symmetry (liveness) |
| `memory` | blocks are disjoint, blocks and free frames are together exactly the usable frames, first fit, every search ends | six memory maps of up to 21 frames, sizes around the frame boundaries |
| `usermode` | swapgs parity, own CR3, page tables released exactly once | idle task and three applications |
| `paging` | tables and stacks are private while memory suffices | 40 frames and 5 creations: 7 frames each, the kernel's 4, one split, so that no allocation fails |
| `nvme` | an old completion is never taken for a new one, one command at a time, the status examined is that of the command, calls move exactly their blocks (`BlockDevice`) and return | queues of 3, so that they wrap at an odd number of commands; pages of 2 blocks, five requests that need one page, two pages or a list, aligned and not; the number of calls is not bounded |
| `filesystem` | chains are disjoint and end, files read back as written, open files read as they were, no cluster is lost, the backup FAT is never ahead, a signed disk has its partition table | 7 clusters of 2 units, directories of 3 entries, a complete installation that leaves 2 clusters free, then 3 calls out of nine or on open files, 2 power losses between any two sector writes |
| `usb` | cycle bits tell new events from old ones, requests get their own answers, the keyboard is never left without a TRB, keys are read once and in order; the boot ends, keys arrive | 2 ports with any devices; an event ring of 28, enough for a storage and a keyboard and overrun by two storages, as the 32 of the code are; transfer rings of 4; one fault or late answer; 3 reports of up to 2 keys each, an input buffer of 2 |

A structure that Exit leaks never comes back, so the number of structures
bounds the length of a behaviour of `Scheduler`; TaskExit and failed loads do
reuse structures.  Deadlock is not checked in `paging`, `filesystem` and `usb`,
where the bounds end a behaviour, and in `nvme`, where the driver halts when
the controller does not come up and polls for ever for a queue that could not
be created.

Runs that show a disagreement between the code and its own words (the findings
in `PROJECT.json` quote the lines):

| run | the code |
|---|---|
| `preempt_taskexit` | a tick inside the Schedule of TaskExit loses the idle task |
| `usermode_frames` | after a switch back, system calls are made on another task's kernel stack, over its suspended frame |
| `paging_third` | loading a third program replaces the second, which is alive |
| `usb_other_device` | a device that is neither a keyboard nor a mass storage is kept as the mass storage, and the installer announces and reads it |

What the models contain without a run of their own:

* the first program is copied to the physical memory at its link address, not
  into the frames allocated for it (its page directory was copied before the
  kernel's huge page was split);
* a process whose tables could only be copied in part shares the kernel's,
  which are released with it, and a creation that fails before there is a table
  releases its creator's; the stack frames of a process, and their page table,
  are lost when it ends;
* when the first region large enough for the bitmap is at address 0, it is
  taken for none, and the kernel halts;
* after a power loss during the formatting, between the boot sector and the
  root directory, the disk counts as installed; after one inside DeleteFile an
  entry leads to freed clusters;
* an event of the keyboard that comes while the driver waits for another device
  is thrown away and its TRB not replaced: the keyboard is silent from then on;
* a tick inside the Update of Read, inside its `count_--` or inside Flush
  (mark `overlap`).  `KeyboardInput` does not follow a behaviour beyond it.

## Fairness

`scheduler_kernel` assumes weak fairness of the boot steps, of the timer (the local
APIC timer is periodic and is started after `Enable`), of a load that is under
way and of the second half of TaskExit.  It assumes strong fairness of
`Yield \/ Exit \/ TaskExit` for each task: an application that gets the CPU
again and again eventually gives it up.  The kernel does not enforce that,
since it never preempts an application; it is what the programs have to do, and
the shell's loop does (Read, OnKey, Yield).

`memory` assumes weak fairness of the search loop only: it is straight-line
code.  `nvme` assumes that the controller executes a submitted command in the
end and that the driver goes on when it has seen the completion.  `usb` assumes
weak fairness of the driver's boot steps, of a controller that obeys a
requested halt, reset or start, of a successful answer to whatever is
outstanding, of the timer, and of a Read that has begun.  Nothing is assumed of
the keys, of Flush, or of faults.  `filesystem` has no liveness: a call is a
finite list of writes.

## Proofs

TLAPS proves, for every set of tasks, every memory map, every size of the
queues and rings and every set of requests:

* **Ready list** (`ReadyListProofs`).  `AddLemma`, `RemoveLemma` and `HeadLemma`
  say what the three operations do to a list that represents a sequence:
  append, delete, first element.  A list represents a sequence of distinct
  tasks when head, tail, next and prev are those of the sequence and no other
  task has a link; everything about pointers is in this module.
* **Scheduler** (`SchedulerProofs`).  `TypeCorrect`, `ListStaysWellFormed`,
  `OneRunningTask`, `NothingLost` for `ApiSpec`; the latter two include that only
  live READY tasks are queued and that the count of tasks is exact, which no
  run checks.  The inductive invariant `ApiInv` is the conjunction of all these
  with what is needed to keep them: a task that CreateProcess holds is live, READY,
  unqueued and held once.  Without that, publishing it could queue it twice or
  resurrect a released structure.
  For `Spec` (the calls the kernel makes), `KernelInv` adds who can be what
  before the shell is started, from which `IdleNeverLost`,
  `TaskExitDoesNotReturn` and `IdleLoadsWithoutCompany` follow.
* **Memory manager** (`MemoryManagerProofs`).  `MemoryTypeCorrect`,
  `BlocksNeverOverlap` (which includes that blocks are usable frames),
  `FramesAreConserved`, `BitmapStaysInFreeMemory`, and
  `AllocatorIsFirstFit`: the loop implements `FrameAllocator`.  The inductive
  invariant adds that clear bits are usable frames and `SearchSound`: no run
  that fits starts below the position of the search.  It is what makes the
  first run found the lowest, and a failure of the search a proof that there
  is none.
* **NVMe** (`NvmeProofs`).  `NvmeTypes`, `PhaseAlwaysTells`, `OneCommand`,
  `StatusIsOwn`, and `NvmeIsBlockDevice`: the driver implements `BlockDevice`.
  The inductive invariant `DriverInv` says which completion entries carry the
  controller's tag (those before its tail), when the driver's phase differs
  from it (only between the two wraps), and that an unanswered command is the
  one of the current request.  `PhaseTellsNew` alone is not inductive: it looks
  at one entry, and the next one becomes the head.  `PrpsCoverBuffer` is about
  `SetupPRPs`: whichever of its three forms it chooses, block i of the transfer
  is block i of the buffer.
* **Event ring** (`UsbProofs`).  `EventsAlwaysToldApart`.  The invariant of a
  ring, `RingInv`, says that the entries in front of the controller's position
  carry its cycle bit and the others the opposite one, and that the driver is
  in the same lap and not ahead, or one lap behind with the controller not yet
  at the dequeue pointer, which the driver never falls behind.  `PostKeeps`,
  `TakeEventKeeps` and `AdvanceKeeps` show that the three operations keep it,
  `BitsTell` that it is enough.  The invariant of the system, `EInv`, adds that
  the event which Read has seen and not yet left behind is still the current
  one: the controller cannot change that, and a tick that does is an overlap.

Assumptions: those named in the modules (`Null` is not a task; frames have a
positive size; descriptors are well formed; queues and event rings have at
least two entries, transfer rings three; requests ask for at least one block).

Only model-checked: liveness (`EveryReadyTaskRuns`, `CpuNeverAbandoned`,
`SearchEnds`, `CallsReturn`, `BootCompletes`, `KeysArrive`), because fairness is
outside the prover's reach; `ImplementsRoundRobin`, whose mapping goes through
the choice of the sequence that a list represents; `Fat32` and `FileSystem`,
where a chain is what a recursive walk finds and a proof would need induction
over it; `UserMode`, `Paging`, and the rest of `Xhci` and `KeyboardInput`.

## Not modelled

* Console, graphics and printk: drawing and formatting.
* PCI enumeration and the boot loader: one sequential pass over configuration
  space or firmware calls.
* The user programs and string helpers: line editing and string handling; their
  only share in the concurrency is that they call Read and Yield.
* The kernel shell: nothing instantiates it.
* The logger: nothing calls Flush or reads the entries, so the log is written
  to memory and never looked at.
* `ProcessInterrupt` of the xHCI driver: the controller's interrupts are never
  enabled (USBCMD.INTE is not set), events are only polled.
* `PipeFD` and `ConsoleFD`: no two tasks share a pipe, and the console is
  output.  The serial input of debug builds.
* Parsing of ELF files, long file names, the fields of the GPT and their CRCs:
  data that nothing in the models depends on.
* Of the modelled parts: the contents of argv, the TSS, the stack to which
  ExitApp returns, which depends on the layout of compiled stack frames, the
  user stack pointer that SyscallEntry keeps in one shared slot (the same
  interleaving as in `usermode_frames` makes it another application's), the two
  stores by which the idle task publishes the shell, regions of several pages in
  `Paging`, and disk writes that fail silently under the file system.
