--------------------------------- MODULE Mm ---------------------------------
(***************************************************************************)
(* Address spaces: the pool of paging pages, the page directory and tables *)
(* of the kernel and of every slot of the task table, the copy window, and *)
(* the memory that boot, execve and fork fill through them                 *)
(* (arch/x86/mm.c, kernel/core/elf_loader.c, the memory half of sched.c).  *)
(*                                                                         *)
(* Addresses count pages.  A page holds one value.  The virtual layout is, *)
(* from below: the low table (start-up code, screen), the process, the     *)
(* kernel, the copy window; each region starts at a table boundary, as     *)
(* PROCESS_VA_BASE, KERNEL_VA_BASE and COPY_SRC_VA do.                      *)
(*                                                                         *)
(* Tasks and kernel all run in ring 0 (task_trampoline jumps to the        *)
(* program), so the writable and user bits stop nobody and are left out.   *)
(***************************************************************************)
EXTENDS Integers, FiniteSets

CONSTANTS
  MAX_PROCESS_CNT,      \* slots of the task table
  PAGE_TABLE_ENTRIES,   \* pages one table covers
  ProcPages,            \* PROCESS_VA_SIZE in pages
  Data,                 \* what programs write
  ImagePages            \* sizes of the embedded programs, .data and .bss

ASSUME MmAssumption ==
  /\ MAX_PROCESS_CNT \in Nat \ {0, 1}
  /\ PAGE_TABLE_ENTRIES \in Nat \ {0, 1}
  /\ ProcPages \in Nat \ {0}
  /\ ImagePages \subseteq 1 .. (ProcPages - 2)

VARIABLES
  phase,    \* "boot", "table" (task_table_init), "run", or "panic"
  next,     \* mm_paging_next
  pd,       \* page directories: of the kernel (KernelMm) and of each slot
  pt,       \* page tables
  vma,      \* which slots have their VMA_TYPE_PROCESS
  cr3,      \* the address space in use
  tlb,      \* translations the processor remembers
  mem,      \* physical memory
  live,     \* slots with a task
  copy,     \* mm_copy_vma in progress
  args      \* the arguments of the last execve: where they were, what they
            \* were, what the new program finds

mmVars == <<phase, next, pd, pt, vma, cr3, tlb, mem, live, copy, args>>
-----------------------------------------------------------------------------
Slots == 0 .. (MAX_PROCESS_CNT - 1)
KernelMm == MAX_PROCESS_CNT
Spaces == Slots \cup {KernelMm}

DIV_ROUND_UP(x, y) == (x + y - 1) \div y
VM_USER_PTS_PER_PROC == DIV_ROUND_UP(ProcPages, PAGE_TABLE_ENTRIES)
MM_PAGING_PAGES_TOTAL == MAX_PROCESS_CNT * (1 + VM_USER_PTS_PER_PROC)

Absent == -1
PDE_INDEX(va) == va \div PAGE_TABLE_ENTRIES
PTE_INDEX(va) == va % PAGE_TABLE_ENTRIES

\* Virtual pages.
PremainVa == 0
VgaVa == 1
ProcessVa == PAGE_TABLE_ENTRIES
KernelVa == PAGE_TABLE_ENTRIES * (1 + VM_USER_PTS_PER_PROC)
COPY_SRC_VA == KernelVa + PAGE_TABLE_ENTRIES
COPY_DST_VA == COPY_SRC_VA + 1
WindowVas == {COPY_SRC_VA, COPY_DST_VA}
ProcessVas == ProcessVa .. (ProcessVa + ProcPages - 1)
StackVa == ProcessVa + ProcPages - 1
Pdes == 0 .. PDE_INDEX(COPY_SRC_VA)
Ptes == 0 .. (PAGE_TABLE_ENTRIES - 1)

\* Physical frames: start-up code, screen, kernel, then one region per slot.
PremainFrame == 0
VgaFrame == 1
KernelFrame == 2
PROCESS_PA_START == 3
Frames == 0 .. (PROCESS_PA_START + MAX_PROCESS_CNT * ProcPages - 1)
Region(s) == LET base == PROCESS_PA_START + s * ProcPages
             IN  base .. (base + ProcPages - 1)

\* Tables: the pages of the pool, then the two the start-up code filled.
LowPt == MM_PAGING_PAGES_TOTAL
HighPt == MM_PAGING_PAGES_TOTAL + 1
Pages == 0 .. HighPt

Blank == "blank"
Image == "image"
Values == Data \cup {Blank, Image}

Nobody == [to |-> Absent, page |-> 0, step |-> "idle"]
NoArgs == [from |-> Absent, want |-> Blank, have |-> Blank]
NoTables == [i \in Pdes |-> Absent]
NoPages == [i \in Ptes |-> Absent]
-----------------------------------------------------------------------------
(* What an address space translates an address to.                         *)
mm_va_to_pa(s, va) ==
  IF pd[s][PDE_INDEX(va)] = Absent
  THEN Absent
  ELSE pt[pd[s][PDE_INDEX(va)]][PTE_INDEX(va)]

(* The processor: a remembered translation wins over the tables.           *)
Translate(t, va) == IF va \in DOMAIN t THEN t[va] ELSE mm_va_to_pa(cr3, va)
Remember(t, va) ==
  [a \in DOMAIN t \cup {va} |-> IF a = va THEN Translate(t, va) ELSE t[a]]
invlpg(t, vas) == [a \in DOMAIN t \ vas |-> t[a]]
Flushed == [a \in {} |-> Absent]

(* A state of the paging structures.  vm_map_impl walks the pages from va  *)
(* up and takes a page of the pool for every directory entry that is       *)
(* absent; when the pool is empty it returns, and says so to nobody.       *)
Paging == [next |-> next, pd |-> pd, pt |-> pt]

CanAlloc(g) == g.next < MM_PAGING_PAGES_TOTAL

vm_map_page(g, s, va, pa) ==
  LET i == PDE_INDEX(va)
      withTable == IF g.pd[s][i] # Absent
                   THEN g
                   ELSE [next |-> g.next + 1,
                         pd   |-> [g.pd EXCEPT ![s][i] = g.next],
                         pt   |-> [g.pt EXCEPT ![g.next] = NoPages]]
  IN  [withTable EXCEPT !.pt[withTable.pd[s][i]][PTE_INDEX(va)] = pa]

vm_map_impl(g0, s, va, pa, size) ==
  LET run[n \in 0 .. size] ==
        IF n = 0 THEN [g |-> g0, on |-> TRUE]
        ELSE LET r == run[n - 1]
                 v == va + n - 1
             IN  IF r.on /\ (r.g.pd[s][PDE_INDEX(v)] # Absent \/ CanAlloc(r.g))
                 THEN [r EXCEPT !.g = vm_map_page(r.g, s, v, pa + n - 1)]
                 ELSE [r EXCEPT !.on = FALSE]
  IN  run[size].g

vm_unmap_impl(g, s, vas) ==
  [g EXCEPT !.pt = [p \in Pages |-> [e \in Ptes |->
     IF \E v \in vas : g.pd[s][PDE_INDEX(v)] = p /\ PTE_INDEX(v) = e
     THEN Absent ELSE g.pt[p][e]]]]

SetPaging(g) == next' = g.next /\ pd' = g.pd /\ pt' = g.pt
-----------------------------------------------------------------------------
(* kpremain has filled the two kernel tables: start-up code and screen at  *)
(* their own addresses, the kernel at its high address.                    *)
MmInit ==
  /\ phase = "boot"
  /\ next = 0
  /\ pd = [s \in Spaces |-> IF s = KernelMm
                            THEN [NoTables EXCEPT ![0] = LowPt,
                                                  ![PDE_INDEX(KernelVa)] = HighPt]
                            ELSE NoTables]
  /\ pt = [p \in Pages |->
             IF p = LowPt THEN [NoPages EXCEPT ![PremainVa] = PremainFrame,
                                               ![VgaVa] = VgaFrame]
             ELSE IF p = HighPt THEN [NoPages EXCEPT ![0] = KernelFrame]
             ELSE NoPages]
  /\ vma = {}
  /\ cr3 = KernelMm
  /\ tlb = Flushed
  /\ mem = [f \in Frames |-> Blank]
  /\ live = {}
  /\ copy = Nobody
  /\ args = NoArgs

(* mm_activate: the stack must be mapped in the new space; loading cr3     *)
(* forgets every translation.                                              *)
mm_activate(g, s) ==
  /\ g.pd[s][PDE_INDEX(KernelVa)] # Absent
  /\ g.pt[g.pd[s][PDE_INDEX(KernelVa)]][PTE_INDEX(KernelVa)] # Absent
  /\ cr3' = s
  /\ tlb' = Flushed

(* mm_init.  vm_unmap_premain, the VMA of the screen (already mapped, so   *)
(* no table is taken), the table of the copy window.                       *)
mm_init ==
  /\ phase = "boot"
  /\ LET unmapped == vm_unmap_impl(Paging, KernelMm, {PremainVa})
         screen == vm_map_impl(unmapped, KernelMm, VgaVa, VgaFrame, 1)
     IN  IF ~CanAlloc(screen)
         THEN phase' = "panic" /\ SetPaging(screen) /\ UNCHANGED <<cr3, tlb>>
         ELSE LET g == [next |-> screen.next + 1,
                        pd   |-> [screen.pd EXCEPT
                                    ![KernelMm][PDE_INDEX(COPY_SRC_VA)] = screen.next],
                        pt   |-> [screen.pt EXCEPT ![screen.next] = NoPages]]
              IN  phase' = "table" /\ SetPaging(g) /\ mm_activate(g, KernelMm)
  /\ UNCHANGED <<vma, mem, live, copy, args>>

(* mm_fork_kernel: a directory page from the pool with the kernel's        *)
(* entries, the screen and the copy window among them.                     *)

mm_fork_kernel(g, s) ==
  [g EXCEPT !.next = g.next + 1,
            !.pd[s] = [i \in Pdes |-> g.pd[KernelMm][i]]]

(* One turn of task_table_init: the slot's space and its VMA.              *)
SlotsReady == Cardinality(vma)

task_table_init ==
  /\ phase = "table"
  /\ SlotsReady < MAX_PROCESS_CNT
  /\ CanAlloc(Paging)
  /\ LET s == SlotsReady
     IN  /\ SetPaging(vm_map_impl(mm_fork_kernel(Paging, s), s, ProcessVa,
                                  PROCESS_PA_START + s * ProcPages, ProcPages))
         /\ vma' = vma \cup {s}
  /\ UNCHANGED <<phase, cr3, tlb, mem, live, copy, args>>

(* A write to and a read from virtual memory, through the processor.       *)
Mapped(t, vas) == \A v \in vas : Translate(t, v) # Absent
Store(s, writes) ==
  [f \in Frames |-> IF \E v \in DOMAIN writes : mm_va_to_pa(s, v) = f
                    THEN writes[CHOOSE v \in DOMAIN writes : mm_va_to_pa(s, v) = f]
                    ELSE mem[f]]

(* elf_load: the segments of the program, from PROCESS_VA_BASE up.         *)
elf_load(n) == [v \in ProcessVa .. (ProcessVa + n - 1) |-> Image]

(* task_init_args and task_init_env: arguments and environment go to the   *)
(* heap, which starts behind the image.                                    *)
task_init_args(memory, brk, passed) == [memory EXCEPT ![brk] = passed]

(* task_kernel_exec for the first task: its space is activated only to be  *)
(* filled.                                                                 *)
task_kernel_exec ==
  /\ phase = "table"
  /\ SlotsReady = MAX_PROCESS_CNT
  /\ \E n \in ImagePages :
       IF \A v \in DOMAIN elf_load(n) : mm_va_to_pa(0, v) # Absent
       THEN mem' = Store(0, elf_load(n)) /\ phase' = "run"
       ELSE phase' = "panic" /\ UNCHANGED mem
  /\ live' = {0}
  /\ mm_activate(Paging, KernelMm)
  /\ UNCHANGED <<next, pd, pt, vma, copy, args>>
-----------------------------------------------------------------------------
(* The run phase.  A system call runs in the space of the task that makes  *)
(* it; only ctx_switch changes the space.                                  *)
Running == phase = "run" /\ copy = Nobody
InTask == Running /\ cr3 \in live

\* Faulty variant of Switch: the new task keeps the old translations.
Switch_keeps_tlb(s) ==
  /\ Running
  /\ s \in live
  /\ cr3' = s
  /\ UNCHANGED <<phase, next, pd, pt, vma, tlb, mem, live, copy, args>>

(* ctx_switch: cr3 is all it loads.                                        *)
Switch(s) ==
  /\ Running
  /\ s \in live
  /\ cr3' = s
  /\ tlb' = Flushed
  /\ UNCHANGED <<phase, next, pd, pt, vma, mem, live, copy, args>>

(* The program writes its memory (Next lets it write its first page, where *)
(* its static data is, and its stack).                                     *)
Write(va, v) ==
  /\ InTask
  /\ LET t == Remember(tlb, va)
     IN  IF Translate(tlb, va) = Absent
         THEN phase' = "panic" /\ UNCHANGED <<tlb, mem>>     \* page fault
         ELSE /\ tlb' = t
              /\ mem' = [mem EXCEPT ![t[va]] = v]
              /\ UNCHANGED phase
  /\ UNCHANGED <<next, pd, pt, vma, cr3, live, copy, args>>

(* sched_execve: the new image over the old one, then the arguments - read *)
(* where the old program left them - to the heap behind it.  There is no   *)
(* other copy of them.                                                     *)
Exec(n, from) ==
  /\ InTask
  /\ Mapped(tlb, ProcessVas)
  /\ LET t == [v \in ProcessVas |-> Translate(tlb, v)]
         loaded == Store(cr3, elf_load(n))
         passed == loaded[t[from]]
     IN  /\ mem' = task_init_args(loaded, t[ProcessVa + n], passed)
         /\ args' = [from |-> from, want |-> mem[t[from]], have |-> passed]
  /\ UNCHANGED <<phase, next, pd, pt, vma, cr3, tlb, live, copy>>

(* The program uses its arguments (or overwrites them): nothing is claimed *)
(* of them any more.                                                       *)
Forget ==
  /\ args # NoArgs
  /\ args' = NoArgs
  /\ UNCHANGED <<phase, next, pd, pt, vma, cr3, tlb, mem, live, copy>>

(* The task ends; the scheduler goes on with another one.                  *)
Exit(s) ==
  /\ InTask
  /\ cr3 # 0
  /\ s \in live \ {cr3}
  /\ live' = live \ {cr3}
  /\ cr3' = s
  /\ tlb' = Flushed
  /\ UNCHANGED <<phase, next, pd, pt, vma, mem, copy, args>>

(* sched_fork takes a slot and starts mm_copy_vma.                         *)
Fork(c) ==
  /\ InTask
  /\ c \in Slots \ live
  /\ c \in vma /\ cr3 \in vma
  /\ copy' = [to |-> c, page |-> 0, step |-> "arm"]
  /\ UNCHANGED <<phase, next, pd, pt, vma, cr3, tlb, mem, live, args>>

SetWindow(src, dst) ==
  pt' = [pt EXCEPT ![pd[KernelMm][PDE_INDEX(COPY_SRC_VA)]] =
           [@ EXCEPT ![PTE_INDEX(COPY_SRC_VA)] = src,
                     ![PTE_INDEX(COPY_DST_VA)] = dst]]

(* One page of mm_copy_vma: both addresses are looked up and mapped in the *)
(* window,                                                                 *)
CopyArm ==
  /\ phase = "run" /\ copy.step = "arm"
  /\ LET src == mm_va_to_pa(cr3, ProcessVa + copy.page)
         dst == mm_va_to_pa(copy.to, ProcessVa + copy.page)
     IN  IF src = Absent \/ dst = Absent
         THEN phase' = "panic" /\ UNCHANGED <<pt, tlb, copy>>
         ELSE /\ SetWindow(src, dst)
              /\ tlb' = invlpg(tlb, WindowVas)
              /\ copy' = [copy EXCEPT !.step = "copy"]
              /\ UNCHANGED phase
  /\ UNCHANGED <<next, pd, vma, cr3, mem, live, args>>

(* k_memcpy goes through the window,                                       *)
CopyBytes ==
  /\ phase = "run" /\ copy.step = "copy"
  /\ LET t == Remember(Remember(tlb, COPY_SRC_VA), COPY_DST_VA)
     IN  /\ tlb' = t
         /\ mem' = [mem EXCEPT ![t[COPY_DST_VA]] = mem[t[COPY_SRC_VA]]]
  /\ copy' = [copy EXCEPT !.step = "disarm"]
  /\ UNCHANGED <<phase, next, pd, pt, vma, cr3, live, args>>

NextPage ==
  IF copy.page + 1 < ProcPages
  THEN /\ copy' = [copy EXCEPT !.page = @ + 1, !.step = "arm"]
       /\ UNCHANGED live
  ELSE copy' = Nobody /\ live' = live \cup {copy.to}

(* and the window is closed.                                               *)
CopyDisarm ==
  /\ phase = "run" /\ copy.step = "disarm"
  /\ SetWindow(Absent, Absent)
  /\ tlb' = invlpg(tlb, WindowVas)
  /\ NextPage
  /\ UNCHANGED <<phase, next, pd, vma, cr3, mem, args>>

MmNext ==
  \/ mm_init
  \/ task_table_init
  \/ task_kernel_exec
  \/ \E s \in Slots : Switch(s)
  \/ \E va \in {ProcessVa, StackVa}, v \in Data : Write(va, v)
  \/ \E n \in ImagePages, from \in {ProcessVa, StackVa} : Exec(n, from)
  \/ Forget
  \/ \E s \in Slots : Exit(s)
  \/ \E c \in Slots : Fork(c)
  \/ CopyArm \/ CopyBytes \/ CopyDisarm

MmSpec == MmInit /\ [][MmNext]_mmVars
-----------------------------------------------------------------------------
(* Types: no table or frame outside the pool and the memory is ever named. *)
MmTypeOK ==
  /\ phase \in {"boot", "table", "run", "panic"}
  /\ next \in 0 .. MM_PAGING_PAGES_TOTAL
  /\ pd \in [Spaces -> [Pdes -> Pages \cup {Absent}]]
  /\ pt \in [Pages -> [Ptes -> Frames \cup {Absent}]]
  /\ vma \subseteq Slots
  /\ cr3 \in Spaces
  /\ \A va \in DOMAIN tlb : tlb[va] \in Frames
  /\ mem \in [Frames -> Values]
  /\ live \subseteq Slots
  /\ copy \in [to : Slots \cup {Absent}, page : 0 .. (ProcPages - 1),
               step : {"idle", "arm", "copy", "disarm"}]
  /\ args \in [from : {Absent} \cup ProcessVas, want : Values, have : Values]

(* A slot's process pages lie in the slot's own region of physical memory, *)
(* each page in a frame of its own, and its tables are in no other slot's  *)
(* directory: what a program writes below the kernel's addresses never     *)
(* shows in another program (mm_fork_kernel, mm_add_vma, vm_map_impl).     *)
Isolation ==
  \A s \in vma :
    /\ \A va \in ProcessVas : mm_va_to_pa(s, va) \in
          {PROCESS_PA_START + s * ProcPages + (va - ProcessVa), Absent}
    /\ \A t \in vma \ {s}, va \in ProcessVas :
          \/ pd[s][PDE_INDEX(va)] = Absent
          \/ pd[s][PDE_INDEX(va)] # pd[t][PDE_INDEX(va)]

(* The copy window is closed between two pages: no entry of its table and  *)
(* no remembered translation leaves the frames of two slots within reach   *)
(* of every space (mm_copy_vma, "Disarm immediately").                     *)
WindowClosed ==
  phase # "boot" /\ copy.step \in {"idle", "arm"} =>
    \A va \in WindowVas :
      /\ va \notin DOMAIN tlb
      /\ \A s \in vma \cup {KernelMm} : mm_va_to_pa(s, va) = Absent

(* A task that runs can reach the whole of its memory: a slot that did not *)
(* get all its tables at boot never gets a task (vm_map_impl returns       *)
(* early without a word; fork panics when it comes to such a slot).        *)
RunnersMapped ==
  phase = "run" => \A s \in live, va \in ProcessVas : mm_va_to_pa(s, va) # Absent

(* When sched_fork has copied the last page the child's memory is the      *)
(* parent's, page by page, whatever was copied through the window before   *)
(* (mm_copy_vma).                                                          *)
ForkCopies ==
  [][copy.step = "disarm" /\ copy'.step = "idle" =>
       \A va \in ProcessVas :
         mem'[mm_va_to_pa(copy.to, va)] = mem'[mm_va_to_pa(cr3, va)]]_mmVars

(* No step changes the memory of a task other than the one that runs and   *)
(* the child being made (ctx_switch, mm_copy_vma, elf_load).               *)
OthersUntouched ==
  [][\A s \in live : s # cr3 => \A f \in Region(s) : mem'[f] = mem[f]]_mmVars

(* What execve passes on is what the caller gave it, when the caller keeps *)
(* it on its stack, as the shell keeps argv (task_init_args reads it after *)
(* elf_load has run).                                                      *)
StackArgsArrive == args.from = StackVa => args.have = args.want

(* "Copies envp[] into the process heap" (sched.c, task_init_env): what    *)
(* the new program finds is what the caller passed, wherever it kept it.   *)
ArgsArrive == args.have = args.want

(* mm_add_vma, "Map the pages": once the task table is set up every slot   *)
(* has its pages.                                                          *)
EverySlotMapped ==
  \A s \in vma, va \in ProcessVas : mm_va_to_pa(s, va) # Absent

(* Address spaces are apart: no slot's tables lead to another's frames,    *)
(* the copy window is closed between two pages, whoever runs has all its   *)
(* pages, and arguments kept on the stack survive execve. Fork makes a     *)
(* true copy, and no step touches a task that does not run.                *)
MmCorrect ==
  /\ [](MmTypeOK /\ Isolation /\ WindowClosed /\ RunnersMapped /\ StackArgsArrive)
  /\ ForkCopies
  /\ OthersUntouched
=============================================================================
