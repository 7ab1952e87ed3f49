------------------------------- MODULE Paging -------------------------------
(***************************************************************************)
(* Page directories and tables (memory/paging/paging.c): the kernel's      *)
(* identity mapping, the directory of each task with its program and stack *)
(* (task_init, process_map_memory, process_load_switch), the page that     *)
(* copy_string_from_task borrows, and paging_free_4gb when a load fails.   *)
(* Tables live in frames of the heap and are read back from there, so that *)
(* a frame given out twice shows.  The other structures of a load are in   *)
(* Process; here they are the frames that the rest of the kernel holds.    *)
(***************************************************************************)
EXTENDS Integers, Sequences, FiniteSets

CONSTANTS DirEntries,     \* PAGE_DIRECTORY_TOTAL_ENTRIES
          TableEntries,   \* PAGE_TABLE_TOTAL_ENTRIES
          PageSize,       \* PAGE_SIZE
          HeapFrames,     \* the frames of the kernel heap
          StackPage,      \* page of RASOS_PROGRAM_VIRTUAL_STACK_ADDRESS_TOP
          StackPages,     \* RASOS_USER_PROGRAM_STACK_SIZE, in pages
          Programs,       \* ELF files: their size in pages and program headers
          MaxTasks,       \* how many tasks may be loaded, and
          MaxOthers       \* how many frames the rest of the kernel may hold

\* The pages and the bytes of the address space, at whose end addresses wrap.
PageTotal == DirEntries * TableEntries
Pages == 0 .. PageTotal - 1
Space == PageTotal * PageSize

\* A program header.
Header == [p_vaddr : 0 .. Space - 1, p_offset : 0 .. Space - 1, p_filesz : 0 .. Space - 1,
           writable : BOOLEAN]

\* The heap lies inside the address space and has room for the kernel's
\* directory; programs may be any.
ASSUME PagingAssumption ==
    /\ DirEntries \in Nat \ {0} /\ TableEntries \in Nat \ {0} /\ PageSize \in Nat \ {0}
    /\ HeapFrames \subseteq 1 .. PageTotal - 2 /\ Cardinality(HeapFrames) >= DirEntries + 2
    /\ StackPages \in Nat \ {0} /\ StackPage \in Nat /\ StackPage + StackPages <= PageTotal
    /\ Programs \subseteq [size : Nat \ {0}, headers : Seq(Header)]

VARIABLES used,     \* the frames of the heap in use
          mem,      \* what the frames of the heap hold
          kernel,   \* kernel_chunk->directory_entry
          tasks,    \* the tasks loaded
          others,   \* the frames of the rest of the kernel
          wild      \* paging_free_4gb has followed a directory that is none

vars == <<used, mem, kernel, tasks, others, wild>>

-----------------------------------------------------------------------------
\* An entry of a directory or of a table.
Entry(frame, writable) == [frame |-> frame, writable |-> writable]

\* The contents of a frame without a table.
Data == <<>>

\* The lowest free frames, in the order in which kzalloc gives them out; 0
\* when the heap has no more.
Free(u) == LET free == HeapFrames \ u
           IN  [n \in 1 .. DirEntries + 2 |->
                   IF Cardinality(free) < n THEN 0
                   ELSE CHOOSE f \in free : Cardinality({g \in free : g <= f}) = n]
First(u) == Free(u)[1]

\* The first run of n free frames.
Run(u, n) ==
    LET Fits(f) == f .. f + n - 1 \subseteq HeapFrames \ u
    IN  IF \E f \in HeapFrames : Fits(f)
          THEN CHOOSE f \in HeapFrames : Fits(f) /\ \A g \in HeapFrames : Fits(g) => f <= g
          ELSE 0

\* Slip: the offset is advanced before the table is filled.
identity_slip(i, j) == (i + 1) * TableEntries + j

Identity(i, j) == i * TableEntries + j

\* paging_new_4gb: directory, tables and chunk, in this order.  What is
\* written through a NULL pointer goes to low memory, last of all the chunk's
\* only word, the address of the directory.
paging_new_4gb(u, m, writable) ==
    LET free == Free(u)
        directory == free[1]
        table == [i \in 0 .. DirEntries - 1 |-> free[2 + i]]
        chunk == free[DirEntries + 2]
        tables == {table[i] : i \in DOMAIN table} \ {0}
        content(f) ==
            CASE f = directory -> [i \in DOMAIN table |-> Entry(table[i], TRUE)]
              [] f = chunk     -> Data
              [] f \in tables  -> LET i == CHOOSE i \in DOMAIN table : table[i] = f
                                  IN  [j \in 0 .. TableEntries - 1 |-> Entry(Identity(i, j), writable)]
              [] OTHER         -> m[f]
    IN  [directory |-> directory, chunk |-> chunk,
         used |-> u \cup tables \cup ({directory, chunk} \ {0}),
         mem |-> [f \in HeapFrames |-> content(f)]]

Tables(m, directory) == {m[directory][i].frame : i \in 0 .. DirEntries - 1}

\* Slip: the tables stay.
free_slip(u, m, directory, chunk) == u \ {directory, chunk}

paging_free_4gb(u, m, directory, chunk) == u \ ({directory, chunk} \cup Tables(m, directory))

paging_get_table_entry(m, directory, page) ==
    m[m[directory][page \div TableEntries].frame][page % TableEntries]

paging_set(m, directory, page, entry) ==
    [m EXCEPT ![m[directory][page \div TableEntries].frame][page % TableEntries] = entry]

\* Addresses, aligned, as pages.
paging_align_to_lower_page(a) == a \div PageSize
paging_align_address(a) == ((a + PageSize - 1) \div PageSize) % PageTotal

\* paging_map_range, page after page.
paging_map_range(m, directory, virt, phys, count, writable) ==
    LET map[i \in 0 .. count] ==
            IF i = 0 THEN m
            ELSE paging_set(map[i - 1], directory, (virt + i - 1) % PageTotal,
                            Entry(phys + i - 1, writable))
    IN  map[count]

Flags(h) == h.writable

elf_phdr_phys_address(file, h) == (file * PageSize + h.p_offset) % Space

\* The pages in which a header is, begins in memory, and no longer is.
VirtStart(h) == paging_align_to_lower_page(h.p_vaddr)
PhysStart(file, h) == paging_align_to_lower_page(elf_phdr_phys_address(file, h))
PhysEnd(file, h) == paging_align_address((elf_phdr_phys_address(file, h) + h.p_filesz) % Space)
PageCount(file, h) == PhysEnd(file, h) - PhysStart(file, h)

\* paging_map_to refuses a header whose end lies before its start.
Refused(file, p) == {i \in DOMAIN p.headers : PageCount(file, p.headers[i]) < 0}

\* process_map_elf: every program header of whatever type, in order, up to
\* one that is refused.
Mapped(file, p) == IF Refused(file, p) = {} THEN Len(p.headers)
                   ELSE (CHOOSE i \in Refused(file, p) : \A j \in Refused(file, p) : i <= j) - 1

process_map_elf(m, directory, file, p) ==
    LET map[i \in 0 .. Mapped(file, p)] ==
            IF i = 0 THEN m
            ELSE LET h == p.headers[i]
                 IN  paging_map_range(map[i - 1], directory, VirtStart(h), PhysStart(file, h),
                                      PageCount(file, h), Flags(h))
    IN  map[Mapped(file, p)]

-----------------------------------------------------------------------------
\* The kernel's directory is made before anything else needs the heap.
Init == LET k == paging_new_4gb({}, [f \in HeapFrames |-> Data], TRUE)
        IN  /\ used = k.used /\ mem = k.mem /\ kernel = k.directory
            /\ tasks = {} /\ others = {} /\ wild = FALSE

\* The load of a program, as far as frames and tables are concerned: its
\* file, its stack, its directory.  When task_init fails, task_free takes
\* the chunk at address 0, whose word is the directory just made.
Load(p) ==
    LET file   == Run(used, p.size)
        u1     == used \cup file .. file + p.size - 1
        stack  == Run(u1, StackPages)
        u2     == u1 \cup stack .. stack + StackPages - 1
        m2     == [f \in HeapFrames |-> IF f \in u2 \ used THEN Data ELSE mem[f]]
        d      == paging_new_4gb(u2, m2, FALSE)
        mapped == process_map_elf(d.mem, d.directory, file, p)
        all    == paging_map_range(mapped, d.directory, StackPage, stack, StackPages, TRUE)
    IN
    /\ ~ wild /\ Cardinality(tasks) < MaxTasks
    /\ \/ /\ file = 0
          /\ UNCHANGED <<used, mem, tasks, wild>>
       \/ /\ file # 0 /\ stack = 0
          /\ used' = u1
          /\ mem' = [f \in HeapFrames |-> IF f \in u1 \ used THEN Data ELSE mem[f]]
          /\ UNCHANGED <<tasks, wild>>
       \/ /\ file # 0 /\ stack # 0 /\ d.chunk = 0
          /\ mem' = d.mem
          /\ wild' = (d.directory = 0)
          /\ used' = IF d.directory = 0 THEN d.used
                     ELSE paging_free_4gb(d.used, d.mem, d.directory, 0)
          /\ UNCHANGED tasks
       \/ /\ file # 0 /\ stack # 0 /\ d.chunk # 0 /\ Mapped(file, p) < Len(p.headers)
          /\ mem' = mapped
          /\ used' = paging_free_4gb(d.used, mapped, d.directory, d.chunk)
          /\ UNCHANGED <<tasks, wild>>
       \/ /\ file # 0 /\ stack # 0 /\ d.chunk # 0 /\ Mapped(file, p) = Len(p.headers)
          /\ mem' = all /\ used' = d.used
          /\ tasks' = tasks \cup {[directory |-> d.directory, chunk |-> d.chunk,
                                   file |-> file, stack |-> stack, program |-> p]}
          /\ UNCHANGED wild
    /\ UNCHANGED <<kernel, others>>

\* Slip: the entry is not put back.
restore_slip(m, directory, page, entry) == m

Restore(m, directory, page, entry) == paging_set(m, directory, page, entry)

\* copy_string_from_task: the page of its buffer is borrowed from the task's
\* table while the string is read.
copy_string_from_task(t) ==
    LET b     == First(used)
        saved == paging_get_table_entry(mem, t.directory, b)
        m     == paging_set([mem EXCEPT ![b] = Data], t.directory, b, Entry(b, TRUE))
    IN
    /\ ~ wild /\ b # 0
    /\ mem' = Restore(m, t.directory, b, saved)
    /\ UNCHANGED <<used, kernel, tasks, others, wild>>

\* The rest of the kernel.
TakeOther == /\ ~ wild /\ Cardinality(others) < MaxOthers /\ First(used) # 0
             /\ used' = used \cup {First(used)} /\ others' = others \cup {First(used)}
             /\ mem' = [mem EXCEPT ![First(used)] = Data]
             /\ UNCHANGED <<kernel, tasks, wild>>

FreeOther == /\ ~ wild
             /\ \E f \in others : used' = used \ {f} /\ others' = others \ {f}
             /\ UNCHANGED <<mem, kernel, tasks, wild>>

Next == \/ \E p \in Programs : Load(p)
        \/ \E t \in tasks : copy_string_from_task(t)
        \/ TakeOther
        \/ FreeOther

Spec == Init /\ [][Next]_vars

-----------------------------------------------------------------------------
\* Where a page leads to in a directory.
Leads(directory, page) == paging_get_table_entry(mem, directory, page)

\* The pages of a program header, and of everything a task has of its own.
HeaderPages(h) == h.p_vaddr \div PageSize .. (h.p_vaddr + h.p_filesz - 1) \div PageSize
StackRange == StackPage .. StackPage + StackPages - 1
OwnPages(p) == StackRange \cup UNION {HeaderPages(p.headers[i]) : i \in DOMAIN p.headers}

FileFrames(t) == t.file .. t.file + t.program.size - 1
StackFrames(t) == t.stack .. t.stack + StackPages - 1
TableFrames(d) == {d} \cup Tables(mem, d)

\* The frames of a task, by their use.
Share(t) == <<{t.chunk}, TableFrames(t.directory), FileFrames(t), StackFrames(t)>>

Owned == TableFrames(kernel) \cup others \cup UNION {UNION {Share(t)[i] : i \in 1 .. 4} : t \in tasks}

Entries == [frame : Pages, writable : BOOLEAN]
Content == {Data} \cup [0 .. DirEntries - 1 -> Entries] \cup [0 .. TableEntries - 1 -> Entries]

(***************************************************************************)
(* Type correctness of frames, tables and tasks.                           *)
(***************************************************************************)
TypeOK ==
    /\ used \subseteq HeapFrames /\ others \subseteq HeapFrames
    /\ mem \in [HeapFrames -> Content]
    /\ kernel \in used
    /\ tasks \subseteq [directory : HeapFrames, chunk : HeapFrames, file : HeapFrames,
                        stack : HeapFrames, program : Programs]
    /\ wild \in BOOLEAN

(***************************************************************************)
(* Whatever is loaded, fails to load or is copied: in the kernel's         *)
(* directory every address stays itself, and writable.                     *)
(***************************************************************************)
KernelIdentity ==
    ~ wild => /\ mem[kernel] # Data
              /\ \A f \in Tables(mem, kernel) : f \in HeapFrames /\ mem[f] # Data
              /\ \A page \in Pages : Leads(kernel, page) = Entry(page, TRUE)

(***************************************************************************)
(* The frames of a directory and its tables, of programs, stacks and of    *)
(* the rest of the kernel are in use and of one use only.  A load that     *)
(* fails keeps the frames of its file and stack for good, but none of its  *)
(* directory and tables: paging_free_4gb gives back all that               *)
(* paging_new_4gb had got, even when it had not got all of it.  A          *)
(* directory that is none is followed only when the heap has no page left  *)
(* for the directory itself.                                               *)
(***************************************************************************)
FramesApart ==
    /\ ~ wild =>
        /\ Owned \subseteq used
        /\ TableFrames(kernel) \cap others = {}
        /\ \A t \in tasks, i \in 1 .. 4 : Share(t)[i] \cap (TableFrames(kernel) \cup others) = {}
        /\ \A t, u \in tasks, i, j \in 1 .. 4 :
              t # u \/ i # j => Share(t)[i] \cap Share(u)[j] = {}
        /\ \A t \in tasks : Cardinality(TableFrames(t.directory)) = DirEntries + 1
        /\ \A f \in used \ Owned : mem[f] = Data
    /\ wild => HeapFrames \subseteq used

\* What a linker makes of a program, and the loader does not test: headers
\* lie in the file and in the address space; they begin at the same place of
\* a page in both; and no two of them want different pages of the file at
\* the same place, nor the place of the stack.
Inside(p) == \A i \in DOMAIN p.headers :
                /\ p.headers[i].p_offset + p.headers[i].p_filesz <= p.size * PageSize
                /\ p.headers[i].p_vaddr + p.headers[i].p_filesz <= Space

Congruent(p) ==
    \A i \in DOMAIN p.headers : p.headers[i].p_vaddr % PageSize = p.headers[i].p_offset % PageSize

Shift(h) == VirtStart(h) - h.p_offset \div PageSize
Separate(p) ==
    \A i \in DOMAIN p.headers :
        /\ HeaderPages(p.headers[i]) \cap StackRange = {}
        /\ \A j \in DOMAIN p.headers :
              Shift(p.headers[i]) # Shift(p.headers[j])
                 => HeaderPages(p.headers[i]) \cap HeaderPages(p.headers[j]) = {}

(***************************************************************************)
(* A program finds its stack where the stack pointer starts, and each byte *)
(* of each of its headers at its virtual address, as long as headers are   *)
(* congruent and do not want the same page for different ones of the file. *)
(***************************************************************************)
SegmentsVisible ==
    ~ wild => \A t \in tasks :
        /\ \A k \in 0 .. StackPages - 1 :
              Leads(t.directory, StackPage + k) = Entry(t.stack + k, TRUE)
        /\ (Inside(t.program) /\ Congruent(t.program) /\ Separate(t.program)) =>
              \A i \in DOMAIN t.program.headers :
                  LET h == t.program.headers[i] IN
                  \A k \in 0 .. h.p_filesz - 1 :
                      LET v == h.p_vaddr + k
                      IN  Leads(t.directory, v \div PageSize).frame * PageSize + (v % PageSize)
                            = t.file * PageSize + h.p_offset + k

(***************************************************************************)
(* A page that a program whose headers lie in its file may write leads to  *)
(* its own stack, or to a page of its own file; and when the headers are   *)
(* congruent, one that is writable lies in that page.                      *)
(***************************************************************************)
WritesStayOwn ==
    ~ wild => \A t \in tasks, page \in Pages :
        LET e == Leads(t.directory, page) IN
        (Inside(t.program) /\ e.writable) =>
            \/ e.frame \in StackFrames(t)
            \/ /\ e.frame \in FileFrames(t)
               /\ Congruent(t.program) =>
                     \E i \in DOMAIN t.program.headers :
                         /\ t.program.headers[i].writable
                         /\ page \in HeaderPages(t.program.headers[i])

(***************************************************************************)
(* The kernel runs in the task's directory until kernel_page: everything   *)
(* the program does not cover (the kernel, its tables, the interrupt       *)
(* stack) is where the kernel put it.  A program large enough to cover the *)
(* interrupt stack takes it away.                                          *)
(***************************************************************************)
RestIdentity ==
    ~ wild => \A t \in tasks : (Inside(t.program) /\ Congruent(t.program)) =>
        \A page \in Pages \ OwnPages(t.program) : Leads(t.directory, page) = Entry(page, FALSE)

(***************************************************************************)
(* What programs and the kernel see: every address of the kernel is its    *)
(* own, whatever is loaded; headers and stack of a program are where the   *)
(* program expects them, it can write nothing else, and the rest is where  *)
(* the kernel put it.                                                      *)
(***************************************************************************)
Mappings == KernelIdentity /\ SegmentsVisible /\ WritesStayOwn /\ RestIdentity

=============================================================================
