------------------------------ MODULE Process -------------------------------
(***************************************************************************)
(* Loading programs: process.c, the task list of task.c and elf_load.      *)
(*                                                                         *)
(* process_load_switch runs from kernel_main, with interrupts disabled; it *)
(* is cut into one step per function so that every allocation and every    *)
(* file operation may fail on its own.  What an allocation is for is part  *)
(* of its name: <<"stack", p>> is the stack of the p-th process loaded.    *)
(* A load that follows a null or error pointer ends in "wild", from where  *)
(* the model says nothing.                                                 *)
(***************************************************************************)
EXTENDS Integers, FiniteSets

CONSTANTS MaxProcesses, \* RASOS_MAX_PROCESSES
          MaxFds,       \* RASOS_MAX_FILEDESCRIPTORS
          Tasks,        \* addresses kzalloc may return for a struct task
          Files,        \* the files that are loaded
          kind,         \* kind[f]: what the disk holds under the name f
          MaxLoads      \* bound: calls of process_load_switch

\* A file may be missing, unreadable (empty, or a directory), an ELF file, an
\* ELF file whose segments paging_map_to refuses, or a flat binary.
Kind == {"missing", "empty", "elf", "unmappable", "binary"}

NULL == 0

ASSUME ProcessAssumption ==
    /\ MaxProcesses \in Nat \ {0} /\ MaxFds \in Nat \ {0} /\ MaxLoads \in Nat
    /\ IsFiniteSet(Tasks) /\ NULL \notin Tasks
    /\ kind \in [Files -> Kind]

OK == 0
EIO == 1
EINVARG == 2
ENOMEM == 3
EISTKN == 8

Slots == 0 .. MaxProcesses - 1
Proc  == 1 .. MaxLoads

VARIABLES
    pc, res,            \* step and result of process_load_switch
    file, proc, task,   \* its file, process and task; proc is not reused
    image,              \* "none", "elf", "garbage" (elf_file = 0) or "binary"
    processes,          \* the process table: Slots -> Proc or NULL
    current_process,
    task_head, task_tail, current_task,
    next, prev, owner,  \* the fields of the tasks; they survive a kfree
    live,               \* the tasks that are allocated
    mem,                \* what else is allocated: <<purpose, process>>
    fds,                \* open file descriptors
    tried,              \* history: the kinds of the files loaded so far
    refused, failed,    \* history: an allocation, a load has failed
    late                \* history: a task was freed while others were listed

call   == <<file, proc, task, image>>
table  == <<processes, current_process>>
list   == <<task_head, task_tail, current_task, next, prev, owner, live>>
causes == <<refused, failed, late>>
vars   == <<pc, res, call, table, list, mem, fds, tried, causes>>

Init == /\ pc = "idle" /\ res = OK /\ file \in Files /\ proc = 0 /\ task = NULL
        /\ image = "none"
        /\ processes = [s \in Slots |-> NULL] /\ current_process = NULL
        /\ task_head = NULL /\ task_tail = NULL /\ current_task = NULL
        /\ next = [t \in Tasks |-> NULL] /\ prev = next /\ owner = next
        /\ live = {} /\ mem = {} /\ fds = {}
        /\ tried = {} /\ refused = FALSE /\ failed = FALSE /\ late = FALSE

-----------------------------------------------------------------------------
Alloc(purposes) == mem' = mem \cup {<<x, proc>> : x \in purposes}

Refuse == refused' = TRUE /\ UNCHANGED <<failed, late>>

Failing(error) == pc' = "failing" /\ res' = -error

Goto(step) == pc' = step /\ UNCHANGED res

FreeSlots == {s \in Slots : processes[s] = NULL}

\* Slip: the search answers with its start value.
free_slot_slip == 0

\* process_get_free_slot.
FreeSlot == CHOOSE s \in FreeSlots : \A t \in FreeSlots : s <= t

\* Slip: descriptors start at 0.
new_fd_slip == CHOOSE fd \in 0 .. MaxFds - 1 \ fds :
                  \A other \in 0 .. MaxFds - 1 \ fds : fd <= other

\* file_new_descriptor: the lowest free one.
NewFd == CHOOSE fd \in 1 .. MaxFds \ fds : \A other \in 1 .. MaxFds \ fds : fd <= other

\* fopen returns 0 for every error.
FopenRefuses == \/ kind[file] = "missing" /\ UNCHANGED causes
                \/ fds = 1 .. MaxFds /\ UNCHANGED causes
                \/ Refuse

FopenSucceeds == kind[file] # "missing" /\ fds # 1 .. MaxFds

\* file_get_descriptor does not know the last descriptor: fstat and fclose
\* fail for it.
Unknown(fd) == fd >= MaxFds

-----------------------------------------------------------------------------
\* process_load_switch, process_load and the start of process_load_for_slot.
process_load_switch(f) ==
    /\ pc = "idle" /\ proc < MaxLoads
    /\ file' = f /\ task' = NULL /\ image' = "none"
    /\ tried' = tried \cup {kind[f]}
    /\ \/ /\ FreeSlots = {}
          /\ res' = -EISTKN
          /\ UNCHANGED <<pc, proc, mem, causes>>
       \/ /\ FreeSlots # {}
          /\ proc' = proc + 1
          /\ \/ /\ mem' = mem \cup {<<"process", proc'>>}
                /\ Goto("elf_load") /\ UNCHANGED causes
             \/ Failing(ENOMEM) /\ Refuse /\ UNCHANGED mem
    /\ UNCHANGED <<table, list, fds>>

\* Slip: the copy of an empty file is used.
elf_load_empty_slip ==
    /\ pc = "elf_load" /\ FopenSucceeds
    /\ \/ kind[file] = "empty" /\ Goto("wild") /\ UNCHANGED image
       \/ kind[file] # "empty" /\ Goto("load_stack") /\ image' = "elf"
    /\ UNCHANGED <<file, proc, task, table, list, mem, fds, tried, causes>>

\* kzalloc of the struct elf_file; it is not looked at before fopen.
AllocElfFile == Alloc({"elf_file"}) \/ (refused' /\ UNCHANGED mem)

\* elf_load.  Its result is that of fopen, 0, when fopen refuses: success
\* for the caller, who goes on with a null elf_file.
elf_load ==
    /\ pc = "elf_load"
    /\ \/ /\ FopenRefuses
          /\ AllocElfFile
          /\ image' = "garbage" /\ Goto("load_stack")
          /\ UNCHANGED fds
       \/ /\ FopenSucceeds /\ Unknown(NewFd)
          /\ fds' = fds \cup {NewFd}
          /\ \/ Alloc({"elf_file"}) /\ UNCHANGED causes
             \/ Refuse /\ UNCHANGED mem
          /\ Failing(EINVARG)
          /\ UNCHANGED image
       \/ /\ Refuse /\ Goto("wild")     \* elf_file, elf_memory or one of
          /\ UNCHANGED <<image, mem, fds>>   \* fopen's structures is null
       \/ /\ FopenSucceeds /\ ~ Unknown(NewFd)
          /\ kind[file] = "empty"       \* fread refuses to read 0 bytes
          /\ Alloc({"elf_file"}) /\ Failing(EINVARG)
          /\ UNCHANGED <<image, fds, causes>>
       \/ /\ FopenSucceeds /\ ~ Unknown(NewFd)
          /\ kind[file] # "empty"
          /\ Alloc({"elf_file", "elf_memory"})
          /\ \/ Failing(EIO) /\ UNCHANGED image     \* fread fails
             \/ kind[file] = "binary" /\ Goto("load_binary") /\ UNCHANGED image
             \/ kind[file] # "binary" /\ Goto("load_stack") /\ image' = "elf"
          /\ UNCHANGED <<fds, causes>>
    /\ UNCHANGED <<file, proc, task, table, list, tried>>

\* process_load_binary, called when elf_load has returned -EINFORMAT.  The
\* file exists then, and fopen finds the descriptor that elf_load has closed,
\* so that it fails for lack of memory only.  No error path closes the file.
process_load_binary ==
    /\ pc = "load_binary"
    /\ \/ /\ Refuse
          /\ Failing(EIO) \/ Goto("wild")   \* a structure of fopen is null
          /\ UNCHANGED <<image, mem, fds>>
       \/ /\ fds' = fds \cup {NewFd}
          /\ \/ Failing(ENOMEM) /\ Refuse /\ UNCHANGED mem
             \/ Failing(EIO) /\ Alloc({"program"}) /\ UNCHANGED causes
          /\ UNCHANGED image
       \/ /\ Alloc({"program"})
          /\ image' = "binary" /\ Goto("load_stack")
          /\ UNCHANGED <<fds, causes>>
    /\ UNCHANGED <<file, proc, task, table, list, tried>>

load_stack ==
    /\ pc = "load_stack"
    /\ \/ Alloc({"stack"}) /\ Goto("task_new") /\ UNCHANGED causes
       \/ Failing(ENOMEM) /\ Refuse /\ UNCHANGED mem
    /\ UNCHANGED <<call, table, list, fds, tried>>

\* task_new.  Its failure is not noticed (the caller compares the error with
\* 0): the caller takes the error code for a pointer.
task_new ==
    /\ pc = "task_new"
    /\ \/ /\ Refuse                     \* task_free of a null pointer
          /\ Goto("wild")
          /\ UNCHANGED <<task, list>>
       \/ /\ Refuse                     \* no page directory
          /\ \E t \in Tasks \ live :
                /\ task' = t
                /\ live' = live \cup {t}
                /\ next' = [next EXCEPT ![t] = NULL]
                /\ prev' = [prev EXCEPT ![t] = NULL]
          /\ Goto("task_init_failed")
          /\ UNCHANGED <<task_head, task_tail, current_task, owner>>
       \/ \E t \in Tasks \ live :
          /\ task' = t
          /\ live' = live \cup {t}
          /\ owner' = [owner EXCEPT ![t] = proc]
          /\ task_tail' = t
          /\ IF task_head = NULL
               THEN /\ task_head' = t /\ current_task' = t
                    /\ next' = [next EXCEPT ![t] = NULL]
                    /\ prev' = [prev EXCEPT ![t] = NULL]
               ELSE /\ next' = [[next EXCEPT ![t] = NULL] EXCEPT ![task_tail] = t]
                    /\ prev' = [prev EXCEPT ![t] = task_tail]
                    /\ UNCHANGED <<task_head, current_task>>
          /\ Goto("map_memory")
          /\ UNCHANGED causes
    /\ UNCHANGED <<file, proc, image, table, mem, fds, tried>>

\* Slip: the head of the list is not moved on.
task_free_slip(t) ==
    /\ next' = IF prev[t] # NULL THEN [next EXCEPT ![prev[t]] = next[t]] ELSE next
    /\ live' = live \ {t}
    /\ UNCHANGED <<task_head, task_tail, current_task, prev, owner>>

\* task_free: the list is mended at its head only.
task_free(t) ==
    /\ next' = IF prev[t] # NULL THEN [next EXCEPT ![prev[t]] = next[t]] ELSE next
    /\ task_head' = IF prev[t] = NULL /\ t = task_head THEN next[t] ELSE task_head
    /\ current_task' = IF t # current_task THEN current_task
                       ELSE IF next'[t] = NULL THEN task_head' ELSE next'[t]
    /\ live' = live \ {t}
    /\ UNCHANGED <<task_tail, prev, owner>>

\* The end of task_new after task_init has failed.
task_init_failed ==
    /\ pc = "task_init_failed"
    /\ task_free(task)
    /\ Goto("wild")
    /\ UNCHANGED <<call, table, mem, fds, tried, causes>>

\* process_map_memory; then the process is entered in the table, its stack
\* is mapped and it becomes the current process.
map_memory ==
    /\ pc = "map_memory"
    /\ \/ /\ \/ image = "elf" /\ kind[file] = "unmappable"
             \/ image = "garbage"
          /\ Failing(EINVARG)
          /\ UNCHANGED table
       \/ /\ ~ (image = "elf" /\ kind[file] = "unmappable")
          /\ processes' = [processes EXCEPT ![FreeSlot] = proc]
          /\ current_process' = proc
          /\ pc' = "idle" /\ res' = OK
    /\ UNCHANGED <<call, list, mem, fds, tried, causes>>

\* Slip: nothing is freed at all.
failing_slip == /\ pc = "failing"
                /\ failed' = TRUE
                /\ Goto("idle")
                /\ UNCHANGED <<call, table, list, mem, fds, tried, refused, late>>

\* The error path of process_load_for_slot: only the task is freed.
failing ==
    /\ pc = "failing"
    /\ IF task = NULL THEN UNCHANGED list ELSE task_free(task)
    /\ late' = (late \/ (task # NULL /\ task_head # task))
    /\ failed' = TRUE
    /\ Goto("idle")
    /\ UNCHANGED <<call, table, mem, fds, tried, refused>>

Next == \/ \E f \in Files : process_load_switch(f)
        \/ elf_load \/ process_load_binary \/ load_stack
        \/ task_new \/ task_init_failed \/ map_memory \/ failing

Spec == Init /\ [][Next]_vars

-----------------------------------------------------------------------------
(***************************************************************************)
(* Type correctness of the process table, the task list and the resources. *)
(***************************************************************************)
TypeOK ==
    /\ pc \in {"idle", "elf_load", "load_binary", "load_stack", "task_new",
               "task_init_failed", "map_memory", "failing", "wild"}
    /\ res \in {OK, -EIO, -EINVARG, -ENOMEM, -EISTKN}
    /\ file \in Files /\ proc \in 0 .. MaxLoads /\ task \in Tasks \cup {NULL}
    /\ image \in {"none", "elf", "garbage", "binary"}
    /\ processes \in [Slots -> Proc \cup {NULL}]
    /\ current_process \in Proc \cup {NULL}
    /\ {task_head, task_tail, current_task} \subseteq Tasks \cup {NULL}
    /\ {next, prev} \subseteq [Tasks -> Tasks \cup {NULL}]
    /\ owner \in [Tasks -> Proc \cup {NULL}]
    /\ live \subseteq Tasks
    /\ fds \subseteq 1 .. MaxFds
    /\ tried \subseteq Kind
    /\ {refused, failed, late} \subseteq BOOLEAN

Loaded == {processes[s] : s \in Slots} \ {NULL}

\* The tasks a walk along next meets, from task t on.
Listed == LET walk[n \in 0 .. Cardinality(Tasks)] ==
                IF n = 0 THEN {task_head} \ {NULL}
                ELSE walk[n - 1] \cup ({next[t] : t \in walk[n - 1]} \ {NULL})
          IN  walk[Cardinality(Tasks)]

Idle == pc = "idle"

\* Every process in the table has one slot and one task, and there are no
\* other tasks.
OneTaskEach ==
    /\ \A s, t \in Slots : s # t /\ processes[s] = processes[t] => processes[s] = NULL
    /\ {owner[t] : t \in live} = Loaded
    /\ Cardinality(live) = Cardinality(Loaded)

\* The task list holds all tasks, in a row that ends in task_tail.
ListInRow ==
    /\ Listed = live
    /\ \A t \in live : next[t] # NULL => prev[next[t]] = t
    /\ live # {} => task_tail \in live /\ next[task_tail] = NULL
    /\ current_task = task_head

(***************************************************************************)
(* Between two loads every loaded process has one slot of the table and    *)
(* exactly one live task, no other task is allocated, and the task list    *)
(* holds these tasks in a row that ends in task_tail, however the loads    *)
(* before have ended; the list is exempt once a load has failed after its  *)
(* task had been appended to those of other processes: task_list_remove    *)
(* does not move task_tail back.                                           *)
(***************************************************************************)
ListComplete == Idle => OneTaskEach /\ (~ late => ListInRow)

(***************************************************************************)
(* The process keyboard_push stores keys for (process_current) is the one  *)
(* whose program runs and calls getkey (the process of task_current), as   *)
(* long as only one process is loaded, whatever loads have failed.         *)
(***************************************************************************)
ForegroundRuns ==
    Idle /\ Cardinality(Loaded) = 1 =>
        current_task # NULL /\ owner[current_task] = current_process

\* The memory a pointer of a loaded process leads to.
Reachable == {x \in mem : /\ x[2] \in Loaded
                          /\ \/ x[1] \in {"process", "stack", "program"}
                             \/ /\ <<"elf_memory", x[2]>> \in mem
                                /\ <<"program", x[2]>> \notin mem}

(***************************************************************************)
(* Memory is lost only by loads that fail, by missing files (whose struct  *)
(* elf_file nobody gets) and by flat binaries (whose first copy, made by   *)
(* elf_load, is kept): otherwise what is allocated can be reached from the *)
(* process table.  And elf_load closes its file on every path: only loads  *)
(* of flat binaries leave a descriptor open.                               *)
(***************************************************************************)
NothingLost ==
    /\ Idle /\ ~ failed /\ ~ refused /\ tried \subseteq {"elf", "unmappable"} =>
          mem = Reachable
    /\ Idle /\ "binary" \notin tried => fds = {}

(***************************************************************************)
(* The loader follows a null or error pointer only after an allocation was *)
(* refused, but for the null elf_file of a load whose file is missing or   *)
(* found no free descriptor: it takes an ELF header from address 0 then.   *)
(***************************************************************************)
WildOnlyOutOfMemory ==
    /\ pc = "wild" => refused
    /\ image = "garbage" => \/ refused \/ kind[file] = "missing"
                            \/ fds = 1 .. MaxFds

-----------------------------------------------------------------------------
(***************************************************************************)
(* kernel_main: `if (res != OK) panic("Failed to load blank.elf\n")': a    *)
(* file that is not on the disk makes process_load_switch fail.            *)
(***************************************************************************)
MissingFileReported ==
    Idle /\ proc > 0 /\ kind[file] = "missing" => res # OK

=============================================================================
