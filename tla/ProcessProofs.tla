--------------------------- MODULE ProcessProofs ----------------------------
(***************************************************************************)
(* Theorems about loading programs, for any number of process slots, of    *)
(* descriptors, of task addresses, of loads and of files.                  *)
(***************************************************************************)
EXTENDS Process, FiniteSetTheorems, WellFoundedInduction, TLAPS

(***************************************************************************)
(* A set of natural numbers has a least element.                           *)
(***************************************************************************)
LEMMA Least == ASSUME NEW S, S \subseteq Nat, S # {}
               PROVE  \E n \in S : \A m \in S : n <= m
<1> DEFINE R == {ss \in Nat \X Nat : ss[1] < ss[2]}
<1>1. IsWellFoundedOn(R, Nat)
  BY NatLessThanWellFounded DEF OpToRel
<1>2. PICK n \in S : \A m \in S : ~ (<<m, n>> \in R)
  <2> HIDE DEF R
  <2> QED
    BY <1>1, WFMin
<1>3. ASSUME NEW m \in S, m < n PROVE FALSE
  <2>1. <<m, n>> \in Nat \X Nat /\ <<m, n>>[1] < <<m, n>>[2]
    BY <1>3
  <2>2. <<m, n>> \in R
    BY <2>1
  <2> HIDE DEF R
  <2> QED
    BY <1>2, <2>2
<1>4. \A m \in S : n \in Nat /\ m \in Nat
  OBVIOUS
<1> QED
  BY <1>3, <1>4

(***************************************************************************)
(* process_get_free_slot answers with a free slot, if there is one.        *)
(***************************************************************************)
LEMMA SlotFound == ASSUME FreeSlots # {}
                   PROVE  FreeSlot \in FreeSlots
<1>1. FreeSlots \subseteq Nat
  BY ProcessAssumption DEF FreeSlots, Slots
<1>2. \E s \in FreeSlots : \A t \in FreeSlots : s <= t
  BY <1>1, Least
<1> QED
  BY <1>2 DEF FreeSlot

(***************************************************************************)
(* file_new_descriptor answers with a free descriptor, if there is one.    *)
(***************************************************************************)
LEMMA FdFound == ASSUME fds \subseteq 1 .. MaxFds, fds # 1 .. MaxFds
                 PROVE  NewFd \in (1 .. MaxFds) \ fds
<1>1. (1 .. MaxFds) \ fds \subseteq Nat
  BY ProcessAssumption
<1>2. (1 .. MaxFds) \ fds # {}
  BY ProcessAssumption
<1>3. \E n \in (1 .. MaxFds) \ fds : \A m \in (1 .. MaxFds) \ fds : n <= m
  BY <1>1, <1>2, Least
<1> QED
  BY <1>3 DEF NewFd

(***************************************************************************)
(* Of all descriptors the first one is found.                              *)
(***************************************************************************)
LEMMA FirstFd == ASSUME fds = {}
                 PROVE  NewFd = 1
<1>1. 1 \in 1 .. MaxFds /\ fds \subseteq 1 .. MaxFds /\ fds # 1 .. MaxFds
  BY ProcessAssumption
<1>2. \E n \in (1 .. MaxFds) \ fds : \A m \in (1 .. MaxFds) \ fds : n <= m
  BY <1>1
<1>3. \A m \in (1 .. MaxFds) \ fds : NewFd <= m
  BY <1>2 DEF NewFd
<1>4. NewFd \in 1 .. MaxFds /\ NewFd <= 1
  BY <1>1, <1>3, FdFound
<1> QED
  BY <1>4

-----------------------------------------------------------------------------
\* The task of the load under way is in the list but not in the table.
Undone == pc \in {"map_memory", "failing"} /\ task # NULL

\* The lists mean nothing after task_init has failed.
Sane == pc \notin {"task_init_failed", "wild"}

\* The tasks of the processes in the table.
Settled == live \ (IF Undone THEN {task} ELSE {})

(***************************************************************************)
(* What each step of process_load_switch finds.                            *)
(***************************************************************************)
Steps ==
    /\ pc \in {"elf_load", "load_binary"} => image = "none"
    /\ pc \in {"elf_load", "load_binary", "load_stack", "task_new"} => task = NULL
    /\ pc \in {"elf_load", "load_binary", "load_stack", "task_new", "map_memory"}
          => FreeSlots # {}
    /\ pc \in {"elf_load", "load_binary", "load_stack", "task_new", "map_memory"}
          => proc # 0
    /\ pc = "load_binary" => fds # 1 .. MaxFds /\ kind[file] = "binary"
    /\ pc = "task_init_failed" => task # NULL
    /\ pc = "map_memory" => task # NULL
    /\ Undone => task \in live
    /\ pc # "idle" => kind[file] \in tried

(***************************************************************************)
(* Processes are numbered in the order of their loads, and enter the       *)
(* table when their load has succeeded.                                    *)
(***************************************************************************)
Numbers ==
    /\ \A q \in Loaded : q <= proc /\ (pc # "idle" => q # proc)
    /\ \A s, u \in Slots : s # u /\ processes[s] = processes[u] => processes[s] = NULL
    /\ Loaded # {} => current_process \in Loaded

(***************************************************************************)
(* The list starts with the task of a process in the table, as soon as     *)
(* there is one, and the task of a load under way does not stand there.    *)
(***************************************************************************)
Heads ==
    Sane =>
        /\ task_head # NULL => task_tail # NULL
        /\ Loaded = {} =>
              IF Undone THEN /\ task_head = task /\ current_task = task
                             /\ next[task] = NULL /\ prev[task] = NULL
                        ELSE task_head = NULL /\ current_task = NULL
        /\ Loaded # {} => /\ task_head \in Settled /\ current_task = task_head
                          /\ Undone => prev[task] # NULL

(***************************************************************************)
(* Every process in the table has one task, and no other task is left.     *)
(***************************************************************************)
Paired ==
    Sane =>
        /\ Undone => owner[task] = proc
        /\ \A t \in Settled : owner[t] \in Loaded
        /\ \A q \in Loaded : \E t \in Settled : owner[t] = q
        /\ \A t, u \in Settled : owner[t] = owner[u] => t = u

(***************************************************************************)
(* As long as nothing has failed, memory belongs to a process in the table *)
(* or to the one that is being loaded.                                     *)
(***************************************************************************)
Clean ==
    ~ failed /\ ~ refused /\ tried \subseteq {"elf", "unmappable"} /\ pc # "failing" =>
        /\ fds = {}
        /\ \A x \in mem : /\ x[1] # "program"
                          /\ x[2] \in Loaded \/ (pc # "idle" /\ x[2] = proc)
        /\ \A q \in Loaded : <<"elf_memory", q>> \in mem
        /\ pc \in {"load_stack", "task_new", "map_memory"}
              => <<"elf_memory", proc>> \in mem

(***************************************************************************)
(* Descriptors stay open after flat binaries, or if there is only one.     *)
(***************************************************************************)
Closed == MaxFds > 1 /\ "binary" \notin tried => fds = {}

(***************************************************************************)
(* Why the loader has gone astray.                                         *)
(***************************************************************************)
Blame == /\ pc = "task_init_failed" => refused
         /\ WildOnlyOutOfMemory

ProcInv == /\ TypeOK /\ Steps /\ Numbers /\ Heads /\ Paired
           /\ Clean /\ Closed /\ Blame

(***************************************************************************)
(* Nothing is loaded at the start.                                         *)
(***************************************************************************)
LEMMA InitInv == Init => ProcInv
<1> SUFFICES ASSUME Init PROVE ProcInv
  OBVIOUS
<1>1. Loaded = {} /\ ~ Undone /\ Settled = {}
  BY ProcessAssumption DEF Init, Loaded, Undone, Settled
<1>2. TypeOK
  <2>1. kind \in [Files -> Kind] /\ MaxLoads \in Nat
    BY ProcessAssumption
  <2>2. next \in [Tasks -> Tasks \cup {NULL}] /\ prev \in [Tasks -> Tasks \cup {NULL}]
    BY DEF Init
  <2>3. owner \in [Tasks -> Proc \cup {NULL}] /\ processes \in [Slots -> Proc \cup {NULL}]
    BY DEF Init
  <2>4. {next, prev} \subseteq [Tasks -> Tasks \cup {NULL}]
    BY <2>2
  <2>5. {refused, failed, late} \subseteq BOOLEAN
    BY DEF Init
  <2>6. {task_head, task_tail, current_task} \subseteq Tasks \cup {NULL}
    BY DEF Init
  <2>7. tried \subseteq Kind /\ fds \subseteq 1 .. MaxFds /\ live \subseteq Tasks
    BY DEF Init
  <2>8. proc \in 0 .. MaxLoads
    BY <2>1 DEF Init
  <2> QED
    BY <2>3, <2>4, <2>5, <2>6, <2>7, <2>8 DEF Init, TypeOK
<1> QED
  BY <1>1, <1>2 DEF Init, ProcInv, Steps, Numbers, Heads, Paired, Clean, Closed, Blame, WildOnlyOutOfMemory

(***************************************************************************)
(* The start of a load.                                                    *)
(***************************************************************************)
LEMMA ProcessLoadSwitchInv ==
    ASSUME ProcInv, NEW f \in Files, process_load_switch(f)
    PROVE  ProcInv'
<1> USE DEF ProcInv, process_load_switch, Goto, Failing, Refuse, table, list, causes
<1>1. /\ proc \in Nat /\ MaxLoads \in Nat /\ kind \in [Files -> Kind]
      /\ \A q \in Loaded : q \in Nat
  BY ProcessAssumption DEF TypeOK, Loaded, Proc
<1>2. Loaded' = Loaded /\ FreeSlots' = FreeSlots
  BY DEF Loaded, FreeSlots
<1>3. Undone' = FALSE /\ Undone = FALSE /\ Settled' = Settled /\ Sane
  BY DEF Undone, Settled, Sane
<1>4. TypeOK'
  <2>1. file' \in Files /\ proc' \in 0 .. MaxLoads /\ tried' \subseteq Kind
    BY <1>1 DEF TypeOK
  <2> QED
    BY <2>1 DEF TypeOK
<1>5. Steps'
  BY <1>1, <1>2, <1>3 DEF Steps
<1>6. Numbers'
  BY <1>1, <1>2 DEF Numbers
<1>7. Heads'
  BY <1>2, <1>3 DEF Heads
<1>8. Paired'
  BY <1>2, <1>3 DEF Paired
<1>9. Clean'
  BY <1>2 DEF Clean
<1>10. Closed'
  BY DEF Closed
<1>11. Blame'
  BY DEF Blame, WildOnlyOutOfMemory
<1> QED
  BY <1>4, <1>5, <1>6, <1>7, <1>8, <1>9, <1>10, <1>11

(***************************************************************************)
(* elf_load, whatever it finds.                                            *)
(***************************************************************************)
LEMMA ElfLoadInv ==
    ASSUME ProcInv, elf_load
    PROVE  ProcInv'
<1> USE DEF ProcInv, elf_load, Goto, Failing, Refuse, Alloc, table, list, causes
<1>1. Loaded' = Loaded /\ FreeSlots' = FreeSlots
  BY DEF Loaded, FreeSlots
<1>2. Undone' = FALSE /\ Undone = FALSE /\ Settled' = Settled /\ Sane
  BY DEF Steps, Undone, Settled, Sane
<1>3. TypeOK'
  BY FdFound DEF TypeOK, FopenSucceeds, FopenRefuses
<1>4. Steps'
  BY <1>1, <1>2 DEF Steps, FopenSucceeds
<1>5. Numbers'
  BY <1>1 DEF Numbers
<1>6. Heads'
  BY <1>1, <1>2 DEF Heads
<1>7. Paired'
  BY <1>1, <1>2 DEF Paired
<1>8. Clean'
  <2> SUFFICES ASSUME ~ failed', ~ refused', tried' \subseteq {"elf", "unmappable"}, pc' # "failing"
               PROVE  Clean'
    BY DEF Clean
  <2>1. /\ fds = {} /\ fds # 1 .. MaxFds
        /\ kind[file] # "missing" /\ kind[file] # "binary"
    BY ProcessAssumption DEF Clean, Steps, FopenRefuses
  <2>2. ~ FopenRefuses
    BY <2>1 DEF FopenRefuses
  <2>3. /\ fds' = fds /\ pc' = "load_stack"
        /\ mem' = mem \cup {<<x, proc>> : x \in {"elf_file", "elf_memory"}}
    BY <2>1, <2>2
  <2>4. \A x \in mem' : x \in mem \/ x = <<"elf_file", proc>> \/ x = <<"elf_memory", proc>>
    BY <2>3
  <2>5. <<"elf_memory", proc>> \in mem'
    BY <2>3
  <2>6. /\ \A x \in mem : x[1] # "program" /\ (x[2] \in Loaded \/ x[2] = proc)
        /\ \A q \in Loaded : <<"elf_memory", q>> \in mem
    BY DEF Clean, FopenRefuses
  <2>7. \A x \in mem' : x[1] # "program" /\ (x[2] \in Loaded' \/ x[2] = proc')
    BY <1>1, <2>4, <2>6
  <2>8. \A q \in Loaded' : <<"elf_memory", q>> \in mem'
    BY <1>1, <2>3, <2>6
  <2> QED
    BY <2>1, <2>5, <2>7, <2>8 DEF Clean
<1>9. Closed'
  <2> SUFFICES ASSUME MaxFds > 1, "binary" \notin tried
               PROVE  fds' = {}
    BY DEF Closed
  <2>1. fds = {} /\ ~ Unknown(NewFd)
    BY FirstFd, ProcessAssumption DEF Closed, Unknown
  <2> QED
    BY <2>1
<1>10. Blame'
  BY DEF FopenRefuses, FopenSucceeds, Blame, WildOnlyOutOfMemory
<1> QED
  BY <1>3, <1>4, <1>5, <1>6, <1>7, <1>8, <1>9, <1>10

(***************************************************************************)
(* process_load_binary.                                                    *)
(***************************************************************************)
LEMMA ProcessLoadBinaryInv ==
    ASSUME ProcInv, process_load_binary
    PROVE  ProcInv'
<1> USE DEF ProcInv, process_load_binary, Goto, Failing, Refuse, table, list, causes
<1>1. Loaded' = Loaded /\ FreeSlots' = FreeSlots
  BY DEF Loaded, FreeSlots
<1>2. Undone' = FALSE /\ Undone = FALSE /\ Settled' = Settled /\ Sane
  BY DEF Steps, Undone, Settled, Sane
<1>3. TypeOK'
  BY FdFound DEF TypeOK, Steps
<1>4. Steps'
  BY <1>1, <1>2 DEF Steps
<1>5. Numbers'
  BY <1>1 DEF Numbers
<1>6. Heads'
  BY <1>1, <1>2 DEF Heads
<1>7. Paired'
  BY <1>1, <1>2 DEF Paired
<1>8. Clean'
  BY DEF Clean, Steps
<1>9. Closed'
  BY DEF Closed, Steps
<1>10. Blame'
  BY DEF Blame, WildOnlyOutOfMemory, Steps
<1> QED
  BY <1>3, <1>4, <1>5, <1>6, <1>7, <1>8, <1>9, <1>10

(***************************************************************************)
(* The stack of the program.                                               *)
(***************************************************************************)
LEMMA LoadStackInv ==
    ASSUME ProcInv, load_stack
    PROVE  ProcInv'
<1> USE DEF ProcInv, load_stack, Goto, Failing, Refuse, Alloc, call, table, list, causes
<1>1. Loaded' = Loaded /\ FreeSlots' = FreeSlots
  BY DEF Loaded, FreeSlots
<1>2. Undone' = FALSE /\ Undone = FALSE /\ Settled' = Settled /\ Sane
  BY DEF Steps, Undone, Settled, Sane
<1>3. TypeOK'
  BY DEF TypeOK
<1>4. Steps'
  BY <1>1, <1>2 DEF Steps
<1>5. Numbers'
  BY <1>1 DEF Numbers
<1>6. Heads'
  BY <1>1, <1>2 DEF Heads
<1>7. Paired'
  BY <1>1, <1>2 DEF Paired
<1>8. Clean'
  BY <1>1 DEF Clean
<1>9. Closed'
  BY DEF Closed
<1>10. Blame'
  BY DEF Blame, WildOnlyOutOfMemory
<1> QED
  BY <1>3, <1>4, <1>5, <1>6, <1>7, <1>8, <1>9, <1>10

(***************************************************************************)
(* task_new, up to the failure of task_init or to a task in the list.      *)
(***************************************************************************)
LEMMA TaskNewInv == ASSUME ProcInv, task_new
                    PROVE  ProcInv'
<1> USE DEF ProcInv, task_new, Goto, Refuse, list, table, causes
<1>1. Loaded' = Loaded /\ FreeSlots' = FreeSlots
  BY DEF Loaded, FreeSlots
<1>2. pc = "task_new" /\ task = NULL /\ ~ Undone /\ Settled = live /\ Sane
  BY DEF Steps, Undone, Settled, Sane
<1>3. NULL \notin Tasks /\ live \subseteq Tasks /\ {next, prev} \subseteq [Tasks -> Tasks \cup {NULL}]
      /\ owner \in [Tasks -> Proc \cup {NULL}] /\ proc \in Proc
  BY ProcessAssumption DEF TypeOK, Steps, Proc
<1>4. next \in [Tasks -> Tasks \cup {NULL}] /\ prev \in [Tasks -> Tasks \cup {NULL}]
  BY <1>3
<1>5. TypeOK'
  <2>1. \A t \in Tasks : /\ [next EXCEPT ![t] = NULL] \in [Tasks -> Tasks \cup {NULL}]
                          /\ [prev EXCEPT ![t] = NULL] \in [Tasks -> Tasks \cup {NULL}]
    BY <1>4
  <2>2. \A t \in Tasks :
           [[next EXCEPT ![t] = NULL] EXCEPT ![task_tail] = t] \in [Tasks -> Tasks \cup {NULL}]
    BY <2>1
  <2>3. \A t \in Tasks : [prev EXCEPT ![t] = task_tail] \in [Tasks -> Tasks \cup {NULL}]
    BY <1>4 DEF TypeOK
  <2>4. next' \in [Tasks -> Tasks \cup {NULL}]
    BY <1>4, <2>1, <2>2
  <2>5. prev' \in [Tasks -> Tasks \cup {NULL}]
    BY <1>4, <2>1, <2>3
  <2>6. owner' \in [Tasks -> Proc \cup {NULL}]
    BY <1>3
  <2>7. {task_head', task_tail', current_task', task'} \subseteq Tasks \cup {NULL} /\ live' \subseteq Tasks
    BY <1>3 DEF TypeOK
  <2>8. {refused', failed', late'} \subseteq BOOLEAN
    BY DEF TypeOK
  <2>9. pc' \in {"wild", "task_init_failed", "map_memory"} /\ res' = res
    OBVIOUS
  <2> QED
    BY <2>4, <2>5, <2>6, <2>7, <2>8, <2>9 DEF TypeOK
<1>6. Steps'
  BY <1>1, <1>2, <1>3 DEF Steps, Undone
<1>7. Numbers'
  BY <1>1, <1>2 DEF Numbers
<1>8. Clean'
  BY <1>1, <1>2 DEF Clean
<1>9. Closed' /\ Blame'
  BY <1>2 DEF Closed, Blame, WildOnlyOutOfMemory
<1>10. CASE pc' # "map_memory"
  <2>1. ~ Sane'
    BY <1>10 DEF Sane
  <2> QED
    BY <1>5, <1>6, <1>7, <1>8, <1>9, <2>1 DEF Heads, Paired
<1>11. CASE pc' = "map_memory"
  <2>1. /\ task' \in Tasks \ live /\ live' = live \cup {task'}
        /\ owner' = [owner EXCEPT ![task'] = proc]
        /\ task_tail' = task' /\ proc' = proc
    BY <1>11
  <2>2. IF task_head = NULL
          THEN /\ task_head' = task' /\ current_task' = task'
               /\ next'[task'] = NULL /\ prev'[task'] = NULL
          ELSE prev'[task'] = task_tail /\ UNCHANGED <<task_head, current_task>>
    <3>1. PICK t \in Tasks \ live :
             /\ task' = t
             /\ IF task_head = NULL
                  THEN /\ task_head' = t /\ current_task' = t
                       /\ next' = [next EXCEPT ![t] = NULL]
                       /\ prev' = [prev EXCEPT ![t] = NULL]
                  ELSE /\ prev' = [prev EXCEPT ![t] = task_tail]
                       /\ UNCHANGED <<task_head, current_task>>
      BY <1>11
    <3> QED
      BY <1>4, <3>1
  <2>3. Undone' /\ Settled' = Settled
    BY <1>2, <1>3, <1>11, <2>1 DEF Undone, Settled
  <2>4. owner'[task'] = proc /\ \A t \in Settled : owner'[t] = owner[t]
    BY <1>2, <1>3, <2>1
  <2>5. Heads'
    BY <1>1, <1>2, <1>3, <2>1, <2>2, <2>3 DEF Heads
  <2>6. Paired'
    BY <1>1, <1>2, <2>1, <2>3, <2>4 DEF Paired
  <2> QED
    BY <1>5, <1>6, <1>7, <1>8, <1>9, <2>5, <2>6
<1> QED
  BY <1>10, <1>11

(***************************************************************************)
(* task_free keeps the types of the list.                                  *)
(***************************************************************************)
LEMMA FreeType == ASSUME TypeOK, NEW t \in Tasks, task_free(t)
                  PROVE  /\ {task_head, task_tail, current_task}' \subseteq Tasks \cup {NULL}
                         /\ {next, prev}' \subseteq [Tasks -> Tasks \cup {NULL}]
                         /\ owner' \in [Tasks -> Proc \cup {NULL}]
                         /\ live' \subseteq Tasks
<1>1. /\ next \in [Tasks -> Tasks \cup {NULL}] /\ prev \in [Tasks -> Tasks \cup {NULL}]
      /\ {task_head, task_tail, current_task} \subseteq Tasks \cup {NULL}
      /\ owner \in [Tasks -> Proc \cup {NULL}] /\ live \subseteq Tasks
  BY DEF TypeOK
<1>2. next' \in [Tasks -> Tasks \cup {NULL}]
  BY <1>1 DEF task_free
<1> QED
  BY <1>1, <1>2 DEF task_free

(***************************************************************************)
(* task_free of a task that task_init could not set up.                    *)
(***************************************************************************)
LEMMA TaskInitFailedInv == ASSUME ProcInv, task_init_failed
                           PROVE  ProcInv'
<1> USE DEF ProcInv, task_init_failed, Goto, call, table, causes
<1>1. task \in Tasks
  BY DEF Steps, TypeOK
<1>2. Loaded' = Loaded /\ FreeSlots' = FreeSlots /\ ~ Sane' /\ ~ Undone'
  BY DEF Loaded, FreeSlots, Sane, Undone
<1>3. TypeOK'
  BY <1>1, FreeType DEF TypeOK
<1>4. Steps' /\ Numbers'
  BY <1>2 DEF Steps, Numbers
<1>5. Heads' /\ Paired'
  BY <1>2 DEF Heads, Paired
<1>6. Clean' /\ Closed' /\ Blame'
  BY DEF Clean, Closed, Blame, WildOnlyOutOfMemory
<1> QED
  BY <1>3, <1>4, <1>5, <1>6

(***************************************************************************)
(* process_map_memory, and the entry in the table.                         *)
(***************************************************************************)
LEMMA MapMemoryInv == ASSUME ProcInv, map_memory
                      PROVE  ProcInv'
<1> USE DEF ProcInv, map_memory, call, list, causes
<1>1. /\ pc = "map_memory" /\ task # NULL /\ Undone /\ Sane
      /\ task \in live /\ Settled = live \ {task} /\ proc \in Proc
  BY DEF Steps, Undone, Sane, Settled, TypeOK, Proc
<1>2. CASE pc' = "failing"
  <2>1. Loaded' = Loaded /\ FreeSlots' = FreeSlots /\ table' = table
    BY <1>2 DEF Loaded, FreeSlots, table, Failing
  <2>2. Undone' /\ Sane' /\ Settled' = Settled
    BY <1>1, <1>2 DEF Undone, Sane, Settled
  <2>3. TypeOK'
    BY <1>2, <2>1 DEF TypeOK, table, Failing
  <2>4. Steps'
    BY <1>1, <1>2, <2>2 DEF Steps
  <2>5. Numbers' /\ Heads' /\ Paired'
    BY <1>1, <1>2, <2>1, <2>2 DEF Numbers, Heads, Paired, table
  <2>6. Clean' /\ Closed' /\ Blame'
    BY <1>2 DEF Clean, Closed, Blame, WildOnlyOutOfMemory
  <2> QED
    BY <2>3, <2>4, <2>5, <2>6
<1>3. CASE pc' = "idle"
  <2>1. /\ FreeSlot \in FreeSlots
        /\ processes' = [processes EXCEPT ![FreeSlot] = proc]
        /\ current_process' = proc
    BY <1>1, <1>3, SlotFound DEF Steps, Failing
  <2>2. FreeSlot \in Slots /\ processes[FreeSlot] = NULL /\ processes \in [Slots -> Proc \cup {NULL}]
    BY <2>1 DEF FreeSlots, TypeOK
  <2>3. proc # NULL /\ proc \notin Loaded
    BY <1>1, ProcessAssumption DEF Numbers, Proc, NULL
  <2>4. Loaded' = Loaded \cup {proc}
    BY <2>1, <2>2, <2>3 DEF Loaded
  <2>5. ~ Undone' /\ Sane' /\ Settled' = Settled \cup {task} /\ Settled' = live
    BY <1>1, <1>3 DEF Undone, Sane, Settled
  <2>6. TypeOK'
    BY <1>1, <1>3, <2>1 DEF TypeOK, Failing, OK
  <2>7. Steps'
    BY <1>3, <2>5 DEF Steps
  <2>8. Numbers'
    <3>1. \A s, u \in Slots : s # u /\ processes'[s] = processes'[u] => processes'[s] = NULL
      BY <2>1, <2>2, <2>3 DEF Numbers, Loaded
    <3>2. proc \in Nat /\ \A q \in Loaded' : q <= proc'
      BY <1>1, <2>4, ProcessAssumption DEF Numbers, Proc
    <3> QED
      BY <1>3, <2>1, <2>4, <3>1, <3>2 DEF Numbers
  <2>9. Heads'
    BY <1>1, <2>4, <2>5 DEF Heads
  <2>10. Paired'
    BY <1>1, <2>3, <2>4, <2>5 DEF Paired
  <2>11. Clean'
    BY <1>1, <1>3, <2>4 DEF Clean
  <2>12. Closed' /\ Blame'
    BY <1>3 DEF Closed, Blame, WildOnlyOutOfMemory
  <2> QED
    BY <2>6, <2>7, <2>8, <2>9, <2>10, <2>11, <2>12
<1> QED
  BY <1>2, <1>3 DEF Failing

(***************************************************************************)
(* The error path, which frees the task if there is one.                   *)
(***************************************************************************)
LEMMA FailingInv == ASSUME ProcInv, failing
                    PROVE  ProcInv'
<1> USE DEF ProcInv, failing, Goto, call, table
<1>1. /\ pc = "failing" /\ Sane /\ Sane' /\ ~ Undone' /\ Settled' = live'
      /\ Loaded' = Loaded /\ FreeSlots' = FreeSlots
  BY DEF Sane, Undone, Settled, Loaded, FreeSlots
<1>2. Steps' /\ Numbers'
  BY <1>1 DEF Steps, Numbers
<1>3. Clean' /\ Closed' /\ Blame'
  BY DEF Clean, Closed, Blame, WildOnlyOutOfMemory
<1>4. CASE task = NULL
  <2>1. UNCHANGED list /\ ~ Undone /\ Settled' = Settled
    BY <1>1, <1>4 DEF Undone, Settled, list
  <2>2. TypeOK'
    BY <1>4, <2>1 DEF TypeOK, list
  <2>3. Heads' /\ Paired'
    BY <1>1, <2>1 DEF Heads, Paired, list
  <2> QED
    BY <1>2, <1>3, <2>2, <2>3
<1>5. CASE task # NULL
  <2>1. task \in Tasks /\ task \in live /\ Undone /\ task_free(task)
    BY <1>1, <1>5 DEF Undone, Steps, TypeOK
  <2>2. TypeOK'
    BY <2>1, FreeType DEF TypeOK
  <2>3. Settled' = Settled /\ owner' = owner /\ task_tail' = task_tail
    BY <1>1, <2>1 DEF Settled, task_free
  <2>4. Paired'
    BY <1>1, <2>3 DEF Paired
  <2>5. CASE Loaded = {}
    <3>1. task_head = task /\ current_task = task /\ next[task] = NULL /\ prev[task] = NULL
      BY <1>1, <2>1, <2>5 DEF Heads
    <3>2. task_head' = NULL /\ current_task' = NULL
      BY <2>1, <3>1 DEF task_free
    <3> QED
      BY <1>1, <1>2, <1>3, <2>2, <2>4, <2>5, <3>2 DEF Heads
  <2>6. CASE Loaded # {}
    <3>1. task_head \in Settled /\ current_task = task_head /\ prev[task] # NULL
      BY <1>1, <2>1, <2>6 DEF Heads
    <3>2. task_head # task
      BY <2>1, <3>1 DEF Settled
    <3>3. task_head' = task_head /\ current_task' = current_task
      BY <2>1, <3>1, <3>2 DEF task_free
    <3> QED
      BY <1>1, <1>2, <1>3, <2>2, <2>3, <2>4, <2>6, <3>1, <3>3 DEF Heads
  <2> QED
    BY <2>5, <2>6
<1> QED
  BY <1>4, <1>5

-----------------------------------------------------------------------------
(***************************************************************************)
(* Every step of a load keeps the invariant.                               *)
(***************************************************************************)
THEOREM ProcessInvariant == Spec => []ProcInv
<1>1. ASSUME ProcInv, [Next]_vars PROVE ProcInv'
  <2>1. CASE UNCHANGED vars
    <3>1. /\ Loaded' = Loaded /\ FreeSlots' = FreeSlots /\ Settled' = Settled
          /\ (Undone <=> Undone') /\ (Sane <=> Sane')
      BY <2>1 DEF vars, call, table, list, Loaded, FreeSlots, Undone, Sane, Settled
    <3>2. TypeOK' /\ Steps' /\ Numbers'
      BY <1>1, <2>1, <3>1 DEF ProcInv, TypeOK, Steps, Numbers, vars, call, table, list, causes
    <3>3. Heads' /\ Paired'
      BY <1>1, <2>1, <3>1 DEF ProcInv, Heads, Paired, vars, call, table, list
    <3>4. Clean' /\ Closed' /\ Blame'
      BY <1>1, <2>1, <3>1
         DEF ProcInv, Clean, Closed, Blame, WildOnlyOutOfMemory, vars, call, causes
    <3> QED
      BY <3>2, <3>3, <3>4 DEF ProcInv
  <2>2. CASE \E f \in Files : process_load_switch(f)
    BY <1>1, <2>2, ProcessLoadSwitchInv
  <2>3. CASE elf_load \/ process_load_binary \/ load_stack
    BY <1>1, <2>3, ElfLoadInv, ProcessLoadBinaryInv, LoadStackInv
  <2>4. CASE task_new \/ task_init_failed \/ map_memory \/ failing
    BY <1>1, <2>4, TaskNewInv, TaskInitFailedInv, MapMemoryInv, FailingInv
  <2> QED
    BY <1>1, <2>1, <2>2, <2>3, <2>4 DEF Next
<1> QED
  BY <1>1, InitInv, PTL DEF Spec

(***************************************************************************)
(* The process table, the task list and the descriptors hold what belongs  *)
(* there, and process_load_switch returns one of its error codes.          *)
(***************************************************************************)
THEOREM ProcessTypeOK == Spec => []TypeOK
<1>1. ProcInv => TypeOK
  BY DEF ProcInv
<1> QED
  BY <1>1, ProcessInvariant, PTL

(***************************************************************************)
(* Whatever loads have succeeded and failed, for any number of slots: when *)
(* process_load_switch is done every process in the table has one slot and *)
(* one task, and no other task is left.  (This is the first part of        *)
(* ListComplete.)                                                          *)
(***************************************************************************)
THEOREM ProcessOneTaskEach == Spec => [](Idle => OneTaskEach)
<1>1. ASSUME ProcInv, Idle PROVE OneTaskEach
  <2>1. /\ \A t \in live : owner[t] \in Loaded
        /\ \A q \in Loaded : \E t \in live : owner[t] = q
        /\ \A t, u \in live : owner[t] = owner[u] => t = u
    BY <1>1 DEF ProcInv, Paired, Settled, Undone, Sane, Idle
  <2>2. {owner[t] : t \in live} = Loaded
    BY <2>1
  <2>3. IsFiniteSet(live)
    BY <1>1, ProcessAssumption, FS_Subset DEF ProcInv, TypeOK
  <2> DEFINE f == [t \in live |-> owner[t]]
  <2>4. f \in Bijection(live, Loaded)
    BY <2>1 DEF Bijection, Injection, Surjection, IsInjective
  <2>5. Cardinality(live) = Cardinality(Loaded)
    BY <2>3, <2>4, FS_Bijection DEF ExistsBijection
  <2> QED
    BY <1>1, <2>2, <2>5 DEF OneTaskEach, ProcInv, Numbers
<1>2. ProcInv => (Idle => OneTaskEach)
  BY <1>1
<1> QED
  BY <1>2, ProcessInvariant, PTL

(***************************************************************************)
(* As long as one process is loaded, process_current and the process of    *)
(* task_current are the same, whatever loads have failed before and after. *)
(***************************************************************************)
THEOREM ProcessForegroundRuns == Spec => []ForegroundRuns
<1>1. ASSUME ProcInv, Idle, Cardinality(Loaded) = 1
      PROVE  current_task # NULL /\ owner[current_task] = current_process
  <2>1. IsFiniteSet(Loaded)
    <3>1. IsFiniteSet(Slots)
      BY FS_Interval, ProcessAssumption DEF Slots
    <3> DEFINE f == [s \in Slots |-> processes[s]]
    <3>2. f \in Surjection(Slots, {processes[s] : s \in Slots})
      BY DEF Surjection
    <3>3. IsFiniteSet({processes[s] : s \in Slots})
      BY <3>1, <3>2, FS_Surjection
    <3> QED
      BY <3>3, FS_Subset DEF Loaded
  <2>2. PICK q : Loaded = {q}
    BY <1>1, <2>1, FS_Singleton
  <2>3. current_process = q
    BY <1>1, <2>2 DEF ProcInv, Numbers
  <2>4. current_task \in live /\ owner[current_task] \in Loaded
    BY <1>1, <2>2 DEF ProcInv, Heads, Paired, Settled, Undone, Sane, Idle
  <2>5. current_task # NULL
    BY <1>1, <2>4, ProcessAssumption DEF ProcInv, TypeOK
  <2> QED
    BY <2>2, <2>3, <2>4, <2>5
<1>2. ProcInv => ForegroundRuns
  BY <1>1 DEF ForegroundRuns
<1> QED
  BY <1>2, ProcessInvariant, PTL

(***************************************************************************)
(* Memory is lost only by loads that fail, missing files and flat          *)
(* binaries, and only loads of flat binaries leave a descriptor open.  A   *)
(* table of a single descriptor, which file_get_descriptor would not know, *)
(* is another matter: elf_load could not close its file.                   *)
(***************************************************************************)
THEOREM ProcessNothingLost == ASSUME MaxFds > 1
                              PROVE  Spec => []NothingLost
<1>1. ASSUME ProcInv, Idle, ~ failed, ~ refused, tried \subseteq {"elf", "unmappable"}
      PROVE  mem = Reachable
  <2>1. /\ \A x \in mem : x[1] # "program" /\ x[2] \in Loaded
        /\ \A q \in Loaded : <<"elf_memory", q>> \in mem
    BY <1>1 DEF ProcInv, Clean, Idle
  <2>2. \A q \in Loaded : <<"program", q>> \notin mem
    BY <2>1
  <2> QED
    BY <2>1, <2>2 DEF Reachable
<1>2. ProcInv => NothingLost
  BY <1>1 DEF NothingLost, ProcInv, Closed
<1> QED
  BY <1>2, ProcessInvariant, PTL

(***************************************************************************)
(* Whatever the order of loads and failures, the loader follows a null or  *)
(* error pointer only after an allocation was refused, but for the null    *)
(* elf_file of a file that is missing or found no free descriptor.         *)
(***************************************************************************)
THEOREM ProcessWildOnlyOutOfMemory == Spec => []WildOnlyOutOfMemory
<1>1. ProcInv => WildOnlyOutOfMemory
  BY DEF ProcInv, Blame
<1> QED
  BY <1>1, ProcessInvariant, PTL

-----------------------------------------------------------------------------
(***************************************************************************)
(* The order in which the tasks stand in the list: r[1] is its head, r[n]  *)
(* its tail, and all tasks that are allocated are in it, each once.        *)
(***************************************************************************)
IsRow(r, n) ==
    /\ r \in [1 .. n -> live]
    /\ \A t \in live : \E i \in 1 .. n : r[i] = t
    /\ \A i, j \in 1 .. n : r[i] = r[j] => i = j
    /\ \A i \in 1 .. n - 1 : next[r[i]] = r[i + 1] /\ prev[r[i + 1]] = r[i]
    /\ IF n = 0 THEN task_head = NULL
                ELSE task_head = r[1] /\ task_tail = r[n] /\ next[r[n]] = NULL

InRow == Sane /\ ~ late => \E n \in Nat : \E r : IsRow(r, n)

(***************************************************************************)
(* Before the first load the list is empty.                                *)
(***************************************************************************)
LEMMA InitRow == Init => InRow
<1> SUFFICES ASSUME Init PROVE \E n \in Nat : \E r : IsRow(r, n)
  BY DEF InRow
<1>1. live = {} /\ task_head = NULL
  BY DEF Init
<1>2. IsRow([i \in 1 .. 0 |-> NULL], 0)
  BY <1>1 DEF IsRow
<1> QED
  BY <1>2

(***************************************************************************)
(* Steps that leave the list alone.                                        *)
(***************************************************************************)
LEMMA SameRow == ASSUME InRow, UNCHANGED list, Sane, late => late'
                 PROVE  InRow'
<1> SUFFICES ASSUME ~ late' PROVE \E n \in Nat : \E r : (IsRow(r, n))'
  BY DEF InRow
<1>20. PICK n \in Nat : \E r : IsRow(r, n)
  BY DEF InRow
<1>1. PICK r : IsRow(r, n)
  BY <1>20
<1>2. UNCHANGED <<task_head, task_tail, next, prev, live>>
  BY DEF list
<1>3. (IsRow(r, n))'
  BY <1>1, <1>2 DEF IsRow
<1> QED
  BY <1>3

(***************************************************************************)
(* task_new appends its task.                                              *)
(***************************************************************************)
LEMMA TaskNewRow == ASSUME TypeOK, InRow, task_new
                    PROVE  InRow'
<1> SUFFICES ASSUME Sane', ~ late' PROVE \E n \in Nat : \E r : (IsRow(r, n))'
  BY DEF InRow
<1>1. pc = "task_new" /\ Sane /\ pc' = "map_memory"
  BY DEF task_new, Sane, Goto
<1>2. PICK t \in Tasks \ live :
         /\ live' = live \cup {t} /\ task_tail' = t /\ late' = late
         /\ IF task_head = NULL
              THEN /\ task_head' = t
                   /\ next' = [next EXCEPT ![t] = NULL]
                   /\ prev' = [prev EXCEPT ![t] = NULL]
              ELSE /\ next' = [[next EXCEPT ![t] = NULL] EXCEPT ![task_tail] = t]
                   /\ prev' = [prev EXCEPT ![t] = task_tail]
                   /\ UNCHANGED task_head
  BY <1>1 DEF task_new, Goto, causes
<1>20. PICK n \in Nat : \E r : IsRow(r, n)
  BY <1>1, <1>2 DEF InRow
<1>3. PICK r : IsRow(r, n)
  BY <1>20
<1>4. /\ next \in [Tasks -> Tasks \cup {NULL}] /\ prev \in [Tasks -> Tasks \cup {NULL}]
      /\ live \subseteq Tasks /\ NULL \notin Tasks
  BY ProcessAssumption DEF TypeOK
<1> DEFINE m == n + 1
           s == [i \in 1 .. m |-> IF i = m THEN t ELSE r[i]]
<1>5. /\ r \in [1 .. n -> live]
      /\ \A u \in live : \E i \in 1 .. n : r[i] = u
      /\ \A i, j \in 1 .. n : r[i] = r[j] => i = j
      /\ \A i \in 1 .. n - 1 : next[r[i]] = r[i + 1] /\ prev[r[i + 1]] = r[i]
      /\ n = 0 => task_head = NULL
      /\ n # 0 => task_head = r[1] /\ task_tail = r[n] /\ next[r[n]] = NULL
  BY <1>3 DEF IsRow
<1>6. /\ m \in Nat /\ m # 0 /\ m \in 1 .. m
      /\ \A i \in 1 .. m : i = m \/ i \in 1 .. n
      /\ \A i \in 1 .. n : i \in 1 .. m /\ i # m
  OBVIOUS
<1>7. s[m] = t /\ \A i \in 1 .. n : s[i] = r[i] /\ r[i] \in live /\ r[i] # t /\ r[i] \in Tasks
  BY <1>2, <1>4, <1>5, <1>6
<1>8. /\ s \in [1 .. m -> live']
      /\ \A u \in live' : \E i \in 1 .. m : s[i] = u
  BY <1>2, <1>5, <1>6, <1>7
<1>9. \A i, j \in 1 .. m : s[i] = s[j] => i = j
  BY <1>5, <1>6, <1>7
<1>10. next'[t] = NULL
  <2>1. CASE task_head = NULL
    BY <1>2, <1>4, <2>1
  <2>2. CASE task_head # NULL
    <3>1. n # 0 /\ task_tail = r[n] /\ n \in 1 .. n
      BY <1>5, <2>2
    <3>2. task_tail # t
      BY <1>7, <3>1
    <3> QED
      BY <1>2, <1>4, <2>2, <3>2
  <2> QED
    BY <2>1, <2>2
<1>11. ASSUME n = 0
       PROVE  (IsRow(s, m))'
  <2>1. m = 1 /\ task_head' = t /\ task_tail' = t
    BY <1>2, <1>5, <1>11
  <2> HIDE DEF s, m
  <2>2. s[1] = t /\ 1 .. m - 1 = {}
    BY <1>7, <2>1
  <2> QED
    BY <1>8, <1>9, <1>10, <2>1, <2>2 DEF IsRow
<1>12. ASSUME n # 0
       PROVE  (IsRow(s, m))'
  <2>1. /\ n \in 1 .. n /\ 1 \in 1 .. n
        /\ task_head = r[1] /\ task_tail = r[n] /\ next[r[n]] = NULL
    BY <1>5, <1>12
  <2>2. task_head # NULL /\ task_tail \in Tasks
    BY <1>4, <1>7, <2>1
  <2>3. /\ task_head' = task_head
        /\ next' = [[next EXCEPT ![t] = NULL] EXCEPT ![task_tail] = t]
        /\ prev' = [prev EXCEPT ![t] = task_tail]
    BY <1>2, <2>2
  <2>4. /\ next'[task_tail] = t /\ prev'[t] = task_tail
        /\ \A u \in live : u # task_tail => next'[u] = next[u]
        /\ \A u \in live : prev'[u] = prev[u]
    BY <1>2, <1>4, <2>2, <2>3
  <2>5. ASSUME NEW i \in 1 .. m - 1
        PROVE  next'[s[i]] = s[i + 1] /\ prev'[s[i + 1]] = s[i]
    <3>1. CASE i = n
      BY <1>7, <2>1, <2>4, <3>1
    <3>2. CASE i # n
      <4>1. i \in 1 .. n - 1 /\ i \in 1 .. n /\ i + 1 \in 1 .. n
        BY <3>2
      <4>2. r[i] # task_tail
        BY <1>5, <2>1, <3>2, <4>1
      <4> HIDE DEF s
      <4> QED
        BY <1>5, <1>7, <2>4, <4>1, <4>2
    <3> QED
      BY <3>1, <3>2
  <2>6. task_head' = s[1] /\ task_tail' = s[m]
    BY <1>2, <1>7, <2>1, <2>3
  <2> HIDE DEF s, m
  <2> QED
    BY <1>6, <1>7, <1>8, <1>9, <1>10, <2>5, <2>6 DEF IsRow
<1> HIDE DEF s
<1> QED
  BY <1>6, <1>11, <1>12

(***************************************************************************)
(* A load that fails may free the only task, or excuse the list.           *)
(***************************************************************************)
LEMMA FailingRow == ASSUME ProcInv, InRow, failing
                    PROVE  InRow'
<1> SUFFICES ASSUME Sane', ~ late' PROVE \E n \in Nat : \E r : (IsRow(r, n))'
  BY DEF InRow
<1>1. pc = "failing" /\ Sane /\ ~ late /\ (task # NULL => task_head = task)
  BY DEF failing, Sane
<1>2. CASE task = NULL
  <2>1. UNCHANGED list /\ (late => late')
    BY <1>1, <1>2 DEF failing
  <2>2. InRow'
    BY <1>1, <2>1, SameRow
  <2> QED
    BY <2>2 DEF InRow
<1>3. CASE task # NULL
  <2>1. Undone /\ task_free(task) /\ task_head = task /\ task \in live
    BY <1>1, <1>3 DEF failing, Undone, ProcInv, Steps
  <2>2. Loaded = {}
    BY <1>1, <2>1 DEF ProcInv, Heads, Settled
  <2>3. next[task] = NULL /\ prev[task] = NULL
    BY <1>1, <2>1, <2>2 DEF ProcInv, Heads
  <2>4. live \ {task} = {}
    BY <1>1, <2>1, <2>2 DEF ProcInv, Paired, Settled
  <2>5. live' = {} /\ task_head' = NULL
    BY <2>1, <2>3, <2>4 DEF task_free
  <2>6. (IsRow([i \in 1 .. 0 |-> NULL], 0))'
    BY <2>5 DEF IsRow
  <2> QED
    BY <2>6
<1> QED
  BY <1>2, <1>3

(***************************************************************************)
(* Every step of a load keeps the tasks in their row.                      *)
(***************************************************************************)
LEMMA NextRow == ASSUME ProcInv, InRow, [Next]_vars
                 PROVE  InRow'
<1>1. CASE UNCHANGED vars
  <2>1. UNCHANGED list /\ (late => late') /\ Sane' = Sane
    BY <1>1 DEF vars, causes, Sane
  <2> QED
    BY <2>1, SameRow DEF InRow
<1>2. CASE (\E f \in Files : process_load_switch(f)) \/ elf_load \/ process_load_binary \/ load_stack
  <2>1. UNCHANGED list /\ (late => late') /\ Sane
    BY <1>2 DEF process_load_switch, elf_load, process_load_binary, load_stack, Sane,
                Refuse, FopenRefuses, causes
  <2> QED
    BY <2>1, SameRow
<1>3. CASE task_new
  BY <1>3, TaskNewRow DEF ProcInv
<1>4. CASE task_init_failed
  <2>1. ~ Sane'
    BY <1>4 DEF task_init_failed, Goto, Sane
  <2> QED
    BY <2>1 DEF InRow
<1>5. CASE map_memory
  <2>1. UNCHANGED list /\ (late => late') /\ Sane
    BY <1>5 DEF map_memory, causes, Sane
  <2> QED
    BY <2>1, SameRow
<1>6. CASE failing
  BY <1>6, FailingRow
<1> QED
  BY <1>1, <1>2, <1>3, <1>4, <1>5, <1>6 DEF Next

-----------------------------------------------------------------------------
(***************************************************************************)
(* A set of numbers with 0 and, with each n, n + 1, has all numbers.       *)
(***************************************************************************)
LEMMA SetInduction == ASSUME NEW S, S \subseteq Nat, 0 \in S, \A n \in S : n + 1 \in S
                      PROVE  S = Nat
<1>1. SUFFICES ASSUME Nat \ S # {} PROVE FALSE
  OBVIOUS
<1>2. PICK n \in Nat \ S : \A m \in Nat \ S : n <= m
  BY <1>1, Least
<1>3. n # 0 /\ n - 1 \in Nat /\ ~ (n <= n - 1)
  BY <1>2
<1>4. n - 1 \in S
  BY <1>2, <1>3
<1> QED
  BY <1>2, <1>4

\* The walk along next begins at the head, and goes one step further.
Begun == {task_head} \ {NULL}
Further(w) == w \cup ({next[t] : t \in w} \ {NULL})

(***************************************************************************)
(* The walk can be described step by step, however long it is.             *)
(***************************************************************************)
LEMMA WalkExists ==
    ASSUME NEW k \in Nat
    PROVE  \E w : w = [n \in 0 .. k |-> IF n = 0 THEN Begun ELSE Further(w[n - 1])]
<1> DEFINE Walks(n, w) ==
             w = [i \in 0 .. n |-> IF i = 0 THEN Begun ELSE Further(w[i - 1])]
           S == {n \in Nat : \E w : Walks(n, w)}
<1>1. 0 \in S
  <2>1. Walks(0, [i \in 0 .. 0 |-> Begun])
    OBVIOUS
  <2> QED
    BY <2>1
<1>2. ASSUME NEW n \in S PROVE n + 1 \in S
  <2>1. PICK w : Walks(n, w)
    OBVIOUS
  <2> DEFINE v == [i \in 0 .. n + 1 |-> IF i = 0 THEN Begun ELSE Further(w[i - 1])]
  <2>2. \A i \in 0 .. n : v[i] = w[i]
    BY <2>1
  <2>3. n \in Nat /\ \A i \in 0 .. n + 1 : i # 0 => i - 1 \in 0 .. n
    OBVIOUS
  <2>4. Walks(n + 1, v)
    BY <2>2, <2>3
  <2> HIDE DEF Walks, v
  <2>5. n + 1 \in Nat
    BY <2>3
  <2> QED
    BY <2>4, <2>5
<1>3. S = Nat
  <2> HIDE DEF S
  <2>1. S \subseteq Nat
    BY DEF S
  <2> QED
    BY <1>1, <1>2, <2>1, SetInduction
<1> QED
  BY <1>3

(***************************************************************************)
(* Listed is where the walk ends.                                          *)
(***************************************************************************)
LEMMA Walked ==
    \E w : /\ w[0] = Begun /\ Listed = w[Cardinality(Tasks)]
           /\ \A n \in 0 .. Cardinality(Tasks) - 1 : w[n + 1] = Further(w[n])
<1> DEFINE k == Cardinality(Tasks)
           w == CHOOSE w : w = [n \in 0 .. k |-> IF n = 0 THEN Begun
                                                 ELSE Further(w[n - 1])]
<1>1. k \in Nat
  BY ProcessAssumption, FS_CardinalityType
<1>2. w = [n \in 0 .. k |-> IF n = 0 THEN Begun ELSE Further(w[n - 1])]
  <2> HIDE DEF k
  <2> QED
    BY <1>1, WalkExists
<1>3. Listed = w[k]
  BY DEF Listed, Begun, Further
<1> HIDE DEF w, k
<1>4. \A n \in 0 .. k - 1 : n + 1 \in 0 .. k /\ n + 1 # 0 /\ (n + 1) - 1 = n
  BY <1>1
<1>5. \A n \in 0 .. k - 1 : w[n + 1] = Further(w[n])
  BY <1>2, <1>4
<1>6. w[0] = Begun
  BY <1>1, <1>2
<1> QED
  BY <1>3, <1>5, <1>6 DEF k

(***************************************************************************)
(* A row is no longer than there are tasks.                                *)
(***************************************************************************)
LEMMA RowFits == ASSUME TypeOK, NEW n \in Nat, NEW r, IsRow(r, n)
                 PROVE  n <= Cardinality(Tasks)
<1>1. r \in [1 .. n -> Tasks] /\ \A i, j \in 1 .. n : r[i] = r[j] => i = j
  BY DEF IsRow, TypeOK
<1>2. r \in Injection(1 .. n, Tasks)
  BY <1>1 DEF Injection, IsInjective
<1>3. Cardinality(1 .. n) <= Cardinality(Tasks)
  BY <1>2, ProcessAssumption, FS_Injection
<1>4. Cardinality(1 .. n) = n
  BY FS_Interval
<1> QED
  BY <1>3, <1>4

(***************************************************************************)
(* The walk from the head of a row meets all tasks of the row and no other *)
(* one.                                                                    *)
(***************************************************************************)
LEMMA RowListed == ASSUME TypeOK, NEW n \in Nat, NEW r, IsRow(r, n)
                   PROVE  Listed = live
<1> DEFINE c == Cardinality(Tasks)
<1>1. PICK w : /\ w[0] = {task_head} \ {NULL} /\ Listed = w[c]
               /\ \A k \in 0 .. c - 1 : w[k + 1] = Further(w[k])
  BY Walked DEF Begun
<1>2. c \in Nat /\ n <= c
  BY RowFits, ProcessAssumption, FS_CardinalityType
<1>3. /\ r \in [1 .. n -> live] /\ live \subseteq Tasks /\ NULL \notin Tasks
      /\ \A t \in live : \E i \in 1 .. n : r[i] = t
      /\ \A i \in 1 .. n - 1 : next[r[i]] = r[i + 1]
      /\ n = 0 => task_head = NULL
      /\ n # 0 => task_head = r[1] /\ next[r[n]] = NULL
  BY ProcessAssumption DEF IsRow, TypeOK
<1> HIDE DEF c
<1> DEFINE S == {k \in Nat : k <= c => /\ w[k] \subseteq live
                                       /\ \A i \in 1 .. n : i <= k + 1 => r[i] \in w[k]}
<1>4. 0 \in S
  <2>1. CASE n = 0
    BY <1>1, <1>3, <2>1
  <2>2. CASE n # 0
    <3>1. 1 \in 1 .. n /\ \A i \in 1 .. n : i <= 0 + 1 => i = 1
      BY <2>2
    <3> QED
      BY <1>1, <1>3, <2>2, <3>1
  <2> QED
    BY <2>1, <2>2
<1>5. ASSUME NEW k \in S PROVE k + 1 \in S
  <2>1. SUFFICES ASSUME k + 1 <= c
                 PROVE  /\ w[k + 1] \subseteq live
                        /\ \A i \in 1 .. n : i <= (k + 1) + 1 => r[i] \in w[k + 1]
    OBVIOUS
  <2>2. /\ k \in Nat /\ w[k] \subseteq live
        /\ \A i \in 1 .. n : i <= k + 1 => r[i] \in w[k]
        /\ w[k + 1] = w[k] \cup ({next[t] : t \in w[k]} \ {NULL})
    BY <1>1, <1>2, <2>1 DEF Further
  <2>3. ASSUME NEW t \in live PROVE next[t] \in live \cup {NULL}
    <3>1. PICK i \in 1 .. n : r[i] = t
      BY <1>3
    <3>2. CASE i = n
      BY <1>3, <3>1, <3>2
    <3>3. CASE i # n
      <4>1. i \in 1 .. n - 1 /\ i + 1 \in 1 .. n
        BY <3>3
      <4> QED
        BY <1>3, <3>1, <4>1
    <3> QED
      BY <3>2, <3>3
  <2>4. w[k + 1] \subseteq live
    BY <2>2, <2>3
  <2>5. ASSUME NEW i \in 1 .. n, i <= (k + 1) + 1 PROVE r[i] \in w[k + 1]
    <3>1. CASE i <= k + 1
      BY <2>2, <3>1
    <3>2. CASE i = (k + 1) + 1
      <4>1. /\ i - 1 \in 1 .. n - 1 /\ i - 1 \in 1 .. n /\ i - 1 <= k + 1
            /\ (i - 1) + 1 = i
        BY <2>2, <3>2
      <4>2. r[i - 1] \in w[k] /\ next[r[i - 1]] = r[i] /\ r[i] # NULL
        BY <1>3, <2>2, <4>1
      <4> QED
        BY <2>2, <4>2
    <3> QED
      BY <2>2, <2>5, <3>1, <3>2
  <2> QED
    BY <2>4, <2>5
<1>6. S = Nat
  <2> HIDE DEF S
  <2>1. S \subseteq Nat
    BY DEF S
  <2> QED
    BY <1>4, <1>5, <2>1, SetInduction
<1>7. w[c] \subseteq live /\ \A i \in 1 .. n : r[i] \in w[c]
  <2>1. c \in S /\ \A i \in 1 .. n : i <= c + 1
    BY <1>2, <1>6
  <2> QED
    BY <1>2, <2>1
<1>8. \A t \in live : t \in w[c]
  BY <1>3, <1>7
<1> QED
  BY <1>1, <1>7, <1>8

(***************************************************************************)
(* A row is what ListInRow says.                                           *)
(***************************************************************************)
LEMMA RowComplete == ASSUME ProcInv, InRow, Idle, ~ late
                     PROVE  ListInRow
<1>1. Sane /\ ~ Undone
  BY DEF Idle, Sane, Undone
<1>20. PICK n \in Nat : \E r : IsRow(r, n)
  BY <1>1 DEF InRow
<1>2. PICK r : IsRow(r, n)
  BY <1>20
<1>3. Listed = live
  BY <1>2, RowListed DEF ProcInv
<1>4. /\ r \in [1 .. n -> live]
      /\ \A t \in live : \E i \in 1 .. n : r[i] = t
      /\ \A i \in 1 .. n - 1 : next[r[i]] = r[i + 1] /\ prev[r[i + 1]] = r[i]
      /\ n # 0 => task_tail = r[n] /\ next[r[n]] = NULL
  BY <1>2 DEF IsRow
<1>5. ASSUME NEW t \in live, next[t] # NULL PROVE prev[next[t]] = t
  <2>1. PICK i \in 1 .. n : r[i] = t
    BY <1>4
  <2>2. i \in 1 .. n - 1
    BY <1>4, <1>5, <2>1
  <2> QED
    BY <1>4, <2>1, <2>2
<1>6. ASSUME live # {} PROVE task_tail \in live /\ next[task_tail] = NULL
  <2>1. n # 0 /\ n \in 1 .. n
    BY <1>4, <1>6
  <2> QED
    BY <1>4, <2>1
<1>7. current_task = task_head
  BY <1>1 DEF ProcInv, Heads
<1> QED
  BY <1>3, <1>5, <1>6, <1>7 DEF ListInRow

(***************************************************************************)
(* Between two loads the process table and the tasks belong together, and  *)
(* the task list holds all tasks in a row, unless a load has failed after  *)
(* its task was appended to those of others: for any number of slots and   *)
(* tasks, whatever else has failed.                                        *)
(***************************************************************************)
THEOREM ProcessListComplete == Spec => []ListComplete
<1>1. ProcInv /\ InRow /\ [Next]_vars => InRow'
  BY NextRow
<1>2. Spec => [](ProcInv /\ InRow)
  BY <1>1, InitRow, ProcessInvariant, PTL DEF Spec
<1>3. ProcInv /\ InRow /\ (Idle => OneTaskEach) => ListComplete
  BY RowComplete DEF ListComplete
<1> QED
  BY <1>2, <1>3, ProcessOneTaskEach, PTL

=============================================================================
