------------------------------- MODULE Process ------------------------------
(***************************************************************************)
(* The process manager of process.c over the page manager of module        *)
(* Paging: creating a process in an address space of its own and           *)
(* destroying it.  Its caller is the kernel, which runs these with no      *)
(* reentrancy; kernel_setup's own call is commented out at this commit.    *)
(*                                                                         *)
(* One action is one step of process_create_user_process that can fail or  *)
(* stop the machine, named by pc.                                          *)
(***************************************************************************)
EXTENDS Paging

CONSTANTS
  PROCESS_COUNT_MAX,
  PROCESS_PAGE_FRAME_COUNT_MAX,
  Buffers,        \* entry points a caller gives in request.buf
  BufferSizes,    \* values a caller gives in request.buffer_size
  Addresses       \* addresses the kernel maps a page at, or unmaps

ASSUME ProcessAssumption ==
  /\ PROCESS_COUNT_MAX \in Nat \ {0}
  /\ PROCESS_PAGE_FRAME_COUNT_MAX \in Nat /\ PROCESS_PAGE_FRAME_COUNT_MAX <= PAGE_FRAME_SIZE
  /\ PROCESS_COUNT_MAX <= PAGING_DIRECTORY_TABLE_MAX_COUNT
  /\ Buffers \subseteq Nat /\ BufferSizes \subseteq Nat \ {0}
  /\ \A a \in Addresses :
       a \in Nat /\ a < KERNEL_VIRTUAL_ADDRESS_BASE /\ a % PAGE_FRAME_SIZE = 0

PROCESS_CREATE_SUCCESS                   == 0
PROCESS_CREATE_FAIL_MAX_PROCESS_EXCEEDED == 1
PROCESS_CREATE_FAIL_INVALID_ENTRYPOINT   == 2
PROCESS_CREATE_FAIL_NOT_ENOUGH_MEMORY    == 3
PROCESS_CREATE_FAIL_FS_READ_FAILURE      == 4

VARIABLES
  is_process_active,      \* the pids in use
  active_process_count,
  context,                \* the page directory in each process's control block
  pc,                     \* "idle", or the next step of a creation
  new,                    \* the locals of the creation
  retcode                 \* what the last creation returned

process     == <<is_process_active, active_process_count, context, pc, new, retcode>>
processVars == <<paging, process>>

Pid  == 0 .. PROCESS_COUNT_MAX - 1
NULL == -1    \* no page directory

New    == [pid : Pid, buf : Nat, size : Nat, pd_old : Directory, pd_new : Directory]
NoCall == [pid |-> 0, buf |-> 0, size |-> 0, pd_old |-> KERNEL_DIRECTORY, pd_new |-> KERNEL_DIRECTORY]

ProcessInit ==
  /\ PagingInit
  /\ is_process_active = {} /\ active_process_count = 0
  /\ context = [pid \in Pid |-> NULL]
  /\ pc = "idle" /\ new = NoCall /\ retcode = PROCESS_CREATE_SUCCESS

-----------------------------------------------------------------------------
ceil_div(numerator, denominator) == (numerator + denominator - 1) \div denominator

\* paging_allocate_check is asked for as many bytes as frames are needed.
CreateStatus(buf, size) ==
  LET needed == ceil_div(size + PAGE_FRAME_SIZE, PAGE_FRAME_SIZE)
  IN  CASE active_process_count >= PROCESS_COUNT_MAX -> PROCESS_CREATE_FAIL_MAX_PROCESS_EXCEEDED
        [] active_process_count < PROCESS_COUNT_MAX /\ buf >= KERNEL_VIRTUAL_ADDRESS_BASE ->
             PROCESS_CREATE_FAIL_INVALID_ENTRYPOINT
        [] OTHER ->
             IF paging_allocate_check(needed) /\ needed <= PROCESS_PAGE_FRAME_COUNT_MAX
               THEN PROCESS_CREATE_SUCCESS ELSE PROCESS_CREATE_FAIL_NOT_ENOUGH_MEMORY

Ready == pc = "idle" /\ ~halted

CreateRefused(buf, size) ==
  /\ Ready /\ CreateStatus(buf, size) # PROCESS_CREATE_SUCCESS
  /\ retcode' = CreateStatus(buf, size)
  /\ UNCHANGED <<paging, is_process_active, active_process_count, context, pc, new>>

\* process_list_get_inactive_index and the new page directory.  There always
\* is a directory: no second creation comes this far, as no frame is given
\* back and the first one stops the machine or takes the last frame.
BeginCreate(buf, size, pid, pd) ==
  /\ Ready /\ CreateStatus(buf, size) = PROCESS_CREATE_SUCCESS
  /\ pid \in Pid \ is_process_active /\ \A p \in Pid \ is_process_active : pid <= p
  /\ is_process_active' = is_process_active \cup {pid}
  /\ active_process_count' = active_process_count + 1
  /\ paging_create_new_page_directory(pd)
  /\ new' = [pid |-> pid, buf |-> buf, size |-> size, pd_old |-> cr3, pd_new |-> pd]
  /\ pc' = "image"
  /\ UNCHANGED <<context, retcode>>

GoTo(step) ==
  /\ pc' = step
  /\ UNCHANGED <<is_process_active, active_process_count, context, new, retcode>>

MapImage ==
  /\ pc = "image" /\ ~halted
  /\ paging_allocate_user_page_frame(new.pd_new, new.buf)
  /\ GoTo("stack")

\* The stack's first address is the last word below the kernel.
MapStack ==
  /\ pc = "stack" /\ ~halted
  /\ paging_allocate_user_page_frame(new.pd_new, KERNEL_VIRTUAL_ADDRESS_BASE - WORD)
  /\ GoTo("use")

UseNewDirectory ==
  /\ pc = "use" /\ ~halted
  /\ paging_use_page_directory(new.pd_new)
  /\ GoTo("read")

Return(code) ==
  /\ pc' = "idle" /\ new' = NoCall /\ retcode' = code
  /\ UNCHANGED <<is_process_active, active_process_count>>

\* A file longer than what is left of the page does not fit in what is mapped.
ReadFaults ==
  /\ pc = "read" /\ ~halted
  /\ \E length \in 1 .. new.size : Faults(tables[cr3], Touched(new.buf, length))
  /\ halted' = TRUE
  /\ UNCHANGED <<process, page_frame_map, free_page_frame_count, tables, page_directory_used, cr3>>

\* The file is not there, is a folder or is longer than the buffer: all that
\* was taken stays taken, and the new directory stays in use.
ReadFailed ==
  /\ pc = "read" /\ ~halted
  /\ Return(PROCESS_CREATE_FAIL_FS_READ_FAILURE)
  /\ UNCHANGED <<paging, context>>

\* The rest of the control block is constants and the entry point.
ReadDone ==
  /\ pc = "read" /\ ~halted
  /\ \E length \in 1 .. new.size : ~Faults(tables[cr3], Touched(new.buf, length))
  /\ paging_use_page_directory(new.pd_old)
  /\ context' = [context EXCEPT ![new.pid] = new.pd_new]
  /\ Return(PROCESS_CREATE_SUCCESS)

\* Mutant: the pid is not looked up first.
DestroyUnchecked(pid) ==
  /\ Ready /\ context[pid] # cr3
  /\ is_process_active' = is_process_active \ {pid}
  /\ active_process_count' = active_process_count - 1
  /\ paging_free_page_directory(context[pid])
  /\ context' = [context EXCEPT ![pid] = NULL]
  /\ UNCHANGED <<pc, new, retcode>>

\* Its caller does not destroy the process whose directory is in use.
process_destroy(pid) ==
  /\ Ready
  /\ \/ pid \notin is_process_active /\ UNCHANGED processVars
     \/ /\ pid \in is_process_active /\ context[pid] # cr3
        /\ is_process_active' = is_process_active \ {pid}
        /\ active_process_count' = active_process_count - 1
        /\ paging_free_page_directory(context[pid])
        /\ context' = [context EXCEPT ![pid] = NULL]
        /\ UNCHANGED <<pc, new, retcode>>

-----------------------------------------------------------------------------
\* The other calls of the kernel: mapping a page in the directory in use, as
\* kernel_setup does, unmapping it, and switching to a process or back.
Allocate(addr) == Ready /\ paging_allocate_user_page_frame(cr3, addr) /\ UNCHANGED process
Free(addr)     == Ready /\ paging_free_user_page_frame(cr3, addr) /\ UNCHANGED process

Switch(pd) ==
  /\ Ready /\ pd \in {KERNEL_DIRECTORY} \cup ({context[pid] : pid \in is_process_active} \ {NULL})
  /\ paging_use_page_directory(pd)
  /\ UNCHANGED process

ProcessNext ==
  \/ \E buf \in Buffers, size \in BufferSizes :
       \/ CreateRefused(buf, size)
       \/ \E pid \in Pid, pd \in Listed : BeginCreate(buf, size, pid, pd)
  \/ MapImage \/ MapStack \/ UseNewDirectory
  \/ ReadFaults \/ ReadFailed \/ ReadDone
  \/ \E pid \in Pid : process_destroy(pid)
  \/ \E addr \in Addresses : Allocate(addr) \/ Free(addr)
  \/ \E pd \in Directory : Switch(pd)

ProcessSpec == ProcessInit /\ [][ProcessNext]_processVars

-----------------------------------------------------------------------------
ProcessTypeOK ==
  /\ PagingTypeOK
  /\ is_process_active \subseteq Pid
  /\ active_process_count \in 0 .. PROCESS_COUNT_MAX
  /\ context \in [Pid -> Directory \cup {NULL}]
  /\ pc \in {"idle", "image", "stack", "use", "read"}
  /\ new \in New
  /\ retcode \in 0 .. 4

\* The two counters by which a creation is admitted say what the maps they
\* count say, through every failure half way.
CountsAgree ==
  /\ free_page_frame_count = Cardinality(Frame \ page_frame_map)
  /\ active_process_count = Cardinality(is_process_active)
=============================================================================
