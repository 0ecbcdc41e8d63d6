------------------------------- MODULE Paging -------------------------------
(***************************************************************************)
(* The page manager of paging.c: the map of physical frames and its count, *)
(* the page directories, and the directory the CPU translates by.  A page  *)
(* is 4 MiB and is one entry of a directory.                               *)
(*                                                                         *)
(* Addresses are numbers, of which a page has PAGE_FRAME_SIZE.             *)
(***************************************************************************)
EXTENDS Integers, FiniteSets

CONSTANTS
  PAGE_FRAME_SIZE,                   \* addresses of a page
  PAGE_FRAME_MAX_COUNT,              \* physical frames
  PAGING_DIRECTORY_TABLE_MAX_COUNT,  \* page directories besides the kernel's
  KERNEL_PAGE                        \* the page of KERNEL_VIRTUAL_ADDRESS_BASE

\* The user's stack is the last word below the kernel's pages, and no page is
\* as short as that.
WORD == 4

ASSUME PagingAssumption ==
  /\ PAGE_FRAME_SIZE \in Nat /\ PAGE_FRAME_SIZE > WORD
  /\ PAGE_FRAME_MAX_COUNT \in Nat /\ PAGE_FRAME_MAX_COUNT > 1
  /\ PAGING_DIRECTORY_TABLE_MAX_COUNT \in Nat
  /\ KERNEL_PAGE \in Nat \ {0}

KERNEL_VIRTUAL_ADDRESS_BASE == KERNEL_PAGE * PAGE_FRAME_SIZE

Frame   == 0 .. PAGE_FRAME_MAX_COUNT - 1
Page    == 0 .. KERNEL_PAGE
NoFrame == -1    \* an entry whose present bit is 0

\* page_directory_list, and _paging_kernel_page_directory.
Listed           == 1 .. PAGING_DIRECTORY_TABLE_MAX_COUNT
KERNEL_DIRECTORY == 0
Directory        == Listed \cup {KERNEL_DIRECTORY}

VARIABLES
  page_frame_map,         \* the frames marked as used
  free_page_frame_count,
  tables,                 \* the frame of every present entry of a directory
  page_directory_used,    \* the directories of the list that were handed out
  cr3,                    \* the directory in use
  halted                  \* an exception stopped the CPU

paging == <<page_frame_map, free_page_frame_count, tables, page_directory_used, cr3, halted>>

Unmapped == [p \in Page |-> NoFrame]
NewTable == [Unmapped EXCEPT ![KERNEL_PAGE] = 0]

\* kernel_setup has mapped the shell's page at address 0.
PagingInit ==
  /\ page_frame_map = {0, 1} /\ free_page_frame_count = PAGE_FRAME_MAX_COUNT - 2
  /\ tables = [d \in Directory |-> IF d = KERNEL_DIRECTORY THEN [NewTable EXCEPT ![0] = 1]
                                                           ELSE Unmapped]
  /\ page_directory_used = {}
  /\ cr3 = KERNEL_DIRECTORY /\ halted = FALSE

-----------------------------------------------------------------------------
PageOf(addr) == addr \div PAGE_FRAME_SIZE

\* The pages that n bytes from addr on lie in.
Touched(addr, n) == PageOf(addr) .. PageOf(addr + n - 1)

\* A write of these pages through a table faults, and main_interrupt_handler
\* halts with interrupts off, or goes over the kernel that is running: the
\* machine stops either way.
Faults(table, pages) == KERNEL_PAGE \in pages \/ \E p \in pages : table[p] = NoFrame

\* ceil(amount / PAGE_FRAME_SIZE), amount in bytes.
paging_allocate_check(amount) ==
  free_page_frame_count >= (amount + PAGE_FRAME_SIZE - 1) \div PAGE_FRAME_SIZE

\* Mutant: the loop that zeroes counts with the variable that holds the
\* frame's number, which is past the map when it is marked.
MarkedPastEnd(frame) == page_frame_map

Marked(frame) == page_frame_map \cup {frame}

\* The new page is zeroed at its address in the directory in use, whatever
\* directory it was mapped in, and only then is the frame counted and marked.
TakeFrame(frame, pd, addr) ==
  /\ frame \notin page_frame_map
  /\ \A f \in Frame \ page_frame_map : frame <= f
  /\ tables' = [tables EXCEPT ![pd][PageOf(addr)] = frame]
  /\ \/ /\ ~Faults(tables'[cr3], Touched(addr, PAGE_FRAME_SIZE))
        /\ free_page_frame_count' = free_page_frame_count - 1
        /\ page_frame_map' = Marked(frame)
        /\ UNCHANGED <<page_directory_used, cr3, halted>>
     \/ /\ Faults(tables'[cr3], Touched(addr, PAGE_FRAME_SIZE))
        /\ halted' = TRUE
        /\ UNCHANGED <<page_frame_map, free_page_frame_count, page_directory_used, cr3>>

\* Without a free frame it returns -1.
paging_allocate_user_page_frame(pd, addr) ==
  \/ Frame \subseteq page_frame_map /\ UNCHANGED paging
  \/ \E frame \in Frame : TakeFrame(frame, pd, addr)

\* Mutant: the frame is given back, and not counted.
UnmarkedFrame(frame) == page_frame_map \ {frame}

\* lower_address >> 22 is 0 for a field of ten bits, and i-- makes it the
\* byte before the map: the last one of the kernel's directory, where it
\* stores the zero that is there.  No frame comes back.
Unmarked(frame) == page_frame_map

paging_free_user_page_frame(pd, addr) ==
  LET page == PageOf(addr)
  IN  \/ tables[pd][page] = NoFrame /\ UNCHANGED paging
      \/ /\ tables[pd][page] # NoFrame
         /\ page_frame_map' = Unmarked(tables[pd][page])
         /\ tables' = [tables EXCEPT ![pd][page] = NoFrame]
         /\ UNCHANGED <<free_page_frame_count, page_directory_used, cr3, halted>>

\* Mutant: the new directory maps nothing.
CreateBareDirectory(pd) ==
  /\ pd \in Listed \ page_directory_used
  /\ \A d \in Listed \ page_directory_used : pd <= d
  /\ page_directory_used' = page_directory_used \cup {pd}
  /\ UNCHANGED <<page_frame_map, free_page_frame_count, tables, cr3, halted>>

\* The first directory that is not in use, with the kernel mapped.
paging_create_new_page_directory(pd) ==
  /\ pd \in Listed \ page_directory_used
  /\ \A d \in Listed \ page_directory_used : pd <= d
  /\ page_directory_used' = page_directory_used \cup {pd}
  /\ tables' = [tables EXCEPT ![pd] = [@ EXCEPT ![KERNEL_PAGE] = 0]]
  /\ UNCHANGED <<page_frame_map, free_page_frame_count, cr3, halted>>

\* A directory that is not in the list, NULL among them, is left alone.
paging_free_page_directory(pd) ==
  \/ pd \notin Listed /\ UNCHANGED paging
  \/ /\ pd \in Listed
     /\ page_directory_used' = page_directory_used \ {pd}
     /\ tables' = [tables EXCEPT ![pd] = Unmapped]
     /\ UNCHANGED <<page_frame_map, free_page_frame_count, cr3, halted>>

paging_use_page_directory(pd) ==
  /\ cr3' = pd
  /\ UNCHANGED <<page_frame_map, free_page_frame_count, tables, page_directory_used, halted>>

-----------------------------------------------------------------------------
PagingTypeOK ==
  /\ page_frame_map \subseteq Frame
  /\ free_page_frame_count \in 0 .. PAGE_FRAME_MAX_COUNT - 1
  /\ tables \in [Directory -> [Page -> Frame \cup {NoFrame}]]
  /\ page_directory_used \subseteq Listed
  /\ cr3 \in Directory /\ halted \in BOOLEAN

\* The present entries of user pages, as pairs of a directory and a page.
UserEntries == {e \in Directory \X (0 .. KERNEL_PAGE - 1) : tables[e[1]][e[2]] # NoFrame}

\* While the machine runs, a frame is mapped at one user page of one directory
\* at most, never where the kernel is, and the allocator holds it for used:
\* no two programs, and no two pages of one, share memory.
FramesExclusive ==
  ~halted =>
    /\ \A e \in UserEntries : tables[e[1]][e[2]] \in page_frame_map \ {0}
    /\ \A e1, e2 \in UserEntries : tables[e1[1]][e1[2]] = tables[e2[1]][e2[2]] => e1 = e2

\* While the machine runs, the directory in use is the kernel's or one that
\* was handed out and not taken back, and the kernel is mapped in it: the next
\* interrupt finds its handler.
KernelMapped ==
  ~halted =>
    /\ cr3 \in page_directory_used \cup {KERNEL_DIRECTORY}
    /\ tables[cr3][KERNEL_PAGE] = 0
=============================================================================
