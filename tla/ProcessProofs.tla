---------------------------- MODULE ProcessProofs ----------------------------
(***************************************************************************)
(* The page and process managers, for any number of frames, pages,         *)
(* directories and processes: the counters agree with the maps they count, *)
(* no two pages share a frame, and the kernel is mapped in the directory   *)
(* in use, through every failure half way and for as long as the machine   *)
(* runs.                                                                   *)
(***************************************************************************)
EXTENDS Process, FiniteSetTheorems, TLAPS

\* The directories that may come into use.
Granted == page_directory_used \cup {KERNEL_DIRECTORY}

UserPage == 0 .. KERNEL_PAGE - 1

\* No frame is at two user pages of the tables t, and the map has them all.
Exclusive(t, map) ==
  \A d \in Directory, p \in UserPage :
    t[d][p] # NoFrame =>
      /\ t[d][p] \in map /\ t[d][p] # 0
      /\ \A d2 \in Directory, p2 \in UserPage : t[d2][p2] = t[d][p] => d2 = d /\ p2 = p

\* What the page manager keeps true.
PagingInv ==
  /\ PagingTypeOK
  /\ 0 \in page_frame_map
  /\ free_page_frame_count = Cardinality(Frame \ page_frame_map)
  /\ ~halted => Exclusive(tables, page_frame_map)
  /\ \A pd \in Granted : tables[pd][KERNEL_PAGE] = 0

\* Control blocks: a directory belongs to one process, and is handed out.
Contexts ==
  /\ context \in [Pid -> Directory \cup {NULL}]
  /\ \A p \in Pid : context[p] # NULL => p \in is_process_active /\ context[p] \in page_directory_used
  /\ \A p, q \in Pid : context[p] = context[q] /\ context[p] # NULL => p = q

\* A creation half way: its directory is handed out and nobody's yet, and its
\* image begins below the kernel.
Creation ==
  pc # "idle" =>
    /\ new.pid \in is_process_active /\ new.pd_new \in page_directory_used
    /\ new.pd_old \in Granted
    /\ \A p \in Pid : context[p] # new.pd_new
    /\ new.buf < KERNEL_VIRTUAL_ADDRESS_BASE

ProcessInv ==
  /\ PagingInv
  /\ cr3 \in Granted
  /\ is_process_active \subseteq Pid
  /\ active_process_count \in 0 .. PROCESS_COUNT_MAX
  /\ active_process_count = Cardinality(is_process_active)
  /\ Contexts /\ Creation
  /\ pc \in {"idle", "image", "stack", "use", "read"}
  /\ new \in New /\ retcode \in 0 .. 4

-----------------------------------------------------------------------------
(***************************************************************************)
(* The data.                                                               *)
(***************************************************************************)
\* An address below the kernel's is in a user page.
LEMMA UserAddress ==
  ASSUME NEW a \in Nat, a < KERNEL_VIRTUAL_ADDRESS_BASE
  PROVE  PageOf(a) \in UserPage
<1>1. PAGE_FRAME_SIZE \in Nat \ {0} /\ KERNEL_PAGE \in Nat
  BY PagingAssumption DEF WORD
<1>2. a \div PAGE_FRAME_SIZE \in Nat
  BY <1>1
<1>3. (a \div PAGE_FRAME_SIZE) * PAGE_FRAME_SIZE <= a
  BY <1>1
<1>4. a \div PAGE_FRAME_SIZE < KERNEL_PAGE
  <2> DEFINE q == a \div PAGE_FRAME_SIZE
  <2>1. q \in Nat /\ q * PAGE_FRAME_SIZE < KERNEL_PAGE * PAGE_FRAME_SIZE
    BY <1>1, <1>2, <1>3 DEF KERNEL_VIRTUAL_ADDRESS_BASE
  <2> HIDE DEF q
  <2>2. q < KERNEL_PAGE
    BY <1>1, <2>1
  <2> QED
    BY <2>2 DEF q
<1> QED
  BY <1>1, <1>2, <1>4 DEF PageOf, UserPage

\* The first address of the user's stack is below the kernel's.
LEMMA StackAddress ==
  /\ KERNEL_VIRTUAL_ADDRESS_BASE - WORD \in Nat
  /\ KERNEL_VIRTUAL_ADDRESS_BASE - WORD < KERNEL_VIRTUAL_ADDRESS_BASE
<1>1. PAGE_FRAME_SIZE \in Nat /\ KERNEL_PAGE \in Nat \ {0} /\ PAGE_FRAME_SIZE > WORD /\ WORD \in Nat
      /\ WORD > 0
  BY PagingAssumption DEF WORD
<1>2. KERNEL_PAGE * PAGE_FRAME_SIZE \in Nat /\ KERNEL_PAGE * PAGE_FRAME_SIZE >= PAGE_FRAME_SIZE
  BY <1>1
<1> QED
  BY <1>1, <1>2 DEF KERNEL_VIRTUAL_ADDRESS_BASE

\* Pages and directories.
LEMMA PagingFacts ==
  /\ KERNEL_PAGE \in Page /\ UserPage \subseteq Page /\ KERNEL_PAGE \notin UserPage
  /\ Page \subseteq Int /\ KERNEL_DIRECTORY \in Directory /\ Listed \subseteq Directory
  /\ KERNEL_DIRECTORY \notin Listed /\ NULL \notin Directory
  /\ Frame \subseteq Nat /\ 0 \in Frame /\ 1 \in Frame /\ NoFrame \notin Frame
BY PagingAssumption
   DEF Page, UserPage, KERNEL_DIRECTORY, Listed, Directory, NULL, Frame, NoFrame

\* Exclusive is FramesExclusive, entry by entry.
LEMMA ExclusiveIs == FramesExclusive <=> (~halted => Exclusive(tables, page_frame_map))
<1>1. ASSUME ~halted, FramesExclusive PROVE Exclusive(tables, page_frame_map)
  <2>1. SUFFICES ASSUME NEW d \in Directory, NEW p \in UserPage, tables[d][p] # NoFrame
                 PROVE  /\ tables[d][p] \in page_frame_map /\ tables[d][p] # 0
                        /\ \A d2 \in Directory, p2 \in UserPage :
                             tables[d2][p2] = tables[d][p] => d2 = d /\ p2 = p
    BY DEF Exclusive
  <2>2. <<d, p>> \in UserEntries
    BY <2>1 DEF UserEntries, UserPage
  <2>3. tables[d][p] \in page_frame_map \ {0}
    BY <1>1, <2>2 DEF FramesExclusive
  <2>4. ASSUME NEW d2 \in Directory, NEW p2 \in UserPage, tables[d2][p2] = tables[d][p]
        PROVE  d2 = d /\ p2 = p
    <3>1. <<d2, p2>> \in UserEntries
      BY <2>1, <2>4 DEF UserEntries, UserPage
    <3>2. <<d2, p2>> = <<d, p>>
      BY <1>1, <2>2, <2>4, <3>1 DEF FramesExclusive
    <3> QED
      BY <3>2
  <2> QED
    BY <2>3, <2>4
<1>2. ASSUME Exclusive(tables, page_frame_map) PROVE FramesExclusive
  <2>1. ASSUME NEW e \in UserEntries
        PROVE  /\ e = <<e[1], e[2]>> /\ e[1] \in Directory /\ e[2] \in UserPage
               /\ tables[e[1]][e[2]] # NoFrame
    BY DEF UserEntries, UserPage
  <2>2. \A e \in UserEntries : tables[e[1]][e[2]] \in page_frame_map \ {0}
    BY <1>2, <2>1 DEF Exclusive
  <2>3. ASSUME NEW e1 \in UserEntries, NEW e2 \in UserEntries,
               tables[e1[1]][e1[2]] = tables[e2[1]][e2[2]]
        PROVE  e1 = e2
    <3>1. e1[1] = e2[1] /\ e1[2] = e2[2]
      BY <1>2, <2>1, <2>3 DEF Exclusive
    <3> QED
      BY <2>1, <3>1
  <2> QED
    BY <2>2, <2>3 DEF FramesExclusive
<1>3. halted => FramesExclusive
  BY DEF FramesExclusive
<1> QED
  BY <1>1, <1>2, <1>3

-----------------------------------------------------------------------------
(***************************************************************************)
(* The operations of the page manager.                                     *)
(***************************************************************************)
\* A free frame is nobody's, and is counted when it is taken.
LEMMA CountTaken ==
  ASSUME PagingInv, NEW frame \in Frame, frame \notin page_frame_map
  PROVE  /\ free_page_frame_count \in Nat \ {0}
         /\ free_page_frame_count - 1 = Cardinality(Frame \ (page_frame_map \cup {frame}))
<1>1. IsFiniteSet(Frame)
  BY FS_Interval, PagingAssumption DEF Frame
<1>2. IsFiniteSet(Frame \ page_frame_map)
  BY <1>1, FS_Difference
<1>3. Frame \ (page_frame_map \cup {frame}) = (Frame \ page_frame_map) \ {frame}
  OBVIOUS
<1>4. Cardinality((Frame \ page_frame_map) \ {frame}) = Cardinality(Frame \ page_frame_map) - 1
      /\ IsFiniteSet((Frame \ page_frame_map) \ {frame})
  BY <1>2, FS_RemoveElement
<1>5. /\ Cardinality(Frame \ page_frame_map) \in Nat
      /\ Cardinality((Frame \ page_frame_map) \ {frame}) \in Nat
  BY <1>2, <1>4, FS_CardinalityType
<1> QED
  BY <1>3, <1>4, <1>5 DEF PagingInv

\* paging_allocate_user_page_frame: the frame it takes was free, whether the
\* write that zeroes the page then goes through or stops the machine.
LEMMA AllocatePaging ==
  ASSUME PagingInv, ~halted, NEW pd \in Directory, NEW addr \in Nat,
         addr < KERNEL_VIRTUAL_ADDRESS_BASE, paging_allocate_user_page_frame(pd, addr)
  PROVE  PagingInv' /\ UNCHANGED <<page_directory_used, cr3>>
<1>1. CASE UNCHANGED paging
  BY <1>1 DEF paging, PagingInv, PagingTypeOK, Granted
<1>2. ASSUME NEW frame \in Frame, TakeFrame(frame, pd, addr)
      PROVE  PagingInv' /\ UNCHANGED <<page_directory_used, cr3>>
  <2> DEFINE page == PageOf(addr)
  <2>1. page \in UserPage /\ page \in Page /\ page # KERNEL_PAGE
    BY UserAddress, PagingFacts
  <2> HIDE DEF page
  <2>2. /\ frame \notin page_frame_map /\ tables' = [tables EXCEPT ![pd][page] = frame]
        /\ UNCHANGED <<page_directory_used, cr3>>
        /\ \/ /\ free_page_frame_count' = free_page_frame_count - 1
              /\ page_frame_map' = page_frame_map \cup {frame} /\ halted' = halted
           \/ halted' = TRUE /\ UNCHANGED <<page_frame_map, free_page_frame_count>>
    BY <1>2 DEF TakeFrame, Marked, page
  <2>3. /\ tables \in [Directory -> [Page -> Frame \cup {NoFrame}]]
        /\ page_frame_map \subseteq Frame /\ 0 \in page_frame_map
    BY DEF PagingInv, PagingTypeOK
  <2>4. /\ tables'[pd][page] = frame
        /\ \A d \in Directory, p \in Page :
             (d # pd \/ p # page) => tables'[d][p] = tables[d][p]
        /\ tables' \in [Directory -> [Page -> Frame \cup {NoFrame}]]
    BY <2>1, <2>2, <2>3
  <2>5. free_page_frame_count' = Cardinality(Frame \ page_frame_map')
    BY <1>2, <2>2, CountTaken DEF PagingInv
  <2>6. free_page_frame_count' \in 0 .. PAGE_FRAME_MAX_COUNT - 1
    <3>1. free_page_frame_count \in Nat \ {0} /\ PAGE_FRAME_MAX_COUNT \in Nat
      BY <2>2, CountTaken, PagingAssumption
    <3>2. free_page_frame_count \in 0 .. PAGE_FRAME_MAX_COUNT - 1
      BY DEF PagingInv, PagingTypeOK
    <3> QED
      BY <2>2, <3>1, <3>2
  <2>7. PagingTypeOK'
    BY <2>2, <2>3, <2>4, <2>6 DEF PagingInv, PagingTypeOK
  <2>8. \A d \in Granted' : tables'[d][KERNEL_PAGE] = 0
    BY <2>1, <2>2, <2>4, PagingFacts DEF PagingInv, PagingTypeOK, Granted
  <2>9. ASSUME ~halted' PROVE Exclusive(tables', page_frame_map')
    <3>1. page_frame_map' = page_frame_map \cup {frame}
      BY <2>2, <2>9
    <3>2. Exclusive(tables, page_frame_map) /\ frame # 0
      BY <2>2, <2>3 DEF PagingInv
    <3>3. \A d \in Directory, p \in UserPage : tables[d][p] # frame
      BY <2>2, <3>2, PagingFacts DEF Exclusive
    <3>4. SUFFICES ASSUME NEW d \in Directory, NEW p \in UserPage, tables'[d][p] # NoFrame
                   PROVE  /\ tables'[d][p] \in page_frame_map' /\ tables'[d][p] # 0
                          /\ \A d2 \in Directory, p2 \in UserPage :
                               tables'[d2][p2] = tables'[d][p] => d2 = d /\ p2 = p
      BY DEF Exclusive
    <3>5. CASE d = pd /\ p = page
      BY <2>4, <3>1, <3>2, <3>3, <3>5, PagingFacts
    <3>6. CASE d # pd \/ p # page
      <4>1. tables'[d][p] = tables[d][p] /\ tables[d][p] # frame
        BY <2>4, <3>3, <3>6, PagingFacts
      <4>2. ASSUME NEW d2 \in Directory, NEW p2 \in UserPage, tables'[d2][p2] = tables'[d][p]
            PROVE  d2 = d /\ p2 = p
        <5>1. d2 # pd \/ p2 # page
          BY <2>4, <4>1, <4>2
        <5>2. tables[d2][p2] = tables[d][p]
          BY <2>4, <4>1, <4>2, <5>1, PagingFacts
        <5> QED
          BY <3>2, <3>4, <4>1, <5>2 DEF Exclusive
      <4>3. tables[d][p] \in page_frame_map /\ tables[d][p] # 0
        BY <3>2, <3>4, <4>1 DEF Exclusive
      <4> QED
        BY <3>1, <4>1, <4>2, <4>3
    <3> QED
      BY <3>5, <3>6
  <2>10. 0 \in page_frame_map'
    BY <2>2, <2>3
  <2> QED
    BY <2>2, <2>5, <2>7, <2>8, <2>9, <2>10 DEF PagingInv
<1> QED
  BY <1>1, <1>2 DEF paging_allocate_user_page_frame, paging

\* Tables with entries taken away, none added, are as exclusive.
LEMMA FewerEntries ==
  ASSUME NEW t, NEW u, NEW map, Exclusive(t, map),
         \A d \in Directory, p \in UserPage : u[d][p] = t[d][p] \/ u[d][p] = NoFrame
  PROVE  Exclusive(u, map)
<1>1. SUFFICES ASSUME NEW d \in Directory, NEW p \in UserPage, u[d][p] # NoFrame
               PROVE  /\ u[d][p] \in map /\ u[d][p] # 0
                      /\ \A d2 \in Directory, p2 \in UserPage :
                           u[d2][p2] = u[d][p] => d2 = d /\ p2 = p
  BY DEF Exclusive
<1>2. u[d][p] = t[d][p]
  BY <1>1
<1>3. ASSUME NEW d2 \in Directory, NEW p2 \in UserPage, u[d2][p2] = u[d][p]
      PROVE  t[d2][p2] = t[d][p]
  BY <1>1, <1>2, <1>3
<1> QED
  BY <1>1, <1>2, <1>3 DEF Exclusive

\* paging_free_user_page_frame: the page goes, the frame stays marked.
LEMMA FreePaging ==
  ASSUME PagingInv, NEW pd \in Directory, NEW addr \in Nat, addr < KERNEL_VIRTUAL_ADDRESS_BASE,
         paging_free_user_page_frame(pd, addr)
  PROVE  PagingInv' /\ UNCHANGED <<page_directory_used, cr3, halted>>
<1> DEFINE page == PageOf(addr)
<1>1. page \in UserPage /\ page \in Page /\ page # KERNEL_PAGE
  BY UserAddress, PagingFacts
<1> HIDE DEF page
<1>2. CASE UNCHANGED paging
  BY <1>2 DEF paging, PagingInv, PagingTypeOK, Granted
<1>3. CASE ~UNCHANGED paging
  <2>1. /\ tables' = [tables EXCEPT ![pd][page] = NoFrame]
        /\ UNCHANGED <<page_frame_map, free_page_frame_count, page_directory_used, cr3, halted>>
    BY <1>3 DEF paging_free_user_page_frame, Unmarked, page
  <2>2. tables \in [Directory -> [Page -> Frame \cup {NoFrame}]]
    BY DEF PagingInv, PagingTypeOK
  <2>3. /\ tables' \in [Directory -> [Page -> Frame \cup {NoFrame}]]
        /\ \A d \in Directory, p \in Page : tables'[d][p] = tables[d][p] \/ tables'[d][p] = NoFrame
        /\ \A d \in Directory : tables'[d][KERNEL_PAGE] = tables[d][KERNEL_PAGE]
    BY <1>1, <2>1, <2>2, PagingFacts
  <2>4. \A d \in Directory, p \in UserPage : tables'[d][p] = tables[d][p] \/ tables'[d][p] = NoFrame
    BY <2>3, PagingFacts
  <2>5. ~halted' => Exclusive(tables', page_frame_map')
    <3> DEFINE u == tables'
    <3>1. \A d \in Directory, p \in UserPage : u[d][p] = tables[d][p] \/ u[d][p] = NoFrame
      BY <2>4
    <3> HIDE DEF u
    <3>2. ~halted => Exclusive(u, page_frame_map)
      BY <3>1, FewerEntries DEF PagingInv
    <3> QED
      BY <2>1, <3>2 DEF u
  <2> QED
    BY <2>1, <2>3, <2>5, PagingFacts DEF PagingInv, PagingTypeOK, Granted
<1> QED
  BY <1>2, <1>3 DEF paging

\* paging_create_new_page_directory: the kernel's page is mapped before use.
LEMMA CreateDirectoryPaging ==
  ASSUME PagingInv, NEW pd, paging_create_new_page_directory(pd)
  PROVE  /\ PagingInv' /\ UNCHANGED <<cr3, halted>>
         /\ pd \in Listed /\ pd \notin page_directory_used
         /\ page_directory_used' = page_directory_used \cup {pd}
<1>1. /\ pd \in Listed /\ pd \notin page_directory_used
      /\ page_directory_used' = page_directory_used \cup {pd}
      /\ tables' = [tables EXCEPT ![pd] = [@ EXCEPT ![KERNEL_PAGE] = 0]]
      /\ UNCHANGED <<page_frame_map, free_page_frame_count, cr3, halted>>
  BY DEF paging_create_new_page_directory
<1>2. tables \in [Directory -> [Page -> Frame \cup {NoFrame}]] /\ pd \in Directory
  BY <1>1, PagingFacts DEF PagingInv, PagingTypeOK
<1>3. /\ tables' \in [Directory -> [Page -> Frame \cup {NoFrame}]]
      /\ tables'[pd][KERNEL_PAGE] = 0
      /\ \A d \in Directory, p \in Page :
           (d # pd \/ p # KERNEL_PAGE) => tables'[d][p] = tables[d][p]
  BY <1>1, <1>2, PagingFacts
<1>4. ~halted' => Exclusive(tables', page_frame_map')
  <2> DEFINE u == tables'
  <2>1. \A d \in Directory, p \in UserPage : u[d][p] = tables[d][p] \/ u[d][p] = NoFrame
    BY <1>3, PagingFacts
  <2> HIDE DEF u
  <2>2. ~halted => Exclusive(u, page_frame_map)
    BY <2>1, FewerEntries DEF PagingInv
  <2> QED
    BY <1>1, <2>2 DEF u
<1>5. PagingTypeOK'
  BY <1>1, <1>3 DEF PagingInv, PagingTypeOK
<1>6. \A d \in Granted' : tables'[d][KERNEL_PAGE] = 0
  BY <1>1, <1>3, PagingFacts DEF PagingInv, PagingTypeOK, Granted
<1> QED
  BY <1>1, <1>4, <1>5, <1>6 DEF PagingInv

\* paging_free_page_directory: a directory's entries go, its frames do not.
LEMMA FreeDirectoryPaging ==
  ASSUME PagingInv, NEW pd, paging_free_page_directory(pd)
  PROVE  /\ PagingInv' /\ UNCHANGED <<cr3, halted>>
         /\ page_directory_used' = page_directory_used \ (Listed \cap {pd})
<1>1. CASE pd \notin Listed
  <2>1. UNCHANGED paging
    BY <1>1 DEF paging_free_page_directory
  <2> QED
    BY <1>1, <2>1 DEF paging, PagingInv, PagingTypeOK, Granted
<1>2. CASE pd \in Listed
  <2>1. /\ page_directory_used' = page_directory_used \ {pd}
        /\ tables' = [tables EXCEPT ![pd] = Unmapped]
        /\ UNCHANGED <<page_frame_map, free_page_frame_count, cr3, halted>>
    BY <1>2 DEF paging_free_page_directory
  <2>2. tables \in [Directory -> [Page -> Frame \cup {NoFrame}]] /\ pd \in Directory
    BY <1>2, PagingFacts DEF PagingInv, PagingTypeOK
  <2>3. /\ tables' \in [Directory -> [Page -> Frame \cup {NoFrame}]]
        /\ \A d \in Directory, p \in Page : tables'[d][p] = tables[d][p] \/ tables'[d][p] = NoFrame
        /\ \A d \in Directory : d # pd => tables'[d] = tables[d]
    BY <2>1, <2>2 DEF Unmapped
  <2>4. ~halted' => Exclusive(tables', page_frame_map')
    <3> DEFINE u == tables'
    <3>1. \A d \in Directory, p \in UserPage : u[d][p] = tables[d][p] \/ u[d][p] = NoFrame
      BY <2>3, PagingFacts
    <3> HIDE DEF u
    <3>2. ~halted => Exclusive(u, page_frame_map)
      BY <3>1, FewerEntries DEF PagingInv
    <3> QED
      BY <2>1, <3>2 DEF u
  <2>5. PagingTypeOK'
    BY <2>1, <2>3 DEF PagingInv, PagingTypeOK
  <2>6. \A d \in Granted' : tables'[d][KERNEL_PAGE] = 0
    BY <1>2, <2>1, <2>3, PagingFacts DEF PagingInv, PagingTypeOK, Granted
  <2> QED
    BY <1>2, <2>1, <2>4, <2>5, <2>6 DEF PagingInv
<1> QED
  BY <1>1, <1>2

\* paging_use_page_directory changes only the directory in use.
LEMMA UseDirectoryPaging ==
  ASSUME PagingInv, NEW pd \in Directory, paging_use_page_directory(pd)
  PROVE  PagingInv' /\ cr3' = pd /\ UNCHANGED <<page_directory_used, halted>>
BY DEF paging_use_page_directory, PagingInv, PagingTypeOK, Granted

-----------------------------------------------------------------------------
(***************************************************************************)
(* The steps of the process manager.                                       *)
(***************************************************************************)
\* A call of the page manager that hands out no directory and takes none back
\* leaves what the processes hold as it is.
LEMMA SameProcesses ==
  ASSUME ProcessInv, PagingInv', UNCHANGED page_directory_used, cr3' \in Granted,
         UNCHANGED process
  PROVE  ProcessInv'
BY DEF ProcessInv, Contexts, Creation, Granted, process

\* A creation goes on to its next step.
LEMMA NextStep ==
  ASSUME ProcessInv, PagingInv', UNCHANGED page_directory_used, cr3' \in Granted,
         pc # "idle", NEW step \in {"stack", "use", "read"}, GoTo(step)
  PROVE  ProcessInv'
BY DEF ProcessInv, Contexts, Creation, Granted, GoTo

\* The directories handed out, and the kernel's, are directories.
LEMMA GrantedDirectory == PagingInv => Granted \subseteq Directory
BY PagingFacts DEF PagingInv, PagingTypeOK, Granted

\* A creation that is refused changes only what is returned.
LEMMA RefusedKeeps ==
  ASSUME ProcessInv, NEW buf \in Buffers, NEW size \in BufferSizes, CreateRefused(buf, size)
  PROVE  ProcessInv'
<1>1. retcode' \in 0 .. 4
  BY DEF CreateRefused, CreateStatus, PROCESS_CREATE_SUCCESS,
         PROCESS_CREATE_FAIL_MAX_PROCESS_EXCEEDED, PROCESS_CREATE_FAIL_INVALID_ENTRYPOINT,
         PROCESS_CREATE_FAIL_NOT_ENOUGH_MEMORY
<1>2. UNCHANGED <<paging, is_process_active, active_process_count, context, pc, new>>
  BY DEF CreateRefused
<1>3. PagingInv'
  BY <1>2 DEF ProcessInv, PagingInv, PagingTypeOK, paging, Granted
<1> QED
  BY <1>1, <1>2, <1>3 DEF ProcessInv, Contexts, Creation, Granted, paging

\* The creation that is admitted takes a control block and a directory that
\* nobody has.
LEMMA BeginKeeps ==
  ASSUME ProcessInv, NEW buf \in Buffers, NEW size \in BufferSizes, NEW pid \in Pid,
         NEW pd \in Listed, BeginCreate(buf, size, pid, pd)
  PROVE  ProcessInv'
<1>1. /\ active_process_count < PROCESS_COUNT_MAX
      /\ buf < KERNEL_VIRTUAL_ADDRESS_BASE
  <2>1. buf \in Nat /\ active_process_count \in Nat /\ PROCESS_COUNT_MAX \in Nat
    BY ProcessAssumption DEF ProcessInv
  <2>2. KERNEL_VIRTUAL_ADDRESS_BASE \in Nat
    BY PagingAssumption DEF KERNEL_VIRTUAL_ADDRESS_BASE
  <2>3. CreateStatus(buf, size) = 0
    BY DEF BeginCreate, PROCESS_CREATE_SUCCESS
  <2> QED
    BY <2>1, <2>2, <2>3 DEF CreateStatus, PROCESS_CREATE_FAIL_MAX_PROCESS_EXCEEDED,
       PROCESS_CREATE_FAIL_INVALID_ENTRYPOINT
<1>2. /\ pid \notin is_process_active
      /\ is_process_active' = is_process_active \cup {pid}
      /\ active_process_count' = active_process_count + 1
      /\ paging_create_new_page_directory(pd)
      /\ new' = [pid |-> pid, buf |-> buf, size |-> size, pd_old |-> cr3, pd_new |-> pd]
      /\ pc' = "image" /\ UNCHANGED <<context, retcode>>
  BY DEF BeginCreate
<1>3. /\ PagingInv' /\ UNCHANGED <<cr3, halted>>
      /\ pd \in Listed /\ pd \notin page_directory_used
      /\ page_directory_used' = page_directory_used \cup {pd}
  BY <1>2, CreateDirectoryPaging DEF ProcessInv
<1>4. /\ is_process_active' \subseteq Pid
      /\ active_process_count' \in 0 .. PROCESS_COUNT_MAX
  BY <1>1, <1>2, ProcessAssumption DEF ProcessInv
<1>5. active_process_count' = Cardinality(is_process_active')
  <2>1. IsFiniteSet(Pid)
    BY FS_Interval, ProcessAssumption DEF Pid
  <2>2. IsFiniteSet(is_process_active)
    BY <2>1, FS_Subset DEF ProcessInv
  <2>3. Cardinality(is_process_active \cup {pid}) = Cardinality(is_process_active) + 1
    BY <1>2, <2>2, FS_AddElement
  <2> QED
    BY <1>2, <2>3 DEF ProcessInv
<1>6. Contexts'
  BY <1>2, <1>3 DEF ProcessInv, Contexts
<1>7. Creation'
  <2>1. \A p \in Pid : context[p] # pd
    BY <1>3, PagingFacts DEF ProcessInv, Contexts
  <2>2. /\ new'.pid = pid /\ new'.buf = buf /\ new'.pd_old = cr3 /\ new'.pd_new = pd
    BY <1>2
  <2> QED
    BY <1>1, <1>2, <1>3, <2>1, <2>2 DEF ProcessInv, Creation, Granted
<1>8. new' \in New
  BY <1>2, GrantedDirectory, PagingFacts, ProcessAssumption DEF ProcessInv, New
<1>9. cr3' \in Granted' /\ pc' = "image" /\ retcode' \in 0 .. 4
  BY <1>2, <1>3 DEF ProcessInv, Granted
<1> QED
  BY <1>3, <1>4, <1>5, <1>6, <1>7, <1>8, <1>9 DEF ProcessInv

\* The image's page, the stack's, and the switch to the new directory.
LEMMA MapImageKeeps == ProcessInv /\ MapImage => ProcessInv'
<1>1. SUFFICES ASSUME ProcessInv, MapImage PROVE ProcessInv'
  OBVIOUS
<1>2. /\ pc = "image" /\ ~halted /\ GoTo("stack")
      /\ paging_allocate_user_page_frame(new.pd_new, new.buf)
  BY <1>1 DEF MapImage
<1>3. new.pd_new \in Directory /\ new.buf \in Nat /\ new.buf < KERNEL_VIRTUAL_ADDRESS_BASE
  BY <1>1, <1>2 DEF ProcessInv, New, Creation
<1>4. PagingInv' /\ UNCHANGED <<page_directory_used, cr3>>
  BY <1>1, <1>2, <1>3, AllocatePaging DEF ProcessInv
<1>5. cr3' \in Granted
  BY <1>1, <1>4 DEF ProcessInv
<1> QED
  BY <1>1, <1>2, <1>4, <1>5, NextStep

\* The stack's frame is mapped into the new page directory.
LEMMA MapStackKeeps == ProcessInv /\ MapStack => ProcessInv'
<1>1. SUFFICES ASSUME ProcessInv, MapStack PROVE ProcessInv'
  OBVIOUS
<1>2. /\ pc = "stack" /\ ~halted /\ GoTo("use")
      /\ paging_allocate_user_page_frame(new.pd_new, KERNEL_VIRTUAL_ADDRESS_BASE - WORD)
  BY <1>1 DEF MapStack
<1>3. new.pd_new \in Directory
  BY <1>1 DEF ProcessInv, New
<1>4. PagingInv' /\ UNCHANGED <<page_directory_used, cr3>>
  BY <1>1, <1>2, <1>3, AllocatePaging, StackAddress DEF ProcessInv
<1>5. cr3' \in Granted
  BY <1>1, <1>4 DEF ProcessInv
<1> QED
  BY <1>1, <1>2, <1>4, <1>5, NextStep

\* The file is read with the new page directory in use.
LEMMA UseKeeps == ProcessInv /\ UseNewDirectory => ProcessInv'
<1>1. SUFFICES ASSUME ProcessInv, UseNewDirectory PROVE ProcessInv'
  OBVIOUS
<1>2. pc = "use" /\ GoTo("read") /\ paging_use_page_directory(new.pd_new)
  BY <1>1 DEF UseNewDirectory
<1>3. new.pd_new \in Directory /\ new.pd_new \in Granted
  BY <1>1, <1>2 DEF ProcessInv, New, Creation, Granted
<1>4. PagingInv' /\ cr3' = new.pd_new /\ UNCHANGED page_directory_used
  BY <1>1, <1>2, <1>3, UseDirectoryPaging DEF ProcessInv
<1> QED
  BY <1>1, <1>2, <1>3, <1>4, NextStep

\* The file is read: the machine stops, or the creation returns.
LEMMA FaultKeeps == ProcessInv /\ ReadFaults => ProcessInv'
<1>1. SUFFICES ASSUME ProcessInv, ReadFaults PROVE ProcessInv'
  OBVIOUS
<1>2. /\ halted' = TRUE
      /\ UNCHANGED <<process, page_frame_map, free_page_frame_count, tables,
                     page_directory_used, cr3>>
  BY <1>1 DEF ReadFaults
<1>3. PagingInv'
  BY <1>1, <1>2 DEF ProcessInv, PagingInv, PagingTypeOK, Granted
<1>4. cr3' \in Granted
  BY <1>1, <1>2 DEF ProcessInv
<1> QED
  BY <1>1, <1>2, <1>3, <1>4, SameProcesses

\* Between two creations there is a call with nothing in it.
LEMMA NoCallIsNew == NoCall \in New
BY PagingFacts, ProcessAssumption DEF NoCall, New, Pid

\* A failed read leaves the slot, the frames and the counters as they are.
LEMMA FailedKeeps == ProcessInv /\ ReadFailed => ProcessInv'
<1>1. SUFFICES ASSUME ProcessInv, ReadFailed PROVE ProcessInv'
  OBVIOUS
<1>2. /\ pc' = "idle" /\ new' = NoCall /\ retcode' = 4
      /\ UNCHANGED <<is_process_active, active_process_count, context, paging>>
  BY <1>1 DEF ReadFailed, Return, PROCESS_CREATE_FAIL_FS_READ_FAILURE
<1>3. PagingInv'
  BY <1>1, <1>2 DEF ProcessInv, PagingInv, PagingTypeOK, Granted, paging
<1> QED
  BY <1>1, <1>2, <1>3, NoCallIsNew DEF ProcessInv, Contexts, Creation, Granted, paging

\* A read that went well gives the process its context and the CPU its old directory back.
LEMMA DoneKeeps == ProcessInv /\ ReadDone => ProcessInv'
<1>1. SUFFICES ASSUME ProcessInv, ReadDone PROVE ProcessInv'
  OBVIOUS
<1>2. /\ pc = "read" /\ pc' = "idle" /\ new' = NoCall /\ retcode' = 0
      /\ context' = [context EXCEPT ![new.pid] = new.pd_new]
      /\ UNCHANGED <<is_process_active, active_process_count>>
      /\ paging_use_page_directory(new.pd_old)
  BY <1>1 DEF ReadDone, Return, PROCESS_CREATE_SUCCESS
<1>3. /\ new.pid \in is_process_active /\ new.pd_new \in page_directory_used
      /\ new.pd_old \in Granted /\ \A p \in Pid : context[p] # new.pd_new
      /\ new.pid \in Pid /\ new.pd_new \in Directory /\ new.pd_old \in Directory
  BY <1>1, <1>2 DEF ProcessInv, Creation, New
<1>4. PagingInv' /\ cr3' = new.pd_old /\ UNCHANGED page_directory_used
  BY <1>1, <1>2, <1>3, UseDirectoryPaging DEF ProcessInv
<1>5. Contexts'
  BY <1>1, <1>2, <1>3, <1>4 DEF ProcessInv, Contexts
<1> QED
  BY <1>1, <1>2, <1>3, <1>4, <1>5, NoCallIsNew DEF ProcessInv, Creation, Granted

\* Destroying a process gives back a directory that is not in use and that
\* nobody else has.
LEMMA DestroyKeeps ==
  ASSUME ProcessInv, NEW pid \in Pid, process_destroy(pid)
  PROVE  ProcessInv'
<1>1. CASE UNCHANGED processVars
  BY <1>1 DEF ProcessInv, PagingInv, PagingTypeOK, Granted, Contexts, Creation, processVars,
     paging, process
<1>2. CASE ~UNCHANGED processVars
  <2>1. /\ pc = "idle" /\ pid \in is_process_active /\ context[pid] # cr3
        /\ is_process_active' = is_process_active \ {pid}
        /\ active_process_count' = active_process_count - 1
        /\ paging_free_page_directory(context[pid])
        /\ context' = [context EXCEPT ![pid] = NULL]
        /\ UNCHANGED <<pc, new, retcode>>
    BY <1>2 DEF process_destroy, Ready
  <2> DEFINE pd == context[pid]
  <2>2. pd = context[pid]
    OBVIOUS
  <2>3. paging_free_page_directory(pd)
    BY <2>1
  <2> HIDE DEF pd
  <2>4. /\ PagingInv' /\ UNCHANGED <<cr3, halted>>
        /\ page_directory_used' = page_directory_used \ (Listed \cap {pd})
    BY <2>3, FreeDirectoryPaging DEF ProcessInv
  <2>5. /\ active_process_count' = Cardinality(is_process_active')
        /\ active_process_count' \in 0 .. PROCESS_COUNT_MAX
    <3>1. IsFiniteSet(Pid)
      BY FS_Interval, ProcessAssumption DEF Pid
    <3>2. IsFiniteSet(is_process_active)
      BY <3>1, FS_Subset DEF ProcessInv
    <3>3. /\ IsFiniteSet(is_process_active \ {pid})
          /\ Cardinality(is_process_active \ {pid}) = Cardinality(is_process_active) - 1
      BY <2>1, <3>2, FS_RemoveElement
    <3>4. Cardinality(is_process_active \ {pid}) \in Nat
      BY <3>3, FS_CardinalityType
    <3> QED
      BY <2>1, <3>3, <3>4, ProcessAssumption DEF ProcessInv
  <2>6. context' \in [Pid -> Directory \cup {NULL}] /\ context'[pid] = NULL
        /\ \A p \in Pid \ {pid} : context'[p] = context[p]
    BY <2>1 DEF ProcessInv, Contexts
  <2>7. Contexts'
    <3>1. ASSUME NEW p \in Pid, context'[p] # NULL
          PROVE  p \in is_process_active' /\ context'[p] \in page_directory_used'
      <4>1. p # pid /\ context'[p] = context[p]
        BY <2>6, <3>1
      <4>2. p \in is_process_active /\ context[p] \in page_directory_used /\ context[p] # pd
        BY <2>2, <3>1, <4>1 DEF ProcessInv, Contexts
      <4> QED
        BY <2>1, <2>4, <4>1, <4>2
    <3>2. ASSUME NEW p \in Pid, NEW q \in Pid, context'[p] = context'[q], context'[p] # NULL
          PROVE  p = q
      BY <2>6, <3>2 DEF ProcessInv, Contexts
    <3> QED
      BY <2>6, <3>1, <3>2 DEF Contexts
  <2>8. cr3' \in Granted'
    BY <2>1, <2>2, <2>4, PagingFacts DEF ProcessInv, Granted
  <2>9. is_process_active' \subseteq Pid /\ Creation'
    BY <2>1 DEF ProcessInv, Creation
  <2> QED
    BY <2>1, <2>4, <2>5, <2>7, <2>8, <2>9 DEF ProcessInv
<1> QED
  BY <1>1, <1>2

\* The kernel's other calls.
LEMMA CallsKeep ==
  ASSUME ProcessInv,
         \/ \E addr \in Addresses : Allocate(addr) \/ Free(addr)
         \/ \E pd \in Directory : Switch(pd)
  PROVE  ProcessInv'
<1>1. cr3 \in Directory /\ cr3 \in Granted
  BY GrantedDirectory DEF ProcessInv
<1>2. ASSUME NEW addr \in Addresses, Allocate(addr) PROVE ProcessInv'
  <2>1. PagingInv' /\ UNCHANGED <<page_directory_used, cr3>>
    BY <1>1, <1>2, AllocatePaging, ProcessAssumption DEF ProcessInv, Allocate, Ready
  <2> QED
    BY <1>1, <1>2, <2>1, SameProcesses DEF Allocate
<1>3. ASSUME NEW addr \in Addresses, Free(addr) PROVE ProcessInv'
  <2>1. PagingInv' /\ UNCHANGED <<page_directory_used, cr3>>
    BY <1>1, <1>3, FreePaging, ProcessAssumption DEF ProcessInv, Free, Ready
  <2> QED
    BY <1>1, <1>3, <2>1, SameProcesses DEF Free
<1>4. ASSUME NEW pd \in Directory, Switch(pd) PROVE ProcessInv'
  <2>1. pd \in Granted
    BY <1>4 DEF Switch, ProcessInv, Contexts, Granted
  <2>2. PagingInv' /\ cr3' = pd /\ UNCHANGED page_directory_used
    BY <1>4, UseDirectoryPaging DEF Switch, ProcessInv
  <2> QED
    BY <1>4, <2>1, <2>2, SameProcesses DEF Switch
<1> QED
  BY <1>2, <1>3, <1>4

-----------------------------------------------------------------------------
(***************************************************************************)
(* The theorems.                                                           *)
(***************************************************************************)
\* After kernel_setup: two frames are taken, the kernel's and the shell's.
LEMMA ProcessStarts == ProcessInit => ProcessInv
<1>1. SUFFICES ASSUME ProcessInit PROVE ProcessInv
  OBVIOUS
<1>2. /\ page_frame_map = {0, 1} /\ free_page_frame_count = PAGE_FRAME_MAX_COUNT - 2
      /\ tables = [d \in Directory |-> IF d = KERNEL_DIRECTORY THEN [NewTable EXCEPT ![0] = 1]
                                                                ELSE Unmapped]
      /\ page_directory_used = {} /\ cr3 = KERNEL_DIRECTORY /\ halted = FALSE
  BY <1>1 DEF ProcessInit, PagingInit
<1>3. 0 \in Page /\ 0 # KERNEL_PAGE
  BY PagingAssumption DEF Page
<1>4. /\ NewTable \in [Page -> Frame \cup {NoFrame}]
      /\ NewTable[KERNEL_PAGE] = 0
      /\ \A p \in UserPage : NewTable[p] = NoFrame
  BY PagingFacts DEF NewTable, Unmapped
<1>5. /\ tables \in [Directory -> [Page -> Frame \cup {NoFrame}]]
      /\ tables[KERNEL_DIRECTORY][KERNEL_PAGE] = 0
      /\ tables[KERNEL_DIRECTORY][0] = 1
      /\ \A d \in Directory, p \in UserPage :
           d # KERNEL_DIRECTORY \/ p # 0 => tables[d][p] = NoFrame
  <2>1. Unmapped \in [Page -> Frame \cup {NoFrame}] /\ \A p \in UserPage : Unmapped[p] = NoFrame
    BY PagingFacts DEF Unmapped
  <2> QED
    BY <1>2, <1>3, <1>4, <2>1, PagingFacts
<1>6. free_page_frame_count = Cardinality(Frame \ page_frame_map)
      /\ free_page_frame_count \in 0 .. PAGE_FRAME_MAX_COUNT - 1
  <2>1. Frame \ {0, 1} = 2 .. PAGE_FRAME_MAX_COUNT - 1
    BY PagingAssumption DEF Frame
  <2>2. Cardinality(2 .. PAGE_FRAME_MAX_COUNT - 1) = PAGE_FRAME_MAX_COUNT - 2
    BY FS_Interval, PagingAssumption
  <2>3. free_page_frame_count = Cardinality(Frame \ page_frame_map)
    BY <1>2, <2>1, <2>2
  <2> QED
    BY <1>2, <2>3, PagingAssumption
<1>7. Exclusive(tables, page_frame_map)
  <2>1. 1 # NoFrame /\ 1 \in page_frame_map /\ 1 # 0
    BY <1>2 DEF NoFrame
  <2> QED
    BY <1>5, <2>1 DEF Exclusive
<1>8. PagingInv
  BY <1>2, <1>5, <1>6, <1>7, PagingFacts DEF PagingInv, PagingTypeOK, Granted
<1>9. /\ active_process_count = Cardinality(is_process_active)
      /\ active_process_count \in 0 .. PROCESS_COUNT_MAX /\ is_process_active = {}
  BY <1>1, FS_EmptySet, ProcessAssumption DEF ProcessInit
<1>10. Contexts /\ Creation /\ retcode \in 0 .. 4 /\ new = NoCall /\ pc = "idle"
  BY <1>1 DEF ProcessInit, Contexts, Creation, PROCESS_CREATE_SUCCESS
<1> QED
  BY <1>2, <1>8, <1>9, <1>10, NoCallIsNew DEF ProcessInv, Granted

\* The inductive invariant of the two managers, every step of theirs keeping
\* it: each control block's directory is its own and handed out, and a creation
\* half way holds one that is nobody's yet.
THEOREM ProcessInductive == ProcessSpec => []ProcessInv
<1>1. ASSUME ProcessInv, [ProcessNext]_processVars PROVE ProcessInv'
  <2>1. CASE UNCHANGED processVars
    BY <1>1, <2>1 DEF ProcessInv, PagingInv, PagingTypeOK, Granted, Contexts, Creation,
       processVars, paging, process
  <2>2. CASE ProcessNext
    BY <1>1, <2>2, RefusedKeeps, BeginKeeps, MapImageKeeps, MapStackKeeps, UseKeeps, FaultKeeps,
       FailedKeeps, DoneKeeps, DestroyKeeps, CallsKeep DEF ProcessNext
  <2> QED
    BY <1>1, <2>1, <2>2
<1> QED
  BY <1>1, ProcessStarts, PTL DEF ProcessSpec

\* Every variable of the page and the process manager keeps to its type.
THEOREM ProcessTyped == ProcessSpec => []ProcessTypeOK
<1>1. ProcessInv => ProcessTypeOK
  BY DEF ProcessInv, PagingInv, Contexts, ProcessTypeOK
<1> QED
  BY <1>1, ProcessInductive, PTL

\* The two counters a creation is admitted by say what their maps say: a
\* failed read, a fault half way and a free that gives nothing back included.
THEOREM CountersAgree == ProcessSpec => []CountsAgree
<1>1. ProcessInv => CountsAgree
  BY DEF ProcessInv, PagingInv, CountsAgree
<1> QED
  BY <1>1, ProcessInductive, PTL

\* No two pages, of one program or of two, are ever the same memory.
THEOREM FramesNeverShared == ProcessSpec => []FramesExclusive
<1>1. ProcessInv => FramesExclusive
  BY ExclusiveIs DEF ProcessInv, PagingInv
<1> QED
  BY <1>1, ProcessInductive, PTL

\* The directory in use always maps the kernel.
THEOREM KernelAlwaysMapped == ProcessSpec => []KernelMapped
<1>1. ProcessInv => KernelMapped
  BY DEF ProcessInv, PagingInv, KernelMapped, Granted
<1> QED
  BY <1>1, ProcessInductive, PTL
=============================================================================
