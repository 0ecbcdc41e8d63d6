\* Five frames, three of them free after boot, three user pages, two
\* processes.
SPECIFICATION ProcessSpec
CONSTANTS
  PAGE_FRAME_SIZE = 8
  PAGE_FRAME_MAX_COUNT = 5
  PAGING_DIRECTORY_TABLE_MAX_COUNT = 2
  KERNEL_PAGE = 3
  PROCESS_COUNT_MAX = 2
  PROCESS_PAGE_FRAME_COUNT_MAX = 3
  Buffers <- MCBuffers
  BufferSizes <- MCBufferSizes
  Addresses <- MCAddresses
INVARIANTS ProcessTypeOK CountsAgree FramesExclusive KernelMapped
CHECK_DEADLOCK FALSE
