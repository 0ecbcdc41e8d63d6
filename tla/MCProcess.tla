----------------------------- MODULE MCProcess ------------------------------
EXTENDS Process, TLC

\* A page is eight addresses, and the kernel begins at the fourth page: one
\* entry point is in the middle of a page and one in the kernel.
MCBuffers     == {0, 8, 12, 24}
MCBufferSizes == {4, 8, 16, 24}
MCAddresses   == {0, 8, 16}
=============================================================================
