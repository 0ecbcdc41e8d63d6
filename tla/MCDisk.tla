------------------------------- MODULE MCDisk -------------------------------
\* The constants are all given in the configuration.
EXTENDS Disk
=============================================================================
