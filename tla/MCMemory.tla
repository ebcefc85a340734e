------------------------------ MODULE MCMemory ------------------------------
(* Memory for TLC: the addresses reach two pages past the end of memory.   *)
EXTENDS Memory

MCByte == 0 .. 1
MCAddress == 0 .. MAXMEMORY + PAGESIZE
=============================================================================
