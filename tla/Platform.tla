------------------------------ MODULE Platform ------------------------------
(***************************************************************************)
(* What the assembler and the machine that runs its programs agree on: the *)
(* size of memory (MAXMEMORY in memory.hpp), of a page, which is what an   *)
(* access may go past its end (Memory.tla), and of an instruction, with    *)
(* the places these make; and the names of the registers.                  *)
(***************************************************************************)
EXTENDS Instructions, FiniteSets

(* Bytes in an instruction, and in each piece of data: a word of memory. *)
INSTRUCTION_LENGTH == 8

CONSTANTS
  MAXMEMORY,     (* bytes of memory                                        *)
  PAGESIZE,      (* bytes in the page past its end                         *)
  RegisterOf     (* registerNames: the number of each register             *)

ASSUME PlatformAssumption == MAXMEMORY \in Nat /\ PAGESIZE \in Nat

(* Memory by the byte, as the machine reads and writes it, and by the word, *)
(* as the assembler fills it.                                              *)
Cell == 0 .. MAXMEMORY - 1
Slot == 0 .. MAXMEMORY \div INSTRUCTION_LENGTH - 1
=============================================================================
