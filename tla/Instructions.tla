---------------------------- MODULE Instructions ----------------------------
(***************************************************************************)
(* The bit patterns of instructions (Operations in assemble.hpp; the end   *)
(* of Instruction::getInstruction, which writes them; the readInstruction  *)
(* calls of alu::step, which take them apart).  Each fills one word, in    *)
(* one of four layouts of 2-byte code and operands:                        *)
(*   R  three 2-byte registers         I  two 1-byte registers, an int     *)
(*   U  a 1-byte register, an int      D  one 2-byte register              *)
(* An instruction is a record of its name and its operands a, b and c; an  *)
(* operand its layout lacks is 0.                                          *)
(***************************************************************************)
EXTENDS Words

Operations == <<
  "ADD", "SUB", "MUL", "MULH", "MULHSU", "MULHU", "DIV", "DIVU", "REM", "REMU",
  "AND", "OR", "XOR", "SLL", "SLT", "SLTU", "SRL", "SRA",
  "ADDW", "SUBW", "SLLW", "SRLW", "SRAW", "MULW", "DIVW", "DIVUW", "REMW", "REMUW",
  "ADDI", "SLTI", "SLLI", "SRLI", "XORI", "SRAI", "ADDIW", "SLLIW", "SRLIW", "SRAIW",
  "JALR", "BEQ", "BNE", "BLT", "BGE", "BLTU", "BGEU",
  "LB", "LH", "LW", "LWU", "LD", "LBU", "LHU", "SB", "SH", "SW", "SD", "JAL",
  "LUI", "AUIPC", "NOP", "MV", "NOT", "NEG", "NEGW",
  "HALT", "PRINT", "INPUTI", "INPUTB", "INPUTS", "INPUTF", "DEBUG" >>

Opcodes == {Operations[k] : k \in DOMAIN Operations}

(* The code of every operation fits the two bytes it is stored in. *)
ASSUME InstructionsAssumption == Len(Operations) <= SHORT

Code(op) == (CHOOSE k \in DOMAIN Operations : Operations[k] = op) - 1

(* The operations from first to last in the order of the enumeration. *)
Between(first, last) == {Operations[k + 1] : k \in Code(first) .. Code(last)}

ThreeRegister  == Between("ADD", "REMUW")
WithImmediate  == Between("ADDI", "SRAIW")
Branches       == Between("BEQ", "BGEU")
Loads          == Between("LB", "LHU")
Stores         == Between("SB", "SD")
Uppers         == Between("LUI", "AUIPC")
Inputs         == Between("INPUTI", "INPUTF")

(* What the assembler turns into another instruction. *)
Translated     == Between("NOP", "NEGW")

Layout(op) ==
  CASE op \in ThreeRegister \cup {"HALT"} -> "R"
    [] op \in Uppers \cup Inputs -> "U"
    [] op = "DEBUG" -> "D"
    [] OTHER -> "I"

Instruction(op, a, b, c) == [op |-> op, a |-> a, b |-> b, c |-> c]

-----------------------------------------------------------------------------
(* alu::step: taking a word apart.  A code beyond the enumeration has no   *)
(* name.                                                                   *)
Decode(w) ==
  LET code == Field(w, 0, 2)
      op == IF code < Len(Operations) THEN Operations[code + 1] ELSE "none"
      layout == Layout(op)
  IN  CASE layout = "R" -> Instruction(op, Field(w, 2, 2), Field(w, 4, 2), Field(w, 6, 2))
        [] layout = "I" -> Instruction(op, Field(w, 2, 1), Field(w, 3, 1),
                                       Signed(Field(w, 4, 4), INT))
        [] layout = "U" -> Instruction(op, Field(w, 2, 1), 0, Signed(Field(w, 3, 4), INT))
        [] layout = "D" -> Instruction(op, Field(w, 2, 2), 0, 0)

(* A mutant of Parts: LUI, AUIPC and the inputs read like loads. *)
PartsAsLoad(w) ==
  LET code == Field(w, 0, 2)
  IN  IF code \in Code("ADD") .. Code("REMUW")
        THEN <<code, Field(w, 2, 2), Field(w, 4, 2), Field(w, 6, 2)>>
        ELSE <<code, Field(w, 2, 1), Field(w, 3, 1), Signed(Field(w, 4, 4), INT)>>

(* readParts, the debugger's way to take a word apart, through             *)
(* readInstructionNormalized: the code and three parameters, a missing one *)
(* as -1; nothing for an instruction it does not support.                  *)
Parts(w) ==
  LET code == Field(w, 0, 2)
      In(first, last) == code \in Code(first) .. Code(last)
  IN  CASE In("ADD", "REMUW") -> <<code, Field(w, 2, 2), Field(w, 4, 2), Field(w, 6, 2)>>
        [] In("ADDI", "JAL") \/ In("PRINT", "PRINT") ->
             <<code, Field(w, 2, 1), Field(w, 3, 1), Signed(Field(w, 4, 4), INT)>>
        [] In("LUI", "AUIPC") \/ In("INPUTI", "INPUTF") ->
             <<code, Field(w, 2, 1), Signed(Field(w, 3, 4), INT), - 1>>
        [] OTHER -> <<>>

(* Register::writeInstruction for each of the layouts. *)
Packed(op, layout, a, b, c) ==
  Code(op) +
  CASE layout = "R" -> (a % SHORT) * Place[3] + (b % SHORT) * Place[5] + (c % SHORT) * Place[7]
    [] layout = "I" -> (a % CHAR) * Place[3] + (b % CHAR) * Place[4] + (c % INT) * Place[5]
    [] layout = "U" -> (a % CHAR) * Place[3] + (c % INT) * Place[4]
    [] layout = "D" -> (a % SHORT) * Place[3]

(* A mutant of Encode: LUI and the inputs packed like loads. *)
EncodeUpperAsLoad(i) ==
  Packed(i.op, IF Layout(i.op) = "U" THEN "I" ELSE Layout(i.op), i.a, i.b, i.c)

(* A mutant of Encode: NEG and NEGW subtract zero from their operand. *)
EncodeNegReversed(i) ==
  CASE i.op = "NEG"  -> Packed("SUB", "R", i.a, i.b, 0)
    [] i.op = "NEGW" -> Packed("SUBW", "R", i.a, i.b, 0)
    [] i.op = "MV"   -> Packed("ADDI", "I", i.a, i.b, 0)
    [] i.op = "NOT"  -> Packed("XORI", "I", i.a, i.b, - 1)
    [] i.op \in {"NOP", "HALT"} -> Packed(IF i.op = "NOP" THEN "ADD" ELSE i.op, "R", 0, 0, 0)
    [] OTHER         -> Packed(i.op, Layout(i.op), i.a, i.b, i.c)

(* Instruction::getInstruction, once the operands are known. *)
Encode(i) ==
  CASE i.op = "NOP"  -> Packed("ADD", "R", 0, 0, 0)
    [] i.op = "MV"   -> Packed("ADDI", "I", i.a, i.b, 0)
    [] i.op = "NOT"  -> Packed("XORI", "I", i.a, i.b, - 1)
    [] i.op = "NEG"  -> Packed("SUB", "R", i.a, 0, i.b)
    [] i.op = "NEGW" -> Packed("SUBW", "R", i.a, 0, i.b)
    [] i.op = "HALT" -> Packed("HALT", "R", 0, 0, 0)
    [] OTHER         -> Packed(i.op, Layout(i.op), i.a, i.b, i.c)
=============================================================================
