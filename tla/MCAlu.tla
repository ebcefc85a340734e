------------------------------- MODULE MCAlu --------------------------------
(***************************************************************************)
(* The machine for TLC: bytes of ten values, four registers and the        *)
(* counter, seven words of memory.  The programs are all those of an         *)
(* instruction that sets a register up, any instruction at all, and one    *)
(* that uses the result, before a HALT and two words of data; and programs *)
(* that read and print.                                                    *)
(***************************************************************************)
EXTENDS Alu

I(op, a, b, c) == Instruction(op, a, b, c)

Data(n) == I("data", 0, 0, n)

(* What a program and its data put in memory. *)
Image(program) ==
  LET WordAt(k) == IF k > Len(program) THEN 0
                   ELSE IF program[k].op = "data" THEN program[k].c
                   ELSE Encode(program[k])
  IN  [c \in Cell |-> ByteAt(WordAt(c \div 8 + 1), c % 8)]

SetUp == {I("ADDI", 1, 0, - 3), I("ADDI", 1, 0, 7), I("LD", 1, 0, 32), I("JAL", 1, 0, 8)}

Anything ==
  {I(op, 3, 1, 2) : op \in ThreeRegister}
    \cup {I(op, 3, 2, 1) : op \in {"SLL", "SRA", "SLLW", "SRLW", "SLTU"}}
    \cup {I("ADD", 0, 1, 1), I("ADD", 9, 1, 1), I("DIV", 3, 1, 0), I("REMUW", 3, 1, 0),
          I("SUB", 1, 7, 2)}
    \cup {I(op, 3, 1, 2) : op \in WithImmediate}
    \cup {I("ADDIW", 0, 1, - 2), I("XORI", 3, 2, - 1)}
    \cup {I(op, 1, b, c) : op \in Branches, b \in {0, 2}, c \in {0, 24}}
    \cup {I("JALR", 1, 1, 8), I("JALR", 0, 2, - 24), I("JALR", 9, 9, 0), I("JAL", 0, 0, 0),
          I("JAL", 3, 0, 69)}
    \cup {I(op, 1, 2, c) : op \in Loads, c \in {- 5, 5}} \cup {I("LW", 0, 0, 0), I("LD", 9, 2, 20)}
    \cup {I(op, 1, 2, c) : op \in Stores, c \in {- 28, 0, 5}} \cup {I("SD", 1, 0, 68)}
    \cup {I("LUI", 3, 0, - 40), I("AUIPC", 3, 0, 16), I("AUIPC", 9, 0, 16), I("DEBUG", 1, 0, 0)}
    \cup {I("PRINT", 0, 2, 0), I("PRINT", 1, 2, 0), I("PRINT", 0, 1, 0), I("HALT", 0, 0, 0)}
    \cup {I(op, 2, 0, c) : op \in Inputs, c \in {- 8, 5}} \cup {I("INPUTI", 1, 0, 72)}
    \cup {I("NEG", 3, 1, 0), Data(59), Data(9999)}

Using ==
  {I("ADD", 1, 3, 1), I("DIVW", 1, 1, 3), I("SD", 3, 2, - 8), I("SB", 1, 1, 30), I("JALR", 1, 1, 0),
   I("JAL", 0, 0, 0), I("BLT", 1, 3, 8), I("BGEU", 3, 1, 0), I("LH", 1, 2, 0), I("PRINT", 0, 2, 0),
   I("INPUTS", 2, 0, 0), I("ADDI", 9, 9, 8)}

Programs == {Image(<<a, b, c, I("HALT", 0, 0, 0), Data(12345678), Data(11)>>) :
               a \in SetUp, b \in Anything, c \in Using}

W(chars, long) ==
  [chars |-> chars, long |-> long, double |-> 12340000, number |-> long # 0, true |-> long = 0]

Typing == <<W(<<5>>, 5), Newline, W(<<7, 9>>, 0)>>

(* Programs that read, and print what they read, near the end of memory    *)
(* and beyond; with lines longer and shorter than a PRINT takes, a line of *)
(* two words, numbers, words that are none, and input that ends early.     *)
InputAt == {I(op, 0, 0, a) : op \in Inputs, a \in {16, 24, 40, 44, 56, 69}}

InputImages ==
  {Image(<<a, b, p, I("HALT", 0, 0, 0)>>) :
     a \in InputAt, b \in InputAt, p \in {I("PRINT", 0, 0, 24), I("PRINT", 1, 0, 16)}}

InputConsoles ==
  {<<>>, <<Newline, W(<<4>>, 4)>>}
    \cup {<<W(c, 0), Newline, W(<<5>>, 5), Newline>> : c \in {<<1>>, <<1, 8>>, <<1, 8, 3>>}}
    \cup {<<W(<<7>>, 7), Newline, W(c, 0)>> : c \in {<<6>>, <<6, 2, 9>>}}
    \cup {<<W(<<5, 2, 7>>, 5), W(<<2, 7>>, 7), Newline, W(<<4>>, 4)>>}

MCSetups ==
  [image : Programs, console : {Typing}] \cup [image : InputImages, console : InputConsoles]

MCInputWords ==
  {W(<<k>>, k) : k \in {4, 5, 7}} \cup {W(<<5, 2, 7>>, 5), W(<<2, 7>>, 7)}
    \cup {W(c, 0) : c \in {<<1>>, <<6>>, <<1, 8>>, <<7, 9>>, <<1, 8, 3>>, <<6, 2, 9>>}}

MCRegisterOf == [zero |-> 0]

MCGarbage == {0, 99999999}
=============================================================================
