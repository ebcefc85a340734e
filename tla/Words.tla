------------------------------- MODULE Words --------------------------------
(***************************************************************************)
(* The numbers of the machine: a register holds 8 bytes, and char, short,  *)
(* int and long are its low 1, 2, 4 and 8 bytes (Register in registers.cpp *)
(* and registers.t.hpp; the x86-64 types of the C++ code).  A byte has     *)
(* Base values: 256 in the code, fewer for TLC.  A word is its unsigned    *)
(* value; CHAR, SHORT, INT and LONG count the values of each type.         *)
(***************************************************************************)
EXTENDS Integers, Sequences

CONSTANTS
  Base,       (* values of a byte                                          *)
  INTBITS,    (* bits of an int: 32                                        *)
  LONGBITS    (* bits of a long: 64                                        *)

ASSUME WordsAssumption ==
  /\ Base \in Nat \ {0} /\ Base % 2 = 0
  /\ INTBITS \in Nat \ {0} /\ LONGBITS \in Nat \ {0}

CHAR  == Base
SHORT == CHAR * CHAR
INT   == SHORT * SHORT
LONG  == INT * INT

Byte == 0 .. Base - 1
Word == 0 .. LONG - 1

(* The weight of each byte of a word, lowest first. *)
Place == <<1, CHAR, SHORT, SHORT * CHAR, INT, INT * CHAR, INT * SHORT, INT * SHORT * CHAR>>

(* The sizes of the types, and how many values a type of n bytes has. *)
Widths == {1, 2, 4, 8}

Values(n) == CASE n = 1 -> CHAR [] n = 2 -> SHORT [] n = 4 -> INT [] n = 8 -> LONG

(* The byte of w that lies at k, lowest first. *)
ByteAt(w, k) == (w \div Place[k + 1]) % Base

(* The n bytes of w from byte at on: Register::read at an offset. *)
Field(w, at, n) == (w \div Place[at + 1]) % Values(n)

(* The number with the bytes d[0], ..., d[n - 1], lowest first. *)
Number(d, n) ==
  LET Sum[k \in 0 .. n] == IF k = 0 THEN 0 ELSE Sum[k - 1] + d[k - 1] * Place[k]
  IN  Sum[n]

(* Two's complement: x, of a type with N values, as a signed number. *)
Signed(x, N) == IF x < N \div 2 THEN x ELSE x - N

Wrapped(v, N) == Signed(v % N, N)

-----------------------------------------------------------------------------
(* class Register *)

(* read<T>, unsigned and signed. *)
Read(w, N) == w % N
ReadSigned(w, N) == Signed(w % N, N)

(* A mutant of Write: the bytes above the type are cleared. *)
WriteClearing(w, N, v) == v % N

(* Another: a negative value stored without its wrap. *)
WriteUnwrapped(w, N, v) == (w - (w % N)) + v

(* write<T>: the bytes above the type keep what they held. *)
Write(w, N, v) == (w - (w % N)) + (v % N)

-----------------------------------------------------------------------------
(* The operators of C++ on them. *)

(* A mutant of Quotient: the operands read as unsigned. *)
QuotientUnsigned(x, y) ==
  LET Abs(v) == IF v < 0 THEN - v ELSE v IN Abs(x) \div Abs(y)

(* Division truncates towards zero. *)
Quotient(x, y) ==
  LET Abs(v) == IF v < 0 THEN - v ELSE v
      q == Abs(x) \div Abs(y)
  IN  IF (x < 0) = (y < 0) THEN q ELSE - q

Remainder(x, y) == x - y * Quotient(x, y)

BitAnd[x \in Nat] ==
  [y \in Nat |-> IF x = 0 \/ y = 0 THEN 0
                ELSE (x % 2) * (y % 2) + 2 * BitAnd[x \div 2][y \div 2]]

BitOr(x, y) == (x + y) - BitAnd[x][y]

(* A mutant of BitXor: the common bits subtracted once. *)
BitXorOnce(x, y) == (x + y) - BitAnd[x][y]

BitXor(x, y) == (x + y) - 2 * BitAnd[x][y]

(* The powers of two, as a function that proofs can unfold. *)
TwoTo[n \in Nat] == IF n = 0 THEN 1 ELSE 2 * TwoTo[n - 1]

(* x86 uses the low bits of a shift count. *)
ShiftLeft(x, k, bits) == x * TwoTo[k % bits]
ShiftRight(x, k, bits) == x \div TwoTo[k % bits]

(* A mutant of Overflowing: overflow saturates. *)
Saturating(v) == {IF v >= INT \div 2 THEN INT \div 2 - 1 ELSE v}

(* An int that overflows is undefined: the compiler may compute in 32 bits *)
(* or in the 64 of the register it goes to.                                *)
Overflowing(v) == {Wrapped(v, INT), v}

(* The results op can have on the registers x and y; none, and the         *)
(* processor traps, for a quotient that does not exist or fit.             *)
Results(op, x, y) ==
  LET i == ReadSigned(x, INT)     j == ReadSigned(y, INT)
      u == Read(x, INT)           v == Read(y, INT)
      h == ReadSigned(x, SHORT)   l == ReadSigned(x, LONG)   m == ReadSigned(y, LONG)
      Divides(a, b, N) == b # 0 /\ ~ (a = - (N \div 2) /\ b = - 1)
  IN  CASE op = "ADD"    -> Overflowing(i + j)
        [] op = "SUB"    -> Overflowing(i - j)
        [] op = "MUL"    -> Overflowing(i * j)
        [] op = "MULH"   -> {h * ReadSigned(y, SHORT)}
        [] op = "MULHSU" -> {h * Read(y, SHORT)}
        [] op = "MULHU"  -> Overflowing(Read(x, SHORT) * Read(y, SHORT))
        [] op = "DIV"    -> {Quotient(i, b) : b \in {c \in {j} : Divides(i, c, INT)}}
        [] op = "DIVU"   -> {(u * v) % INT}
        [] op = "REM"    -> {Remainder(i, b) : b \in {c \in {j} : Divides(i, c, INT)}}
        [] op = "REMU"   -> {u % b : b \in {v} \ {0}}
        [] op = "AND"    -> {BitAnd[u][v]}
        [] op = "OR"     -> {BitOr(u, v)}
        [] op = "XOR"    -> {BitXor(u, v)}
        [] op = "SLL"    -> {Wrapped(ShiftLeft(i, j, INTBITS), INT)}
        [] op = "SLT"    -> {IF i < j THEN 1 ELSE 0}
        [] op = "SLTU"   -> {ShiftLeft(u, v, INTBITS) % INT}
        [] op \in {"SRL", "SRA"}   -> {ShiftRight(i, j, INTBITS)}
        [] op = "ADDW"   -> {l + m}
        [] op = "SUBW"   -> {l - m}
        [] op \in {"SLLW", "SRAW"} -> {ShiftLeft(l, m, LONGBITS)}
        [] op = "SRLW"   -> {ShiftRight(l, m, LONGBITS)}
        [] op = "MULW"   -> {l * m}
        [] op = "DIVW"   -> {Quotient(l, b) : b \in {c \in {m} : Divides(l, c, LONG)}}
        [] op = "DIVUW"  -> {x \div b : b \in {y} \ {0}}
        [] op = "REMW"   -> {Remainder(l, b) : b \in {c \in {m} : Divides(l, c, LONG)}}
        [] op = "REMUW"  -> {x % b : b \in {y} \ {0}}

(* The immediate operations, by the operation they share their body with.  *)
ByRegister ==
  [ADDI |-> "ADD", SLTI |-> "SLT", SLLI |-> "SLL", SRLI |-> "SRL", XORI |-> "XOR",
   SRAI |-> "SRA", ADDIW |-> "ADDW", SLLIW |-> "SLLW", SRLIW |-> "SRLW", SRAIW |-> "SRLW"]

(* The local register that holds an immediate: an int in a cleared word.   *)
Immediate(c) == Write(0, INT, c)

(* A mutant of Taken: BLTU compares like BLT. *)
TakenSigned(op, x, y) ==
  CASE op = "BEQ"  -> x = y
    [] op = "BNE"  -> x # y
    [] op \in {"BLT", "BLTU"} -> Signed(x, LONG) < Signed(y, LONG)
    [] op = "BGE"  -> Signed(x, LONG) >= Signed(y, LONG)
    [] op = "BGEU" -> x >= y

(* The conditions of the branches. *)
Taken(op, x, y) ==
  CASE op = "BEQ"  -> x = y
    [] op = "BNE"  -> x # y
    [] op = "BLT"  -> Signed(x, LONG) < Signed(y, LONG)
    [] op = "BGE"  -> Signed(x, LONG) >= Signed(y, LONG)
    [] op = "BLTU" -> x < y
    [] op = "BGEU" -> x >= y
=============================================================================
