-------------------------------- MODULE Laws ---------------------------------
(***************************************************************************)
(* The functions of the program that compute without keeping a state,      *)
(* against definitions that do not look at the code: the arithmetic of     *)
(* words, the packing of instructions and the splitting of texts.  The     *)
(* state is the input to look at: two words, an instruction, or a text.    *)
(***************************************************************************)
EXTENDS Instructions, Tokens, FiniteSets

CONSTANTS
  Numbers,    (* the words to compute with                                 *)
  Packings,   (* the instructions to pack                                  *)
  Characters, (* the characters of texts                                   *)
  Texts       (* the texts to split                                        *)

(* An instruction that getInstruction may be left with: the operands fit   *)
(* the fields of the layout it gives them.                                 *)
Fits(p) ==
  LET Halves == 0 .. SHORT - 1
      Bytes  == 0 .. CHAR - 1
      Ints   == - (INT \div 2) .. INT \div 2 - 1
      On(A, B, C) == p \in [op : {p.op}, a : A, b : B, c : C]
      layout == Layout(p.op)
  IN  /\ p.op \in Opcodes
      /\ \/ layout = "R" /\ p.op # "HALT" /\ On(Halves, Halves, Halves)
         \/ layout = "I" /\ p.op \notin Translated /\ On(Bytes, Bytes, Ints)
         \/ p.op \in Translated \ {"NOP"} /\ On(Bytes, Bytes, {0})
         \/ layout = "U" /\ On(Bytes, {0}, Ints)
         \/ layout = "D" /\ On(Halves, {0}, {0})
         \/ p.op \in {"NOP", "HALT"} /\ On({0}, {0}, {0})

ASSUME LawsAssumption ==
  /\ Numbers \subseteq Word
  /\ \A p \in Packings : Fits(p)
  /\ Texts \subseteq Seq(Characters)

VARIABLE sample

Pair(v, w) == [kind |-> "words", x |-> v, y |-> w]
Packing(p) == [kind |-> "instruction", i |-> p]
Splitting(t) == [kind |-> "text", text |-> t]

Init ==
  \/ \E v \in Numbers : sample = Pair(v, v)
  \/ \E op \in Opcodes : sample = Packing(Instruction(op, 0, 0, 0))
  \/ sample = Splitting(<<>>)

Next ==
  \/ /\ sample.kind = "words"
     /\ \E w \in Numbers : sample' = Pair(sample.x, w)
  \/ /\ sample.kind = "instruction" /\ sample.i = Instruction(sample.i.op, 0, 0, 0)
     /\ \E p \in Packings : p.op = sample.i.op /\ sample' = Packing(p)
  \/ /\ sample = Splitting(<<>>)
     /\ \E t \in Texts : sample' = Splitting(t)

Spec == Init /\ [][Next]_sample

x == sample.x
y == sample.y
i == sample.i
text == sample.text

OnWords == sample.kind = "words"
OnInstruction == sample.kind = "instruction"
OnText == sample.kind = "text"

-----------------------------------------------------------------------------
(* A write of n bytes to a register (Register::write) replaces its n lowest *)
(* bytes and keeps the others.                                              *)
WriteReplacesLowBytes ==
  OnWords =>
    \A n \in Widths, k \in 0 .. 7 :
      ByteAt(Write(x, Values(n), y), k) = IF k < n THEN ByteAt(y, k) ELSE ByteAt(x, k)

(* The bytes of a word, put together in their order, are the word; and the *)
(* n bytes that Register::read takes at an offset are those bytes.          *)
BytesMakeWord ==
  OnWords =>
    LET bytes == [k \in 0 .. 7 |-> ByteAt(x, k)]
    IN  /\ Number(bytes, 8) = x
        /\ \A n \in Widths, at \in 0 .. 7 :
             at + n <= 8 => Field(x, at, n) = Number([k \in 0 .. n - 1 |-> bytes[at + k]], n)

(* A register is its eight bytes, little end first: what was written by one *)
(* type and is read by another, whole or a field of an instruction, is what *)
(* lies in the bytes of both.                                               *)
RegisterIsBytes == WriteReplacesLowBytes /\ BytesMakeWord

(* DIV and REM, DIVW and REMW belong together, as RISC-V and C++ have it:  *)
(* x = q * y + r, with r smaller than y and of the sign of x.              *)
DivisionIdentity ==
  OnWords =>
    LET Abs(v) == IF v < 0 THEN - v ELSE v
        Belong(div, rem, a, b) ==
          \A q \in Results(div, x, y), r \in Results(rem, x, y) :
            a = q * b + r /\ Abs(r) < Abs(b) /\ (r = 0 \/ (r < 0) = (a < 0))
    IN  /\ Belong("DIV", "REM", ReadSigned(x, INT), ReadSigned(y, INT))
        /\ Belong("DIVW", "REMW", Signed(x, LONG), Signed(y, LONG))
        /\ Belong("DIVUW", "REMUW", x, y)

(* AND, OR and XOR act on each bit of their ints. *)
BitsRight ==
  OnWords =>
    \A k \in 0 .. INTBITS - 1 :
      LET Bit(v) == (v \div TwoTo[k]) % 2 = 1
          a == x % INT   b == y % INT
      IN  /\ \A r \in Results("AND", x, y) : Bit(r) <=> (Bit(a) /\ Bit(b))
          /\ \A r \in Results("OR", x, y)  : Bit(r) <=> (Bit(a) \/ Bit(b))
          /\ \A r \in Results("XOR", x, y) : Bit(r) <=> (Bit(a) # Bit(b))

(* ADD, SUB and MUL, although they overflow, leave the right int in the low *)
(* half of the register whatever the compiler makes of the overflow.        *)
LowHalfDetermined ==
  OnWords =>
    LET Right(op, exact) == \A r \in Results(op, x, y) : (r - exact) % INT = 0
        a == x % INT   b == y % INT
    IN  Right("ADD", a + b) /\ Right("SUB", a - b) /\ Right("MUL", a * b)

(* The branch conditions fit together: each is the negation of its          *)
(* opposite, and less, equal and greater exclude each other both with signs *)
(* and without; the two orders differ just when the signs do.               *)
BranchesFit ==
  OnWords =>
    LET T(op) == Taken(op, x, y)
        U(op) == Taken(op, y, x)
    IN  /\ T("BEQ") # T("BNE") /\ T("BLT") # T("BGE") /\ T("BLTU") # T("BGEU")
        /\ T("BNE") => T("BLT") # U("BLT") /\ T("BLTU") # U("BLTU")
        /\ T("BEQ") => ~ T("BLT") /\ ~ T("BLTU")
        /\ (T("BLT") # T("BLTU")) <=> (Signed(x, LONG) < 0) # (Signed(y, LONG) < 0)

-----------------------------------------------------------------------------
(* Instruction::getInstruction and alu::step agree on the layout of every  *)
(* operation: what step takes out of a word is what was packed into it, a  *)
(* negative immediate included.                                            *)
RoundTrip == OnInstruction /\ i.op \notin Translated => Decode(Encode(i)) = i

(* What NOP, MV, NEG and NEGW are translated to computes what they name:   *)
(* nothing, a copy and a negation of the operand (of its low half but for  *)
(* NEGW); and NOT inverts with an immediate of ones only.                  *)
TranslationsCompute ==
  OnInstruction =>
    LET j == Decode(Encode(i))
        Of(r, v) == IF r = 0 THEN 0 ELSE v
    IN  CASE i.op = "NOP" -> j.a = 0
          [] i.op = "MV" ->
               /\ j.a = i.a
               /\ \A v \in Numbers :
                    \A r \in Results(ByRegister[j.op], Of(j.b, v), Immediate(j.c)) :
                      (r - Of(i.b, v)) % INT = 0
          [] i.op \in {"NEG", "NEGW"} ->
               /\ j.a = i.a
               /\ \A v \in Numbers :
                    \A r \in Results(j.op, Of(j.b, v), Of(j.c, v)) :
                      (r + Of(i.b, v)) % (IF i.op = "NEG" THEN INT ELSE LONG) = 0
          [] i.op = "NOT" -> j = Instruction("XORI", i.a, i.b, - 1)
          [] OTHER -> TRUE

(* The debugger's readParts, which has layouts of its own, shows of every  *)
(* instruction it supports the code and the operands that alu::step will   *)
(* execute it with; the two it refuses are HALT and DEBUG.                 *)
DebuggerShowsDecoded ==
  OnInstruction =>
    LET j == Decode(Encode(i))
    IN  Parts(Encode(i)) =
          CASE j.op \in {"HALT", "DEBUG"} -> <<>>
            [] Layout(j.op) = "U" -> <<Code(j.op), j.a, j.c, - 1>>
            [] OTHER -> <<Code(j.op), j.a, j.b, j.c>>
-----------------------------------------------------------------------------
(* splitStringRemoveEmpty, which erases from the vector it iterates over,   *)
(* returns the longest runs of characters that are no delimiters, each     *)
(* once and in their order, wherever the delimiters cluster: as many tokens *)
(* as there are places where a run starts, and the run that starts there   *)
(* as its place among them says.                                           *)
TokensAreRuns ==
  OnText =>
    \A D \in SUBSET Characters :
      LET Breaks(k) == k \notin DOMAIN text \/ text[k] \in D
          starts == {k \in DOMAIN text : Breaks(k - 1) /\ ~ Breaks(k)}
          End(k) == CHOOSE e \in k .. Len(text) : Breaks(e + 1) /\ \A j \in k .. e : ~ Breaks(j)
          tokens == SplitStringRemoveEmpty(text, D)
      IN  /\ Len(tokens) = Cardinality(starts)
          /\ \A k \in starts :
               tokens[Cardinality({j \in starts : j <= k})] = SubSeq(text, k, End(k))
=============================================================================
