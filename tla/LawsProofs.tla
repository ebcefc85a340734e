----------------------------- MODULE LawsProofs -----------------------------
(***************************************************************************)
(* The laws of Laws, for every two words and every instruction whose       *)
(* operands fit, with bytes of any size: each follows from facts about the *)
(* operators and from the invariant that the sample is one of those.       *)
(***************************************************************************)
EXTENDS Laws, InstructionProofs, FiniteSetTheorems

(* The input to look at is one that the constants allow.                   *)
Sampled ==
  \/ \E v, w \in Word : sample = Pair(v, w)
  \/ \E p : Fits(p) /\ sample = Packing(p)
  \/ \E t \in Seq(Characters) : sample = Splitting(t)

(* Every operation may be packed without operands. *)
LEMMA BareFits ==
  ASSUME NEW op \in Opcodes
  PROVE  Fits(Instruction(op, 0, 0, 0))
<1> DEFINE p == Instruction(op, 0, 0, 0)
<1>1. p.op = op /\ p = [op |-> op, a |-> 0, b |-> 0, c |-> 0]
  BY DEF Instruction
<1>2. 0 \in 0 .. SHORT - 1 /\ 0 \in 0 .. CHAR - 1 /\ 0 \in - (INT \div 2) .. INT \div 2 - 1 /\ 0 \in {0}
  BY Sizes, Evens
<1>3. \A A, B, C : 0 \in A /\ 0 \in B /\ 0 \in C => p \in [op : {p.op}, a : A, b : B, c : C]
  BY <1>1
<1> DEFINE Halves == 0 .. SHORT - 1
           Bytes  == 0 .. CHAR - 1
           Ints   == - (INT \div 2) .. INT \div 2 - 1
           On(A, B, C) == p \in [op : {p.op}, a : A, b : B, c : C]
<1>4. /\ On(Halves, Halves, Halves) /\ On(Bytes, Bytes, Ints) /\ On(Bytes, Bytes, {0})
      /\ On(Bytes, {0}, Ints) /\ On(Halves, {0}, {0}) /\ On({0}, {0}, {0})
  BY <1>2, <1>3
<1>5. Layout(op) \in {"R", "I", "U", "D"}
  BY Layouts
<1>6. Fits(p) <=> /\ p.op \in Opcodes
                  /\ \/ Layout(p.op) = "R" /\ p.op # "HALT" /\ On(Halves, Halves, Halves)
                     \/ Layout(p.op) = "I" /\ p.op \notin Translated /\ On(Bytes, Bytes, Ints)
                     \/ p.op \in Translated \ {"NOP"} /\ On(Bytes, Bytes, {0})
                     \/ Layout(p.op) = "U" /\ On(Bytes, {0}, Ints)
                     \/ Layout(p.op) = "D" /\ On(Halves, {0}, {0})
                     \/ p.op \in {"NOP", "HALT"} /\ On({0}, {0}, {0})
  BY DEF Fits
<1>7. p.op = op
  BY <1>1
<1> HIDE DEF p, On, Halves, Bytes, Ints
<1>8. Fits(p)
  BY <1>4, <1>5, <1>6, <1>7
<1> QED
  BY <1>8 DEF p

(* The input that is looked at is always one that the functions are defined *)
(* for: words of a register, an instruction whose operands fit its layout, *)
(* a text.                                                                 *)
THEOREM AlwaysSampled == Spec => []Sampled
<1>1. Init => Sampled
  <2>1. CASE \E v \in Numbers : sample = Pair(v, v)
    BY <2>1, LawsAssumption DEF Sampled
  <2>2. CASE \E op \in Opcodes : sample = Packing(Instruction(op, 0, 0, 0))
    BY <2>2, BareFits DEF Sampled
  <2>3. CASE sample = Splitting(<<>>)
    <3>1. <<>> \in Seq(Characters)
      OBVIOUS
    <3> QED
      BY <2>3, <3>1 DEF Sampled
  <2> QED
    BY <2>1, <2>2, <2>3 DEF Init
<1>2. Sampled /\ [Next]_sample => Sampled'
  <2> SUFFICES ASSUME Sampled, [Next]_sample PROVE Sampled'
    OBVIOUS
  <2>1. CASE UNCHANGED sample
    BY <2>1 DEF Sampled
  <2>2. CASE sample.kind = "words" /\ \E w \in Numbers : sample' = Pair(sample.x, w)
    <3>1. sample.x \in Word
      BY <2>2 DEF Sampled, Pair, Packing, Splitting
    <3> QED
      BY <2>2, <3>1, LawsAssumption DEF Sampled
  <2>3. CASE \E p \in Packings : p.op = sample.i.op /\ sample' = Packing(p)
    BY <2>3, LawsAssumption DEF Sampled
  <2>4. CASE \E t \in Texts : sample' = Splitting(t)
    BY <2>4, LawsAssumption DEF Sampled
  <2> QED
    BY <2>1, <2>2, <2>3, <2>4 DEF Next
<1> QED
  BY <1>1, <1>2, PTL DEF Spec

(* What a sample of each kind holds. *)
LEMMA SampleOf ==
  ASSUME Sampled
  PROVE  /\ OnWords => x \in Word /\ y \in Word
         /\ OnInstruction => Fits(i)
<1>1. CASE \E v, w \in Word : sample = Pair(v, w)
  BY <1>1 DEF OnWords, OnInstruction, x, y, Pair
<1>2. CASE \E p : Fits(p) /\ sample = Packing(p)
  BY <1>2 DEF OnWords, OnInstruction, i, Packing
<1>3. CASE \E t \in Seq(Characters) : sample = Splitting(t)
  BY <1>3 DEF OnWords, OnInstruction, Splitting
<1> QED
  BY <1>1, <1>2, <1>3 DEF Sampled

(* A write replaces the bytes of its type and no others, in any word.      *)
THEOREM WritesReplaceLowBytes == Spec => []WriteReplacesLowBytes
<1>1. Sampled => WriteReplacesLowBytes
  <2> SUFFICES ASSUME Sampled, OnWords, NEW n \in Widths, NEW k \in 0 .. 7
               PROVE  ByteAt(Write(x, Values(n), y), k) = IF k < n THEN ByteAt(y, k) ELSE ByteAt(x, k)
    BY DEF WriteReplacesLowBytes
  <2>1. x \in Int /\ y \in Int
    BY SampleOf, WordParts
  <2> QED
    BY <2>1, WriteReplacesBytes
<1> QED
  BY <1>1, AlwaysSampled, PTL

(* Every word is the number its bytes make, and every field of it too.     *)
THEOREM BytesMakeWords == Spec => []BytesMakeWord
<1>1. Sampled => BytesMakeWord
  <2> SUFFICES ASSUME Sampled, OnWords PROVE BytesMakeWord
    BY DEF BytesMakeWord
  <2>1. x \in Word /\ x \in Int /\ x % LONG = x
    BY SampleOf, WordParts
  <2> DEFINE bytes == [k \in 0 .. 7 |-> ByteAt(x, k)]
  <2>2. Number(bytes, 8) = x
    <3>1. \A k \in 0 .. 8 - 1 : bytes[k] = ByteAt(x, k)
      OBVIOUS
    <3>2. Number(bytes, 8) = x % Weight(8)
      BY <2>1, <3>1, LowDigits
    <3> QED
      BY <2>1, <3>2 DEF Weight
  <2>3. ASSUME NEW n \in Widths, NEW at \in 0 .. 7, at + n <= 8
        PROVE  Field(x, at, n) = Number([k \in 0 .. n - 1 |-> bytes[at + k]], n)
    <3> DEFINE d == [k \in 0 .. n - 1 |-> bytes[at + k]]
    <3>1. \A k \in 0 .. n - 1 : at + k \in 0 .. 7
      BY <2>3 DEF Widths
    <3>2. \A k \in 0 .. n - 1 : d[k] = ByteAt(x, at + k)
      BY <3>1
    <3> QED
      BY <2>1, <2>3, <3>2, FieldDigits
  <2> QED
    BY <2>2, <2>3 DEF BytesMakeWord
<1> QED
  BY <1>1, AlwaysSampled, PTL

(* What is written by one type is read by another from the same bytes, in  *)
(* any register.                                                           *)
THEOREM RegistersAreBytes == Spec => []RegisterIsBytes
  BY WritesReplaceLowBytes, BytesMakeWords, PTL DEF RegisterIsBytes

(* Each quotient belongs to its remainder.                                 *)
THEOREM QuotientsFitRemainders == Spec => []DivisionIdentity
<1>1. Sampled => DivisionIdentity
  <2> SUFFICES ASSUME Sampled, OnWords PROVE DivisionIdentity
    BY DEF DivisionIdentity
  <2>1. x \in Word /\ y \in Word /\ x \in Int /\ y \in Int /\ x >= 0 /\ y >= 0
    BY SampleOf, WordParts
  <2> DEFINE Abs(v) == IF v < 0 THEN - v ELSE v
             Belongs(q, r, a, b) == a = q * b + r /\ Abs(r) < Abs(b) /\ (r = 0 \/ (r < 0) = (a < 0))
  <2>2. ASSUME NEW a \in Int, NEW b \in Int, b # 0
        PROVE  Belongs(Quotient(a, b), Remainder(a, b), a, b)
    BY <2>2, QuotientLaw DEF AbsoluteOf
  <2>3. ASSUME NEW q \in Results("DIV", x, y), NEW r \in Results("REM", x, y)
        PROVE  Belongs(q, r, ReadSigned(x, INT), ReadSigned(y, INT))
    <3>1. ReadSigned(x, INT) \in Int /\ ReadSigned(y, INT) \in Int
      BY <2>1, ReadTypes
    <3>2. /\ ReadSigned(y, INT) # 0
          /\ q = Quotient(ReadSigned(x, INT), ReadSigned(y, INT))
          /\ r = Remainder(ReadSigned(x, INT), ReadSigned(y, INT))
      BY <2>3 DEF Results
    <3> QED
      BY <2>2, <3>1, <3>2
  <2>4. ASSUME NEW q \in Results("DIVW", x, y), NEW r \in Results("REMW", x, y)
        PROVE  Belongs(q, r, Signed(x, LONG), Signed(y, LONG))
    <3>1. ReadSigned(x, LONG) = Signed(x, LONG) /\ ReadSigned(y, LONG) = Signed(y, LONG)
      BY <2>1, WordParts DEF ReadSigned
    <3>2. ReadSigned(x, LONG) \in Int /\ ReadSigned(y, LONG) \in Int
      BY <2>1, ReadTypes
    <3>3. /\ ReadSigned(y, LONG) # 0
          /\ q = Quotient(ReadSigned(x, LONG), ReadSigned(y, LONG))
          /\ r = Remainder(ReadSigned(x, LONG), ReadSigned(y, LONG))
      BY <2>4 DEF Results
    <3> QED
      BY <2>2, <3>1, <3>2, <3>3
  <2>5. ASSUME NEW q \in Results("DIVUW", x, y), NEW r \in Results("REMUW", x, y)
        PROVE  Belongs(q, r, x, y)
    <3>1. y # 0 /\ q = x \div y /\ r = x % y
      BY <2>5 DEF Results
    <3>2. q \in Int /\ r \in 0 .. y - 1 /\ x = y * q + r
      BY <2>1, <3>1, DivMod
    <3>3. y * q = q * y
      BY <2>1, <3>2
    <3> QED
      BY <2>1, <3>2, <3>3
  <2> QED
    BY <2>3, <2>4, <2>5 DEF DivisionIdentity
<1> QED
  BY <1>1, AlwaysSampled, PTL

(* Every bit of AND, OR and XOR is what the operands' bits make it.        *)
THEOREM BitsAlwaysRight == Spec => []BitsRight
<1>1. Sampled => BitsRight
  <2> SUFFICES ASSUME Sampled, OnWords, NEW k \in 0 .. INTBITS - 1
               PROVE  LET Has(v) == (v \div TwoTo[k]) % 2 = 1
                          a == x % INT   b == y % INT
                      IN  /\ \A r \in Results("AND", x, y) : Has(r) <=> (Has(a) /\ Has(b))
                          /\ \A r \in Results("OR", x, y)  : Has(r) <=> (Has(a) \/ Has(b))
                          /\ \A r \in Results("XOR", x, y) : Has(r) <=> (Has(a) # Has(b))
    BY DEF BitsRight
  <2>1. x % INT \in Nat /\ y % INT \in Nat
    BY SampleOf, ReadTypes DEF Read
  <2>2. k \in Nat
    BY WordsAssumption
  <2>3. AllBits(k, x % INT, y % INT)
    BY <2>1, <2>2, BitsOfResults
  <2>4. /\ Results("AND", x, y) = {BitAnd[x % INT][y % INT]}
        /\ Results("OR", x, y) = {BitOr(x % INT, y % INT)}
        /\ Results("XOR", x, y) = {BitXor(x % INT, y % INT)}
    BY DEF Results, Read
  <2> QED
    BY <2>3, <2>4 DEF AllBits, Bit
<1> QED
  BY <1>1, AlwaysSampled, PTL

(* The low half of ADD, SUB and MUL does not depend on the overflow.       *)
THEOREM LowHalvesDetermined == Spec => []LowHalfDetermined
<1>1. Sampled => LowHalfDetermined
  BY SampleOf, LowHalf DEF LowHalfDetermined
<1> QED
  BY <1>1, AlwaysSampled, PTL

(* The conditions of the branches fit together, for every two words.       *)
THEOREM BranchesAlwaysFit == Spec => []BranchesFit
<1>1. Sampled => BranchesFit
  <2> SUFFICES ASSUME Sampled, OnWords PROVE BranchesFit
    BY DEF BranchesFit
  <2> DEFINE p == Signed(x, LONG)   q == Signed(y, LONG)   H == LONG \div 2
  <2>1. x \in Int /\ y \in Int /\ x >= 0 /\ y >= 0 /\ x < LONG /\ y < LONG
    BY SampleOf, WordParts
  <2>2. H \in Int /\ LONG = 2 * H
    BY Evens
  <2>3. p = (IF x < H THEN x ELSE x - LONG) /\ q = (IF y < H THEN y ELSE y - LONG)
    BY DEF Signed
  <2>4. /\ Taken("BEQ", x, y) = (x = y) /\ Taken("BNE", x, y) = (x # y)
        /\ Taken("BLT", x, y) = (p < q) /\ Taken("BLT", y, x) = (q < p)
        /\ Taken("BGE", x, y) = (p >= q)
        /\ Taken("BLTU", x, y) = (x < y) /\ Taken("BLTU", y, x) = (y < x)
        /\ Taken("BGEU", x, y) = (x >= y)
    BY DEF Taken
  <2> HIDE DEF p, q, H
  <2>5. /\ (x = y) # (x # y) /\ (p < q) # (p >= q) /\ (x < y) # (x >= y)
        /\ x # y => (p < q) # (q < p) /\ (x < y) # (y < x)
        /\ x = y => ~ (p < q) /\ ~ (x < y)
        /\ ((p < q) # (x < y)) <=> ((p < 0) # (q < 0))
    BY <2>1, <2>2, <2>3
  <2> QED
    BY <2>4, <2>5 DEF BranchesFit, p, q
<1> QED
  BY <1>1, AlwaysSampled, PTL

(* What an instruction that fits is.                                       *)
LEMMA FitsParts ==
  ASSUME NEW p, Fits(p)
  PROVE  /\ p.op \in Opcodes /\ p = Instruction(p.op, p.a, p.b, p.c)
         /\ p.op \notin Translated \cup {"HALT"} =>
              \/ /\ Layout(p.op) = "R" /\ p.a \in 0 .. SHORT - 1 /\ p.b \in 0 .. SHORT - 1
                 /\ p.c \in 0 .. SHORT - 1
              \/ /\ Layout(p.op) = "I" /\ p.a \in 0 .. CHAR - 1 /\ p.b \in 0 .. CHAR - 1
                 /\ p.c \in - (INT \div 2) .. INT \div 2 - 1
              \/ /\ Layout(p.op) = "U" /\ p.a \in 0 .. CHAR - 1 /\ p.b = 0
                 /\ p.c \in - (INT \div 2) .. INT \div 2 - 1
              \/ Layout(p.op) = "D" /\ p.a \in 0 .. SHORT - 1 /\ p.b = 0 /\ p.c = 0
         /\ p.op \in Translated \ {"NOP"} => p.a \in 0 .. CHAR - 1 /\ p.b \in 0 .. CHAR - 1 /\ p.c = 0
         /\ p.op = "HALT" => p.a = 0 /\ p.b = 0 /\ p.c = 0
<1>1. ASSUME NEW A, NEW B, NEW C, p \in [op : {p.op}, a : A, b : B, c : C]
      PROVE  p.a \in A /\ p.b \in B /\ p.c \in C /\ p = Instruction(p.op, p.a, p.b, p.c)
  BY <1>1 DEF Instruction
<1>2. p.op \in Opcodes /\ p = Instruction(p.op, p.a, p.b, p.c)
  BY <1>1 DEF Fits
<1>3. "HALT" \notin Translated /\ "NOP" \in Translated
  BY Groups
<1>4. ASSUME p.op \in Translated \ {"NOP"} PROVE p.a \in 0 .. CHAR - 1 /\ p.b \in 0 .. CHAR - 1 /\ p.c = 0
  <2>1. Layout(p.op) = "I"
    BY <1>4, Groups DEF Layout
  <2> QED
    BY <1>1, <1>3, <1>4, <2>1 DEF Fits
<1>5. ASSUME p.op = "HALT" PROVE p.a = 0 /\ p.b = 0 /\ p.c = 0
  <2>1. Layout(p.op) = "R"
    BY <1>5, Groups DEF Layout
  <2> QED
    BY <1>1, <1>3, <1>5, <2>1 DEF Fits
<1>6. ASSUME p.op \notin Translated \cup {"HALT"}
      PROVE  \/ /\ Layout(p.op) = "R" /\ p.a \in 0 .. SHORT - 1 /\ p.b \in 0 .. SHORT - 1
                /\ p.c \in 0 .. SHORT - 1
             \/ /\ Layout(p.op) = "I" /\ p.a \in 0 .. CHAR - 1 /\ p.b \in 0 .. CHAR - 1
                /\ p.c \in - (INT \div 2) .. INT \div 2 - 1
             \/ /\ Layout(p.op) = "U" /\ p.a \in 0 .. CHAR - 1 /\ p.b = 0
                /\ p.c \in - (INT \div 2) .. INT \div 2 - 1
             \/ Layout(p.op) = "D" /\ p.a \in 0 .. SHORT - 1 /\ p.b = 0 /\ p.c = 0
  BY <1>1, <1>3, <1>6 DEF Fits
<1> QED
  BY <1>2, <1>4, <1>5, <1>6

(* What is packed is what was to be packed, or its translation.            *)
LEMMA EncodedAs ==
  ASSUME NEW p, Fits(p)
  PROVE  CASE p.op = "NOP"  -> PackedAs(Encode(p), "ADD", Instruction("ADD", 0, 0, 0))
           [] p.op = "MV"   -> PackedAs(Encode(p), "ADDI", Instruction("ADDI", p.a, p.b, 0))
           [] p.op = "NOT"  -> PackedAs(Encode(p), "XORI", Instruction("XORI", p.a, p.b, - 1))
           [] p.op = "NEG"  -> PackedAs(Encode(p), "SUB", Instruction("SUB", p.a, 0, p.b))
           [] p.op = "NEGW" -> PackedAs(Encode(p), "SUBW", Instruction("SUBW", p.a, 0, p.b))
           [] OTHER         -> PackedAs(Encode(p), p.op, p)
<1>1. /\ {"ADD", "ADDI", "XORI", "SUB", "SUBW"} \subseteq Opcodes
      /\ \A op \in {"ADD", "SUB", "SUBW", "HALT"} : Layout(op) = "R"
      /\ Layout("ADDI") = "I" /\ Layout("XORI") = "I"
  <2>1. /\ Operations[1] = "ADD" /\ Operations[2] = "SUB" /\ Operations[20] = "SUBW"
        /\ Operations[29] = "ADDI" /\ Operations[33] = "XORI"
    BY DEF Operations
  <2>2. {"ADD", "ADDI", "XORI", "SUB", "SUBW"} \subseteq Opcodes
    BY <2>1, CodeOf
  <2>3. \A op \in {"ADD", "SUB", "SUBW", "HALT"} : Layout(op) = "R"
    BY Groups DEF Layout
  <2>4. Layout("ADDI") = "I" /\ Layout("XORI") = "I"
    BY Groups DEF Layout
  <2> QED
    BY <2>2, <2>3, <2>4
<1>2. /\ 0 \in 0 .. SHORT - 1 /\ 0 \in - (INT \div 2) .. INT \div 2 - 1
      /\ - 1 \in - (INT \div 2) .. INT \div 2 - 1
  BY Sizes, Evens
<1>3. \A d \in 0 .. CHAR - 1 : d \in 0 .. SHORT - 1
  BY FieldWeights, Sizes
<1>4. Translated = {"NOP", "MV", "NOT", "NEG", "NEGW"}
  BY Groups
<1>5. CASE p.op = "NOP"
  <2>1. Encode(p) = Packed("ADD", "R", 0, 0, 0)
    BY <1>5 DEF Encode
  <2> QED
    BY <1>1, <1>2, <1>5, <2>1, PackedR
<1>6. CASE p.op \in {"MV", "NOT"}
  <2>1. p.a \in 0 .. CHAR - 1 /\ p.b \in 0 .. CHAR - 1
    BY <1>4, <1>6, FitsParts
  <2>2. Encode(p) = IF p.op = "MV" THEN Packed("ADDI", "I", p.a, p.b, 0)
                                   ELSE Packed("XORI", "I", p.a, p.b, - 1)
    BY <1>6 DEF Encode
  <2> QED
    BY <1>1, <1>2, <1>6, <2>1, <2>2, PackedI
<1>7. CASE p.op \in {"NEG", "NEGW"}
  <2>1. p.a \in 0 .. SHORT - 1 /\ p.b \in 0 .. SHORT - 1
    BY <1>3, <1>4, <1>7, FitsParts
  <2>2. Encode(p) = IF p.op = "NEG" THEN Packed("SUB", "R", p.a, 0, p.b)
                                    ELSE Packed("SUBW", "R", p.a, 0, p.b)
    BY <1>7 DEF Encode
  <2> QED
    BY <1>1, <1>2, <1>7, <2>1, <2>2, PackedR
<1>8. CASE p.op = "HALT"
  <2>1. Encode(p) = Packed("HALT", "R", 0, 0, 0) /\ p = Instruction("HALT", 0, 0, 0) /\ p.op \in Opcodes
    BY <1>8, FitsParts DEF Encode
  <2> QED
    BY <1>1, <1>2, <1>8, <2>1, PackedR
<1>9. CASE p.op \notin Translated \cup {"HALT"}
  <2> DEFINE a == p.a   b == p.b   c == p.c   op == p.op
  <2>1. op \in Opcodes /\ p = Instruction(op, a, b, c)
    BY FitsParts
  <2>2. Encode(p) = Packed(op, Layout(op), a, b, c)
    BY <1>4, <1>9 DEF Encode
  <2>3. /\ op \notin {"NOP", "MV", "NOT", "NEG", "NEGW"}
        /\ \/ /\ Layout(op) = "R" /\ a \in 0 .. SHORT - 1 /\ b \in 0 .. SHORT - 1
              /\ c \in 0 .. SHORT - 1
           \/ /\ Layout(op) = "I" /\ a \in 0 .. CHAR - 1 /\ b \in 0 .. CHAR - 1
              /\ c \in - (INT \div 2) .. INT \div 2 - 1
           \/ /\ Layout(op) = "U" /\ a \in 0 .. CHAR - 1 /\ b = 0
              /\ c \in - (INT \div 2) .. INT \div 2 - 1
           \/ Layout(op) = "D" /\ a \in 0 .. SHORT - 1 /\ b = 0 /\ c = 0
    BY <1>4, <1>9, FitsParts
  <2> HIDE DEF a, b, c
  <2>4. PackedAs(Encode(p), op, p)
    <3> HIDE DEF op
    <3>1. CASE Layout(op) = "R"
      BY <2>1, <2>2, <2>3, <3>1, PackedR
    <3>2. CASE Layout(op) = "I"
      BY <2>1, <2>2, <2>3, <3>2, PackedI
    <3>3. CASE Layout(op) = "U"
      BY <2>1, <2>2, <2>3, <3>3, PackedU
    <3>4. CASE Layout(op) = "D"
      BY <2>1, <2>2, <2>3, <3>4, PackedD
    <3> QED
      BY <2>3, <3>1, <3>2, <3>3, <3>4
  <2> QED
    BY <2>3, <2>4
<1> QED
  BY <1>4, <1>5, <1>6, <1>7, <1>8, <1>9

(* Unpacking undoes packing, for every instruction that fits.              *)
THEOREM PackingRoundTrips == Spec => []RoundTrip
<1>1. Sampled => RoundTrip
  <2> SUFFICES ASSUME Sampled, OnInstruction, i.op \notin Translated PROVE Decode(Encode(i)) = i
    BY DEF RoundTrip
  <2>1. Fits(i) /\ i.op \notin {"NOP", "MV", "NOT", "NEG", "NEGW"}
    BY SampleOf, Groups
  <2>2. PackedAs(Encode(i), i.op, i)
    BY <2>1, EncodedAs
  <2> QED
    BY <2>2 DEF PackedAs
<1> QED
  BY <1>1, AlwaysSampled, PTL

(* The debugger shows the operands that are executed.                      *)
THEOREM DebuggerAlwaysShows == Spec => []DebuggerShowsDecoded
<1>1. Sampled => DebuggerShowsDecoded
  <2> SUFFICES ASSUME Sampled, OnInstruction PROVE DebuggerShowsDecoded
    BY DEF DebuggerShowsDecoded
  <2>1. PICK op \in Opcodes : op \notin Translated /\ \E p : PackedAs(Encode(i), op, p)
    <3>1. Fits(i) /\ i.op \in Opcodes
      BY SampleOf, FitsParts
    <3>2. Translated = {"NOP", "MV", "NOT", "NEG", "NEGW"}
      BY Groups
    <3>3. {"ADD", "ADDI", "XORI", "SUB", "SUBW"} \subseteq Opcodes
      <4>1. /\ Operations[1] = "ADD" /\ Operations[2] = "SUB" /\ Operations[20] = "SUBW"
            /\ Operations[29] = "ADDI" /\ Operations[33] = "XORI"
        BY DEF Operations
      <4> QED
        BY <4>1, CodeOf
    <3>4. \/ PackedAs(Encode(i), "ADD", Instruction("ADD", 0, 0, 0))
          \/ PackedAs(Encode(i), "ADDI", Instruction("ADDI", i.a, i.b, 0))
          \/ PackedAs(Encode(i), "XORI", Instruction("XORI", i.a, i.b, - 1))
          \/ PackedAs(Encode(i), "SUB", Instruction("SUB", i.a, 0, i.b))
          \/ PackedAs(Encode(i), "SUBW", Instruction("SUBW", i.a, 0, i.b))
          \/ i.op \notin Translated /\ PackedAs(Encode(i), i.op, i)
      BY <3>1, <3>2, EncodedAs
    <3> QED
      BY <3>1, <3>2, <3>3, <3>4
  <2> PICK p : PackedAs(Encode(i), op, p)
    BY <2>1
  <2>2. /\ p.op = op
        /\ Parts(Encode(i)) = CASE op \in {"HALT", "DEBUG"} -> <<>>
                                [] Layout(op) = "U" -> <<Code(op), p.a, p.c, - 1>>
                                [] OTHER -> <<Code(op), p.a, p.b, p.c>>
    BY <2>1, PartsShow
  <2>3. Decode(Encode(i)) = p
    BY <2>1 DEF PackedAs
  <2> QED
    BY <2>2, <2>3 DEF DebuggerShowsDecoded
<1> QED
  BY <1>1, AlwaysSampled, PTL

(* What ADD, SUB and SUBW make of whole words, up to the size of the type. *)
LEMMA WholeResults ==
  ASSUME NEW v \in Word, NEW w \in Word
  PROVE  /\ \A r \in Results("ADD", v, w) : (r - (v + w)) % INT = 0 /\ r \in Int
         /\ \A r \in Results("SUB", v, w) : (r - (v - w)) % INT = 0 /\ r \in Int
         /\ \A r \in Results("SUBW", v, w) : (r - (v - w)) % LONG = 0 /\ r \in Int
<1>1. v \in Int /\ w \in Int /\ INT \in Int /\ INT > 0 /\ LONG \in Int /\ LONG > 0
  BY Sizes, WordParts
<1>2. ASSUME NEW N \in {INT, LONG}
      PROVE  /\ ReadSigned(v, N) \in Int /\ Congruent(ReadSigned(v, N), v, N)
             /\ ReadSigned(w, N) \in Int /\ Congruent(ReadSigned(w, N), w, N)
  <2>1. N \in {CHAR, SHORT, INT, LONG}
    OBVIOUS
  <2>2. ReadSigned(v, N) = Wrapped(v, N) /\ ReadSigned(w, N) = Wrapped(w, N)
    BY DEF ReadSigned, Wrapped
  <2> QED
    BY <1>1, <2>1, <2>2, ReadTypes, ReadCongruent
<1>3. ASSUME NEW N \in {INT, LONG}
      PROVE  /\ Congruent(ReadSigned(v, N) + ReadSigned(w, N), v + w, N)
             /\ Congruent(ReadSigned(v, N) - ReadSigned(w, N), v - w, N)
  BY <1>1, <1>2, CongruentResults
<1>4. ASSUME NEW s \in Int, NEW t \in Int, Congruent(s, t, INT), NEW r \in Overflowing(s)
      PROVE  (r - t) % INT = 0 /\ r \in Int
  <2>1. r \in Int /\ Congruent(r, s, INT)
    BY <1>4, OverflowingCongruent
  <2>2. Congruent(r, t, INT)
    BY <1>1, <1>4, <2>1, CongruentChain
  <2> QED
    BY <1>1, <2>1, <2>2, CongruentMod
<1> DEFINE p == ReadSigned(v, INT)   q == ReadSigned(w, INT)
           l == ReadSigned(v, LONG)   m == ReadSigned(w, LONG)
<1>5. /\ Results("ADD", v, w) = Overflowing(p + q)
      /\ Results("SUB", v, w) = Overflowing(p - q)
      /\ Results("SUBW", v, w) = {l - m}
  BY DEF Results
<1>6. /\ p + q \in Int /\ p - q \in Int /\ l - m \in Int /\ v + w \in Int /\ v - w \in Int
      /\ Congruent(p + q, v + w, INT) /\ Congruent(p - q, v - w, INT)
      /\ Congruent(l - m, v - w, LONG)
  BY <1>1, <1>2, <1>3
<1> HIDE DEF p, q, l, m
<1>7. ((l - m) - (v - w)) % LONG = 0
  BY <1>1, <1>6, CongruentMod
<1>8. \A r \in Results("ADD", v, w) : (r - (v + w)) % INT = 0 /\ r \in Int
  BY <1>4, <1>5, <1>6
<1>9. \A r \in Results("SUB", v, w) : (r - (v - w)) % INT = 0 /\ r \in Int
  BY <1>4, <1>5, <1>6
<1>10. \A r \in Results("SUBW", v, w) : (r - (v - w)) % LONG = 0 /\ r \in Int
  BY <1>5, <1>6, <1>7
<1> QED
  BY <1>8, <1>9, <1>10

(* What is translated computes what it names, whatever word it is given.   *)
THEOREM TranslationsAlwaysCompute == Spec => []TranslationsCompute
<1>1. Sampled => TranslationsCompute
  <2> SUFFICES ASSUME Sampled, OnInstruction PROVE TranslationsCompute
    BY DEF TranslationsCompute
  <2> DEFINE j == Decode(Encode(i))
             Of(r, v) == IF r = 0 THEN 0 ELSE v
  <2>1. Fits(i)
    BY SampleOf
  <2>2. 0 \in Word /\ Immediate(0) = 0 /\ INT \in Int /\ LONG \in Int
    <3>1. INT \in Int /\ INT > 0 /\ LONG \in Int /\ 0 \in Word
      BY Sizes DEF Word
    <3>2. 0 % INT = 0
      BY <3>1, DigitMod
    <3> QED
      BY <3>1, <3>2 DEF Immediate, Write
  <2>3. \A r, v : v \in Numbers => Of(r, v) \in Word /\ Of(r, v) \in Int
    BY <2>2, LawsAssumption, WordParts
  <2>4. CASE i.op = "NOP"
    <3>1. j.a = 0
      BY <2>1, <2>4, EncodedAs DEF PackedAs, Instruction
    <3> QED
      BY <2>4, <3>1 DEF TranslationsCompute
  <2>5. CASE i.op = "MV"
    <3>1. j.op = "ADDI" /\ j.a = i.a /\ j.b = i.b /\ j.c = 0
      BY <2>1, <2>5, EncodedAs DEF PackedAs, Instruction
    <3>2. ByRegister["ADDI"] = "ADD"
      BY DEF ByRegister
    <3>3. ASSUME NEW v \in Numbers, NEW r \in Results("ADD", Of(i.b, v), 0)
          PROVE  (r - Of(i.b, v)) % INT = 0
      <4> DEFINE w == Of(i.b, v)
      <4>1. w \in Word /\ w \in Int
        BY <2>3
      <4> HIDE DEF w
      <4>2. (r - (w + 0)) % INT = 0
        BY <2>2, <3>3, <4>1, WholeResults DEF w
      <4>3. w + 0 = w
        BY <4>1
      <4> QED
        BY <4>2, <4>3 DEF w
    <3> HIDE DEF j, Of
    <3>4. /\ j.a = i.a
          /\ \A v \in Numbers :
               \A r \in Results(ByRegister[j.op], Of(j.b, v), Immediate(j.c)) :
                 (r - Of(i.b, v)) % INT = 0
      BY <2>2, <3>1, <3>2, <3>3
    <3> QED
      BY <2>5, <3>4 DEF TranslationsCompute, j, Of
  <2>6. CASE i.op \in {"NEG", "NEGW"}
    <3>1. /\ j.op = (IF i.op = "NEG" THEN "SUB" ELSE "SUBW")
          /\ j.a = i.a /\ j.b = 0 /\ j.c = i.b
      BY <2>1, <2>6, EncodedAs DEF PackedAs, Instruction
    <3>2. ASSUME NEW v \in Numbers, NEW r \in Results(j.op, 0, Of(i.b, v))
          PROVE  (r + Of(i.b, v)) % (IF i.op = "NEG" THEN INT ELSE LONG) = 0
      <4> DEFINE w == Of(i.b, v)
      <4>1. w \in Word /\ w \in Int
        BY <2>3
      <4> HIDE DEF w, j
      <4>2. r \in Int /\ (r - (0 - w)) % (IF i.op = "NEG" THEN INT ELSE LONG) = 0
        <5>1. CASE i.op = "NEG"
          BY <2>2, <3>1, <3>2, <4>1, <5>1, WholeResults DEF w
        <5>2. CASE i.op = "NEGW"
          BY <2>2, <3>1, <3>2, <4>1, <5>2, WholeResults DEF w
        <5> QED
          BY <2>6, <5>1, <5>2
      <4>3. r - (0 - w) = r + w
        BY <4>1, <4>2
      <4> QED
        BY <4>2, <4>3 DEF w
    <3>3. Of(0, 0) = 0 /\ \A v : Of(j.b, v) = 0
      BY <3>1
    <3> HIDE DEF j, Of
    <3>4. /\ j.a = i.a
          /\ \A v \in Numbers :
               \A r \in Results(j.op, Of(j.b, v), Of(j.c, v)) :
                 (r + Of(i.b, v)) % (IF i.op = "NEG" THEN INT ELSE LONG) = 0
      BY <3>1, <3>2, <3>3
    <3> QED
      BY <2>6, <3>4 DEF TranslationsCompute, j, Of
  <2>7. CASE i.op = "NOT"
    <3>1. j = Instruction("XORI", i.a, i.b, - 1)
      BY <2>1, <2>7, EncodedAs DEF PackedAs
    <3> QED
      BY <2>7, <3>1 DEF TranslationsCompute
  <2>8. CASE i.op \notin {"NOP", "MV", "NOT", "NEG", "NEGW"}
    BY <2>8 DEF TranslationsCompute
  <2> QED
    BY <2>4, <2>5, <2>6, <2>7, <2>8
<1> QED
  BY <1>1, AlwaysSampled, PTL
-----------------------------------------------------------------------------
(* Counting. *)

(* How many members of S are n at most. *)
UpTo(S, n) == Cardinality({j \in S : j <= n})

(* It grows by one at each of them. *)
LEMMA UpToNext ==
  ASSUME NEW S, \A j \in S : j \in Nat /\ j # 0, NEW n \in Nat
  PROVE  /\ UpTo(S, n) \in Nat /\ UpTo(S, 0) = 0
         /\ UpTo(S, n + 1) = UpTo(S, n) + IF n + 1 \in S THEN 1 ELSE 0
<1> DEFINE P(k) == {j \in S : j <= k}
<1>1. \A k \in Nat : IsFiniteSet(P(k))
  <2> SUFFICES ASSUME NEW k \in Nat PROVE IsFiniteSet(P(k))
    OBVIOUS
  <2>1. P(k) \subseteq 1 .. k
    OBVIOUS
  <2>2. IsFiniteSet(1 .. k)
    BY FS_Interval
  <2> QED
    BY <2>1, <2>2, FS_Subset
<1>2. P(0) = {}
  OBVIOUS
<1>3. P(n + 1) = IF n + 1 \in S THEN P(n) \cup {n + 1} ELSE P(n)
  OBVIOUS
<1>4. n + 1 \notin P(n) /\ n \in Nat
  OBVIOUS
<1> HIDE DEF P
<1>5. Cardinality(P(n)) \in Nat /\ Cardinality(P(0)) = 0
  BY <1>1, <1>2, FS_CardinalityType, FS_EmptySet
<1>6. Cardinality(P(n + 1)) = Cardinality(P(n)) + IF n + 1 \in S THEN 1 ELSE 0
  <2>1. CASE n + 1 \in S
    BY <1>1, <1>3, <1>4, <2>1, FS_AddElement
  <2>2. CASE n + 1 \notin S
    BY <1>3, <1>5, <2>2
  <2> QED
    BY <2>1, <2>2
<1> QED
  BY <1>5, <1>6 DEF UpTo, P

(* It stays where there are none, and never shrinks. *)
LEMMA UpToSame ==
  ASSUME NEW S, \A j \in S : j \in Nat /\ j # 0, NEW m \in Nat, NEW n \in Nat, m <= n
  PROVE  /\ UpTo(S, m) <= UpTo(S, n)
         /\ (\A j \in m + 1 .. n : j \notin S) => UpTo(S, n) = UpTo(S, m)
<1>1. {j \in S : j <= m} \in SUBSET {j \in S : j <= n}
  OBVIOUS
<1>2. IsFiniteSet({j \in S : j <= n})
  <2>1. {j \in S : j <= n} \subseteq 1 .. n
    OBVIOUS
  <2>2. IsFiniteSet(1 .. n)
    BY FS_Interval
  <2> QED
    BY <2>1, <2>2, FS_Subset
<1>3. ASSUME \A j \in m + 1 .. n : j \notin S PROVE {j \in S : j <= n} = {j \in S : j <= m}
  BY <1>3
<1> QED
  BY <1>1, <1>2, <1>3, FS_Subset DEF UpTo

(* A member counts at least itself. *)
LEMMA UpToMember ==
  ASSUME NEW S, \A j \in S : j \in Nat /\ j # 0, NEW n \in S
  PROVE  UpTo(S, n) \in Nat /\ UpTo(S, n) >= 1
<1>1. n - 1 \in Nat /\ (n - 1) + 1 = n
  OBVIOUS
<1>2. UpTo(S, n - 1) \in Nat /\ UpTo(S, (n - 1) + 1) = UpTo(S, n - 1) + 1
  BY <1>1, UpToNext
<1> QED
  BY <1>1, <1>2
-----------------------------------------------------------------------------
(* Loops. *)

(* f holds the states in S that n turns of a loop go through. *)
Loops(f, S, s, g, n) ==
  f \in [0 .. n -> S] /\ f = [k \in 0 .. n |-> IF k = 0 THEN s ELSE g[f[k - 1]]]

(* A loop over states in S can be written as the function After is.        *)
LEMMA Iteration ==
  ASSUME NEW S, NEW s \in S, NEW g \in [S -> S], NEW n \in Nat
  PROVE  \E f : Loops(f, S, s, g, n)
<1> DEFINE G == [k \in Nat |-> g]
<1>1. G \in [Nat -> [S -> S]]
  OBVIOUS
<1>2. \A k \in Nat : G[k] = g
  OBVIOUS
<1> HIDE DEF G
<1>3. PICK F : Runs(F, S, s, G)
  BY <1>1, Recursion, Zenon
<1> DEFINE f == [k \in 0 .. n |-> F[k]]
<1>4. f \in [0 .. n -> S]
  BY <1>3 DEF Runs
<1>5. ASSUME NEW k \in 0 .. n PROVE f[k] = IF k = 0 THEN s ELSE g[f[k - 1]]
  <2>1. CASE k = 0
    BY <1>3, <2>1 DEF Runs
  <2>2. CASE k # 0
    <3>1. k - 1 \in Nat /\ (k - 1) + 1 = k /\ k - 1 \in 0 .. n
      BY <2>2
    <3>2. F[k] = g[F[k - 1]]
      BY <1>2, <1>3, <3>1 DEF Runs
    <3> QED
      BY <2>2, <3>1, <3>2
  <2> QED
    BY <2>1, <2>2
<1>6. f = [k \in 0 .. n |-> IF k = 0 THEN s ELSE g[f[k - 1]]]
  BY <1>5
<1> HIDE DEF f
<1>7. Loops(f, S, s, g, n)
  BY <1>4, <1>6 DEF Loops
<1> QED
  BY <1>7, Zenon

-----------------------------------------------------------------------------
(* Splitting. *)

(* findDelineator finds the first. *)
LEMMA FirstFound ==
  ASSUME NEW C, NEW s \in Seq(C), NEW D
  PROVE  \/ FindDelineator(s, D) = 0 /\ \A k \in 1 .. Len(s) : s[k] \notin D
         \/ /\ FindDelineator(s, D) \in 1 .. Len(s) /\ s[FindDelineator(s, D)] \in D
            /\ \A k \in 1 .. FindDelineator(s, D) - 1 : s[k] \notin D
<1> DEFINE found == {k \in DOMAIN s : s[k] \in D}
<1>1. /\ Len(s) \in Nat /\ DOMAIN s = 1 .. Len(s)
      /\ \A k : k \in found <=> k \in 1 .. Len(s) /\ s[k] \in D
  OBVIOUS
<1>2. FindDelineator(s, D) =
        IF found = {} THEN 0 ELSE CHOOSE k \in found : \A j \in found : k <= j
  BY DEF FindDelineator
<1>3. found \subseteq Nat
  OBVIOUS
<1> HIDE DEF found
<1>4. CASE found = {}
  BY <1>1, <1>2, <1>4
<1>5. CASE found # {}
  <2>1. \E k \in found : \A j \in found : k <= j
    BY <1>3, <1>5, LeastNumber
  <2>2. FindDelineator(s, D) \in found /\ \A j \in found : FindDelineator(s, D) <= j
    BY <1>2, <1>5, <2>1, Zenon
  <2> QED
    BY <1>1, <1>3, <2>2
<1> QED
  BY <1>4, <1>5

(* Where the runs of s are: a run starts at its first character, and ends  *)
(* before a break.                                                         *)
BreaksAt(s, D, k) == k \notin DOMAIN s \/ s[k] \in D

StartsOf(s, D) == {k \in DOMAIN s : BreaksAt(s, D, k - 1) /\ ~ BreaksAt(s, D, k)}

EndOf(s, D, k) ==
  CHOOSE e \in k .. Len(s) : BreaksAt(s, D, e + 1) /\ \A j \in k .. e : ~ BreaksAt(s, D, j)

RunAt(s, D, k) == SubSeq(s, k, EndOf(s, D, k))

(* The places of the tokens that are not empty. *)
Full(tokens) == {k \in DOMAIN tokens : tokens[k] # <<>>}

(* The tokens that are not empty are the runs that start at n at most.     *)
Covers(s, D, tokens, n) ==
  /\ UpTo(Full(tokens), Len(tokens)) = UpTo(StartsOf(s, D), n)
  /\ \A q \in StartsOf(s, D) :
       q <= n => \E k \in Full(tokens) :
                   /\ tokens[k] = RunAt(s, D, q)
                   /\ UpTo(Full(tokens), k) = UpTo(StartsOf(s, D), q)

(* A run ends where it is followed by a break. *)
LEMMA EndFound ==
  ASSUME NEW C, NEW s \in Seq(C), NEW D, NEW p \in 1 .. Len(s), NEW m \in p + 1 .. Len(s) + 1,
         BreaksAt(s, D, m), \A j \in p .. m - 1 : ~ BreaksAt(s, D, j)
  PROVE  EndOf(s, D, p) = m - 1
<1> DEFINE Is(e) == BreaksAt(s, D, e + 1) /\ \A j \in p .. e : ~ BreaksAt(s, D, j)
<1>1. Len(s) \in Nat
  OBVIOUS
<1>2. m - 1 \in p .. Len(s) /\ Is(m - 1)
  <2>1. (m - 1) + 1 = m
    BY <1>1
  <2> QED
    BY <1>1, <2>1
<1>3. ASSUME NEW e \in p .. Len(s), Is(e) PROVE e = m - 1
  <2>1. CASE e < m - 1
    <3>1. e + 1 \in p .. m - 1
      BY <1>1, <2>1
    <3> QED
      BY <1>3, <3>1
  <2>2. CASE e > m - 1
    <3>1. m \in p .. e
      BY <1>1, <2>2
    <3> QED
      BY <1>3, <3>1
  <2> QED
    BY <1>1, <2>1, <2>2
<1>4. EndOf(s, D, p) = CHOOSE e \in p .. Len(s) : Is(e)
  BY DEF EndOf
<1> HIDE DEF Is
<1> QED
  BY <1>2, <1>3, <1>4, Zenon
(* One token more: the run from p on to the break m, or nothing.           *)
LEMMA TokenAdded ==
  ASSUME NEW C, NEW s \in Seq(C), NEW D, NEW tokens \in Seq(Seq(C)),
         NEW p \in 1 .. Len(s) + 1, NEW m \in p .. Len(s) + 1,
         BreaksAt(s, D, p - 1), BreaksAt(s, D, m), \A j \in p .. m - 1 : ~ BreaksAt(s, D, j),
         Covers(s, D, tokens, p - 1)
  PROVE  Covers(s, D, Append(tokens, SubSeq(s, p, m - 1)), m)
<1> DEFINE token == SubSeq(s, p, m - 1)
           T == Append(tokens, token)
           N == Len(tokens)
           S == StartsOf(s, D)
<1>1. /\ Len(s) \in Nat /\ N \in Nat /\ p \in Nat /\ m \in Nat /\ p >= 1 /\ m >= p
      /\ p - 1 \in Nat /\ (p - 1) + 1 = p
      /\ DOMAIN s = 1 .. Len(s) /\ DOMAIN tokens = 1 .. N
  OBVIOUS
<1>2. token \in Seq(C) /\ Len(token) = m - p /\ (token # <<>> <=> m > p)
  <2>1. token \in Seq(C) /\ Len(token) = m - p
    BY <1>1
  <2>2. \A u \in Seq(C) : u # <<>> <=> Len(u) > 0
    OBVIOUS
  <2> HIDE DEF token
  <2> QED
    BY <1>1, <2>1, <2>2
<1> HIDE DEF token
<1>3. /\ Len(T) = N + 1 /\ DOMAIN T = 1 .. N + 1 /\ T[N + 1] = token
      /\ \A k \in 1 .. N : T[k] = tokens[k]
  BY <1>1, <1>2
<1> HIDE DEF T
<1>4. /\ \A j \in S : j \in Nat /\ j # 0
      /\ \A j \in Full(T) : j \in Nat /\ j # 0
      /\ \A j \in Full(tokens) : j \in Nat /\ j # 0 /\ j <= N
  BY <1>1, <1>3 DEF StartsOf, Full
<1>5. ASSUME NEW k \in Nat, k <= N PROVE UpTo(Full(T), k) = UpTo(Full(tokens), k)
  <2>1. {j \in Full(T) : j <= k} = {j \in Full(tokens) : j <= k}
    BY <1>1, <1>3, <1>5 DEF Full
  <2> QED
    BY <2>1 DEF UpTo
<1>6. N + 1 \in Full(T) <=> m > p
  BY <1>1, <1>2, <1>3 DEF Full
<1>7. UpTo(Full(T), N + 1) = UpTo(Full(tokens), N) + IF m > p THEN 1 ELSE 0
  <2>1. UpTo(Full(T), N + 1) = UpTo(Full(T), N) + IF N + 1 \in Full(T) THEN 1 ELSE 0
    BY <1>1, <1>4, UpToNext
  <2>2. UpTo(Full(T), N) = UpTo(Full(tokens), N)
    BY <1>1, <1>5
  <2> QED
    BY <1>6, <2>1, <2>2
<1>8. p \in S <=> m > p
  <2>1. CASE m > p
    <3>1. p \in p .. m - 1 /\ p \in DOMAIN s
      BY <1>1, <2>1
    <3> QED
      BY <2>1, <3>1 DEF StartsOf
  <2>2. CASE ~ (m > p)
    <3>1. m = p
      BY <1>1, <2>2
    <3> QED
      BY <2>2, <3>1 DEF StartsOf
  <2> QED
    BY <2>1, <2>2
<1>9. \A j \in p + 1 .. m : j \notin S
  <2> SUFFICES ASSUME NEW j \in p + 1 .. m, j \in S PROVE FALSE
    OBVIOUS
  <2>1. BreaksAt(s, D, j - 1) /\ ~ BreaksAt(s, D, j)
    BY DEF StartsOf
  <2>2. j # m
    BY <2>1
  <2>3. j - 1 \in p .. m - 1
    BY <1>1, <2>2
  <2> QED
    BY <2>1, <2>3
<1>10. UpTo(S, m) = UpTo(S, p) /\ UpTo(S, p) = UpTo(S, p - 1) + IF m > p THEN 1 ELSE 0
  <2>1. UpTo(S, m) = UpTo(S, p)
    BY <1>1, <1>4, <1>9, UpToSame
  <2>2. UpTo(S, (p - 1) + 1) = UpTo(S, p - 1) + IF (p - 1) + 1 \in S THEN 1 ELSE 0
    BY <1>1, <1>4, UpToNext
  <2> QED
    BY <1>1, <1>8, <2>1, <2>2
<1>11. UpTo(Full(T), Len(T)) = UpTo(S, m)
  BY <1>3, <1>7, <1>10 DEF Covers
<1>12. ASSUME NEW q \in S, q <= m
       PROVE  \E k \in Full(T) :
                T[k] = RunAt(s, D, q) /\ UpTo(Full(T), k) = UpTo(S, q)
  <2>1. q <= p
    BY <1>1, <1>4, <1>9, <1>12
  <2>2. CASE q = p
    <3>1. m > p
      BY <1>8, <2>2
    <3>2. EndOf(s, D, p) = m - 1
      <4>1. p \in 1 .. Len(s) /\ m \in p + 1 .. Len(s) + 1
        BY <1>1, <3>1
      <4> QED
        BY <4>1, EndFound
    <3>3. T[N + 1] = RunAt(s, D, p)
      BY <1>3, <3>2 DEF RunAt, token
    <3>4. UpTo(Full(T), N + 1) = UpTo(S, p)
      BY <1>3, <1>10, <1>11
    <3> QED
      BY <1>6, <2>2, <3>1, <3>3, <3>4, Zenon
  <2>3. CASE q # p
    <3>1. q <= p - 1
      BY <1>1, <1>4, <2>1, <2>3
    <3>2. PICK k \in Full(tokens) :
            tokens[k] = RunAt(s, D, q) /\ UpTo(Full(tokens), k) = UpTo(S, q)
      BY <3>1 DEF Covers
    <3>3. k \in Nat /\ k <= N /\ k \in Full(T) /\ T[k] = tokens[k]
      BY <1>1, <1>3, <1>4 DEF Full
    <3>4. UpTo(Full(T), k) = UpTo(S, q)
      BY <1>5, <3>2, <3>3
    <3> QED
      BY <3>2, <3>3, <3>4, Zenon
  <2> QED
    BY <2>2, <2>3
<1>13. Covers(s, D, T, m)
  BY <1>11, <1>12 DEF Covers
<1> QED
  BY <1>13 DEF T, token

(* The variables of splitString's loop after n turns: what is left are the *)
(* characters from p on, and a break comes before them.                    *)
CutState(C) == [tokens : Seq(Seq(C)), left : Seq(C)]

LeftFrom(s, left, p) ==
  Len(left) = (Len(s) + 1) - p /\ \A k \in 1 .. Len(left) : left[k] = s[(p - 1) + k]

SplitSoFar(s, D, c, n) ==
  /\ FindDelineator(c.left, D) = 0 \/ Len(c.left) + n <= Len(s)
  /\ \E p \in 1 .. Len(s) + 1 :
       /\ LeftFrom(s, c.left, p)
       /\ BreaksAt(s, D, p - 1)
       /\ Covers(s, D, c.tokens, p - 1)

(* Before the loop. *)
LEMMA SplitBegins ==
  ASSUME NEW C, NEW s \in Seq(C), NEW D
  PROVE  SplitSoFar(s, D, [tokens |-> <<>>, left |-> s], 0)
<1>1. Len(s) \in Nat /\ DOMAIN s = 1 .. Len(s)
  OBVIOUS
<1>2. 1 \in 1 .. Len(s) + 1 /\ LeftFrom(s, s, 1) /\ BreaksAt(s, D, 1 - 1)
  BY <1>1 DEF LeftFrom, BreaksAt
<1>3. \A j \in StartsOf(s, D) : j \in Nat /\ j # 0 /\ ~ (j <= 0)
  BY <1>1 DEF StartsOf
<1>4. Full(<<>>) = {} /\ Len(<<>>) = 0
  BY DEF Full
<1>5. UpTo({}, 0) = 0 /\ UpTo(StartsOf(s, D), 0) = 0
  <2>1. \A j \in {} : j \in Nat /\ j # 0
    OBVIOUS
  <2> QED
    BY <1>3, <2>1, UpToNext
<1>6. Covers(s, D, <<>>, 1 - 1)
  BY <1>3, <1>4, <1>5 DEF Covers
<1> QED
  BY <1>1, <1>2, <1>6 DEF SplitSoFar
(* A turn of the loop. *)
LEMMA CutGoesOn ==
  ASSUME NEW C, NEW s \in Seq(C), NEW D, NEW c \in CutState(C), NEW n \in Nat,
         SplitSoFar(s, D, c, n)
  PROVE  Cut(c, D) \in CutState(C) /\ SplitSoFar(s, D, Cut(c, D), n + 1)
<1> DEFINE pos == FindDelineator(c.left, D)
           token == SubSeq(c.left, 1, pos - 1)
           rest == SubSeq(c.left, pos + 1, Len(c.left))
<1>1. /\ c.tokens \in Seq(Seq(C)) /\ c.left \in Seq(C) /\ Len(s) \in Nat /\ Len(c.left) \in Nat
      /\ DOMAIN s = 1 .. Len(s)
  BY DEF CutState
<1>2. CASE pos = 0
  <2>1. Cut(c, D) = c
    BY <1>2 DEF Cut
  <2> QED
    BY <1>2, <2>1 DEF SplitSoFar
<1>3. CASE pos # 0
  <2>1. Cut(c, D) = [tokens |-> Append(c.tokens, token), left |-> rest]
    BY <1>3 DEF Cut
  <2>2. /\ pos \in 1 .. Len(c.left) /\ c.left[pos] \in D
        /\ \A k \in 1 .. pos - 1 : c.left[k] \notin D
    BY <1>1, <1>3, FirstFound
  <2>3. Len(c.left) + n <= Len(s)
    BY <1>3 DEF SplitSoFar
  <2>4. PICK p \in 1 .. Len(s) + 1 :
          /\ LeftFrom(s, c.left, p) /\ BreaksAt(s, D, p - 1) /\ Covers(s, D, c.tokens, p - 1)
    BY DEF SplitSoFar
  <2> HIDE DEF pos
  <2> DEFINE m == (p - 1) + pos
  <2>5. /\ m \in p .. Len(s) /\ m \in Nat /\ p \in Nat /\ p >= 1 /\ pos \in Nat /\ pos >= 1
        /\ Len(c.left) = (Len(s) + 1) - p
    BY <1>1, <2>2, <2>4 DEF LeftFrom
  <2>6. /\ token \in Seq(C) /\ Len(token) = pos - 1
        /\ \A k \in 1 .. pos - 1 : token[k] = c.left[k]
    BY <1>1, <2>2
  <2>7. /\ rest \in Seq(C) /\ Len(rest) = Len(c.left) - pos
        /\ \A k \in 1 .. Len(c.left) - pos : rest[k] = c.left[pos + k]
    BY <1>1, <2>2
  <2>8. Cut(c, D) \in CutState(C)
    BY <1>1, <2>1, <2>6, <2>7 DEF CutState
  <2>9. token = SubSeq(s, p, m - 1)
    <3>1. /\ SubSeq(s, p, m - 1) \in Seq(C) /\ Len(SubSeq(s, p, m - 1)) = pos - 1
          /\ \A k \in 1 .. pos - 1 : SubSeq(s, p, m - 1)[k] = s[(p - 1) + k]
      BY <1>1, <2>5
    <3>2. \A k \in 1 .. pos - 1 : token[k] = s[(p - 1) + k]
      BY <2>2, <2>4, <2>5, <2>6 DEF LeftFrom
    <3> HIDE DEF token, m
    <3> QED
      BY <2>6, <3>1, <3>2
  <2>10. BreaksAt(s, D, m)
    <3>1. c.left[pos] = s[m]
      BY <2>2, <2>4 DEF LeftFrom
    <3> QED
      BY <2>2, <3>1 DEF BreaksAt
  <2>11. \A j \in p .. m - 1 : ~ BreaksAt(s, D, j)
    <3> SUFFICES ASSUME NEW j \in p .. m - 1 PROVE ~ BreaksAt(s, D, j)
      OBVIOUS
    <3>1. (j - p) + 1 \in 1 .. pos - 1 /\ (j - p) + 1 \in 1 .. Len(c.left) /\ (p - 1) + ((j - p) + 1) = j
      <4>1. j \in Int /\ p <= j /\ j <= (p + pos) - 2
        BY <2>5
      <4>2. pos <= Len(c.left) /\ Len(c.left) \in Nat
        BY <1>1, <2>2
      <4> QED
        BY <2>5, <4>1, <4>2
    <3>2. c.left[(j - p) + 1] = s[j] /\ c.left[(j - p) + 1] \notin D
      BY <2>2, <2>4, <3>1 DEF LeftFrom
    <3>3. j \in DOMAIN s
      BY <1>1, <2>5
    <3> QED
      BY <3>2, <3>3 DEF BreaksAt
  <2>12. LeftFrom(s, rest, m + 1)
    <3>1. Len(rest) = (Len(s) + 1) - (m + 1)
      BY <2>5, <2>7
    <3>2. \A k \in 1 .. Len(rest) : rest[k] = s[((m + 1) - 1) + k]
      <4> SUFFICES ASSUME NEW k \in 1 .. Len(rest) PROVE rest[k] = s[((m + 1) - 1) + k]
        OBVIOUS
      <4>1. k \in 1 .. Len(c.left) - pos /\ pos + k \in 1 .. Len(c.left)
            /\ (p - 1) + (pos + k) = ((m + 1) - 1) + k
        BY <2>5, <2>7
      <4>2. rest[k] = c.left[pos + k] /\ c.left[pos + k] = s[(p - 1) + (pos + k)]
        BY <2>4, <2>7, <4>1 DEF LeftFrom
      <4> QED
        BY <4>1, <4>2
    <3> QED
      BY <3>1, <3>2 DEF LeftFrom
  <2>13. Covers(s, D, Append(c.tokens, token), m)
    <3>1. m \in p .. Len(s) + 1
      BY <1>1, <2>5
    <3> QED
      BY <1>1, <2>4, <2>9, <2>10, <2>11, <3>1, TokenAdded
  <2>14. (m + 1) - 1 = m /\ m + 1 \in 1 .. Len(s) + 1 /\ Len(rest) + (n + 1) <= Len(s)
    <3>1. (m + 1) - 1 = m /\ m + 1 \in 1 .. Len(s) + 1
      <4> HIDE DEF m
      <4> QED
        BY <1>1, <2>5
    <3> DEFINE l == Len(c.left)
    <3>2. l \in Nat /\ l + n <= Len(s) /\ Len(rest) = l - pos /\ pos \in Nat /\ pos >= 1
      BY <1>1, <2>3, <2>5, <2>7
    <3> HIDE DEF l, rest
    <3>3. Len(rest) + (n + 1) <= Len(s)
      BY <1>1, <3>2
    <3> QED
      BY <3>1, <3>3
  <2> HIDE DEF m, token, rest
  <2>15. /\ m + 1 \in 1 .. Len(s) + 1 /\ LeftFrom(s, rest, m + 1) /\ BreaksAt(s, D, (m + 1) - 1)
         /\ Covers(s, D, Append(c.tokens, token), (m + 1) - 1)
    BY <2>10, <2>12, <2>13, <2>14
  <2>16. SplitSoFar(s, D, [tokens |-> Append(c.tokens, token), left |-> rest], n + 1)
    BY <2>14, <2>15 DEF SplitSoFar
  <2> QED
    BY <2>1, <2>8, <2>16
<1> QED
  BY <1>2, <1>3

(* Behind the loop: all the runs of s are tokens. *)
LEMMA SplitCovers ==
  ASSUME NEW C, NEW s \in Seq(C), NEW D
  PROVE  /\ SplitString(s, D) \in Seq(Seq(C))
         /\ Covers(s, D, SplitString(s, D), Len(s) + 1)
<1> DEFINE S == CutState(C)
           start == [tokens |-> <<>>, left |-> s]
           g == [c \in S |-> IF Cut(c, D) \in S THEN Cut(c, D) ELSE c]
           N == Len(s)
           Is(f) == f = [n \in 0 .. N |-> IF n = 0 THEN start ELSE Cut(f[n - 1], D)]
           After == CHOOSE f : Is(f)
<1>1. start \in S /\ N \in Nat
  BY DEF CutState
<1>2. g \in [S -> S]
  OBVIOUS
<1>3. \A c \in S : Cut(c, D) \in S
  <2> SUFFICES ASSUME NEW c \in S PROVE Cut(c, D) \in S
    OBVIOUS
  <2>1. c.tokens \in Seq(Seq(C)) /\ c.left \in Seq(C) /\ Len(c.left) \in Nat
    BY DEF CutState
  <2>2. CASE FindDelineator(c.left, D) = 0
    BY <2>2 DEF Cut
  <2>3. CASE FindDelineator(c.left, D) # 0
    <3> DEFINE pos == FindDelineator(c.left, D)
    <3>1. pos \in 1 .. Len(c.left)
      BY <2>1, <2>3, FirstFound
    <3>2. Cut(c, D) = [tokens |-> Append(c.tokens, SubSeq(c.left, 1, pos - 1)),
                       left |-> SubSeq(c.left, pos + 1, Len(c.left))]
      BY <2>3 DEF Cut
    <3> HIDE DEF pos
    <3>3. SubSeq(c.left, 1, pos - 1) \in Seq(C) /\ SubSeq(c.left, pos + 1, Len(c.left)) \in Seq(C)
      BY <2>1, <3>1
    <3>4. Append(c.tokens, SubSeq(c.left, 1, pos - 1)) \in Seq(Seq(C))
      BY <2>1, <3>3
    <3> QED
      BY <3>2, <3>3, <3>4 DEF CutState
  <2> QED
    BY <2>2, <2>3
<1>4. \E f : Is(f)
  <2> HIDE DEF S, start, g, N
  <2>0. PICK f : Loops(f, S, start, g, N)
    BY <1>1, <1>2, Iteration, Zenon
  <2>1. f \in [0 .. N -> S] /\ f = [k \in 0 .. N |-> IF k = 0 THEN start ELSE g[f[k - 1]]]
    BY <2>0, Zenon DEF Loops
  <2>2. ASSUME NEW k \in 0 .. N, k # 0 PROVE g[f[k - 1]] = Cut(f[k - 1], D)
    <3>1. k - 1 \in 0 .. N
      BY <1>1, <2>2
    <3>2. f[k - 1] \in S
      BY <2>1, <3>1
    <3> QED
      BY <1>3, <3>2 DEF g
  <2>3. f = [k \in 0 .. N |-> IF k = 0 THEN start ELSE Cut(f[k - 1], D)]
    BY <2>1, <2>2
  <2>4. Is(f)
    BY <2>3
  <2> QED
    BY <2>4, Zenon
<1>5. Is(After)
  <2> HIDE DEF Is
  <2> QED
    BY <1>4, Zenon
<1>6. SplitString(s, D) = Append(After[N].tokens, After[N].left)
  BY Zenon DEF SplitString
<1> HIDE DEF After
<1> DEFINE Good(n) == After[n] \in S /\ SplitSoFar(s, D, After[n], n)
           T == {n \in Nat : n <= N => Good(n)}
<1>7. Good(0)
  <2>1. After[0] = start
    BY <1>1, <1>5
  <2> QED
    BY <1>1, <2>1, SplitBegins
<1>8. ASSUME NEW n \in Nat, n + 1 <= N, Good(n) PROVE Good(n + 1)
  <2>1. After[n + 1] = Cut(After[n], D)
    BY <1>1, <1>5, <1>8
  <2> QED
    BY <1>8, <2>1, CutGoesOn
<1> HIDE DEF Good, S
<1>9. 0 \in T /\ \A n \in Nat : n \in T => n + 1 \in T
  BY <1>1, <1>7, <1>8
<1>10. Good(N)
  <2> HIDE DEF T
  <2>1. N \in T
    BY <1>1, <1>9, InductionBySet
  <2> QED
    BY <1>1, <2>1 DEF T
<1> DEFINE c == After[N]
<1>11. c \in CutState(C) /\ SplitSoFar(s, D, c, N)
  BY <1>10 DEF Good, S
<1>12. SplitString(s, D) = Append(c.tokens, c.left)
  BY <1>6
<1> HIDE DEF c
<1>13. c.tokens \in Seq(Seq(C)) /\ c.left \in Seq(C) /\ Len(c.left) \in Nat
  BY <1>11 DEF CutState
<1>14. PICK p \in 1 .. N + 1 :
        /\ LeftFrom(s, c.left, p) /\ BreaksAt(s, D, p - 1) /\ Covers(s, D, c.tokens, p - 1)
  BY <1>11 DEF SplitSoFar
<1>15. \A k \in 1 .. Len(c.left) : c.left[k] \notin D
  <2>1. CASE FindDelineator(c.left, D) = 0
    BY <1>13, <2>1, FirstFound
  <2>2. CASE FindDelineator(c.left, D) # 0
    BY <1>1, <1>11, <1>13, <2>2 DEF SplitSoFar
  <2> QED
    BY <2>1, <2>2
<1>16. Len(c.left) = (N + 1) - p /\ \A k \in 1 .. Len(c.left) : c.left[k] = s[(p - 1) + k]
  BY <1>14 DEF LeftFrom
<1>17. c.left = SubSeq(s, p, (N + 1) - 1)
  <2>1. /\ SubSeq(s, p, (N + 1) - 1) \in Seq(C) /\ Len(SubSeq(s, p, (N + 1) - 1)) = (N + 1) - p
        /\ \A k \in 1 .. (N + 1) - p : SubSeq(s, p, (N + 1) - 1)[k] = s[(p - 1) + k]
    BY <1>1
  <2> QED
    BY <1>13, <1>16, <2>1
<1>18. BreaksAt(s, D, N + 1)
  BY <1>1 DEF BreaksAt
<1>19. \A j \in p .. (N + 1) - 1 : ~ BreaksAt(s, D, j)
  <2> SUFFICES ASSUME NEW j \in p .. (N + 1) - 1 PROVE ~ BreaksAt(s, D, j)
    OBVIOUS
  <2>1. (j - p) + 1 \in 1 .. Len(c.left) /\ (p - 1) + ((j - p) + 1) = j /\ j \in DOMAIN s
    BY <1>1, <1>16
  <2>2. s[j] \notin D
    BY <1>15, <1>16, <2>1
  <2> QED
    BY <2>1, <2>2 DEF BreaksAt
<1>20. N + 1 \in p .. Len(s) + 1 /\ p \in 1 .. Len(s) + 1
  BY <1>1
<1>21. Covers(s, D, Append(c.tokens, SubSeq(s, p, (N + 1) - 1)), N + 1)
  <2> DEFINE m == N + 1
  <2> HIDE DEF m
  <2> QED
    BY <1>13, <1>14, <1>18, <1>19, <1>20, TokenAdded DEF m
<1> QED
  BY <1>12, <1>13, <1>17, <1>21

(* Without its element at p, a sequence is shorter by one, and those behind *)
(* it have moved to the front by one.                                      *)
LEMMA ErasedIs ==
  ASSUME NEW X, NEW t \in Seq(X), NEW p \in Nat, p # 0, p <= Len(t)
  PROVE  /\ Erased(t, p) \in Seq(X) /\ Len(Erased(t, p)) = Len(t) - 1
         /\ \A k \in 1 .. p - 1 : Erased(t, p)[k] = t[k]
         /\ \A k \in p .. Len(t) - 1 : Erased(t, p)[k] = t[k + 1]
<1> DEFINE front == SubSeq(t, 1, p - 1)
           back == SubSeq(t, p + 1, Len(t))
           e == Erased(t, p)
           l == Len(t)
<1>0. l \in Nat /\ p \in 1 .. l
  OBVIOUS
<1>1. /\ front \in Seq(X) /\ Len(front) = p - 1
      /\ \A k \in 1 .. p - 1 : front[k] = t[k]
  OBVIOUS
<1>2. back \in Seq(X)
  OBVIOUS
<1>3. Len(back) = l - p
  OBVIOUS
<1>4. \A k \in 1 .. l - p : back[k] = t[p + k]
  <2> SUFFICES ASSUME NEW k \in 1 .. l - p PROVE back[k] = t[p + k]
    OBVIOUS
  <2>1. back[k] = t[(p + 1) + k - 1]
    OBVIOUS
  <2>2. (p + 1) + k - 1 = p + k
    BY <1>0
  <2> QED
    BY <2>1, <2>2
<1>5. e = front \o back
  BY DEF Erased
<1> SUFFICES /\ e \in Seq(X) /\ Len(e) = l - 1
             /\ \A k \in 1 .. p - 1 : e[k] = t[k]
             /\ \A k \in p .. l - 1 : e[k] = t[k + 1]
  BY Zenon
<1> HIDE DEF front, back, e
<1>6. e \in Seq(X)
  BY <1>1, <1>2, <1>5
<1>7. Len(e) = Len(front) + Len(back)
  <2>1. front \in Seq(X) /\ back \in Seq(X)
    BY <1>1, <1>2
  <2>2. Len(front \o back) = Len(front) + Len(back)
    BY <2>1
  <2> QED
    BY <1>5, <2>2
<1>8. \A k \in 1 .. Len(front) : e[k] = front[k]
  <2>1. front \in Seq(X) /\ back \in Seq(X)
    BY <1>1, <1>2
  <2> SUFFICES ASSUME NEW k \in 1 .. Len(front) PROVE e[k] = front[k]
    OBVIOUS
  <2>2. (front \o back)[k] = front[k]
    BY <2>1
  <2> QED
    BY <1>5, <2>2
<1>9. \A k \in 1 .. Len(back) : e[Len(front) + k] = back[k]
  <2>1. front \in Seq(X) /\ back \in Seq(X)
    BY <1>1, <1>2
  <2> SUFFICES ASSUME NEW k \in 1 .. Len(back) PROVE e[Len(front) + k] = back[k]
    OBVIOUS
  <2>2. (front \o back)[Len(front) + k] = back[k]
    BY <2>1
  <2> QED
    BY <1>5, <2>2
<1> HIDE DEF l
<1>10. Len(e) = l - 1
  BY <1>0, <1>1, <1>3, <1>7
<1>11. \A k \in p .. l - 1 : e[k] = t[k + 1]
  <2> SUFFICES ASSUME NEW k \in p .. l - 1 PROVE e[k] = t[k + 1]
    OBVIOUS
  <2> DEFINE h == (k - p) + 1
  <2>1. h \in 1 .. l - p /\ (p - 1) + h = k /\ p + h = k + 1
    BY <1>0
  <2> HIDE DEF h
  <2>2. e[Len(front) + h] = back[h]
    BY <1>3, <1>9, <2>1
  <2>3. e[k] = back[h]
    BY <1>1, <2>1, <2>2
  <2>4. back[h] = t[p + h]
    BY <1>4, <2>1
  <2> QED
    BY <2>1, <2>3, <2>4
<1> QED
  BY <1>1, <1>6, <1>8, <1>10, <1>11


(* The variables of the loop that erases, after n turns: the first n of    *)
(* the tokens T are done with, and those of them that are not empty are in *)
(* front of the iterator.                                                  *)
SweepState(C) == [tokens : Seq(Seq(C)), it : Nat \ {0}]

SweptSoFar(T, c, n) ==
  LET done == UpTo(Full(T), n)
  IN  /\ c.it = done + 1
      /\ Len(c.tokens) = done + (Len(T) - n)
      /\ \A k \in Full(T) : k <= n => c.tokens[UpTo(Full(T), k)] = T[k]
      /\ \A k \in n + 1 .. Len(T) : c.tokens[done + (k - n)] = T[k]

(* A turn of the loop. *)
LEMMA SweepGoesOn ==
  ASSUME NEW C, NEW T \in Seq(Seq(C)), NEW c \in SweepState(C), NEW n \in Nat, n + 1 <= Len(T),
         SweptSoFar(T, c, n)
  PROVE  LookedAt(c) \in SweepState(C) /\ SweptSoFar(T, LookedAt(c), n + 1)
<1> DEFINE F == Full(T)
           done == UpTo(F, n)
           N == Len(T)
           L == Len(c.tokens)
<1>1. /\ c.tokens \in Seq(Seq(C)) /\ c.it \in Nat /\ c.it # 0 /\ N \in Nat /\ L \in Nat
      /\ \A k \in F : k \in Nat /\ k # 0 /\ k <= N
      /\ \A k : k \in F <=> k \in 1 .. N /\ T[k] # <<>>
  BY DEF SweepState, Full
<1> HIDE DEF F
<1>2. done \in Nat /\ UpTo(F, n + 1) = done + IF n + 1 \in F THEN 1 ELSE 0
  BY <1>1, UpToNext
<1>3. \A k \in F : k <= n => UpTo(F, k) \in Nat /\ UpTo(F, k) >= 1 /\ UpTo(F, k) <= done
  <2> SUFFICES ASSUME NEW k \in F, k <= n
               PROVE  UpTo(F, k) \in Nat /\ UpTo(F, k) >= 1 /\ UpTo(F, k) <= done
    OBVIOUS
  <2>1. k \in Nat
    BY <1>1
  <2>2. UpTo(F, k) <= done
    BY <1>1, <2>1, UpToSame
  <2>3. UpTo(F, k) \in Nat /\ UpTo(F, k) >= 1
    BY <1>1, UpToMember
  <2> QED
    BY <2>2, <2>3
<1>4. /\ c.it = done + 1 /\ L = done + (N - n)
      /\ \A k \in F : k <= n => c.tokens[UpTo(F, k)] = T[k]
      /\ \A k \in n + 1 .. N : c.tokens[done + (k - n)] = T[k]
  BY DEF SweptSoFar, F
<1> HIDE DEF done
<1>5. c.it <= L
  BY <1>1, <1>2, <1>4
<1>6. c.tokens[c.it] = T[n + 1]
  <2>1. n + 1 \in n + 1 .. N /\ done + ((n + 1) - n) = c.it
    BY <1>1, <1>2, <1>4
  <2> QED
    BY <1>4, <2>1
<1> HIDE DEF N, L
<1>7. CASE T[n + 1] = <<>>
  <2> DEFINE e == Erased(c.tokens, c.it)
  <2>1. LookedAt(c) = [tokens |-> e, it |-> c.it]
    BY <1>1, <1>5, <1>6, <1>7 DEF LookedAt, L
  <2>2. n + 1 \notin F /\ UpTo(F, n + 1) = done
    BY <1>1, <1>2, <1>7
  <2>3. /\ e \in Seq(Seq(C)) /\ Len(e) = L - 1
        /\ \A k \in 1 .. c.it - 1 : e[k] = c.tokens[k]
        /\ \A k \in c.it .. L - 1 : e[k] = c.tokens[k + 1]
    BY <1>1, <1>5, ErasedIs DEF L
  <2> HIDE DEF e
  <2>4. LookedAt(c) \in SweepState(C)
    BY <1>1, <2>1, <2>3 DEF SweepState
  <2>5. \A k \in F : k <= n + 1 => e[UpTo(F, k)] = T[k]
    <3> SUFFICES ASSUME NEW k \in F, k <= n + 1 PROVE e[UpTo(F, k)] = T[k]
      OBVIOUS
    <3>1. k <= n
      BY <1>1, <2>2
    <3>2. UpTo(F, k) \in 1 .. c.it - 1
      BY <1>2, <1>3, <1>4, <3>1
    <3> QED
      BY <1>4, <2>3, <3>1, <3>2
  <2>6. \A k \in n + 2 .. N : e[done + (k - (n + 1))] = T[k]
    <3> SUFFICES ASSUME NEW k \in n + 2 .. N PROVE e[done + (k - (n + 1))] = T[k]
      OBVIOUS
    <3>1. done + (k - (n + 1)) \in c.it .. L - 1 /\ (done + (k - (n + 1))) + 1 = done + (k - n)
          /\ k \in n + 1 .. N
      BY <1>1, <1>2, <1>4
    <3> QED
      BY <1>4, <2>3, <3>1
  <2>7. /\ c.it = UpTo(F, n + 1) + 1 /\ Len(e) = UpTo(F, n + 1) + (N - (n + 1))
        /\ (n + 1) + 1 = n + 2
    BY <1>1, <1>2, <1>4, <2>2, <2>3
  <2>8. SweptSoFar(T, [tokens |-> e, it |-> c.it], n + 1)
    BY <2>2, <2>5, <2>6, <2>7 DEF SweptSoFar, F, N
  <2> QED
    BY <2>1, <2>4, <2>8
<1>8. CASE T[n + 1] # <<>>
  <2>1. LookedAt(c) = [tokens |-> c.tokens, it |-> c.it + 1]
    BY <1>1, <1>5, <1>6, <1>8 DEF LookedAt, L
  <2>2. n + 1 \in F /\ UpTo(F, n + 1) = done + 1
    BY <1>1, <1>2, <1>8 DEF N
  <2>3. LookedAt(c) \in SweepState(C)
    BY <1>1, <2>1 DEF SweepState
  <2>4. \A k \in F : k <= n + 1 => c.tokens[UpTo(F, k)] = T[k]
    <3> SUFFICES ASSUME NEW k \in F, k <= n + 1 PROVE c.tokens[UpTo(F, k)] = T[k]
      OBVIOUS
    <3>1. CASE k <= n
      BY <1>4, <3>1
    <3>2. CASE ~ (k <= n)
      <4>1. k = n + 1
        BY <1>1, <3>2
      <4> QED
        BY <1>4, <1>6, <2>2, <4>1
    <3> QED
      BY <3>1, <3>2
  <2>5. \A k \in n + 2 .. N : c.tokens[(done + 1) + (k - (n + 1))] = T[k]
    <3> SUFFICES ASSUME NEW k \in n + 2 .. N PROVE c.tokens[(done + 1) + (k - (n + 1))] = T[k]
      OBVIOUS
    <3>1. (done + 1) + (k - (n + 1)) = done + (k - n) /\ k \in n + 1 .. N
      BY <1>1, <1>2
    <3> QED
      BY <1>4, <3>1
  <2>6. /\ c.it + 1 = UpTo(F, n + 1) + 1 /\ L = UpTo(F, n + 1) + (N - (n + 1))
        /\ (n + 1) + 1 = n + 2
    <3>1. N \in Nat /\ N >= n + 1 /\ done \in Nat
      BY <1>1, <1>2 DEF N
    <3>2. (done + 1) + (N - (n + 1)) = done + (N - n) /\ (n + 1) + 1 = n + 2
      BY <3>1
    <3> QED
      BY <1>4, <2>2, <3>2
  <2>7. SweptSoFar(T, [tokens |-> c.tokens, it |-> c.it + 1], n + 1)
    BY <2>2, <2>4, <2>5, <2>6 DEF SweptSoFar, F, N, L
  <2> QED
    BY <2>1, <2>3, <2>7
<1> QED
  BY <1>7, <1>8

(* Behind the loop: the tokens that were not empty, in their order.        *)
LEMMA SweptTokens ==
  ASSUME NEW C, NEW T \in Seq(Seq(C))
  PROVE  /\ Len(Swept(T)) = UpTo(Full(T), Len(T))
         /\ \A k \in Full(T) : Swept(T)[UpTo(Full(T), k)] = T[k]
<1> DEFINE S == SweepState(C)
           start == [tokens |-> T, it |-> 1]
           g == [c \in S |-> IF LookedAt(c) \in S THEN LookedAt(c) ELSE c]
           N == Len(T)
           Is(f) == f = [n \in 0 .. N |-> IF n = 0 THEN start ELSE LookedAt(f[n - 1])]
           After == CHOOSE f : Is(f)
<1>1. start \in S /\ N \in Nat
  BY DEF SweepState
<1>2. g \in [S -> S]
  OBVIOUS
<1>3. \A c \in S : LookedAt(c) \in S
  <2> SUFFICES ASSUME NEW c \in S PROVE LookedAt(c) \in S
    OBVIOUS
  <2>1. c.tokens \in Seq(Seq(C)) /\ c.it \in Nat /\ c.it # 0 /\ Len(c.tokens) \in Nat
    BY DEF SweepState
  <2>2. CASE c.it > Len(c.tokens)
    BY <2>2 DEF LookedAt
  <2>3. CASE ~ (c.it > Len(c.tokens)) /\ c.tokens[c.it] = <<>>
    <3>1. c.it <= Len(c.tokens)
      BY <2>1, <2>3
    <3>2. Erased(c.tokens, c.it) \in Seq(Seq(C))
      BY <2>1, <3>1, ErasedIs
    <3>3. LookedAt(c) = [tokens |-> Erased(c.tokens, c.it), it |-> c.it]
      BY <2>3 DEF LookedAt
    <3> QED
      BY <2>1, <3>2, <3>3 DEF SweepState
  <2>4. CASE ~ (c.it > Len(c.tokens)) /\ c.tokens[c.it] # <<>>
    <3>1. LookedAt(c) = [tokens |-> c.tokens, it |-> c.it + 1]
      BY <2>4 DEF LookedAt
    <3> QED
      BY <2>1, <3>1 DEF SweepState
  <2> QED
    BY <2>2, <2>3, <2>4
<1>4. \E f : Is(f)
  <2> HIDE DEF S, start, g, N
  <2>0. PICK f : Loops(f, S, start, g, N)
    BY <1>1, <1>2, Iteration, Zenon
  <2>1. f \in [0 .. N -> S] /\ f = [k \in 0 .. N |-> IF k = 0 THEN start ELSE g[f[k - 1]]]
    BY <2>0, Zenon DEF Loops
  <2>2. ASSUME NEW k \in 0 .. N, k # 0 PROVE g[f[k - 1]] = LookedAt(f[k - 1])
    <3>1. k - 1 \in 0 .. N
      BY <1>1, <2>2
    <3>2. f[k - 1] \in S
      BY <2>1, <3>1
    <3> QED
      BY <1>3, <3>2 DEF g
  <2>3. f = [k \in 0 .. N |-> IF k = 0 THEN start ELSE LookedAt(f[k - 1])]
    BY <2>1, <2>2
  <2>4. Is(f)
    BY <2>3
  <2> QED
    BY <2>4, Zenon
<1>5. Is(After)
  <2> HIDE DEF Is
  <2> QED
    BY <1>4, Zenon
<1>6. Swept(T) = After[N].tokens
  BY Zenon DEF Swept
<1> HIDE DEF After
<1> DEFINE Good(n) == After[n] \in S /\ SweptSoFar(T, After[n], n)
           X == {n \in Nat : n <= N => Good(n)}
<1>7. Good(0)
  <2>1. After[0] = start
    BY <1>1, <1>5
  <2>2. \A k \in Full(T) : k \in Nat /\ k # 0 /\ ~ (k <= 0)
    BY DEF Full
  <2>3. UpTo(Full(T), 0) = 0
    BY <2>2, UpToNext
  <2>4. \A k \in 0 + 1 .. N : T[0 + (k - 0)] = T[k]
    BY <1>1
  <2>5. 1 = 0 + 1 /\ N = 0 + (N - 0)
    BY <1>1
  <2>6. SweptSoFar(T, start, 0)
    BY <2>2, <2>3, <2>4, <2>5 DEF SweptSoFar
  <2> QED
    BY <1>1, <2>1, <2>6
<1>8. ASSUME NEW n \in Nat, n + 1 <= N, Good(n) PROVE Good(n + 1)
  <2>1. After[n + 1] = LookedAt(After[n])
    BY <1>1, <1>5, <1>8
  <2> QED
    BY <1>8, <2>1, SweepGoesOn
<1> HIDE DEF Good, S
<1>9. 0 \in X /\ \A n \in Nat : n \in X => n + 1 \in X
  BY <1>1, <1>7, <1>8
<1>10. Good(N)
  <2> HIDE DEF X
  <2>1. N \in X
    BY <1>1, <1>9, InductionBySet
  <2> QED
    BY <1>1, <2>1 DEF X
<1>11. SweptSoFar(T, After[N], N)
  BY <1>10 DEF Good
<1>12. \A k \in Full(T) : k <= N
  BY <1>1 DEF Full
<1>13. \A k \in Full(T) : k \in Nat /\ k # 0
  BY DEF Full
<1>14. UpTo(Full(T), N) \in Nat
  BY <1>1, <1>13, UpToNext
<1> HIDE DEF N
<1>15. Len(After[N].tokens) = UpTo(Full(T), N)
  BY <1>1, <1>11, <1>14 DEF SweptSoFar, N
<1>16. \A k \in Full(T) : After[N].tokens[UpTo(Full(T), k)] = T[k]
  BY <1>11, <1>12 DEF SweptSoFar
<1> QED
  BY <1>6, <1>15, <1>16 DEF N

(* The tokens of every text are its runs, whatever the delimiters.         *)
THEOREM TokensAlwaysRuns == Spec => []TokensAreRuns
<1>1. Sampled => TokensAreRuns
  <2> SUFFICES ASSUME Sampled, OnText, NEW D \in SUBSET Characters
               PROVE  LET Breaks(k) == k \notin DOMAIN text \/ text[k] \in D
                          starts == {k \in DOMAIN text : Breaks(k - 1) /\ ~ Breaks(k)}
                          End(k) == CHOOSE e \in k .. Len(text) :
                                      Breaks(e + 1) /\ \A j \in k .. e : ~ Breaks(j)
                          tokens == SplitStringRemoveEmpty(text, D)
                      IN  /\ Len(tokens) = Cardinality(starts)
                          /\ \A k \in starts :
                               tokens[Cardinality({j \in starts : j <= k})] = SubSeq(text, k, End(k))
    BY DEF TokensAreRuns
  <2>1. text \in Seq(Characters)
    BY DEF Sampled, OnText, Pair, Packing, Splitting, text
  <2> DEFINE s == text
             S == StartsOf(s, D)
             T == SplitString(s, D)
             tokens == SplitStringRemoveEmpty(s, D)
             N == Len(s)
  <2>2. s \in Seq(Characters) /\ N \in Nat
    BY <2>1
  <2> SUFFICES /\ Len(tokens) = Cardinality(S)
               /\ \A k \in S : tokens[UpTo(S, k)] = RunAt(s, D, k)
    BY Zenon DEF StartsOf, BreaksAt, RunAt, EndOf, UpTo
  <2> HIDE DEF s
  <2>3. T \in Seq(Seq(Characters)) /\ Covers(s, D, T, N + 1)
    BY <2>2, SplitCovers
  <2>4. tokens = Swept(T)
    BY DEF SplitStringRemoveEmpty
  <2> HIDE DEF T, tokens
  <2>5. /\ Len(tokens) = UpTo(Full(T), Len(T))
        /\ \A k \in Full(T) : tokens[UpTo(Full(T), k)] = T[k]
    BY <2>3, <2>4, SweptTokens
  <2>6. \A k \in S : k <= N + 1
    BY <2>2 DEF StartsOf
  <2>7. {k \in S : k <= N + 1} = S
    BY <2>6
  <2>8. Len(tokens) = Cardinality(S)
    BY <2>3, <2>5, <2>7 DEF Covers, UpTo
  <2>9. ASSUME NEW q \in S PROVE tokens[UpTo(S, q)] = RunAt(s, D, q)
    <3>1. PICK k \in Full(T) : T[k] = RunAt(s, D, q) /\ UpTo(Full(T), k) = UpTo(S, q)
      BY <2>3, <2>6 DEF Covers
    <3> QED
      BY <2>5, <3>1
  <2> QED
    BY <2>8, <2>9
<1> QED
  BY <1>1, AlwaysSampled, PTL
=============================================================================
