-------------------------- MODULE AssemblerProofs --------------------------
(***************************************************************************)
(* Proofs about the assembler: for every program, every memory size and    *)
(* every set of names, its two passes agree on where each line begins, its  *)
(* labels stand for those addresses, and memory holds each line's words    *)
(* there.                                                                  *)
(***************************************************************************)
EXTENDS Assembler, InstructionProofs
-----------------------------------------------------------------------------
(* The words of instructions. *)

(* A digit below n and a rest below m make a number below n times m.       *)
LEMMA Combined ==
  ASSUME NEW n \in Int, NEW m \in Int, n > 0, m > 0, NEW d \in 0 .. n - 1, NEW r \in 0 .. m - 1
  PROVE  d + n * r \in 0 .. n * m - 1
<1>1. n * ((m - 1) - r) >= 0 /\ n * r >= 0
  <2>1. \A p, q \in Int : p >= 0 /\ q >= 0 => p * q >= 0
    OBVIOUS
  <2> QED
    BY <2>1
<1>2. n * ((m - 1) - r) = (n * m - n) - n * r /\ n * m \in Int /\ n * r \in Int
  OBVIOUS
<1>3. n * r <= n * m - n
  BY <1>1, <1>2
<1> QED
  BY <1>2, <1>3, <1>1

(* Whatever the operands, an instruction fits its word.                    *)
LEMMA PackedWord ==
  ASSUME NEW op \in Opcodes, NEW layout \in {"R", "I", "U", "D"},
         NEW a \in Int, NEW b \in Int, NEW c \in Int
  PROVE  Packed(op, layout, a, b, c) \in Word
<1> DEFINE k == Code(op)   S == SHORT   C == CHAR   J == INT
           s1 == a % S   s2 == b % S   s3 == c % S   c1 == a % C   c2 == b % C   j == c % J
<1>1. /\ S \in Int /\ S > 0 /\ C \in Int /\ C > 0 /\ J \in Int /\ J > 0
      /\ k \in 0 .. S - 1
  BY Sizes, CodeDigit
<1>2. /\ s1 \in 0 .. S - 1 /\ s2 \in 0 .. S - 1 /\ s3 \in 0 .. S - 1
      /\ c1 \in 0 .. C - 1 /\ c2 \in 0 .. C - 1 /\ j \in 0 .. J - 1
  BY <1>1, DivMod
<1>3. S = C * C /\ J = S * S /\ LONG = J * J
  BY DEF SHORT, INT, LONG
<1>4. /\ Place[3] = S /\ Place[4] = S * C /\ Place[5] = S * S
      /\ Place[7] = S * (S * S) /\ S * S = S * (C * C)
  <2>1. Place[4] = S * C /\ Place[5] = S * S /\ Place[7] = (S * S) * S /\ Place[3] = S
    BY FieldWeights DEF Product
  <2> HIDE DEF S, C
  <2>2. (S * S) * S = S * (S * S)
    BY <1>1
  <2> QED
    BY <2>1, <2>2, <1>3
<1>5. /\ layout = "R" => Packed(op, layout, a, b, c) = k + (s1 * Place[3] + s2 * Place[5] + s3 * Place[7])
      /\ layout = "I" => Packed(op, layout, a, b, c) = k + (c1 * Place[3] + c2 * Place[4] + j * Place[5])
      /\ layout = "U" => Packed(op, layout, a, b, c) = k + (c1 * Place[3] + j * Place[4])
      /\ layout = "D" => Packed(op, layout, a, b, c) = k + s1 * Place[3]
  BY DEF Packed
<1> HIDE DEF k, S, C, J, s1, s2, s3, c1, c2, j
<1>6. S * S \in Int /\ S * S > 0 /\ S * J \in Int /\ S * J > 0 /\ C * J \in Int /\ C * J > 0
      /\ C * (C * J) \in Int /\ C * (C * J) > 0 /\ J * J \in Int /\ S * (C * J) \in Int
      /\ S * (S * S) \in Int /\ S * (S * S) > 0
  <2>1. \A p, q \in Int : p > 0 /\ q > 0 => p * q > 0 /\ p * q \in Int
    OBVIOUS
  <2> QED
    BY <1>1, <2>1
<1>7. LONG = S * (S * (S * S)) /\ LONG = S * (C * (C * J))
  <2>1. (S * S) * (S * S) = S * (S * (S * S))
    BY <1>1
  <2>2. (S * S) * J = S * (S * J) /\ (C * C) * J = C * (C * J)
    BY <1>1
  <2> QED
    BY <2>1, <2>2, <1>3
<1>8. CASE layout = "R"
  <2>1. s2 + S * s3 \in 0 .. S * S - 1
    BY <1>1, <1>2, Combined
  <2>2. s1 + S * (s2 + S * s3) \in 0 .. S * (S * S) - 1
    BY <2>1, <1>1, <1>2, <1>6, Combined
  <2>3. k + S * (s1 + S * (s2 + S * s3)) \in 0 .. S * (S * (S * S)) - 1
    BY <2>2, <1>1, <1>6, Combined
  <2>4. Packed(op, layout, a, b, c) = k + (s1 * S + s2 * (S * S) + s3 * (S * (S * S)))
    BY <1>4, <1>5, <1>8
  <2>5. \A s, d, e, f \in Int : d * s + e * (s * s) + f * (s * (s * s)) = s * (d + s * (e + s * f))
    OBVIOUS
  <2>6. s1 * S + s2 * (S * S) + s3 * (S * (S * S)) = S * (s1 + S * (s2 + S * s3))
    BY <2>5, <1>1, <1>2
  <2> QED
    BY <2>3, <2>4, <2>6, <1>7 DEF Word
<1>9. CASE layout = "I"
  <2>1. c2 + C * j \in 0 .. C * J - 1
    BY <1>1, <1>2, Combined
  <2>2. c1 + C * (c2 + C * j) \in 0 .. C * (C * J) - 1
    BY <2>1, <1>1, <1>2, <1>6, Combined
  <2>3. k + S * (c1 + C * (c2 + C * j)) \in 0 .. S * (C * (C * J)) - 1
    BY <2>2, <1>1, <1>6, Combined
  <2>4. Packed(op, layout, a, b, c) = k + (c1 * S + c2 * (S * C) + j * (S * (C * C)))
    BY <1>4, <1>5, <1>9
  <2>5. \A s, t, d, e, f \in Int :
          d * s + e * (s * t) + f * (s * (t * t)) = s * (d + t * (e + t * f))
    OBVIOUS
  <2>6. c1 * S + c2 * (S * C) + j * (S * (C * C)) = S * (c1 + C * (c2 + C * j))
    BY <2>5, <1>1, <1>2
  <2> QED
    BY <2>3, <2>4, <2>6, <1>7 DEF Word
<1>10. CASE layout = "U"
  <2>1. c1 + C * j \in 0 .. C * J - 1
    BY <1>1, <1>2, Combined
  <2>2. k + S * (c1 + C * j) \in 0 .. S * (C * J) - 1
    BY <2>1, <1>1, <1>6, Combined
  <2>3. Packed(op, layout, a, b, c) = k + (c1 * S + j * (S * C))
    BY <1>4, <1>5, <1>10
  <2>4. \A s, t, d, f \in Int : d * s + f * (s * t) = s * (d + t * f)
    OBVIOUS
  <2>5. c1 * S + j * (S * C) = S * (c1 + C * j)
    BY <2>4, <1>1, <1>2
  <2>6. S * (C * J) <= LONG
    <3>1. \A p, q, r \in Int : p > 0 /\ q > 0 /\ r > 0 => p * q <= p * (r * q)
      OBVIOUS
    <3> QED
      BY <3>1, <1>1, <1>6, <1>7
  <2>7. LONG \in Int
    BY Sizes
  <2> QED
    BY <2>2, <2>3, <2>5, <2>6, <2>7, <1>6 DEF Word
<1>11. CASE layout = "D"
  <2>1. k + S * s1 \in 0 .. S * S - 1
    BY <1>1, <1>2, Combined
  <2>2. Packed(op, layout, a, b, c) = k + S * s1
    <3>1. s1 * S = S * s1
      BY <1>1, <1>2
    <3> QED
      BY <1>4, <1>5, <1>11, <3>1
  <2>3. S * S <= LONG
    <3>1. \A p \in Int : p > 0 => p <= p * p
      OBVIOUS
    <3> QED
      BY <3>1, <1>3, <1>6
  <2>4. LONG \in Int
    BY Sizes
  <2> QED
    BY <2>1, <2>2, <2>3, <2>4, <1>6 DEF Word
<1> QED
  BY <1>8, <1>9, <1>10, <1>11

LEMMA EncodeWord ==
  ASSUME NEW i, i.op \in Opcodes, i.a \in Int, i.b \in Int, i.c \in Int
  PROVE  Encode(i) \in Word
<1>1. {"ADD", "ADDI", "XORI", "SUB", "SUBW", "HALT"} \subseteq Opcodes
  BY DEF Opcodes, Operations
<1>2. Layout(i.op) \in {"R", "I", "U", "D"}
  BY Layouts
<1>3. \A op \in Opcodes, l \in {"R", "I", "U", "D"}, a, b, c \in Int : Packed(op, l, a, b, c) \in Word
  BY PackedWord
<1>4. /\ Packed("ADD", "R", 0, 0, 0) \in Word
      /\ Packed("ADDI", "I", i.a, i.b, 0) \in Word
      /\ Packed("XORI", "I", i.a, i.b, - 1) \in Word
      /\ Packed("SUB", "R", i.a, 0, i.b) \in Word
      /\ Packed("SUBW", "R", i.a, 0, i.b) \in Word
      /\ Packed("HALT", "R", 0, 0, 0) \in Word
  BY <1>1, <1>3
<1>5. Packed(i.op, Layout(i.op), i.a, i.b, i.c) \in Word
  BY <1>2, <1>3
<1>6. CASE i.op \in {"NOP", "MV", "NOT", "NEG", "NEGW", "HALT"}
  BY <1>4, <1>6 DEF Encode
<1>7. CASE i.op \notin {"NOP", "MV", "NOT", "NEG", "NEGW", "HALT"}
  <2>1. Encode(i) = Packed(i.op, Layout(i.op), i.a, i.b, i.c)
    BY <1>7, Zenon DEF Encode
  <2> QED
    BY <1>5, <2>1
<1> QED
  BY <1>6, <1>7

-----------------------------------------------------------------------------
(* Kept, which goes through the operands.                                  *)
PassedOver(o) == o.kind = "offset" /\ o.name \notin DOMAIN RegisterOf

Keepers(operands) == {operands[k] : k \in {j \in DOMAIN operands : ~ PassedOver(operands[j])}}

KeptUpto(operands, f) ==
  f = [k \in 0 .. Len(operands) |->
         IF k = 0 THEN <<>>
         ELSE IF PassedOver(operands[k]) THEN f[k - 1]
         ELSE Append(f[k - 1], operands[k])]

(* Only operands that are not passed over are kept.                        *)
LEMMA KeptOperands ==
  ASSUME NEW operands \in Seq(Operands)
  PROVE  Kept(operands) \in Seq(Keepers(operands))
<1> DEFINE n == Len(operands)
           S == Seq(Keepers(operands))
           Over(k) == PassedOver(operands[k])
           g == [k \in Nat |-> [v \in S |->
                   IF k + 1 \in 1 .. n /\ ~ Over(k + 1) THEN Append(v, operands[k + 1]) ELSE v]]
           upto == CHOOSE f : KeptUpto(operands, f)
<1>1. n \in Nat /\ DOMAIN operands = 1 .. n
  OBVIOUS
<1>2. \A k \in 1 .. n : ~ Over(k) => operands[k] \in Keepers(operands)
  BY <1>1 DEF Keepers
<1>3. \E f : KeptUpto(operands, f)
  <2>1. <<>> \in S
    OBVIOUS
  <2>2. ASSUME NEW k \in Nat, NEW v \in S
        PROVE  (IF k + 1 \in 1 .. n /\ ~ Over(k + 1) THEN Append(v, operands[k + 1]) ELSE v) \in S
    <3> HIDE DEF Over, n
    <3> QED
      BY <1>2
  <2>3. g \in [Nat -> [S -> S]]
    BY <2>2
  <2> HIDE DEF g, S
  <2>4. PICK f : Runs(f, S, <<>>, g)
    BY <2>1, <2>3, Recursion, Zenon
  <2> DEFINE s == [k \in 0 .. n |-> f[k]]
  <2>5. ASSUME NEW k \in 0 .. n
        PROVE  s[k] = IF k = 0 THEN <<>>
                      ELSE IF Over(k) THEN s[k - 1]
                      ELSE Append(s[k - 1], operands[k])
    <3>1. CASE k = 0
      BY <3>1, <2>4 DEF Runs
    <3>2. CASE k # 0
      <4>1. k - 1 \in Nat /\ (k - 1) + 1 = k /\ k \in 1 .. n /\ k - 1 \in 0 .. n
        BY <3>2
      <4>2. f[k] = g[k - 1][f[k - 1]] /\ f[k - 1] \in S
        BY <4>1, <2>4 DEF Runs
      <4> HIDE DEF Over
      <4>3. f[k] = IF ~ Over(k) THEN Append(f[k - 1], operands[k]) ELSE f[k - 1]
        BY <4>1, <4>2 DEF g
      <4> QED
        BY <4>1, <4>3, <3>2
    <3> QED
      BY <3>1, <3>2
  <2>6. s = [k \in 0 .. n |-> s[k]]
    OBVIOUS
  <2> HIDE DEF s
  <2>7. KeptUpto(operands, s)
    BY <2>5, <2>6, Zenon DEF KeptUpto
  <2> QED
    BY <2>7
<1>4. KeptUpto(operands, upto)
  BY <1>3, Zenon
<1>5. upto[n] \in S
  <2> DEFINE T == {k \in Nat : k \in 0 .. n => upto[k] \in S}
  <2> HIDE DEF upto
  <2>1. 0 \in T
    BY <1>4 DEF KeptUpto
  <2>2. ASSUME NEW k \in Nat, k \in T PROVE k + 1 \in T
    <3> SUFFICES ASSUME k + 1 \in 0 .. n PROVE upto[k + 1] \in S
      OBVIOUS
    <3>1. k + 1 # 0 /\ (k + 1) - 1 = k /\ k + 1 \in 1 .. n /\ k \in 0 .. n
      OBVIOUS
    <3> HIDE DEF n
    <3>2. upto[k + 1] = IF Over(k + 1) THEN upto[k] ELSE Append(upto[k], operands[k + 1])
      BY <3>1, <1>4 DEF KeptUpto, n
    <3> HIDE DEF Over
    <3> QED
      BY <3>1, <3>2, <2>2, <1>2
  <2>3. Nat \subseteq T
    BY <2>1, <2>2, InductionBySet
  <2> QED
    BY <2>3, <1>1
<1>6. Kept(operands) = upto[n]
  BY Zenon DEF Kept, KeptUpto, PassedOver
<1> HIDE DEF upto
<1> QED
  BY <1>5, <1>6

-----------------------------------------------------------------------------
(* The words that a statement comes to.                                    *)
(* What the second pass may take a line for. *)
Readings == Statements \cup {Remark}

LEMMA KindOf ==
  ASSUME NEW s \in Readings
  PROVE  \/ s = NoStatement
         \/ s = Malformed
         \/ s.kind = "data" /\ s.size \in Widths /\ s.value \in Int
         \/ s.kind = "text" /\ s.chars \in Seq(Byte)
         \/ s.kind = "op" /\ s.operands \in Seq(Operands)
<1>1. Remark.kind = "op" /\ Remark.operands = <<>> /\ <<>> \in Seq(Operands)
  BY DEF Remark, Op
<1> QED
  BY <1>1 DEF Statements, Readings

(* A table of labels. *)
IsTable(t) == DOMAIN t \subseteq Name /\ t \in [DOMAIN t -> Nat]

LEMMA ResolvedType ==
  ASSUME NEW operands \in Seq(Operands), NEW t, IsTable(t), ~ Unresolved(operands, t),
         NEW o \in Keepers(operands)
  PROVE  Resolved(o, t).id \in 0 .. CHAR - 1 /\ Resolved(o, t).value \in Int
<1>1. PICK k \in DOMAIN operands : o = operands[k] /\ ~ PassedOver(o)
  BY DEF Keepers
<1>2. o \in Operands
  BY <1>1
<1>3. 0 \in 0 .. CHAR - 1 /\ RegisterOf \in [DOMAIN RegisterOf -> 0 .. CHAR - 1]
  <2>1. CHAR \in Int /\ CHAR > 0
    BY Sizes
  <2> QED
    BY <2>1, AssemblerAssumption
<1>4. CASE o.kind = "number"
  <2>1. o.value \in Int
    BY <1>2, <1>4 DEF Operands
  <2>2. Resolved(o, t) = [id |-> 0, value |-> o.value]
    BY <1>4 DEF Resolved
  <2> QED
    BY <1>3, <2>1, <2>2
<1>5. CASE o.kind = "offset"
  <2>1. o.value \in Int /\ o.name \in DOMAIN RegisterOf
    BY <1>1, <1>2, <1>5 DEF Operands, PassedOver
  <2>2. Resolved(o, t) = [id |-> RegisterOf[o.name], value |-> o.value]
    BY <1>5 DEF Resolved
  <2> QED
    BY <1>3, <2>1, <2>2
<1>6. CASE o.kind = "name" /\ o.name \in DOMAIN RegisterOf
  <2>1. Resolved(o, t) = [id |-> RegisterOf[o.name], value |-> 0]
    BY <1>6 DEF Resolved
  <2> QED
    BY <1>3, <1>6, <2>1
<1>7. CASE o.kind = "name" /\ o.name \notin DOMAIN RegisterOf
  <2>1. o.name \in DOMAIN t
    BY <1>1, <1>7 DEF Unresolved
  <2>2. t[o.name] \in Int
    BY <2>1 DEF IsTable
  <2>3. Wrapped(t[o.name], INT) \in Int
    BY <2>2, WrappedType
  <2>4. Resolved(o, t) = [id |-> 0, value |-> Wrapped(t[o.name], INT)]
    BY <1>7 DEF Resolved
  <2> QED
    BY <1>3, <2>3, <2>4
<1> QED
  BY <1>2, <1>4, <1>5, <1>6, <1>7 DEF Operands

LEMMA ChosenType ==
  ASSUME NEW name, NEW op \in Chosen(name), op # "none"
  PROVE  op \in Opcodes
<1>1. "SRAI" \in Opcodes
  BY DEF Opcodes, Operations
<1> QED
  BY <1>1 DEF Chosen, Mnemonics

(* The operands as getInstruction resolves them. *)
Syms(operands, t) ==
  LET kept == Kept(operands) IN [k \in 1 .. Len(kept) |-> Resolved(kept[k], t)]

LEMMA SymsType ==
  ASSUME NEW operands \in Seq(Operands), NEW t, IsTable(t), ~ Unresolved(operands, t)
  PROVE  /\ Len(Syms(operands, t)) = Len(Kept(operands))
         /\ Len(Kept(operands)) \in Nat
         /\ \A k \in 1 .. Len(Kept(operands)) :
              /\ Kept(operands)[k] \in Keepers(operands)
              /\ Syms(operands, t)[k] = Resolved(Kept(operands)[k], t)
              /\ Syms(operands, t)[k].id \in 0 .. CHAR - 1
              /\ Syms(operands, t)[k].value \in Int
<1> DEFINE kept == Kept(operands)
<1>1. kept \in Seq(Keepers(operands))
  BY KeptOperands
<1>2. \A o \in Keepers(operands) : Resolved(o, t).id \in 0 .. CHAR - 1 /\ Resolved(o, t).value \in Int
  BY ResolvedType
<1>3. Syms(operands, t) = [k \in 1 .. Len(kept) |-> Resolved(kept[k], t)]
  BY DEF Syms
<1> HIDE DEF kept
<1>4. Len(kept) \in Nat /\ \A k \in 1 .. Len(kept) : kept[k] \in Keepers(operands)
  BY <1>1
<1>5. /\ Len(Syms(operands, t)) = Len(kept)
      /\ \A k \in 1 .. Len(kept) : Syms(operands, t)[k] = Resolved(kept[k], t)
  BY <1>3, <1>4
<1> QED
  BY <1>2, <1>4, <1>5 DEF kept

LEMMA AssembledType ==
  ASSUME NEW op \in Opcodes, NEW s, NEW n \in Nat, Needs(op) <= n,
         \A k \in 1 .. n : s[k].id \in 0 .. CHAR - 1 /\ s[k].value \in Int
  PROVE  LET i == Assembled(op, s)
         IN  /\ i.op = op /\ i.a \in 0 .. CHAR - 1 /\ i.b \in 0 .. CHAR - 1 /\ i.c \in Int
             /\ op \in ThreeRegister => i.c \in 0 .. CHAR - 1
             /\ op \notin {"PRINT", "NOP", "HALT"} => i.a = s[1].id /\ 1 <= Needs(op)
             /\ op \in Stores \cup {"JALR"} => i.b = s[2].id
             /\ op = "JALR" => i.c = s[3].value
<1>1. CHAR \in Int /\ CHAR > 0
  BY Sizes
<1>2. /\ \A k \in 1 .. n : /\ s[k].id \in 0 .. CHAR - 1 /\ s[k].id \in Int
                           /\ s[k].value \in Int /\ s[k].value % CHAR \in 0 .. CHAR - 1
      /\ 0 \in 0 .. CHAR - 1
  BY <1>1
<1>3. Needs(op) \in {0, 1, 2, 3}
  BY DEF Needs
<1>4. CASE op \in ThreeRegister
  <2>1. op \notin WithImmediate \cup Branches \cup Uppers \cup Inputs
                  \cup {"JALR", "PRINT", "DEBUG", "NOP", "HALT"}
    BY <1>4, Groups
  <2>2. Needs(op) = 3 /\ Assembled(op, s) = Instruction(op, s[1].id, s[2].id, s[3].id)
    BY <1>4, <2>1 DEF Needs, Assembled
  <2> QED
    BY <1>2, <2>1, <2>2, Groups DEF Instruction
<1>5. CASE op \in WithImmediate \cup Branches \cup {"JALR"}
  <2>1. op \notin ThreeRegister \cup Uppers \cup Inputs \cup {"PRINT", "DEBUG", "NOP", "HALT"}
    BY <1>5, Groups
  <2>2. Needs(op) = 3 /\ Assembled(op, s) = Instruction(op, s[1].id, s[2].id, s[3].value)
    BY <1>5, <2>1 DEF Needs, Assembled
  <2> QED
    BY <1>2, <2>1, <2>2, Groups DEF Instruction
<1>6. CASE op \in Inputs
  <2>1. op \notin ThreeRegister \cup WithImmediate \cup Branches \cup Uppers
                  \cup {"JALR", "PRINT", "DEBUG", "NOP", "HALT"}
    BY <1>6, Groups
  <2>2. Needs(op) = 1
    BY <1>6, <2>1, Groups DEF Needs
  <2>3. Assembled(op, s) = Instruction(op, s[1].id, 0, s[1].value)
    BY <1>6, <2>1 DEF Assembled
  <2>4. op \notin Stores
    BY <1>6, Groups
  <2> QED
    BY <1>2, <2>1, <2>2, <2>3, <2>4, <1>6 DEF Instruction
<1>7. CASE op = "DEBUG"
  <2>1. op \notin ThreeRegister \cup WithImmediate \cup Branches \cup Uppers \cup Inputs
                  \cup {"JALR", "PRINT", "NOP", "HALT"}
    BY <1>7, Groups
  <2>2. Needs(op) = 1
    BY <1>7, <2>1, Groups DEF Needs
  <2>3. Assembled(op, s) = Instruction(op, s[1].id, 0, 0)
    BY <1>7, <2>1 DEF Assembled
  <2>4. op \notin Stores
    BY <1>7, Groups
  <2> QED
    BY <1>2, <2>1, <2>2, <2>3, <2>4, <1>7 DEF Instruction
<1>8. CASE op \in {"NOP", "HALT"}
  <2>1. op \notin ThreeRegister \cup WithImmediate \cup Branches \cup Uppers \cup Inputs \cup {"JALR", "PRINT", "DEBUG"}
    BY <1>8, Groups
  <2>3. Assembled(op, s) = Instruction(op, 0, 0, 0)
    BY <1>8, <2>1 DEF Assembled
  <2>4. op \notin Stores
    BY <1>8, Groups
  <2> QED
    BY <1>2, <2>1, <2>3, <2>4, <1>8 DEF Instruction
<1>9. CASE op \in Uppers \cup {"PRINT"}
  <2>1. op \notin ThreeRegister \cup WithImmediate \cup Branches \cup Inputs \cup {"JALR", "DEBUG", "NOP", "HALT"}
    BY <1>9, Groups
  <2>2. Needs(op) = 2 /\ (op = "PRINT" => op \notin Uppers)
    BY <1>9, <2>1, Groups DEF Needs
  <2>3. Assembled(op, s) = IF op = "PRINT" THEN Instruction(op, s[1].value % CHAR, s[2].id, s[2].value)
                           ELSE Instruction(op, s[1].id, 0, s[2].value)
    BY <1>9, <2>1, <2>2 DEF Assembled
  <2>4. op \notin Stores
    BY <1>9, Groups
  <2> QED
    BY <1>2, <2>1, <2>2, <2>3, <2>4, <1>9 DEF Instruction
<1>10. CASE op \notin ThreeRegister \cup WithImmediate \cup Branches \cup Inputs \cup Uppers
                  \cup {"JALR", "DEBUG", "NOP", "HALT", "PRINT"}
  <2>2. Needs(op) = 2
    BY <1>10 DEF Needs
  <2>3. Assembled(op, s) = Instruction(op, s[1].id, s[2].id, s[2].value)
    BY <1>10 DEF Assembled
  <2> QED
    BY <1>2, <1>10, <2>2, <2>3, Groups DEF Instruction
<1> QED
  BY <1>4, <1>5, <1>6, <1>7, <1>8, <1>9, <1>10

(* A statement comes to as many words as the first pass counts for it.     *)
LEMMA WordsType ==
  ASSUME NEW s \in Readings, NEW t, IsTable(t), NEW words \in WordsOf(s, t)
  PROVE  words \in Seq(Word) /\ Len(words) * INSTRUCTION_LENGTH = StatementLength(s)
<1>1. 0 \in Word /\ LONG \in Int /\ LONG > 0
  BY Sizes DEF Word
<1>2. CASE s = NoStatement
  <2>1. WordsOf(s, t) = {<<>>} /\ StatementLength(s) = 0
    BY <1>2 DEF WordsOf, StatementLength, NoStatement
  <2> QED
    BY <2>1 DEF INSTRUCTION_LENGTH
<1>3. CASE s = Malformed
  <2>1. WordsOf(s, t) = {}
    BY <1>3 DEF WordsOf, Malformed
  <2> QED
    BY <2>1
<1>4. CASE s.kind = "data" /\ s.size \in Widths /\ s.value \in Int
  <2>1. words = <<Write(0, Values(s.size), s.value)>> /\ StatementLength(s) = INSTRUCTION_LENGTH
    BY <1>4 DEF WordsOf, StatementLength
  <2>2. Write(0, Values(s.size), s.value) \in Word
    BY <1>1, <1>4, WriteInWord
  <2> QED
    BY <2>1, <2>2 DEF INSTRUCTION_LENGTH
<1>5. CASE s.kind = "text" /\ s.chars \in Seq(Byte)
  <2> DEFINE n == Len(s.chars)
  <2>1. n \in Nat
    BY <1>5
  <2>2. words = [k \in 1 .. n + 1 |-> IF k > n THEN 0 ELSE Write(0, CHAR, s.chars[k])]
    BY <1>5 DEF WordsOf
  <2>3. StatementLength(s) = (n + 1) * INSTRUCTION_LENGTH
    BY <1>5 DEF StatementLength
  <2>4. ASSUME NEW k \in 1 .. n PROVE Write(0, CHAR, s.chars[k]) \in Word
    <3>1. s.chars[k] \in Int
      BY <1>5, WordsAssumption DEF Byte
    <3>2. Values(1) = CHAR /\ 1 \in Widths
      BY DEF Values, Widths
    <3> QED
      BY <1>1, <3>1, <3>2, WriteInWord
  <2> HIDE DEF n
  <2>5. \A k \in 1 .. n + 1 : (IF k > n THEN 0 ELSE Write(0, CHAR, s.chars[k])) \in Word
    BY <1>1, <2>1, <2>4
  <2>6. words \in [1 .. n + 1 -> Word] /\ Len(words) = n + 1
    BY <2>1, <2>2, <2>5
  <2> QED
    BY <2>1, <2>3, <2>6
<1>6. CASE s.kind = "op" /\ s.operands \in Seq(Operands)
  <2> DEFINE syms == Syms(s.operands, t)
  <2>1. /\ ~ Unresolved(s.operands, t)
        /\ \E op \in Chosen(s.name) \ {"none"} :
             Needs(op) <= Len(syms) /\ words = <<Encode(Assembled(op, syms))>>
    BY <1>6 DEF WordsOf, Syms
  <2>2. PICK op \in Chosen(s.name) \ {"none"} :
          Needs(op) <= Len(syms) /\ words = <<Encode(Assembled(op, syms))>>
    BY <2>1
  <2>3. op \in Opcodes
    BY ChosenType
  <2>4. /\ Len(syms) \in Nat
        /\ \A k \in 1 .. Len(syms) : syms[k].id \in 0 .. CHAR - 1 /\ syms[k].value \in Int
    BY <1>6, <2>1, SymsType
  <2> HIDE DEF syms
  <2> DEFINE i == Assembled(op, syms)
  <2>5. i.op \in Opcodes /\ i.a \in Int /\ i.b \in Int /\ i.c \in Int
    BY <2>2, <2>3, <2>4, AssembledType
  <2> HIDE DEF i
  <2>6. Encode(i) \in Word
    BY <2>5, EncodeWord
  <2>7. StatementLength(s) = INSTRUCTION_LENGTH
    BY <1>6 DEF StatementLength
  <2> QED
    BY <2>2, <2>6, <2>7 DEF i, INSTRUCTION_LENGTH
<1> QED
  BY <1>2, <1>3, <1>4, <1>5, <1>6, KindOf

-----------------------------------------------------------------------------
(* What the invariance proofs say of lines, addresses and labels.          *)

(* Where the first pass comes to a line, and where that line ends. *)
EndOf(text, s, k) == s[k] + LengthOfLine(text[k])

AddressOf(text, s, k) == IF k = 1 THEN 0 ELSE EndOf(text, s, k - 1)

TypeInv == AssemblerTypeOK /\ lines \in Seq(Lines)

(* The addresses follow one another, and the pointer follows them.         *)
Counted ==
  /\ Len(starts) <= Len(lines)
  /\ \A k \in 1 .. Len(starts) : starts[k] = AddressOf(lines, starts, k) /\ starts[k] % INSTRUCTION_LENGTH = 0
  /\ \A j, k \in 1 .. Len(starts) : j < k => EndOf(lines, starts, j) <= starts[k]
  /\ phase = "first" => Len(starts) = at - 1 /\ pointer = AddressOf(lines, starts, at)
  /\ Assembling => Len(starts) = Len(lines)
  /\ Assembling /\ AllPlain => pointer = AddressOf(lines, starts, at)

(* The first line that enters its label.                                   *)
FirstSeen(k) ==
  /\ SeesLabel(lines[k])
  /\ \A j \in 1 .. k - 1 : ~ (SeesLabel(lines[j]) /\ lines[j].label = lines[k].label)

(* The table holds the labels of the lines counted so far, and no others.  *)
Entered ==
  phase = "first" \/ Assembling =>
    /\ \A n \in DOMAIN table :
         \E k \in 1 .. Len(starts) : SeesLabel(lines[k]) /\ lines[k].label = n
    /\ \A k \in 1 .. Len(starts) :
         FirstSeen(k) => lines[k].label \in DOMAIN table /\ table[lines[k].label] = starts[k]

Filled ==
  /\ phase = "first" => \A c \in Slot : image[c] = 0
  /\ ImageInPlace

AssemblerInv == TypeInv /\ Counted /\ Entered /\ Filled

LEMMA TableOK ==
  ASSUME AssemblerTypeOK
  PROVE  IsTable(table)
BY DEF AssemblerTypeOK, IsTable

LEMMA LineType ==
  ASSUME NEW line \in Lines
  PROVE  /\ line.statement \in Statements
         /\ OperationOf(line) \in Readings
         /\ LengthOfLine(line) \in Nat /\ LengthOfLine(line) % INSTRUCTION_LENGTH = 0
         /\ Labelled(line) => line.label \in Name
         /\ Plain(line) => /\ OperationOf(line) = line.statement
                           /\ LengthOfLine(line) = StatementLength(line.statement)
                           /\ SeesLabel(line) <=> Labelled(line)
<1>1. line.statement \in Statements /\ line.label \in Name \cup {NoLabel}
  BY DEF Lines
<1>2. Malformed \in Statements /\ NoStatement \in Statements
  BY DEF Statements
<1>4. OperationOf(line) \in {Malformed, Remark, NoStatement, line.statement}
  BY DEF OperationOf
<1>5. ASSUME NEW s \in Statements
      PROVE  StatementLength(s) \in Nat /\ StatementLength(s) % INSTRUCTION_LENGTH = 0
  <2>1. CASE s.kind = "text"
    <3>1. s.chars \in Seq(Byte)
      BY <2>1 DEF Statements, NoStatement, Malformed
    <3>2. Len(s.chars) \in Nat
      BY <3>1
    <3>3. StatementLength(s) = (Len(s.chars) + 1) * INSTRUCTION_LENGTH
      BY <2>1 DEF StatementLength
    <3>4. \A l \in Nat : (l + 1) * 8 \in Nat /\ ((l + 1) * 8) % 8 = 0
      OBVIOUS
    <3>5. (Len(s.chars) + 1) * 8 \in Nat /\ ((Len(s.chars) + 1) * 8) % 8 = 0
      BY <3>2, <3>4
    <3> QED
      BY <3>3, <3>5 DEF INSTRUCTION_LENGTH
  <2>2. CASE s.kind # "text"
    BY <2>2 DEF StatementLength, INSTRUCTION_LENGTH
  <2> QED
    BY <2>1, <2>2
<1>6. LengthOfLine(line) \in Nat /\ LengthOfLine(line) % INSTRUCTION_LENGTH = 0
  <2>1. INSTRUCTION_LENGTH \in Nat /\ INSTRUCTION_LENGTH % INSTRUCTION_LENGTH = 0
    BY DEF INSTRUCTION_LENGTH
  <2> QED
    BY <1>1, <1>5, <2>1 DEF LengthOfLine
<1>7. Plain(line) => /\ OperationOf(line) = line.statement
                     /\ LengthOfLine(line) = StatementLength(line.statement)
                     /\ SeesLabel(line) <=> Labelled(line)
  BY DEF Plain, OperationOf, LengthOfLine, SeesLabel
<1> QED
  BY <1>1, <1>2, <1>4, <1>6, <1>7 DEF Labelled, Readings

LEMMA LinesType ==
  ASSUME lines \in Seq(Lines)
  PROVE  /\ Len(lines) \in Nat /\ DOMAIN lines = 1 .. Len(lines)
         /\ \A k \in 1 .. Len(lines) :
              lines[k] \in Lines /\ LengthOfLine(lines[k]) \in Nat /\ LengthOfLine(lines[k]) % INSTRUCTION_LENGTH = 0
<1>1. Len(lines) \in Nat /\ DOMAIN lines = 1 .. Len(lines) /\ \A k \in 1 .. Len(lines) : lines[k] \in Lines
  OBVIOUS
<1> QED
  BY <1>1, LineType

(* As many words fit as there are, at most.                                *)
LEMMA FittingWordsType ==
  ASSUME NEW words \in Seq(Word), pointer \in Nat
  PROVE  /\ FittingWords(words) \in 0 .. Len(words)
         /\ FittingWords(words) # 0 =>
              pointer + FittingWords(words) * INSTRUCTION_LENGTH <= MAXMEMORY + PAGESIZE
<1> DEFINE l == Len(words)
           Fits(k) == pointer + k * INSTRUCTION_LENGTH <= MAXMEMORY + PAGESIZE
           S == {n \in 0 .. l : n = l \/ ~ Fits(n + 1)}
<1>1. l \in Nat
  OBVIOUS
<1> HIDE DEF l, Fits
<1>2. S \subseteq Nat /\ l \in S
  BY <1>1
<1>3. PICK n \in S : \A m \in S : n <= m
  BY <1>2, LeastNumber
<1>4. n = 0 \/ Fits(n)
  <2> SUFFICES ASSUME n # 0, ~ Fits(n) PROVE FALSE
    OBVIOUS
  <2>1. n - 1 \in 0 .. l /\ (n - 1) + 1 = n
    BY <1>1, <1>3
  <2>2. n - 1 \in S
    BY <2>1
  <2> QED
    BY <2>2, <1>3, <1>2
<1>5. \E m \in 0 .. l : (m = 0 \/ Fits(m)) /\ (m = l \/ ~ Fits(m + 1))
  BY <1>3, <1>4
<1>6. FittingWords(words) = CHOOSE m \in 0 .. l : (m = 0 \/ Fits(m)) /\ (m = l \/ ~ Fits(m + 1))
  BY Zenon DEF FittingWords, Fits, l
<1>7. FittingWords(words) \in 0 .. l /\ (FittingWords(words) = 0 \/ Fits(FittingWords(words)))
  BY <1>5, <1>6, Zenon
<1> QED
  BY <1>7 DEF l, Fits

LEMMA SlotType == Slot \subseteq Nat
<1>1. MAXMEMORY \in Nat
  BY PlatformAssumption
<1> QED
  BY <1>1 DEF Slot, INSTRUCTION_LENGTH

LEMMA PouredWordsType ==
  ASSUME NEW words \in Seq(Word), NEW n \in 0 .. Len(words), pointer \in Nat,
         image \in [Slot -> Word]
  PROVE  PouredWords(image, words, n) \in [Slot -> Word]
<1> DEFINE first == pointer \div INSTRUCTION_LENGTH
<1>1. first \in Int /\ Len(words) \in Nat /\ n \in Int
  BY DEF INSTRUCTION_LENGTH
<1>2. PouredWords(image, words, n) =
        [c \in Slot |-> IF c \in first .. first + n - 1 THEN words[(c - first) + 1] ELSE image[c]]
  BY DEF PouredWords
<1> HIDE DEF first
<1>3. ASSUME NEW c \in Slot
      PROVE  (IF c \in first .. first + n - 1 THEN words[(c - first) + 1] ELSE image[c]) \in Word
  <2>1. CASE c \in first .. first + n - 1
    <3>1. (c - first) + 1 \in 1 .. Len(words)
      BY <1>1, <2>1
    <3> QED
      BY <2>1, <3>1
  <2>2. CASE c \notin first .. first + n - 1
    BY <2>2
  <2> QED
    BY <2>1, <2>2
<1> QED
  BY <1>2, <1>3

LEMMA InsertedType ==
  ASSUME NEW t, IsTable(t), NEW n \in Name, NEW a \in Nat
  PROVE  /\ IsTable(Inserted(t, n, a))
         /\ DOMAIN Inserted(t, n, a) = DOMAIN t \cup {n}
         /\ \A m \in DOMAIN t : Inserted(t, n, a)[m] = t[m]
         /\ n \notin DOMAIN t => Inserted(t, n, a)[n] = a
BY DEF Inserted, IsTable

(* A line ends before the next begins.                                     *)
LEMMA EndsBefore ==
  ASSUME TypeInv, Counted, NEW k \in 1 .. Len(starts) + 1, NEW j \in 1 .. k - 1
  PROVE  EndOf(lines, starts, j) <= AddressOf(lines, starts, k) /\ starts[j] \in Nat /\ EndOf(lines, starts, j) \in Nat
<1>1. Len(starts) \in Nat /\ \A i \in 1 .. Len(starts) : starts[i] \in Nat
  BY DEF TypeInv, AssemblerTypeOK
<1>2. \A i \in 1 .. Len(starts) : LengthOfLine(lines[i]) \in Nat
  BY <1>1, LinesType DEF TypeInv, Counted
<1>3. k - 1 \in 1 .. Len(starts) /\ j \in 1 .. Len(starts) /\ k # 1 /\ k \in Int /\ j \in Int /\ j <= k - 1
  BY <1>1
<1>4. AddressOf(lines, starts, k) = starts[k - 1] + LengthOfLine(lines[k - 1])
  BY <1>3 DEF AddressOf, EndOf
<1>5. EndOf(lines, starts, j) = starts[j] + LengthOfLine(lines[j])
  BY DEF EndOf
<1>6. starts[k - 1] \in Nat /\ LengthOfLine(lines[k - 1]) \in Nat /\ starts[j] \in Nat /\ LengthOfLine(lines[j]) \in Nat
  BY <1>1, <1>2, <1>3
<1>7. CASE j = k - 1
  BY <1>4, <1>5, <1>6, <1>7
<1>8. CASE j < k - 1
  <2>1. EndOf(lines, starts, j) <= starts[k - 1]
    BY <1>3, <1>8 DEF Counted
  <2> QED
    BY <2>1, <1>4, <1>5, <1>6
<1> QED
  BY <1>3, <1>7, <1>8

-----------------------------------------------------------------------------
(* Every step keeps the invariant.                                         *)

LEMMA InitKept ==
  ASSUME NEW text \in Programs, Constructed(text)
  PROVE  AssemblerInv
<1>1. 0 \in Word /\ LONG \in Int
  BY Sizes DEF Word
<1>2. lines \in Seq(Lines)
  BY ProgramsAssumption DEF Constructed
<1>3. TypeInv
  <2>1. table \in [DOMAIN table -> Nat] /\ DOMAIN table \subseteq Name
    BY DEF Constructed
  <2>2. image \in [Slot -> Word]
    BY <1>1 DEF Constructed
  <2>3. at \in 1 .. Len(lines) + 1 /\ pointer \in Nat /\ pointer % INSTRUCTION_LENGTH = 0
    BY <1>2 DEF Constructed, INSTRUCTION_LENGTH
  <2>4. starts \in Seq(Nat) /\ phase \in {"first", "second", "done", "threw", "killed"}
    BY DEF Constructed
  <2> QED
    BY <1>2, <2>1, <2>2, <2>3, <2>4 DEF TypeInv, AssemblerTypeOK
<1>4. starts = <<>> /\ Len(starts) = 0 /\ ~ Assembling /\ phase = "first"
  BY DEF Constructed, Assembling
<1>5. Counted
  BY <1>2, <1>4 DEF Constructed, Counted, AddressOf
<1>6. Entered
  BY <1>4 DEF Constructed, Entered
<1>7. Filled
  BY <1>4 DEF Constructed, Filled, ImageInPlace
<1> QED
  BY <1>3, <1>5, <1>6, <1>7 DEF AssemblerInv

(* The line that a pass takes. *)
LEMMA LineTaken ==
  ASSUME TypeInv, at <= Len(lines)
  PROVE  /\ at \in 1 .. Len(lines) /\ at \in Nat /\ at + 1 \in 1 .. Len(lines) + 1
         /\ lines[at] \in Lines
<1>1. Len(lines) \in Nat /\ at \in 1 .. Len(lines) + 1
  BY LinesType DEF TypeInv, AssemblerTypeOK
<1> QED
  BY <1>1, LinesType DEF TypeInv

LEMMA ScanKeeps ==
  ASSUME AssemblerInv, Scan
  PROVE  AssemblerInv'
<1> DEFINE line == lines[at]   l == LengthOfLine(line)
<1>1. TypeInv /\ Counted /\ Entered /\ Filled
  BY DEF AssemblerInv
<1>2. at \in 1 .. Len(lines) /\ at \in Nat /\ at + 1 \in 1 .. Len(lines) + 1 /\ line \in Lines
  BY <1>1, LineTaken DEF Scan
<1>3. /\ phase = "first" /\ phase' = "first" /\ ~ Assembling /\ ~ Assembling'
      /\ lines' = lines /\ image' = image /\ at' = at + 1
      /\ starts' = Append(starts, pointer) /\ pointer' = pointer + l
      /\ table' = IF SeesLabel(line) THEN Inserted(table, line.label, pointer) ELSE table
  BY DEF Scan, Assembling
<1>4. l \in Nat /\ l % INSTRUCTION_LENGTH = 0 /\ (SeesLabel(line) => line.label \in Name)
  BY <1>2, LineType DEF SeesLabel
<1>5. /\ starts \in Seq(Nat) /\ pointer \in Nat /\ pointer % INSTRUCTION_LENGTH = 0
      /\ image \in [Slot -> Word] /\ lines \in Seq(Lines) /\ Len(starts) = at - 1
      /\ pointer = AddressOf(lines, starts, at) /\ Len(lines) \in Nat
  BY <1>1, <1>3, LinesType DEF TypeInv, AssemblerTypeOK, Counted
<1>6. /\ Len(starts') = at /\ starts'[at] = pointer /\ starts' \in Seq(Nat)
      /\ \A k \in 1 .. at - 1 : starts'[k] = starts[k] /\ starts[k] \in Nat
  BY <1>2, <1>3, <1>5
<1>7. /\ \A n \in DOMAIN table : n \in DOMAIN table' /\ table'[n] = table[n]
      /\ IsTable(table')
      /\ SeesLabel(line) => /\ DOMAIN table' = DOMAIN table \cup {line.label}
                            /\ line.label \notin DOMAIN table => table'[line.label] = pointer
      /\ ~ SeesLabel(line) => DOMAIN table' = DOMAIN table
  <2>1. IsTable(table)
    BY <1>1, TableOK DEF TypeInv
  <2>2. CASE SeesLabel(line)
    <3>1. line.label \in Name /\ pointer \in Nat /\ table' = Inserted(table, line.label, pointer)
      BY <2>2, <1>3, <1>4, <1>5
    <3>2. /\ IsTable(Inserted(table, line.label, pointer))
          /\ DOMAIN Inserted(table, line.label, pointer) = DOMAIN table \cup {line.label}
          /\ \A m \in DOMAIN table : Inserted(table, line.label, pointer)[m] = table[m]
          /\ line.label \notin DOMAIN table => Inserted(table, line.label, pointer)[line.label] = pointer
      BY <2>1, <3>1, InsertedType
    <3> HIDE DEF line
    <3> QED
      BY <2>2, <3>1, <3>2
  <2>3. CASE ~ SeesLabel(line)
    BY <2>1, <2>3, <1>3
  <2> QED
    BY <2>2, <2>3
<1>8. TypeInv'
  <2>1. pointer' \in Nat /\ pointer' % INSTRUCTION_LENGTH = 0
    <3> HIDE DEF l
    <3>1. \A x, y \in Nat : x % 8 = 0 /\ y % 8 = 0 => x + y \in Nat /\ (x + y) % 8 = 0
      OBVIOUS
    <3> QED
      BY <3>1, <1>3, <1>4, <1>5 DEF INSTRUCTION_LENGTH
  <2>2. DOMAIN table' \subseteq Name /\ table' \in [DOMAIN table' -> Nat]
    BY <1>7 DEF IsTable
  <2>3. at' \in 1 .. Len(lines') + 1 /\ image' \in [Slot -> Word] /\ lines' \in Seq(Lines)
    BY <1>2, <1>3, <1>5
  <2> QED
    BY <2>1, <2>2, <2>3, <1>3, <1>6 DEF TypeInv, AssemblerTypeOK
<1>9. \A k \in 1 .. at - 1 :
        /\ EndOf(lines, starts', k) = EndOf(lines, starts, k)
        /\ AddressOf(lines, starts', k) = AddressOf(lines, starts, k)
        /\ k \in 1 .. Len(starts)
  BY <1>2, <1>5, <1>6 DEF EndOf, AddressOf
<1>10. /\ EndOf(lines, starts', at) = pointer + l
       /\ AddressOf(lines, starts', at + 1) = pointer + l
       /\ AddressOf(lines, starts', at) = pointer
  BY <1>2, <1>5, <1>6 DEF EndOf, AddressOf
<1>11. \A j \in 1 .. at - 1 : EndOf(lines, starts, j) <= pointer
  BY <1>1, <1>2, <1>5, EndsBefore
<1>12. Counted'
  <2>1. \A k \in 1 .. at : starts'[k] = AddressOf(lines, starts', k) /\ starts'[k] % INSTRUCTION_LENGTH = 0
    <3>1. ASSUME NEW k \in 1 .. at - 1
          PROVE  starts'[k] = AddressOf(lines, starts', k) /\ starts'[k] % INSTRUCTION_LENGTH = 0
      BY <1>1, <1>6, <1>9 DEF Counted
    <3> QED
      BY <3>1, <1>2, <1>5, <1>6, <1>10
  <2>2. \A j, k \in 1 .. at : j < k => EndOf(lines, starts', j) <= starts'[k]
    <3>1. ASSUME NEW j \in 1 .. at - 1, NEW k \in 1 .. at - 1, j < k
          PROVE  EndOf(lines, starts', j) <= starts'[k]
      BY <3>1, <1>1, <1>6, <1>9 DEF Counted
    <3>2. ASSUME NEW j \in 1 .. at - 1
          PROVE  EndOf(lines, starts', j) <= starts'[at]
      BY <1>6, <1>9, <1>11
    <3> QED
      BY <3>1, <3>2, <1>2
  <2>3. Len(starts') <= Len(lines') /\ Len(starts') = at' - 1 /\ pointer' = AddressOf(lines, starts', at + 1)
    BY <1>2, <1>3, <1>5, <1>6, <1>10
  <2> QED
    BY <2>1, <2>2, <2>3, <1>3, <1>6 DEF Counted
<1>13. Entered'
  <2>1. \A n \in DOMAIN table' :
          \E k \in 1 .. at : SeesLabel(lines[k]) /\ lines[k].label = n
    <3> SUFFICES ASSUME NEW n \in DOMAIN table'
                 PROVE  \E k \in 1 .. at : SeesLabel(lines[k]) /\ lines[k].label = n
      OBVIOUS
    <3>1. CASE n \in DOMAIN table
      <4>1. PICK k \in 1 .. Len(starts) : SeesLabel(lines[k]) /\ lines[k].label = n
        BY <3>1, <1>1, <1>3 DEF Entered
      <4>2. k \in 1 .. at
        BY <1>2, <1>5
      <4> QED
        BY <4>1, <4>2
    <3>2. CASE n \notin DOMAIN table
      <4>1. SeesLabel(line) /\ line.label = n
        BY <3>2, <1>7
      <4>2. at \in 1 .. at
        BY <1>2
      <4> QED
        BY <4>1, <4>2
    <3> QED
      BY <3>1, <3>2
  <2>2. ASSUME NEW k \in 1 .. at, FirstSeen(k)
        PROVE  lines[k].label \in DOMAIN table' /\ table'[lines[k].label] = starts'[k]
    <3>1. CASE k \in 1 .. at - 1
      <4>1. k \in 1 .. Len(starts) /\ starts'[k] = starts[k]
        BY <3>1, <1>6, <1>9
      <4>2. lines[k].label \in DOMAIN table /\ table[lines[k].label] = starts[k]
        BY <4>1, <2>2, <1>1, <1>3 DEF Entered
      <4> QED
        BY <4>1, <4>2, <1>7
    <3>2. CASE k = at
      <4>1. SeesLabel(line) /\ line.label \notin DOMAIN table
        <5>1. SeesLabel(line)
          BY <2>2, <3>2 DEF FirstSeen
        <5>2. ASSUME line.label \in DOMAIN table PROVE FALSE
          <6>1. PICK j \in 1 .. Len(starts) : SeesLabel(lines[j]) /\ lines[j].label = line.label
            BY <5>2, <1>1, <1>3 DEF Entered
          <6>2. j \in 1 .. at - 1
            BY <1>5
          <6> QED
            BY <2>2, <3>2, <6>1, <6>2 DEF FirstSeen
        <5> QED
          BY <5>1, <5>2
      <4> QED
        BY <3>2, <4>1, <1>6, <1>7
    <3> QED
      BY <3>1, <3>2, <1>2
  <2> QED
    BY <2>1, <2>2, <1>3, <1>6 DEF Entered, FirstSeen
<1>14. Filled'
  BY <1>1, <1>3 DEF Filled, ImageInPlace
<1> QED
  BY <1>8, <1>12, <1>13, <1>14 DEF AssemblerInv

-----------------------------------------------------------------------------
(* Where the passes stop, there is nothing left to say but the types.      *)
LEMMA AssemblyStopKeeps ==
  ASSUME AssemblerInv, TypeInv', phase' \in {"threw", "killed"}, UNCHANGED <<lines, starts>>
  PROVE  AssemblerInv'
<1>1. phase' # "first" /\ ~ Assembling'
  BY DEF Assembling
<1>2. Counted'
  BY <1>1 DEF AssemblerInv, Counted
<1>3. Entered' /\ Filled'
  BY <1>1 DEF Entered, Filled, ImageInPlace
<1> QED
  BY <1>2, <1>3 DEF AssemblerInv

LEMMA ScanFailsKeeps ==
  ASSUME AssemblerInv, ScanFails
  PROVE  AssemblerInv'
<1> DEFINE line == lines[at]
<1>1. TypeInv /\ IsTable(table) /\ pointer \in Nat
  BY TableOK DEF AssemblerInv, TypeInv, AssemblerTypeOK
<1>2. SeesLabel(line) => line.label \in Name
  BY <1>1, LineTaken, LineType DEF ScanFails, SeesLabel
<1>3. IsTable(table')
  <2>1. table' = IF SeesLabel(line) THEN Inserted(table, line.label, pointer) ELSE table
    BY DEF ScanFails
  <2>2. SeesLabel(line) => IsTable(Inserted(table, line.label, pointer))
    BY <1>1, <1>2, InsertedType
  <2> QED
    BY <1>1, <2>1, <2>2
<1>4. TypeInv'
  BY <1>1, <1>3 DEF ScanFails, TypeInv, AssemblerTypeOK, IsTable
<1> QED
  BY <1>4, AssemblyStopKeeps DEF ScanFails

LEMMA RestartKeeps ==
  ASSUME AssemblerInv, Restart
  PROVE  AssemblerInv'
<1>1. TypeInv /\ Counted /\ Entered /\ Filled
  BY DEF AssemblerInv
<1>2. /\ Len(lines) \in Nat /\ at = Len(lines) + 1 /\ Len(starts) = Len(lines)
  BY <1>1, LinesType DEF Restart, TypeInv, AssemblerTypeOK, Counted
<1>3. /\ phase = "first" /\ phase' = "second" /\ Assembling' /\ at' = 1 /\ pointer' = 0
      /\ lines' = lines /\ starts' = starts /\ table' = table /\ image' = image
  BY DEF Restart, Assembling
<1>4. TypeInv'
  BY <1>1, <1>2, <1>3 DEF TypeInv, AssemblerTypeOK, INSTRUCTION_LENGTH
<1>5. Counted'
  <2>1. AddressOf(lines, starts, 1) = 0
    BY DEF AddressOf
  <2> QED
    BY <2>1, <1>1, <1>2, <1>3 DEF Counted
<1>6. Entered'
  BY <1>1, <1>3 DEF Entered, FirstSeen
<1>7. Filled'
  <2>1. \A c \in Slot : image[c] = 0
    BY <1>1, <1>3 DEF Filled
  <2>2. 1 .. at' - 1 = {}
    BY <1>3
  <2> QED
    BY <2>1, <2>2, <1>3 DEF Filled, ImageInPlace
<1> QED
  BY <1>4, <1>5, <1>6, <1>7 DEF AssemblerInv

LEMMA FinishKeeps ==
  ASSUME AssemblerInv, Finish
  PROVE  AssemblerInv'
<1>1. TypeInv /\ Counted /\ Entered /\ Filled
  BY DEF AssemblerInv
<1>2. /\ phase = "second" /\ phase' = "done" /\ Assembling /\ Assembling'
      /\ UNCHANGED <<lines, at, pointer, table, image, starts>>
  BY DEF Finish, Assembling
<1>3. TypeInv'
  BY <1>1, <1>2 DEF TypeInv, AssemblerTypeOK
<1>4. Counted'
  BY <1>1, <1>2 DEF Counted, AllPlain
<1>5. Entered'
  BY <1>1, <1>2 DEF Entered, FirstSeen
<1>6. Filled'
  BY <1>1, <1>2 DEF Filled, ImageInPlace, AllPlain
<1> QED
  BY <1>3, <1>4, <1>5, <1>6 DEF AssemblerInv

LEMMA EmitFailsKeeps ==
  ASSUME AssemblerInv, EmitFails
  PROVE  AssemblerInv'
<1>1. TypeInv'
  BY DEF AssemblerInv, EmitFails, TypeInv, AssemblerTypeOK
<1> QED
  BY <1>1, AssemblyStopKeeps DEF EmitFails

(* The words that a line of the second pass comes to.                      *)
LEMMA EmitWords ==
  ASSUME AssemblerInv, at <= Len(lines), NEW words \in WordsOf(OperationOf(lines[at]), table)
  PROVE  /\ words \in Seq(Word) /\ Len(words) \in Nat
         /\ Len(words) * INSTRUCTION_LENGTH = StatementLength(OperationOf(lines[at]))
         /\ FittingWords(words) \in 0 .. Len(words)
         /\ PouredWords(image, words, FittingWords(words)) \in [Slot -> Word]
<1>1. TypeInv /\ IsTable(table) /\ pointer \in Nat /\ image \in [Slot -> Word]
  BY TableOK DEF AssemblerInv, TypeInv, AssemblerTypeOK
<1>2. OperationOf(lines[at]) \in Readings
  BY <1>1, LineTaken, LineType
<1>3. words \in Seq(Word) /\ Len(words) * INSTRUCTION_LENGTH = StatementLength(OperationOf(lines[at]))
  BY <1>1, <1>2, WordsType
<1>4. FittingWords(words) \in 0 .. Len(words)
  BY <1>1, <1>3, FittingWordsType
<1>5. PouredWords(image, words, FittingWords(words)) \in [Slot -> Word]
  BY <1>1, <1>3, <1>4, PouredWordsType
<1> QED
  BY <1>3, <1>4, <1>5

LEMMA EmitKillsKeeps ==
  ASSUME AssemblerInv, EmitKills
  PROVE  AssemblerInv'
<1>1. PICK words \in WordsOf(OperationOf(lines[at]), table) : image' = PouredWords(image, words, FittingWords(words))
  BY DEF EmitKills
<1>2. image' \in [Slot -> Word]
  BY <1>1, EmitWords DEF EmitKills
<1>3. TypeInv'
  BY <1>2 DEF AssemblerInv, EmitKills, TypeInv, AssemblerTypeOK
<1> QED
  BY <1>3, AssemblyStopKeeps DEF EmitKills

(* What is on a line's place in memory after the words of another, further *)
(* on, are poured.                                                         *)
LEMMA PouredPlaces ==
  ASSUME AssemblerTypeOK, NEW words \in Seq(Word), NEW n \in 0 .. Len(words), NEW c \in Slot
  PROVE  /\ c < pointer \div INSTRUCTION_LENGTH => PouredWords(image, words, n)[c] = image[c]
         /\ c >= (pointer + n * INSTRUCTION_LENGTH) \div INSTRUCTION_LENGTH =>
              PouredWords(image, words, n)[c] = image[c]
         /\ \A j \in 1 .. n :
              c = pointer \div INSTRUCTION_LENGTH + (j - 1) => PouredWords(image, words, n)[c] = words[j]
<1> DEFINE first == pointer \div INSTRUCTION_LENGTH
<1>1. Len(words) \in Nat /\ n \in Nat /\ pointer \in Nat /\ c \in Nat
  BY SlotType DEF AssemblerTypeOK
<1>2. first \in Nat /\ (pointer + n * INSTRUCTION_LENGTH) \div INSTRUCTION_LENGTH = first + n
  <2>1. \A p, q \in Nat : p \div 8 \in Nat /\ (p + q * 8) \div 8 = p \div 8 + q
    OBVIOUS
  <2> QED
    BY <1>1, <2>1 DEF INSTRUCTION_LENGTH
<1>3. PouredWords(image, words, n)[c] = IF c \in first .. first + n - 1 THEN words[(c - first) + 1] ELSE image[c]
  BY DEF PouredWords
<1> HIDE DEF first
<1>4. \A j \in 1 .. n : c = first + (j - 1) => c \in first .. first + n - 1 /\ (c - first) + 1 = j
  BY <1>1, <1>2
<1>5. c < first \/ c >= first + n => ~ (c \in first .. first + n - 1)
  BY <1>1, <1>2
<1> QED
  BY <1>2, <1>3, <1>4, <1>5 DEF first

-----------------------------------------------------------------------------
(* The words of an earlier line lie before the pointer.                    *)
LEMMA EarlierWords ==
  ASSUME AssemblerInv, Assembling, AllPlain, NEW k \in 1 .. at - 1,
         NEW words \in WordsOf(lines[k].statement, table), NEW j \in DOMAIN words
  PROVE  starts[k] \div INSTRUCTION_LENGTH + (j - 1) < pointer \div INSTRUCTION_LENGTH
<1>1. TypeInv /\ Counted /\ IsTable(table) /\ Len(lines) \in Nat /\ pointer \in Nat
  BY TableOK, LinesType DEF AssemblerInv, TypeInv, AssemblerTypeOK
<1>2. /\ at \in 1 .. Len(starts) + 1 /\ k \in 1 .. Len(lines) /\ k \in 1 .. Len(starts)
      /\ pointer = AddressOf(lines, starts, at)
  BY <1>1 DEF TypeInv, AssemblerTypeOK, Counted
<1>3. Plain(lines[k]) /\ lines[k] \in Lines
  BY <1>1, <1>2, LinesType DEF AllPlain, TypeInv
<1>4. lines[k].statement \in Readings /\ LengthOfLine(lines[k]) = StatementLength(lines[k].statement)
  BY <1>3, LineType DEF Readings
<1>5. words \in Seq(Word) /\ Len(words) * INSTRUCTION_LENGTH = LengthOfLine(lines[k])
  BY <1>1, <1>4, WordsType
<1>6. EndOf(lines, starts, k) <= pointer /\ starts[k] \in Nat
  BY <1>1, <1>2, EndsBefore
<1>7. starts[k] + Len(words) * 8 <= pointer /\ j \in 1 .. Len(words) /\ Len(words) \in Nat
  BY <1>5, <1>6 DEF EndOf, INSTRUCTION_LENGTH
<1>8. starts[k] % 8 = 0
  BY <1>1, <1>2 DEF Counted, INSTRUCTION_LENGTH
<1>9. \A s, l, p \in Nat : \A i \in 1 .. l : s % 8 = 0 /\ s + l * 8 <= p => s \div 8 + (i - 1) < p \div 8
  OBVIOUS
<1>10. starts[k] \div 8 + (j - 1) < pointer \div 8
  BY <1>1, <1>6, <1>7, <1>8, <1>9
<1> QED
  BY <1>10 DEF INSTRUCTION_LENGTH

LEMMA EmitKeeps ==
  ASSUME AssemblerInv, Emit
  PROVE  AssemblerInv'
<1>1. /\ TypeInv /\ AssemblerTypeOK /\ Counted /\ Entered /\ Filled /\ phase = "second" /\ Assembling
      /\ at <= Len(lines) /\ UNCHANGED <<lines, table, starts>> /\ pointer \in Nat
  BY DEF AssemblerInv, Emit, Assembling, TypeInv, AssemblerTypeOK
<1>2. PICK words \in WordsOf(OperationOf(lines[at]), table) :
        /\ image' = PouredWords(image, words, FittingWords(words))
        /\ pointer' = pointer + FittingWords(words) * INSTRUCTION_LENGTH
        /\ IF FittingWords(words) = Len(words) THEN NextLine /\ UNCHANGED phase
                                          ELSE phase' = "threw" /\ UNCHANGED at
  BY Zenon DEF Emit
<1> DEFINE n == FittingWords(words)
<1>3. /\ words \in Seq(Word) /\ Len(words) \in Nat /\ n \in 0 .. Len(words)
      /\ Len(words) * INSTRUCTION_LENGTH = StatementLength(OperationOf(lines[at]))
      /\ image' \in [Slot -> Word]
  BY <1>1, <1>2, EmitWords
<1>4. pointer' \in Nat /\ pointer' % INSTRUCTION_LENGTH = 0
  <2>1. pointer % 8 = 0
    BY <1>1 DEF AssemblerTypeOK, INSTRUCTION_LENGTH
  <2>2. \A p, q \in Nat : p % 8 = 0 => p + q * 8 \in Nat /\ (p + q * 8) % 8 = 0
    OBVIOUS
  <2>3. n \in Nat /\ pointer' = pointer + n * 8
    BY <1>2, <1>3 DEF INSTRUCTION_LENGTH
  <2> HIDE DEF n
  <2> QED
    BY <1>1, <2>1, <2>2, <2>3 DEF INSTRUCTION_LENGTH
<1>5. at \in 1 .. Len(lines) /\ at + 1 \in 1 .. Len(lines) + 1 /\ lines[at] \in Lines /\ Len(lines) \in Nat
  BY <1>1, LineTaken, LinesType DEF TypeInv
<1> HIDE DEF n
<1>6. CASE n # Len(words)
  <2>1. phase' = "threw" /\ at' = at
    BY <1>2, <1>6 DEF n
  <2>2. TypeInv'
    BY <2>1, <1>1, <1>3, <1>4, <1>5 DEF TypeInv, AssemblerTypeOK
  <2> QED
    BY <2>1, <2>2, <1>1, AssemblyStopKeeps
<1>7. CASE n = Len(words)
  <2>1. phase' = "second" /\ at' = at + 1 /\ Assembling'
    BY <1>1, <1>2, <1>7 DEF n, NextLine, Assembling
  <2>2. TypeInv'
    BY <2>1, <1>1, <1>3, <1>4, <1>5 DEF TypeInv, AssemblerTypeOK
  <2>3. AllPlain' <=> AllPlain
    BY <1>1 DEF AllPlain
  <2>4. ASSUME AllPlain
        PROVE  /\ pointer = starts[at] /\ pointer' = AddressOf(lines, starts, at + 1)
               /\ OperationOf(lines[at]) = lines[at].statement
    <3>1. Plain(lines[at])
      BY <2>4, <1>5, <1>1, LinesType DEF AllPlain, TypeInv
    <3>2. /\ OperationOf(lines[at]) = lines[at].statement
          /\ LengthOfLine(lines[at]) = Len(words) * INSTRUCTION_LENGTH
      BY <3>1, <1>3, <1>5, LineType
    <3>3. pointer = starts[at]
      BY <2>4, <1>1, <1>5 DEF Counted
    <3>4. pointer' = EndOf(lines, starts, at)
      BY <3>2, <3>3, <1>2, <1>7 DEF EndOf, n
    <3> QED
      BY <3>2, <3>3, <3>4, <1>5 DEF AddressOf
  <2>5. Counted'
    BY <2>1, <2>3, <2>4, <1>1 DEF Counted
  <2>6. Entered'
    BY <2>1, <1>1 DEF Entered, FirstSeen
  <2>7. ASSUME AllPlain, NEW k \in 1 .. at
        PROVE  \E ws \in WordsOf(lines[k].statement, table) :
                 \A j \in DOMAIN ws :
                   LET c == starts[k] \div INSTRUCTION_LENGTH + (j - 1)
                   IN  c \in Slot => image'[c] = ws[j]
    <3>1. CASE k = at
      <4>1. words \in WordsOf(lines[k].statement, table)
        BY <3>1, <2>4, <2>7
      <4>2. ASSUME NEW j \in DOMAIN words, starts[k] \div INSTRUCTION_LENGTH + (j - 1) \in Slot
            PROVE  image'[starts[k] \div INSTRUCTION_LENGTH + (j - 1)] = words[j]
        <5>1. j \in 1 .. n
          BY <1>3, <1>7
        <5>2. starts[k] = pointer
          BY <3>1, <2>4, <2>7
        <5> QED
          BY <4>2, <5>1, <5>2, <1>1, <1>2, <1>3, PouredPlaces DEF n
      <4> QED
        BY <4>1, <4>2
    <3>2. CASE k # at
      <4>1. k \in 1 .. at - 1
        BY <3>2, <1>5
      <4>2. PICK ws \in WordsOf(lines[k].statement, table) :
              \A j \in DOMAIN ws :
                LET c == starts[k] \div INSTRUCTION_LENGTH + (j - 1)
                IN  c \in Slot => image[c] = ws[j]
        BY <4>1, <2>7, <1>1 DEF Filled, ImageInPlace
      <4>3. ASSUME NEW j \in DOMAIN ws, starts[k] \div INSTRUCTION_LENGTH + (j - 1) \in Slot
            PROVE  image'[starts[k] \div INSTRUCTION_LENGTH + (j - 1)] = ws[j]
        <5>1. starts[k] \div INSTRUCTION_LENGTH + (j - 1) < pointer \div INSTRUCTION_LENGTH
          BY <4>1, <2>7, <1>1, EarlierWords
        <5>2. image'[starts[k] \div INSTRUCTION_LENGTH + (j - 1)]
                = image[starts[k] \div INSTRUCTION_LENGTH + (j - 1)]
          BY <4>3, <5>1, <1>1, <1>2, <1>3, PouredPlaces DEF n
        <5> QED
          BY <4>2, <4>3, <5>2
      <4> QED
        BY <4>3
    <3> QED
      BY <3>1, <3>2
  <2>8. ASSUME AllPlain, NEW c \in Slot, c >= pointer' \div INSTRUCTION_LENGTH
        PROVE  image'[c] = 0
    <3>1. image'[c] = image[c]
      BY <2>8, <1>1, <1>2, <1>3, PouredPlaces DEF n
    <3>2. pointer \div INSTRUCTION_LENGTH <= pointer' \div INSTRUCTION_LENGTH
      <4>1. \A p, q \in Nat : p \div 8 <= (p + q * 8) \div 8
        OBVIOUS
      <4>2. n \in Nat /\ pointer' = pointer + n * 8
        BY <1>2, <1>3 DEF INSTRUCTION_LENGTH, n
      <4> QED
        BY <4>1, <4>2, <1>1 DEF INSTRUCTION_LENGTH
    <3>3. c >= pointer \div INSTRUCTION_LENGTH
      <4>1. c \in Nat /\ pointer \div 8 \in Int /\ pointer' \div 8 \in Int
        BY SlotType, <1>1, <1>4
      <4> QED
        BY <4>1, <2>8, <3>2 DEF INSTRUCTION_LENGTH
    <3> QED
      BY <2>8, <3>1, <3>3, <1>1 DEF Filled, ImageInPlace
  <2>9. ImageInPlace'
    <3> SUFFICES ASSUME AllPlain PROVE ImageInPlace'
      BY <2>3 DEF ImageInPlace
    <3>1. at' - 1 = at
      BY <2>1, <1>5
    <3> QED
      BY <2>7, <2>8, <3>1, <1>1 DEF ImageInPlace
  <2>10. Filled'
    BY <2>1, <2>9 DEF Filled
  <2> QED
    BY <2>2, <2>5, <2>6, <2>10 DEF AssemblerInv
<1> QED
  BY <1>6, <1>7

LEMMA NextKeeps ==
  ASSUME AssemblerInv, [AssemblerNext]_assemblerVars
  PROVE  AssemblerInv'
<1>1. CASE UNCHANGED assemblerVars
  BY <1>1 DEF assemblerVars, AssemblerInv, TypeInv, AssemblerTypeOK, Counted, Entered, FirstSeen, Filled, ImageInPlace,
       AllPlain, Assembling
<1> QED
  BY <1>1, ScanKeeps, ScanFailsKeeps, RestartKeeps, EmitKeeps, EmitKillsKeeps, EmitFailsKeeps,
     FinishKeeps DEF AssemblerNext

(* It holds of every state of the assembler. *)
THEOREM InvariantHolds == AssemblerSpec => []AssemblerInv
<1>1. AssemblerInit => AssemblerInv
  BY InitKept DEF AssemblerInit
<1>2. AssemblerInv /\ [AssemblerNext]_assemblerVars => AssemblerInv'
  BY NextKeeps
<1> QED
  BY <1>1, <1>2, PTL DEF AssemblerSpec

-----------------------------------------------------------------------------
(* The theorems. *)

(* The first line that defines a label.                                    *)
LEMMA FirstDefined ==
  ASSUME AssemblerInv, AllPlain, Assembling, NEW k \in 1 .. Len(lines), Labelled(lines[k]),
         Defines(k, lines[k].label)
  PROVE  lines[k].label \in DOMAIN table /\ table[lines[k].label] = starts[k]
<1>1. lines \in Seq(Lines) /\ Len(lines) \in Nat /\ Len(starts) = Len(lines) /\ Entered
  BY LinesType DEF AssemblerInv, TypeInv, Counted
<1>2. \A j \in 1 .. Len(lines) : SeesLabel(lines[j]) <=> Labelled(lines[j])
  BY <1>1, LinesType, LineType DEF AllPlain
<1>3. FirstSeen(k)
  <2>1. \A j \in 1 .. k - 1 : lines[j].label # lines[k].label
    BY DEF Defines
  <2> QED
    BY <2>1, <1>2 DEF FirstSeen
<1> QED
  BY <1>1, <1>3 DEF Entered

LEMMA AgreeingPasses ==
  ASSUME AssemblerInv
  PROVE  PassesAgree
<1> SUFFICES ASSUME AllPlain, Assembling PROVE InStep /\ TableInStep
  BY DEF PassesAgree
<1>1. TypeInv /\ Counted /\ Len(lines) \in Nat /\ DOMAIN lines = 1 .. Len(lines)
  BY LinesType DEF AssemblerInv, TypeInv
<1>2. InStep
  <2> SUFFICES ASSUME at <= Len(lines) PROVE pointer = starts[at]
    BY DEF InStep
  <2>1. at \in 1 .. Len(starts)
    BY <1>1, LineTaken DEF Counted
  <2> QED
    BY <2>1, <1>1 DEF Counted
<1>3. TableInStep
  BY <1>1, FirstDefined DEF TableInStep
<1> QED
  BY <1>2, <1>3

(* A label of the table is defined by the first of the lines that mark it.  *)
LEMMA LabelDefined ==
  ASSUME AssemblerInv, AllPlain, Assembling, NEW n \in DOMAIN table
  PROVE  \E j \in DOMAIN lines : Defines(j, n) /\ table[n] = starts[j]
<1>1. TypeInv /\ Len(lines) \in Nat /\ DOMAIN lines = 1 .. Len(lines) /\ Len(starts) = Len(lines)
      /\ Entered /\ n \in Name
  BY LinesType DEF AssemblerInv, TypeInv, AssemblerTypeOK, Counted
<1> DEFINE S == {k \in 1 .. Len(lines) : lines[k].label = n}
<1>2. S # {} /\ S \subseteq Nat
  <2>1. PICK k \in 1 .. Len(starts) : SeesLabel(lines[k]) /\ lines[k].label = n
    BY <1>1 DEF Entered
  <2> QED
    BY <2>1, <1>1
<1>3. PICK j \in S : \A i \in S : j <= i
  BY <1>2, LeastNumber
<1>4. Defines(j, n)
  <2>1. ASSUME NEW i \in 1 .. j - 1 PROVE lines[i].label # n
    <3>1. i \in 1 .. Len(lines) /\ ~ (j <= i)
      BY <1>1
    <3> QED
      BY <3>1, <1>3
  <2> QED
    BY <2>1 DEF Defines
<1>5. Labelled(lines[j])
  BY <1>1, AssemblerAssumption DEF Labelled
<1>6. lines[j].label = n /\ j \in 1 .. Len(lines)
  OBVIOUS
<1> HIDE DEF S
<1>7. table[n] = starts[j]
  BY <1>4, <1>5, <1>6, FirstDefined
<1> QED
  BY <1>1, <1>4, <1>6, <1>7

LEMMA AddressingOps ==
  ASSUME NEW op \in Addressing
  PROVE  /\ op \in Opcodes /\ Chosen(op) = {op}
         /\ op \notin {"NOP", "MV", "NOT", "NEG", "NEGW", "HALT"}
<1>1. op \in {"BEQ", "BNE", "BLT", "BGE", "BLTU", "BGEU", "LB", "LH", "LW", "LWU", "LD", "LBU", "LHU",
              "SB", "SW", "SD", "LUI", "AUIPC", "INPUTI", "INPUTB", "INPUTS", "INPUTF",
              "JAL", "PRINT", "ADDI"}
  BY Groups DEF Addressing
<1>2. op \in Opcodes
  BY <1>1 DEF Opcodes, Operations
<1>3. op \in Mnemonics \ {"SLLIW"} /\ op # "SLLIW"
  BY <1>1, <1>2 DEF Mnemonics
<1> QED
  BY <1>1, <1>2, <1>3 DEF Chosen

(* The last operand of an instruction that takes an address is in its word. *)
LEMMA AddressEncoded ==
  ASSUME NEW op \in Addressing, NEW s, NEW n \in Nat, Needs(op) <= n,
         \A k \in 1 .. n : s[k].id \in 0 .. CHAR - 1 /\ s[k].value \in Int,
         s[Needs(op)].value \in - (INT \div 2) .. INT \div 2 - 1
  PROVE  Decode(Encode(Assembled(op, s))).c = s[Needs(op)].value
<1> DEFINE v == s[Needs(op)].value
           i == Assembled(op, s)
<1>1. /\ op \in Opcodes /\ op \notin {"NOP", "MV", "NOT", "NEG", "NEGW", "HALT"}
      /\ CHAR \in Int /\ CHAR > 0
  BY AddressingOps, Sizes
<1>2. 0 \in 0 .. CHAR - 1
  BY <1>1
<1>3. CASE op \in Branches \cup Loads \cup Stores \cup {"JAL", "PRINT", "ADDI"}
  <2>1. Layout(op) = "I"
    BY <1>3, Groups DEF Layout
  <2>2. Needs(op) \in {2, 3} /\ (op = "PRINT" => Needs(op) = 2)
    BY <1>3, Groups DEF Needs
  <2>3. s[1].id \in 0 .. CHAR - 1 /\ s[2].id \in 0 .. CHAR - 1 /\ s[1].value % CHAR \in 0 .. CHAR - 1
    BY <2>2, <1>1
  <2>4. PICK a \in 0 .. CHAR - 1, b \in 0 .. CHAR - 1 : i = Instruction(op, a, b, v)
    <3>1. CASE op \in Branches \cup {"ADDI"}
      <4>1. /\ op \in WithImmediate \cup Branches
            /\ op \notin ThreeRegister \cup Uppers \cup Inputs \cup {"PRINT", "DEBUG", "NOP", "HALT"}
        BY <3>1, Groups
      <4>2. Needs(op) = 3 /\ i = Instruction(op, s[1].id, s[2].id, s[3].value)
        BY <4>1 DEF Needs, Assembled
      <4> QED
        BY <2>3, <4>2
    <3>2. CASE op = "PRINT"
      <4>1. op \notin ThreeRegister \cup WithImmediate \cup Branches \cup Uppers \cup Inputs
                        \cup {"JALR", "DEBUG", "NOP", "HALT"}
        BY <3>2, Groups
      <4>2. Needs(op) = 2 /\ i = Instruction(op, s[1].value % CHAR, s[2].id, s[2].value)
        BY <3>2, <4>1 DEF Needs, Assembled
      <4> QED
        BY <2>3, <4>2
    <3>3. CASE op \in Loads \cup Stores \cup {"JAL"}
      <4>1. op \notin ThreeRegister \cup WithImmediate \cup Branches \cup Uppers \cup Inputs
                        \cup {"JALR", "PRINT", "DEBUG", "NOP", "HALT"}
        BY <3>3, Groups
      <4>2. Needs(op) = 2 /\ i = Instruction(op, s[1].id, s[2].id, s[2].value)
        BY <4>1 DEF Needs, Assembled
      <4> QED
        BY <2>3, <4>2
    <3> QED
      BY <1>3, <3>1, <3>2, <3>3
  <2> HIDE DEF i, v
  <2>5. Encode(i) = Packed(op, "I", a, b, v)
    BY <1>1, <2>1, <2>4 DEF Encode, Instruction
  <2>6. v \in - (INT \div 2) .. INT \div 2 - 1
    BY DEF v
  <2>7. PackedAs(Packed(op, "I", a, b, v), op, Instruction(op, a, b, v))
    BY <1>1, <2>1, <2>6, PackedI
  <2> QED
    BY <2>5, <2>7 DEF PackedAs, Instruction, i, v
<1>4. CASE op \in Uppers \cup Inputs
  <2>1. Layout(op) = "U"
    BY <1>4, Layouts
  <2>2. op \notin ThreeRegister \cup WithImmediate \cup Branches \cup {"JALR", "PRINT", "DEBUG", "NOP", "HALT"}
    BY <1>4, Groups
  <2>3. PICK a \in 0 .. CHAR - 1 : i = Instruction(op, a, 0, v)
    <3>1. CASE op \in Uppers
      <4>1. op \notin Inputs
        BY <3>1, Groups
      <4>2. Needs(op) = 2 /\ i = Instruction(op, s[1].id, 0, s[2].value)
        BY <2>2, <3>1, <4>1 DEF Needs, Assembled
      <4> QED
        BY <4>2
    <3>2. CASE op \in Inputs
      <4>1. op \notin Uppers
        BY <3>2, Groups
      <4>2. Needs(op) = 1 /\ i = Instruction(op, s[1].id, 0, s[1].value)
        BY <2>2, <3>2, <4>1 DEF Needs, Assembled
      <4> QED
        BY <4>2
    <3> QED
      BY <1>4, <3>1, <3>2
  <2> HIDE DEF i, v
  <2>4. Encode(i) = Packed(op, "U", a, 0, v)
    BY <1>1, <2>1, <2>3 DEF Encode, Instruction
  <2>5. v \in - (INT \div 2) .. INT \div 2 - 1
    BY DEF v
  <2>6. PackedAs(Packed(op, "U", a, 0, v), op, Instruction(op, a, 0, v))
    BY <1>1, <2>1, <2>5, PackedU
  <2> QED
    BY <2>4, <2>6 DEF PackedAs, Instruction, i, v
<1> QED
  BY <1>3, <1>4 DEF Addressing

(* The operation of an assembled instruction is found again, if it is not  *)
(* one that is translated, and of a branch the registers that it compares, *)
(* of an LD or a PRINT its operands.                                       *)
LEMMA EncodedOp ==
  ASSUME NEW op \in Opcodes, NEW s, NEW n \in Nat, Needs(op) <= n,
         \A k \in 1 .. n : s[k].id \in 0 .. CHAR - 1 /\ s[k].value \in Int
  PROVE  LET d == Decode(Encode(Assembled(op, s)))
         IN  /\ op \notin Translated => d.op = op
             /\ op \in Translated => d.op \in {"ADD", "ADDI", "XORI", "SUB", "SUBW"}
             /\ op \in Branches => d = Instruction(op, s[1].id, s[2].id, Wrapped(s[3].value, INT))
             /\ op = "LD" => d = Instruction(op, s[1].id, s[2].id, Wrapped(s[2].value, INT))
             /\ op = "PRINT" =>
                  d = Instruction(op, s[1].value % CHAR, s[2].id, Wrapped(s[2].value, INT))
<1> DEFINE i == Assembled(op, s)
<1>1. i.op = op /\ i.a \in Int /\ i.b \in Int /\ i.c \in Int
  BY AssembledType
<1>2. 0 \in Int /\ - 1 \in Int
  OBVIOUS
<1>3. Translated = {"NOP", "MV", "NOT", "NEG", "NEGW"}
  BY Groups
<1>4. ASSUME op \notin Translated PROVE Decode(Encode(i)).op = op
  <2> HIDE DEF i
  <2>1. CASE op = "HALT"
    <3>1. Layout("HALT") = "R"
      BY Groups DEF Layout
    <3>2. Encode(i) = Packed("HALT", "R", 0, 0, 0)
      BY <1>1, <2>1 DEF Encode
    <3>3. Decode(Packed(op, Layout(op), 0, 0, 0)).op = op
      BY <1>2, PackedAny
    <3> QED
      BY <2>1, <3>1, <3>2, <3>3
  <2>2. CASE op # "HALT"
    <3>1. Encode(i) = Packed(op, Layout(op), i.a, i.b, i.c)
      BY <1>1, <1>3, <1>4, <2>2 DEF Encode
    <3> QED
      BY <1>1, <3>1, PackedAny
  <2> QED
    BY <2>1, <2>2
<1>5. ASSUME op \in Translated PROVE Decode(Encode(i)).op \in {"ADD", "ADDI", "XORI", "SUB", "SUBW"}
  <2> HIDE DEF i
  <2>1. /\ {"ADD", "ADDI", "XORI", "SUB", "SUBW"} \subseteq Opcodes
        /\ \A o \in {"ADD", "SUB", "SUBW"} : Layout(o) = "R"
        /\ \A o \in {"ADDI", "XORI"} : Layout(o) = "I"
    <3>1. /\ Operations[1] = "ADD" /\ Operations[2] = "SUB" /\ Operations[20] = "SUBW"
          /\ Operations[29] = "ADDI" /\ Operations[33] = "XORI"
      BY DEF Operations
    <3>2. {"ADD", "ADDI", "XORI", "SUB", "SUBW"} \subseteq Opcodes
      BY <3>1, CodeOf
    <3> QED
      BY <3>2, Groups DEF Layout
  <2>2. PICK o \in {"ADD", "ADDI", "XORI", "SUB", "SUBW"} :
           \E a, b, c \in Int : Encode(i) = Packed(o, Layout(o), a, b, c)
    <3>1. CASE op = "NOP"
      <4>1. Encode(i) = Packed("ADD", "R", 0, 0, 0)
        BY <1>1, <3>1 DEF Encode
      <4> QED
        BY <1>2, <2>1, <4>1
    <3>2. CASE op = "MV"
      <4>1. Encode(i) = Packed("ADDI", "I", i.a, i.b, 0)
        BY <1>1, <3>2 DEF Encode
      <4> QED
        BY <1>1, <1>2, <2>1, <4>1
    <3>3. CASE op = "NOT"
      <4>1. Encode(i) = Packed("XORI", "I", i.a, i.b, - 1)
        BY <1>1, <3>3 DEF Encode
      <4> QED
        BY <1>1, <1>2, <2>1, <4>1
    <3>4. CASE op = "NEG"
      <4>1. Encode(i) = Packed("SUB", "R", i.a, 0, i.b)
        BY <1>1, <3>4 DEF Encode
      <4> QED
        BY <1>1, <1>2, <2>1, <4>1
    <3>5. CASE op = "NEGW"
      <4>1. Encode(i) = Packed("SUBW", "R", i.a, 0, i.b)
        BY <1>1, <3>5 DEF Encode
      <4> QED
        BY <1>1, <1>2, <2>1, <4>1
    <3> QED
      BY <1>3, <1>5, <3>1, <3>2, <3>3, <3>4, <3>5
  <2>3. o \in Opcodes
    BY <2>1
  <2>4. PICK a \in Int, b \in Int, c \in Int : Encode(i) = Packed(o, Layout(o), a, b, c)
    BY <2>2
  <2>5. Decode(Packed(o, Layout(o), a, b, c)).op = o
    BY <2>3, PackedAny
  <2> QED
    BY <2>4, <2>5
<1>6. ASSUME op \in Branches
      PROVE  Decode(Encode(i)) = Instruction(op, s[1].id, s[2].id, Wrapped(s[3].value, INT))
  <2>1. /\ op \notin ThreeRegister \cup Uppers \cup Inputs \cup Translated \cup {"PRINT", "DEBUG", "NOP", "HALT"}
        /\ Layout(op) = "I"
    BY <1>6, Groups DEF Layout
  <2>2. Needs(op) = 3 /\ i = Instruction(op, s[1].id, s[2].id, s[3].value)
    BY <1>6, <2>1 DEF Needs, Assembled
  <2> HIDE DEF i
  <2>3. Encode(i) = Packed(op, "I", s[1].id, s[2].id, s[3].value)
    BY <1>3, <2>1, <2>2 DEF Encode, Instruction
  <2>4. /\ s[1].id \in 0 .. CHAR - 1 /\ s[2].id \in 0 .. CHAR - 1 /\ s[3].value \in Int
        /\ CHAR \in Int /\ CHAR > 0
    BY <2>2, Sizes
  <2>5. s[1].id % CHAR = s[1].id /\ s[2].id % CHAR = s[2].id /\ s[1].id \in Int /\ s[2].id \in Int
    BY <2>4, DigitMod
  <2> QED
    BY <2>1, <2>3, <2>4, <2>5, PackedAny
<1>7. ASSUME op \in {"LD", "PRINT"}, NEW a,
             a = IF op = "LD" THEN s[1].id ELSE s[1].value % CHAR
      PROVE  Decode(Encode(i)) = Instruction(op, a, s[2].id, Wrapped(s[2].value, INT))
  <2>1. /\ op \notin ThreeRegister \cup WithImmediate \cup Branches \cup Uppers \cup Inputs \cup Translated
                      \cup {"JALR", "DEBUG", "NOP", "HALT"}
        /\ Layout(op) = "I"
    BY <1>7, Groups DEF Layout
  <2>2. Needs(op) = 2 /\ i = Instruction(op, a, s[2].id, s[2].value)
    BY <1>7, <2>1 DEF Needs, Assembled
  <2> HIDE DEF i
  <2>3. Encode(i) = Packed(op, "I", a, s[2].id, s[2].value)
    BY <1>3, <2>1, <2>2 DEF Encode, Instruction
  <2>4. /\ s[1].id \in 0 .. CHAR - 1 /\ s[2].id \in 0 .. CHAR - 1 /\ s[1].value \in Int /\ s[2].value \in Int
        /\ CHAR \in Int /\ CHAR > 0
    BY <2>2, Sizes
  <2>5. a \in 0 .. CHAR - 1
    BY <1>7, <2>4
  <2>6. a % CHAR = a /\ s[2].id % CHAR = s[2].id /\ a \in Int /\ s[2].id \in Int
    BY <2>4, <2>5, DigitMod
  <2> QED
    BY <2>1, <2>3, <2>4, <2>6, PackedAny
<1> QED
  BY <1>4, <1>5, <1>6, <1>7

(* The first operand of an assembled instruction is found again in its     *)
(* word, and of a jump to a register the others too.                       *)
LEMMA OperandsFound ==
  ASSUME NEW op \in Opcodes, NEW s, NEW n \in Nat, Needs(op) <= n,
         \A k \in 1 .. n : s[k].id \in 0 .. CHAR - 1 /\ s[k].value \in Int
  PROVE  LET d == Decode(Encode(Assembled(op, s)))
         IN  /\ op \notin {"PRINT", "NOP", "HALT"} => d.a = s[1].id /\ 1 <= Needs(op)
             /\ op = "NOP" => d.a = 0
             /\ op \in Stores \cup {"JALR"} => d.b = s[2].id
             /\ op = "JALR" => d.c = Wrapped(s[3].value, INT)
<1> DEFINE i == Assembled(op, s)   d == Decode(Encode(i))
<1>1. /\ i.op = op /\ i.a \in 0 .. CHAR - 1 /\ i.b \in 0 .. CHAR - 1 /\ i.c \in Int
      /\ op \in ThreeRegister => i.c \in 0 .. CHAR - 1
      /\ op \notin {"PRINT", "NOP", "HALT"} => i.a = s[1].id /\ 1 <= Needs(op)
      /\ op \in Stores \cup {"JALR"} => i.b = s[2].id
      /\ op = "JALR" => i.c = s[3].value
  BY AssembledType
<1>2. /\ CHAR \in Int /\ CHAR > 0 /\ SHORT = CHAR * CHAR /\ SHORT \in Int /\ SHORT > 0
      /\ Translated = {"NOP", "MV", "NOT", "NEG", "NEGW"}
  BY Sizes, Groups DEF SHORT
<1>3. 0 .. CHAR - 1 \subseteq 0 .. SHORT - 1 /\ 0 \in 0 .. CHAR - 1 /\ - 1 \in Int /\ 0 \in Int
  <2>1. \A p \in Int : p > 0 => p <= p * p
    OBVIOUS
  <2>2. CHAR <= SHORT
    BY <1>2, <2>1
  <2> QED
    BY <1>2, <2>2
<1>4. \A v \in 0 .. CHAR - 1 : v % CHAR = v /\ v \in Int
  BY <1>2, DigitMod
<1> SUFFICES /\ op \notin {"PRINT", "NOP", "HALT"} => d.a = s[1].id /\ 1 <= Needs(op)
             /\ op = "NOP" => d.a = 0
             /\ op \in Stores \cup {"JALR"} => d.b = s[2].id
             /\ op = "JALR" => d.c = Wrapped(s[3].value, INT)
  OBVIOUS
<1> HIDE DEF i
<1>5. CASE op \notin Translated \cup {"HALT"}
  <2>1. Encode(i) = Packed(op, Layout(op), i.a, i.b, i.c)
    BY <1>1, <1>2, <1>5 DEF Encode
  <2>2. CASE Layout(op) = "R"
    <3>1. op \in ThreeRegister /\ op \notin Stores \cup {"JALR"}
      BY <1>5, <2>2, Groups, Layouts DEF Layout
    <3>2. d = Instruction(op, i.a, i.b, i.c)
      BY <1>1, <1>3, <2>1, <2>2, <3>1, PackedR DEF PackedAs
    <3> QED
      BY <1>1, <1>5, <1>2, <3>1, <3>2 DEF Instruction
  <2>3. CASE Layout(op) = "I"
    <3>1. d = Instruction(op, i.a % CHAR, i.b % CHAR, Wrapped(i.c, INT))
      BY <1>1, <1>4, <2>1, <2>3, PackedAny
    <3> QED
      BY <1>1, <1>2, <1>4, <1>5, <3>1 DEF Instruction
  <2>4. CASE Layout(op) = "U"
    <3>1. op \notin Stores \cup {"JALR"}
      BY <2>4, Layouts
    <3>2. Packed(op, "U", i.a, i.b, i.c) = Packed(op, "U", i.a, i.b, Wrapped(i.c, INT))
      BY <1>1, WrappedType DEF Packed
    <3>3. d = Instruction(op, i.a, 0, Wrapped(i.c, INT))
      BY <1>1, <2>1, <2>4, <3>2, WrappedType, PackedU DEF PackedAs
    <3> QED
      BY <1>1, <1>2, <1>5, <3>1, <3>3 DEF Instruction
  <2>5. CASE Layout(op) = "D"
    <3>1. op \notin Stores \cup {"JALR"}
      BY <2>5, Layouts
    <3>2. d = Instruction(op, i.a, 0, 0)
      BY <1>1, <1>3, <2>1, <2>5, PackedD DEF PackedAs
    <3> QED
      BY <1>1, <1>2, <1>5, <3>1, <3>2 DEF Instruction
  <2> QED
    BY <2>2, <2>3, <2>4, <2>5, Layouts
<1>6. CASE op \in Translated
  <2>1. /\ {"ADD", "SUB", "SUBW", "ADDI", "XORI"} \subseteq Opcodes
        /\ \A o \in {"ADD", "SUB", "SUBW"} : Layout(o) = "R"
        /\ \A o \in {"ADDI", "XORI"} : Layout(o) = "I"
        /\ op \notin Stores \cup {"JALR", "PRINT", "HALT"}
    <3>1. /\ Operations[1] = "ADD" /\ Operations[2] = "SUB" /\ Operations[20] = "SUBW"
          /\ Operations[29] = "ADDI" /\ Operations[33] = "XORI"
      BY DEF Operations
    <3>2. {"ADD", "SUB", "SUBW", "ADDI", "XORI"} \subseteq Opcodes
      BY <3>1, CodeOf
    <3>3. op \notin Stores \cup {"JALR", "PRINT", "HALT"}
      BY <1>2, <1>6, Groups
    <3> QED
      BY <3>2, <3>3, Groups DEF Layout
  <2>2. \A o \in {"ADD", "SUB", "SUBW"}, a, b, c \in 0 .. CHAR - 1 : Decode(Packed(o, "R", a, b, c)).a = a
    <3> SUFFICES ASSUME NEW o \in {"ADD", "SUB", "SUBW"}, NEW a \in 0 .. CHAR - 1, NEW b \in 0 .. CHAR - 1,
                        NEW c \in 0 .. CHAR - 1
                 PROVE  Decode(Packed(o, "R", a, b, c)).a = a
      OBVIOUS
    <3>1. o \in Opcodes /\ Layout(o) = "R" /\ a \in 0 .. SHORT - 1 /\ b \in 0 .. SHORT - 1 /\ c \in 0 .. SHORT - 1
      BY <1>3, <2>1
    <3>2. Decode(Packed(o, "R", a, b, c)) = Instruction(o, a, b, c)
      BY <3>1, PackedR DEF PackedAs
    <3> QED
      BY <3>2 DEF Instruction
  <2>3. \A o \in {"ADDI", "XORI"}, a, b \in 0 .. CHAR - 1, c \in Int : Decode(Packed(o, "I", a, b, c)).a = a
    <3> SUFFICES ASSUME NEW o \in {"ADDI", "XORI"}, NEW a \in 0 .. CHAR - 1, NEW b \in 0 .. CHAR - 1,
                        NEW c \in Int
                 PROVE  Decode(Packed(o, "I", a, b, c)).a = a
      OBVIOUS
    <3>1. Decode(Packed(o, "I", a, b, c)) = Instruction(o, a % CHAR, b % CHAR, Wrapped(c, INT))
      BY <1>4, <2>1, PackedAny
    <3> QED
      BY <1>4, <3>1 DEF Instruction
  <2>4. /\ op = "NOP" => Encode(i) = Packed("ADD", "R", 0, 0, 0)
        /\ op = "MV" => Encode(i) = Packed("ADDI", "I", i.a, i.b, 0)
        /\ op = "NOT" => Encode(i) = Packed("XORI", "I", i.a, i.b, - 1)
        /\ op = "NEG" => Encode(i) = Packed("SUB", "R", i.a, 0, i.b)
        /\ op = "NEGW" => Encode(i) = Packed("SUBW", "R", i.a, 0, i.b)
    BY <1>1 DEF Encode
  <2>5. op # "NOP" => d.a = i.a
    <3>1. op = "MV" => d.a = i.a
      BY <1>1, <1>3, <2>3, <2>4
    <3>2. op = "NOT" => d.a = i.a
      BY <1>1, <1>3, <2>3, <2>4
    <3>3. op = "NEG" => d.a = i.a
      BY <1>1, <1>3, <2>2, <2>4
    <3>4. op = "NEGW" => d.a = i.a
      BY <1>1, <1>3, <2>2, <2>4
    <3> QED
      BY <1>2, <1>6, <3>1, <3>2, <3>3, <3>4
  <2>6. op = "NOP" => d.a = 0
    BY <1>3, <2>2, <2>4
  <2> QED
    BY <1>1, <2>1, <2>5, <2>6
<1>7. CASE op = "HALT"
  BY <1>7, Groups
<1> QED
  BY <1>5, <1>6, <1>7

(* The word of line k is that of the operation o, its operands resolved.   *)
Holds(k, o) ==
  LET s == lines[k].statement
      syms == Syms(s.operands, table)
  IN  /\ o \in Chosen(s.name) \ {"none"} /\ ~ Unresolved(s.operands, table)
      /\ Needs(o) <= Len(syms)
      /\ image[starts[k] \div INSTRUCTION_LENGTH] = Encode(Assembled(o, syms))

LEMMA WordOfLine ==
  ASSUME AssemblerInv, AllPlain, Assembling, NEW k \in 1 .. at - 1,
         lines[k].statement.kind = "op", starts[k] < MAXMEMORY
  PROVE  \E o : Holds(k, o)
<1> DEFINE s == lines[k].statement
           syms == Syms(s.operands, table)
           c == starts[k] \div INSTRUCTION_LENGTH
<1>1. Filled /\ starts[k] \in Nat /\ starts[k] % INSTRUCTION_LENGTH = 0
  <2>1. TypeInv /\ Filled /\ Len(lines) \in Nat /\ Counted
    BY LinesType DEF AssemblerInv, TypeInv
  <2>2. k \in 1 .. Len(lines) /\ Len(starts) = Len(lines)
    BY <2>1 DEF TypeInv, AssemblerTypeOK, Counted
  <2> QED
    BY <2>1, <2>2 DEF TypeInv, AssemblerTypeOK, Counted
<1>2. PICK words \in WordsOf(s, table) :
        \A j \in DOMAIN words : LET d == c + (j - 1) IN d \in Slot => image[d] = words[j]
  BY <1>1 DEF Filled, ImageInPlace
<1>3. /\ ~ Unresolved(s.operands, table)
      /\ \E o \in Chosen(s.name) \ {"none"} :
           Needs(o) <= Len(syms) /\ words = <<Encode(Assembled(o, syms))>>
  BY DEF WordsOf, Syms
<1>4. PICK o \in Chosen(s.name) \ {"none"} :
        Needs(o) <= Len(syms) /\ words = <<Encode(Assembled(o, syms))>>
  BY <1>3
<1>5. c \in Slot
  <2>1. MAXMEMORY \in Nat /\ MAXMEMORY % 8 = 0
    BY AssemblerAssumption, PlatformAssumption DEF INSTRUCTION_LENGTH
  <2>2. \A p, q \in Nat : p % 8 = 0 /\ q % 8 = 0 /\ p < q => p \div 8 \in 0 .. q \div 8 - 1
    OBVIOUS
  <2>3. starts[k] \div 8 \in 0 .. MAXMEMORY \div 8 - 1
    BY <1>1, <2>1, <2>2 DEF INSTRUCTION_LENGTH
  <2> QED
    BY <2>3 DEF Slot, INSTRUCTION_LENGTH
<1>6. 1 \in DOMAIN words /\ words[1] = Encode(Assembled(o, syms)) /\ c + (1 - 1) = c
  <2>1. c \in Int
    BY <1>1 DEF INSTRUCTION_LENGTH
  <2> HIDE DEF c
  <2> QED
    BY <1>4, <2>1
<1> HIDE DEF c
<1>7. image[c] = Encode(Assembled(o, syms))
  BY <1>2, <1>5, <1>6
<1> QED
  BY <1>3, <1>4, <1>7 DEF Holds, c

(* The resolved operands of a line of operation.                           *)
LEMMA SymsOfLine ==
  ASSUME AssemblerInv, Assembling, NEW k \in 1 .. Len(lines), lines[k].statement.kind = "op",
         ~ Unresolved(lines[k].statement.operands, table)
  PROVE  LET operands == lines[k].statement.operands
             syms == Syms(operands, table)
         IN  /\ IsTable(table) /\ Len(syms) \in Nat /\ Len(syms) = Len(Kept(operands))
             /\ \A j \in 1 .. Len(syms) :
                  /\ Kept(operands)[j] \in Keepers(operands)
                  /\ syms[j] = Resolved(Kept(operands)[j], table)
                  /\ syms[j].id \in 0 .. CHAR - 1 /\ syms[j].value \in Int
<1>1. IsTable(table) /\ TypeInv
  BY TableOK DEF AssemblerInv, TypeInv
<1>2. lines[k].statement \in Readings
  BY <1>1, LinesType, LineType DEF TypeInv, Readings
<1>3. lines[k].statement.operands \in Seq(Operands)
  BY <1>2, KindOf DEF NoStatement, Malformed
<1> QED
  BY <1>1, <1>3, SymsType

(* What step finds in the word of a line with a known operation: a jump or *)
(* a branch, with the registers it compares, where the line has one, and   *)
(* neither where it has none; an LD or a PRINT with its operands.          *)
LEMMA LineDecoded ==
  ASSUME AssemblerInv, Assembling, NEW k \in 1 .. Len(lines), lines[k].statement.kind = "op",
         lines[k].statement.name \in Mnemonics \ {"JALR"}, NEW o, Holds(k, o)
  PROVE  LET s == lines[k].statement
             syms == Syms(s.operands, table)
             d == Decode(image[starts[k] \div INSTRUCTION_LENGTH])
         IN  /\ s.name \notin Branches \cup {"JAL"} => d.op \notin Branches \cup {"JAL", "JALR"}
             /\ s.name \in Branches \cup {"JAL"} => d.op = s.name /\ Needs(s.name) <= Len(syms)
             /\ s.name \in Branches => d.a = syms[1].id /\ d.b = syms[2].id
             /\ s.name \in {"LD", "PRINT"} =>
                  /\ d.op = s.name /\ 2 <= Len(syms) /\ d.b = syms[2].id
                  /\ d.a = IF s.name = "LD" THEN syms[1].id ELSE syms[1].value % CHAR
<1> DEFINE s == lines[k].statement
           syms == Syms(s.operands, table)
           d == Decode(image[starts[k] \div INSTRUCTION_LENGTH])
<1>1. /\ o \in Chosen(s.name) \ {"none"} /\ Needs(o) <= Len(syms)
      /\ d = Decode(Encode(Assembled(o, syms)))
      /\ ~ Unresolved(s.operands, table)
  BY DEF Holds
<1>2. /\ Len(syms) \in Nat
      /\ \A j \in 1 .. Len(syms) : syms[j].id \in 0 .. CHAR - 1 /\ syms[j].value \in Int
  BY <1>1, SymsOfLine
<1>3. o = IF s.name = "SLLIW" THEN "SRAI" ELSE s.name
  BY <1>1 DEF Chosen
<1>4. o \in Opcodes
  BY <1>1, ChosenType
<1> HIDE DEF s, syms, d
<1>5. /\ o \notin Translated => d.op = o
      /\ o \in Translated => d.op \in {"ADD", "ADDI", "XORI", "SUB", "SUBW"}
      /\ o \in Branches => d = Instruction(o, syms[1].id, syms[2].id, Wrapped(syms[3].value, INT))
      /\ o = "LD" => d = Instruction(o, syms[1].id, syms[2].id, Wrapped(syms[2].value, INT))
      /\ o = "PRINT" => d = Instruction(o, syms[1].value % CHAR, syms[2].id, Wrapped(syms[2].value, INT))
  BY <1>1, <1>2, <1>4, EncodedOp
<1>6. /\ Branches = {"BEQ", "BNE", "BLT", "BGE", "BLTU", "BGEU"}
      /\ Translated = {"NOP", "MV", "NOT", "NEG", "NEGW"}
  BY Groups
<1>7. s.name # "JALR"
  BY DEF s
<1>8. s.name \notin Branches \cup {"JAL"} => d.op \notin Branches \cup {"JAL", "JALR"}
  BY <1>3, <1>5, <1>6, <1>7
<1>9. s.name \in Branches \cup {"JAL"} => d.op = s.name /\ Needs(s.name) <= Len(syms)
  BY <1>1, <1>3, <1>5, <1>6
<1>10. s.name \in Branches => d.a = syms[1].id /\ d.b = syms[2].id
  BY <1>3, <1>5, <1>6 DEF Instruction
<1>11. ASSUME s.name \in {"LD", "PRINT"}
       PROVE  /\ d.op = s.name /\ 2 <= Len(syms) /\ d.b = syms[2].id
              /\ d.a = IF s.name = "LD" THEN syms[1].id ELSE syms[1].value % CHAR
  <2>1. o = s.name
    BY <1>3, <1>11
  <2>2. s.name \notin ThreeRegister \cup WithImmediate \cup Branches \cup Inputs
                         \cup {"JALR", "DEBUG", "NOP", "HALT"}
    BY <1>11, Groups
  <2>3. Needs(s.name) = 2
    BY <2>2 DEF Needs
  <2> QED
    BY <1>1, <1>5, <1>11, <2>1, <2>3 DEF Instruction
<1> QED
  BY <1>8, <1>9, <1>10, <1>11 DEF s, syms, d

(* The operation and the registers in the word of a line.                  *)
LEMMA LineOperands ==
  ASSUME AssemblerInv, Assembling, NEW k \in 1 .. Len(lines), lines[k].statement.kind = "op",
         lines[k].statement.name \in Mnemonics, NEW o, Holds(k, o)
  PROVE  LET name == lines[k].statement.name
             kept == Kept(lines[k].statement.operands)
             d == Decode(image[starts[k] \div INSTRUCTION_LENGTH])
         IN  /\ name \notin Translated \cup {"SLLIW"} => d.op = name
             /\ name \in Translated \cup {"SLLIW"} => d.op \in {"ADD", "ADDI", "XORI", "SUB", "SUBW", "SRAI"}
             /\ name \notin {"PRINT", "NOP", "HALT"} => d.a = Resolved(kept[1], table).id
             /\ name = "NOP" => d.a = 0
             /\ name \in Stores \cup {"JALR"} => d.b = Resolved(kept[2], table).id
             /\ name = "JALR" => d.c = Wrapped(Resolved(kept[3], table).value, INT)
<1> DEFINE name == lines[k].statement.name
           operands == lines[k].statement.operands
           kept == Kept(operands)
           syms == Syms(operands, table)
           d == Decode(image[starts[k] \div INSTRUCTION_LENGTH])
<1>1. /\ o \in Chosen(name) \ {"none"} /\ Needs(o) <= Len(syms)
      /\ d = Decode(Encode(Assembled(o, syms)))
      /\ ~ Unresolved(operands, table)
  BY DEF Holds
<1>2. /\ Len(syms) \in Nat
      /\ \A j \in 1 .. Len(syms) : /\ syms[j] = Resolved(kept[j], table)
                                   /\ syms[j].id \in 0 .. CHAR - 1 /\ syms[j].value \in Int
  BY <1>1, SymsOfLine
<1>3. o = (IF name = "SLLIW" THEN "SRAI" ELSE name) /\ o \in Opcodes
  BY <1>1, ChosenType DEF Chosen
<1>4. Translated = {"NOP", "MV", "NOT", "NEG", "NEGW"} /\ Stores = {"SB", "SH", "SW", "SD"}
  BY Groups
<1>5. o \in Stores => Needs(o) = 2
  <2>1. o \in Stores => o \notin ThreeRegister \cup WithImmediate \cup Branches \cup Inputs
                                   \cup {"JALR", "DEBUG", "NOP", "HALT"}
    BY Groups
  <2> QED
    BY <2>1 DEF Needs
<1>6. o = "JALR" => Needs(o) = 3
  <2>1. "JALR" \notin Inputs \cup {"NOP", "HALT", "DEBUG"}
    BY Groups
  <2> QED
    BY <2>1 DEF Needs
<1> SUFFICES /\ name \notin Translated \cup {"SLLIW"} => d.op = name
             /\ name \in Translated \cup {"SLLIW"} => d.op \in {"ADD", "ADDI", "XORI", "SUB", "SUBW", "SRAI"}
             /\ name \notin {"PRINT", "NOP", "HALT"} => d.a = Resolved(kept[1], table).id
             /\ name = "NOP" => d.a = 0
             /\ name \in Stores \cup {"JALR"} => d.b = Resolved(kept[2], table).id
             /\ name = "JALR" => d.c = Wrapped(Resolved(kept[3], table).value, INT)
  OBVIOUS
<1> HIDE DEF name, operands, kept, syms, d
<1>7. /\ o \notin Translated => d.op = o
      /\ o \in Translated => d.op \in {"ADD", "ADDI", "XORI", "SUB", "SUBW"}
  BY <1>1, <1>2, <1>3, EncodedOp
<1>8. /\ o \notin {"PRINT", "NOP", "HALT"} => d.a = syms[1].id /\ 1 <= Needs(o)
      /\ o = "NOP" => d.a = 0
      /\ o \in Stores \cup {"JALR"} => d.b = syms[2].id
      /\ o = "JALR" => d.c = Wrapped(syms[3].value, INT)
  BY <1>1, <1>2, <1>3, OperandsFound
<1>9. name \notin Translated \cup {"SLLIW"} => d.op = name
  BY <1>3, <1>7
<1>10. name \in Translated \cup {"SLLIW"} => d.op \in {"ADD", "ADDI", "XORI", "SUB", "SUBW", "SRAI"}
  BY <1>3, <1>4, <1>7
<1>11. ASSUME name \notin {"PRINT", "NOP", "HALT"} PROVE d.a = Resolved(kept[1], table).id
  <2>1. d.a = syms[1].id /\ 1 <= Needs(o)
    BY <1>3, <1>8, <1>11
  <2>2. 1 \in 1 .. Len(syms)
    <3>1. Needs(o) \in Nat
      BY DEF Needs
    <3> QED
      BY <1>1, <1>2, <2>1, <3>1
  <2> QED
    BY <1>2, <2>1, <2>2
<1>12. name = "NOP" => d.a = 0
  BY <1>3, <1>8
<1>13. name \in Stores \cup {"JALR"} => d.b = Resolved(kept[2], table).id
  <2> SUFFICES ASSUME name \in Stores \cup {"JALR"} PROVE d.b = Resolved(kept[2], table).id
    OBVIOUS
  <2>1. o = name
    BY <1>3, <1>4
  <2>2. 2 \in 1 .. Len(syms) /\ d.b = syms[2].id
    BY <1>1, <1>2, <1>5, <1>6, <1>8, <2>1
  <2> QED
    BY <1>2, <2>2
<1>14. name = "JALR" => d.c = Wrapped(Resolved(kept[3], table).value, INT)
  <2> SUFFICES ASSUME name = "JALR" PROVE d.c = Wrapped(Resolved(kept[3], table).value, INT)
    OBVIOUS
  <2>1. o = "JALR"
    BY <1>3
  <2>2. 3 \in 1 .. Len(syms) /\ d.c = Wrapped(syms[3].value, INT)
    BY <1>1, <1>2, <1>6, <1>8, <2>1
  <2> QED
    BY <1>2, <2>2
<1> QED
  BY <1>9, <1>10, <1>11, <1>12, <1>13, <1>14

(* So an address in a word is that of the line its label marks.            *)
LEMMA ResolvingReferences ==
  ASSUME AssemblerInv
  PROVE  ReferencesResolve
<1> DEFINE Target(s) == Kept(s.operands)[Needs(s.name)]
<1> SUFFICES ASSUME AllPlain, Assembling, NEW k \in 1 .. at - 1,
                    lines[k].statement.kind = "op", lines[k].statement.name \in Addressing,
                    starts[k] < MAXMEMORY,
                    Target(lines[k].statement).kind = "name",
                    Target(lines[k].statement).name \notin DOMAIN RegisterOf
             PROVE  \E j \in DOMAIN lines :
                      /\ Defines(j, Target(lines[k].statement).name)
                      /\ Decode(image[starts[k] \div INSTRUCTION_LENGTH]).c = Wrapped(starts[j], INT)
  BY DEF ReferencesResolve
<1> DEFINE s == lines[k].statement
           op == s.name
           syms == Syms(s.operands, table)
           c == starts[k] \div INSTRUCTION_LENGTH
<1>1. TypeInv /\ IsTable(table) /\ Len(lines) \in Nat /\ k \in 1 .. Len(lines) /\ starts[k] \in Nat
  <2>1. TypeInv /\ IsTable(table) /\ Len(lines) \in Nat /\ Counted
    BY TableOK, LinesType DEF AssemblerInv, TypeInv
  <2>2. k \in 1 .. Len(lines) /\ Len(starts) = Len(lines)
    BY <2>1 DEF TypeInv, AssemblerTypeOK, Counted
  <2> QED
    BY <2>1, <2>2 DEF TypeInv, AssemblerTypeOK, Counted
<1>2. PICK o : Holds(k, o)
  BY WordOfLine
<1>3. o = op
  BY <1>2, AddressingOps DEF Holds
<1>4. ~ Unresolved(s.operands, table)
  BY <1>2 DEF Holds
<1>5. Needs(op) <= Len(syms)
  BY <1>2, <1>3 DEF Holds
<1>6. image[c] = Encode(Assembled(op, syms))
  BY <1>2, <1>3 DEF Holds
<1>7. /\ Len(syms) \in Nat
      /\ \A j \in 1 .. Len(syms) :
           /\ Kept(s.operands)[j] \in Keepers(s.operands)
           /\ syms[j] = Resolved(Kept(s.operands)[j], table)
           /\ syms[j].id \in 0 .. CHAR - 1 /\ syms[j].value \in Int
  BY <1>1, <1>4, SymsOfLine
<1>8. Needs(op) \in 1 .. Len(syms)
  <2>1. Needs(op) \in {1, 2, 3}
    BY AddressingOps DEF Needs
  <2> QED
    BY <2>1, <1>5, <1>7
<1> DEFINE target == Target(s)
<1>9. target \in Keepers(s.operands) /\ syms[Needs(op)] = Resolved(target, table)
  BY <1>7, <1>8
<1>10. target.kind = "name" /\ target.name \notin DOMAIN RegisterOf
  OBVIOUS
<1> HIDE DEF target
<1>11. target.name \in DOMAIN table
  BY <1>4, <1>9, <1>10 DEF Unresolved, Keepers
<1>12. syms[Needs(op)].value = Wrapped(table[target.name], INT)
  BY <1>9, <1>10 DEF Resolved
<1>13. PICK j \in DOMAIN lines : Defines(j, target.name) /\ table[target.name] = starts[j]
  BY <1>11, LabelDefined
<1>14. Wrapped(starts[j], INT) \in - (INT \div 2) .. INT \div 2 - 1
  <2>1. starts[j] \in Int
    BY <1>11, <1>13, <1>1 DEF IsTable
  <2> QED
    BY <2>1, WrappedType
<1>15. Decode(image[c]).c = Wrapped(starts[j], INT)
  <2>1. syms[Needs(op)].value = Wrapped(starts[j], INT)
    BY <1>12, <1>13
  <2> HIDE DEF syms
  <2>2. Decode(Encode(Assembled(op, syms))).c = syms[Needs(op)].value
    BY <1>5, <1>7, <1>14, <2>1, AddressEncoded
  <2> QED
    BY <1>6, <2>1, <2>2
<1> QED
  BY <1>13, <1>15 DEF target

(* The pointer of the second pass stays within reach of memory and the page *)
(* past it, and the pass ends behind the last line.                        *)
InReach ==
  /\ Assembling => pointer <= MAXMEMORY + PAGESIZE
  /\ phase = "done" => at = Len(lines) + 1

LEMMA NextReaches ==
  ASSUME AssemblerInv, InReach, [AssemblerNext]_assemblerVars
  PROVE  InReach'
<1>1. TypeInv /\ AssemblerTypeOK /\ Len(lines) \in Nat /\ pointer \in Nat /\ at \in 1 .. Len(lines) + 1
  BY LinesType DEF AssemblerInv, TypeInv, AssemblerTypeOK
<1>2. MAXMEMORY + PAGESIZE \in Nat
  BY PlatformAssumption
<1>3. CASE UNCHANGED assemblerVars
  BY <1>3 DEF assemblerVars, InReach, Assembling
<1>4. CASE Scan
  BY <1>4 DEF Scan, InReach, Assembling
<1>5. CASE ScanFails \/ EmitKills \/ EmitFails
  BY <1>5 DEF ScanFails, EmitKills, EmitFails, InReach, Assembling
<1>6. CASE Restart
  BY <1>2, <1>6 DEF Restart, InReach, Assembling
<1>7. CASE Finish
  BY <1>1, <1>7 DEF Finish, InReach, Assembling
<1>8. CASE Emit
  <2>1. phase = "second" /\ at <= Len(lines)
    BY <1>8 DEF Emit
  <2>2. PICK words \in WordsOf(OperationOf(lines[at]), table) :
          /\ pointer' = pointer + FittingWords(words) * INSTRUCTION_LENGTH
          /\ phase' \in {phase, "threw"}
    BY <1>8, Zenon DEF Emit
  <2>3. words \in Seq(Word) /\ FittingWords(words) \in Nat
    BY <2>1, EmitWords
  <2>4. FittingWords(words) # 0 => pointer' <= MAXMEMORY + PAGESIZE
    BY <2>2, <2>3, <1>1, FittingWordsType
  <2>5. FittingWords(words) = 0 => pointer' = pointer
    BY <2>2, <1>1 DEF INSTRUCTION_LENGTH
  <2>6. pointer <= MAXMEMORY + PAGESIZE
    BY <2>1 DEF InReach, Assembling
  <2>7. pointer' <= MAXMEMORY + PAGESIZE
    BY <2>4, <2>5, <2>6
  <2>8. phase' # "done"
    BY <2>1, <2>2
  <2> QED
    BY <2>7, <2>8 DEF InReach
<1> QED
  BY <1>3, <1>4, <1>5, <1>6, <1>7, <1>8 DEF AssemblerNext

(* Of a program that is assembled, every line begins within that reach.    *)
LEMMA LinesInReach ==
  ASSUME AssemblerInv, InReach, AllPlain, phase = "done", NEW k \in 1 .. Len(lines)
  PROVE  starts[k] \in 0 .. MAXMEMORY + PAGESIZE
<1>1. /\ TypeInv /\ Counted /\ Len(lines) \in Nat /\ Assembling /\ at = Len(lines) + 1
      /\ Len(starts) = Len(lines) /\ pointer = AddressOf(lines, starts, at) /\ pointer \in Nat
  BY LinesType DEF AssemblerInv, TypeInv, AssemblerTypeOK, Counted, InReach, Assembling
<1>2. EndOf(lines, starts, k) <= pointer /\ starts[k] \in Nat
  <2>1. at \in 1 .. Len(starts) + 1 /\ k \in 1 .. at - 1
    BY <1>1
  <2> QED
    BY <2>1, <1>1, EndsBefore
<1>3. EndOf(lines, starts, k) = starts[k] + LengthOfLine(lines[k]) /\ LengthOfLine(lines[k]) \in Nat
  BY <1>1, LinesType DEF EndOf, TypeInv
<1>4. pointer <= MAXMEMORY + PAGESIZE /\ MAXMEMORY + PAGESIZE \in Nat
  BY <1>1, PlatformAssumption DEF InReach
<1> QED
  BY <1>1, <1>2, <1>3, <1>4

(* Every variable keeps its type, for every program.                       *)
THEOREM AssemblerTypeCorrect == AssemblerSpec => []AssemblerTypeOK
<1>1. AssemblerInv => AssemblerTypeOK
  BY DEF AssemblerInv, TypeInv
<1> QED
  BY <1>1, InvariantHolds, PTL

(* toMemory comes to every line at the address firstStep gave it, and the  *)
(* labels stand for those addresses.                                       *)
THEOREM PassesAlwaysAgree == AssemblerSpec => []PassesAgree
BY AgreeingPasses, InvariantHolds, PTL

(* What toMemory has written is where firstStep said it would be, whole,   *)
(* and nothing is written elsewhere.                                       *)
THEOREM ImageAlwaysInPlace == AssemblerSpec => []ImageInPlace
<1>1. AssemblerInv => ImageInPlace
  BY DEF AssemblerInv, Filled
<1> QED
  BY <1>1, InvariantHolds, PTL

(* The address in an instruction that names a label is that of the first   *)
(* line the label marks.                                                   *)
THEOREM ReferencesAlwaysResolve == AssemblerSpec => []ReferencesResolve
BY ResolvingReferences, InvariantHolds, PTL
=============================================================================
