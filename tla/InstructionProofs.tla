------------------------- MODULE InstructionProofs --------------------------
(***************************************************************************)
(* How instructions are packed into words and taken out again: the codes   *)
(* and layouts of all the operations, one lemma for each layout, and what  *)
(* the debugger makes of the same words.                                   *)
(***************************************************************************)
EXTENDS WordProofs
-----------------------------------------------------------------------------
(* Packing and unpacking. *)

(* The lowest digit of a number comes off.                                 *)
LEMMA Peel ==
  ASSUME NEW n \in Int, n > 0, NEW d \in 0 .. n - 1, NEW rest \in Int
  PROVE  /\ d + n * rest \in Int
         /\ (d + n * rest) % n = d
         /\ (d + n * rest) \div n = rest
<1> DEFINE v == d + n * rest
<1>1. n * rest \in Int
  OBVIOUS
<1>2. v \in Int /\ v = n * rest + d
  BY <1>1
<1> HIDE DEF v
<1>3. v \div n = rest /\ v % n = d
  BY <1>2, DivUnique
<1> QED
  BY <1>2, <1>3 DEF v

(* Four digits, of four sizes, that make a number.                         *)
Digits4(w, n1, n2, n3, d0, d1, d2, d3) == w = d0 + n1 * (d1 + n2 * (d2 + n3 * d3))

(* What they are taken out with, where the weights are p2 and p3. *)
Digits4Of(w, n1, n2, n3, p2, p3, d0, d1, d2, d3) ==
  /\ w \in Int
  /\ w % n1 = d0
  /\ (w \div n1) % n2 = d1
  /\ (w \div p2) % n3 = d2
  /\ w \div p3 = d3

LEMMA Unpacked ==
  ASSUME NEW n1 \in Int, NEW n2 \in Int, NEW n3 \in Int, n1 > 0, n2 > 0, n3 > 0,
         NEW d0 \in 0 .. n1 - 1, NEW d1 \in 0 .. n2 - 1, NEW d2 \in 0 .. n3 - 1, NEW d3 \in Int,
         NEW w, Digits4(w, n1, n2, n3, d0, d1, d2, d3),
         NEW p2 \in Int, NEW p3 \in Int, Product(p2, n1, n2), Product(p3, p2, n3)
  PROVE  Digits4Of(w, n1, n2, n3, p2, p3, d0, d1, d2, d3)
<1> DEFINE r2 == d2 + n3 * d3
           r1 == d1 + n2 * r2
<1>1. r2 \in Int /\ r2 % n3 = d2 /\ r2 \div n3 = d3
  BY Peel
<1> HIDE DEF r2
<1>2. r1 \in Int /\ r1 % n2 = d1 /\ r1 \div n2 = r2
  BY <1>1, Peel
<1>3. w = d0 + n1 * r1
  BY DEF Digits4, r2
<1> HIDE DEF r1
<1>4. w \in Int /\ w % n1 = d0 /\ w \div n1 = r1
  BY <1>2, <1>3, Peel
<1>5. Splits(w, n1, n2, p2)
  BY <1>4, DivideTwice
<1>6. w \div p2 = r2 /\ p2 > 0
  BY <1>2, <1>4, <1>5 DEF Splits
<1>7. Splits(w, p2, n3, p3)
  BY <1>4, <1>6, DivideTwice
<1>8. w \div p3 = d3
  BY <1>1, <1>6, <1>7 DEF Splits
<1> QED
  BY <1>1, <1>2, <1>4, <1>6, <1>8 DEF Digits4Of

(* How the weights of the fields come about.                               *)
LEMMA FieldWeights ==
  /\ Product(Place[5], Place[3], SHORT) /\ Product(Place[7], Place[5], SHORT)
  /\ Product(Place[4], Place[3], CHAR) /\ Product(Place[5], Place[4], CHAR)
  /\ Place[1] = 1 /\ Place[3] = SHORT /\ CHAR <= SHORT
<1>1. Place = <<1, CHAR, SHORT, SHORT * CHAR, INT, INT * CHAR, INT * SHORT, INT * SHORT * CHAR>>
  BY DEF Place
<1>2. SHORT * CHAR * CHAR = INT
  <2>1. \A a \in Int : ((a * a) * a) * a = (a * a) * (a * a)
    OBVIOUS
  <2> QED
    BY <2>1, Sizes DEF INT, SHORT
<1>3. CHAR <= SHORT
  <2>1. CHAR \in Int /\ CHAR >= 1
    BY Sizes
  <2> QED
    BY <2>1 DEF SHORT
<1> QED
  BY <1>1, <1>2, <1>3 DEF Product, INT

(* A code finds its operation, and an operation its code.                  *)
LEMMA OperationsDiffer ==
  \A j, k \in 1 .. 71 : Operations[j] = Operations[k] => j = k
  BY DEF Operations

LEMMA CodeOf ==
  /\ \A op \in Opcodes : Code(op) \in 0 .. 70 /\ Operations[Code(op) + 1] = op
  /\ \A k \in 1 .. 71 : Operations[k] \in Opcodes /\ Code(Operations[k]) = k - 1
<1>1. DOMAIN Operations = 1 .. 71
  BY DEF Operations
<1>2. ASSUME NEW op \in Opcodes
      PROVE  Code(op) \in 0 .. 70 /\ Operations[Code(op) + 1] = op
  <2> DEFINE c == CHOOSE k \in DOMAIN Operations : Operations[k] = op
  <2>1. \E k \in DOMAIN Operations : Operations[k] = op
    BY DEF Opcodes
  <2>2. c \in DOMAIN Operations /\ Operations[c] = op
    BY <2>1, Zenon
  <2>3. Code(op) = c - 1
    BY DEF Code
  <2> HIDE DEF c
  <2>4. c \in 1 .. 71 /\ (c - 1) + 1 = c
    BY <1>1, <2>2
  <2> QED
    BY <2>2, <2>3, <2>4
<1>3. ASSUME NEW k \in 1 .. 71
      PROVE  Operations[k] \in Opcodes /\ Code(Operations[k]) = k - 1
  <2>1. Operations[k] \in Opcodes
    BY <1>1 DEF Opcodes
  <2>2. Code(Operations[k]) + 1 \in 1 .. 71 /\ Operations[Code(Operations[k]) + 1] = Operations[k]
    BY <1>2, <2>1
  <2>3. Code(Operations[k]) + 1 = k
    BY <2>2, OperationsDiffer
  <2>4. Code(Operations[k]) \in Int
    BY <1>2, <2>1
  <2> QED
    BY <2>1, <2>3, <2>4
<1> QED
  BY <1>2, <1>3

(* An operation lies between two others where its code does.               *)
LEMMA BetweenCodes ==
  ASSUME NEW op \in Opcodes, NEW first, NEW last, Code(first) \in 0 .. 70, Code(last) \in 0 .. 70
  PROVE  op \in Between(first, last) <=> Code(op) \in Code(first) .. Code(last)
<1>1. Code(op) \in 0 .. 70 /\ Operations[Code(op) + 1] = op
  BY CodeOf
<1>2. ASSUME op \in Between(first, last) PROVE Code(op) \in Code(first) .. Code(last)
  <2>1. PICK k \in Code(first) .. Code(last) : op = Operations[k + 1]
    BY <1>2 DEF Between
  <2>2. k + 1 \in 1 .. 71 /\ (k + 1) - 1 = k
    BY <2>1
  <2> QED
    BY <2>1, <2>2, CodeOf
<1>3. ASSUME Code(op) \in Code(first) .. Code(last) PROVE op \in Between(first, last)
  BY <1>1, <1>3 DEF Between
<1> QED
  BY <1>2, <1>3

(* The layout and the group of an operation, by its code.                  *)
LEMMA LayoutOfCode ==
  ASSUME NEW op \in Opcodes
  PROVE  LET k == Code(op)
         IN  /\ op = "HALT" <=> k = 64
             /\ op = "DEBUG" <=> k = 70
             /\ op \in Translated <=> k \in 59 .. 63
             /\ Layout(op) = IF k \in 0 .. 27 \/ k = 64 THEN "R"
                             ELSE IF k \in 57 .. 58 \/ k \in 66 .. 69 THEN "U"
                             ELSE IF k = 70 THEN "D" ELSE "I"
<1> DEFINE k == Code(op)
<1>1. op \in ThreeRegister <=> k \in 0 .. 27
  BY BetweenCodes, Codes DEF ThreeRegister
<1>2. op \in Uppers <=> k \in 57 .. 58
  BY BetweenCodes, Codes DEF Uppers
<1>3. op \in Inputs <=> k \in 66 .. 69
  BY BetweenCodes, Codes DEF Inputs
<1>4. op \in Translated <=> k \in 59 .. 63
  BY BetweenCodes, Codes DEF Translated
<1>5. Operations[65] = "HALT" /\ Operations[71] = "DEBUG"
  BY DEF Operations
<1>6. k \in 0 .. 70 /\ Operations[k + 1] = op /\ Code("HALT") = 64 /\ Code("DEBUG") = 70
  <2>1. Code(Operations[65]) = 65 - 1 /\ Code(Operations[71]) = 71 - 1
    BY CodeOf
  <2> QED
    BY <1>5, <2>1, CodeOf
<1>7. (op = "HALT" <=> k = 64) /\ (op = "DEBUG" <=> k = 70)
  BY <1>5, <1>6
<1> HIDE DEF k
<1>8. Layout(op) = IF k \in 0 .. 27 \/ k = 64 THEN "R"
                   ELSE IF k \in 57 .. 58 \/ k \in 66 .. 69 THEN "U"
                   ELSE IF k = 70 THEN "D" ELSE "I"
  BY <1>1, <1>2, <1>3, <1>6, <1>7 DEF Layout
<1> QED
  BY <1>4, <1>7, <1>8 DEF k

-----------------------------------------------------------------------------
(* What a word that was packed holds: in each layout, the fields.          *)

(* The first field of a word is the code.                                  *)
LEMMA CodeField ==
  ASSUME NEW w \in Int, NEW op \in Opcodes, w % SHORT = Code(op)
  PROVE  /\ Field(w, 0, 2) = Code(op)
         /\ (IF Field(w, 0, 2) < Len(Operations) THEN Operations[Field(w, 0, 2) + 1] ELSE "none") = op
<1>1. w \div 1 = w
  OBVIOUS
<1>2. Field(w, 0, 2) = Code(op)
  BY <1>1, FieldWeights DEF Field, Values
<1>3. Code(op) < Len(Operations) /\ Operations[Code(op) + 1] = op
  BY CodeOf, Codes
<1> QED
  BY <1>2, <1>3

(* The code of an operation is a digit of two bytes. *)
LEMMA CodeDigit ==
  ASSUME NEW op \in Opcodes
  PROVE  Code(op) \in 0 .. SHORT - 1
  BY CodeOf, Codes, InstructionsAssumption, Sizes

(* A digit is what its type keeps of it. *)
LEMMA DigitMod ==
  ASSUME NEW n \in Int, n > 0, NEW d \in 0 .. n - 1
  PROVE  d % n = d
<1>1. d = n * 0 + d /\ 0 \in Int /\ d \in Int
  OBVIOUS
<1> QED
  BY <1>1, DivUnique

(* Unpacked is how step takes apart what getInstruction packed.            *)
PackedAs(w, op, p) == w \in Int /\ Field(w, 0, 2) = Code(op) /\ Decode(w) = p

LEMMA PackedR ==
  ASSUME NEW op \in Opcodes, Layout(op) = "R",
         NEW a \in 0 .. SHORT - 1, NEW b \in 0 .. SHORT - 1, NEW c \in 0 .. SHORT - 1
  PROVE  PackedAs(Packed(op, "R", a, b, c), op, Instruction(op, a, b, c))
<1> DEFINE w == Packed(op, "R", a, b, c)   k == Code(op)
<1>1. SHORT \in Int /\ SHORT > 0 /\ k \in 0 .. SHORT - 1 /\ Place[5] \in Int /\ Place[7] \in Int
  BY Sizes, CodeDigit
<1>2. a % SHORT = a /\ b % SHORT = b /\ c % SHORT = c /\ c \in Int
  BY <1>1, DigitMod
<1>3. w = k + (a * Place[3] + b * Place[5] + c * Place[7])
  BY <1>2 DEF Packed
<1>4. Digits4(w, SHORT, SHORT, SHORT, k, a, b, c)
  <2>1. Place[3] = SHORT /\ Place[5] = SHORT * SHORT /\ Place[7] = (SHORT * SHORT) * SHORT
    BY FieldWeights DEF Product
  <2>2. \A s, d, e, f \in Int :
          d * s + e * (s * s) + f * ((s * s) * s) = s * (d + s * (e + s * f))
    OBVIOUS
  <2> HIDE DEF w, k
  <2> QED
    BY <1>1, <1>3, <2>1, <2>2 DEF Digits4
<1>5. Product(Place[5], SHORT, SHORT) /\ Product(Place[7], Place[5], SHORT)
  BY FieldWeights
<1> HIDE DEF w, k
<1>6. /\ w \in Int /\ w % SHORT = k
      /\ (w \div SHORT) % SHORT = a /\ (w \div Place[5]) % SHORT = b /\ w \div Place[7] = c
  <2>1. Digits4Of(w, SHORT, SHORT, SHORT, Place[5], Place[7], k, a, b, c)
    BY <1>1, <1>2, <1>4, <1>5, Unpacked
  <2> QED
    BY <2>1 DEF Digits4Of
<1>7. /\ Field(w, 0, 2) = k
      /\ (IF Field(w, 0, 2) < Len(Operations) THEN Operations[Field(w, 0, 2) + 1] ELSE "none") = op
  BY <1>6, CodeField DEF k
<1>8. Field(w, 2, 2) = a /\ Field(w, 4, 2) = b /\ Field(w, 6, 2) = c
  BY <1>2, <1>6, FieldWeights DEF Field, Values
<1>9. Decode(w) = Instruction(op, a, b, c)
  BY <1>7, <1>8 DEF Decode
<1> QED
  BY <1>6, <1>7, <1>9 DEF PackedAs, w, k

LEMMA PackedI ==
  ASSUME NEW op \in Opcodes, Layout(op) = "I",
         NEW a \in 0 .. CHAR - 1, NEW b \in 0 .. CHAR - 1,
         NEW c \in - (INT \div 2) .. INT \div 2 - 1
  PROVE  PackedAs(Packed(op, "I", a, b, c), op, Instruction(op, a, b, c))
<1> DEFINE w == Packed(op, "I", a, b, c)   k == Code(op)   e == c % INT
<1>1. /\ SHORT \in Int /\ SHORT > 0 /\ CHAR \in Int /\ CHAR > 0 /\ INT \in Int /\ INT > 0
      /\ k \in 0 .. SHORT - 1 /\ Place[4] \in Int /\ Place[5] \in Int
  BY Sizes, CodeDigit
<1>2. a % CHAR = a /\ b % CHAR = b /\ e \in 0 .. INT - 1 /\ e \in Int
  <2>1. INT \div 2 \in Int
    BY Evens
  <2>2. c \in Int
    BY <2>1
  <2> QED
    BY <1>1, <2>2, DigitMod, DivMod
<1>3. w = k + (a * Place[3] + b * Place[4] + e * Place[5])
  BY <1>2 DEF Packed
<1>4. Digits4(w, SHORT, CHAR, CHAR, k, a, b, e)
  <2>1. Place[3] = SHORT /\ Place[4] = SHORT * CHAR /\ Place[5] = (SHORT * CHAR) * CHAR
    BY FieldWeights DEF Product
  <2>2. \A s, t, d, f, g \in Int :
          d * s + f * (s * t) + g * ((s * t) * t) = s * (d + t * (f + t * g))
    OBVIOUS
  <2> HIDE DEF w, k, e
  <2> QED
    BY <1>1, <1>2, <1>3, <2>1, <2>2 DEF Digits4
<1>5. Product(Place[4], SHORT, CHAR) /\ Product(Place[5], Place[4], CHAR)
  BY FieldWeights
<1> HIDE DEF w, k, e
<1>6. /\ w \in Int /\ w % SHORT = k
      /\ (w \div SHORT) % CHAR = a /\ (w \div Place[4]) % CHAR = b /\ w \div Place[5] = e
  <2>1. Digits4Of(w, SHORT, CHAR, CHAR, Place[4], Place[5], k, a, b, e)
    BY <1>1, <1>2, <1>4, <1>5, Unpacked
  <2> QED
    BY <2>1 DEF Digits4Of
<1>7. /\ Field(w, 0, 2) = k
      /\ (IF Field(w, 0, 2) < Len(Operations) THEN Operations[Field(w, 0, 2) + 1] ELSE "none") = op
  BY <1>6, CodeField DEF k
<1>8. e % INT = e
  BY <1>1, <1>2, DigitMod
<1>9. Field(w, 2, 1) = a /\ Field(w, 3, 1) = b /\ Field(w, 4, 4) = e
  BY <1>6, <1>8, FieldWeights DEF Field, Values
<1>10. Signed(e, INT) = c
  BY WrappedSame DEF Wrapped, e
<1>11. Decode(w) = Instruction(op, a, b, c)
  BY <1>7, <1>9, <1>10 DEF Decode
<1> QED
  BY <1>6, <1>7, <1>11 DEF PackedAs, w, k

LEMMA PackedU ==
  ASSUME NEW op \in Opcodes, Layout(op) = "U",
         NEW a \in 0 .. CHAR - 1, NEW c \in - (INT \div 2) .. INT \div 2 - 1, NEW b
  PROVE  PackedAs(Packed(op, "U", a, b, c), op, Instruction(op, a, 0, c))
<1> DEFINE w == Packed(op, "U", a, b, c)   k == Code(op)   e == c % INT   p == Place[4] * INT
<1>1. /\ SHORT \in Int /\ SHORT > 0 /\ CHAR \in Int /\ CHAR > 0 /\ INT \in Int /\ INT > 0
      /\ k \in 0 .. SHORT - 1 /\ Place[4] \in Int
  BY Sizes, CodeDigit
<1>2. a % CHAR = a /\ e \in 0 .. INT - 1 /\ e \in Int
  <2>1. INT \div 2 \in Int
    BY Evens
  <2>2. c \in Int
    BY <2>1
  <2> QED
    BY <1>1, <2>2, DigitMod, DivMod
<1>3. w = k + (a * Place[3] + e * Place[4])
  BY <1>2 DEF Packed
<1>4. Digits4(w, SHORT, CHAR, INT, k, a, e, 0)
  <2>1. Place[3] = SHORT /\ Place[4] = SHORT * CHAR /\ INT * 0 = 0
    BY <1>1, FieldWeights DEF Product
  <2>2. \A s, t, d, f \in Int : d * s + f * (s * t) = s * (d + t * f)
    OBVIOUS
  <2> HIDE DEF w, k, e
  <2>3. e + INT * 0 = e
    BY <1>2, <2>1
  <2> QED
    BY <1>1, <1>2, <1>3, <2>1, <2>2, <2>3 DEF Digits4
<1>5. Product(Place[4], SHORT, CHAR) /\ Product(p, Place[4], INT) /\ p \in Int
  BY <1>1, FieldWeights DEF Product
<1> HIDE DEF w, k, e, p
<1>6. /\ w \in Int /\ w % SHORT = k
      /\ (w \div SHORT) % CHAR = a /\ (w \div Place[4]) % INT = e
  <2>1. Digits4Of(w, SHORT, CHAR, INT, Place[4], p, k, a, e, 0)
    BY <1>1, <1>2, <1>4, <1>5, Unpacked
  <2> QED
    BY <2>1 DEF Digits4Of
<1>7. /\ Field(w, 0, 2) = k
      /\ (IF Field(w, 0, 2) < Len(Operations) THEN Operations[Field(w, 0, 2) + 1] ELSE "none") = op
  BY <1>6, CodeField DEF k
<1>8. Field(w, 2, 1) = a /\ Field(w, 3, 4) = e
  BY <1>6, FieldWeights DEF Field, Values
<1>9. Signed(e, INT) = c
  BY WrappedSame DEF Wrapped, e
<1>10. Decode(w) = Instruction(op, a, 0, c)
  BY <1>7, <1>8, <1>9 DEF Decode
<1> QED
  BY <1>6, <1>7, <1>10 DEF PackedAs, w, k

LEMMA PackedD ==
  ASSUME NEW op \in Opcodes, Layout(op) = "D", NEW a \in 0 .. SHORT - 1, NEW b, NEW c
  PROVE  PackedAs(Packed(op, "D", a, b, c), op, Instruction(op, a, 0, 0))
<1> DEFINE w == Packed(op, "D", a, b, c)   k == Code(op)
<1>1. SHORT \in Int /\ SHORT > 0 /\ k \in 0 .. SHORT - 1
  BY Sizes, CodeDigit
<1>2. a % SHORT = a /\ a \in Int
  BY <1>1, DigitMod
<1>3. w = k + SHORT * a
  <2>1. w = k + a * Place[3]
    BY <1>2 DEF Packed
  <2>2. a * SHORT = SHORT * a
    BY <1>1, <1>2
  <2> QED
    BY <2>1, <2>2, FieldWeights
<1> HIDE DEF w, k
<1>4. w \in Int /\ w % SHORT = k /\ w \div SHORT = a
  BY <1>1, <1>2, <1>3, Peel
<1>5. /\ Field(w, 0, 2) = k
      /\ (IF Field(w, 0, 2) < Len(Operations) THEN Operations[Field(w, 0, 2) + 1] ELSE "none") = op
  BY <1>4, CodeField DEF k
<1>6. Field(w, 2, 2) = a
  BY <1>2, <1>4, FieldWeights DEF Field, Values
<1>7. Decode(w) = Instruction(op, a, 0, 0)
  BY <1>5, <1>6 DEF Decode
<1> QED
  BY <1>4, <1>5, <1>7 DEF PackedAs, w, k

(* The debugger's readParts shows what step takes apart.                   *)
LEMMA PartsShow ==
  ASSUME NEW op \in Opcodes, op \notin Translated, NEW w, NEW p, PackedAs(w, op, p)
  PROVE  /\ p.op = op
         /\ Parts(w) = CASE op \in {"HALT", "DEBUG"} -> <<>>
                         [] Layout(op) = "U" -> <<Code(op), p.a, p.c, - 1>>
                         [] OTHER -> <<Code(op), p.a, p.b, p.c>>
<1> DEFINE k == Field(w, 0, 2)
           R == Instruction(op, Field(w, 2, 2), Field(w, 4, 2), Field(w, 6, 2))
           I == Instruction(op, Field(w, 2, 1), Field(w, 3, 1), Signed(Field(w, 4, 4), INT))
           U == Instruction(op, Field(w, 2, 1), 0, Signed(Field(w, 3, 4), INT))
           D == Instruction(op, Field(w, 2, 2), 0, 0)
<1>1. k = Code(op) /\ k \in 0 .. 70 /\ Decode(w) = p
  BY CodeOf DEF PackedAs
<1>2. (IF k < Len(Operations) THEN Operations[k + 1] ELSE "none") = op
  BY <1>1, CodeOf, Codes
<1>3. /\ Layout(op) = "R" => p = R
      /\ Layout(op) = "I" => p = I
      /\ Layout(op) = "U" => p = U
      /\ Layout(op) = "D" => p = D
  BY <1>1, <1>2 DEF Decode
<1>4. Code("JAL") = 56 /\ Code("PRINT") = 65
  BY DEF Code, Operations
<1>5. Parts(w) = CASE k \in 0 .. 27 -> <<k, Field(w, 2, 2), Field(w, 4, 2), Field(w, 6, 2)>>
                   [] k \in 28 .. 56 \/ k \in 65 .. 65 ->
                        <<k, Field(w, 2, 1), Field(w, 3, 1), Signed(Field(w, 4, 4), INT)>>
                   [] k \in 57 .. 58 \/ k \in 66 .. 69 ->
                        <<k, Field(w, 2, 1), Signed(Field(w, 3, 4), INT), - 1>>
                   [] OTHER -> <<>>
  BY <1>4, Codes DEF Parts
<1>6. /\ op = "HALT" <=> k = 64
      /\ op = "DEBUG" <=> k = 70
      /\ k \notin 59 .. 63
      /\ Layout(op) = IF k \in 0 .. 27 \/ k = 64 THEN "R"
                      ELSE IF k \in 57 .. 58 \/ k \in 66 .. 69 THEN "U"
                      ELSE IF k = 70 THEN "D" ELSE "I"
  BY <1>1, LayoutOfCode
<1> HIDE DEF k
<1>7. p.op = op
  BY <1>3, Layouts DEF Instruction
<1>8. CASE k \in 0 .. 27
  <2>1. p = R /\ op \notin {"HALT", "DEBUG"} /\ Layout(op) # "U"
    BY <1>3, <1>6, <1>8
  <2>2. Parts(w) = <<k, Field(w, 2, 2), Field(w, 4, 2), Field(w, 6, 2)>>
    <3>1. k \in 0 .. 27 /\ ~ (k \in 28 .. 56 \/ k \in 65 .. 65) /\ ~ (k \in 57 .. 58 \/ k \in 66 .. 69)
      BY <1>8
    <3> QED
      BY <1>5, <3>1
  <2>3. Parts(w) = <<k, p.a, p.b, p.c>>
    BY <2>1, <2>2 DEF Instruction
  <2> QED
    BY <1>1, <1>7, <2>1, <2>3
<1>9. CASE k \in 28 .. 56 \/ k = 65
  <2>1. p = I /\ op \notin {"HALT", "DEBUG"} /\ Layout(op) # "U"
    BY <1>3, <1>6, <1>9
  <2>2. Parts(w) = <<k, Field(w, 2, 1), Field(w, 3, 1), Signed(Field(w, 4, 4), INT)>>
    <3>1. ~ (k \in 0 .. 27) /\ (k \in 28 .. 56 \/ k \in 65 .. 65) /\ ~ (k \in 57 .. 58 \/ k \in 66 .. 69)
      BY <1>9
    <3> QED
      BY <1>5, <3>1
  <2>3. Parts(w) = <<k, p.a, p.b, p.c>>
    BY <2>1, <2>2 DEF Instruction
  <2> QED
    BY <1>1, <1>7, <2>1, <2>3
<1>10. CASE k \in 57 .. 58 \/ k \in 66 .. 69
  <2>1. p = U /\ op \notin {"HALT", "DEBUG"} /\ Layout(op) = "U"
    BY <1>3, <1>6, <1>10
  <2>2. Parts(w) = <<k, Field(w, 2, 1), Signed(Field(w, 3, 4), INT), - 1>>
    <3>1. ~ (k \in 0 .. 27) /\ ~ (k \in 28 .. 56 \/ k \in 65 .. 65) /\ (k \in 57 .. 58 \/ k \in 66 .. 69)
      BY <1>10
    <3> QED
      BY <1>5, <3>1
  <2>3. Parts(w) = <<k, p.a, p.c, - 1>>
    BY <2>1, <2>2 DEF Instruction
  <2> QED
    BY <1>1, <1>7, <2>1, <2>3
<1>11. CASE k = 64 \/ k = 70
  <2>1. op \in {"HALT", "DEBUG"} /\ Layout(op) # "U"
    BY <1>6, <1>11
  <2>2. Parts(w) = <<>>
    <3>1. ~ (k \in 0 .. 27) /\ ~ (k \in 28 .. 56 \/ k \in 65 .. 65) /\ ~ (k \in 57 .. 58 \/ k \in 66 .. 69)
      BY <1>11
    <3> QED
      BY <1>5, <3>1
  <2> QED
    BY <1>7, <2>1, <2>2
<1>12. k \in 0 .. 27 \/ k \in 28 .. 56 \/ k = 65 \/ k \in 57 .. 58 \/ k \in 66 .. 69 \/ k = 64 \/ k = 70
  BY <1>1, <1>6
<1> QED
  BY <1>8, <1>9, <1>10, <1>11, <1>12
(* Whatever numbers are packed, the operation is found again, and in the   *)
(* layout with an int what the fields keep of the operands.                *)
LEMMA PackedAny ==
  ASSUME NEW op \in Opcodes, NEW a \in Int, NEW b \in Int, NEW c \in Int
  PROVE  /\ Decode(Packed(op, Layout(op), a, b, c)).op = op
         /\ Layout(op) = "I" =>
              Decode(Packed(op, "I", a, b, c)) = Instruction(op, a % CHAR, b % CHAR, Wrapped(c, INT))
<1>1. CHAR \in Int /\ CHAR > 0 /\ SHORT \in Int /\ SHORT > 0 /\ INT \in Int /\ INT > 0
  BY Sizes
<1>2. \A v \in Int : /\ v % CHAR \in 0 .. CHAR - 1 /\ (v % CHAR) % CHAR = v % CHAR
                     /\ v % SHORT \in 0 .. SHORT - 1 /\ (v % SHORT) % SHORT = v % SHORT
                     /\ Wrapped(v, INT) \in - (INT \div 2) .. INT \div 2 - 1 /\ Wrapped(v, INT) % INT = v % INT
  <2> SUFFICES ASSUME NEW v \in Int
               PROVE  /\ v % CHAR \in 0 .. CHAR - 1 /\ (v % CHAR) % CHAR = v % CHAR
                      /\ v % SHORT \in 0 .. SHORT - 1 /\ (v % SHORT) % SHORT = v % SHORT
                      /\ Wrapped(v, INT) \in - (INT \div 2) .. INT \div 2 - 1 /\ Wrapped(v, INT) % INT = v % INT
    OBVIOUS
  <2>1. v % CHAR \in 0 .. CHAR - 1 /\ v % SHORT \in 0 .. SHORT - 1
    BY <1>1, DivMod
  <2>2. (v % CHAR) % CHAR = v % CHAR /\ (v % SHORT) % SHORT = v % SHORT
    BY <1>1, <2>1, DigitMod
  <2> QED
    BY <2>1, <2>2, WrappedType
<1>3. \A p, q, r : Instruction(op, p, q, r).op = op
  BY DEF Instruction
<1>4. CASE Layout(op) = "R"
  <2>1. Packed(op, "R", a, b, c) = Packed(op, "R", a % SHORT, b % SHORT, c % SHORT)
    BY <1>2 DEF Packed
  <2>2. PackedAs(Packed(op, "R", a % SHORT, b % SHORT, c % SHORT), op,
                 Instruction(op, a % SHORT, b % SHORT, c % SHORT))
    BY <1>2, <1>4, PackedR
  <2> QED
    BY <1>3, <1>4, <2>1, <2>2 DEF PackedAs
<1>5. CASE Layout(op) = "I"
  <2>1. Packed(op, "I", a, b, c) = Packed(op, "I", a % CHAR, b % CHAR, Wrapped(c, INT))
    BY <1>2 DEF Packed
  <2>2. PackedAs(Packed(op, "I", a % CHAR, b % CHAR, Wrapped(c, INT)), op,
                 Instruction(op, a % CHAR, b % CHAR, Wrapped(c, INT)))
    BY <1>2, <1>5, PackedI
  <2> QED
    BY <1>3, <1>5, <2>1, <2>2 DEF PackedAs
<1>6. CASE Layout(op) = "U"
  <2>1. Packed(op, "U", a, b, c) = Packed(op, "U", a % CHAR, b, Wrapped(c, INT))
    BY <1>2 DEF Packed
  <2>2. PackedAs(Packed(op, "U", a % CHAR, b, Wrapped(c, INT)), op,
                 Instruction(op, a % CHAR, 0, Wrapped(c, INT)))
    BY <1>2, <1>6, PackedU
  <2> QED
    BY <1>3, <1>6, <2>1, <2>2 DEF PackedAs
<1>7. CASE Layout(op) = "D"
  <2>1. Packed(op, "D", a, b, c) = Packed(op, "D", a % SHORT, b, c)
    BY <1>2 DEF Packed
  <2>2. PackedAs(Packed(op, "D", a % SHORT, b, c), op, Instruction(op, a % SHORT, 0, 0))
    BY <1>2, <1>7, PackedD
  <2> QED
    BY <1>3, <1>7, <2>1, <2>2 DEF PackedAs
<1> QED
  BY <1>4, <1>5, <1>6, <1>7, Layouts
=============================================================================
