----------------------------- MODULE AluProofs ------------------------------
(***************************************************************************)
(* Proofs about the machine of Alu: its type invariant, its zero register, *)
(* the bound of its loop, and what one instruction may change; for every   *)
(* size of memory, number of registers, program and input.                 *)
(***************************************************************************)
EXTENDS Alu, WordProofs

-----------------------------------------------------------------------------
(* Registers and memory. *)

(* The registers that the machine sets up exist. *)
LEMMA RegisterNumbers ==
  /\ 0 \in RegisterId /\ 2 \in RegisterId /\ PC \in RegisterId /\ PC # 0
  /\ RegisterId \subseteq Nat
  BY AluAssumption DEF RegisterId

(* A number modulo LONG is a word. *)
LEMMA ModInWord ==
  ASSUME NEW v \in Int
  PROVE  v % LONG \in Word
<1>1. v % LONG \in 0 .. LONG - 1
  BY DivMod, Sizes
<1> QED
  BY <1>1 DEF Word

(* A write to a register writes a word to that one and leaves zero alone.  *)
LEMMA PutType ==
  ASSUME NEW r \in [RegisterId -> Word], NEW id \in RegisterId, NEW n \in Widths, NEW v \in Int
  PROVE  /\ Put(r, id, Values(n), v) \in [RegisterId -> Word]
         /\ Put(r, id, Values(n), v)[0] = r[0]
<1>1. Write(r[id], Values(n), v) \in Word
  BY WriteInWord
<1> QED
  BY <1>1, RegisterNumbers DEF Put

(* The same for a write of all eight bytes. *)
LEMMA PutWhole ==
  ASSUME NEW r \in [RegisterId -> Word], NEW id \in RegisterId, NEW v \in Int
  PROVE  /\ Put(r, id, LONG, v) \in [RegisterId -> Word]
         /\ Put(r, id, LONG, v)[0] = r[0]
<1>1. 8 \in Widths /\ Values(8) = LONG
  BY DEF Widths, Values
<1> QED
  BY <1>1, PutType

(* A jump sets the counter and leaves zero alone. *)
LEMMA CounterMoves ==
  ASSUME NEW r \in [RegisterId -> Word], NEW t \in Int
  PROVE  /\ JumpedTo(r, t) \in [RegisterId -> Word]
         /\ JumpedTo(r, t)[0] = r[0]
         /\ JumpedTo(r, t)[PC] = t % LONG
<1>1. t % LONG \in Word
  BY ModInWord
<1> QED
  BY <1>1, RegisterNumbers DEF JumpedTo

(* So does the end of every other instruction. *)
LEMMA Advances ==
  ASSUME NEW r \in [RegisterId -> Word], pc \in Word
  PROVE  /\ Advanced(r) \in [RegisterId -> Word]
         /\ Advanced(r)[0] = r[0]
         /\ Advanced(r)[PC] = (pc + INSTRUCTION_LENGTH) % LONG
<1>1. Advanced(r) = JumpedTo(r, pc + INSTRUCTION_LENGTH)
  BY DEF Advanced, JumpedTo
<1>2. pc + INSTRUCTION_LENGTH \in Int
  BY WordParts DEF INSTRUCTION_LENGTH
<1> QED
  BY <1>1, <1>2, CounterMoves

(* What is loaded is a number. *)
LEMMA LoadedType ==
  ASSUME NEW m \in [Cell -> Byte], NEW a \in Int, NEW n \in Widths
  PROVE  Loaded(m, a, n) \in Int
<1> DEFINE d == [k \in 0 .. n - 1 |-> IF a + k \in Cell THEN m[a + k] ELSE 0]
<1>1. n \in 0 .. 8
  BY DEF Widths
<1>2. \A k \in 0 .. n - 1 : d[k] \in Int
  BY DEF Byte
<1>3. Loaded(m, a, n) = Number(d, n)
  BY DEF Loaded
<1> HIDE DEF d
<1>4. PICK s \in [0 .. n -> Int] : Number(d, n) = s[n]
  BY <1>1, <1>2, NumberDef
<1> QED
  BY <1>1, <1>3, <1>4

(* A store of n bytes leaves bytes, and changes none outside its n.        *)
LEMMA StoredType ==
  ASSUME NEW m \in [Cell -> Byte], NEW a \in Int, NEW n \in Widths, NEW w \in Int
  PROVE  /\ Stored(m, a, n, w) \in [Cell -> Byte]
         /\ \A c \in Cell : Stored(m, a, n, w)[c] # m[c] => c \in a .. a + n - 1
<1>1. ASSUME NEW c \in Cell, c \in a .. a + n - 1
      PROVE  ByteAt(w, c - a) \in Byte
  <2>1. c - a \in 0 .. 7
    BY <1>1 DEF Widths
  <2> QED
    BY <2>1, ByteAtType
<1> QED
  BY <1>1 DEF Stored

(* A minimal number with a property, below one that has it.                *)
LEMMA LeastBelow ==
  ASSUME NEW S, NEW N \in Nat, S \subseteq 0 .. N, N \in S
  PROVE  \E n \in 0 .. N : n \in S /\ \A k \in 0 .. n - 1 : k \notin S
<1>1. S \subseteq Nat /\ S # {}
  OBVIOUS
<1>2. PICK n \in S : \A k \in S : n <= k
  BY <1>1, LeastNumber
<1> QED
  BY <1>2

(* The string at an address has at most MAX_CHARS characters. *)
LEMMA StringLengthType ==
  ASSUME NEW m, NEW a
  PROVE  StringLength(m, a) \in 0 .. MAX_CHARS
<1> DEFINE Ends(k) == \/ k = MAX_CHARS
                      \/ ~ Reachable(CharacterAt(a, k), 1)
                      \/ Loaded(m, CharacterAt(a, k), 1) = 0
           S == {k \in 0 .. MAX_CHARS : Ends(k)}
<1>1. MAX_CHARS \in Nat
  BY AluAssumption
<1>2. S \subseteq 0 .. MAX_CHARS /\ MAX_CHARS \in S
  BY <1>1
<1>3. PICK n \in 0 .. MAX_CHARS : n \in S /\ \A k \in 0 .. n - 1 : k \notin S
  <2> HIDE DEF S
  <2> QED
    BY <1>1, <1>2, LeastBelow
<1> HIDE DEF Ends
<1>4. Ends(n) /\ \A k \in 0 .. n - 1 : ~ Ends(k)
  BY <1>1, <1>3
<1>5. \E t \in 0 .. MAX_CHARS : Ends(t) /\ \A k \in 0 .. t - 1 : ~ Ends(k)
  BY <1>4
<1>6. StringLength(m, a) = CHOOSE t \in 0 .. MAX_CHARS : Ends(t) /\ \A k \in 0 .. t - 1 : ~ Ends(k)
  BY DEF StringLength, Ends
<1> QED
  BY <1>5, <1>6, Zenon

(* What PRINT prints of it is no longer. *)
LEMMA StringFromMemoryType ==
  ASSUME NEW m \in [Cell -> Byte], NEW a \in Int
  PROVE  /\ StringFromMemory(m, a) \in Seq(Int)
         /\ Len(StringFromMemory(m, a)) <= MAX_CHARS
<1> DEFINE n == StringLength(m, a)
<1>1. n \in Nat /\ n <= MAX_CHARS
  BY StringLengthType, AluAssumption
<1>2. \A k \in 1 .. n : Loaded(m, CharacterAt(a, k - 1), 1) \in Int
  <2> SUFFICES ASSUME NEW k \in 1 .. n PROVE Loaded(m, CharacterAt(a, k - 1), 1) \in Int
    OBVIOUS
  <2>1. a + (k - 1) * INSTRUCTION_LENGTH \in Int
    BY DEF INSTRUCTION_LENGTH
  <2>2. CharacterAt(a, k - 1) \in Int
    BY <2>1, DivMod, Sizes DEF CharacterAt
  <2> QED
    BY <2>2, LoadedType DEF Widths
<1>3. StringFromMemory(m, a) = [k \in 1 .. n |-> Loaded(m, CharacterAt(a, k - 1), 1)]
  BY DEF StringFromMemory
<1> HIDE DEF n
<1> QED
  BY <1>1, <1>2, <1>3

-----------------------------------------------------------------------------
(* Standard input. *)

Items == InputWords \cup {Newline}

InputState == [left : Seq(Items), failed : BOOLEAN]

(* A console is put together from what is left and whether it failed. *)
LEMMA ConsoleType ==
  ASSUME NEW left \in Seq(Items), NEW failed \in BOOLEAN
  PROVE  Console(left, failed) \in InputState
  BY DEF Console, InputState

(* The first word stands behind newlines only, and is what comes before    *)
(* what is left behind it.                                                 *)
LEMMA WordPlace ==
  ASSUME NEW c \in InputState, ~ NoWord(c)
  PROVE  \E k \in DOMAIN c.left :
           /\ c.left[k] # Newline /\ \A i \in 1 .. k - 1 : c.left[i] = Newline
           /\ NextWord(c) = c.left[k]
           /\ Tail(FromWord(c)) \in Seq(Items) /\ Len(Tail(FromWord(c))) = Len(c.left) - k
           /\ \A i \in 1 .. Len(c.left) - k : Tail(FromWord(c))[i] = c.left[k + i]
<1> DEFINE S == {k \in DOMAIN c.left : c.left[k] # Newline}
           First(j) == c.left[j] # Newline /\ \A i \in 1 .. j - 1 : c.left[i] = Newline
           k == CHOOSE j \in DOMAIN c.left : First(j)
<1>1. c.left \in Seq(Items) /\ Len(c.left) \in Nat /\ DOMAIN c.left = 1 .. Len(c.left)
  BY DEF InputState
<1>2. S \subseteq Nat /\ S # {}
  BY <1>1 DEF NoWord
<1>3. PICK j \in S : \A i \in S : j <= i
  <2> HIDE DEF S
  <2> QED
    BY <1>2, LeastNumber
<1>4. \E t \in DOMAIN c.left : First(t)
  <2>1. j \in DOMAIN c.left /\ First(j)
    BY <1>1, <1>3
  <2> QED
    BY <2>1
<1>5. k \in DOMAIN c.left /\ First(k)
  BY <1>4, Zenon
<1>6. FromWord(c) = SubSeq(c.left, k, Len(c.left))
  BY DEF FromWord
<1> HIDE DEF k
<1> DEFINE from == FromWord(c)
<1>7. /\ from \in Seq(Items) /\ Len(from) = (Len(c.left) - k) + 1
      /\ \A i \in 1 .. Len(from) : from[i] = c.left[(k + i) - 1]
  BY <1>1, <1>5, <1>6
<1>8. k \in Nat /\ k >= 1 /\ k <= Len(c.left)
  BY <1>1, <1>5
<1>9. Head(from) = c.left[k] /\ from # <<>>
  BY <1>7, <1>8
<1> HIDE DEF from
<1>10. /\ Tail(from) \in Seq(Items) /\ Len(Tail(from)) = Len(from) - 1
       /\ \A i \in 1 .. Len(from) - 1 : Tail(from)[i] = from[i + 1]
  BY <1>7, <1>9
<1>11. \A i \in 1 .. Len(c.left) - k : Tail(from)[i] = c.left[k + i]
  BY <1>1, <1>7, <1>8, <1>10
<1>12. NextWord(c) = c.left[k]
  BY <1>9 DEF NextWord, from
<1>13. Tail(from) \in Seq(Items) /\ Len(Tail(from)) = Len(c.left) - k
  BY <1>1, <1>7, <1>8, <1>10
<1> QED
  BY <1>5, <1>11, <1>12, <1>13, Zenon DEF from

(* The first word of the input, and what is left behind it.                *)
LEMMA NextWordType ==
  ASSUME NEW c \in InputState, ~ NoWord(c)
  PROVE  /\ NextWord(c) \in InputWords
         /\ Tail(FromWord(c)) \in Seq(Items)
         /\ Len(Tail(FromWord(c))) < Len(c.left)
<1>1. PICK k \in DOMAIN c.left :
             /\ c.left[k] # Newline /\ NextWord(c) = c.left[k]
             /\ Tail(FromWord(c)) \in Seq(Items) /\ Len(Tail(FromWord(c))) = Len(c.left) - k
  BY WordPlace
<1>2. c.left \in Seq(Items) /\ k \in 1 .. Len(c.left) /\ Len(c.left) \in Nat
  BY DEF InputState
<1> QED
  BY <1>1, <1>2 DEF Items

(* Reading a word or a number leaves a console. *)
LEMMA AfterTypes ==
  ASSUME NEW c \in InputState
  PROVE  AfterWord(c) \in InputState /\ AfterNumber(c) \in InputState
<1>1. Failed(c) \in InputState
  BY ConsoleType DEF Failed, InputState
<1>2. AfterWord(c) \in InputState
  BY <1>1, NextWordType, ConsoleType DEF AfterWord
<1> QED
  BY <1>1, <1>2 DEF AfterNumber

(* A line has an end, and what is left behind it is an end of the input.   *)
LEMMA LineEnds ==
  ASSUME in \in InputState, ~ in.failed
  PROVE  /\ AfterLine.left \in Seq(Items) /\ AfterLine.failed = (in.left = <<>>)
         /\ AfterLine \in InputState
         /\ \E d \in 0 .. Len(in.left) :
              /\ Len(AfterLine.left) = Len(in.left) - d
              /\ \A i \in 1 .. Len(AfterLine.left) : AfterLine.left[i] = in.left[d + i]
              /\ in.left # <<>> => d > 0
<1> DEFINE s == in.left   N == Len(s)   w == WordsOnLine   t == SubSeq(s, w + 2, N)
           Ends == {n \in 0 .. N : n = N \/ s[n + 1] = Newline}
<1>1. s \in Seq(Items) /\ N \in Nat
  BY DEF InputState
<1>2. w \in 0 .. N
  <2>1. N \in Ends /\ Ends \subseteq Nat
    BY <1>1
  <2>2. PICK n \in Ends : \A k \in Ends : n <= k
    BY <2>1, LeastNumber
  <2>3. n \in 0 .. N /\ (n = N \/ s[n + 1] = Newline)
    OBVIOUS
  <2>4. ASSUME NEW k \in 1 .. n PROVE s[k] # Newline
    <3>1. k - 1 \in 0 .. N /\ k - 1 < n /\ k - 1 + 1 = k
      BY <1>1, <2>3
    <3>2. k - 1 \notin Ends
      BY <2>2, <3>1
    <3> QED
      BY <3>1, <3>2
  <2>5. \E m \in 0 .. N : (m = N \/ s[m + 1] = Newline) /\ \A k \in 1 .. m : s[k] # Newline
    BY <2>3, <2>4
  <2> QED
    BY <2>5, Zenon DEF WordsOnLine
<1>3. AfterLine = [left |-> t, failed |-> in.left = <<>>]
  BY DEF AfterLine, Console
<1> HIDE DEF w
<1>4. CASE w + 2 <= N
  <2>1. t \in Seq(Items) /\ Len(t) = N - (w + 1) /\ \A i \in 1 .. Len(t) : t[i] = s[w + 1 + i]
    BY <1>1, <1>2, <1>4
  <2>2. w + 1 \in 0 .. N /\ w + 1 > 0
    BY <1>1, <1>2, <1>4
  <2> HIDE DEF t
  <2>3. \E d \in 0 .. N : /\ Len(t) = N - d /\ \A i \in 1 .. Len(t) : t[i] = s[d + i]
                          /\ s # <<>> => d > 0
    BY <2>1, <2>2, Zenon
  <2> QED
    BY <1>3, <2>1, <2>3 DEF InputState
<1>5. CASE ~ (w + 2 <= N)
  <2>1. t = <<>>
    BY <1>1, <1>2, <1>5
  <2> HIDE DEF t
  <2>2. N \in 0 .. N /\ Len(t) = N - N /\ (\A i \in 1 .. Len(t) : t[i] = s[N + i])
        /\ (s # <<>> => N > 0)
    BY <1>1, <2>1
  <2>3. \E d \in 0 .. N : /\ Len(t) = N - d /\ \A i \in 1 .. Len(t) : t[i] = s[d + i]
                          /\ s # <<>> => d > 0
    BY <2>2, Zenon
  <2>4. t \in Seq(Items)
    BY <2>1
  <2> QED
    BY <1>3, <2>3, <2>4 DEF InputState
<1> QED
  BY <1>4, <1>5

(* So does reading a line, which is a sequence of bytes. *)
LEMMA LineTypes ==
  ASSUME in \in InputState
  PROVE  LineRead \in Seq(Byte) /\ AfterLine \in InputState
<1>1. in.left \in Seq(Items)
  BY DEF InputState
<1>2. LineRead \in Seq(Byte)
  <2>1. CASE in.failed \/ in.left = <<>> \/ Head(in.left) = Newline
    BY <2>1 DEF LineRead
  <2>2. CASE ~ (in.failed \/ in.left = <<>> \/ Head(in.left) = Newline)
    <3>1. Head(in.left) \in InputWords
      BY <2>2, <1>1 DEF Items
    <3>2. Head(in.left).chars \in Seq(Byte)
      BY <3>1, AluAssumption
    <3> QED
      BY <3>2, <2>2 DEF LineRead
  <2> QED
    BY <2>1, <2>2
<1>3. AfterLine \in InputState
  BY LineEnds DEF AfterLine
<1> QED
  BY <1>2, <1>3

(* The console d is c after something was read: nothing comes back, a      *)
(* failed stream stays as it is, and one that has not failed gets shorter  *)
(* or fails.                                                               *)
TakenFrom(c, d) ==
  /\ Len(d.left) <= Len(c.left)
  /\ c.failed => d = c
  /\ c.failed \/ Len(d.left) < Len(c.left) \/ d.failed

(* To read, and to read on, is to read. *)
LEMMA ReadOn ==
  ASSUME NEW c \in InputState, NEW d \in InputState, NEW e \in InputState,
         TakenFrom(c, d), TakenFrom(d, e)
  PROVE  TakenFrom(c, e)
<1>1. Len(c.left) \in Nat /\ Len(d.left) \in Nat /\ Len(e.left) \in Nat
  BY DEF InputState
<1> QED
  BY <1>1 DEF TakenFrom

(* Reading a word or a number takes it, or the stream fails. *)
LEMMA WordTaken ==
  ASSUME NEW c \in InputState
  PROVE  TakenFrom(c, AfterWord(c)) /\ TakenFrom(c, AfterNumber(c))
<1>1. /\ c.left \in Seq(Items) /\ Len(c.left) \in Nat
      /\ c = [left |-> c.left, failed |-> c.failed] /\ c.failed \in BOOLEAN
  BY DEF InputState
<1>2. TakenFrom(c, Failed(c))
  BY <1>1 DEF TakenFrom, Failed, Console
<1>3. CASE NoWord(c)
  BY <1>2, <1>3 DEF AfterWord, AfterNumber
<1>4. CASE ~ NoWord(c)
  <2>1. Len(Tail(FromWord(c))) < Len(c.left) /\ Tail(FromWord(c)) \in Seq(Items)
    BY <1>4, NextWordType
  <2>2. TakenFrom(c, AfterWord(c))
    BY <1>1, <1>4, <2>1 DEF TakenFrom, AfterWord, Console, NoWord
  <2> QED
    BY <1>2, <2>2 DEF AfterNumber
<1> QED
  BY <1>3, <1>4

(* So does reading a line. *)
LEMMA InputTaken ==
  ASSUME in \in InputState
  PROVE  TakenFrom(in, AfterLine)
<1>1. in.left \in Seq(Items) /\ Len(in.left) \in Nat
  BY DEF InputState
<1>2. CASE in.failed
  BY <1>1, <1>2 DEF TakenFrom, AfterLine
<1>3. CASE ~ in.failed
  <2>1. PICK d \in 0 .. Len(in.left) :
          Len(AfterLine.left) = Len(in.left) - d /\ (in.left # <<>> => d > 0)
    BY <1>3, LineEnds
  <2>2. Len(AfterLine.left) < Len(in.left) \/ in.left = <<>>
    BY <1>1, <2>1
  <2>3. in.left = <<>> => AfterLine.failed
    BY <1>3, LineEnds
  <2> QED
    BY <1>1, <1>3, <2>1, <2>2, <2>3 DEF TakenFrom
<1> QED
  BY <1>2, <1>3

(* The words that an INPUTS stores. *)
LEMMA WithNullType ==
  ASSUME NEW chars \in Seq(Byte)
  PROVE  /\ WithNull(chars) \in Seq(Word)
         /\ Len(WithNull(chars)) = Len(chars) + 1
<1>1. \A k \in 1 .. Len(chars) : Signed(chars[k], CHAR) % LONG \in Word
  <2> SUFFICES ASSUME NEW k \in 1 .. Len(chars) PROVE Signed(chars[k], CHAR) % LONG \in Word
    OBVIOUS
  <2>1. chars[k] \in 0 .. CHAR - 1
    <3>1. chars[k] \in Byte
      OBVIOUS
    <3> QED
      BY <3>1 DEF Byte, CHAR
  <2>2. Signed(chars[k], CHAR) \in Int
    BY <2>1, SignedRange
  <2> QED
    BY <2>2, ModInWord
<1>2. Widened(chars) \in Seq(Word) /\ Len(Widened(chars)) = Len(chars)
  BY <1>1 DEF Widened
<1>3. 0 \in Word
  BY Sizes DEF Word
<1> QED
  BY <1>2, <1>3 DEF WithNull

(* No more words are stored than there are. *)
LEMMA FittingType ==
  ASSUME NEW a, NEW words, Len(words) \in Nat
  PROVE  Fitting(a, words) \in 0 .. Len(words)
<1> DEFINE R(k) == Reachable(CharacterAt(a, k), INSTRUCTION_LENGTH)
           N == Len(words)
           S == {k \in 0 .. N : k = N \/ ~ R(k)}
           Fits(n) == /\ \A k \in 0 .. n - 1 : R(k)
                      /\ n = N \/ ~ R(n)
<1> HIDE DEF R
<1>1. S \subseteq 0 .. N /\ N \in S
  OBVIOUS
<1>2. PICK n \in 0 .. N : n \in S /\ \A k \in 0 .. n - 1 : k \notin S
  <2> HIDE DEF S
  <2> QED
    BY <1>1, LeastBelow
<1>3. \E t \in 0 .. N : Fits(t)
  <2>1. Fits(n)
    BY <1>2
  <2> QED
    BY <2>1
<1>4. Fitting(a, words) = CHOOSE t \in 0 .. N : Fits(t)
  BY DEF Fitting, R
<1> HIDE DEF Fits
<1> QED
  BY <1>3, <1>4, Zenon

(* Pouring n words leaves bytes, and changes none outside their span. *)
LEMMA PouredType ==
  ASSUME NEW m \in [Cell -> Byte], NEW a \in Int, NEW words \in Seq(Word),
         NEW n \in 0 .. Len(words)
  PROVE  /\ Poured(m, a, words, n) \in [Cell -> Byte]
         /\ \A c \in Cell : Poured(m, a, words, n)[c] # m[c] =>
              c \in a .. a + n * INSTRUCTION_LENGTH - 1
<1>1. ASSUME NEW c \in Cell, c \in a .. a + n * INSTRUCTION_LENGTH - 1
      PROVE  ByteAt(words[(c - a) \div INSTRUCTION_LENGTH + 1], (c - a) % INSTRUCTION_LENGTH) \in Byte
  <2>1. /\ (c - a) \div INSTRUCTION_LENGTH + 1 \in 1 .. Len(words)
        /\ (c - a) % INSTRUCTION_LENGTH \in 0 .. 7
    BY <1>1 DEF INSTRUCTION_LENGTH
  <2>2. words[(c - a) \div INSTRUCTION_LENGTH + 1] \in Word
    BY <2>1
  <2> QED
    BY <2>1, <2>2, WordParts, ByteAtType
<1> QED
  BY <1>1 DEF Poured
-----------------------------------------------------------------------------
(* One instruction. *)

IsInstruction(i) ==
  i.op \in Opcodes \cup {"none"} /\ i.a \in Nat /\ i.b \in Nat /\ i.c \in Int

(* What every turn of the loop keeps, with the instruction i. *)
ShapeKept(i) ==
  /\ Shaped'
  /\ reg'[0] = reg[0]
  /\ reg' # reg /\ i.op \notin Branches \cup {"JAL", "JALR"}
       => reg'[PC] = (pc + INSTRUCTION_LENGTH) % LONG
  /\ \A c \in Cell : mem'[c] # mem[c] => c \in Span(i)
  /\ \/ steps' = steps + 1 /\ mode' = mode
     \/ steps' = steps /\ mode' \in {"halted", "threw", "killed"}

(* What is fetched is an instruction. *)
LEMMA FetchedType ==
  ASSUME Shaped
  PROVE  IsInstruction(Fetched) /\ pc \in Word
<1>1. pc \in Word
  BY RegisterNumbers DEF Shaped, pc
<1>2. Loaded(mem, pc, INSTRUCTION_LENGTH) \in Int
  BY <1>1, WordParts, LoadedType DEF Shaped, Widths, INSTRUCTION_LENGTH
<1> QED
  BY <1>1, <1>2, DecodeType DEF Fetched, IsInstruction

(* The shape of the state, put together. *)
LEMMA Reshaped ==
  ASSUME Shaped, reg' \in [RegisterId -> Word], mem' \in [Cell -> Byte], in' \in InputState,
         out' = out, steps' \in {steps, steps + 1}
  PROVE  Shaped'
  BY DEF Shaped, InputState, Items

(* The shape of the state, taken apart. *)
LEMMA ShapedParts ==
  ASSUME Shaped
  PROVE  /\ reg \in [RegisterId -> Word] /\ mem \in [Cell -> Byte] /\ in \in InputState
         /\ pc \in Word /\ steps \in Nat
  BY RegisterNumbers DEF Shaped, InputState, Items, pc

(* A turn that writes registers only and moves the counter on.             *)
LEMMA RegistersOnly ==
  ASSUME Shaped, NEW i, NEW r \in [RegisterId -> Word], r[0] = reg[0], reg' = Advanced(r),
         mem' = mem, in' = in, out' = out,
         \/ steps' = steps + 1 /\ mode' = mode
         \/ steps' = steps /\ mode' \in {"halted", "threw", "killed"}
  PROVE  ShapeKept(i)
<1>1. /\ Advanced(r) \in [RegisterId -> Word] /\ Advanced(r)[0] = r[0]
      /\ Advanced(r)[PC] = (pc + INSTRUCTION_LENGTH) % LONG
  BY ShapedParts, Advances
<1>2. Shaped'
  BY <1>1, ShapedParts, Reshaped
<1> QED
  BY <1>1, <1>2 DEF ShapeKept

(* The operations on three registers. *)
LEMMA ArithmeticKeeps ==
  ASSUME Shaped, NEW i, IsInstruction(i), ~ Throws(i), Arithmetic(i)
  PROVE  ShapeKept(i)
<1>1. i.a \in RegisterId /\ reg[i.b] \in Word /\ reg[i.c] \in Word
  <2>1. Looked(i) = {i.a, i.b, i.c}
    BY Groups DEF Looked, Arithmetic
  <2>2. Looked(i) \subseteq RegisterId
    BY DEF Throws
  <2> QED
    BY <2>1, <2>2, ShapedParts
<1>2. PICK v \in Results(i.op, reg[i.b], reg[i.c]) : reg' = Advanced(Put(reg, i.a, LONG, v))
  BY DEF Arithmetic
<1>3. v \in Int
  BY <1>1, ResultsType DEF Arithmetic
<1> QED
  BY <1>1, <1>2, <1>3, ShapedParts, PutWhole, RegistersOnly DEF Arithmetic, Turn

(* The operations with an immediate. *)
LEMMA ArithmeticImmediateKeeps ==
  ASSUME Shaped, NEW i, IsInstruction(i), ~ Throws(i), ArithmeticImmediate(i)
  PROVE  ShapeKept(i)
<1>1. i.a \in RegisterId /\ reg[i.b] \in Word
  BY ShapedParts, Groups DEF Throws, Looked, ArithmeticImmediate
<1>2. PICK v \in Results(ByRegister[i.op], reg[i.b], Immediate(i.c)) :
        reg' = Advanced(Put(reg, i.a, LONG, v))
  BY DEF ArithmeticImmediate
<1>3. ByRegister[i.op] \in ThreeRegister /\ Immediate(i.c) \in Word
  BY Borrowed, ImmediateType DEF ArithmeticImmediate, IsInstruction
<1>4. v \in Int
  BY <1>1, <1>3, ResultsType
<1> QED
  BY <1>1, <1>2, <1>4, ShapedParts, PutWhole, RegistersOnly DEF ArithmeticImmediate, Turn

(* An exception or a trap. *)
LEMMA StopKeeps ==
  ASSUME Shaped, NEW i, Throw \/ Trap(i)
  PROVE  ShapeKept(i)
<1>1. /\ reg' = reg /\ mem' = mem /\ in' = in /\ out' = out /\ steps' = steps
      /\ mode' \in {"threw", "killed"}
  BY DEF Throw, Trap
<1>2. Shaped'
  BY <1>1, ShapedParts, Reshaped
<1> QED
  BY <1>1, <1>2 DEF ShapeKept

(* The jumps and branches. *)
LEMMA JumpKeeps ==
  ASSUME Shaped, NEW i, IsInstruction(i), ~ Throws(i), JumpRegister(i) \/ Jump(i) \/ Branch(i)
  PROVE  ShapeKept(i)
<1>1. i.a \in RegisterId /\ i.b \in RegisterId /\ i.op \in Branches \cup {"JAL", "JALR"}
  BY Groups DEF Throws, Looked, JumpRegister, Jump, Branch
<1>2. pc + INSTRUCTION_LENGTH \in Int
  BY ShapedParts, WordParts DEF INSTRUCTION_LENGTH
<1>3. Linked(i.a) \in [RegisterId -> Word] /\ Linked(i.a)[0] = reg[0]
  BY <1>1, <1>2, ShapedParts, PutWhole DEF Linked
<1>4. Linked(i.a)[i.b] + Immediate(i.c) \in Int /\ i.c \in Int
  BY <1>1, <1>3, WordParts, ImmediateType DEF IsInstruction
<1>5. reg' \in [RegisterId -> Word] /\ reg'[0] = reg[0]
  <2>1. CASE JumpRegister(i)
    BY <2>1, <1>3, <1>4, CounterMoves DEF JumpRegister
  <2>2. CASE Jump(i)
    BY <2>2, <1>3, <1>4, CounterMoves DEF Jump
  <2>3. CASE Branch(i)
    BY <2>3, <1>4, ShapedParts, CounterMoves, Advances DEF Branch
  <2> QED
    BY <2>1, <2>2, <2>3
<1>6. mem' = mem /\ in' = in /\ out' = out /\ steps' = steps + 1 /\ mode' = mode
  BY DEF JumpRegister, Jump, Branch, Turn
<1>7. Shaped'
  BY <1>5, <1>6, ShapedParts, Reshaped
<1> QED
  BY <1>1, <1>5, <1>6, <1>7 DEF ShapeKept

(* The address of an instruction that accesses memory. *)
LEMMA LocationType ==
  ASSUME Shaped, NEW i, IsInstruction(i), ~ Throws(i),
         i.op \in Loads \cup Stores \cup Inputs \cup {"PRINT"}
  PROVE  Location(i) \in Word /\ Location(i) \in Int
<1> DEFINE base == IF Layout(i.op) = "U" THEN i.a ELSE i.b
<1>1. base \in RegisterId
  BY Groups, Layouts DEF Throws, Looked
<1>2. reg[base] \in Word /\ i.c \in Int
  BY <1>1, ShapedParts DEF IsInstruction
<1>3. Location(i) = (reg[base] + i.c) % LONG
  BY DEF Location
<1> HIDE DEF base
<1>4. reg[base] + i.c \in Int
  BY <1>2, WordParts
<1>5. Location(i) \in Word
  BY <1>3, <1>4, ModInWord
<1> QED
  BY <1>5, WordParts

(* The sizes of the accesses are those of types. *)
LEMMA AccessSizes ==
  ASSUME NEW op \in Loads \cup Stores
  PROVE  AccessSize[op] \in Widths
  BY Groups DEF AccessSize, Widths

(* The loads. *)
LEMMA LoadKeeps ==
  ASSUME Shaped, NEW i, IsInstruction(i), ~ Throws(i), Load(i)
  PROVE  ShapeKept(i)
<1> DEFINE n == AccessSize[i.op]
           v == Loaded(mem, Location(i), n)
<1>1. i.a \in RegisterId
  BY Groups DEF Throws, Looked, Load
<1>2. n \in Widths
  BY AccessSizes DEF Load
<1>3. v \in Int
  BY <1>2, ShapedParts, LocationType, LoadedType DEF Load
<1>4. Signed(v, INT) \in Int
  BY <1>3, Sizes DEF Signed
<1>5. reg' = Advanced(IF i.op = "LW" THEN Put(reg, i.a, LONG, Signed(v, INT))
                                   ELSE Put(reg, i.a, Values(n), v))
  BY DEF Load
<1> HIDE DEF n, v
<1>6. /\ Put(reg, i.a, LONG, Signed(v, INT)) \in [RegisterId -> Word]
      /\ Put(reg, i.a, LONG, Signed(v, INT))[0] = reg[0]
      /\ Put(reg, i.a, Values(n), v) \in [RegisterId -> Word]
      /\ Put(reg, i.a, Values(n), v)[0] = reg[0]
  BY <1>1, <1>2, <1>3, <1>4, ShapedParts, PutType, PutWhole
<1> QED
  BY <1>5, <1>6, RegistersOnly DEF Load, Turn

(* LUI and AUIPC. *)
LEMMA UpperKeeps ==
  ASSUME Shaped, NEW i, IsInstruction(i), ~ Throws(i), Upper(i)
  PROVE  ShapeKept(i)
<1>1. i.a \in RegisterId
  BY Groups DEF Throws, Looked, Upper
<1>2. (IF i.op = "LUI" THEN i.c ELSE i.c + pc) \in Int
  BY ShapedParts, WordParts DEF IsInstruction
<1> QED
  BY <1>1, <1>2, ShapedParts, PutWhole, RegistersOnly DEF Upper, Turn

(* HALT and DEBUG. *)
LEMMA PlainKeeps ==
  ASSUME Shaped, NEW i, Halt(i) \/ Debug(i)
  PROVE  ShapeKept(i)
  BY ShapedParts, RegistersOnly DEF Halt, Debug, Turn

(* A turn that stores, and leaves no other register than the counter changed. *)
LEMMA MemoryOnly ==
  ASSUME Shaped, NEW i, reg' = Advanced(reg), mem' \in [Cell -> Byte], in' \in InputState, out' = out,
         \A c \in Cell : mem'[c] # mem[c] => c \in Span(i),
         \/ steps' = steps + 1 /\ mode' = mode
         \/ steps' = steps /\ mode' \in {"halted", "threw", "killed"}
  PROVE  ShapeKept(i)
<1>1. /\ Advanced(reg) \in [RegisterId -> Word] /\ Advanced(reg)[0] = reg[0]
      /\ Advanced(reg)[PC] = (pc + INSTRUCTION_LENGTH) % LONG
  BY ShapedParts, Advances
<1>2. Shaped'
  BY <1>1, ShapedParts, Reshaped
<1> QED
  BY <1>1, <1>2 DEF ShapeKept

(* The stores. *)
LEMMA StoreKeeps ==
  ASSUME Shaped, NEW i, IsInstruction(i), ~ Throws(i), Store(i)
  PROVE  ShapeKept(i)
<1>1. i.a \in RegisterId /\ reg[i.a] \in Int /\ AccessSize[i.op] \in Widths
  BY Groups, ShapedParts, WordParts, AccessSizes DEF Throws, Looked, Store
<1>2. Location(i) \in Int
  BY LocationType DEF Store
<1>3. /\ mem' \in [Cell -> Byte]
      /\ \A c \in Cell : mem'[c] # mem[c] => c \in Location(i) .. Location(i) + AccessSize[i.op] - 1
  BY <1>1, <1>2, ShapedParts, StoredType DEF Store
<1>4. Span(i) = Location(i) .. Location(i) + AccessSize[i.op] - 1
  BY Groups DEF Span, Store
<1> QED
  BY <1>3, <1>4, ShapedParts, MemoryOnly DEF Store, Turn

(* PRINT. *)
LEMMA PrintingKeeps ==
  ASSUME Shaped, NEW i, IsInstruction(i), ~ Throws(i), Printing(i)
  PROVE  ShapeKept(i)
<1> DEFINE line == IF i.a = 1 THEN <<Signed(Loaded(mem, Location(i), 8), LONG)>>
                              ELSE StringFromMemory(mem, Location(i))
<1>1. Location(i) \in Int
  BY LocationType DEF Printing
<1>2. Loaded(mem, Location(i), 8) \in Int
  BY <1>1, ShapedParts, LoadedType DEF Widths
<1>3. Signed(Loaded(mem, Location(i), 8), LONG) \in Int
  BY <1>2, Sizes DEF Signed
<1>4. line \in Seq(Int) /\ (Len(line) <= MAX_CHARS \/ Len(line) = 1)
  BY <1>1, <1>3, ShapedParts, StringFromMemoryType
<1>5. out' = Append(out, line)
  BY DEF Printing
<1> HIDE DEF line
<1>6. /\ out' \in Seq(Seq(Int))
      /\ \A k \in DOMAIN out' : Len(out'[k]) <= MAX_CHARS \/ Len(out'[k]) = 1
  BY <1>4, <1>5 DEF Shaped
<1>7. /\ Advanced(reg) \in [RegisterId -> Word] /\ Advanced(reg)[0] = reg[0]
      /\ Advanced(reg)[PC] = (pc + INSTRUCTION_LENGTH) % LONG
  BY ShapedParts, Advances
<1>8. reg' = Advanced(reg) /\ mem' = mem /\ in' = in /\ steps' = steps + 1 /\ mode' = mode
  BY DEF Printing, Turn
<1>9. Shaped'
  BY <1>6, <1>7, <1>8 DEF Shaped
<1> QED
  BY <1>7, <1>8, <1>9 DEF ShapeKept

(* A turn that reads input, when what it stores is stored by Storing.      *)
LEMMA StoringKeeps ==
  ASSUME Shaped, NEW i, IsInstruction(i), ~ Throws(i), i.op \in Inputs, i.op # "INPUTS",
         NEW n, n = IF i.op = "INPUTB" THEN 1 ELSE 8, NEW w \in Int, Storing(i, n, w),
         reg' = Advanced(reg), in' \in InputState, out' = out
  PROVE  ShapeKept(i)
<1>1. Location(i) \in Int
  BY LocationType
<1>2. n \in Widths
  BY DEF Widths
<1>3. /\ Stored(mem, Location(i), n, w) \in [Cell -> Byte]
      /\ \A c \in Cell :
           Stored(mem, Location(i), n, w)[c] # mem[c] => c \in Location(i) .. Location(i) + n - 1
  BY <1>1, <1>2, ShapedParts, StoredType
<1>4. Location(i) .. Location(i) + n - 1 = Span(i)
  <2>1. CASE i.op = "INPUTB"
    <3>1. Span(i) = {Location(i)} /\ n = 1
      BY <2>1, Groups DEF Span
    <3> QED
      BY <3>1, <1>1
  <2>2. CASE i.op \in {"INPUTI", "INPUTF"}
    <3>1. Span(i) = Location(i) .. Location(i) + 7 /\ n = 8
      BY <2>2, Groups DEF Span
    <3> QED
      BY <3>1, <1>1
  <2> QED
    BY <2>1, <2>2, Groups
<1>5. /\ mem' \in [Cell -> Byte]
      /\ \A c \in Cell : mem'[c] # mem[c] => c \in Span(i)
      /\ \/ steps' = steps + 1 /\ mode' = mode
         \/ steps' = steps /\ mode' \in {"halted", "threw", "killed"}
  BY <1>3, <1>4, ShapedParts DEF Storing, Turn
<1> QED
  BY <1>5, MemoryOnly

(* INPUTI and INPUTF. *)
LEMMA InputNumberKeeps ==
  ASSUME Shaped, NEW i, IsInstruction(i), ~ Throws(i), InputNumber(i)
  PROVE  ShapeKept(i)
<1>1. i.op \in {"INPUTI", "INPUTF"}
  BY DEF InputNumber
<1>2. PICK w \in IF NoWord(in) THEN Garbage
                 ELSE IF ~ NextWord(in).number THEN {0}
                 ELSE IF i.op = "INPUTI" THEN {NextWord(in).long % LONG}
                 ELSE {NextWord(in).double} :
        Storing(i, 8, w)
  BY DEF InputNumber
<1>3. w \in Int
  <2>1. CASE NoWord(in)
    BY <1>2, <2>1, AluAssumption, WordParts
  <2>2. CASE ~ NoWord(in)
    <3>1. NextWord(in) \in InputWords
      BY <2>2, ShapedParts, NextWordType
    <3>2. NextWord(in).long \in Int /\ NextWord(in).double \in Word
      BY <3>1, AluAssumption
    <3>3. NextWord(in).long % LONG \in Word
      BY <3>2, ModInWord
    <3> QED
      BY <1>2, <2>2, <3>2, <3>3, WordParts
  <2> QED
    BY <2>1, <2>2
<1>4. in' \in InputState /\ reg' = Advanced(reg) /\ out' = out
  BY ShapedParts, AfterTypes DEF InputNumber
<1> QED
  BY <1>1, <1>2, <1>3, <1>4, Groups, StoringKeeps

(* INPUTB. *)
LEMMA InputBoolKeeps ==
  ASSUME Shaped, NEW i, IsInstruction(i), ~ Throws(i), InputBool(i)
  PROVE  ShapeKept(i)
<1>1. i.op = "INPUTB" /\ in' \in InputState /\ reg' = Advanced(reg) /\ out' = out
  BY ShapedParts, AfterTypes DEF InputBool
<1>2. CASE NoWord(in)
  BY <1>1, <1>2, ShapedParts, MemoryOnly DEF InputBool
<1>3. CASE ~ NoWord(in)
  <2>1. PICK w \in {0, 1} : Storing(i, 1, w)
    BY <1>3 DEF InputBool
  <2> QED
    BY <1>1, <2>1, Groups, StoringKeeps
<1> QED
  BY <1>2, <1>3

(* INPUTS. *)
LEMMA InputStringKeeps ==
  ASSUME Shaped, NEW i, IsInstruction(i), ~ Throws(i), InputString(i)
  PROVE  ShapeKept(i)
<1> DEFINE words == WithNull(LineRead)
           n == Fitting(Location(i), words)
<1>1. /\ i.op = "INPUTS" /\ in' \in InputState /\ reg' = Advanced(reg) /\ out' = out
      /\ mem' = Poured(mem, Location(i), words, n)
      /\ \/ steps' = steps + 1 /\ mode' = mode
         \/ steps' = steps /\ mode' \in {"halted", "threw", "killed"}
  BY ShapedParts, LineTypes DEF InputString, Turn
<1>2. Location(i) \in Int
  BY <1>1, LocationType, Groups
<1>3. LineRead \in Seq(Byte)
  BY ShapedParts, LineTypes
<1>4. words \in Seq(Word) /\ Len(words) = Len(LineRead) + 1 /\ Len(words) \in Nat
  BY <1>3, WithNullType
<1>5. n \in 0 .. Len(words)
  BY <1>4, FittingType
<1> HIDE DEF words, n
<1>6. /\ mem' \in [Cell -> Byte]
      /\ \A c \in Cell :
           mem'[c] # mem[c] => c \in Location(i) .. Location(i) + n * INSTRUCTION_LENGTH - 1
  BY <1>1, <1>2, <1>4, <1>5, ShapedParts, PouredType
<1>7. Span(i) = Location(i) .. Location(i) + (Len(LineRead) + 1) * 8 - 1
  BY <1>1, Groups DEF Span
<1>8. Location(i) .. Location(i) + n * INSTRUCTION_LENGTH - 1 \subseteq Span(i)
  BY <1>2, <1>4, <1>5, <1>7 DEF INSTRUCTION_LENGTH
<1> QED
  BY <1>1, <1>6, <1>8, MemoryOnly

(* Any turn of the loop. *)
LEMMA OneTurnKeeps ==
  ASSUME Shaped, OneTurn
  PROVE  ShapeKept(Fetched)
<1>1. IsInstruction(Fetched)
  BY FetchedType
<1> DEFINE i == Fetched
<1> HIDE DEF i
<1>2. CASE Throw
  BY <1>2, StopKeeps
<1>3. CASE ~ Throws(i) /\ Execute(i)
  BY <1>1, <1>3, ArithmeticKeeps, ArithmeticImmediateKeeps, StopKeeps, JumpKeeps, LoadKeeps,
     StoreKeeps, UpperKeeps, PlainKeeps, PrintingKeeps, InputStringKeeps, InputNumberKeeps,
     InputBoolKeeps DEF Execute, i
<1> QED
  BY <1>2, <1>3 DEF OneTurn, i

(* A turn of the machine takes input or leaves it alone.                   *)
LEMMA OneTurnTakes ==
  ASSUME Shaped, OneTurn
  PROVE  in' = in \/ TakenFrom(in, in')
<1> DEFINE i == Fetched
<1>1. Throw \/ Execute(i)
  BY DEF OneTurn
<1> HIDE DEF i
<1>2. CASE InputString(i)
  BY <1>2, ShapedParts, InputTaken DEF InputString
<1>3. CASE InputNumber(i)
  BY <1>3, ShapedParts, WordTaken DEF InputNumber
<1>4. CASE InputBool(i)
  BY <1>4, ShapedParts, WordTaken DEF InputBool
<1>5. CASE ~ (InputString(i) \/ InputNumber(i) \/ InputBool(i))
  BY <1>1, <1>5, Zenon
     DEF Execute, Throw, Arithmetic, ArithmeticImmediate, Trap, JumpRegister, Jump, Branch, Load,
         Store, Upper, Halt, Printing, Debug
<1> QED
  BY <1>2, <1>3, <1>4, <1>5

(* A write to a register, and the end of an instruction, leave the other   *)
(* registers alone.                                                        *)
LEMMA OthersAlone ==
  ASSUME NEW r \in [RegisterId -> Word], NEW id \in RegisterId, NEW a, NEW N, NEW v
  PROVE  /\ id # a => Put(r, a, N, v)[id] = r[id]
         /\ id # PC => JumpedTo(r, v)[id] = r[id] /\ Advanced(r)[id] = r[id]
BY DEF Put, JumpedTo, Advanced

(* The operations that write to a register.                                *)
WritesA(op) == op \notin Branches \cup Stores \cup Inputs \cup {"PRINT", "DEBUG", "HALT"}

(* An instruction changes one register at most but for the counter: the    *)
(* one it names first.                                                     *)
LEMMA OneRegister ==
  ASSUME Shaped, OneTurn, NEW id \in RegisterId, id # PC, reg'[id] # reg[id]
  PROVE  id = Fetched.a /\ WritesA(Fetched.op)
<1> DEFINE i == Fetched
<1> SUFFICES id = i.a /\ WritesA(i.op)
  OBVIOUS
<1>1. IsInstruction(i) /\ ~ Throws(i) /\ Execute(i)
  BY FetchedType DEF OneTurn, Throw
<1> HIDE DEF i
<1>2. reg \in [RegisterId -> Word] /\ pc \in Word /\ reg' # reg
  BY ShapedParts
<1>3. CASE Branch(i) \/ Store(i) \/ Halt(i) \/ Printing(i) \/ Debug(i) \/ InputString(i)
           \/ InputNumber(i) \/ InputBool(i) \/ Trap(i)
  <2>1. reg' = Advanced(reg) \/ reg' = reg \/ reg' = JumpedTo(reg, i.c)
    BY <1>3, Zenon DEF Branch, Store, Halt, Printing, Debug, InputString, InputNumber, InputBool, Trap
  <2>2. JumpedTo(reg, i.c)[id] = reg[id] /\ Advanced(reg)[id] = reg[id]
    BY <1>2, OthersAlone
  <2>3. reg'[id] = reg[id]
    BY <2>1, <2>2
  <2> QED
    BY <2>3
<1>4. CASE Arithmetic(i)
  <2>1. WritesA(i.op)
    BY <1>4, Groups DEF WritesA, Arithmetic
  <2>2. PICK v : reg' = Advanced(Put(reg, i.a, LONG, v))
    BY <1>4 DEF Arithmetic
  <2>3. Advanced(Put(reg, i.a, LONG, v))[id] = Put(reg, i.a, LONG, v)[id]
    BY <1>2 DEF Advanced, Put
  <2> QED
    BY <1>2, <2>1, <2>2, <2>3, OthersAlone
<1>5. CASE ArithmeticImmediate(i)
  <2>1. WritesA(i.op)
    BY <1>5, Groups DEF WritesA, ArithmeticImmediate
  <2>2. PICK v : reg' = Advanced(Put(reg, i.a, LONG, v))
    BY <1>5 DEF ArithmeticImmediate
  <2>3. Advanced(Put(reg, i.a, LONG, v))[id] = Put(reg, i.a, LONG, v)[id]
    BY <1>2 DEF Advanced, Put
  <2> QED
    BY <1>2, <2>1, <2>2, <2>3, OthersAlone
<1>6. CASE JumpRegister(i) \/ Jump(i)
  <2>1. WritesA(i.op)
    BY <1>6, Groups DEF WritesA, JumpRegister, Jump
  <2>2. PICK t : reg' = JumpedTo(Linked(i.a), t)
    BY <1>6 DEF JumpRegister, Jump
  <2>3. JumpedTo(Linked(i.a), t)[id] = Linked(i.a)[id]
    BY <1>2 DEF JumpedTo, Put, Linked
  <2> QED
    BY <1>2, <2>1, <2>2, <2>3, OthersAlone DEF Linked
<1>7. CASE Load(i)
  <2>1. WritesA(i.op)
    BY <1>7, Groups DEF WritesA, Load
  <2>2. PICK N, v : reg' = Advanced(Put(reg, i.a, N, v))
    BY <1>7 DEF Load
  <2>3. Advanced(Put(reg, i.a, N, v))[id] = Put(reg, i.a, N, v)[id]
    BY <1>2 DEF Advanced, Put
  <2> QED
    BY <1>2, <2>1, <2>2, <2>3, OthersAlone
<1>8. CASE Upper(i)
  <2>1. WritesA(i.op)
    BY <1>8, Groups DEF WritesA, Upper
  <2>2. PICK v : reg' = Advanced(Put(reg, i.a, LONG, v))
    BY <1>8 DEF Upper
  <2>3. Advanced(Put(reg, i.a, LONG, v))[id] = Put(reg, i.a, LONG, v)[id]
    BY <1>2 DEF Advanced, Put
  <2> QED
    BY <1>2, <2>1, <2>2, <2>3, OthersAlone
<1> QED
  BY <1>1, <1>3, <1>4, <1>5, <1>6, <1>7, <1>8 DEF Execute

(* A link is the address behind the jump.                                  *)
LEMMA LinkWritten ==
  ASSUME Shaped, NEW id \in RegisterId, id # 0
  PROVE  Linked(id)[id] = (pc + INSTRUCTION_LENGTH) % LONG
<1>1. reg \in [RegisterId -> Word] /\ pc \in Word
  BY ShapedParts
<1>2. reg[id] \in Int /\ pc + INSTRUCTION_LENGTH \in Int /\ LONG \in Int /\ LONG > 0
  BY <1>1, WordParts, Sizes DEF INSTRUCTION_LENGTH
<1>3. Linked(id)[id] = Write(reg[id], LONG, pc + INSTRUCTION_LENGTH)
  BY <1>1 DEF Linked, Put
<1>4. 8 \in Widths /\ Values(8) = LONG
  BY DEF Widths, Values
<1>5. Write(reg[id], LONG, pc + INSTRUCTION_LENGTH) \in Word
  BY <1>1, <1>2, <1>4, WriteInWord
<1>6. Write(reg[id], LONG, pc + INSTRUCTION_LENGTH) % LONG = (pc + INSTRUCTION_LENGTH) % LONG
  BY <1>2, WriteParts
<1> QED
  BY <1>3, <1>5, <1>6, WordParts

(* Where a jump to a register goes, and what a jump leaves behind.         *)
LEMMA TurnJumps ==
  ASSUME Shaped, OneTurn, reg' # reg
  PROVE  /\ Fetched.op = "JALR" /\ Fetched.b \notin {Fetched.a, PC} =>
              reg'[PC] = (reg[Fetched.b] + Immediate(Fetched.c)) % LONG
         /\ Fetched.op = "JAL" /\ Fetched.a \notin {0, PC} =>
              reg'[Fetched.a] = (pc + INSTRUCTION_LENGTH) % LONG
<1> DEFINE i == Fetched
<1> SUFFICES /\ i.op = "JALR" /\ i.b \notin {i.a, PC} =>
                  reg'[PC] = (reg[i.b] + Immediate(i.c)) % LONG
             /\ i.op = "JAL" /\ i.a \notin {0, PC} => reg'[i.a] = (pc + INSTRUCTION_LENGTH) % LONG
  OBVIOUS
<1>1. IsInstruction(i) /\ ~ Throws(i) /\ Execute(i)
  BY FetchedType DEF OneTurn, Throw
<1> HIDE DEF i
<1>2. reg \in [RegisterId -> Word] /\ pc \in Word
  BY ShapedParts
<1>3. i.op \in {"JAL", "JALR"} => i.a \in RegisterId /\ i.b \in RegisterId
  BY <1>1, Groups DEF Throws, Looked
<1>4. ASSUME i.op = "JALR", i.b \notin {i.a, PC}
      PROVE  reg'[PC] = (reg[i.b] + Immediate(i.c)) % LONG
  <2>1. JumpRegister(i)
    BY <1>1, <1>4, Groups DEF Execute, Arithmetic, ArithmeticImmediate, Trap, Jump, Branch, Load,
          Store, Upper, Halt, Printing, Debug, InputString, InputNumber, InputBool
  <2>2. Linked(i.a)[i.b] = reg[i.b] /\ PC \in DOMAIN Linked(i.a)
    BY <1>2, <1>3, <1>4, OthersAlone, RegisterNumbers DEF Linked, Put
  <2> QED
    BY <2>1, <2>2 DEF JumpRegister, JumpedTo
<1>5. ASSUME i.op = "JAL", i.a \notin {0, PC}
      PROVE  reg'[i.a] = (pc + INSTRUCTION_LENGTH) % LONG
  <2>1. Jump(i)
    BY <1>1, <1>5, Groups DEF Execute, Arithmetic, ArithmeticImmediate, Trap, JumpRegister, Branch, Load,
          Store, Upper, Halt, Printing, Debug, InputString, InputNumber, InputBool
  <2>2. reg' = JumpedTo(Linked(i.a), i.c)
    BY <2>1 DEF Jump
  <2>3. reg'[i.a] = Linked(i.a)[i.a]
    BY <1>2, <1>3, <1>5, <2>2 DEF JumpedTo, Linked, Put
  <2> QED
    BY <1>3, <1>5, <2>3, LinkWritten
<1> QED
  BY <1>4, <1>5

-----------------------------------------------------------------------------
(* The machine without the debugger. *)

AluInv == TypeOK /\ ZeroIsZero /\ LoopBounded

(* The registers that start sets up. *)
LEMMA StartedType ==
  Started \in [RegisterId -> Word] /\ Started[0] = 0
<1>1. MAXMEMORY - INSTRUCTION_LENGTH \in Word
  <2>1. MAXMEMORY \in Nat /\ MAXMEMORY >= 8 /\ MAXMEMORY < LONG
    BY AluAssumption, PlatformAssumption, WordParts, Sizes DEF INSTRUCTION_LENGTH
  <2>2. LONG \in Nat
    BY Sizes
  <2> QED
    BY <2>1, <2>2 DEF Word, INSTRUCTION_LENGTH
<1>2. 0 \in Word
  BY Sizes DEF Word
<1> QED
  BY <1>1, <1>2, RegisterNumbers DEF Started

(* The state that start sets up. *)
LEMMA InitShaped ==
  ASSUME reg = Started, NEW s \in Setups, mem = s.image, in = Console(s.console, FALSE),
         out = <<>>, steps = 0
  PROVE  Shaped
<1>1. mem \in [Cell -> Byte] /\ s.console \in Seq(Items)
  BY AluAssumption DEF Items
<1>2. in \in InputState
  BY <1>1, ConsoleType
<1>3. out \in Seq(Seq(Int)) /\ DOMAIN out = {}
  OBVIOUS
<1> QED
  BY <1>1, <1>2, <1>3, StartedType DEF Shaped, InputState, Items

(* The invariant holds at the start. *)
LEMMA InitAluInv == Init => AluInv
<1> SUFFICES ASSUME Init PROVE AluInv
  OBVIOUS
<1>1. Shaped
  BY InitShaped DEF Init
<1> QED
  BY <1>1, StartedType, AluAssumption DEF Init, AluInv, TypeOK, ZeroIsZero, LoopBounded

(* Every step preserves it. *)
LEMMA NextAluInv == AluInv /\ [Next]_vars => AluInv'
<1> SUFFICES ASSUME AluInv, [Next]_vars PROVE AluInv'
  OBVIOUS
<1>1. CASE Step
  <2>1. ShapeKept(Fetched)
    BY <1>1, OneTurnKeeps DEF AluInv, TypeOK, Step
  <2>2. steps \in Nat /\ steps < maxSteps /\ mode = "running" /\ maxSteps \in Nat
    BY <1>1, AluAssumption DEF AluInv, TypeOK, Shaped, Step, InBudget
  <2> QED
    BY <2>1, <2>2 DEF ShapeKept, AluInv, TypeOK, ZeroIsZero, LoopBounded
<1>2. CASE Exhaust
  <2>1. Shaped'
    BY <1>2 DEF AluInv, TypeOK, Shaped, Exhaust
  <2>2. steps \in Nat /\ maxSteps \in Nat
    BY AluAssumption DEF AluInv, TypeOK, Shaped
  <2> QED
    BY <1>2, <2>1, <2>2 DEF AluInv, TypeOK, ZeroIsZero, LoopBounded, Exhaust, InBudget
<1>3. CASE UNCHANGED vars
  BY <1>3 DEF vars, AluInv, TypeOK, Shaped, ZeroIsZero, LoopBounded
<1> QED
  BY <1>1, <1>2, <1>3 DEF Next

(* It holds in every state of every run. *)
THEOREM InductiveInvariant == Spec => []AluInv
  BY InitAluInv, NextAluInv, PTL DEF Spec

(* The state has its type: no instruction makes a register, a byte, the    *)
(* input or the output anything else, whatever the program is.             *)
THEOREM TypeCorrect == Spec => []TypeOK
<1>1. AluInv => TypeOK
  BY DEF AluInv
<1> QED
  BY <1>1, InductiveInvariant, PTL

(* Register::write drops what goes to the zero register, on every path.    *)
THEOREM ZeroStays == Spec => []ZeroIsZero
<1>1. AluInv => ZeroIsZero
  BY DEF AluInv
<1> QED
  BY <1>1, InductiveInvariant, PTL

(* alu::loop makes at most maxSteps turns, and warns only after all.       *)
THEOREM LoopStaysInBudget == Spec => []LoopBounded
<1>1. AluInv => LoopBounded
  BY DEF AluInv
<1> QED
  BY <1>1, InductiveInvariant, PTL

(* Only jumps and branches decide where the next instruction is.           *)
THEOREM JumpsAlone == Spec => OnlyJumpsJump
<1>1. AluInv /\ [Next]_vars =>
        [(reg' # reg /\ Fetched.op \notin Branches \cup {"JAL", "JALR"})
           => reg'[PC] = (pc + INSTRUCTION_LENGTH) % LONG]_vars
  BY OneTurnKeeps DEF AluInv, TypeOK, Next, Step, Exhaust, ShapeKept
<1> QED
  BY <1>1, InductiveInvariant, PTL DEF Spec, OnlyJumpsJump

(* Memory changes only where a store or an input instruction says.         *)
THEOREM StoresInSpan == Spec => WritesInSpan
<1>1. AluInv /\ [Next]_vars =>
        [\A c \in Cell : mem'[c] # mem[c] => c \in Span(Fetched)]_vars
  BY OneTurnKeeps DEF AluInv, TypeOK, Next, Step, Exhaust, ShapeKept
<1> QED
  BY <1>1, InductiveInvariant, PTL DEF Spec, WritesInSpan

-----------------------------------------------------------------------------
(* A line that was typed is the string that is printed. *)

(* One byte is loaded as it is. *)
LEMMA LoadedByte ==
  ASSUME NEW m \in [Cell -> Byte], NEW c \in Cell
  PROVE  Loaded(m, c, 1) = m[c]
<1> DEFINE d == [k \in 0 .. 0 |-> IF c + k \in Cell THEN m[c + k] ELSE 0]
<1>1. m[c] \in Int /\ c \in Int
  BY AluAssumption DEF Byte, Cell
<1>2. d[0] = m[c] /\ Loaded(m, c, 1) = Number(d, 1)
  BY <1>1 DEF Loaded
<1> HIDE DEF d
<1>3. \A k \in 0 .. 1 - 1 : d[k] \in Int
  BY <1>1, <1>2
<1>4. PICK s \in [0 .. 1 -> Int] : Sums(d, 1, s) /\ Number(d, 1) = s[1]
  BY <1>3, NumberDef
<1>5. s[0] = 0 /\ s[1] = s[0] + d[0] * Place[1] /\ Place[1] = 1
  BY <1>4 DEF Sums, Place
<1> QED
  BY <1>1, <1>2, <1>4, <1>5

(* The characters of a string in memory lie eight bytes apart.             *)
LEMMA CharacterPlace ==
  ASSUME NEW a \in Nat, NEW k \in Nat, a + (k + 1) * INSTRUCTION_LENGTH <= MAXMEMORY
  PROVE  /\ CharacterAt(a, k) = a + k * INSTRUCTION_LENGTH
         /\ CharacterAt(a, k) \in Cell
         /\ Reachable(CharacterAt(a, k), INSTRUCTION_LENGTH)
         /\ Reachable(CharacterAt(a, k), 1)
<1> DEFINE p == a + k * INSTRUCTION_LENGTH
<1>1. p \in Nat /\ p + 8 <= MAXMEMORY /\ MAXMEMORY \in Nat /\ PAGESIZE \in Nat
      /\ MAXMEMORY + PAGESIZE < LONG
  BY AluAssumption, PlatformAssumption DEF INSTRUCTION_LENGTH
<1>2. CharacterAt(a, k) = p % LONG
  BY DEF CharacterAt
<1> HIDE DEF p
<1>3. p % LONG = p
  <2>1. p \in Word
    BY <1>1, Sizes DEF Word
  <2> QED
    BY <2>1, WordParts
<1> QED
  BY <1>1, <1>2, <1>3 DEF Cell, Reachable, INSTRUCTION_LENGTH, p

(* All the words are stored that have room in memory.                      *)
LEMMA AllFit ==
  ASSUME NEW a \in Nat, NEW words, Len(words) \in Nat,
         a + Len(words) * INSTRUCTION_LENGTH <= MAXMEMORY
  PROVE  Fitting(a, words) = Len(words)
<1> DEFINE R(k) == Reachable(CharacterAt(a, k), INSTRUCTION_LENGTH)
           N == Len(words)
           Fits(n) == /\ \A k \in 0 .. n - 1 : R(k)
                      /\ n = N \/ ~ R(n)
<1>1. \A k \in 0 .. N - 1 : R(k)
  <2> SUFFICES ASSUME NEW k \in 0 .. N - 1 PROVE R(k)
    OBVIOUS
  <2>1. k \in Nat /\ a + (k + 1) * INSTRUCTION_LENGTH <= MAXMEMORY
    BY AluAssumption, PlatformAssumption DEF INSTRUCTION_LENGTH
  <2> QED
    BY <2>1, CharacterPlace
<1> HIDE DEF R
<1>2. Fits(N) /\ \A t \in 0 .. N : Fits(t) => t = N
  BY <1>1
<1>3. Fitting(a, words) = CHOOSE t \in 0 .. N : Fits(t)
  BY DEF Fitting, R
<1> HIDE DEF Fits
<1>4. N \in 0 .. N
  OBVIOUS
<1> QED
  BY <1>2, <1>3, <1>4, Zenon

(* The first byte of each word is found where its character is.            *)
LEMMA PouredCharacter ==
  ASSUME NEW m \in [Cell -> Byte], NEW a \in Nat, NEW words \in Seq(Word),
         a + Len(words) * INSTRUCTION_LENGTH <= MAXMEMORY,
         NEW k \in 0 .. Len(words) - 1
  PROVE  Poured(m, a, words, Len(words))[CharacterAt(a, k)] = words[k + 1] % Base
<1> DEFINE c == a + k * INSTRUCTION_LENGTH
           n == Len(words)
<1>1. n \in Nat /\ k \in Nat /\ a + (k + 1) * INSTRUCTION_LENGTH <= MAXMEMORY
  BY AluAssumption, PlatformAssumption DEF INSTRUCTION_LENGTH
<1>2. CharacterAt(a, k) = c /\ c \in Cell
  BY <1>1, CharacterPlace
<1>3. /\ c \in a .. a + n * INSTRUCTION_LENGTH - 1
      /\ (c - a) \div INSTRUCTION_LENGTH = k /\ (c - a) % INSTRUCTION_LENGTH = 0
  BY <1>1 DEF INSTRUCTION_LENGTH
<1>4. Poured(m, a, words, n)[c] = ByteAt(words[k + 1], 0)
  BY <1>2, <1>3 DEF Poured
<1>5. words[k + 1] \in Word
  BY <1>1
<1>6. words[k + 1] \div 1 = words[k + 1] /\ Place[1] = 1
  BY <1>5, WordParts DEF Place
<1> QED
  BY <1>2, <1>4, <1>6 DEF ByteAt

(* A character keeps its low byte when it is widened.                      *)
LEMMA WidenedByte ==
  ASSUME NEW chars \in Seq(Byte), NEW k \in 1 .. Len(chars)
  PROVE  Widened(chars)[k] % Base = chars[k]
<1>1. chars[k] \in 0 .. CHAR - 1
  <2>1. chars[k] \in Byte
    OBVIOUS
  <2> QED
    BY <2>1 DEF Byte, CHAR
<1> DEFINE v == Signed(chars[k], CHAR)
<1>2. v \in Int /\ v % CHAR = chars[k]
  BY <1>1, SignedRange
<1>3. Widened(chars)[k] = v % LONG
  BY DEF Widened
<1> HIDE DEF v
<1>4. (v % LONG) % CHAR = v % CHAR
  <2> DEFINE R == CHAR * SHORT * INT
  <2>1. CHAR \in Int /\ CHAR > 0 /\ LONG \in Int /\ R \in Int /\ R > 0
    <3>1. /\ CHAR \in Int /\ CHAR > 0 /\ SHORT \in Int /\ SHORT > 0
          /\ INT \in Int /\ INT > 0 /\ LONG \in Int
      BY Sizes
    <3>2. \A b, c \in Int : b > 0 /\ c > 0 => b * c \in Int /\ b * c > 0
      OBVIOUS
    <3>3. CHAR * SHORT \in Int /\ CHAR * SHORT > 0
      BY <3>1, <3>2
    <3> QED
      BY <3>1, <3>2, <3>3
  <2>2. Product(LONG, CHAR, R)
    BY Sizes DEF Product, LONG, INT, SHORT
  <2> HIDE DEF R
  <2>3. Splits(v, CHAR, R, LONG)
    BY <1>2, <2>1, <2>2, DivideTwice
  <2> QED
    BY <2>3 DEF Splits
<1> QED
  BY <1>2, <1>3, <1>4 DEF CHAR

(* What Memory::stringFromMemory finds of a string without a null.         *)
LEMMA StringFound ==
  ASSUME NEW m, NEW a, NEW chars \in Seq(Byte), \A k \in 1 .. Len(chars) : chars[k] # 0,
         \A k \in 0 .. Len(chars) :
           /\ Reachable(CharacterAt(a, k), 1)
           /\ Loaded(m, CharacterAt(a, k), 1) = IF k = Len(chars) THEN 0 ELSE chars[k + 1]
  PROVE  StringFromMemory(m, a)
           = SubSeq(chars, 1, IF Len(chars) < MAX_CHARS THEN Len(chars) ELSE MAX_CHARS)
<1> DEFINE Ends(k) == \/ k = MAX_CHARS
                      \/ ~ Reachable(CharacterAt(a, k), 1)
                      \/ Loaded(m, CharacterAt(a, k), 1) = 0
           First(t) == Ends(t) /\ \A k \in 0 .. t - 1 : ~ Ends(k)
           N == Len(chars)
           L == IF N < MAX_CHARS THEN N ELSE MAX_CHARS
<1>1. MAX_CHARS \in Nat /\ N \in Nat
  BY AluAssumption
<1>2. L \in 0 .. MAX_CHARS /\ L \in 0 .. N
  BY <1>1
<1>3. Ends(L) /\ \A k \in 0 .. L - 1 : ~ Ends(k)
  BY <1>1
<1> HIDE DEF Ends
<1>4. First(L) /\ \A t \in 0 .. MAX_CHARS : First(t) => t = L
  BY <1>2, <1>3
<1>5. StringLength(m, a) = CHOOSE t \in 0 .. MAX_CHARS : First(t)
  BY DEF StringLength, Ends
<1> HIDE DEF First
<1>6. StringLength(m, a) = L
  <2> HIDE DEF L
  <2> QED
    BY <1>2, <1>4, <1>5, Zenon
<1>7. StringFromMemory(m, a) = [k \in 1 .. L |-> Loaded(m, CharacterAt(a, k - 1), 1)]
  BY <1>6 DEF StringFromMemory
<1>8. \A k \in 1 .. L : Loaded(m, CharacterAt(a, k - 1), 1) = chars[k]
  BY <1>1, <1>2
<1>9. SubSeq(chars, 1, L) = [k \in 1 .. L |-> chars[k]]
  BY <1>1, <1>2
<1> HIDE DEF L
<1> QED
  BY <1>7, <1>8, <1>9 DEF L

(* A line that INPUTS stores inside memory is the string found there.      *)
LEMMA LineReadBack ==
  ASSUME Shaped, \A w \in InputWords : \A k \in DOMAIN w.chars : w.chars[k] # 0,
         NEW i, IsInstruction(i), ~ Throws(i), InputString(i),
         Location(i) + (Len(LineRead) + 1) * INSTRUCTION_LENGTH <= MAXMEMORY
  PROVE  StringFromMemory(mem', Location(i))
           = SubSeq(LineRead, 1, IF Len(LineRead) < MAX_CHARS THEN Len(LineRead) ELSE MAX_CHARS)
<1> DEFINE a == Location(i)
           chars == LineRead
           words == WithNull(chars)
           N == Len(chars)
<1>1. chars \in Seq(Byte) /\ N \in Nat
  BY ShapedParts, LineTypes
<1>2. \A k \in 1 .. N : chars[k] # 0
  <2>1. CASE in.failed \/ in.left = <<>> \/ Head(in.left) = Newline
    BY <2>1 DEF LineRead
  <2>2. CASE ~ (in.failed \/ in.left = <<>> \/ Head(in.left) = Newline)
    <3>1. in.left \in Seq(Items)
      BY ShapedParts DEF InputState
    <3>2. Head(in.left) \in InputWords /\ chars = Head(in.left).chars
      BY <2>2, <3>1 DEF Items, LineRead
    <3> QED
      BY <1>1, <3>2
  <2> QED
    BY <2>1, <2>2
<1>3. a \in Nat /\ a + (N + 1) * INSTRUCTION_LENGTH <= MAXMEMORY
  BY Groups, LocationType, WordParts DEF InputString
<1>4. words \in Seq(Word) /\ Len(words) = N + 1
  BY <1>1, WithNullType
<1>5. mem' = Poured(mem, a, words, Fitting(a, words))
  BY DEF InputString
<1>6. words = Append(Widened(chars), 0) /\ Len(Widened(chars)) = N /\ Widened(chars) \in Seq(Int)
  <2>1. \A k \in 1 .. N : Signed(chars[k], CHAR) % LONG \in Int
    <3> SUFFICES ASSUME NEW k \in 1 .. N PROVE Signed(chars[k], CHAR) % LONG \in Int
      OBVIOUS
    <3>1. chars[k] \in Byte
      BY <1>1
    <3>2. Signed(chars[k], CHAR) \in Int
      <4>1. chars[k] \in Int
        BY <3>1 DEF Byte
      <4>2. CHAR \in Int
        BY Sizes
      <4> QED
        BY <4>1, <4>2 DEF Signed
    <3> QED
      BY <3>2, ModInWord, WordParts
  <2> QED
    BY <1>1, <2>1 DEF WithNull, Widened
<1>7. \A k \in 0 .. N : words[k + 1] % Base = IF k = N THEN 0 ELSE chars[k + 1]
  <2> SUFFICES ASSUME NEW k \in 0 .. N
               PROVE  words[k + 1] % Base = IF k = N THEN 0 ELSE chars[k + 1]
    OBVIOUS
  <2>1. CASE k = N
    <3>1. words[k + 1] = 0
      BY <1>1, <1>6, <2>1
    <3>2. 0 % Base = 0
      BY WordsAssumption
    <3> QED
      BY <2>1, <3>1, <3>2
  <2>2. CASE k # N
    <3>1. k + 1 \in 1 .. N
      BY <1>1, <2>2
    <3>2. words[k + 1] = Widened(chars)[k + 1]
      BY <1>1, <1>6, <3>1
    <3> QED
      BY <1>1, <2>2, <3>1, <3>2, WidenedByte
  <2> QED
    BY <2>1, <2>2
<1> HIDE DEF a, chars, words, N
<1>8. mem' = Poured(mem, a, words, Len(words))
  BY <1>1, <1>3, <1>4, <1>5, AllFit
<1>9. mem' \in [Cell -> Byte] /\ mem \in [Cell -> Byte]
  BY <1>1, <1>3, <1>4, <1>8, ShapedParts, PouredType
<1>10. ASSUME NEW k \in 0 .. N
       PROVE  /\ Reachable(CharacterAt(a, k), 1)
              /\ Loaded(mem', CharacterAt(a, k), 1) = IF k = N THEN 0 ELSE chars[k + 1]
  <2>1. k \in Nat /\ k \in 0 .. Len(words) - 1 /\ a + (k + 1) * INSTRUCTION_LENGTH <= MAXMEMORY
    BY <1>1, <1>3, <1>4, AluAssumption, PlatformAssumption DEF INSTRUCTION_LENGTH
  <2>2. CharacterAt(a, k) \in Cell /\ Reachable(CharacterAt(a, k), 1)
    BY <1>3, <2>1, CharacterPlace
  <2>3. mem'[CharacterAt(a, k)] = words[k + 1] % Base
    BY <1>1, <1>3, <1>4, <1>8, <1>9, <2>1, PouredCharacter
  <2> QED
    BY <1>7, <1>9, <2>2, <2>3, LoadedByte
<1>11. StringFromMemory(mem', a) = SubSeq(chars, 1, IF N < MAX_CHARS THEN N ELSE MAX_CHARS)
  BY <1>1, <1>2, <1>10, StringFound DEF N
<1> QED
  BY <1>11 DEF a, chars, N

(* What was typed without a null character and stored inside memory by     *)
(* INPUTS is what PRINT 0 finds there, up to the length it is limited to.  *)
THEOREM InputIsReadBack ==
  ASSUME \A w \in InputWords : \A k \in DOMAIN w.chars : w.chars[k] # 0
  PROVE  Spec => InputReadsBack
<1> DEFINE Back == LET i == Fetched
                       n == Len(LineRead)
                       a == Location(i)
                   IN  (i.op = "INPUTS" /\ reg' # reg /\ a + (n + 1) * INSTRUCTION_LENGTH <= MAXMEMORY)
                         => StringFromMemory(mem', a)
                              = SubSeq(LineRead, 1, IF n < MAX_CHARS THEN n ELSE MAX_CHARS)
<1>1. ASSUME AluInv, Next PROVE Back
  <2> SUFFICES ASSUME Fetched.op = "INPUTS", reg' # reg,
                      Location(Fetched) + (Len(LineRead) + 1) * INSTRUCTION_LENGTH <= MAXMEMORY
               PROVE  StringFromMemory(mem', Location(Fetched))
                        = SubSeq(LineRead, 1, IF Len(LineRead) < MAX_CHARS THEN Len(LineRead) ELSE MAX_CHARS)
    OBVIOUS
  <2>1. Shaped /\ OneTurn
    BY <1>1 DEF AluInv, TypeOK, Next, Step, Exhaust
  <2>2. ~ Throws(Fetched) /\ Execute(Fetched)
    BY <2>1 DEF OneTurn, Throw
  <2> DEFINE i == Fetched
  <2>3. i.op = "INPUTS" /\ IsInstruction(i)
    BY <2>1, FetchedType
  <2> HIDE DEF i
  <2>4. InputString(i)
    BY <2>2, <2>3, Groups DEF i, Execute, Arithmetic, ArithmeticImmediate, Trap, JumpRegister, Jump,
       Branch, Load, Store, Upper, Halt, Printing, Debug, InputNumber, InputBool
  <2> QED
    BY <2>1, <2>2, <2>3, <2>4, LineReadBack DEF i
<1>2. AluInv /\ [Next]_vars => [Back]_vars
  BY <1>1
<1> QED
  BY <1>2, InductiveInvariant, PTL DEF Spec, InputReadsBack
=============================================================================
