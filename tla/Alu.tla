-------------------------------- MODULE Alu ---------------------------------
(***************************************************************************)
(* The machine that runs a program: alu::step and alu::loop of alu.cpp, as *)
(* start() in start.cpp sets them going, without the debugger.  Each       *)
(* action is one turn of the loop: it fetches, decodes and executes one    *)
(* instruction and does the input or output the instruction asks for.      *)
(*                                                                         *)
(* Memory is the flat array that Memory implements (FlatMemory), with the  *)
(* page past its end that the Memory inside an alu answers for: there      *)
(* reads give zero and writes are dropped (alu::syms is no page).  An      *)
(* access beyond that page throws; so does a register number that does not *)
(* exist or an operation without a case in step, and nothing in alu or     *)
(* start catches it.  alu never looks at the valid flag of a read.         *)
(*                                                                         *)
(* Standard input is a queue of words and newlines.  A word is a record of *)
(* its characters, its value as a long and as the image of a double, and   *)
(* whether it is a number and whether it starts with T or Y.               *)
(***************************************************************************)
EXTENDS Platform

CONSTANTS
  REGISTERS_END,  (* the last register's number: 64                        *)
  PC,             (* the program counter's: 200                            *)
  MAX_CHARS,      (* characters stringFromMemory takes at most: 100        *)
  Setups,         (* what memory and standard input may hold at the start  *)
  Garbage,        (* what an uninitialised variable may hold               *)
  InputWords,     (* the words that may stand in standard input            *)
  Newline,        (* the end of a line of input                            *)
  maxSteps        (* the instructions to execute at most                   *)

VARIABLES
  reg,     (* the registers                                                *)
  mem,     (* the bytes of memory                                          *)
  in,      (* standard input: what is left of it, and whether it failed    *)
  out,     (* what the program printed                                     *)
  steps,   (* turns of the loop completed                                  *)
  mode     (* running, or how the program ended                            *)

vars == <<reg, mem, in, out, steps, mode>>

RegisterId == 0 .. REGISTERS_END \cup {PC}

ASSUME AluAssumption ==
  /\ MAXMEMORY >= INSTRUCTION_LENGTH /\ MAXMEMORY + PAGESIZE < LONG
  /\ REGISTERS_END \in Nat /\ REGISTERS_END >= 2 /\ PC \in Nat \ 0 .. REGISTERS_END
  /\ MAX_CHARS \in Nat /\ maxSteps \in Nat
  /\ \A s \in Setups :
       s.image \in [Cell -> Byte] /\ s.console \in Seq(InputWords \cup {Newline})
  /\ \A w \in InputWords : w.chars \in Seq(Byte) /\ w.long \in Int /\ w.double \in Word
  /\ Garbage \subseteq Word

-----------------------------------------------------------------------------
(* Registers. *)

(* A mutant of Put: isMutable not asked. *)
PutAnywhere(r, id, N, v) == [r EXCEPT ![id] = Write(@, N, v)]

(* Register::write<T>: the zero register drops it. *)
Put(r, id, N, v) ==
  IF id = 0 THEN r ELSE [r EXCEPT ![id] = Write(@, N, v)]

-----------------------------------------------------------------------------
(* Memory. *)

Reachable(a, n) == a + n <= MAXMEMORY + PAGESIZE

Loaded(m, a, n) ==
  Number([k \in 0 .. n - 1 |-> IF a + k \in Cell THEN m[a + k] ELSE 0], n)

(* A mutant of Stored: a whole word is stored, whatever the type.          *)
StoredWord(m, a, n, w) ==
  [c \in Cell |-> IF c \in a .. a + 7 THEN ByteAt(w, c - a) ELSE m[c]]

Stored(m, a, n, w) ==
  [c \in Cell |-> IF c \in a .. a + n - 1 THEN ByteAt(w, c - a) ELSE m[c]]

(* Character k of a string: each has a word to itself. *)
CharacterAt(a, k) == (a + k * INSTRUCTION_LENGTH) % LONG

(* Memory::stringFromMemory stops at a null, or when it has enough; or it  *)
(* throws, at a character that is out of reach.                            *)
StringLength(m, a) ==
  CHOOSE n \in 0 .. MAX_CHARS :
    LET Ends(k) == \/ k = MAX_CHARS
                   \/ ~ Reachable(CharacterAt(a, k), 1)
                   \/ Loaded(m, CharacterAt(a, k), 1) = 0
    IN  Ends(n) /\ \A k \in 0 .. n - 1 : ~ Ends(k)

StringThrows(m, a) ==
  LET n == StringLength(m, a)
  IN  n < MAX_CHARS /\ ~ Reachable(CharacterAt(a, n), 1)

StringFromMemory(m, a) ==
  [k \in 1 .. StringLength(m, a) |-> Loaded(m, CharacterAt(a, k - 1), 1)]

(* The words an INPUTS stores: a character is widened to a long, and a     *)
(* null comes last.                                                        *)
Widened(chars) == [k \in 1 .. Len(chars) |-> Signed(chars[k], CHAR) % LONG]

(* A mutant of WithNull: no terminator. *)
WithoutNull(chars) == Widened(chars)

WithNull(chars) == Append(Widened(chars), 0)

(* How many of them are stored before one is out of reach.                 *)
Fitting(a, words) ==
  CHOOSE n \in 0 .. Len(words) :
    /\ \A k \in 0 .. n - 1 : Reachable(CharacterAt(a, k), INSTRUCTION_LENGTH)
    /\ n = Len(words) \/ ~ Reachable(CharacterAt(a, n), INSTRUCTION_LENGTH)

(* Memory after the first n of the words are stored from a on. *)
Poured(m, a, words, n) ==
  [c \in Cell |->
     IF c \in a .. a + n * INSTRUCTION_LENGTH - 1
       THEN ByteAt(words[(c - a) \div INSTRUCTION_LENGTH + 1], (c - a) % INSTRUCTION_LENGTH)
       ELSE m[c]]

-----------------------------------------------------------------------------
(* Standard input. *)

Console(left, failed) == [left |-> left, failed |-> failed]

(* std::getline: the line, and what is left.  The chars of a word are those *)
(* of its line from there on.                                              *)
LineRead ==
  IF in.failed \/ in.left = <<>> \/ Head(in.left) = Newline
    THEN <<>> ELSE Head(in.left).chars

(* The words up to the end of the line, or of input. *)
WordsOnLine ==
  CHOOSE n \in 0 .. Len(in.left) :
    /\ n = Len(in.left) \/ in.left[n + 1] = Newline
    /\ \A k \in 1 .. n : in.left[k] # Newline

AfterLine ==
  IF in.failed THEN in
  ELSE Console(SubSeq(in.left, WordsOnLine + 2, Len(in.left)), in.left = <<>>)

(* operator>> of a console c skips white space; at the end of input there  *)
(* is no word.                                                             *)
NoWord(c) == c.failed \/ \A k \in DOMAIN c.left : c.left[k] = Newline

FromWord(c) ==
  LET k == CHOOSE j \in DOMAIN c.left :
             c.left[j] # Newline /\ \A i \in 1 .. j - 1 : c.left[i] = Newline
  IN  SubSeq(c.left, k, Len(c.left))

NextWord(c) == Head(FromWord(c))

Failed(c) == Console(c.left, TRUE)

(* A mutant of AfterWord: the end of the line is taken with the word. *)
AfterWordAndLine(c) ==
  IF NoWord(c) THEN Failed(c)
  ELSE LET rest == Tail(FromWord(c))
       IN  Console(IF rest # <<>> /\ Head(rest) = Newline THEN Tail(rest) ELSE rest, FALSE)

AfterWord(c) == IF NoWord(c) THEN Failed(c) ELSE Console(Tail(FromWord(c)), FALSE)

(* A number is read or the stream fails, and then 0 is read, or nothing.   *)
AfterNumber(c) == IF NoWord(c) \/ ~ NextWord(c).number THEN Failed(c) ELSE AfterWord(c)

-----------------------------------------------------------------------------
(* One instruction: alu::step. *)

pc == reg[PC]

(* The address of a memory operation, a PRINT or an input. *)
Location(i) ==
  (reg[IF Layout(i.op) = "U" THEN i.a ELSE i.b] + i.c) % LONG

AccessSize ==
  [LB |-> 1, LH |-> 2, LW |-> 4, LWU |-> 4, LD |-> 8, LBU |-> 1, LHU |-> 2,
   SB |-> 1, SH |-> 2, SW |-> 4, SD |-> 8]

(* The registers that step looks up, in getRegister. *)
Looked(i) ==
  CASE i.op \in ThreeRegister -> {i.a, i.b, i.c}
    [] i.op = "HALT" -> {}
    [] i.op = "PRINT" -> {i.b}
    [] i.op \in Uppers \cup Inputs \cup {"DEBUG"} -> {i.a}
    [] OTHER -> {i.a, i.b}

(* What makes step throw.  All of it comes before its first assignment.    *)
Throws(i) ==
  \/ i.op \in {"none"} \cup Translated
  \/ ~ Looked(i) \subseteq RegisterId
  \/ i.op \in Loads \cup Stores /\ ~ Reachable(Location(i), AccessSize[i.op])
  \/ i.op = "PRINT" /\ IF i.a = 1 THEN ~ Reachable(Location(i), 8)
                                  ELSE StringThrows(mem, Location(i))

(* A mutant of Advanced: the counter is read again, after the instruction. *)
AdvancedAnew(r) == [r EXCEPT ![PC] = (r[PC] + INSTRUCTION_LENGTH) % LONG]

(* The end of step: the counter moves on from where it was when step began, *)
(* whatever the instruction wrote to it.                                    *)
Advanced(r) == [r EXCEPT ![PC] = (pc + INSTRUCTION_LENGTH) % LONG]

(* The same after a jump to t. *)
JumpedTo(r, t) == [r EXCEPT ![PC] = t % LONG]

(* A mutant of Linked: the counter taken as moved on already. *)
LinkedTooFar(id) == Put(reg, id, LONG, pc + INSTRUCTION_LENGTH + INSTRUCTION_LENGTH)

Linked(id) == Put(reg, id, LONG, pc + INSTRUCTION_LENGTH)

(* A mutant of Turn: i++ forgotten. *)
TurnUncounted == UNCHANGED <<steps, mode>>

Turn == steps' = steps + 1 /\ UNCHANGED mode

Arithmetic(i) ==
  /\ i.op \in ThreeRegister
  /\ \E v \in Results(i.op, reg[i.b], reg[i.c]) : reg' = Advanced(Put(reg, i.a, LONG, v))
  /\ Turn /\ UNCHANGED <<mem, in, out>>

ArithmeticImmediate(i) ==
  /\ i.op \in WithImmediate
  /\ \E v \in Results(ByRegister[i.op], reg[i.b], Immediate(i.c)) :
       reg' = Advanced(Put(reg, i.a, LONG, v))
  /\ Turn /\ UNCHANGED <<mem, in, out>>

(* The processor traps: the process is killed. *)
Trap(i) ==
  /\ i.op \in ThreeRegister /\ Results(i.op, reg[i.b], reg[i.c]) = {}
  /\ mode' = "killed"
  /\ UNCHANGED <<reg, mem, in, out, steps>>

(* The link is written first: a base that is the same register sees it.    *)
JumpRegister(i) ==
  /\ i.op = "JALR"
  /\ reg' = JumpedTo(Linked(i.a), Linked(i.a)[i.b] + Immediate(i.c))
  /\ Turn /\ UNCHANGED <<mem, in, out>>

Jump(i) ==
  /\ i.op = "JAL"
  /\ reg' = JumpedTo(Linked(i.a), i.c)
  /\ Turn /\ UNCHANGED <<mem, in, out>>

Branch(i) ==
  /\ i.op \in Branches
  /\ reg' = IF Taken(i.op, reg[i.a], reg[i.b]) THEN JumpedTo(reg, i.c) ELSE Advanced(reg)
  /\ Turn /\ UNCHANGED <<mem, in, out>>

(* LW alone extends its sign; the others write their own width.            *)
Load(i) ==
  /\ i.op \in Loads
  /\ LET n == AccessSize[i.op]
         v == Loaded(mem, Location(i), n)
     IN  reg' = Advanced(IF i.op = "LW" THEN Put(reg, i.a, LONG, Signed(v, INT))
                                        ELSE Put(reg, i.a, Values(n), v))
  /\ Turn /\ UNCHANGED <<mem, in, out>>

Store(i) ==
  /\ i.op \in Stores
  /\ mem' = Stored(mem, Location(i), AccessSize[i.op], reg[i.a])
  /\ reg' = Advanced(reg)
  /\ Turn /\ UNCHANGED <<in, out>>

Upper(i) ==
  /\ i.op \in Uppers
  /\ reg' = Advanced(Put(reg, i.a, LONG, IF i.op = "LUI" THEN i.c ELSE i.c + pc))
  /\ Turn /\ UNCHANGED <<mem, in, out>>

(* break: the turn is not counted. *)
Halt(i) ==
  /\ i.op = "HALT"
  /\ reg' = Advanced(reg)
  /\ mode' = "halted"
  /\ UNCHANGED <<mem, in, out, steps>>

Printing(i) ==
  /\ i.op = "PRINT"
  /\ out' = Append(out, IF i.a = 1 THEN <<Signed(Loaded(mem, Location(i), 8), LONG)>>
                                   ELSE StringFromMemory(mem, Location(i)))
  /\ reg' = Advanced(reg)
  /\ Turn /\ UNCHANGED <<mem, in>>

Debug(i) ==
  /\ i.op = "DEBUG"
  /\ reg' = Advanced(reg)
  /\ Turn /\ UNCHANGED <<mem, in, out>>

-----------------------------------------------------------------------------
(* Input: alu::loop, after step has moved the counter on.                  *)

(* What the turn comes to when the input is stored, or is out of reach.    *)
Storing(i, n, w) ==
  IF Reachable(Location(i), n)
    THEN mem' = Stored(mem, Location(i), n, w) /\ Turn
    ELSE mode' = "threw" /\ UNCHANGED <<mem, steps>>

(* Characters before the one out of reach are stored all the same.         *)
InputString(i) ==
  /\ i.op = "INPUTS"
  /\ LET words == WithNull(LineRead)
         n == Fitting(Location(i), words)
     IN  /\ mem' = Poured(mem, Location(i), words, n)
         /\ IF n = Len(words) THEN Turn ELSE mode' = "threw" /\ UNCHANGED steps
  /\ in' = AfterLine
  /\ reg' = Advanced(reg)
  /\ UNCHANGED out

(* INPUTI and INPUTF; without a word nothing is assigned to the variable.  *)
InputNumber(i) ==
  /\ i.op \in {"INPUTI", "INPUTF"}
  /\ \E w \in IF NoWord(in) THEN Garbage
              ELSE IF ~ NextWord(in).number THEN {0}
              ELSE IF i.op = "INPUTI" THEN {NextWord(in).long % LONG}
              ELSE {NextWord(in).double} :
       Storing(i, 8, w)
  /\ in' = AfterNumber(in)
  /\ reg' = Advanced(reg)
  /\ UNCHANGED out

(* data.at(0) throws without a word. *)
InputBool(i) ==
  /\ i.op = "INPUTB"
  /\ IF NoWord(in) THEN mode' = "threw" /\ UNCHANGED <<mem, steps>>
     ELSE Storing(i, 1, IF NextWord(in).true THEN 1 ELSE 0)
  /\ in' = AfterWord(in)
  /\ reg' = Advanced(reg)
  /\ UNCHANGED out

-----------------------------------------------------------------------------
Fetched == Decode(Loaded(mem, pc, INSTRUCTION_LENGTH))

Fetchable == Reachable(pc, INSTRUCTION_LENGTH)

Throw ==
  /\ mode' = "threw"
  /\ UNCHANGED <<reg, mem, in, out, steps>>

Execute(i) ==
  \/ Arithmetic(i) \/ ArithmeticImmediate(i) \/ Trap(i)
  \/ JumpRegister(i) \/ Jump(i) \/ Branch(i)
  \/ Load(i) \/ Store(i) \/ Upper(i)
  \/ Halt(i) \/ Printing(i) \/ Debug(i)
  \/ InputString(i) \/ InputNumber(i) \/ InputBool(i)

(* A mutant of InBudget: <= for <. *)
InBudgetOneMore == steps <= maxSteps

InBudget == steps < maxSteps

(* One turn of the loop: step, and the input or output it asks for.        *)
OneTurn ==
  IF Fetchable
    THEN \E i \in {Fetched} : IF Throws(i) THEN Throw ELSE Execute(i)
    ELSE Throw

Step == mode = "running" /\ InBudget /\ OneTurn

(* The loop ends by its bound, with a warning. *)
Exhaust ==
  /\ mode = "running" /\ ~ InBudget
  /\ mode' = "exhausted"
  /\ UNCHANGED <<reg, mem, in, out, steps>>

(* The registers that start sets up: the counter and the stack pointer.    *)
Started == [id \in RegisterId |-> IF id = 2 THEN MAXMEMORY - INSTRUCTION_LENGTH ELSE 0]

Init ==
  /\ reg = Started
  /\ \E s \in Setups : mem = s.image /\ in = Console(s.console, FALSE)
  /\ out = <<>>
  /\ steps = 0
  /\ mode = "running"

Next == Step \/ Exhaust

Spec == Init /\ [][Next]_vars /\ WF_vars(Next)

-----------------------------------------------------------------------------
(* The machine's part of the state has its shape. *)
Shaped ==
  /\ reg \in [RegisterId -> Word]
  /\ mem \in [Cell -> Byte]
  /\ in \in [left : Seq(InputWords \cup {Newline}), failed : BOOLEAN]
  /\ out \in Seq(Seq(Int))
  /\ \A k \in DOMAIN out : Len(out[k]) <= MAX_CHARS \/ Len(out[k]) = 1
  /\ steps \in Nat

(* The run-time shape of the state. *)
TypeOK ==
  /\ Shaped
  /\ mode \in {"running", "halted", "exhausted", "threw", "killed"}

(* The zero register reads as zero, whatever is computed, loaded or linked *)
(* into it.                                                                *)
ZeroIsZero == reg[0] = 0

(* The loop makes at most maxSteps turns, warns only after all of them, and *)
(* a HALT among them is not mistaken for the end of the budget.             *)
LoopBounded ==
  /\ steps <= maxSteps
  /\ mode = "exhausted" => steps = maxSteps
  /\ mode = "halted" => steps < maxSteps

(* No instruction but a jump or a branch decides where the next one is: not *)
(* even one whose destination is the program counter.                       *)
OnlyJumpsJump ==
  [][ (reg' # reg /\ Fetched.op \notin Branches \cup {"JAL", "JALR"})
        => reg'[PC] = (pc + INSTRUCTION_LENGTH) % LONG ]_vars

(* The cells that the instruction i may write. *)
Span(i) ==
  CASE i.op \in Stores -> Location(i) .. Location(i) + AccessSize[i.op] - 1
    [] i.op = "INPUTB" -> {Location(i)}
    [] i.op \in {"INPUTI", "INPUTF"} -> Location(i) .. Location(i) + 7
    [] i.op = "INPUTS" -> Location(i) .. Location(i) + (Len(LineRead) + 1) * 8 - 1
    [] OTHER -> {}

(* Memory, the program included, changes only where a store or an input    *)
(* instruction says.                                                       *)
WritesInSpan ==
  [][ \A c \in Cell : mem'[c] # mem[c] => c \in Span(Fetched) ]_vars

(* A line that INPUTS stored inside memory is what PRINT 0 finds there, up *)
(* to the length PRINT is limited to.                                      *)
InputReadsBack ==
  [][ LET i == Fetched
          n == Len(LineRead)
          a == Location(i)
      IN  (i.op = "INPUTS" /\ reg' # reg /\ a + (n + 1) * INSTRUCTION_LENGTH <= MAXMEMORY)
            => StringFromMemory(mem', a)
                 = SubSeq(LineRead, 1, IF n < MAX_CHARS THEN n ELSE MAX_CHARS) ]_vars

(* assemble.hpp, enum Operations: the immediate of a branch is an offset   *)
(* from the program counter.                                               *)
BranchesAreRelative ==
  [][ LET i == Fetched
      IN  (i.op \in Branches /\ reg' # reg /\ Taken(i.op, reg[i.a], reg[i.b]))
            => reg'[PC] = (pc + i.c) % LONG ]_vars

(* README.MD: the instruction set is that of RISC-V.  There SLTU compares,  *)
(* DIVU divides, SRAW shifts right, LB and LH fill the register with the   *)
(* sign of what they load, ADDIW and JALR extend the sign of their         *)
(* immediate, and JALR takes its base before it writes the link, which may *)
(* go to the same register (in the widths the code gives these types).     *)
FollowsRiscv ==
  [][ LET i == Fetched
          n == AccessSize[i.op]
          u == reg[i.b] % INT
          v == reg[i.c] % INT
      IN  (reg' # reg /\ i.op \in {"SLTU", "DIVU", "SRAW", "LB", "LH", "ADDIW", "JALR"}
             /\ i.a \notin {0, PC}) =>
            /\ i.op = "SLTU" => reg'[i.a] = IF u < v THEN 1 ELSE 0
            /\ i.op = "DIVU" => (v # 0 => reg'[i.a] = u \div v)
            /\ i.op = "SRAW" =>
                 reg'[i.a] = (Signed(reg[i.b], LONG) \div 2 ^ (reg[i.c] % LONGBITS)) % LONG
            /\ i.op \in {"LB", "LH"} =>
                 reg'[i.a] = Signed(Loaded(mem, Location(i), n), Values(n)) % LONG
            /\ i.op = "ADDIW" => reg'[i.a] = (reg[i.b] + i.c) % LONG
            /\ i.op = "JALR" => reg'[PC] = (reg[i.b] + i.c) % LONG ]_vars

(* Every program comes to an end: it halts, exhausts its budget, throws or *)
(* is killed.                                                              *)
Terminates == <>(mode # "running")
=============================================================================
