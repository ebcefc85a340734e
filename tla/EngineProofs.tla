---------------------------- MODULE EngineProofs ----------------------------
(***************************************************************************)
(* Proofs about the whole program: what main and start do around the       *)
(* assembler and the machine are runs of them, so that what is proved of   *)
(* its passes holds of the program that is loaded, and what is proved of   *)
(* the machine of how it runs; and what the machine does is what the lines *)
(* of the source say.                                                      *)
(***************************************************************************)
EXTENDS Engine, AssemblerProofs, DebuggerProofs

(* What is running is a program assembled to its end, and the table of the *)
(* dialog is that of the program.                                          *)
ProgramLoaded == stage = "running" => phase = "done" /\ syms = table

(* Before the loop is called the machine is as it was constructed.         *)
NotYetRun ==
  stage \in {"main", "assembling"} => steps = 0 /\ mode = "running" /\ cmd = "" /\ due = 0

EInv ==
  /\ stage \in {"main", "assembling", "running", "returned", "aborted"}
  /\ AssemblerInv /\ InReach /\ ProgramLoaded
  /\ NotYetRun /\ DInv /\ ZeroIsZero

-----------------------------------------------------------------------------
(* The invariant.                                                          *)

(* Before there is a program the machine has its shape.                    *)
LEMMA EngineStarts ==
  ASSUME EngineInit
  PROVE  AssemblerInit /\ EInv
<1>1. PICK s \in Sessions : Constructed(s.lines) /\ in = Console(s.console, FALSE)
  BY Zenon DEF EngineInit
<1>2. s.lines \in Programs /\ s.console \in Seq(Items)
  BY EngineAssumption DEF Items
<1>3. AssemblerInit
  BY <1>1, <1>2 DEF AssemblerInit
<1>4. AssemblerInv
  BY <1>1, <1>2, InitKept
<1>5. phase = "first" /\ stage = "main"
  BY <1>1 DEF Constructed, EngineInit
<1>6. InReach /\ ProgramLoaded
  BY <1>5 DEF InReach, ProgramLoaded, Assembling
<1>7. NotYetRun /\ ZeroIsZero
  BY StartedType DEF EngineInit, NotYetRun, ZeroIsZero
<1>8. Shaped
  <2>1. in \in InputState
    BY <1>1, <1>2, ConsoleType
  <2>2. mem \in [Cell -> Byte]
    <3>1. 0 \in Byte
      BY Sizes DEF Byte
    <3> QED
      BY <3>1 DEF EngineInit
  <2>3. out \in Seq(Seq(Int)) /\ DOMAIN out = {}
    <3>1. out = <<>>
      BY DEF EngineInit
    <3> QED
      BY <3>1
  <2> QED
    BY <2>1, <2>2, <2>3, StartedType DEF EngineInit, Shaped, InputState, Items
<1>9. DInv
  <2>1. debug = FALSE /\ budget = 0 /\ due = 0 /\ mode = "running"
    BY DEF EngineInit
  <2>2. debug \in BOOLEAN
    BY Zenon DEF EngineInit
  <2>3. DebugTypeOK
    BY <1>8, <2>1, <2>2 DEF DebugTypeOK
  <2> QED
    BY <2>1, <2>3 DEF DInv, DueIsLeft, CommandStays
<1> QED
  BY <1>3, <1>4, <1>5, <1>6, <1>7, <1>9 DEF EInv

(* A step of the program is a step of the assembler or none.               *)
LEMMA EngineSteps ==
  ASSUME [EngineNext]_engineVars
  PROVE  [AssemblerNext]_assemblerVars
<1>1. CASE UNCHANGED engineVars
  BY <1>1 DEF engineVars
<1>2. CASE Assemble
  BY <1>2 DEF Assemble
<1>3. CASE Inform \/ CallStart \/ AssemblyAborts \/ Launch \/ Run \/ Return \/ RunAborts
  BY <1>3 DEF Inform, CallStart, AssemblyAborts, Launch, Run, Return, RunAborts
<1> QED
  BY <1>1, <1>2, <1>3 DEF EngineNext

(* Once it is launched, it is one of the machine with its debugger.        *)
LEMMA MachineSteps ==
  ASSUME [EngineNext]_engineVars
  PROVE  Launch \/ [DebugNext]_debugVars
<1>1. CASE UNCHANGED engineVars
  BY <1>1 DEF engineVars
<1>2. CASE Run
  BY <1>2 DEF Run
<1>3. CASE Inform \/ CallStart \/ Assemble \/ AssemblyAborts \/ Return \/ RunAborts
  BY <1>3 DEF Inform, CallStart, Assemble, AssemblyAborts, Return, RunAborts
<1> QED
  BY <1>1, <1>2, <1>3 DEF EngineNext

(* The table of the dialog is given once.                                  *)
LEMMA RunKeepsNames ==
  ASSUME Run
  PROVE  syms' = syms
BY DEF Run, DebugNext, MachineTurn, Warn, Open, Command, dialog

(* Words of memory are bytes.                                              *)
LEMMA BytesOfType ==
  ASSUME NEW words \in [Slot -> Word]
  PROVE  BytesOf(words) \in [Cell -> Byte]
<1> SUFFICES ASSUME NEW c \in Cell PROVE ByteAt(words[c \div 8], c % 8) \in Byte
  BY DEF BytesOf
<1>1. c \in Nat /\ c < MAXMEMORY /\ MAXMEMORY \in Nat /\ MAXMEMORY % 8 = 0
  BY AssemblerAssumption, PlatformAssumption DEF Cell, INSTRUCTION_LENGTH
<1>2. \A p, q \in Nat : p < q /\ q % 8 = 0 => p \div 8 \in 0 .. q \div 8 - 1 /\ p % 8 \in 0 .. 7
  OBVIOUS
<1>3. c \div 8 \in Slot /\ c % 8 \in 0 .. 7
  BY <1>1, <1>2 DEF Slot, INSTRUCTION_LENGTH
<1>4. words[c \div 8] \in Int
  BY <1>3, WordParts
<1> QED
  BY <1>3, <1>4, ByteAtType

LEMMA LaunchKeeps ==
  ASSUME EInv, Launch
  PROVE  DInv' /\ ZeroIsZero'
<1>1. /\ steps = 0 /\ mode = "running" /\ due = 0 /\ Shaped /\ image \in [Slot -> Word]
      /\ steps' = 0 /\ mode' = "running" /\ due' = 0
  BY DEF EInv, NotYetRun, Launch, DInv, DebugTypeOK, AssemblerInv, TypeInv, AssemblerTypeOK
<1>2. Shaped'
  <2>1. mem' \in [Cell -> Byte]
    BY <1>1, BytesOfType DEF Launch
  <2> QED
    BY <1>1, <2>1, StartedType DEF Launch, Shaped
<1>3. debug' \in BOOLEAN /\ budget' \in Int /\ (debug' => budget' = 0)
  BY AluAssumption DEF Launch, Budget
<1>4. DInv'
  BY <1>1, <1>2, <1>3 DEF DInv, DebugTypeOK, DueIsLeft, CommandStays
<1> QED
  BY <1>4, StartedType DEF Launch, ZeroIsZero

(* No step of the machine changes the zero register.                       *)
LEMMA MachineKeepsZero ==
  ASSUME DInv, ZeroIsZero, [DebugNext]_debugVars
  PROVE  ZeroIsZero'
<1>1. CASE MachineTurn
  BY <1>1, OneTurnKeeps DEF DInv, DebugTypeOK, MachineTurn, ShapeKept, ZeroIsZero
<1>2. CASE Warn \/ Open \/ Command
  BY <1>2 DEF Warn, Open, Command, ZeroIsZero
<1>3. CASE UNCHANGED debugVars
  BY <1>3 DEF debugVars, vars, ZeroIsZero
<1> QED
  BY <1>1, <1>2, <1>3 DEF DebugNext

LEMMA EngineKeeps ==
  ASSUME EInv, [EngineNext]_engineVars
  PROVE  EInv'
<1>1. AssemblerInv' /\ InReach'
  BY EngineSteps, NextKeeps, NextReaches DEF EInv
<1>2. ProgramLoaded' /\ NotYetRun' /\ (stage \in {"main", "assembling", "running", "returned", "aborted"})'
  <2>1. CASE UNCHANGED engineVars
    BY <2>1 DEF EInv, ProgramLoaded, NotYetRun, engineVars, assemblerVars, debugVars, vars, dialog
  <2>2. CASE Inform \/ CallStart \/ AssemblyAborts \/ Return \/ RunAborts
    BY <2>2 DEF Inform, CallStart, AssemblyAborts, Return, RunAborts, EInv, ProgramLoaded, NotYetRun,
                debugVars, vars, dialog
  <2>3. CASE Assemble
    BY <2>3 DEF Assemble, EInv, ProgramLoaded, NotYetRun, debugVars, vars, dialog
  <2>4. CASE Launch
    BY <2>4 DEF Launch, ProgramLoaded, NotYetRun, assemblerVars
  <2>5. CASE Run
    <3>1. syms' = syms
      BY <2>5, RunKeepsNames
    <3>2. stage = "running" /\ stage' = "running" /\ phase' = phase /\ table' = table
      BY <2>5 DEF Run, assemblerVars
    <3> QED
      BY <3>1, <3>2 DEF EInv, ProgramLoaded, NotYetRun
  <2> QED
    BY <2>1, <2>2, <2>3, <2>4, <2>5 DEF EngineNext
<1>3. DInv' /\ ZeroIsZero'
  BY MachineSteps, LaunchKeeps, NextDInv, MachineKeepsZero DEF EInv
<1> QED
  BY <1>1, <1>2, <1>3 DEF EInv

(* It holds of every run of the program. *)
THEOREM EngineInvariantHolds == EngineSpec => []EInv
<1>1. EngineInit => EInv
  BY EngineStarts
<1>2. EInv /\ [EngineNext]_engineVars => EInv'
  BY EngineKeeps
<1> QED
  BY <1>1, <1>2, PTL DEF EngineSpec

-----------------------------------------------------------------------------
(* What main and start do implements the assembler (but for its fairness): *)
(* the program is put into memory as Assembler says, once, and nothing     *)
(* that runs afterwards disturbs what was counted.                         *)
THEOREM EngineAssembles == EngineSpec => AssemblerInit /\ [][AssemblerNext]_assemblerVars
<1>1. EngineInit => AssemblerInit
  BY EngineStarts
<1>2. [EngineNext]_engineVars => [AssemblerNext]_assemblerVars
  BY EngineSteps
<1> QED
  BY <1>1, <1>2, PTL DEF EngineSpec

(* And every variable keeps its type, from the options to the last turn.   *)
THEOREM EngineTypeCorrect == EngineSpec => []EngineTypeOK
<1>1. EInv => EngineTypeOK
  BY DEF EInv, AssemblerInv, TypeInv, DInv, EngineTypeOK
<1> QED
  BY <1>1, EngineInvariantHolds, PTL

(* What is typed at the dialogs of a program that was assembled is carried *)
(* out to the instruction, as it is for any memory the machine starts with.*)
THEOREM EngineHonoursAsks == EngineSpec => []AsksHonoured
<1>1. EInv => AsksHonoured
  BY DEF EInv, DInv, DueIsLeft, AsksHonoured
<1> QED
  BY <1>1, EngineInvariantHolds, PTL

(* So the passes agree on every program that is run, memory is filled as   *)
(* its lines say, and its references go to the lines they name.            *)
THEOREM ProgramsInPlace == EngineSpec => [](PassesAgree /\ ImageInPlace /\ ReferencesResolve)
<1>1. EInv => PassesAgree /\ ImageInPlace /\ ReferencesResolve
  BY AgreeingPasses, ResolvingReferences DEF EInv, AssemblerInv, Filled
<1> QED
  BY <1>1, EngineInvariantHolds, PTL

(* An address of the program is not changed by the ways of an int.         *)
LEMMA AddressIsInt ==
  ASSUME NEW a \in 0 .. MAXMEMORY + PAGESIZE
  PROVE  Wrapped(0 + a, INT) % LONG = a
<1>1. MAXMEMORY + PAGESIZE \in Nat /\ MAXMEMORY + PAGESIZE < INT \div 2
  BY PlatformAssumption, EngineAssumption
<1>2. INT \in Int /\ INT > 0 /\ LONG = INT * INT /\ LONG \in Int /\ LONG > 0
  BY Sizes DEF LONG
<1>3. 0 + a = a /\ a \in Nat
  BY <1>1
<1>4. a \in - (INT \div 2) .. (INT \div 2) - 1
  BY <1>1, <1>2
<1>5. Wrapped(a, INT) = a
  BY <1>4, WrappedSame
<1>6. a < LONG
  <2>1. \A p \in Int : p > 0 => p <= p * p
    OBVIOUS
  <2>2. INT <= LONG
    BY <2>1, <1>2
  <2>3. INT \div 2 <= INT
    BY <1>2
  <2> QED
    BY <1>1, <1>2, <2>2, <2>3
<1>7. a % LONG = a
  BY <1>2, <1>3, <1>6, DivUnique, a = LONG * 0 + a
<1> QED
  BY <1>3, <1>5, <1>7

(* In lines that both passes read alike, the table holds the names that    *)
(* mark a line and no others.                                              *)
LEMMA TableHasLabels ==
  ASSUME AssemblerInv, AllPlain, phase = "done", NEW n \in Name
  PROVE  n \in DOMAIN table <=> \E j \in DOMAIN lines : Defines(j, n)
<1>1. /\ lines \in Seq(Lines) /\ Len(lines) \in Nat /\ DOMAIN lines = 1 .. Len(lines)
      /\ Len(starts) = Len(lines) /\ Entered /\ Assembling
  BY LinesType DEF AssemblerInv, TypeInv, Counted, Assembling
<1>2. \A j \in 1 .. Len(lines) : SeesLabel(lines[j]) <=> Labelled(lines[j])
  BY <1>1, LinesType, LineType DEF AllPlain
<1>3. ASSUME n \in DOMAIN table PROVE \E j \in DOMAIN lines : Defines(j, n)
  <2> DEFINE Marking == {k \in 1 .. Len(lines) : lines[k].label = n}
  <2>1. PICK k \in 1 .. Len(lines) : lines[k].label = n
    <3>1. PICK k \in 1 .. Len(starts) : SeesLabel(lines[k]) /\ lines[k].label = n
      BY <1>1, <1>3 DEF Entered
    <3> QED
      BY <3>1, <1>1
  <2>2. k \in Marking /\ Marking \subseteq Nat
    BY <2>1, <1>1
  <2>3. PICK j \in Marking : \A i \in Marking : j <= i
    BY <2>2, LeastNumber
  <2>4. \A i \in 1 .. j - 1 : lines[i].label # n
    BY <2>3, <1>1
  <2> QED
    BY <2>3, <2>4, <1>1 DEF Defines
<1>4. ASSUME NEW j \in DOMAIN lines, Defines(j, n) PROVE n \in DOMAIN table
  <2>1. lines[j].label = n /\ Defines(j, lines[j].label)
    BY <1>4 DEF Defines
  <2>2. Labelled(lines[j])
    BY <2>1, AssemblerAssumption DEF Labelled
  <2> QED
    BY <1>1, <2>1, <2>2, FirstDefined
<1> QED
  BY <1>3, <1>4

(* Whatever is typed and run, a name is found at the dialog just if it is   *)
(* a register's or a label, and a label that is no register's name, in     *)
(* capitals either, is the address of the first line it marks.             *)
THEOREM DialogAlwaysNamesLines == EngineSpec => []DialogNamesLines
<1>1. ASSUME EInv PROVE DialogNamesLines
  <2> SUFFICES ASSUME stage = "running", AllPlain, NEW n \in Name
               PROVE  /\ Found(Bare(n)) <=> IsRegister(n) \/ \E j \in DOMAIN lines : Defines(j, n)
                      /\ \A j \in DOMAIN lines :
                           Defines(j, n) /\ ~ IsRegister(n) => PlaceAddress(Bare(n)) = starts[j]
    BY DEF DialogNamesLines
  <2>1. AssemblerInv /\ InReach /\ phase = "done" /\ syms = table /\ Assembling
    BY <1>1 DEF EInv, ProgramLoaded, Assembling
  <2>2. Bare(n) = [form |-> "name", name |-> n, offset |-> 0]
    BY DEF Bare, Inside
  <2>3. Found(Bare(n)) <=> IsRegister(n) \/ n \in DOMAIN syms
    BY <2>2 DEF Found, Symbol
  <2>4. n \in DOMAIN syms <=> \E j \in DOMAIN lines : Defines(j, n)
    BY <2>1, TableHasLabels
  <2>5. ASSUME NEW j \in DOMAIN lines, Defines(j, n), ~ IsRegister(n)
        PROVE  PlaceAddress(Bare(n)) = starts[j]
    <3>1. j \in 1 .. Len(lines)
      BY <2>1, LinesType DEF AssemblerInv, TypeInv
    <3>2. lines[j].label = n /\ Defines(j, lines[j].label)
      BY <2>5 DEF Defines
    <3>3. Labelled(lines[j])
      BY <3>2, AssemblerAssumption DEF Labelled
    <3>4. syms[n] = starts[j]
      BY <2>1, <3>1, <3>2, <3>3, FirstDefined
    <3>5. starts[j] \in 0 .. MAXMEMORY + PAGESIZE
      BY <2>1, <3>1, LinesInReach
    <3>6. PlaceAddress(Bare(n)) = Wrapped(0 + syms[n], INT) % LONG
      BY <2>2, <2>5 DEF PlaceAddress, Symbol
    <3> QED
      BY <3>4, <3>5, <3>6, AddressIsInt
  <2> QED
    BY <2>3, <2>4, <2>5
<1> QED
  BY <1>1, EngineInvariantHolds, PTL
-----------------------------------------------------------------------------
(* End to end.                                                             *)

(* The words of line j lie in memory, eight bytes each.                    *)
LEMMA LinePlace ==
  ASSUME AssemblerInv, Assembling, NEW j \in 1 .. Len(lines), NEW n \in Nat, Untouched(j, n),
         NEW i \in 0 .. n - 1
  PROVE  LET a == starts[j] + i * 8
         IN  /\ starts[j] \in Nat /\ starts[j] % 8 = 0
             /\ a \in Nat /\ a + 8 <= MAXMEMORY /\ a < LONG /\ (a + 8) % LONG = a + 8
             /\ starts[j] \div 8 + i \in Slot /\ image[starts[j] \div 8 + i] \in Word
             /\ \A b \in 0 .. 7 : /\ a + b \in Cell
                                  /\ mem[a + b] = ByteAt(image[starts[j] \div 8 + i], b)
<1> DEFINE s == starts[j]   a == s + i * 8   q == s \div 8 + i
<1>1. /\ s \in Nat /\ s % 8 = 0 /\ MAXMEMORY \in Nat /\ MAXMEMORY % 8 = 0
      /\ image \in [Slot -> Word] /\ Slot = 0 .. MAXMEMORY \div 8 - 1
  <2>1. AssemblerTypeOK /\ Counted /\ Len(starts) = Len(lines)
    BY DEF AssemblerInv, TypeInv, Counted
  <2>2. j \in 1 .. Len(starts)
    BY <2>1
  <2>3. s \in Nat
    BY <2>1, <2>2 DEF AssemblerTypeOK
  <2>4. s % 8 = 0
    BY <2>1, <2>2 DEF Counted, INSTRUCTION_LENGTH
  <2>5. MAXMEMORY \in Nat /\ MAXMEMORY % 8 = 0
    BY AssemblerAssumption, PlatformAssumption DEF INSTRUCTION_LENGTH
  <2>6. image \in [Slot -> Word] /\ Slot = 0 .. MAXMEMORY \div 8 - 1
    BY <2>1 DEF AssemblerTypeOK, Slot, INSTRUCTION_LENGTH
  <2> QED
    BY <2>3, <2>4, <2>5, <2>6
<1>2. s + n * 8 <= MAXMEMORY /\ \A c \in s .. s + n * 8 - 1 : mem[c] = BytesOf(image)[c]
  BY DEF Untouched
<1> HIDE DEF s
<1>3. a \in Nat /\ a % 8 = 0 /\ a \div 8 = q /\ a + 8 <= s + n * 8 /\ a + 8 <= MAXMEMORY
  BY <1>1, <1>2
<1>4. q \in Slot
  <2>1. \A x, y \in Nat : x % 8 = 0 /\ y % 8 = 0 /\ x < y => x \div 8 \in 0 .. y \div 8 - 1
    OBVIOUS
  <2> QED
    BY <1>1, <1>3, <2>1
<1>5. ASSUME NEW b \in 0 .. 7
      PROVE  a + b \in Cell /\ mem[a + b] = ByteAt(image[q], b)
  <2>1. \A x \in Nat : x % 8 = 0 => \A y \in 0 .. 7 : (x + y) \div 8 = x \div 8 /\ (x + y) % 8 = y
    OBVIOUS
  <2>2. (a + b) \div 8 = q /\ (a + b) % 8 = b
    BY <1>3, <2>1
  <2>3. a + b \in Cell /\ a + b \in s .. s + n * 8 - 1
    BY <1>1, <1>3 DEF Cell
  <2> HIDE DEF a
  <2>4. mem[a + b] = BytesOf(image)[a + b]
    BY <1>2, <2>3
  <2> QED
    BY <2>2, <2>3, <2>4 DEF BytesOf
<1>6. a < LONG /\ (a + 8) % LONG = a + 8
  <2>1. a + 8 < LONG /\ LONG \in Int /\ LONG > 0
    BY <1>3, AluAssumption, PlatformAssumption, Sizes
  <2> HIDE DEF a
  <2>2. a + 8 = LONG * 0 + (a + 8) /\ a + 8 \in 0 .. LONG - 1
    BY <1>3, <2>1
  <2> QED
    BY <1>3, <2>1, <2>2, DivUnique
<1> HIDE DEF a, q
<1>7. image[q] \in Word
  BY <1>1, <1>4
<1> QED
  BY <1>1, <1>3, <1>4, <1>5, <1>6, <1>7 DEF a, q, s

(* What is loaded where a word of a line lies is that word.                *)
LEMMA WordLoaded ==
  ASSUME AssemblerInv, Assembling, NEW j \in 1 .. Len(lines), NEW n \in Nat, Untouched(j, n),
         NEW i \in 0 .. n - 1
  PROVE  Loaded(mem, starts[j] + i * 8, 8) = image[starts[j] \div 8 + i]
<1> DEFINE a == starts[j] + i * 8   w == image[starts[j] \div 8 + i]
           d == [b \in 0 .. 7 |-> IF a + b \in Cell THEN mem[a + b] ELSE 0]
<1>1. /\ a \in Nat /\ w \in Word
      /\ \A b \in 0 .. 7 : a + b \in Cell /\ mem[a + b] = ByteAt(w, b)
  BY LinePlace
<1>2. 0 .. 8 - 1 = 0 .. 7
  OBVIOUS
<1> HIDE DEF a, w
<1>3. Loaded(mem, a, 8) = Number(d, 8)
  BY <1>2 DEF Loaded
<1>4. \A b \in 0 .. 8 - 1 : d[b] = ByteAt(w, b)
  <2> SUFFICES ASSUME NEW b \in 0 .. 7 PROVE d[b] = ByteAt(w, b)
    BY <1>2
  <2>1. d[b] = mem[a + b]
    BY <1>1
  <2> HIDE DEF d
  <2> QED
    BY <1>1, <2>1
<1> HIDE DEF d
<1>5. w \in Int /\ w % LONG = w /\ Weight(8) = LONG
  BY <1>1, WordParts DEF Weight
<1>6. Number(d, 8) = w
  BY <1>4, <1>5, LowDigits
<1> QED
  BY <1>3, <1>6 DEF a, w

(* A line that is in place is what is fetched there.                       *)
LEMMA FetchedLine ==
  ASSUME AssemblerInv, Assembling, NEW k \in 1 .. Len(lines), AtLine(k)
  PROVE  /\ starts[k] \in Nat /\ starts[k] < MAXMEMORY /\ (starts[k] + 8) % LONG = starts[k] + 8
         /\ Fetched = Decode(image[starts[k] \div INSTRUCTION_LENGTH])
<1> DEFINE a == starts[k] + 0 * 8
<1>1. Untouched(k, 1) /\ reg[PC] = starts[k] /\ 0 \in 0 .. 1 - 1 /\ 1 \in Nat
  BY DEF AtLine
<1>2. /\ starts[k] \in Nat /\ a + 8 <= MAXMEMORY /\ (a + 8) % LONG = a + 8
      /\ starts[k] \div 8 + 0 \in Slot
  BY <1>1, LinePlace
<1>3. Loaded(mem, a, 8) = image[starts[k] \div 8 + 0]
  BY <1>1, WordLoaded
<1>4. a = starts[k] /\ starts[k] \div 8 + 0 = starts[k] \div 8 /\ MAXMEMORY \in Nat
  BY <1>2, PlatformAssumption
<1> QED
  BY <1>1, <1>2, <1>3, <1>4 DEF Fetched, pc, INSTRUCTION_LENGTH

(* A turn that changes a register executes what was fetched.               *)
LEMMA TurnExecutes ==
  ASSUME OneTurn, reg' # reg
  PROVE  ~ Throws(Fetched) /\ Execute(Fetched)
BY DEF OneTurn, Throw

(* Where a turn of the loop leaves the counter.                            *)
Moves(i) ==
  /\ i.op = "JAL" => reg'[PC] = i.c % LONG
  /\ i.op \in Branches =>
       reg'[PC] = IF Taken(i.op, reg[i.a], reg[i.b]) THEN i.c % LONG ELSE (reg[PC] + 8) % LONG
  /\ i.op \notin Branches \cup {"JAL", "JALR"} => reg'[PC] = (reg[PC] + 8) % LONG

LEMMA TurnMoves ==
  ASSUME Shaped, OneTurn, reg' # reg
  PROVE  Moves(Fetched)
<1> DEFINE i == Fetched
<1> SUFFICES Moves(i)
  OBVIOUS
<1>1. IsInstruction(i) /\ pc \in Word /\ ~ Throws(i) /\ Execute(i) /\ ShapeKept(i)
  BY FetchedType, TurnExecutes, OneTurnKeeps
<1> HIDE DEF i
<1>2. reg \in [RegisterId -> Word] /\ reg[PC] = pc
  BY ShapedParts DEF pc
<1>3. CASE i.op = "JAL"
  <2>1. Jump(i) /\ i.op \notin Branches
    BY <1>1, <1>3, Groups DEF Execute, Arithmetic, ArithmeticImmediate, Trap, JumpRegister, Branch, Load,
          Store, Upper, Halt, Printing, Debug, InputString, InputNumber, InputBool
  <2>2. i.a \in RegisterId /\ i.c \in Int /\ pc + INSTRUCTION_LENGTH \in Int
    <3>1. i.op \notin ThreeRegister \cup Uppers \cup Inputs \cup {"HALT", "PRINT", "DEBUG"}
      BY <1>3, Groups
    <3> QED
      BY <1>1, <1>3, <3>1, WordParts DEF Throws, Looked, IsInstruction, INSTRUCTION_LENGTH
  <2>3. Linked(i.a) \in [RegisterId -> Word]
    BY <1>2, <2>2, PutWhole DEF Linked
  <2>4. reg' = JumpedTo(Linked(i.a), i.c)
    BY <2>1 DEF Jump
  <2>5. reg'[PC] = i.c % LONG
    BY <2>2, <2>3, <2>4, CounterMoves
  <2> QED
    BY <1>3, <2>1, <2>5 DEF Moves
<1>4. CASE i.op \in Branches
  <2>1. Branch(i) /\ i.op # "JAL"
    BY <1>1, <1>4, Groups DEF Execute, Arithmetic, ArithmeticImmediate, Trap, JumpRegister, Jump, Load,
          Store, Upper, Halt, Printing, Debug, InputString, InputNumber, InputBool
  <2>2. i.c \in Int
    BY <1>1 DEF IsInstruction
  <2>3. reg' = IF Taken(i.op, reg[i.a], reg[i.b]) THEN JumpedTo(reg, i.c) ELSE Advanced(reg)
    BY <2>1 DEF Branch
  <2>4. JumpedTo(reg, i.c)[PC] = i.c % LONG
    BY <1>2, <2>2, CounterMoves
  <2>5. Advanced(reg)[PC] = (reg[PC] + 8) % LONG
    BY <1>1, <1>2, Advances DEF INSTRUCTION_LENGTH
  <2> QED
    BY <1>4, <2>1, <2>3, <2>4, <2>5 DEF Moves
<1>5. CASE i.op \notin Branches \cup {"JAL"}
  <2>1. i.op # "JALR" => reg'[PC] = (reg[PC] + 8) % LONG
    BY <1>1, <1>2, <1>5 DEF ShapeKept, INSTRUCTION_LENGTH
  <2> QED
    BY <1>5, <2>1 DEF Moves
<1> QED
  BY <1>3, <1>4, <1>5

(* A name of a register, and a label, as the assembler resolves them.      *)
LEMMA NamedRegister ==
  ASSUME NEW k, NEW n, NamesRegister(k, n)
  PROVE  Resolved(OperandsOf(k)[n], table).id = Register(k, n)
BY DEF NamesRegister, Register, Resolved

(* The turn of a machine that is at a line.                                *)
LEMMA LineTurn ==
  ASSUME EInv, [EngineNext]_engineVars, NEW k \in DOMAIN lines, AtLine(k), reg' # reg
  PROVE  /\ AssemblerInv /\ InReach /\ phase = "done" /\ Assembling
         /\ k \in 1 .. Len(lines) /\ k \in 1 .. at - 1
         /\ Shaped /\ OneTurn
<1>1. AssemblerInv /\ InReach /\ phase = "done" /\ Assembling /\ at = Len(lines) + 1
  BY DEF EInv, ProgramLoaded, InReach, AtLine, Assembling
<1>2. Len(lines) \in Nat /\ k \in 1 .. Len(lines)
  BY LinesType DEF EInv, AssemblerInv, TypeInv
<1>3. OneTurn
  <2>1. Run
    BY DEF AtLine, EngineNext, Inform, CallStart, Assemble, AssemblyAborts, Launch, Return, RunAborts,
           engineVars, debugVars, vars
  <2>2. mode = "running"
    BY DEF AtLine
  <2> QED
    BY <2>1, <2>2 DEF Run, DebugNext, MachineTurn, Warn, Open, Command
<1> QED
  BY <1>1, <1>2, <1>3 DEF EInv, DInv, DebugTypeOK

(* The address in the word of an instruction that names a label.           *)
LEMMA LabelReached ==
  ASSUME EInv, phase = "done", AllPlain, NEW k \in 1 .. at - 1, lines[k].statement.kind = "op",
         NameOf(k) \in Addressing, NamesLabel(k), starts[k] < MAXMEMORY
  PROVE  \E j \in DOMAIN lines :
           /\ Refers(Target(k).name, j)
           /\ Decode(image[starts[k] \div INSTRUCTION_LENGTH]).c % LONG = starts[j]
<1> DEFINE c == Decode(image[starts[k] \div INSTRUCTION_LENGTH]).c
<1>1. Assembling /\ AssemblerInv /\ InReach
  BY DEF EInv, Assembling
<1>2. /\ Target(k).kind = "name" /\ Target(k).name \notin DOMAIN RegisterOf
      /\ Target(k) = Kept(lines[k].statement.operands)[Needs(lines[k].statement.name)]
  BY DEF NamesLabel, Target, OperandsOf, NameOf
<1>3. ReferencesResolve
  BY <1>1, ResolvingReferences
<1>4. PICK j \in DOMAIN lines : Defines(j, Target(k).name) /\ c = Wrapped(starts[j], INT)
  BY <1>1, <1>2, <1>3 DEF ReferencesResolve, NameOf
<1> HIDE DEF c
<1>5. j \in 1 .. Len(lines)
  BY <1>1, LinesType DEF AssemblerInv, TypeInv
<1>6. starts[j] \in 0 .. MAXMEMORY + PAGESIZE
  BY <1>1, <1>5, LinesInReach
<1>7. Wrapped(0 + starts[j], INT) % LONG = starts[j] /\ 0 + starts[j] = starts[j]
  BY <1>6, AddressIsInt
<1> QED
  BY <1>2, <1>4, <1>7 DEF Refers, c

LEMMA ControlledStep ==
  ASSUME EInv, [EngineNext]_engineVars, NEW k \in DOMAIN lines, AtLine(k), reg' # reg,
         NameOf(k) \in Mnemonics \ {"JALR"}
  PROVE  ControlFollows(k)
<1> DEFINE op == NameOf(k)
           d == Decode(image[starts[k] \div INSTRUCTION_LENGTH])
           operands == lines[k].statement.operands
           found == Syms(operands, table)
           ToLabel == NamesLabel(k) =>
                        \E j \in DOMAIN lines : Refers(Target(k).name, j) /\ d.c % LONG = starts[j]
<1>1. /\ Assembling /\ k \in 1 .. Len(lines) /\ k \in 1 .. at - 1 /\ Moves(Fetched)
      /\ AssemblerInv /\ phase = "done" /\ AllPlain /\ lines[k].statement.kind = "op"
      /\ reg[PC] = starts[k]
  BY LineTurn, TurnMoves DEF AtLine
<1>2. starts[k] < MAXMEMORY /\ (starts[k] + 8) % LONG = starts[k] + 8 /\ Fetched = d
  BY <1>1, FetchedLine
<1>3. PICK o : Holds(k, o)
  BY <1>1, <1>2, WordOfLine
<1>4. /\ op \notin Branches \cup {"JAL"} => d.op \notin Branches \cup {"JAL", "JALR"}
      /\ op \in Branches \cup {"JAL"} => d.op = op /\ Needs(op) <= Len(found)
      /\ op \in Branches => d.a = found[1].id /\ d.b = found[2].id
  BY <1>1, <1>3, LineDecoded DEF NameOf
<1>5. op \in Branches \cup {"JAL"} => ToLabel
  BY <1>1, <1>2, LabelReached DEF Addressing
<1>6. ASSUME op \in Branches, NamesRegister(k, 1), NamesRegister(k, 2)
      PROVE  d.a = Register(k, 1) /\ d.b = Register(k, 2)
  <2>1. ~ Unresolved(operands, table)
    BY <1>3 DEF Holds
  <2>2. /\ Len(found) \in Nat
        /\ \A j \in 1 .. Len(found) : found[j] = Resolved(Kept(operands)[j], table)
    BY <1>1, <2>1, SymsOfLine
  <2>3. Needs(op) = 3
    BY <1>6, Groups DEF Needs
  <2>4. 1 \in 1 .. Len(found) /\ 2 \in 1 .. Len(found)
    BY <1>4, <1>6, <2>2, <2>3
  <2>5. found[1] = Resolved(OperandsOf(k)[1], table) /\ found[2] = Resolved(OperandsOf(k)[2], table)
    BY <2>2, <2>4 DEF OperandsOf
  <2> QED
    BY <1>4, <1>6, <2>5, NamedRegister
<1>7. Moves(d)
  BY <1>1, <1>2
<1>8. "JAL" \notin Branches
  BY Groups
<1> HIDE DEF op, d, found, operands
<1>9. CASE op = "JAL"
  <2>1. reg'[PC] = d.c % LONG
    BY <1>4, <1>7, <1>9 DEF Moves
  <2>2. NamesLabel(k) => \E j \in DOMAIN lines : Refers(Target(k).name, j) /\ reg'[PC] = starts[j]
    BY <1>5, <1>9, <2>1
  <2> QED
    BY <1>8, <1>9, <2>2 DEF op, ControlFollows
<1>10. CASE op \in Branches
  <2>1. ASSUME NamesRegister(k, 1), NamesRegister(k, 2)
        PROVE  IF Taken(op, reg[Register(k, 1)], reg[Register(k, 2)])
                 THEN NamesLabel(k) =>
                        \E j \in DOMAIN lines : Refers(Target(k).name, j) /\ reg'[PC] = starts[j]
                 ELSE reg'[PC] = starts[k] + 8
    <3>1. d.op = op /\ d.a = Register(k, 1) /\ d.b = Register(k, 2)
      BY <1>4, <1>6, <1>10, <2>1
    <3>2. reg'[PC] = IF Taken(op, reg[Register(k, 1)], reg[Register(k, 2)])
                       THEN d.c % LONG ELSE (reg[PC] + 8) % LONG
      BY <1>7, <1>10, <3>1 DEF Moves
    <3> QED
      BY <1>1, <1>2, <1>5, <1>10, <3>2
  <2> QED
    BY <1>8, <1>10, <2>1 DEF op, ControlFollows
<1>11. CASE op \notin Branches \cup {"JAL"}
  <2>1. reg'[PC] = (reg[PC] + 8) % LONG
    BY <1>4, <1>7, <1>11 DEF Moves
  <2>2. reg'[PC] = starts[k] + 8
    BY <1>1, <1>2, <2>1
  <2> QED
    BY <1>11, <2>2 DEF op, ControlFollows
<1> QED
  BY <1>9, <1>10, <1>11

(* For every program, every memory and everything typed: control goes      *)
(* where the source says, across labels, strings and data, from the text   *)
(* of a line to the counter of the machine.                                *)
THEOREM ControlAlwaysFollows == EngineSpec => ControlFollowsSource
<1>1. EInv /\ [EngineNext]_engineVars =>
        [\A k \in DOMAIN lines :
           AtLine(k) /\ reg' # reg /\ NameOf(k) \in Mnemonics \ {"JALR"} => ControlFollows(k)]_engineVars
  BY ControlledStep
<1> QED
  BY <1>1, EngineInvariantHolds, PTL DEF EngineSpec, ControlFollowsSource

-----------------------------------------------------------------------------
(* The data of a program.                                                  *)

(* A label is defined once. *)
LEMMA DefinedOnce ==
  ASSUME NEW n, NEW i \in 1 .. Len(lines), NEW j \in 1 .. Len(lines), Len(lines) \in Nat,
         Defines(i, n), Defines(j, n)
  PROVE  i = j
<1>1. ~ (i < j) /\ ~ (j < i)
  BY DEF Defines
<1> QED
  BY <1>1

(* What an LD leaves in its register. *)
LEMMA TurnLoads ==
  ASSUME Shaped, OneTurn, reg' # reg, Fetched.op = "LD", Fetched.a \notin {0, PC}
  PROVE  reg'[Fetched.a] = Loaded(mem, Location(Fetched), 8) % LONG
<1> DEFINE i == Fetched
           v == Loaded(mem, Location(i), 8)
<1> SUFFICES reg'[i.a] = v % LONG
  OBVIOUS
<1>1. IsInstruction(i) /\ ~ Throws(i) /\ Execute(i) /\ i.op = "LD" /\ i.a \notin {0, PC}
  BY FetchedType, TurnExecutes
<1> HIDE DEF i
<1>2. Load(i)
  BY <1>1, Groups DEF Execute, Arithmetic, ArithmeticImmediate, Trap, JumpRegister, Jump, Branch,
        Store, Upper, Halt, Printing, Debug, InputString, InputNumber, InputBool
<1>3. i.a \in RegisterId /\ i.op \in Loads
  BY <1>1, Groups DEF Throws, Looked
<1>4. AccessSize["LD"] = 8 /\ Values(8) = LONG
  BY DEF AccessSize, Values
<1>5. reg' = Advanced(Put(reg, i.a, LONG, v))
  BY <1>1, <1>2, <1>4 DEF Load
<1>6. v \in Int
  BY <1>1, <1>3, ShapedParts, LocationType, LoadedType DEF Widths
<1> HIDE DEF v
<1>7. reg[i.a] \in Word /\ LONG \in Int /\ LONG > 0
  BY <1>3, ShapedParts, Sizes
<1>8. Write(reg[i.a], LONG, v) = v % LONG
  <2>1. Write(reg[i.a], LONG, v) % LONG = v % LONG
    <3>1. reg[i.a] \in Int
      BY <1>7, WordParts
    <3> QED
      BY <1>6, <1>7, <3>1, WriteParts
  <2>2. Write(reg[i.a], LONG, v) \in Word
    BY <1>4, <1>6, <1>7, WriteInWord DEF Widths
  <2> QED
    BY <2>1, <2>2, WordParts
<1>9. Put(reg, i.a, LONG, v)[i.a] = v % LONG
  BY <1>1, <1>3, <1>8, ShapedParts DEF Put
<1> QED
  BY <1>1, <1>5, <1>9 DEF Advanced

(* What a PRINT of a string prints. *)
LEMMA TurnPrints ==
  ASSUME Shaped, OneTurn, reg' # reg, Fetched.op = "PRINT", Fetched.a # 1
  PROVE  out' = Append(out, StringFromMemory(mem, Location(Fetched)))
<1> DEFINE i == Fetched
<1> SUFFICES out' = Append(out, StringFromMemory(mem, Location(i)))
  OBVIOUS
<1>1. ~ Throws(i) /\ Execute(i) /\ i.op = "PRINT" /\ i.a # 1
  BY TurnExecutes
<1> HIDE DEF i
<1>2. Printing(i)
  BY <1>1, Groups DEF Execute, Arithmetic, ArithmeticImmediate, Trap, JumpRegister, Jump, Branch,
        Load, Store, Upper, Halt, Debug, InputString, InputNumber, InputBool
<1> QED
  BY <1>1, <1>2 DEF Printing

(* Where an LD or a PRINT of a label looks, and with what.                 *)
LEMMA DataReached ==
  ASSUME EInv, [EngineNext]_engineVars, NEW k \in DOMAIN lines, NEW j \in DOMAIN lines,
         AtLine(k), reg' # reg, TakesFrom(k, j)
  PROVE  /\ Shaped /\ OneTurn /\ AssemblerInv /\ Assembling /\ AllPlain
         /\ j \in 1 .. Len(lines) /\ j \in 1 .. at - 1
         /\ Fetched.op = NameOf(k) /\ Location(Fetched) = starts[j]
         /\ NameOf(k) = "LD" /\ NamesRegister(k, 1) => Fetched.a = Register(k, 1)
         /\ NameOf(k) = "PRINT" /\ OperandsOf(k)[1] = Immediately(0) => Fetched.a = 0
<1> DEFINE op == NameOf(k)
           d == Decode(image[starts[k] \div INSTRUCTION_LENGTH])
           operands == lines[k].statement.operands
           found == Syms(operands, table)
<1> NameOf(k) \in {"LD", "PRINT"} /\ NamesLabel(k) /\ Refers(Target(k).name, j)
  BY DEF TakesFrom
<1>1. /\ Assembling /\ k \in 1 .. Len(lines) /\ k \in 1 .. at - 1
      /\ AssemblerInv /\ InReach /\ phase = "done" /\ AllPlain /\ lines[k].statement.kind = "op"
      /\ Shaped /\ OneTurn
  BY LineTurn DEF AtLine
<1>2. starts[k] < MAXMEMORY /\ Fetched = d
  BY <1>1, FetchedLine
<1>3. PICK o : Holds(k, o)
  BY <1>1, <1>2, WordOfLine
<1>4. op \in Mnemonics \ {"JALR"} /\ op \in Addressing /\ op \notin Branches /\ Needs(op) = 2
  <2>1. op \in Mnemonics
    BY Groups DEF Mnemonics, Opcodes, Operations
  <2> QED
    BY <2>1, Groups DEF Addressing, Needs
<1>5. d.op = op /\ 2 <= Len(found) /\ d.b = found[2].id
      /\ d.a = IF op = "LD" THEN found[1].id ELSE found[1].value % CHAR
  BY <1>1, <1>3, <1>4, LineDecoded DEF NameOf
<1>6. PICK l \in DOMAIN lines : Refers(Target(k).name, l) /\ d.c % LONG = starts[l]
  BY <1>1, <1>2, <1>4, LabelReached
<1>7. Len(lines) \in Nat /\ DOMAIN lines = 1 .. Len(lines) /\ at = Len(lines) + 1
  BY <1>1, LinesType DEF AssemblerInv, TypeInv, InReach
<1>8. l = j
  BY <1>6, <1>7, DefinedOnce DEF Refers
<1>9. found[1] = Resolved(OperandsOf(k)[1], table) /\ found[2] = Resolved(OperandsOf(k)[2], table)
  <2>1. ~ Unresolved(operands, table)
    BY <1>3 DEF Holds
  <2>2. /\ Len(found) \in Nat
        /\ \A h \in 1 .. Len(found) : found[h] = Resolved(Kept(operands)[h], table)
    BY <1>1, <2>1, SymsOfLine
  <2>3. 1 \in 1 .. Len(found) /\ 2 \in 1 .. Len(found)
    BY <1>5, <2>2
  <2> QED
    BY <2>2, <2>3 DEF OperandsOf
<1>10. found[2].id = 0
  BY <1>4, <1>9 DEF NamesLabel, Target, Resolved
<1>11. op = "LD" /\ NamesRegister(k, 1) => d.a = Register(k, 1)
  BY <1>5, <1>9, NamedRegister
<1>12. op = "PRINT" /\ OperandsOf(k)[1] = Immediately(0) => d.a = 0
  <2>1. 0 % CHAR = 0
    BY Sizes
  <2> QED
    BY <1>5, <1>9, <2>1 DEF Resolved, Immediately
<1>13. Location(d) = starts[j]
  <2>1. Layout(d.op) = "I"
    BY <1>5, Layouts, Groups
  <2>2. reg[0] = 0
    BY DEF EInv, ZeroIsZero
  <2>3. d.c \in Int
    BY <1>1, <1>2, FetchedType DEF IsInstruction
  <2> HIDE DEF d
  <2>4. Location(d) = (0 + d.c) % LONG
    BY <1>5, <1>10, <2>1, <2>2 DEF Location
  <2> QED
    BY <1>6, <1>8, <2>3, <2>4
<1> QED
  BY <1>1, <1>2, <1>5, <1>7, <1>11, <1>12, <1>13

(* A value written into a word of zero is what is left of it.              *)
LEMMA WriteToZero ==
  ASSUME NEW n \in Widths, NEW v \in Int
  PROVE  Write(0, Values(n), v) = v % Values(n)
<1> DEFINE N == Values(n)
<1>1. N \in Int /\ N > 0
  BY Sizes
<1> HIDE DEF N
<1>2. 0 \div N = 0
  BY <1>1, DivUnique, 0 = N * 0 + 0
<1>3. Write(0, N, v) \in Int /\ Write(0, N, v) % N = v % N /\ Write(0, N, v) \div N = 0
  BY <1>1, <1>2, WriteParts
<1>4. Write(0, N, v) = N * 0 + (v % N) /\ v % N \in Int
  BY <1>1, <1>3, DivMod
<1> QED
  BY <1>1, <1>4 DEF N

(* A number below N is what N leaves of it. *)
LEMMA Remains ==
  ASSUME NEW N \in Int, N > 0, NEW x \in 0 .. N - 1
  PROVE  x % N = x
BY DivUnique, x = N * 0 + x

(* The words of a line of data. *)
LEMMA DataInPlace ==
  ASSUME AssemblerInv, Assembling, AllPlain, NEW j \in 1 .. Len(lines), j \in 1 .. at - 1,
         lines[j].statement.kind = "data", Untouched(j, 1)
  PROVE  LET s == lines[j].statement
         IN  Loaded(mem, starts[j], 8) % LONG = s.value % Values(s.size)
<1> DEFINE s == lines[j].statement
           q == starts[j] \div 8
<1>1. 0 \in 0 .. 1 - 1 /\ 1 \in Nat
  OBVIOUS
<1>2. starts[j] \in Nat /\ q + 0 \in Slot /\ image[q + 0] \in Word
  BY <1>1, LinePlace
<1>3. Loaded(mem, starts[j] + 0 * 8, 8) = image[q + 0]
  BY <1>1, WordLoaded
<1>4. starts[j] + 0 * 8 = starts[j] /\ q + 0 = q
  BY <1>2
<1>5. s.size \in Widths /\ s.value \in Int
  <2>1. s \in Statements
    BY LinesType, LineType DEF AssemblerInv, TypeInv
  <2> QED
    BY <2>1 DEF Statements, NoStatement, Malformed
<1>6. WordsOf(s, table) = {<<Write(0, Values(s.size), s.value)>>}
  BY DEF WordsOf
<1>7. PICK words \in WordsOf(s, table) :
        \A i \in DOMAIN words :
          LET c == starts[j] \div INSTRUCTION_LENGTH + (i - 1)
          IN  c \in Slot => image[c] = words[i]
  BY DEF AssemblerInv, Filled, ImageInPlace
<1>8. words = <<Write(0, Values(s.size), s.value)>>
  BY <1>6, <1>7
<1>9. image[q] = Write(0, Values(s.size), s.value)
  <2>1. 1 \in DOMAIN words /\ words[1] = Write(0, Values(s.size), s.value)
    BY <1>8
  <2>2. starts[j] \div INSTRUCTION_LENGTH + (1 - 1) = q
    BY <1>2 DEF INSTRUCTION_LENGTH
  <2> QED
    BY <1>2, <1>4, <1>7, <2>1, <2>2
<1> HIDE DEF s, q
<1>10. image[q] = s.value % Values(s.size)
  BY <1>5, <1>9, WriteToZero
<1>11. image[q] % LONG = image[q]
  BY <1>2, <1>4, WordParts
<1> QED
  BY <1>3, <1>4, <1>10, <1>11 DEF s

(* The characters of a line of text. *)
LEMMA TextInPlace ==
  ASSUME AssemblerInv, Assembling, AllPlain, NEW j \in 1 .. Len(lines), j \in 1 .. at - 1,
         lines[j].statement.kind = "text", Untouched(j, Len(lines[j].statement.chars) + 1)
  PROVE  LET chars == lines[j].statement.chars
         IN  /\ chars \in Seq(Byte)
             /\ \A k \in 0 .. Len(chars) :
                  image[starts[j] \div 8 + k] = IF k = Len(chars) THEN 0 ELSE chars[k + 1]
<1> DEFINE s == lines[j].statement
           chars == s.chars
           N == Len(chars)
           q == starts[j] \div 8
<1>1. chars \in Seq(Byte) /\ N \in Nat
  <2>1. s \in Statements
    BY LinesType, LineType DEF AssemblerInv, TypeInv
  <2> QED
    BY <2>1 DEF Statements, NoStatement, Malformed
<1>2. PICK words \in WordsOf(s, table) :
        \A i \in DOMAIN words :
          LET c == starts[j] \div INSTRUCTION_LENGTH + (i - 1)
          IN  c \in Slot => image[c] = words[i]
  BY DEF AssemblerInv, Filled, ImageInPlace
<1>3. words = [k \in 1 .. N + 1 |-> IF k > N THEN 0 ELSE Write(0, CHAR, chars[k])]
  BY <1>2 DEF WordsOf
<1>4. ASSUME NEW k \in 0 .. N
      PROVE  image[q + k] = IF k = N THEN 0 ELSE chars[k + 1]
  <2>1. starts[j] \in Nat /\ q + k \in Slot
    <3>1. N + 1 \in Nat /\ k \in 0 .. (N + 1) - 1
      BY <1>1
    <3> QED
      BY <3>1, LinePlace
  <2>2. k + 1 \in DOMAIN words /\ words[k + 1] = IF k + 1 > N THEN 0 ELSE Write(0, CHAR, chars[k + 1])
    BY <1>1, <1>3
  <2>3. starts[j] \div INSTRUCTION_LENGTH + ((k + 1) - 1) = q + k
    BY <2>1 DEF INSTRUCTION_LENGTH
  <2>4. image[q + k] = words[k + 1]
    BY <1>2, <2>1, <2>2, <2>3
  <2>5. k # N => Write(0, CHAR, chars[k + 1]) = chars[k + 1]
    <3> SUFFICES ASSUME k # N PROVE Write(0, CHAR, chars[k + 1]) = chars[k + 1]
      OBVIOUS
    <3>1. chars[k + 1] \in 0 .. CHAR - 1 /\ CHAR \in Int /\ CHAR > 0
      <4>1. chars[k + 1] \in Byte
        BY <1>1
      <4> QED
        BY <4>1, Sizes DEF Byte, CHAR
    <3>2. Values(1) = CHAR /\ 1 \in Widths
      BY DEF Values, Widths
    <3>3. chars[k + 1] % CHAR = chars[k + 1]
      BY <3>1, Remains
    <3> QED
      <4>1. chars[k + 1] \in Int
        BY <3>1
      <4>2. Write(0, Values(1), chars[k + 1]) = chars[k + 1] % Values(1)
        BY <3>2, <4>1, WriteToZero
      <4> QED
        BY <3>2, <3>3, <4>2
  <2> QED
    BY <1>1, <2>2, <2>4, <2>5
<1> QED
  BY <1>1, <1>4

(* They are the string that is found there. *)
LEMMA TextFound ==
  ASSUME AssemblerInv, Assembling, AllPlain, Shaped, NEW j \in 1 .. Len(lines), j \in 1 .. at - 1,
         lines[j].statement.kind = "text",
         \A c \in DOMAIN lines[j].statement.chars : lines[j].statement.chars[c] # 0,
         Untouched(j, Len(lines[j].statement.chars) + 1)
  PROVE  LET chars == lines[j].statement.chars
         IN  StringFromMemory(mem, starts[j])
               = SubSeq(chars, 1, IF Len(chars) < MAX_CHARS THEN Len(chars) ELSE MAX_CHARS)
<1> DEFINE chars == lines[j].statement.chars
           N == Len(chars)
           a == starts[j]
           q == starts[j] \div 8
<1>1. chars \in Seq(Byte) /\ \A k \in 0 .. N : image[q + k] = IF k = N THEN 0 ELSE chars[k + 1]
  BY TextInPlace
<1>2. N \in Nat /\ \A k \in 1 .. N : chars[k] # 0
  BY <1>1
<1>3. ASSUME NEW k \in 0 .. N
      PROVE  /\ a \in Nat /\ a + (k + 1) * INSTRUCTION_LENGTH <= MAXMEMORY
             /\ image[q + k] \in Word /\ mem[a + k * INSTRUCTION_LENGTH] = ByteAt(image[q + k], 0)
  <2>1. N + 1 \in Nat /\ k \in 0 .. (N + 1) - 1 /\ 0 \in 0 .. 7
    BY <1>2
  <2>2. /\ a \in Nat /\ a + k * 8 + 8 <= MAXMEMORY /\ image[q + k] \in Word
        /\ mem[a + k * 8 + 0] = ByteAt(image[q + k], 0)
    BY <2>1, LinePlace
  <2>3. a + k * 8 + 8 = a + (k + 1) * 8 /\ a + k * 8 + 0 = a + k * 8
    BY <2>2
  <2> QED
    BY <2>2, <2>3 DEF INSTRUCTION_LENGTH
<1>4. mem \in [Cell -> Byte]
  BY ShapedParts
<1>5. ASSUME NEW k \in 0 .. N
      PROVE  /\ Reachable(CharacterAt(a, k), 1)
             /\ Loaded(mem, CharacterAt(a, k), 1) = IF k = N THEN 0 ELSE chars[k + 1]
  <2>1. /\ CharacterAt(a, k) = a + k * INSTRUCTION_LENGTH /\ CharacterAt(a, k) \in Cell
        /\ Reachable(CharacterAt(a, k), 1)
    BY <1>2, <1>3, CharacterPlace
  <2>2. Loaded(mem, CharacterAt(a, k), 1) = ByteAt(image[q + k], 0)
    BY <1>3, <1>4, <2>1, LoadedByte
  <2>3. ByteAt(image[q + k], 0) = image[q + k] % Base
    <3>1. image[q + k] \div 1 = image[q + k] /\ Place[1] = 1
      BY <1>3, WordParts DEF Place
    <3> QED
      BY <3>1 DEF ByteAt
  <2>4. image[q + k] \in 0 .. Base - 1 /\ Base \in Int /\ Base > 0
    <3>1. k # N => chars[k + 1] \in Byte
      BY <1>1, <1>2
    <3> QED
      <4>1. Base \in Int /\ Base > 0 /\ 0 \in 0 .. Base - 1
        BY WordsAssumption
      <4>2. CASE k = N
        BY <1>1, <4>1, <4>2
      <4>3. CASE k # N
        BY <1>1, <3>1, <4>1, <4>3 DEF Byte
      <4> QED
        BY <4>2, <4>3
  <2>5. image[q + k] % Base = image[q + k]
    BY <2>4, Remains
  <2> QED
    BY <1>1, <2>1, <2>2, <2>3, <2>5
<1> HIDE DEF chars, a, q
<1>6. StringFromMemory(mem, a) = SubSeq(chars, 1, IF N < MAX_CHARS THEN N ELSE MAX_CHARS)
  BY <1>1, <1>2, <1>5, StringFound
<1> QED
  BY <1>6 DEF chars, a

LEMMA DataStep ==
  ASSUME EInv, [EngineNext]_engineVars, NEW k \in DOMAIN lines, NEW j \in DOMAIN lines,
         AtLine(k), reg' # reg, TakesFrom(k, j)
  PROVE  LoadsValue(k, j) /\ PrintsText(k, j)
<1> DEFINE s == lines[j].statement
<1>1. /\ Shaped /\ OneTurn /\ AssemblerInv /\ Assembling /\ AllPlain
      /\ j \in 1 .. Len(lines) /\ j \in 1 .. at - 1
      /\ Fetched.op = NameOf(k) /\ Location(Fetched) = starts[j]
      /\ NameOf(k) = "LD" /\ NamesRegister(k, 1) => Fetched.a = Register(k, 1)
      /\ NameOf(k) = "PRINT" /\ OperandsOf(k)[1] = Immediately(0) => Fetched.a = 0
  BY DataReached
<1>2. LoadsValue(k, j)
  <2> SUFFICES ASSUME NameOf(k) = "LD", NamesRegister(k, 1), Register(k, 1) # 0, s.kind = "data",
                      Untouched(j, 1)
               PROVE  reg'[Register(k, 1)] = s.value % Values(s.size)
    BY DEF LoadsValue
  <2>1. Register(k, 1) # PC
    BY AluAssumption, DebuggerAssumption DEF NamesRegister, Register
  <2>2. reg'[Register(k, 1)] = Loaded(mem, starts[j], 8) % LONG
    BY <1>1, <2>1, TurnLoads
  <2> QED
    BY <1>1, <2>2, DataInPlace
<1>3. PrintsText(k, j)
  <2> DEFINE Printed == IF Len(s.chars) < MAX_CHARS THEN Len(s.chars) ELSE MAX_CHARS
  <2> SUFFICES ASSUME NameOf(k) = "PRINT", OperandsOf(k)[1] = Immediately(0), s.kind = "text",
                      \A c \in DOMAIN s.chars : s.chars[c] # 0, Untouched(j, Len(s.chars) + 1)
               PROVE  out' = Append(out, SubSeq(s.chars, 1, Printed))
    BY DEF PrintsText
  <2>1. out' = Append(out, StringFromMemory(mem, starts[j]))
    BY <1>1, TurnPrints
  <2>2. StringFromMemory(mem, starts[j]) = SubSeq(s.chars, 1, Printed)
    BY <1>1, TextFound
  <2> QED
    BY <2>1, <2>2
<1> QED
  BY <1>2, <1>3

(* Data is what the source says it is, for every program and everything    *)
(* that was typed and run before: LD loads the value that the line of its  *)
(* label declares, cut to its size, and PRINT prints the string.           *)
THEOREM DataAlwaysReads == EngineSpec => DataReadAsWritten
<1>1. EInv /\ [EngineNext]_engineVars =>
        [\A k, j \in DOMAIN lines :
           AtLine(k) /\ reg' # reg /\ TakesFrom(k, j)
             => LoadsValue(k, j) /\ PrintsText(k, j)]_engineVars
  BY DataStep
<1> QED
  BY <1>1, EngineInvariantHolds, PTL DEF EngineSpec, DataReadAsWritten

-----------------------------------------------------------------------------
(* Programs of which care is taken.                                        *)

(* An instruction of the source is at this address.                        *)
AtCode(a) == \E k \in DOMAIN lines : IsOperation(k) /\ a = starts[k]

(* What a register that the program returns by holds.                      *)
LinkOf(r, v) == v = 0 \/ \E c \in DOMAIN lines : Calls(c, r) /\ v = starts[c] + 8

(* The program runs, or will run on.                                       *)
InForce == mode \in {"running", "dialog"} \/ (mode = "halted" /\ debug)

(* The counter is at a line, the lines are as they were assembled, and the *)
(* registers to return by hold what calls have left in them.               *)
CodeInv ==
  stage = "running" /\ Structured =>
    /\ debug = ("d" \in options)
    /\ InForce => AtCode(reg[PC])
    /\ \A k \in DOMAIN lines : IsOperation(k) => Untouched(k, 1)
    /\ \A r \in Links : LinkOf(r, reg[r])

(* What there is of the program does not change while it runs.             *)
LEMMA StructureKept ==
  ASSUME lines' = lines, starts' = starts, table' = table, options' = options
  PROVE  /\ Structured' = Structured /\ Links' = Links
         /\ \A a : AtCode(a)' = AtCode(a)
         /\ \A r, v : LinkOf(r, v)' = LinkOf(r, v)
         /\ \A k : IsOperation(k)' = IsOperation(k)
         /\ \A k, r : Calls(k, r)' = Calls(k, r)
<1>1. \A k : NameOf(k)' = NameOf(k) /\ OperandsOf(k)' = OperandsOf(k) /\ IsOperation(k)' = IsOperation(k)
  BY DEF NameOf, OperandsOf, IsOperation
<1>2. /\ \A k, n : NamesRegister(k, n)' = NamesRegister(k, n) /\ Register(k, n)' = Register(k, n)
      /\ \A k : Target(k)' = Target(k)
      /\ \A k : Destination(k)' = Destination(k) /\ WritesRegister(k)' = WritesRegister(k)
  BY <1>1 DEF NamesRegister, Register, Target, Destination, WritesRegister
<1>3. \A k : NamesLabel(k)' = NamesLabel(k) /\ Returns(k)' = Returns(k)
  BY <1>1, <1>2 DEF NamesLabel, Returns
<1>4. \A n, j : Refers(n, j)' = Refers(n, j)
  BY DEF Refers, Defines
<1>5. \A k, r : Calls(k, r)' = Calls(k, r)
  BY <1>1, <1>2 DEF Calls
<1>6. Links' = Links
  BY <1>2, <1>3 DEF Links
<1>7. \A k : Leads(k)' = Leads(k)
  BY <1>1 DEF Leads
<1>8. \A k : LabelLeads(k)' = LabelLeads(k) /\ LabelHasData(k)' = LabelHasData(k)
  BY <1>2, <1>3, <1>4, <1>7 DEF LabelLeads, LabelHasData
<1>9. \A k : Careful(k)' = Careful(k)
  BY <1>1, <1>2, <1>6, <1>7, <1>8 DEF Careful
<1>10. Structured' = Structured
  BY <1>1, <1>7, <1>9 DEF Structured, AllPlain
<1> QED
  BY <1>1, <1>5, <1>6, <1>10 DEF AtCode, LinkOf

(* How long the lines are of a program that is read alike.                 *)
LEMMA LineLength ==
  ASSUME AssemblerInv, Assembling, AllPlain, NEW k \in 1 .. Len(lines)
  PROVE  /\ Len(lines) \in Nat /\ DOMAIN lines = 1 .. Len(lines)
         /\ starts[k] \in Nat
         /\ lines[k].statement.kind = "none" => EndOf(lines, starts, k) = starts[k]
         /\ lines[k].statement.kind = "op" => EndOf(lines, starts, k) = starts[k] + 8
         /\ lines[k].statement.kind \in {"op", "data", "text"} => EndOf(lines, starts, k) >= starts[k] + 8
         /\ k + 1 \in 1 .. Len(lines) => starts[k + 1] = EndOf(lines, starts, k)
<1> DEFINE s == lines[k].statement
<1>1. /\ Len(lines) \in Nat /\ DOMAIN lines = 1 .. Len(lines) /\ Len(starts) = Len(lines)
      /\ lines \in Seq(Lines) /\ AssemblerTypeOK /\ Counted /\ lines[k] \in Lines
  BY LinesType DEF AssemblerInv, TypeInv, Counted
<1>2. starts[k] \in Nat
  BY <1>1 DEF AssemblerTypeOK
<1>3. EndOf(lines, starts, k) = starts[k] + StatementLength(s)
  BY <1>1, LineType DEF AllPlain, EndOf
<1>4. /\ s.kind = "none" => StatementLength(s) = 0
      /\ s.kind \in {"op", "data"} => StatementLength(s) = 8
  BY DEF StatementLength, INSTRUCTION_LENGTH
<1>5. s.kind = "text" => StatementLength(s) \in Nat /\ StatementLength(s) >= 8
  <2> SUFFICES ASSUME s.kind = "text" PROVE StatementLength(s) \in Nat /\ StatementLength(s) >= 8
    OBVIOUS
  <2>1. s \in Statements
    BY <1>1, LineType
  <2>2. Len(s.chars) \in Nat
    <3>1. s.chars \in Seq(Byte)
      BY <2>1 DEF Statements, NoStatement, Malformed
    <3> QED
      BY <3>1
  <2>3. StatementLength(s) = (Len(s.chars) + 1) * 8
    BY DEF StatementLength, INSTRUCTION_LENGTH
  <2> QED
    BY <2>2, <2>3
<1>6. k + 1 \in 1 .. Len(lines) => starts[k + 1] = EndOf(lines, starts, k)
  <2> SUFFICES ASSUME k + 1 \in 1 .. Len(lines) PROVE starts[k + 1] = EndOf(lines, starts, k)
    OBVIOUS
  <2>1. starts[k + 1] = AddressOf(lines, starts, k + 1) /\ k + 1 # 1 /\ (k + 1) - 1 = k
    BY <1>1 DEF Counted
  <2> QED
    BY <2>1 DEF AddressOf
<1> HIDE DEF s
<1>7. EndOf(lines, starts, k) >= starts[k] + 8 \/ s.kind \notin {"op", "data", "text"}
  BY <1>2, <1>3, <1>4, <1>5
<1> QED
  BY <1>1, <1>2, <1>3, <1>4, <1>6, <1>7 DEF s

(* What a line leads to is at its address.                                 *)
LEMMA LeadsThere ==
  ASSUME AssemblerInv, Assembling, AllPlain, NEW k \in Nat \ {0}, Leads(k)
  PROVE  k \in 1 .. Len(lines) /\ AtCode(starts[k])
<1>1. Len(lines) \in Nat /\ DOMAIN lines = 1 .. Len(lines)
  BY LinesType DEF AssemblerInv, TypeInv
<1>2. PICK n \in k .. Len(lines) :
        IsOperation(n) /\ \A i \in k .. n - 1 : lines[i].statement.kind = "none"
  BY DEF Leads
<1> DEFINE S == {d \in Nat : k + d <= n => starts[k + d] = starts[k]}
<1>3. 0 \in S
  OBVIOUS
<1>4. \A d \in Nat : d \in S => d + 1 \in S
  <2> SUFFICES ASSUME NEW d \in Nat, d \in S, k + (d + 1) <= n PROVE starts[k + (d + 1)] = starts[k]
    OBVIOUS
  <2> DEFINE i == k + d
  <2>1. i \in k .. n - 1 /\ i \in 1 .. Len(lines) /\ i + 1 \in 1 .. Len(lines) /\ k + (d + 1) = i + 1
    BY <1>1
  <2>2. starts[i] = starts[k]
    BY <1>1, <2>1
  <2> HIDE DEF i
  <2>3. starts[i + 1] = starts[i]
    BY <1>2, <2>1, LineLength
  <2> QED
    BY <2>1, <2>2, <2>3
<1>5. n - k \in S
  <2> HIDE DEF S
  <2>1. Nat \subseteq S
    BY <1>3, <1>4, InductionBySet
  <2> QED
    BY <1>1, <2>1
<1>6. starts[n] = starts[k]
  BY <1>1, <1>5, k + (n - k) = n
<1> QED
  BY <1>1, <1>2, <1>6 DEF AtCode

(* A program of which care is taken begins with an instruction; and where  *)
(* its instructions go on, there is another.                               *)
LEMMA FirstPlace ==
  ASSUME AssemblerInv, Assembling, Structured
  PROVE  AtCode(0)
<1>1. AllPlain /\ Leads(1) /\ 1 \in Nat \ {0}
  BY DEF Structured
<1>2. 1 \in 1 .. Len(lines) /\ AtCode(starts[1])
  BY <1>1, LeadsThere
<1>3. starts[1] = 0
  BY <1>2 DEF AssemblerInv, Counted, AddressOf
<1> QED
  BY <1>2, <1>3

LEMMA NextPlace ==
  ASSUME AssemblerInv, Assembling, Structured, NEW k \in 1 .. Len(lines), IsOperation(k), Leads(k + 1)
  PROVE  AtCode(starts[k] + 8)
<1>1. AllPlain /\ k + 1 \in Nat \ {0}
  BY DEF Structured
<1>2. k + 1 \in 1 .. Len(lines) /\ AtCode(starts[k + 1])
  BY <1>1, LeadsThere
<1>3. starts[k + 1] = starts[k] + 8
  BY <1>1, <1>2, LineLength DEF IsOperation
<1> QED
  BY <1>2, <1>3

(* The words of an instruction lie apart from those of any other line.     *)
LEMMA LinesApart ==
  ASSUME AssemblerInv, Assembling, AllPlain, NEW k \in 1 .. Len(lines), NEW j \in 1 .. Len(lines),
         IsOperation(k), lines[j].statement.kind \in {"data", "text"}
  PROVE  starts[k] + 8 <= starts[j] \/ starts[j] + 8 <= starts[k]
<1>1. /\ Len(lines) \in Nat /\ starts[k] \in Nat /\ starts[j] \in Nat
      /\ EndOf(lines, starts, k) = starts[k] + 8 /\ EndOf(lines, starts, j) >= starts[j] + 8
  BY LineLength DEF IsOperation
<1>2. k # j
  BY DEF IsOperation
<1>3. \A a, b \in 1 .. Len(lines) : a < b => EndOf(lines, starts, a) <= starts[b]
  BY DEF AssemblerInv, Counted
<1>4. EndOf(lines, starts, j) \in Nat
  BY <1>1, LinesType DEF EndOf, AssemblerInv, TypeInv
<1>5. CASE k < j
  <2>1. EndOf(lines, starts, k) <= starts[j]
    BY <1>3, <1>5
  <2> QED
    BY <1>1, <2>1
<1>6. CASE j < k
  <2>1. EndOf(lines, starts, j) <= starts[k]
    BY <1>3, <1>6
  <2> QED
    BY <1>1, <1>4, <2>1
<1> QED
  BY <1>2, <1>5, <1>6

(* The registers that the program returns by.                              *)
LEMMA LinkRegisters ==
  ASSUME Structured, NEW r \in Links
  PROVE  r \in RegisterId /\ r \notin {0, 2, PC}
<1>1. PICK k \in DOMAIN lines : Returns(k) /\ r = Register(k, 2)
  BY DEF Links
<1>2. NamesRegister(k, 2) /\ Register(k, 2) \notin {0, 2}
  BY <1>1 DEF Structured, Careful, Returns
<1>3. r \in 0 .. REGISTERS_END
  BY <1>1, <1>2, DebuggerAssumption DEF NamesRegister, Register
<1> QED
  BY <1>1, <1>2, <1>3, AluAssumption DEF RegisterId

(* It is launched at an instruction. *)
LEMMA LaunchPlaces ==
  ASSUME EInv, Launch
  PROVE  CodeInv'
<1>1. /\ AssemblerInv /\ Assembling
      /\ lines' = lines /\ starts' = starts /\ table' = table /\ image' = image /\ options' = options
      /\ mem' = BytesOf(image) /\ reg' = Started /\ debug' = ("d" \in options)
  BY DEF EInv, Launch, assemblerVars, Assembling
<1>2. /\ Structured' = Structured /\ Links' = Links
      /\ \A a : AtCode(a)' = AtCode(a)
      /\ \A r, v : LinkOf(r, v)' = LinkOf(r, v)
      /\ \A k : IsOperation(k)' = IsOperation(k)
  BY <1>1, StructureKept
<1> SUFFICES ASSUME Structured
             PROVE  /\ AtCode(Started[PC])
                    /\ \A k \in DOMAIN lines : IsOperation(k) => starts[k] + 1 * 8 <= MAXMEMORY
                    /\ \A r \in Links : LinkOf(r, Started[r])
  <2>1. BytesOf(image)' = BytesOf(image)
    BY <1>1 DEF BytesOf
  <2>2. \A k \in DOMAIN lines : IsOperation(k) /\ starts[k] + 1 * 8 <= MAXMEMORY => Untouched(k, 1)'
    BY <1>1, <2>1 DEF Untouched
  <2>3. AtCode(Started[PC]) => AtCode(reg[PC])'
    BY <1>1, <1>2
  <2>4. \A r \in Links : LinkOf(r, Started[r]) => LinkOf(r, reg[r])'
    BY <1>1, StructureKept DEF LinkOf
  <2>5. DOMAIN lines' = DOMAIN lines
    BY <1>1
  <2> QED
    BY <1>1, <1>2, <2>2, <2>3, <2>4, <2>5 DEF CodeInv
<1>3. Started[PC] = 0
  BY RegisterNumbers, AluAssumption DEF Started
<1>4. ASSUME NEW k \in DOMAIN lines, IsOperation(k) PROVE starts[k] + 1 * 8 <= MAXMEMORY
  <2>1. Careful(k)
    BY <1>4 DEF Structured
  <2>2. starts[k] + 8 <= MAXMEMORY
    BY <2>1 DEF Careful, INSTRUCTION_LENGTH
  <2> QED
    BY <2>2
<1>5. ASSUME NEW r \in Links PROVE LinkOf(r, Started[r])
  BY LinkRegisters DEF Started, LinkOf
<1> QED
  BY <1>1, <1>3, <1>4, <1>5, FirstPlace

(* A step that touches neither registers nor memory leaves it there.       *)
LEMMA IdlePlaces ==
  ASSUME CodeInv, UNCHANGED <<stage, options, assemblerVars, reg, mem, debug>>, InForce' => InForce
  PROVE  CodeInv'
<1>1. /\ lines' = lines /\ starts' = starts /\ table' = table /\ image' = image
      /\ stage' = stage /\ options' = options /\ reg' = reg /\ mem' = mem /\ debug' = debug
  BY DEF assemblerVars
<1>2. /\ Structured' = Structured /\ Links' = Links
      /\ \A a : AtCode(a)' = AtCode(a)
      /\ \A r, v : LinkOf(r, v)' = LinkOf(r, v)
      /\ \A k : IsOperation(k)' = IsOperation(k)
  BY <1>1, StructureKept
<1>3. \A k : Untouched(k, 1)' = Untouched(k, 1)
  BY <1>1 DEF Untouched, BytesOf
<1> QED
  BY <1>1, <1>2, <1>3 DEF CodeInv

(* A turn is made at a line of which care is taken, and executes what that *)
(* line says.                                                              *)
LEMMA TurnPlace ==
  ASSUME EInv, CodeInv, stage = "running", Structured, MachineTurn
  PROVE  \E k \in 1 .. Len(lines) : AtLine(k) /\ IsOperation(k) /\ Careful(k)
<1>1. mode = "running" /\ steps < budget /\ InForce
  BY DEF MachineTurn, TurnsLeft, InForce
<1>2. PICK k \in DOMAIN lines : IsOperation(k) /\ reg[PC] = starts[k]
  BY <1>1 DEF CodeInv, AtCode
<1>3. Untouched(k, 1) /\ AllPlain /\ Careful(k)
  BY <1>2 DEF CodeInv, Structured
<1>4. k \in 1 .. Len(lines)
  BY <1>2, LinesType DEF EInv, AssemblerInv, TypeInv
<1> QED
  BY <1>1, <1>2, <1>3, <1>4 DEF AtLine, IsOperation

LEMMA TurnWord ==
  ASSUME EInv, NEW k \in 1 .. Len(lines), AtLine(k), IsOperation(k), Careful(k)
  PROVE  LET name == NameOf(k)
         IN  /\ AssemblerInv /\ Assembling /\ phase = "done" /\ AllPlain /\ k \in 1 .. at - 1
             /\ Shaped /\ starts[k] \in Nat /\ starts[k] < MAXMEMORY
             /\ (starts[k] + 8) % LONG = starts[k] + 8
             /\ Fetched = Decode(image[starts[k] \div INSTRUCTION_LENGTH])
             /\ name \notin Translated \cup {"SLLIW"} => Fetched.op = name
             /\ name \in Translated \cup {"SLLIW"} =>
                  Fetched.op \in {"ADD", "ADDI", "XORI", "SUB", "SUBW", "SRAI"}
             /\ name \notin {"PRINT", "NOP", "HALT"} => Fetched.a = Destination(k)
             /\ name = "NOP" => Fetched.a = 0
             /\ name \in Stores \cup {"JALR"} => Fetched.b = Resolved(OperandsOf(k)[2], table).id
             /\ name = "JALR" => Fetched.c = Wrapped(Resolved(OperandsOf(k)[3], table).value, INT)
<1>1. AssemblerInv /\ InReach /\ phase = "done" /\ Assembling /\ AllPlain /\ at = Len(lines) + 1
      /\ Shaped /\ Len(lines) \in Nat
  BY LinesType DEF EInv, ProgramLoaded, InReach, AtLine, Assembling, DInv, DebugTypeOK, AssemblerInv, TypeInv
<1>2. k \in 1 .. at - 1
  BY <1>1
<1>3. /\ starts[k] \in Nat /\ starts[k] < MAXMEMORY /\ (starts[k] + 8) % LONG = starts[k] + 8
      /\ Fetched = Decode(image[starts[k] \div INSTRUCTION_LENGTH])
  BY <1>1, FetchedLine
<1>4. PICK o : Holds(k, o)
  BY <1>1, <1>2, <1>3, WordOfLine DEF IsOperation
<1>5. lines[k].statement.name \in Mnemonics
  BY DEF Careful, NameOf
<1> QED
  BY <1>1, <1>2, <1>3, <1>4, <1>5, LineOperands DEF NameOf, OperandsOf, Destination, IsOperation

(* A store, or a number that is typed, goes to the word a line of data     *)
(* begins with; other instructions write nothing.                          *)
LEMMA StoresToData ==
  ASSUME EInv, NEW k \in 1 .. Len(lines), AtLine(k), IsOperation(k), Careful(k), OneTurn
  PROVE  \/ Span(Fetched) = {}
         \/ \E j \in 1 .. Len(lines) :
              /\ lines[j].statement.kind \in {"data", "text"} /\ starts[j] \in Nat
              /\ Span(Fetched) \subseteq starts[j] .. starts[j] + 7
<1> DEFINE name == NameOf(k)
           i == Fetched
<1>1. /\ AssemblerInv /\ Assembling /\ phase = "done" /\ AllPlain /\ k \in 1 .. at - 1
      /\ Shaped /\ starts[k] < MAXMEMORY
      /\ i = Decode(image[starts[k] \div INSTRUCTION_LENGTH])
      /\ name \notin Translated \cup {"SLLIW"} => i.op = name
      /\ name \in Translated \cup {"SLLIW"} => i.op \in {"ADD", "ADDI", "XORI", "SUB", "SUBW", "SRAI"}
      /\ name \notin {"PRINT", "NOP", "HALT"} => i.a = Resolved(OperandsOf(k)[1], table).id
      /\ name \in Stores \cup {"JALR"} => i.b = Resolved(OperandsOf(k)[2], table).id
  BY TurnWord DEF Destination
<1>2. /\ name \in Mnemonics \ {"INPUTS"}
      /\ name \in Stores \cup Inputs => LabelHasData(k)
  BY DEF Careful
<1>3. IsInstruction(i)
  BY <1>1, FetchedType
<1>4. name # "SH"
  BY <1>2 DEF Mnemonics
<1> SUFFICES ASSUME i.op \in Stores \cup Inputs
             PROVE  \E j \in 1 .. Len(lines) :
                      /\ lines[j].statement.kind \in {"data", "text"} /\ starts[j] \in Nat
                      /\ Span(i) \subseteq starts[j] .. starts[j] + 7
  <2>1. i.op \notin Stores \cup Inputs => Span(i) = {}
    BY Groups DEF Span
  <2> QED
    BY <2>1
<1>5. i.op = name /\ name \in Stores \cup Inputs
  BY <1>1, Groups
<1>6. NamesLabel(k) /\ name \in Addressing
  BY <1>2, <1>4, <1>5 DEF LabelHasData, Addressing
<1>7. PICK j \in DOMAIN lines : Refers(Target(k).name, j) /\ i.c % LONG = starts[j]
  BY <1>1, <1>6, LabelReached DEF IsOperation
<1>8. /\ lines[j].statement.kind \in {"data", "text"} /\ j \in 1 .. Len(lines) /\ starts[j] \in Nat
  <2>1. j \in 1 .. Len(lines)
    BY <1>1, LinesType DEF AssemblerInv, TypeInv
  <2>2. starts[j] \in Nat
    BY <1>1, <2>1, LineLength
  <2> QED
    BY <1>2, <1>5, <1>7, <2>1, <2>2 DEF LabelHasData
<1>9. Resolved(Target(k), table).id = 0
  BY <1>6 DEF NamesLabel, Resolved
<1>10. reg[IF Layout(i.op) = "U" THEN i.a ELSE i.b] = 0
  <2>1. reg[0] = 0
    BY DEF EInv, ZeroIsZero
  <2>2. CASE i.op \in Stores
    <3>1. Needs(name) = 2
      BY <1>5, <2>2, Groups DEF Needs
    <3>2. Layout(i.op) = "I"
      BY <2>2, Layouts
    <3>3. i.b = 0
      BY <1>1, <1>5, <1>9, <2>2, <3>1 DEF Target
    <3> QED
      BY <2>1, <3>2, <3>3
  <2>3. CASE i.op \in Inputs
    <3>1. Needs(name) = 1 /\ name \notin {"PRINT", "NOP", "HALT"}
      BY <1>5, <2>3, Groups DEF Needs
    <3>2. Layout(i.op) = "U"
      BY <2>3, Layouts
    <3>3. i.a = 0
      BY <1>1, <1>9, <3>1 DEF Target
    <3> QED
      BY <2>1, <3>2, <3>3
  <2> QED
    BY <2>2, <2>3
<1>11. i.c \in Int
  BY <1>3 DEF IsInstruction
<1> HIDE DEF i, name
<1>12. Location(i) = starts[j]
  BY <1>7, <1>10, <1>11 DEF Location
<1>13. i.op \in {"SB", "SW", "SD", "INPUTI", "INPUTB", "INPUTF"}
  BY <1>2, <1>4, <1>5, Groups
<1>14. Span(i) \subseteq starts[j] .. starts[j] + 7
  <2>1. CASE i.op \in {"SB", "SW", "SD"}
    <3>1. AccessSize[i.op] \in {1, 4, 8}
      BY <2>1 DEF AccessSize
    <3>2. Span(i) = starts[j] .. starts[j] + AccessSize[i.op] - 1
      BY <1>12, <2>1, Groups DEF Span
    <3> QED
      BY <1>8, <3>1, <3>2
  <2>2. CASE i.op = "INPUTB"
    <3>1. Span(i) = {starts[j]}
      BY <1>12, <2>2, Groups DEF Span
    <3> QED
      BY <1>8, <3>1
  <2>3. CASE i.op \in {"INPUTI", "INPUTF"}
    <3>1. Span(i) = starts[j] .. starts[j] + 7
      BY <1>12, <2>3, Groups DEF Span
    <3> QED
      BY <1>8, <3>1
  <2> QED
    BY <1>13, <2>1, <2>2, <2>3
<1> QED
  BY <1>8, <1>14 DEF i

(* So the instructions stay as they were assembled.                        *)
LEMMA CodeStays ==
  ASSUME EInv, NEW k \in 1 .. Len(lines), AtLine(k), IsOperation(k), Careful(k), OneTurn,
         UNCHANGED <<lines, starts, image>>,
         NEW m \in 1 .. Len(lines), IsOperation(m), Untouched(m, 1)
  PROVE  Untouched(m, 1)'
<1>1. /\ AssemblerInv /\ Assembling /\ AllPlain /\ Shaped
  BY TurnWord
<1>2. starts[m] \in Nat
  BY <1>1, LineLength
<1>3. MAXMEMORY \in Nat /\ starts[m] + 1 * 8 <= MAXMEMORY
      /\ \A c \in starts[m] .. starts[m] + 1 * 8 - 1 : mem[c] = BytesOf(image)[c]
  BY PlatformAssumption DEF Untouched
<1>4. \A c \in Cell : mem'[c] # mem[c] => c \in Span(Fetched)
  BY <1>1, OneTurnKeeps DEF ShapeKept
<1>5. ASSUME NEW c \in starts[m] .. starts[m] + 1 * 8 - 1
      PROVE  mem'[c] = mem[c]
  <2>1. c \in Cell
    BY <1>2, <1>3, <1>5 DEF Cell
  <2>2. CASE Span(Fetched) = {}
    BY <1>4, <2>1, <2>2
  <2>3. ASSUME NEW j \in 1 .. Len(lines), lines[j].statement.kind \in {"data", "text"}, starts[j] \in Nat,
               Span(Fetched) \subseteq starts[j] .. starts[j] + 7
        PROVE  mem'[c] = mem[c]
    <3>1. starts[m] + 8 <= starts[j] \/ starts[j] + 8 <= starts[m]
      BY <1>1, <2>3, LinesApart
    <3>2. c \notin starts[j] .. starts[j] + 7
      BY <1>2, <1>5, <2>3, <3>1
    <3> QED
      BY <1>4, <2>1, <2>3, <3>2
  <2> QED
    BY <2>2, <2>3, StoresToData
<1> QED
  BY <1>3, <1>5 DEF Untouched, BytesOf

(* The registers to return by are written by calls alone.                  *)
LEMMA LinksStay ==
  ASSUME EInv, Structured, NEW k \in 1 .. Len(lines), AtLine(k), IsOperation(k), Careful(k), OneTurn,
         NEW r \in Links, LinkOf(r, reg[r])
  PROVE  LinkOf(r, reg'[r])
<1> DEFINE name == NameOf(k)
           i == Fetched
<1>1. /\ Shaped /\ (starts[k] + 8) % LONG = starts[k] + 8 /\ reg[PC] = starts[k]
      /\ name \notin Translated \cup {"SLLIW"} => i.op = name
      /\ name \notin {"PRINT", "NOP", "HALT"} => i.a = Destination(k)
      /\ name = "NOP" => i.a = 0
  BY TurnWord DEF AtLine
<1>2. r \in RegisterId /\ r \notin {0, 2, PC}
  BY LinkRegisters
<1> SUFFICES ASSUME reg'[r] # reg[r] PROVE LinkOf(r, reg'[r])
  OBVIOUS
<1>3. r = i.a /\ WritesA(i.op)
  BY <1>1, <1>2, OneRegister
<1>4. WritesRegister(k)
  <2>1. name \in Branches \cup Stores \cup Inputs \cup {"PRINT", "DEBUG", "HALT"} =>
          name \notin Translated \cup {"SLLIW"}
    BY Groups
  <2>2. name \notin Branches \cup Stores \cup Inputs \cup {"PRINT", "DEBUG", "HALT"}
    BY <1>1, <1>3, <2>1 DEF WritesA
  <2>3. name # "NOP"
    BY <1>1, <1>2, <1>3
  <2> QED
    BY <2>2, <2>3 DEF WritesRegister
<1>5. Destination(k) = r
  BY <1>1, <1>3, <1>4 DEF WritesRegister
<1>6. name = "JAL"
  BY <1>4, <1>5 DEF Careful
<1>7. i.op = "JAL"
  BY <1>1, <1>6, Groups
<1>8. reg' # reg
  OBVIOUS
<1>9. reg'[r] = starts[k] + 8
  BY <1>1, <1>2, <1>3, <1>7, <1>8, TurnJumps DEF pc, INSTRUCTION_LENGTH
<1>10. Calls(k, r) /\ k \in DOMAIN lines
  <2>1. k \in DOMAIN lines
    BY LinesType DEF EInv, AssemblerInv, TypeInv
  <2> QED
    BY <1>5, <1>6, <2>1 DEF Calls
<1> QED
  BY <1>9, <1>10 DEF LinkOf

(* Where a return goes. *)
LEMMA ReturnGoes ==
  ASSUME EInv, Structured, NEW k \in 1 .. Len(lines), AtLine(k), IsOperation(k), Careful(k), OneTurn,
         reg' # reg, NameOf(k) = "JALR", LinkOf(Register(k, 2), reg[Register(k, 2)])
  PROVE  Register(k, 2) \in Links /\ reg'[PC] = reg[Register(k, 2)] /\ AtCode(reg'[PC])
<1> DEFINE r == Register(k, 2)
           i == Fetched
<1>1. /\ Shaped /\ AssemblerInv /\ Assembling
      /\ i.op = "JALR" /\ i.a = Destination(k)
      /\ i.b = Resolved(OperandsOf(k)[2], table).id
      /\ i.c = Wrapped(Resolved(OperandsOf(k)[3], table).value, INT)
  BY TurnWord, Groups
<1>2. NamesRegister(k, 2) /\ OperandsOf(k)[3] = Immediately(0)
  BY DEF Careful
<1>3. i.b = r
  BY <1>1, <1>2, NamedRegister
<1>4. r \in Links /\ k \in DOMAIN lines
  <2>1. k \in DOMAIN lines
    BY LinesType DEF EInv, AssemblerInv, TypeInv
  <2> QED
    BY <2>1 DEF Links, Returns
<1>5. r \in RegisterId /\ r \notin {0, 2, PC}
  BY <1>4, LinkRegisters
<1>6. i.a # r
  <2>1. WritesRegister(k)
    BY Groups DEF WritesRegister
  <2> QED
    BY <1>1, <1>4, <2>1 DEF Careful
<1>7. Immediate(i.c) = 0
  <2>1. Resolved(OperandsOf(k)[3], table).value = 0
    BY <1>2 DEF Resolved, Immediately
  <2>2. Wrapped(0, INT) = 0
    <3>1. INT \in Nat /\ INT > 0 /\ INT = 2 * (INT \div 2) /\ INT \div 2 \in Nat
      BY Evens
    <3>2. 0 \in - (INT \div 2) .. (INT \div 2) - 1
      BY <3>1
    <3> QED
      BY <3>2, WrappedSame
  <2>3. i.c = 0
    BY <1>1, <2>1, <2>2
  <2> HIDE DEF i
  <2>4. Write(0, Values(4), 0) = 0 % Values(4) /\ Values(4) = INT /\ 0 % INT = 0
    <3>1. 4 \in Widths /\ Values(4) = INT
      BY DEF Widths, Values
    <3>2. INT \in Int /\ INT > 0
      BY Sizes
    <3>3. 0 % INT = 0
      BY <3>2
    <3>4. Write(0, Values(4), 0) = 0 % Values(4)
      BY <3>1, WriteToZero
    <3> QED
      BY <3>1, <3>3, <3>4
  <2> QED
    BY <2>3, <2>4 DEF Immediate
<1>8. reg[r] \in Word
  BY <1>1, <1>5, ShapedParts
<1>9. reg'[PC] = (reg[r] + 0) % LONG
  BY <1>1, <1>3, <1>5, <1>6, <1>7, TurnJumps
<1>10. reg'[PC] = reg[r]
  BY <1>8, <1>9, WordParts
<1>11. CASE reg[r] = 0
  BY <1>1, <1>4, <1>10, <1>11, FirstPlace
<1>12. CASE \E c \in DOMAIN lines : Calls(c, r) /\ reg[r] = starts[c] + 8
  <2>1. PICK c \in DOMAIN lines : Calls(c, r) /\ reg[r] = starts[c] + 8
    BY <1>12
  <2>2. c \in 1 .. Len(lines) /\ IsOperation(c) /\ Careful(c) /\ NameOf(c) = "JAL" /\ Destination(c) = r
    <3>1. c \in 1 .. Len(lines)
      BY LinesType DEF EInv, AssemblerInv, TypeInv
    <3> QED
      BY <2>1, <3>1 DEF Calls, Structured
  <2>3. WritesRegister(c)
    BY <2>2, Groups DEF WritesRegister
  <2>4. Leads(c + 1)
    BY <1>4, <2>2, <2>3 DEF Careful
  <2> QED
    BY <1>1, <1>4, <1>10, <2>1, <2>2, <2>4, NextPlace
<1> QED
  BY <1>11, <1>12 DEF LinkOf

(* The next instruction is one of the source, while there is to be one.    *)
LEMMA CounterStays ==
  ASSUME EInv, Structured, NEW k \in 1 .. Len(lines), AtLine(k), IsOperation(k), Careful(k), OneTurn,
         debug = ("d" \in options), \A r \in Links : LinkOf(r, reg[r]),
         mode' = "running" \/ (mode' = "halted" /\ debug)
  PROVE  AtCode(reg'[PC])
<1> DEFINE name == NameOf(k)
           i == Fetched
<1>1. /\ AssemblerInv /\ Assembling /\ phase = "done" /\ AllPlain /\ k \in 1 .. at - 1
      /\ Shaped /\ starts[k] < MAXMEMORY
      /\ (starts[k] + 8) % LONG = starts[k] + 8
      /\ i = Decode(image[starts[k] \div INSTRUCTION_LENGTH])
      /\ name \notin Translated \cup {"SLLIW"} => i.op = name
      /\ name \in Translated \cup {"SLLIW"} => i.op \in {"ADD", "ADDI", "XORI", "SUB", "SUBW", "SRAI"}
      /\ reg[PC] = starts[k]
  BY TurnWord DEF AtLine
<1>2. k \in DOMAIN lines /\ AtCode(reg[PC])
  <2>1. k \in DOMAIN lines
    BY LinesType DEF EInv, AssemblerInv, TypeInv
  <2> QED
    BY <1>1, <2>1 DEF AtCode
<1> SUFFICES ASSUME reg' # reg PROVE AtCode(reg'[PC])
  BY <1>2
<1>3. Moves(i)
  BY <1>1, TurnMoves
<1>4. CASE name = "JALR"
  <2>1. Register(k, 2) \in Links
    BY <1>2, <1>4 DEF Links, Returns
  <2> QED
    BY <1>4, <2>1, ReturnGoes
<1>5. ASSUME name \in Branches \cup {"JAL"} PROVE AtCode(i.c % LONG)
  <2>1. LabelLeads(k) /\ NamesLabel(k) /\ name \in Addressing
    BY <1>5 DEF Careful, LabelLeads, Addressing
  <2>2. PICK j \in DOMAIN lines : Refers(Target(k).name, j) /\ i.c % LONG = starts[j]
    BY <1>1, <2>1, LabelReached DEF IsOperation
  <2>3. j \in Nat \ {0} /\ Leads(j)
    BY <2>1, <2>2, LinesType DEF LabelLeads, EInv, AssemblerInv, TypeInv
  <2> QED
    BY <1>1, <2>2, <2>3, LeadsThere
<1>6. ASSUME name \notin {"JAL", "JALR"} PROVE AtCode(starts[k] + 8)
  <2>1. name = "HALT" => "d" \in options
    <3> SUFFICES ASSUME name = "HALT" PROVE "d" \in options
      OBVIOUS
    <3>1. i.op = "HALT" /\ i.op # "none"
      BY <1>1, Groups
    <3>2. ~ Throws(i) /\ Execute(i)
      BY TurnExecutes
    <3> HIDE DEF i
    <3>3. Halt(i)
      BY <3>1, <3>2, Groups DEF Execute, Arithmetic, ArithmeticImmediate, Trap, JumpRegister, Jump, Branch,
            Load, Store, Upper, Printing, Debug, InputString, InputNumber, InputBool
    <3>4. mode' = "halted"
      BY <3>3 DEF Halt
    <3>5. debug
      BY <3>4
    <3> QED
      BY <3>5
  <2>2. Leads(k + 1)
    BY <1>6, <2>1 DEF Careful
  <2> QED
    BY <1>1, <2>2, NextPlace
<1>7. /\ name \notin Branches \cup {"JAL", "JALR"} => i.op \notin Branches \cup {"JAL", "JALR"}
      /\ name \in Branches \cup {"JAL"} => i.op = name
      /\ "JAL" \notin Branches /\ "JALR" \notin Branches
  BY <1>1, Groups
<1> HIDE DEF i, name
<1>8. CASE name = "JAL"
  BY <1>3, <1>5, <1>7, <1>8 DEF Moves
<1>9. CASE name \in Branches
  <2>1. i.op \in Branches /\ name \notin {"JAL", "JALR"}
    BY <1>7, <1>9
  <2>2. reg'[PC] = i.c % LONG \/ reg'[PC] = (reg[PC] + 8) % LONG
    BY <1>3, <2>1 DEF Moves
  <2> QED
    BY <1>1, <1>5, <1>6, <1>9, <2>1, <2>2
<1>10. CASE name \notin Branches \cup {"JAL", "JALR"}
  <2>1. reg'[PC] = (reg[PC] + 8) % LONG
    BY <1>3, <1>7, <1>10 DEF Moves
  <2> QED
    BY <1>1, <1>6, <1>10, <2>1
<1> QED
  BY <1>4, <1>8, <1>9, <1>10

(* A turn leaves the program at an instruction of it.                      *)
LEMMA TurnPlaces ==
  ASSUME EInv, CodeInv, stage = "running", MachineTurn, UNCHANGED <<stage, options, assemblerVars>>
  PROVE  CodeInv'
<1>1. /\ lines' = lines /\ starts' = starts /\ table' = table /\ image' = image
      /\ options' = options /\ debug' = debug
  BY DEF MachineTurn, assemblerVars
<1>2. /\ Structured' = Structured /\ Links' = Links
      /\ \A a : AtCode(a)' = AtCode(a)
      /\ \A r, v : LinkOf(r, v)' = LinkOf(r, v)
      /\ \A k : IsOperation(k)' = IsOperation(k)
  BY <1>1, StructureKept
<1> SUFFICES ASSUME Structured
             PROVE  /\ debug' = ("d" \in options)
                    /\ InForce' => AtCode(reg'[PC])
                    /\ \A m \in DOMAIN lines : IsOperation(m) => Untouched(m, 1)'
                    /\ \A r \in Links : LinkOf(r, reg'[r])
  <2>1. AtCode(reg[PC])' = AtCode(reg'[PC])
    BY <1>1, <1>2 DEF AtCode
  <2>2. \A r \in Links : LinkOf(r, reg[r])' = LinkOf(r, reg'[r])
    BY <1>1, StructureKept DEF LinkOf
  <2> QED
    BY <1>1, <1>2, <2>1, <2>2 DEF CodeInv
<1>3. /\ debug = ("d" \in options)
      /\ \A m \in DOMAIN lines : IsOperation(m) => Untouched(m, 1)
      /\ \A r \in Links : LinkOf(r, reg[r])
  BY DEF CodeInv
<1>4. PICK k \in 1 .. Len(lines) : AtLine(k) /\ IsOperation(k) /\ Careful(k)
  BY TurnPlace
<1>5. OneTurn /\ mode = "running" /\ Shaped
  BY DEF MachineTurn, EInv, DInv, DebugTypeOK
<1>6. InForce' => mode' = "running" \/ (mode' = "halted" /\ debug)
  <2>1. mode' \in {"running", "halted", "threw", "killed"}
    BY <1>5, OneTurnKeeps DEF ShapeKept
  <2> QED
    BY <1>1, <2>1 DEF InForce
<1>7. InForce' => AtCode(reg'[PC])
  BY <1>3, <1>4, <1>5, <1>6, CounterStays
<1>8. ASSUME NEW m \in DOMAIN lines, IsOperation(m) PROVE Untouched(m, 1)'
  <2>1. m \in 1 .. Len(lines)
    BY LinesType DEF EInv, AssemblerInv, TypeInv
  <2> QED
    BY <1>1, <1>3, <1>4, <1>5, <1>8, <2>1, CodeStays
<1>9. ASSUME NEW r \in Links PROVE LinkOf(r, reg'[r])
  BY <1>3, <1>4, <1>5, LinksStay
<1> QED
  BY <1>1, <1>3, <1>7, <1>8, <1>9

LEMMA CodeKept ==
  ASSUME EInv, CodeInv, [EngineNext]_engineVars
  PROVE  CodeInv'
<1>1. CASE UNCHANGED engineVars
  BY <1>1, IdlePlaces DEF engineVars, debugVars, vars, dialog, InForce
<1>2. CASE Inform \/ CallStart \/ Assemble \/ AssemblyAborts \/ Return \/ RunAborts
  BY <1>2 DEF Inform, CallStart, Assemble, AssemblyAborts, Return, RunAborts, CodeInv
<1>3. CASE Launch
  BY <1>3, LaunchPlaces
<1>4. CASE Run
  <2>1. stage = "running" /\ UNCHANGED <<stage, options, assemblerVars>>
    BY <1>4 DEF Run
  <2>2. CASE MachineTurn
    BY <2>1, <2>2, TurnPlaces
  <2>3. CASE Warn \/ Open \/ Command
    <3>1. UNCHANGED <<reg, mem, debug>> /\ (InForce' => InForce)
      BY <2>3 DEF Warn, Open, Command, dialog, InForce
    <3> QED
      BY <2>1, <3>1, IdlePlaces
  <2> QED
    BY <1>4, <2>2, <2>3 DEF Run, DebugNext
<1> QED
  BY <1>1, <1>2, <1>3, <1>4 DEF EngineNext

(* It holds of every run. *)
THEOREM CodeInvariantHolds == EngineSpec => []CodeInv
<1>1. EngineInit => CodeInv
  BY DEF EngineInit, CodeInv
<1>2. EInv /\ CodeInv /\ [EngineNext]_engineVars => CodeInv'
  BY CodeKept
<1> QED
  BY <1>1, <1>2, EngineInvariantHolds, PTL DEF EngineSpec

(* The word of an instruction that is in place.                            *)
LEMMA LineRuns ==
  ASSUME AssemblerInv, InReach, phase = "done", AllPlain, NEW k \in 1 .. Len(lines),
         IsOperation(k), Untouched(k, 1)
  PROVE  <<Loaded(mem, starts[k], INSTRUCTION_LENGTH)>> \in WordsOf(lines[k].statement, table)
<1> DEFINE s == lines[k].statement
           q == starts[k] \div 8
<1>1. Assembling /\ Len(lines) \in Nat /\ k \in 1 .. at - 1
  BY LinesType DEF Assembling, InReach, AssemblerInv, TypeInv
<1>2. 0 \in 0 .. 1 - 1 /\ 1 \in Nat
  OBVIOUS
<1>3. starts[k] \in Nat /\ q + 0 \in Slot
  BY <1>1, <1>2, LinePlace
<1>4. Loaded(mem, starts[k] + 0 * 8, 8) = image[q + 0]
  BY <1>1, <1>2, WordLoaded
<1>5. starts[k] + 0 * 8 = starts[k] /\ q + 0 = q /\ q + (1 - 1) = q
  BY <1>3
<1>6. PICK words \in WordsOf(s, table) :
        \A j \in DOMAIN words :
          LET c == starts[k] \div INSTRUCTION_LENGTH + (j - 1)
          IN  c \in Slot => image[c] = words[j]
  BY <1>1 DEF AssemblerInv, Filled, ImageInPlace
<1>7. \E w : words = <<w>>
  BY <1>6 DEF WordsOf, IsOperation
<1> HIDE DEF s, q
<1>8. PICK w : words = <<w>>
  BY <1>7
<1>9. 1 \in DOMAIN words /\ words[1] = w
  BY <1>8
<1>10. image[q] = w
  BY <1>3, <1>5, <1>6, <1>9 DEF q, INSTRUCTION_LENGTH
<1> QED
  BY <1>4, <1>5, <1>6, <1>8, <1>10 DEF s, INSTRUCTION_LENGTH

(* Of a program of which that care is taken, whatever it computes and      *)
(* whatever is typed, with the debugger or without, nothing is ever        *)
(* executed but its own lines: not their data, not what a store has left,  *)
(* not the memory behind them.                                             *)
THEOREM OnlyLinesAlwaysRun == EngineSpec => []OnlyLinesRun
<1>1. ASSUME EInv, CodeInv PROVE OnlyLinesRun
  <2> SUFFICES ASSUME stage = "running", mode = "running", Structured
               PROVE  \E k \in DOMAIN lines :
                        /\ IsOperation(k) /\ pc = starts[k]
                        /\ <<Loaded(mem, pc, INSTRUCTION_LENGTH)>> \in WordsOf(lines[k].statement, table)
    BY DEF OnlyLinesRun
  <2>1. PICK k \in DOMAIN lines : IsOperation(k) /\ reg[PC] = starts[k]
    BY <1>1 DEF CodeInv, InForce, AtCode
  <2>2. k \in 1 .. Len(lines) /\ AllPlain /\ Untouched(k, 1)
    BY <1>1, <2>1, LinesType DEF CodeInv, Structured, EInv, AssemblerInv, TypeInv
  <2>3. <<Loaded(mem, starts[k], INSTRUCTION_LENGTH)>> \in WordsOf(lines[k].statement, table)
    BY <1>1, <2>1, <2>2, LineRuns DEF EInv, ProgramLoaded
  <2> QED
    BY <2>1, <2>3 DEF pc
<1>2. EInv /\ CodeInv => OnlyLinesRun
  BY <1>1
<1> QED
  BY <1>2, EngineInvariantHolds, CodeInvariantHolds, PTL

(* And every return of such a program is to the line behind a call that    *)
(* wrote the register it returns by, or to the start before there was one. *)
THEOREM CallsAlwaysReturn == EngineSpec => CallsReturn
<1>1. ASSUME EInv, CodeInv, [EngineNext]_engineVars, NEW k \in DOMAIN lines, AtLine(k), reg' # reg,
             Returns(k), Structured, reg[Register(k, 2)] # 0
      PROVE  \E c \in DOMAIN lines :
               Calls(c, Register(k, 2)) /\ reg'[PC] = starts[c] + INSTRUCTION_LENGTH
  <2> DEFINE r == Register(k, 2)
  <2>1. k \in 1 .. Len(lines) /\ OneTurn
    BY <1>1, LineTurn
  <2>2. IsOperation(k) /\ NameOf(k) = "JALR" /\ Careful(k) /\ r \in Links
    BY <1>1 DEF Returns, Structured, Links
  <2>3. LinkOf(r, reg[r])
    BY <1>1, <2>2 DEF CodeInv, AtLine
  <2>4. reg'[PC] = reg[r]
    BY <1>1, <2>1, <2>2, <2>3, ReturnGoes
  <2> QED
    BY <1>1, <2>3, <2>4 DEF LinkOf, INSTRUCTION_LENGTH
<1>2. EInv /\ CodeInv /\ [EngineNext]_engineVars =>
        [\A k \in DOMAIN lines :
           (AtLine(k) /\ reg' # reg /\ Returns(k) /\ Structured /\ reg[Register(k, 2)] # 0)
             => \E c \in DOMAIN lines :
                  Calls(c, Register(k, 2)) /\ reg'[PC] = starts[c] + INSTRUCTION_LENGTH]_engineVars
  BY <1>1
<1> QED
  BY <1>2, EngineInvariantHolds, CodeInvariantHolds, PTL DEF EngineSpec, CallsReturn
=============================================================================
