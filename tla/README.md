# Verification of the RISC-V engine

This directory holds TLA+ models of the program in `src/`, an assembler and
interpreter for a RISC-V-like machine: TLC configurations that check the models
on small instances, and proofs that TLAPS checks for every size. Every
definition is translated from the code; a comment names the function it stands
for, and `PROJECT.json` maps each to its lines.

## The system

`cli` parses options and calls `start`, which reads a file, assembles it into
the memory of an `alu`, sets the registers up and runs the loop.

| part | state | operations | uses |
|---|---|---|---|
| memory (`memory.hpp/.cpp/.t.hpp`) | 500 page pointers, each null or a page with its base address and bytes | `read<T>`, `write<T>`, `readByte`, `writeByte`, `stringFromMemory` | - |
| registers (`registers.*`) | 65 registers and the counter, each 8 bytes; whether it is mutable | `read<T>`, `write<T>`, `getRegister`, packing and unpacking of instructions | - |
| alu (`alu.*`) | registers, memory, a pointer to the symbol table | `step`, `loop` | memory, registers, standard input and output |
| assembler (`assemble.*`) | source text, symbol table | `Program::firstStep`, `Program::toMemory`, `Instruction::getInstruction` | symbol table, memory, registers (to pack words) |
| symbol table (`symbol.hpp`, `assemble.cpp`) | map from names to addresses | `insert`, `find` | - |
| debugger (`debugDialog` in `alu.cpp`) | the command word of each dialog; the count of each nested `loop` | `readReg`, `readMem`, `readInst`, `table`, `help`; `step`, `stepCount`, `continue`, `exit` | alu, symbol table, the program's standard input |
| start (`start.cpp`), cli (`control/cli.cpp`) | options | `start`, `main` | all of the above |
| string utilities (`util.cpp`) | - | `splitString`, `splitStringRemoveEmpty`, `strEndsIn`, `trim` | - |
| logging | - | debug output | |

Everything is sequential. What is hard here is not interleaving of threads but
boundaries and order: accesses that straddle two pages or leave memory,
exceptions that no handler matches, values that are narrower than the register
they go to, a counter that is read early and written late, two passes that must
agree on the length of every line, input that is malformed or ends and that
program and debugger take turns to read. `PROJECT.json` lists
these hazards, each at its line with the properties that cover it.

What makes each part correct:

- memory: it is an array of bytes, whatever the pages do;
- words: a write changes the bytes of its type and no others; operators agree
  with their definition on numbers; what `getInstruction` packs `step` unpacks;
- alu: zero stays zero; only jumps jump; memory changes only where an
  instruction says; what is read in can be printed; the loop ends within its
  budget and tells a halt from the end of the budget;
- assembler: the passes agree, references hold the addresses of what they name,
  memory holds the program and nothing else; it ends;
- debugger: the program executes what was asked for and no more; the dialog
  returns to it by a command only; a session ends or comes to rest;
- the whole: what runs is what the source says, line by line.

## Modules

| module | models | of |
|---|---|---|
| `FlatMemory` | what `Memory` promises: one array of bytes | the interface in `memory.hpp` |
| `Memory` | pages, allocation, accesses in one page and across two, the slot past the end | `memory.cpp`, `memory.t.hpp` |
| `Words` | a register, its types, the arithmetic of `step` | `registers.*`, the switches of `alu.cpp` |
| `Instructions` | layouts, packing, unpacking, translation of pseudo-instructions | the enumeration in `assemble.hpp`, the end of `getInstruction`, the `readInstruction` calls |
| `Platform` | the sizes, places and names that assembler and machine agree on | `memory.hpp`, `alu.hpp` |
| `Alu` | `step` and `loop` without the debugger | `alu.cpp`, `start.cpp` |
| `Assembler` | the two passes, `getInstruction`, the symbol table | `assemble.cpp` |
| `Tokens` | splitting a text at delimiters | `util.cpp` |
| `SourceText` | trimming, and how the passes take a line apart | `util.cpp`, `assemble.cpp` |
| `Debugger` | `loop` with the debugger, `debugDialog`, `regSymStrToAddr` | `alu.cpp` |
| `Engine` | `main` and `start`: the composition | `control/cli.cpp`, `start.cpp` |
| `Laws` | what the functions in `Words`, `Instructions` and `Tokens` must satisfy, on samples | |
| `MC*` | instances for TLC | |
| `*Proofs` | theorems, and the lemmas they rest on | |

`Alu` and `Assembler` extend `Platform`, which extends `Instructions` and with it
`Words`; `Debugger` extends `Alu`; `Engine` extends `Assembler` and `Debugger`
(which is why the initial states, steps and types of `Assembler` are named after
it). `Memory` refines `FlatMemory`; `Alu` and `Assembler` use the flat array
directly. What `Alu` adds to it is in its `Reachable`, `Loaded` and `Stored`: a
page past the end that reads as zeros and keeps no write, and beyond it only
exceptions. That is `EndsInZeros`, a property of `Memory`, for reads, and the
refinement for writes. `Laws` extends `Instructions` and `Tokens`. `SourceText`
extends `Tokens` and stands beside the rest: `MCAssembler` compares it with the
lines of `Assembler`.

**Memory.** `slots` is `Memory::pages` and the word after it; `reply` is the
last operation and its answer, which is what a caller sees. `Read`, `Write`,
`Throw` and `Die` are the outcomes of an operation. The range check lets the
page number one past the array through. The content of that slot is undefined,
so `Init` chooses it: null, a pointer to some object (which refuses every
address; inside an alu that is running it is `alu::syms`), or a wild pointer.

**Words.** A word is a number from 0 to LONG - 1, a byte has `Base` values. In
the code `Base` is 256; INTBITS and LONGBITS, used by shifts only, are separate
constants so that the sizes can be small. Overflow of int is undefined in C++:
`Overflowing` allows the truncated and the exact result; others, which the standard
allows too, are not modelled, and `LowHalfDetermined` speaks of these two only. Shift counts are masked
as on x86; a division without a result traps.

**Alu.** One action is one turn of the loop: fetch, decode, execute, and the
input or output that was asked for. `reg`, `mem`, `in`, `out` and `steps` are
the registers, memory, standard input, what was printed and the index `i` of
the loop; `mode` says how the program ended: `halted`, `exhausted` (the
warning), `threw` (an exception nobody catches), `killed` (a trap). `Throws`
collects what makes `step` throw, all of which precedes its first assignment;
the exceptions of the loop's own stores come after the counter has moved, and
the model keeps that order. A `pc` written in the middle of an instruction is
overwritten at its end (`Advanced`), a jump's is not (`JumpedTo`). Memory is
the flat array, with the page past the end that reads as zero and drops writes.

**Assembler.** One action is one line in one pass. `at` is the iterator over
lines, `pointer` is `current_pointer`, `table` the symbol table, `image` the
words of memory. `starts` is a history variable, no code: the pointer of the first
pass at each line. A line is not a string but what the passes tell apart: the
label and how it is set off (`l: ADD`, `l : ADD`, `l:ADD`), the statement, and
whether the comment or a string holds another colon. The first pass splits at
spaces, the second at colons: `SeesLabel`, `LengthOfLine` and `OperationOf` say
what each makes of such a line. An unknown operation leaves `op` uninitialised:
`Chosen` gives all of them and none.

**Tokens, SourceText.** A text is a sequence of characters, where what lies between
the characters that matter may count as one. The loops of `splitString` and
`splitStringRemoveEmpty` are functions of the number of turns (`After`): `Cut` and
`LookedAt` are one turn each, and the result is what the variables are after as
many turns as the loop can need. `ScanParts` to `WordsCounted` are what
`firstStep` makes of a line, `ColonParts` to `OperationText` what `toMemory`
makes of it. `MCAssembler` renders every line of `Assembler` as text and checks
that both passes, on the text, come to what the line says (`LinesAsRead`), so
the structured lines are those of the parser, for text with blanks (tabs are not
rendered).

**Debugger.** One action is one turn of the machine (`MachineTurn`, which is
`OneTurn` of `Alu`), the end of a loop (`Warn`, `Open`) or one command.
`budget` and `steps` are the argument and the index of the innermost `loop`,
`cmd` the string of the innermost dialog; outer ones are never returned to
except to end, so they need no variables. `cmd` matters: `cin >> cmd` leaves it
alone when there is no word, and the last command is carried out again. A word
of input has the fields `Alu` reads (among them the rest of its line from there
on, which is what `getline` takes) and the two the dialog reads, so that one
queue serves both. Commands that only show something change nothing but the
input; they are modelled for how they end: `getID` throws a text where the
handler is for an int, `stol` throws at `8(sp)` and at a missing word, an unknown
symbol is a null pointer that is followed, and a label longer than its column
makes `table` throw. `regSymStrToAddr` asks `getID` first, which lower-cases the name
(`LowerCase`), and the symbol table then, which does not: the label `T0`, a label
like any other to the assembler, is the register `t0` at the dialog. `due` is a history variable, no code: the turns asked for
and not executed. It is capped at -1 to keep the state space finite.

**Engine.** `stage` is how far `main` is. A step of the assembler leaves the
variables of the machine alone and the other way round. The program has one
memory; here it is the words `image` while `Assembler` fills it and the bytes
`mem` from `Launch` on, which is `start` after `toMemory` has returned. So `image`
stays what was assembled, and `Untouched` can say that the program has not stored
over a line. What a machine alone starts with (`Setups`) is not used: the program
starts with what was assembled. `Return` and the two `Aborts` are the ways a
process ends.

## Runs

| run | states | what it shows |
|---|---|---|
| `memory` | 4047 | Pages are in place and allocated on touch only; paged memory implements the flat array, and past its end has what `Alu` expects. Two pages of two bytes, accesses of one and two bytes at every address up to two pages past the end: within a page, across two, across the end, in the slot past it and beyond. |
| `memory_bounds` | violation | `tests/memory.cpp` expects reads at MAXMEMORY to be refused. The check is off by one, so the answer hangs on the word after the array. |
| `functions` | 5999 | Writes, bytes, division, bit operations, overflow and branch conditions, on 25 words around the ends of every type. Unpacking, in `step` and in the debugger, inverts packing for every operation, with operands at the ends of their fields; pseudo-instructions compute what they name. Splitting, of every text of up to five characters out of four. Bytes have ten values (two must tell 71 operations apart). |
| `alu` | 66767 | All programs of a set-up, any instruction (in-range and out-of-range operands, bad codes, bad registers) and one that uses its result; five turns are more than the three instructions and a halt, so loops exhaust the budget and straight programs do not. And programs that read twice and print, near the end of memory and past it, with input that is long, short, of two words, no number, or missing. |
| `alu_branch` | violation | `assemble.hpp` calls immediates of branches offsets from the counter; they are addresses. |
| `alu_riscv` | violation | SLTU, DIVU, SRAW, LB, LH, ADDIW and JALR are not those of RISC-V, which the project's `README.MD` says it implements. |
| `assembler` | 58630 | All programs of three plain lines, and of two lines when odd ones are among them: labels, labels defined twice or used before, a label named like a register, strings, data, malformed lines, programs longer than memory. Their text, taken apart as the code does it, is what the model says. |
| `assembler_comments` | violation | The comments in `assemble.cpp` say all after `#` is stripped; the second pass splits at a colon in it first. |
| `assembler_names` | violation | SLLIW is assembled to SRAI; unknown names, SH and XORI among them, to anything. |
| `debugger` | 35094 | Four programs (one that halts and can be resumed behind the HALT, one that loops, two that read a line and a number) under all sessions of one or two commands out of twenty (names of registers and labels in small letters and capitals among them), followed by nothing, an answer meant for the program, or one more command: what is asked for is executed, no step leads back, every session ends or comes to rest. |
| `debugger_mistakes` | violation | The messages for an unknown register or symbol in `alu.cpp` are never shown: the process ends. |
| `engine` | 85014 | All sources of an operation (call, print, load) and three lines out of eleven: calls and returns, branches, labels alone and doubled, labels in capitals (one that is a register's name in small letters), data, strings, stores over them, input, HALT; programs with undefined labels and longer than memory. Each is run with a budget of six and under the debugger; a program of one line is run with every option. What runs are the lines of the source, in the order it says, and they read the data it says. |

Bounds. `PAGESIZE` and `RANGECOUNT` in `Memory` are two each, enough for an
access inside the first, inside the last, across, across the end, and past it.
`maxSteps`, the program lengths and the sizes of memory are chosen so that every
action, and every way a program can end, happens. `CONTINUE` (10000 in the code)
is five: more than the programs that halt take, so that a HALT cuts it short, and
few enough for a loop to use it up. Deadlock is not checked: programs end, and
`Next` is then disabled; `functions` enumerates inputs and stops.

Fairness. `Alu`, `Assembler`, `Debugger` and `Engine` assume weak fairness of
their next-state relation: one thread that is never waiting (input that ends
makes reads fail, it does not block; input here is all there from the start)
goes on until it ends. `Terminates` holds by the budget of the loop,
`AssemblingEnds` by the number of lines. A debugger session need not end: at the end of input the dialog
repeats a command that changes nothing, for ever. `SessionSettles` and
`ProcessSettles` say that this is the only way: it holds because a dialog starts
with an empty command, so that no `continue` is ever repeated
(`ResumedByCommand`), and because each command takes at least a word.
`SessionAdvances` says it of single steps, without fairness: each takes input, or
lowers `Rank`, or is a turn within the bound; what is typed and the bound are
finite.

## Proofs

A theorem holds for every value of the constants that the named assumptions
allow; a run shows the same property on its instance. The theorems that a
reader should know of, by module:

| module | theorem | says of every run |
|---|---|---|
| `MemoryProofs` | `TypeCorrect`, `PagesStayInPlace` | the type; every page serves the addresses of the slot that points to it, and the array holds no foreign pointer |
| | `PagesOnTouch` | a step changes only the slots of the two ends of its access |
| | `FlatMemoryImplemented` | `Memory` implements `FlatMemory` |
| | `MemoryEndsInZeros` | with `alu::syms` past the page array, memory is what `Alu` takes it to be past its end |
| `LawsProofs` | one for each law in `Laws` | writes, bytes, division, bit operations, overflow, branch conditions; unpacking inverts packing, in `step` and at the dialog; pseudo-instructions compute what they name |
| | `TokensAlwaysRuns` | the tokens of any text are its runs without delimiters, in order |
| `AluProofs` | `TypeCorrect`, `ZeroStays`, `LoopStaysInBudget` | the three invariants of `Alu` |
| | `JumpsAlone`, `StoresInSpan`, `InputIsReadBack` | its three action properties |
| `DebuggerProofs` | `DebugTypeCorrect`, `DebuggerHonoursAsks`, `CommandsResume` | the type, `AsksHonoured` and `ResumedByCommand` |
| | `SessionsAdvance` | no session goes round in a circle |
| | `CommandLineIsRead` | an INPUTS right behind a command stores the rest of the command's line, which is empty |
| `AssemblerProofs` | `AssemblerTypeCorrect`, `PassesAlwaysAgree`, `ImageAlwaysInPlace`, `ReferencesAlwaysResolve` | its four invariants |
| `EngineProofs` | `EngineAssembles`, `ProgramsInPlace` | `main` and `start` run the assembler and undo nothing of it |
| | `EngineTypeCorrect`, `EngineHonoursAsks` | the type of all variables, `AsksHonoured` at the dialogs of the whole program |
| | `DialogAlwaysNamesLines` | the names found at a dialog are the labels and the registers; a label that is no register's name, in capitals either, is the address of the line it marks |
| | `ControlAlwaysFollows` | control goes where the source says |
| | `DataAlwaysReads` | data loaded and strings printed are those of the source |
| | `OnlyLinesAlwaysRun` | a program written with care executes its own lines only |
| | `CallsAlwaysReturn` | and its returns go behind its calls |

`WordProofs` and `InstructionProofs` hold lemmas only: bytes and digits of a
word, `Write`, the results of every operation; and that the fields of a packed
word come back (`PackedAny`), whatever their values.

**Memory.** The inductive invariant is `TypeOK /\ PagesInPlace`: the type alone
does not say that the page found in a slot covers the address that led there,
and without it an access could be refused inside memory. An address lies in one
page and an access not longer than a page in at most two (`PageOfAddress`,
`SpanInTwoPages`); `preparePage` keeps the invariant and, as new pages hold
zeros, changes no byte (`PreparedKeeps`, `SlotsAfterKeeps`); a write in one page
or byte by byte across two changes the bytes of its span (`WrittenStores`), and
a read collects them (`CollectedBytes`). From these come `ReadStep`, `WriteStep`,
`FailStep`, the invariant, and the refinement, action by action. An access throws
exactly when it ends beyond one more page (`ThrowsBeyond`), a foreign object past
the array is never replaced and kills nothing (`ForeignStays`,
`ForeignIsHarmless`), and each byte collected there is zero (`ForeignReadsZero`).

**Laws.** The state of `Laws` is the input, so that an invariant is a law for
all words, all instructions whose operands fit and all texts (`LawsAssumption`).
What is inductive is only that the input is one. The bit operations of `Words` are
recursive functions of the number of bits; what they compute is proved by
induction over sets of numbers, as the rules of the library for predicates need
an operator for a parameter.

`TokensAlwaysRuns` is about two loops, one after the other. `SplitString` is
given its recursive function by `Iteration`; after n turns what is left of the
text is an end of it, and each run that starts before that is among the tokens,
at the place that the number of runs says (`Covers`, `SplitSoFar`; `TokenAdded` is
the turn, `CutGoesOn` the step). Some tokens are empty. After n turns of the loop
that erases them, the iterator stands behind those of the first n that are not
empty, and they are in order; the others are still to come (`SweptSoFar`,
`SweepGoesOn`). An iterator that goes on after an erasure, the mistake that is
easily made there, breaks it at the first pair of empty tokens.

**Alu.** `AluInv == TypeOK /\ ZeroIsZero /\ LoopBounded`. Registers stay words
because every result of every operation is written modulo the width of its type,
whatever the width; zero stays because `Put` is the only way into it, and the
counter is none of the numbered registers. `InputIsReadBack` has the hypothesis
that no character typed is null, since `stringFromMemory` stops at one.

**Debugger.** `DInv == DebugTypeOK /\ DueIsLeft /\ CommandStays`. `AsksHonoured`
says that `due` is zero at a dialog; to keep that, `due` must be the budget less
the turns taken while the machine runs (`DueIsLeft`). `CommandStays`: the command
of an open dialog is never one that resumes, or else the repeated command at the
end of input would.

`SessionsAdvance` needs `CommandStays` too: a command that finds no word is the
last one again (`RepeatedCommand`), and as that is none that resumes, it leaves
the dialog where it is; one that finds a word uses it up (`CommandTakes`). What a
turn of the machine takes from the input is in `OneTurnTakes` of `AluProofs`.
`CommandLineIsRead` has the hypothesis `CommandsEndLines`, about what is typed: the
word that resumes the program, or the count behind `stepcount`, is the last of
its line. Without it the program reads what follows on that line, and rightly so.
What is inductive is that this holds of the rest of the input at any time, for a
rest is again such input (`TidyRest`), and that before the first turn after a
command the end of its line comes next (`LineInv`, `CommandEnds`). TLC
checks the hypothesis on the sessions of the run `debugger`.

**Assembler.** `AssemblerInv == TypeInv /\ Counted /\ Entered /\ Filled`. The addresses of
the first pass follow one another by the lengths of the lines, and the pointer of
the second is at the same sums as long as lines are plain (`Counted`); the table
has the addresses of the lines that are first to define a label (`Entered`);
memory is zero until the second pass and then holds the words of each line
(`Filled`). `InReach` bounds the pointer by the end of memory, so that an
address is an int. `ReferencesAlwaysResolve` follows from these and `PackedAny`.

**Engine.** `EInv` is the stage's type and `AssemblerInv /\ InReach /\ ProgramLoaded
/\ NotYetRun /\ DInv /\ ZeroIsZero`: the invariants of the assembler; that what is
running is a program assembled to its end, with its table (`ProgramLoaded`); that
the machine is as it was constructed until it is launched (`NotYetRun`), without
which `Launch` would have to be believed to leave `due` and `steps` right; and
the invariants of the debugger and the machine. Each step of `Engine` is one of
the assembler or leaves it alone (`EngineSteps`), and is `Launch`, or one of the
debugger or leaves it alone (`MachineSteps`), so the lemmas on these carry over;
`Launch` is where they meet: words are bytes (`BytesOfType`, `LaunchKeeps`).

`ControlAlwaysFollows` puts the chain together, from the text of a line to the
counter: the first pass gave the line its address and memory holds its word there
(`WordOfLine`); the word is `Encode` of what `getInstruction` made of the line and
`Decode` gives it back (`LineDecoded`); the machine at that address fetches this
word (`FetchedLine`) and moves its counter by the operation, the registers and the
immediate in it (`TurnMoves`), which is the address of the label (`LabelReached`).
`DataAlwaysReads` goes the same way to the operands of an LD or a PRINT and from
there to the words of the line that the label marks (`DataReached`; `DataInPlace`,
`TurnLoads`; `TextInPlace`, `TextFound`, `TurnPrints`), whose bytes are put
together again to the value, or are the characters, eight bytes apart. Both
speak of programs of lines both passes read alike, with the operations
`getInstruction` knows, and for as long as the program has not stored over the
lines: the other cases are the violation runs `assembler_comments` and
`assembler_names`, and programs that rewrite themselves. A jump to a number goes
where the number says and is left open, as is an LD or a PRINT of an address
that no label stands for, and a label on a line of other data than the
instruction reads.

`OnlyLinesAlwaysRun` and `CallsAlwaysReturn` turn these facts about one turn
into facts about all of them. `Structured` names what a program must see to, all
of it in the source: the lines fit memory; every operation is followed by
another unless it jumps, or halts without a debugger that could resume it;
branches and jumps name labels of instructions, stores and inputs name labels of
data; a return is by a register that calls alone write, with no offset; and no
INPUTS is used, whose line may be longer than the data it goes to. Nothing is
said of what it computes or reads. `CodeInv` is inductive for such a program:
the counter is at an operation (`AtCode`), every operation is in memory as it
was assembled, and a register to return by holds 0 or the address behind a call
(`LinkOf`). The parts need one another: a store leaves the lines alone because
the instruction is a line whose label is of data, a return goes to a line
because the register holds such an address, and the register does because every
instruction that writes to it is a call. A program starts with an operation, so
0, which a return goes to before any call, is the address of one too.

Assumptions. Memory: `SizeAssumption` (sizes are positive, an access is not
longer than a page) and `PointerAssumption` (null, a foreign pointer and a wild
one are no pages and differ). Words and instructions: `WordsAssumption` (a byte has
an even number of values, shift widths are positive), `InstructionsAssumption`
(operations fit two bytes). `PlatformAssumption`: the sizes are
numbers. `AluAssumption`, `DebuggerAssumption`: memory, and
the page behind it, are smaller than the numbers of a word; the counter is not
among the registers; characters are bytes; the names of registers have no
capitals, and a lower case has none. `AssemblerAssumption`,
`ProgramsAssumption`: memory and pages are whole words, register numbers fit a
byte, programs are sequences of lines. `EngineAssumption`: memory and a page are
smaller than the largest int (here 524288000 + 1048576 of 2147483648); what is typed consists of words and ends of
lines. `LawsAssumption`: the samples are words, instructions whose operands fit,
and texts. TLC checks each on the instance
of a run. `CommandLineIsRead` assumes besides that a page holds a word.

Only model-checked:

- `Terminates`, `AssemblingEnds`, `SessionSettles`, `ProcessSettles`: liveness is beyond tlapm.
- `LinesAsRead`: it compares the lines of the run with their text, which
  `MCAssembler` makes up.
- The violation runs: that a property fails is shown by a counterexample.

## Not modelled

- Text: the letter case of commands, operations and directives (not of names typed
  at the dialog), number formats (`decodeValue`) and the splitting of operands
  are abstracted into the structure of lines and operands. Programs of the model
  have numbers that fit an int, at most one label on a line, a blank before
  `.asciiz`, a value after `.byte` to `.dword`, and strings with both quotes (a
  string without the second and with a blank at the end is counted longer than
  it is written). Names are no numbers and have no brackets, so that the assembler
  and the dialog take them for names.
- What the debugger prints, and the depth of its recursion: each resumption is one
  more nested call, and a long session is a deep stack.
- Options that Boost.Program_options refuses: it throws and the process ends.
  A negative `--maxInst` (the loop does nothing and does not warn).
- `remove`, `setRef` and `layout` of the symbol table, `writeLower` and
  `readLower`: no caller.
- Undefined behaviour of two kinds: reading the bytes of a register through
  pointers of other types (taken to do what the hardware does), and overflow of
  a branch target within 8 of the least int or of a 64-bit sum (taken to wrap).
- Logging.

## Plan

1. Done: `FlatMemory`, `Memory`; `Words`, `Instructions`, `Alu`; `Assembler`,
   `SourceText`; `Debugger`; `Engine`; their runs.
2. Done: proofs about `Memory` and its end, the laws, `Alu`, `Debugger`, `Assembler`, and
   in `Engine` the type, and from end to end control, calls and data; the splitting
   of texts.
3. The image of a program that does not fit memory; a program that reads what
   it stored.
4. The hazards without a property: unclosed strings, and what the dialog shows
   for addresses that are no int.
