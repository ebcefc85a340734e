--------------------------- MODULE DebuggerProofs ---------------------------
(***************************************************************************)
(* Proofs about the debugger: its type invariant, and that the program     *)
(* executes what was asked for at the dialog and nothing else; for every   *)
(* program and whatever is typed.                                          *)
(***************************************************************************)
EXTENDS Debugger, AluProofs

Resuming == {"continue", "step", "stepcount"}

(* What is due while the program runs: the turns up to the bound.          *)
DueIsLeft ==
  debug => /\ mode = "running" => due = (IF steps < budget THEN budget - steps ELSE 0)
           /\ mode = "dialog" => due = 0
           /\ due >= 0

(* The command of a dialog is none that resumes the program.               *)
CommandStays == mode = "dialog" => cmd \notin Resuming

DInv == DebugTypeOK /\ DueIsLeft /\ CommandStays

(* The invariant holds at the start. *)
LEMMA InitDInv == DebugInit => DInv
<1> SUFFICES ASSUME DebugInit PROVE DInv
  OBVIOUS
<1>1. PICK s \in Setups : /\ mem = s.image /\ in = Console(s.console, FALSE)
                          /\ debug = s.debug /\ syms = s.syms
  BY DEF DebugInit
<1>2. Shaped
  BY <1>1, InitShaped DEF DebugInit
<1>3. debug \in BOOLEAN
  BY <1>1, DebuggerAssumption, Zenon
<1>4. budget \in Int /\ (debug => budget = 0)
  <2>1. (debug => budget = 0) /\ (~ debug => budget = maxSteps)
    BY Zenon DEF DebugInit, Budget
  <2>2. maxSteps \in Int
    BY AluAssumption
  <2>3. CASE debug
    BY <2>1, <2>3
  <2>4. CASE ~ debug
    BY <2>1, <2>2, <2>4
  <2> QED
    BY <2>3, <2>4
<1>5. DueIsLeft
  <2>1. due = 0 /\ steps = 0 /\ mode = "running"
    BY DEF DebugInit
  <2>2. debug => due = (IF steps < budget THEN budget - steps ELSE 0)
    BY <1>4, <2>1
  <2> QED
    BY <2>1, <2>2 DEF DueIsLeft
<1>6. CommandStays
  BY DEF DebugInit, CommandStays, Resuming
<1>7. DebugTypeOK
  BY <1>2, <1>3, <1>4 DEF DebugInit, DebugTypeOK
<1> QED
  BY <1>5, <1>6, <1>7 DEF DInv

(* A turn of the machine preserves it. *)
LEMMA MachineTurnDInv ==
  ASSUME DInv, MachineTurn
  PROVE  DInv'
<1>1. ShapeKept(Fetched) /\ Shaped
  BY OneTurnKeeps DEF DInv, DebugTypeOK, MachineTurn
<1>2. /\ mode = "running" /\ steps < budget /\ steps \in Nat /\ budget \in Int /\ due \in Int
      /\ debug' = debug /\ budget' = budget /\ debug \in BOOLEAN
      /\ due' = (IF due > 0 THEN due - 1 ELSE - 1)
      /\ debug => due = budget - steps
  BY DEF DInv, DebugTypeOK, DueIsLeft, Shaped, MachineTurn, TurnsLeft
<1>3. \/ steps' = steps + 1 /\ mode' = "running"
      \/ steps' = steps /\ mode' \in {"halted", "threw", "killed"}
  BY <1>1, <1>2 DEF ShapeKept
<1>4. DebugTypeOK'
  BY <1>1, <1>2, <1>3 DEF ShapeKept, DebugTypeOK, Ended
<1>5. DueIsLeft'
  BY <1>2, <1>3 DEF DueIsLeft
<1>6. CommandStays'
  BY <1>3 DEF CommandStays
<1> QED
  BY <1>4, <1>5, <1>6 DEF DInv

(* The warning preserves it. *)
LEMMA WarnDInv ==
  ASSUME DInv, Warn
  PROVE  DInv'
<1>1. Shaped'
  BY DEF DInv, DebugTypeOK, Shaped, Warn
<1> QED
  BY <1>1 DEF DInv, DebugTypeOK, DueIsLeft, CommandStays, Warn, dialog, Ended

(* The beginning of a dialog does. *)
LEMMA OpenDInv ==
  ASSUME DInv, Open
  PROVE  DInv'
<1>1. Shaped'
  BY DEF DInv, DebugTypeOK, Shaped, Open
<1>2. steps \in Nat /\ budget \in Int /\ due \in Int /\ due >= 0 /\ debug \in BOOLEAN
      /\ (mode = "running" => due = IF steps < budget THEN budget - steps ELSE 0)
  BY DEF DInv, DebugTypeOK, DueIsLeft, Open, Shaped
<1>3. \/ mode = "running" /\ ~ (steps < budget) /\ due' = due
      \/ due' = (IF due > 0 THEN 0 ELSE due)
  BY DEF Open, TurnsLeft
<1>4. due' = 0
  BY <1>2, <1>3
<1>5. mode' = "dialog" /\ budget' = budget
  BY DEF Open
<1>6. debug' \in BOOLEAN
  BY <1>2, Zenon DEF Open
<1>7. DebugTypeOK'
  BY <1>1, <1>2, <1>4, <1>5, <1>6 DEF DebugTypeOK
<1>8. DueIsLeft'
  <2>1. due' = 0 /\ due' >= 0 /\ mode' # "running"
    BY <1>4, <1>5
  <2> QED
    BY <2>1 DEF DueIsLeft
<1>9. CommandStays'
  BY DEF Open, FreshCommand, CommandStays, Resuming
<1> QED
  BY <1>7, <1>8, <1>9 DEF DInv

(* The word behind the command. *)
LEMMA OperandType ==
  ASSUME Shaped
  PROVE  /\ AfterCommand \in InputState
         /\ Operand.number => Operand.long \in Int
<1>1. AfterCommand \in InputState
  BY ShapedParts, AfterTypes DEF AfterCommand
<1>2. CASE NoWord(AfterCommand)
  BY <1>1, <1>2 DEF Operand, Nothing
<1>3. CASE ~ NoWord(AfterCommand)
  BY <1>1, <1>3, NextWordType, AluAssumption DEF Operand
<1> QED
  BY <1>1, <1>2, <1>3

(* A command does. *)
LEMMA CommandDInv ==
  ASSUME DInv, Command
  PROVE  DInv'
<1>1. /\ Shaped /\ mode = "dialog" /\ due \in Int /\ debug \in BOOLEAN /\ budget \in Int
      /\ debug => due = 0
      /\ due \in Nat \cup {- 1}
      /\ reg' = reg /\ mem' = mem /\ out' = out /\ debug' = debug /\ cmd' = Typed
      /\ steps \in Nat
  BY DEF DInv, DebugTypeOK, DueIsLeft, Command, Shaped
<1>2. in' \in InputState
  BY <1>1, ShapedParts, OperandType, AfterTypes
     DEF Command, Continue, StepOne, StepCount, ReadRegister, ReadMemory, Table, Help, Exit
<1>3. CASE \E n \in Int : Resume(n)
  <2>1. PICK n \in Int : Resume(n)
    BY <1>3
  <2>2. /\ mode' = "running" /\ steps' = 0 /\ budget' = n
        /\ due' = due + (IF n > 0 THEN n ELSE 0)
    BY <2>1 DEF Resume
  <2>3. Shaped'
    BY <1>1, <1>2, <2>2 DEF Shaped, InputState, Items
  <2> QED
    BY <1>1, <2>2, <2>3 DEF DInv, DebugTypeOK, DueIsLeft, CommandStays
<1>4. CASE \E m \in Ended \cup {"dialog"} : Outcome(m) /\ Typed \notin Resuming
  <2>1. /\ mode' \in Ended \cup {"dialog"} /\ steps' = steps /\ budget' = budget /\ due' = due
        /\ Typed \notin Resuming
    BY <1>4 DEF Outcome
  <2>2. Shaped'
    BY <1>1, <1>2, <2>1 DEF Shaped, InputState, Items
  <2> QED
    BY <1>1, <2>1, <2>2 DEF DInv, DebugTypeOK, DueIsLeft, CommandStays, Ended
<1>5. CASE Continue \/ StepOne \/ StepCount
  BY <1>1, <1>3, <1>5, OperandType, DebuggerAssumption DEF Continue, StepOne, StepCount
<1>6. CASE ReadRegister \/ ReadMemory \/ Table \/ Help \/ Exit
  <2>1. Typed \notin Resuming
    BY <1>6 DEF ReadRegister, ReadMemory, Table, Help, Exit, Resuming
  <2>2. \E m \in Ended \cup {"dialog"} : Outcome(m)
    BY <1>6 DEF ReadRegister, ReadMemory, Table, Help, Exit, Ended
  <2> QED
    BY <1>4, <2>1, <2>2
<1> QED
  BY <1>5, <1>6 DEF Command

(* Every step does. *)
LEMMA NextDInv == DInv /\ [DebugNext]_debugVars => DInv'
<1> SUFFICES ASSUME DInv, [DebugNext]_debugVars PROVE DInv'
  OBVIOUS
<1>1. CASE UNCHANGED debugVars
  BY <1>1 DEF debugVars, vars, dialog, DInv, DebugTypeOK, Shaped, DueIsLeft, CommandStays
<1> QED
  BY <1>1, MachineTurnDInv, WarnDInv, OpenDInv, CommandDInv DEF DebugNext

(* It holds in every state of every session. *)
THEOREM DebugInvariant == DebugSpec => []DInv
  BY InitDInv, NextDInv, PTL DEF DebugSpec

(* The debugger and the machine under it keep their type. *)
THEOREM DebugTypeCorrect == DebugSpec => []DebugTypeOK
<1>1. DInv => DebugTypeOK
  BY DEF DInv
<1> QED
  BY <1>1, DebugInvariant, PTL

(* At every dialog the program has executed exactly what was asked for.    *)
THEOREM DebuggerHonoursAsks == DebugSpec => []AsksHonoured
<1>1. DInv => AsksHonoured
  BY DEF DInv, DueIsLeft, AsksHonoured
<1> QED
  BY <1>1, DebugInvariant, PTL

(* A dialog returns to the program only by a command read in it.           *)
THEOREM CommandsResume == DebugSpec => ResumedByCommand
<1>1. ASSUME DInv, DebugNext, mode = "dialog", mode' = "running"
      PROVE  ~ NoWord(in) /\ NextWord(in).text \in Resuming
  <2>1. Command
    BY <1>1 DEF DebugNext, MachineTurn, Warn, Open
  <2>2. Typed \in Resuming
    <3>1. CASE Continue \/ StepOne \/ StepCount
      BY <3>1 DEF Continue, StepOne, StepCount, Resuming
    <3>2. CASE ReadRegister \/ ReadMemory \/ Table \/ Help \/ Exit
      BY <3>2, <1>1 DEF ReadRegister, ReadMemory, Table, Help, Exit, Outcome
    <3> QED
      BY <2>1, <3>1, <3>2 DEF Command
  <2>3. cmd \notin Resuming
    BY <1>1 DEF DInv, CommandStays
  <2> QED
    BY <2>2, <2>3 DEF Typed
<1>2. DInv /\ [DebugNext]_debugVars =>
        [(mode = "dialog" /\ mode' = "running")
           => ~ NoWord(in) /\ NextWord(in).text \in {"continue", "step", "stepcount"}]_debugVars
  BY <1>1 DEF Resuming
<1> QED
  BY <1>2, DebugInvariant, PTL DEF DebugSpec, ResumedByCommand

(* A command takes input, or the input has failed. *)
LEMMA CommandTakes ==
  ASSUME DInv, Command
  PROVE  TakenFrom(in, in')
<1>1. in \in InputState /\ AfterCommand \in InputState /\ TakenFrom(in, AfterCommand)
  BY ShapedParts, OperandType, WordTaken DEF DInv, DebugTypeOK, AfterCommand
<1>2. /\ TakenFrom(AfterCommand, AfterWord(AfterCommand))
      /\ TakenFrom(AfterCommand, AfterNumber(AfterCommand))
      /\ AfterWord(AfterCommand) \in InputState /\ AfterNumber(AfterCommand) \in InputState
  BY <1>1, WordTaken, AfterTypes
<1>3. in' \in {AfterCommand, AfterWord(AfterCommand), AfterNumber(AfterCommand)}
  BY DEF Command, Continue, StepOne, StepCount, ReadRegister, ReadMemory, Table, Help, Exit
<1> QED
  BY <1>1, <1>2, <1>3, ReadOn

(* A command that is carried out for want of another ends the process or   *)
(* changes nothing.                                                        *)
LEMMA RepeatedCommand ==
  ASSUME DInv, Command, in.failed
  PROVE  mode' \in Ended \/ UNCHANGED debugVars
<1>1. /\ mode = "dialog" /\ Typed = cmd /\ cmd' = cmd /\ cmd \notin Resuming
      /\ UNCHANGED <<reg, mem, out, debug, syms>>
  BY DEF Command, Typed, NoWord, DInv, CommandStays
<1>2. in' = in
  BY CommandTakes DEF TakenFrom
<1>3. \E m \in Ended \cup {"dialog"} : Outcome(m)
  <2>1. ReadRegister \/ ReadMemory \/ Table \/ Help \/ Exit
    BY <1>1 DEF Command, Continue, StepOne, StepCount, Resuming
  <2> QED
    BY <2>1 DEF ReadRegister, ReadMemory, Table, Help, Exit, Ended
<1> QED
  BY <1>1, <1>2, <1>3 DEF Outcome, debugVars, vars, dialog

(* Each step of a session takes input, or the loop towards its end, or is  *)
(* a turn within the bound: no session goes round in a circle.             *)
THEOREM SessionsAdvance == DebugSpec => SessionAdvances
<1> DEFINE A == /\ Len(in'.left) <= Len(in.left)
                /\ in.failed => in' = in
                /\ \/ InputUsed
                   \/ Rank(mode') < Rank(mode)
                   \/ mode = "running" /\ mode' = mode /\ budget' = budget /\ steps < steps'
                      /\ steps' <= budget
<1>1. ASSUME DInv, DebugNext PROVE A \/ UNCHANGED debugVars
  <2>1. Shaped /\ in \in InputState /\ Len(in.left) \in Nat
    BY <1>1, ShapedParts DEF DInv, DebugTypeOK, InputState
  <2>2. /\ Rank("running") = 3 /\ Rank("halted") = 2 /\ Rank("dialog") = 1
        /\ \A m \in Ended : Rank(m) = 0
    BY DEF Rank, Ended
  <2>3. CASE MachineTurn
    <3>1. ShapeKept(Fetched) /\ (in' = in \/ TakenFrom(in, in'))
      BY <2>1, <2>3, OneTurnKeeps, OneTurnTakes DEF MachineTurn
    <3>2. Len(in'.left) <= Len(in.left) /\ (in.failed => in' = in)
      BY <2>1, <3>1 DEF TakenFrom
    <3>3. steps \in Nat /\ budget \in Int /\ steps < budget /\ budget' = budget /\ mode = "running"
      BY <1>1, <2>1, <2>3 DEF DInv, DebugTypeOK, Shaped, MachineTurn, TurnsLeft
    <3>4. \/ steps' = steps + 1 /\ mode' = mode
          \/ mode' \in {"halted", "threw", "killed"}
      BY <3>1 DEF ShapeKept
    <3>5. mode' \in {"halted", "threw", "killed"} => Rank(mode') < Rank(mode)
      BY <2>2, <3>3 DEF Ended
    <3> QED
      BY <3>2, <3>3, <3>4, <3>5
  <2>4. CASE Warn \/ Open
    <3>1. in' = in /\ Rank(mode') < Rank(mode)
      BY <2>2, <2>4 DEF Warn, Open, Ended
    <3> QED
      BY <2>1, <3>1
  <2>5. CASE Command
    <3>1. TakenFrom(in, in') /\ mode = "dialog"
      BY <1>1, <2>5, CommandTakes DEF Command
    <3>2. CASE ~ in.failed
      BY <2>1, <3>1, <3>2 DEF TakenFrom, InputUsed
    <3>3. CASE in.failed
      <4>1. mode' \in Ended => Rank(mode') < Rank(mode)
        BY <2>2, <3>1
      <4> QED
        BY <1>1, <2>1, <2>5, <3>1, <3>3, <4>1, RepeatedCommand DEF TakenFrom
    <3> QED
      BY <3>2, <3>3
  <2> QED
    BY <1>1, <2>3, <2>4, <2>5 DEF DebugNext
<1>2. DInv /\ [DebugNext]_debugVars => [A]_debugVars
  BY <1>1
<1> QED
  BY <1>2, DebugInvariant, PTL DEF DebugSpec, SessionAdvances

-----------------------------------------------------------------------------
(* The rest of a command's line.                                           *)

(* What is left of the input is its end.                                   *)
IsRest(rest, left) ==
  \E d \in 0 .. Len(left) :
    Len(rest) = Len(left) - d /\ \A i \in 1 .. Len(rest) : rest[i] = left[d + i]

(* The end of a tidy input is tidy. *)
LEMMA TidyRest ==
  ASSUME NEW left \in Seq(Items), NEW rest \in Seq(Items), Tidy(left), IsRest(rest, left)
  PROVE  Tidy(rest)
<1>1. PICK d \in 0 .. Len(left) :
        Len(rest) = Len(left) - d /\ \A i \in 1 .. Len(rest) : rest[i] = left[d + i]
  BY DEF IsRest
<1>2. /\ Len(left) \in Nat /\ Len(rest) \in Nat /\ d \in Nat
      /\ DOMAIN left = 1 .. Len(left) /\ DOMAIN rest = 1 .. Len(rest)
  OBVIOUS
<1>3. ASSUME NEW k \in DOMAIN rest PROVE d + k \in DOMAIN left /\ rest[k] = left[d + k]
  BY <1>1, <1>2, <1>3
<1>4. ASSUME NEW k \in DOMAIN rest, EndsLine(left, d + k) PROVE EndsLine(rest, k)
  <2>1. CASE d + k = Len(left)
    BY <1>1, <1>2, <1>4, <2>1 DEF EndsLine
  <2>2. CASE d + k # Len(left)
    <3>1. k + 1 \in DOMAIN rest /\ left[(d + k) + 1] = Newline
      BY <1>1, <1>2, <1>4, <2>2 DEF EndsLine
    <3>2. rest[k + 1] = left[d + (k + 1)] /\ d + (k + 1) = (d + k) + 1
      BY <1>1, <1>2, <3>1
    <3> QED
      BY <3>1, <3>2 DEF EndsLine
  <2> QED
    BY <2>1, <2>2
<1> SUFFICES ASSUME NEW k \in DOMAIN rest, rest[k] # Newline
             PROVE  /\ rest[k].text \in {"continue", "step"} => EndsLine(rest, k)
                    /\ rest[k].text = "stepcount" =>
                         \A j \in DOMAIN rest :
                           (j > k /\ rest[j] # Newline /\ \A i \in k + 1 .. j - 1 : rest[i] = Newline)
                             => EndsLine(rest, j)
  BY DEF Tidy
<1>5. d + k \in DOMAIN left /\ rest[k] = left[d + k]
  BY <1>3
<1>6. rest[k].text \in {"continue", "step"} => EndsLine(rest, k)
  BY <1>4, <1>5 DEF Tidy
<1>7. ASSUME rest[k].text = "stepcount", NEW j \in DOMAIN rest, j > k, rest[j] # Newline,
             \A i \in k + 1 .. j - 1 : rest[i] = Newline
      PROVE  EndsLine(rest, j)
  <2>1. d + j \in DOMAIN left /\ rest[j] = left[d + j] /\ d + j > d + k
    BY <1>2, <1>3, <1>7
  <2>2. \A i \in (d + k) + 1 .. (d + j) - 1 : left[i] = Newline
    <3> SUFFICES ASSUME NEW i \in (d + k) + 1 .. (d + j) - 1 PROVE left[i] = Newline
      OBVIOUS
    <3>1. i - d \in k + 1 .. j - 1 /\ i - d \in DOMAIN rest /\ d + (i - d) = i
      BY <1>2, <1>7
    <3> QED
      BY <1>3, <1>7, <3>1
  <2>3. EndsLine(left, d + j)
    BY <1>5, <1>7, <2>1, <2>2 DEF Tidy
  <2> QED
    BY <1>4, <2>3
<1> QED
  BY <1>6, <1>7

(* What a console keeps, however it is read. *)
LEMMA ReadingRests ==
  ASSUME NEW c \in InputState
  PROVE  /\ IsRest(c.left, c.left)
         /\ IsRest(AfterWord(c).left, c.left)
         /\ IsRest(AfterNumber(c).left, c.left)
<1>1. c.left \in Seq(Items) /\ Len(c.left) \in Nat
  BY DEF InputState
<1>2. IsRest(c.left, c.left)
  <2>1. 0 \in 0 .. Len(c.left) /\ Len(c.left) = Len(c.left) - 0
        /\ \A i \in 1 .. Len(c.left) : c.left[i] = c.left[0 + i]
    BY <1>1
  <2> QED
    BY <2>1, Zenon DEF IsRest
<1>3. IsRest(Failed(c).left, c.left)
  BY <1>2 DEF Failed, Console
<1>4. IsRest(AfterWord(c).left, c.left)
  <2>1. CASE NoWord(c)
    BY <1>3, <2>1 DEF AfterWord
  <2>2. CASE ~ NoWord(c)
    <3>1. PICK k \in DOMAIN c.left :
            /\ Len(Tail(FromWord(c))) = Len(c.left) - k
            /\ \A i \in 1 .. Len(c.left) - k : Tail(FromWord(c))[i] = c.left[k + i]
      BY <2>2, WordPlace
    <3>2. k \in 0 .. Len(c.left) /\ AfterWord(c).left = Tail(FromWord(c))
      BY <1>1, <2>2 DEF AfterWord, Console
    <3> QED
      BY <3>1, <3>2, Zenon DEF IsRest
  <2> QED
    BY <2>1, <2>2
<1>5. IsRest(AfterNumber(c).left, c.left)
  BY <1>3, <1>4 DEF AfterNumber
<1> QED
  BY <1>2, <1>4, <1>5

(* So does reading a line. *)
LEMMA LineRests ==
  ASSUME in \in InputState
  PROVE  IsRest(AfterLine.left, in.left)
<1>1. CASE in.failed
  BY <1>1, ReadingRests DEF AfterLine, InputState
<1>2. CASE ~ in.failed
  BY <1>2, LineEnds DEF IsRest
<1> QED
  BY <1>1, <1>2

(* And so does a turn of the machine. *)
LEMMA OneTurnRests ==
  ASSUME Shaped, OneTurn
  PROVE  IsRest(in'.left, in.left)
<1> DEFINE i == Fetched
<1>1. Throw \/ Execute(i)
  BY DEF OneTurn
<1> HIDE DEF i
<1>2. CASE InputString(i)
  BY <1>2, ShapedParts, LineRests DEF InputString
<1>3. CASE InputNumber(i)
  BY <1>3, ShapedParts, ReadingRests DEF InputNumber
<1>4. CASE InputBool(i)
  BY <1>4, ShapedParts, ReadingRests DEF InputBool
<1>5. CASE ~ (InputString(i) \/ InputNumber(i) \/ InputBool(i))
  <2>1. in' = in
    BY <1>1, <1>5, Zenon
       DEF Execute, Throw, Arithmetic, ArithmeticImmediate, Trap, JumpRegister, Jump, Branch, Load,
           Store, Upper, Halt, Printing, Debug
  <2> QED
    BY <2>1, ShapedParts, ReadingRests
<1> QED
  BY <1>2, <1>3, <1>4, <1>5

(* Before the first turn that a command asked for, the rest of its line is *)
(* what is left of the input, unless there is no more to be had.           *)
AtEndOfLine == in.failed \/ in.left = <<>> \/ Head(in.left) = Newline

LineInv ==
  /\ Tidy(in.left)
  /\ (debug /\ mode = "running" /\ steps = 0 /\ steps < budget) => AtEndOfLine

(* What a word is followed by that ends its line.                          *)
LEMMA WordEndsLine ==
  ASSUME NEW c \in InputState, ~ NoWord(c), NEW k \in DOMAIN c.left, EndsLine(c.left, k),
         Len(Tail(FromWord(c))) = Len(c.left) - k,
         \A i \in 1 .. Len(c.left) - k : Tail(FromWord(c))[i] = c.left[k + i]
  PROVE  AfterWord(c).left = <<>> \/ Head(AfterWord(c).left) = Newline
<1> DEFINE rest == Tail(FromWord(c))
<1>1. /\ c.left \in Seq(Items) /\ Len(c.left) \in Nat /\ k \in 1 .. Len(c.left)
      /\ rest \in Seq(Items) /\ AfterWord(c).left = rest
  BY NextWordType DEF InputState, AfterWord, Console
<1> HIDE DEF rest
<1>2. CASE k = Len(c.left)
  <2>1. Len(rest) = 0
    BY <1>1, <1>2 DEF rest
  <2> QED
    BY <1>1, <2>1
<1>3. CASE k # Len(c.left)
  <2>1. 1 \in 1 .. Len(c.left) - k /\ c.left[k + 1] = Newline
    BY <1>1, <1>3 DEF EndsLine
  <2>2. rest[1] = c.left[k + 1] /\ Len(rest) = Len(c.left) - k
    BY <2>1 DEF rest
  <2>3. rest[1] = Newline /\ Len(rest) > 0
    BY <1>1, <2>1, <2>2
  <2> QED
    BY <1>1, <2>3
<1> QED
  BY <1>2, <1>3

(* A command leaves the input at the end of its line. *)
LEMMA CommandEnds ==
  ASSUME DInv, Tidy(in.left), Command, mode' = "running"
  PROVE  in'.failed \/ in'.left = <<>> \/ Head(in'.left) = Newline
<1>1. in \in InputState /\ AfterCommand \in InputState
  BY ShapedParts, OperandType DEF DInv, DebugTypeOK
<1>2. Continue \/ StepOne \/ StepCount
  BY DEF Command, ReadRegister, ReadMemory, Table, Help, Exit, Outcome
<1>3. Typed \in Resuming /\ cmd \notin Resuming
  BY <1>2 DEF Continue, StepOne, StepCount, Resuming, DInv, CommandStays, Command
<1>4. ~ NoWord(in) /\ Typed = NextWord(in).text
  BY <1>3 DEF Typed
<1>5. PICK k \in DOMAIN in.left :
        /\ in.left[k] # Newline /\ NextWord(in) = in.left[k]
        /\ Tail(FromWord(in)) \in Seq(Items) /\ Len(Tail(FromWord(in))) = Len(in.left) - k
        /\ \A i \in 1 .. Len(in.left) - k : Tail(FromWord(in))[i] = in.left[k + i]
  BY <1>1, <1>4, WordPlace
<1>6. CASE Continue \/ StepOne
  <2>1. in' = AfterWord(in) /\ Typed \in {"continue", "step"}
    BY <1>6 DEF Continue, StepOne, AfterCommand
  <2>2. EndsLine(in.left, k)
    BY <1>4, <1>5, <2>1 DEF Tidy
  <2> QED
    BY <1>1, <1>4, <1>5, <2>1, <2>2, WordEndsLine
<1>7. CASE StepCount
  <2> DEFINE c == AfterCommand
  <2>1. in' = AfterNumber(c) /\ Typed = "stepcount" /\ c = Console(Tail(FromWord(in)), FALSE)
    BY <1>4, <1>7 DEF StepCount, AfterCommand, AfterWord
  <2>2. c.left = Tail(FromWord(in))
    BY <2>1 DEF Console
  <2> HIDE DEF c
  <2>3. CASE NoWord(c) \/ ~ NextWord(c).number
    BY <2>1, <2>3 DEF AfterNumber, Failed, Console
  <2>4. CASE ~ NoWord(c) /\ NextWord(c).number
    <3>1. in' = AfterWord(c) /\ c \in InputState
      BY <1>1, <2>1, <2>4 DEF AfterNumber, c
    <3>2. PICK j \in DOMAIN c.left :
            /\ c.left[j] # Newline /\ \A i \in 1 .. j - 1 : c.left[i] = Newline
            /\ Len(Tail(FromWord(c))) = Len(c.left) - j
            /\ \A i \in 1 .. Len(c.left) - j : Tail(FromWord(c))[i] = c.left[j + i]
      BY <2>4, <3>1, WordPlace
    <3>3. /\ Len(in.left) \in Nat /\ Len(c.left) = Len(in.left) - k /\ k \in 1 .. Len(in.left)
          /\ j \in 1 .. Len(c.left) /\ DOMAIN in.left = 1 .. Len(in.left)
          /\ \A i \in 1 .. Len(in.left) - k : c.left[i] = in.left[k + i]
      BY <1>1, <1>5, <2>2, <3>1 DEF InputState
    <3>4. k + j \in DOMAIN in.left /\ k + j > k /\ in.left[k + j] = c.left[j]
      BY <3>3
    <3>5. \A i \in k + 1 .. (k + j) - 1 : in.left[i] = Newline
      <4> SUFFICES ASSUME NEW i \in k + 1 .. (k + j) - 1 PROVE in.left[i] = Newline
        OBVIOUS
      <4>1. i - k \in 1 .. j - 1 /\ i - k \in 1 .. Len(in.left) - k /\ k + (i - k) = i
        BY <3>3
      <4> QED
        BY <3>2, <3>3, <4>1
    <3>6. EndsLine(in.left, k + j)
      BY <1>4, <1>5, <2>1, <3>2, <3>4, <3>5 DEF Tidy
    <3>7. EndsLine(c.left, j)
      <4>1. CASE k + j = Len(in.left)
        BY <3>3, <4>1 DEF EndsLine
      <4>2. CASE k + j # Len(in.left)
        <5>1. in.left[(k + j) + 1] = Newline
          BY <3>6, <4>2 DEF EndsLine
        <5>2. j + 1 \in 1 .. Len(in.left) - k /\ k + (j + 1) = (k + j) + 1
          BY <3>3, <4>2
        <5>3. c.left[j + 1] = in.left[k + (j + 1)]
          BY <3>3, <5>2
        <5> QED
          BY <5>1, <5>2, <5>3 DEF EndsLine
      <4> QED
        BY <4>1, <4>2
    <3> QED
      BY <2>4, <3>1, <3>2, <3>7, WordEndsLine
  <2> QED
    BY <2>3, <2>4
<1> QED
  BY <1>2, <1>6, <1>7

(* The invariant holds at the start, if what is typed is tidy. *)
LEMMA InitLineInv ==
  ASSUME CommandsEndLines, DebugInit
  PROVE  LineInv
<1>1. PICK s \in Setups : in = Console(s.console, FALSE)
  BY DEF DebugInit
<1>2. Tidy(in.left)
  BY <1>1 DEF CommandsEndLines, Console
<1>3. debug => budget = 0 /\ steps = 0
  BY DEF DebugInit, Budget
<1> QED
  BY <1>2, <1>3 DEF LineInv

(* Every step preserves it. *)
LEMMA NextLineInv ==
  ASSUME DInv, LineInv, [DebugNext]_debugVars
  PROVE  LineInv'
<1>1. in \in InputState /\ in.left \in Seq(Items) /\ steps \in Nat /\ Tidy(in.left)
  BY ShapedParts DEF DInv, DebugTypeOK, InputState, LineInv, Shaped
<1>2. ASSUME IsRest(in'.left, in.left) PROVE Tidy(in.left)'
  <2>1. in'.left \in Seq(Items)
    BY NextDInv, ShapedParts DEF DInv, DebugTypeOK, Shaped, Items
  <2>2. Tidy(in'.left)
    BY <1>1, <1>2, <2>1, TidyRest
  <2> QED
    BY <2>2
<1>3. CASE UNCHANGED debugVars
  BY <1>3 DEF LineInv, debugVars, vars, dialog, AtEndOfLine, Tidy, EndsLine
<1>4. CASE MachineTurn
  <2>1. IsRest(in'.left, in.left)
    BY <1>1, <1>4, OneTurnRests DEF MachineTurn, DInv, DebugTypeOK
  <2>2. ShapeKept(Fetched) /\ mode = "running"
    BY <1>4, OneTurnKeeps DEF DInv, DebugTypeOK, MachineTurn
  <2>3. mode' # "running" \/ steps' # 0
    BY <1>1, <2>2 DEF ShapeKept
  <2> QED
    BY <1>2, <2>1, <2>3 DEF LineInv
<1>5. CASE Warn \/ Open
  <2>1. in' = in /\ mode' # "running"
    BY <1>5 DEF Warn, Open
  <2>2. IsRest(in'.left, in.left)
    BY <1>1, <2>1, ReadingRests
  <2> QED
    BY <1>2, <2>1, <2>2 DEF LineInv
<1>6. CASE Command
  <2>1. AfterCommand \in InputState /\ AfterCommand.left \in Seq(Items)
    BY <1>6, OperandType DEF DInv, DebugTypeOK, InputState
  <2>2. in' \in {AfterCommand, AfterWord(AfterCommand), AfterNumber(AfterCommand)}
    BY <1>6 DEF Command, Continue, StepOne, StepCount, ReadRegister, ReadMemory, Table, Help, Exit
  <2>3. Tidy(AfterCommand.left)
    BY <1>1, <2>1, ReadingRests, TidyRest DEF AfterCommand
  <2>4. Tidy(AfterWord(AfterCommand).left) /\ Tidy(AfterNumber(AfterCommand).left)
    <3>1. AfterWord(AfterCommand).left \in Seq(Items) /\ AfterNumber(AfterCommand).left \in Seq(Items)
      BY <2>1, AfterTypes DEF InputState
    <3> QED
      BY <2>1, <2>3, <3>1, ReadingRests, TidyRest
  <2>5. Tidy(in'.left)
    BY <2>2, <2>3, <2>4
  <2>6. mode' = "running" => in'.failed \/ in'.left = <<>> \/ Head(in'.left) = Newline
    BY <1>1, <1>6, CommandEnds
  <2> QED
    BY <2>5, <2>6 DEF LineInv, AtEndOfLine
<1> QED
  BY <1>3, <1>4, <1>5, <1>6 DEF DebugNext

(* At the end of a line INPUTS stores an empty text: a null.               *)
LEMMA EmptyLineStored ==
  ASSUME Shaped, PAGESIZE >= INSTRUCTION_LENGTH, AtEndOfLine, NEW i, Location(i) \in Cell,
         InputString(i)
  PROVE  mem'[Location(i)] = 0
<1> DEFINE a == Location(i)
           words == WithNull(LineRead)
           R(k) == Reachable(CharacterAt(a, k), INSTRUCTION_LENGTH)
           Fits(n) == (\A k \in 0 .. n - 1 : R(k)) /\ (n = 1 \/ ~ R(n))
<1>1. words[1] = 0 /\ Len(words) = 1
  <2>1. LineRead = <<>>
    BY DEF LineRead, AtEndOfLine
  <2>2. Widened(<<>>) \in Seq(Int) /\ Len(Widened(<<>>)) = 0
    BY DEF Widened
  <2> QED
    BY <2>1, <2>2 DEF WithNull
<1>2. /\ a \in Nat /\ a < MAXMEMORY /\ MAXMEMORY \in Nat /\ PAGESIZE \in Nat
      /\ MAXMEMORY + PAGESIZE < LONG
  BY AluAssumption, PlatformAssumption DEF Cell
<1>3. mem' = Poured(mem, a, words, Fitting(a, words))
  BY DEF InputString
<1> HIDE DEF a
<1>4. R(0)
  <2>1. a \in Word
    BY <1>2, Sizes DEF Word
  <2>2. a + 0 * INSTRUCTION_LENGTH = a /\ a % LONG = a
    BY <1>2, <2>1, WordParts DEF INSTRUCTION_LENGTH
  <2>3. CharacterAt(a, 0) = a
    BY <2>2 DEF CharacterAt
  <2> QED
    BY <1>2, <2>3 DEF Reachable, INSTRUCTION_LENGTH
<1> HIDE DEF R
<1>5. Fits(1) /\ \A n \in 0 .. 1 : Fits(n) => n = 1
  <2>1. \A n \in 0 .. 1 : n = 0 \/ n = 1
    OBVIOUS
  <2>2. \A k \in 0 .. 1 - 1 : R(k)
    BY <1>4
  <2>3. Fits(1)
    BY <2>2
  <2>4. ~ Fits(0)
    BY <1>4
  <2> HIDE DEF Fits
  <2> QED
    BY <2>1, <2>3, <2>4
<1>6. Fitting(a, words) = CHOOSE n \in 0 .. 1 : Fits(n)
  BY <1>1 DEF Fitting, R
<1> HIDE DEF Fits, words
<1>7. Fitting(a, words) = 1
  <2>1. 1 \in 0 .. 1
    OBVIOUS
  <2> QED
    BY <1>5, <1>6, <2>1, Zenon
<1>8. mem'[a] = ByteAt(words[1], 0)
  <2>1. a \in a .. a + 1 * INSTRUCTION_LENGTH - 1
    BY <1>2 DEF INSTRUCTION_LENGTH
  <2>2. (a - a) \div INSTRUCTION_LENGTH + 1 = 1 /\ (a - a) % INSTRUCTION_LENGTH = 0
    BY <1>2 DEF INSTRUCTION_LENGTH
  <2>3. a \in Cell
    BY DEF a
  <2> QED
    BY <1>3, <1>7, <2>1, <2>2, <2>3 DEF Poured
<1>9. ByteAt(0, 0) = 0
  <2>1. /\ 0 \in Int /\ Place[1] = 1 /\ 0 \div 1 = 0
    BY DEF Place
  <2>2. Base \in Int /\ Base > 0
    BY WordsAssumption
  <2>3. 0 % Base = 0
    BY <2>2, DivUnique, 0 = Base * 0 + 0
  <2> QED
    BY <2>1, <2>3 DEF ByteAt
<1> QED
  BY <1>1, <1>8, <1>9 DEF a

(* An INPUTS that comes first after a command stores the empty rest of the *)
(* line of the command: for every program, and every session in which the  *)
(* commands that resume it end their lines.                                *)
THEOREM CommandLineIsRead ==
  ASSUME CommandsEndLines, PAGESIZE >= INSTRUCTION_LENGTH
  PROVE  DebugSpec => CommandLineIsInput
<1>1. DebugInit => LineInv
  BY InitLineInv
<1>2. DInv /\ LineInv /\ [DebugNext]_debugVars => LineInv'
  BY NextLineInv
<1>3. ASSUME DInv, LineInv, DebugNext, debug, steps = 0, mode = "running", reg' # reg,
             Fetched.op = "INPUTS", Location(Fetched) \in Cell
      PROVE  mem'[Location(Fetched)] = 0
  <2> DEFINE i == Fetched
  <2>1. MachineTurn
    BY <1>3 DEF DebugNext, Warn, Open, Command
  <2>2. AtEndOfLine
    BY <1>3, <2>1 DEF LineInv, MachineTurn, TurnsLeft
  <2>3. OneTurn /\ ~ Throw
    BY <1>3, <2>1 DEF MachineTurn, Throw
  <2>4. Execute(i)
    BY <2>3 DEF OneTurn
  <2>5. i.op = "INPUTS" /\ Location(i) \in Cell
    BY <1>3
  <2> HIDE DEF i
  <2>6. InputString(i)
    BY <2>4, <2>5, Groups
       DEF Execute, Arithmetic, ArithmeticImmediate, Trap, JumpRegister, Jump, Branch, Load,
           Store, Upper, Halt, Printing, Debug, InputNumber, InputBool
  <2>7. mem'[Location(i)] = 0
    BY <1>3, <2>2, <2>5, <2>6, EmptyLineStored DEF DInv, DebugTypeOK
  <2> QED
    BY <2>7 DEF i
<1>4. DInv /\ LineInv /\ [DebugNext]_debugVars =>
        [(/\ debug /\ steps = 0 /\ mode = "running" /\ reg' # reg
          /\ Fetched.op = "INPUTS" /\ Location(Fetched) \in Cell)
           => mem'[Location(Fetched)] = 0]_debugVars
  BY <1>3
<1> QED
  BY <1>1, <1>2, <1>4, DebugInvariant, PTL DEF DebugSpec, CommandLineIsInput
=============================================================================
