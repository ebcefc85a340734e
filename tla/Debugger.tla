------------------------------ MODULE Debugger ------------------------------
(***************************************************************************)
(* alu::loop with its debugger: debugDialog and regSymStrToAddr in         *)
(* alu.cpp, over the machine of Alu.  When the loop ends, by its bound or  *)
(* behind a HALT, and debug is set, it holds a dialog, and calls itself    *)
(* with the number of turns the dialog returns.                            *)
(*                                                                         *)
(* The dialog reads its commands from the standard input that the program  *)
(* reads too, word by word.  It does not look at the state of the stream:  *)
(* where no word is to be had, the variable keeps its value, so the last   *)
(* command is carried out once more.  What it shows is not modelled (Parts *)
(* in Instructions is what it makes of a word), only what it comes to.     *)
(*                                                                         *)
(* A word of the input is what Alu makes of it, and two fields more: text, *)
(* in lower case, and place, what regSymStrToAddr takes it for.            *)
(***************************************************************************)
EXTENDS Alu

CONSTANTS
  LowerCase,     (* to_lower, as a function on the names with capitals     *)
  LongNames,     (* the names of more than 25 characters                   *)
  CONTINUE       (* the turns of a continue: 10000                         *)

VARIABLES
  debug,    (* the argument of loop                                        *)
  syms,     (* alu::syms, as a function from names to addresses            *)
  budget,   (* the argument maxSteps of the innermost loop                 *)
  cmd,      (* the variable of the innermost dialog                        *)
  due       (* history, no code: the turns asked for and not executed yet; *)
            (* -1 once there were more than that                           *)

dialog == <<debug, syms, budget, cmd, due>>

debugVars == <<vars, dialog>>

ASSUME DebuggerAssumption ==
  /\ RegisterOf \in [DOMAIN RegisterOf -> 0 .. REGISTERS_END]
  /\ \A n \in DOMAIN LowerCase : n \notin DOMAIN RegisterOf /\ LowerCase[n] \notin DOMAIN LowerCase
  /\ CONTINUE \in Nat
  /\ \A s \in Setups : s.debug \in BOOLEAN

-----------------------------------------------------------------------------
(* Words typed at the dialog. *)

(* All digits, (8)sp, a name, or what stol throws at: 8(sp), no word.      *)
Digits(v) == [form |-> "digits", value |-> v]
Inside(v, n) == [form |-> "name", name |-> n, offset |-> v]
Bare(n) == Inside(0, n)
NoNumber == [form |-> "bad"]

(* A variable that nothing was read into. *)
Nothing == [text |-> "", place |-> NoNumber, number |-> FALSE]

(* A mutant of FreshCommand: the variable outlives its dialog. *)
StaleCommand == cmd

FreshCommand == ""

Typed == IF NoWord(in) THEN cmd ELSE NextWord(in).text

AfterCommand == AfterWord(in)

Operand == IF NoWord(AfterCommand) THEN Nothing ELSE NextWord(AfterCommand)

(* getID looks for the lower case of a name, and throws if it is no        *)
(* register's; the assembler compares names as they are.                   *)
InLowerCase(n) == IF n \in DOMAIN LowerCase THEN LowerCase[n] ELSE n

IsRegister(n) == InLowerCase(n) \in DOMAIN RegisterOf

GetID(n) == RegisterOf[InLowerCase(n)]

(* A mutant of Symbol: the name is in lower case there, too. *)
SymbolInLowerCase(n) == InLowerCase(n)

(* What the symbol table is asked for: str, of which getID has a copy. *)
Symbol(n) == n

(* The names getID and the symbol table find; another is looked up in vain *)
(* and the null pointer is followed.                                       *)
Found(p) ==
  \/ p.form = "digits"
  \/ p.form = "name" /\ (IsRegister(p.name) \/ Symbol(p.name) \in DOMAIN syms)

(* regSymStrToAddr: a register hides a symbol, also one that has its name  *)
(* in capitals; the long goes to an int.                                   *)
PlaceAddress(p) ==
  LET exact == CASE p.form = "digits" -> p.value
                 [] p.form = "name" ->
                      p.offset + IF IsRegister(p.name) THEN reg[GetID(p.name)] ELSE syms[Symbol(p.name)]
  IN  Wrapped(exact, INT) % LONG

-----------------------------------------------------------------------------
(* The loop. *)

(* A mutant of Budget: cli.cpp forgets to make it zero. *)
BudgetKept(d) == maxSteps

(* The turns before the first dialog. *)
Budget(d) == IF d THEN 0 ELSE maxSteps

TurnsLeft == steps < budget

DebugInit ==
  /\ reg = Started
  /\ \E s \in Setups :
       /\ mem = s.image /\ in = Console(s.console, FALSE)
       /\ debug = s.debug /\ syms = s.syms
  /\ out = <<>> /\ steps = 0 /\ mode = "running"
  /\ budget = Budget(debug)
  /\ cmd = "" /\ due = 0

MachineTurn ==
  /\ mode = "running" /\ TurnsLeft
  /\ OneTurn
  /\ due' = IF due > 0 THEN due - 1 ELSE - 1
  /\ UNCHANGED <<debug, syms, budget, cmd>>

(* Without the debugger: the warning, and the end. *)
Warn ==
  /\ mode = "running" /\ ~ TurnsLeft /\ ~ debug
  /\ mode' = "exhausted"
  /\ UNCHANGED <<reg, mem, in, out, steps, dialog>>

(* debugDialog begins.  What a HALT cut off is not due any more. *)
Open ==
  /\ debug
  /\ \/ mode = "running" /\ ~ TurnsLeft /\ UNCHANGED due
     \/ mode = "halted" /\ due' = IF due > 0 THEN 0 ELSE due
  /\ mode' = "dialog"
  /\ cmd' = FreshCommand
  /\ UNCHANGED <<reg, mem, in, out, steps, debug, syms, budget>>

-----------------------------------------------------------------------------
(* The dialog, one command.  Next to none touches the machine.             *)

(* The dialog returns n and the loop calls itself. *)
Resume(n) ==
  /\ mode' = "running"
  /\ steps' = 0 /\ budget' = n
  /\ due' = due + (IF n > 0 THEN n ELSE 0)

Continue == Typed = "continue" /\ Resume(CONTINUE) /\ in' = AfterCommand

StepOne == Typed = "step" /\ Resume(1) /\ in' = AfterCommand

(* A number that cannot be read is zero. *)
StepCount ==
  /\ Typed = "stepcount"
  /\ Resume(IF Operand.number THEN Operand.long ELSE 0)
  /\ in' = AfterNumber(AfterCommand)

(* How a command ends that does not return. *)
Outcome(m) == mode' = m /\ UNCHANGED <<steps, budget, due>>

(* getID throws a text; the handler is for an int. *)
ReadRegister ==
  /\ Typed = "readreg"
  /\ Outcome(IF IsRegister(Operand.text) THEN "dialog" ELSE "threw")
  /\ in' = AfterWord(AfterCommand)

ReadMemory ==
  /\ Typed \in {"readmem", "readinst"}
  /\ LET p == Operand.place
     IN  Outcome(CASE p = NoNumber -> "threw"
                   [] p # NoNumber /\ ~ Found(p) -> "killed"
                   [] OTHER -> IF Reachable(PlaceAddress(p), 8) THEN "dialog" ELSE "threw")
  /\ in' = AfterWord(AfterCommand)

(* A column of less than no blanks. *)
Table ==
  /\ Typed = "table"
  /\ Outcome(IF DOMAIN syms \cap LongNames = {} THEN "dialog" ELSE "threw")
  /\ in' = AfterCommand

Exit == Typed \in {"exit", "quit"} /\ Outcome("exited") /\ in' = AfterCommand

(* help, and what is no command. *)
Help ==
  /\ Typed \notin {"continue", "step", "stepcount", "readreg", "readmem", "readinst", "table",
                   "exit", "quit"}
  /\ Outcome("dialog")
  /\ in' = AfterCommand

Command ==
  /\ mode = "dialog"
  /\ cmd' = Typed
  /\ \/ Continue \/ StepOne \/ StepCount
     \/ ReadRegister \/ ReadMemory \/ Table \/ Help \/ Exit
  /\ UNCHANGED <<reg, mem, out, debug, syms>>

DebugNext == MachineTurn \/ Warn \/ Open \/ Command

DebugSpec == DebugInit /\ [][DebugNext]_debugVars /\ WF_debugVars(DebugNext)

-----------------------------------------------------------------------------
Ended == {"exhausted", "threw", "killed", "exited"}

(* The run-time shape of the state. *)
DebugTypeOK ==
  /\ Shaped
  /\ mode \in Ended \cup {"running", "halted", "dialog"}
  /\ debug \in BOOLEAN /\ budget \in Int
  /\ due \in Nat \cup {- 1}

(* With the debugger, the program has executed, at every dialog, exactly   *)
(* the instructions that step, stepCount and continue asked for, except    *)
(* those behind a HALT that cut a continue short; and never one more: not  *)
(* before the first command, and not after a count that is zero, negative  *)
(* or no number.                                                           *)
AsksHonoured ==
  debug => due >= 0 /\ (mode = "dialog" => due = 0)

(* The dialog returns to the program only by a command typed at it: one     *)
(* left over from an earlier dialog, or repeated because input has ended,  *)
(* does not resume the program.                                            *)
ResumedByCommand ==
  [][ (mode = "dialog" /\ mode' = "running")
        => ~ NoWord(in) /\ NextWord(in).text \in {"continue", "step", "stepcount"} ]_debugVars

(* What is typed, so that a command that resumes the program, or the count *)
(* behind it, ends its line.                                               *)
EndsLine(left, k) == k = Len(left) \/ left[k + 1] = Newline

Tidy(left) ==
  \A k \in {j \in DOMAIN left : left[j] # Newline} :
    /\ left[k].text \in {"continue", "step"} => EndsLine(left, k)
    /\ left[k].text = "stepcount" =>
         \A j \in DOMAIN left :
           (j > k /\ left[j] # Newline /\ \A i \in k + 1 .. j - 1 : left[i] = Newline)
             => EndsLine(left, j)

CommandsEndLines == \A s \in Setups : Tidy(s.console)

(* operator>> leaves the end of the line of a command where it is: the     *)
(* program's INPUTS, when it is the first instruction after the command,   *)
(* does not wait for a line but stores the empty rest of that one.         *)
CommandLineIsInput ==
  [][ (/\ debug /\ steps = 0 /\ mode = "running" /\ reg' # reg
       /\ Fetched.op = "INPUTS" /\ Location(Fetched) \in Cell)
        => mem'[Location(Fetched)] = 0 ]_debugVars

(* What is to come of a session while no input is used up: the turns of a  *)
(* loop, its end behind a HALT or by its bound, and the dialog.            *)
Rank(m) == CASE m = "running" -> 3 [] m = "halted" -> 2 [] m = "dialog" -> 1 [] OTHER -> 0

(* A word or a line is taken, or the stream fails, which it does once. *)
InputUsed == Len(in'.left) < Len(in.left) \/ (in'.failed /\ ~ in.failed)

(* No session goes round in a circle: whatever is typed, each step takes   *)
(* input, or takes the loop and its dialog towards their end, or is a turn *)
(* within the bound the last command set; input never comes back, and a    *)
(* stream that has failed stays as it is.  So the loop can call itself no  *)
(* more often than there are words typed, and a dialog at the end of its   *)
(* input, which repeats a command for ever, changes nothing by it.         *)
SessionAdvances ==
  [][ /\ Len(in'.left) <= Len(in.left)
      /\ in.failed => in' = in
      /\ \/ InputUsed
         \/ Rank(mode') < Rank(mode)
         \/ mode = "running" /\ mode' = mode /\ budget' = budget /\ steps < steps' /\ steps' <= budget
    ]_debugVars

(* Every session settles: the process ends, or the dialog, whose input has *)
(* ended or failed, repeats one command for ever and nothing changes any   *)
(* more.                                                                   *)
SessionSettles ==
  <>[](mode \in Ended \cup {"halted"} \/ (mode = "dialog" /\ in.failed))

(* alu.cpp, in debugDialog and regSymStrToAddr: a name that is that of no  *)
(* register, or of no symbol either, is answered with a message, and the   *)
(* dialog goes on.                                                         *)
UnknownNamesAnswered ==
  [][ LET p == Operand.place
      IN  (/\ mode = "dialog" /\ p.form = "name"
           /\ \/ Typed = "readreg" /\ ~ IsRegister(p.name)
              \/ Typed \in {"readmem", "readinst"} /\ ~ Found(p))
            => mode' = "dialog" ]_debugVars
=============================================================================
