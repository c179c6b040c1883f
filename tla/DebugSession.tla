---------------------------- MODULE DebugSession ----------------------------
(***************************************************************************)
(* debug/: one debug.Session.  Two goroutines share it:                    *)
(*                                                                         *)
(*  - the VM's goroutine runs play(): check the breakpoints, serve the     *)
(*    commands it is asked to yield for, run one instruction, repeat; an   *)
(*    Input instruction blocks in inputAdapter(), which serves commands    *)
(*    too;                                                                 *)
(*  - the caller's goroutine (the DAP handler) makes one API call at a     *)
(*    time.  Most calls are a closure that runInVm() sends over an         *)
(*    unbuffered channel for the VM's goroutine to run, and waits for;     *)
(*    Terminate() closes that channel.                                     *)
(*                                                                         *)
(* The program is data: instructions are told apart by what they do to the *)
(* stack, by whether they do input or output and by whether they can fail. *)
(***************************************************************************)
EXTENDS EventHost, Integers

CONSTANTS
  LastPC,          (* the program's instructions are 0..LastPC             *)
  Op,              (* what kind each instruction is                        *)
  Line,            (* the source line of each instruction                  *)
  Target,          (* where a call or a jump goes                          *)
  MaxInstructions, (* asm.MaxInstructions                                  *)
  MaxStack,        (* asm.MaxStack                                         *)
  BreakSets,       (* the sets of pcs the client may set breakpoints on    *)
  Ops,             (* the API calls this client uses                       *)
  Eager            (* it may resume a program it was not told has stopped  *)

PCs == 0..LastPC

(* "plain": no jump, no i/o, cannot fail.  "leave": return, end.  "lib" is *)
(* an instruction or library call that may panic.                          *)
OpKinds == {"plain", "jump", "call", "leave", "output", "input", "lib"}

(* Assemble() ends the code with the instruction that leaves a function,   *)
(* so no other instruction runs off the end.                               *)
ASSUME ProgramAssumption ==
  /\ LastPC \in Nat
  /\ Op \in [PCs -> OpKinds]
  /\ Line \in [PCs -> Nat]
  /\ Target \in [PCs -> PCs]
  /\ Op[LastPC] = "leave"

ASSUME BoundsAssumption ==
  /\ MaxInstructions \in Nat
  /\ MaxStack \in Nat \ {0}
  /\ BreakSets \subseteq SUBSET PCs

Frames    == [start : PCs, ret : PCs]
StepTypes == {"NEXT", "IN", "OUT"}
StepGrans == {"line", "inst"}

(* stepGran, stepInst, stepLine and stepFrame mean something only while    *)
(* stepType is not STEP_NONE.                                              *)
ArmedSteps == [type : StepTypes, gran : StepGrans, inst : PCs, line : Nat, frame : Nat]
NoStep     == [type |-> "NONE"]

(* The closures runInVm() is given.  "inspect" stands for those that only  *)
(* read (GetStackFrames, GetCurrentException), "eval" for the evaluation   *)
(* of an expression, "evalInput" for one that reads input.                 *)
Commands ==
  [op : {"continue", "pause", "inspect", "eval", "evalInput"}]
    \cup [op : {"step"}, type : StepTypes, gran : StepGrans]
    \cup [op : {"restartFrame"}, id : Nat]
    \cup [op : {"lineBreaks", "instBreaks"}, pcs : SUBSET PCs]
NoCmd == [op |-> "inspect"]

VARIABLES
  noDebug, stopOnEntry,            (* Opts                                 *)
  pc, stack,                       (* Execution.PC, Stack                  *)
  native,         (* AddPanicFrames left library frames on top of stack    *)
  vm,             (* where the VM's goroutine is                           *)
  count, exitCode,                 (* play()'s locals                      *)
  fatal,          (* play() unwinds with a panic nobody recovers           *)
  timer,          (* the timeout of inputAdapter(): armed, fired, or off   *)
                  (* while no Input instruction is in it                   *)
  evalTimer,      (* the same of the call an evaluation makes, on top      *)
  inputOpen,      (* Opts.Input is not closed                              *)
  runState, yield, commandsClosed, done, exception, lineBreaks, instBreaks,
  step,           (* stepType, stepGran, stepInst, stepLine, stepFrame     *)
  ctl,            (* where the caller's goroutine is                       *)
  cmd,            (* the closure it passes to runInVm()                    *)
  commanded,      (* history: a command ran since the last checkBreakpoints *)
  told,           (* history: what the client last heard about the run     *)
  late            (* history: how many events were sent after suppression  *)

opts      == <<noDebug, stopOnEntry>>
execVars  == <<pc, stack, native>>
playVars  == <<count, exitCode, fatal>>
inputVars == <<timer, evalTimer>>
breakVars == <<lineBreaks, instBreaks>>
heard     == <<told, late>>
vars == <<hostVars, heard, opts, execVars, vm, playVars, inputVars, inputOpen, runState,
          yield, commandsClosed, done, exception, breakVars, step, ctl, cmd,
          commanded>>

Told == StopEvents \cup EndEvents \cup {"nothing", "continued", "resumed"}

VmStates  == {"unstarted", "top", "wait", "cmd", "cmdEnd", "cmdPanic", "input",
              "after", "exit", "closing", "done", "crashed"}
Timers    == {"off", "armed", "fired"}
CtlStates == {"idle", "send", "await", "returning", "terminating", "closing",
              "waiting", "panicked"}

Init ==
  /\ HostInit
  /\ noDebug \in BOOLEAN /\ stopOnEntry \in BOOLEAN
  /\ pc = 0 /\ stack = <<[start |-> 0, ret |-> 0]>> /\ native = FALSE
  /\ vm = "unstarted" /\ count = 0 /\ exitCode = 0 /\ fatal = FALSE
  /\ timer = "off" /\ evalTimer = "off" /\ inputOpen \in BOOLEAN
  /\ runState = "UNSTARTED" /\ yield = FALSE /\ commandsClosed = FALSE
  /\ done = FALSE /\ exception = FALSE
  /\ \E bps \in BreakSets : lineBreaks = IF stopOnEntry THEN bps \cup {0} ELSE bps
  /\ instBreaks = {}
  /\ step = NoStep /\ ctl = "idle" /\ cmd = NoCmd /\ commanded = FALSE
  /\ told = "nothing" /\ late = 0

-----------------------------------------------------------------------------
(* The caller's goroutine.  The process is gone once play() has crashed.   *)
CtlStep(from, to) ==
  /\ ctl = from
  /\ vm # "crashed"
  /\ ctl' = to
  /\ UNCHANGED <<opts, execVars, playVars, inputVars, inputOpen, done, exception,
                 step, commanded, late>>

(* It leaves the session as it is.                                         *)
Quietly == UNCHANGED <<hostVars, told, vm, runState, yield, commandsClosed, breakVars, cmd>>

Play ==
  /\ runState = "UNSTARTED"
  /\ CtlStep("idle", "idle")
  /\ runState' = "RUN"
  /\ vm' = "top"
  /\ UNCHANGED <<hostVars, told, yield, commandsClosed, breakVars, cmd>>

(* Play() panics unless the session is unstarted: its caller's goroutine   *)
(* makes no more calls.                                                    *)
PlayAgain == runState # "UNSTARTED" /\ CtlStep("idle", "panicked") /\ Quietly

(* UpdateLineBreakpoints() and UpdateInstBreakpoints() before Play(): the  *)
(* caller still owns the session.                                          *)
UpdateUnstarted ==
  /\ ~noDebug
  /\ runState = "UNSTARTED"
  /\ CtlStep("idle", "idle")
  /\ \E bps \in BreakSets :
       \/ "lineBreaks" \in Ops /\ lineBreaks' = bps /\ UNCHANGED instBreaks
       \/ "instBreaks" \in Ops /\ instBreaks' = bps /\ UNCHANGED lineBreaks
  /\ UNCHANGED <<hostVars, told, vm, runState, yield, commandsClosed, cmd>>

(* runInVm(): ask for a yield, then offer the closure on ds.commands.      *)
(* Nothing happens once the channel is closed, nor without debugging.      *)
(* Mutant: the channel is not looked at.                                   *)
Unguarded == TRUE
Guarded   == ~commandsClosed

RunInVm(c) ==
  /\ ~noDebug
  /\ c.op \in Ops
  /\ Guarded
  /\ CtlStep("idle", "send")
  /\ yield' = TRUE
  /\ cmd' = c
  /\ UNCHANGED <<vm, runState, commandsClosed, breakVars>>

(* The client is told it resumes before Continue() is called.              *)
CallContinue ==
  /\ Eager \/ told \in StopEvents
  /\ RunInVm([op |-> "continue"])
  /\ told' = IF told \in EndEvents THEN told ELSE "resumed"
  /\ UNCHANGED hostVars

CallStep ==
  /\ Eager \/ told \in StopEvents
  /\ \E type \in StepTypes, gran \in StepGrans :
       RunInVm([op |-> "step", type |-> type, gran |-> gran])
  /\ UNCHANGED <<hostVars, told>>

CallRestartFrame ==
  /\ \E id \in 1..(MaxStack + 1) : RunInVm([op |-> "restartFrame", id |-> id])
  /\ UNCHANGED <<hostVars, told>>

CallUpdateBreakpoints ==
  /\ runState # "UNSTARTED"
  /\ \E kind \in {"lineBreaks", "instBreaks"}, bps \in BreakSets :
       RunInVm([op |-> kind, pcs |-> bps])
  /\ UNCHANGED <<hostVars, told>>

(* Pause, GetStackFrames, GetCurrentException, EvaluateExpressionInFrame.  *)
CallOther ==
  /\ \E op \in {"pause", "inspect", "eval", "evalInput"} : RunInVm([op |-> op])
  /\ UNCHANGED <<hostVars, told>>

(* runInVm(), both selects: the closure has closed its own channel, or the *)
(* VM has closed ds.done.                                                  *)
(* Mutants: the caller does not wait for the closure to run, does not      *)
(* watch ds.done.                                                          *)
NotAwaited   == CtlStep("returning", "idle") \/ CtlStep("await", "idle")
CommandDone  == CtlStep("returning", "idle")
NotWatched   == FALSE
SessionDone  == done /\ (CtlStep("send", "idle") \/ CtlStep("await", "idle"))

CallReturns ==
  /\ CommandDone \/ SessionDone
  /\ cmd' = NoCmd
  /\ UNCHANGED <<hostVars, told, vm, runState, yield, commandsClosed, breakVars>>

(* Terminate(), and Halt(), which suppresses the host first.               *)
Terminate == CtlStep("idle", "terminating") /\ Quietly

Halt ==
  /\ CtlStep("idle", "terminating")
  /\ SuppressAllEvents
  /\ UNCHANGED <<told, vm, runState, yield, commandsClosed, breakVars, cmd>>

TerminateYield ==
  /\ CtlStep("terminating", "closing")
  /\ yield' = TRUE
  /\ UNCHANGED <<hostVars, told, vm, runState, commandsClosed, breakVars, cmd>>

CloseCommands ==
  /\ CtlStep("closing", "idle")
  /\ commandsClosed' = TRUE
  /\ UNCHANGED <<hostVars, told, vm, runState, yield, breakVars, cmd>>

(* Wait(): its one caller (dap's restart) halts the session first.         *)
Wait == commandsClosed /\ CtlStep("idle", "waiting") /\ Quietly

WaitReturns == done /\ CtlStep("waiting", "idle") /\ Quietly

-----------------------------------------------------------------------------
(* The VM's goroutine.  It finishes its host calls before anything else.   *)
VmStep(from, to) ==
  /\ vm = from
  /\ HostQuiet
  /\ vm' = to
  /\ UNCHANGED <<heard, opts, inputOpen, commandsClosed>>

Depth == Len(stack) + (IF native THEN 1 ELSE 0)

(* checkBreakpoints(): has the armed step arrived?                         *)
(* Mutant: stepping over the end of a function runs on.                    *)
NextInFrame(stackDiff, ptrDiff) == stackDiff = 0 /\ ptrDiff
NextHit(stackDiff, ptrDiff)     == stackDiff < 0 \/ (stackDiff = 0 /\ ptrDiff)

StepHit ==
  LET stackDiff == Depth - step.frame
      ptrDiff   == IF step.gran = "line" THEN Line[pc] # step.line ELSE pc # step.inst
  IN  \/ step.type = "NEXT" /\ NextHit(stackDiff, ptrDiff)
      \/ step.type = "IN" /\ (stackDiff # 0 \/ ptrDiff)
      \/ step.type = "OUT" /\ stackDiff < 0

BreakHit == pc \in lineBreaks \cup instBreaks

CheckBreakpoints ==
  /\ VmStep("top", "wait")
  /\ Post((IF StepHit THEN <<"step">> ELSE <<>>)
            \o (IF BreakHit THEN <<"breakpoint">> ELSE <<>>))
  /\ runState' = IF StepHit \/ BreakHit THEN "PAUSE" ELSE runState
  /\ step' = IF StepHit \/ BreakHit THEN NoStep ELSE step
  /\ commanded' = FALSE
  /\ UNCHANGED <<execVars, playVars, inputVars, yield, done, exception, breakVars,
                 ctl, cmd>>

(* play() must receive a command before it goes on.                        *)
MustYield == runState = "PAUSE" \/ yield

(* The loop of play() or the select of inputAdapter() takes the closure.   *)
ReceiveCmd ==
  /\ (VmStep("wait", "cmd") /\ MustYield) \/ VmStep("input", "cmd")
  /\ ctl = "send"
  /\ ctl' = "await"
  /\ UNCHANGED <<hostVars, execVars, playVars, inputVars, runState, yield, done,
                 exception, breakVars, step, cmd, commanded>>

(* The closure: withdraw the request to yield, then do the call's work.    *)
(* Mutant: the request stays.                                              *)
KeepYield     == UNCHANGED yield
WithdrawYield == yield' = FALSE

RunCmd(op, to) ==
  /\ VmStep("cmd", to)
  /\ cmd.op = op
  /\ WithdrawYield
  /\ commanded' = TRUE
  /\ UNCHANGED <<playVars, done, ctl, cmd>>

CmdContinue ==
  /\ RunCmd("continue", "cmdEnd")
  /\ runState' = "RUN"
  /\ UNCHANGED <<hostVars, execVars, inputVars, exception, breakVars, step>>

CmdPause ==
  /\ RunCmd("pause", "cmdEnd")
  /\ Post(<<"pause">>)
  /\ runState' = "PAUSE"
  /\ UNCHANGED <<execVars, inputVars, exception, breakVars, step>>

CmdStep ==
  /\ RunCmd("step", "cmdEnd")
  /\ step' = [type |-> cmd.type, gran |-> cmd.gran, inst |-> pc, line |-> Line[pc],
              frame |-> Depth]
  /\ UNCHANGED <<hostVars, execVars, inputVars, runState, exception, breakVars>>

(* Mutant: as Call.Exec does, expect play() to advance it.                 *)
BeforeStart(frame) == frame.start - 1
RestartPC(frame)   == frame.start

(* RestartFrame(): drop the frames above frame id, go back to its start.   *)
(* Served by inputAdapter(), it unwinds to play() with a panic.            *)
CmdRestartFrame ==
  /\ RunCmd("restartFrame", IF timer = "off" THEN "cmdEnd" ELSE "cmdPanic")
  /\ cmd.id \in 1..Len(stack)
  /\ stack' = SubSeq(stack, 1, cmd.id)
  /\ pc' = RestartPC(stack[cmd.id])
  /\ native' = FALSE
  /\ exception' = FALSE
  /\ timer' = "off"
  /\ UNCHANGED <<hostVars, evalTimer, runState, breakVars, step>>

(* "invalid frame id", "cannot restart native frame".                      *)
CmdRestartNoFrame ==
  /\ RunCmd("restartFrame", "cmdEnd")
  /\ cmd.id \notin 1..Len(stack)
  /\ UNCHANGED <<hostVars, execVars, inputVars, runState, exception, breakVars, step>>

CmdBreakpoints ==
  /\ \/ RunCmd("lineBreaks", "cmdEnd") /\ lineBreaks' = cmd.pcs /\ UNCHANGED instBreaks
     \/ RunCmd("instBreaks", "cmdEnd") /\ instBreaks' = cmd.pcs /\ UNCHANGED lineBreaks
  /\ UNCHANGED <<hostVars, execVars, inputVars, runState, exception, step>>

CmdInspect ==
  /\ RunCmd("inspect", "cmdEnd")
  /\ UNCHANGED <<hostVars, execVars, inputVars, runState, exception, breakVars, step>>

(* evaluateExprInFrame() runs on a copy of the Execution: of the session   *)
(* it can only reach the input and the output.                             *)
CmdEval ==
  /\ RunCmd("eval", "cmdEnd")
  /\ \E out \in {<<>>, <<"output">>} : Post(out)
  /\ UNCHANGED <<execVars, inputVars, runState, exception, breakVars, step>>

CmdEvalInput ==
  /\ RunCmd("evalInput", "input")
  /\ Post(<<"output">>)
  /\ evalTimer' = "armed"
  /\ UNCHANGED <<execVars, timer, runState, exception, breakVars, step>>

(* The closure's deferred close(done); back to the loop that served it.    *)
EndCmd ==
  /\ \/ VmStep("cmdEnd", IF timer = "off" THEN "wait" ELSE "input")
     \/ VmStep("cmdPanic", "after")
  /\ ctl' = "returning"
  /\ UNCHANGED <<hostVars, execVars, playVars, inputVars, runState, yield, done,
                 exception, breakVars, step, cmd, commanded>>

(* The channel is closed: play() returns; inputAdapter() unwinds to it.    *)
(* Mutant: inputAdapter() watches the input only.                          *)
OnlyPlayExits == VmStep("wait", "exit") /\ MustYield
PlayExits     == (VmStep("wait", "exit") /\ MustYield) \/ VmStep("input", "exit")

ExitRequested ==
  /\ PlayExits
  /\ commandsClosed
  /\ timer' = "off"
  /\ UNCHANGED <<hostVars, execVars, playVars, evalTimer, runState, yield, done,
                 exception, breakVars, step, ctl, cmd, commanded>>

-----------------------------------------------------------------------------
(* One instruction.                                                        *)
(* Mutant: a client may continue past an exception.                        *)
IgnoreException == ~MustYield
MayExecute      == ~MustYield /\ ~exception

BeginInst(op, to) ==
  /\ VmStep("wait", to)
  /\ MayExecute
  /\ Op[pc] = op
  /\ UNCHANGED <<playVars, evalTimer, yield, done, breakVars, ctl, cmd, commanded>>

(* A panic in Exec(), as play() recovers it.                               *)
Raise(inLibrary) ==
  /\ exception' = TRUE
  /\ native' = inLibrary
  /\ IF noDebug
       THEN UNCHANGED <<hostVars, runState, step>>
       ELSE Post(<<"exception">>) /\ runState' = "PAUSE" /\ step' = NoStep
  /\ UNCHANGED <<pc, stack>>

NoPanic == UNCHANGED <<native, exception, runState, step>>

ExecPlain ==
  /\ \E op \in {"plain", "lib"} : BeginInst(op, "after")
  /\ pc' = pc + 1
  /\ NoPanic
  /\ UNCHANGED <<hostVars, stack, timer>>

ExecFails ==
  /\ BeginInst("lib", "after")
  /\ \E inLibrary \in BOOLEAN : Raise(inLibrary)
  /\ UNCHANGED timer

ExecJump ==
  /\ BeginInst("jump", "after")
  /\ pc' \in {pc + 1, Target[pc]}
  /\ NoPanic
  /\ UNCHANGED <<hostVars, stack, timer>>

ExecCall ==
  /\ BeginInst("call", "after")
  /\ Len(stack) < MaxStack
  /\ stack' = Append(stack, [start |-> Target[pc], ret |-> pc])
  /\ pc' = Target[pc]
  /\ NoPanic
  /\ UNCHANGED <<hostVars, timer>>

(* "stack overflow"                                                        *)
ExecCallOverflows ==
  /\ BeginInst("call", "after")
  /\ Len(stack) >= MaxStack
  /\ Raise(FALSE)
  /\ UNCHANGED timer

ExecLeave ==
  /\ BeginInst("leave", "after")
  /\ pc' = stack[Len(stack)].ret + 1
  /\ stack' = SubSeq(stack, 1, Len(stack) - 1)
  /\ NoPanic
  /\ UNCHANGED <<hostVars, timer>>

ExecOutput ==
  /\ BeginInst("output", "after")
  /\ Post(<<"output">>)
  /\ pc' = pc + 1
  /\ NoPanic
  /\ UNCHANGED <<stack, timer>>

(* An Input call prompts and waits in inputAdapter().                      *)
ExecInput ==
  /\ BeginInst("input", "input")
  /\ Post(<<"output">>)
  /\ timer' = "armed"
  /\ NoPanic
  /\ UNCHANGED <<pc, stack>>

-----------------------------------------------------------------------------
(* inputAdapter().                                                         *)
Evaluating == evalTimer # "off"

Timer == IF Evaluating THEN evalTimer ELSE timer

(* The select of the innermost inputAdapter() call; its timer becomes t.   *)
InputStep(to, t) ==
  /\ VmStep("input", to)
  /\ IF Evaluating THEN evalTimer' = t /\ UNCHANGED timer
                   ELSE timer' = t /\ UNCHANGED evalTimer
  /\ UNCHANGED <<playVars, yield, done, breakVars, ctl, cmd, commanded>>

(* Where the call returns to.                                              *)
InputReturns(to) == InputStep(IF Evaluating THEN "cmdEnd" ELSE to, "off")

(* After 100ms without input the client is told, once per call.            *)
InputTimeout ==
  /\ Timer = "armed"
  /\ InputStep("input", "fired")
  /\ Post(<<"i/o wait">>)
  /\ NoPanic
  /\ UNCHANGED <<pc, stack>>

(* Input ends the wait that the client was told of: the program continues, *)
(* unless it was paused meanwhile.                                         *)
(* Mutant: or even then.                                                   *)
ResumedAlways == IF Timer = "fired" THEN <<"continued">> ELSE <<>>
Resumed == IF Timer = "fired" /\ runState = "RUN" THEN <<"continued">> ELSE <<>>

(* A line arrives and the library accepts it: the call returns.            *)
InputAccepted ==
  /\ inputOpen
  /\ InputReturns("after")
  /\ Post(Resumed)
  /\ pc' = IF Evaluating THEN pc ELSE pc + 1
  /\ NoPanic
  /\ UNCHANGED stack

(* ... or rejects it (not an integer, say) and prompts again.              *)
InputRejected ==
  /\ inputOpen
  /\ InputStep("input", "armed")
  /\ Post(Resumed \o <<"output">>)
  /\ NoPanic
  /\ UNCHANGED <<pc, stack>>

(* End of file: the library panics.  An evaluation's Run() recovers that.  *)
InputEof ==
  /\ ~inputOpen
  /\ InputReturns("after")
  /\ IF Evaluating THEN NoPanic /\ UNCHANGED <<hostVars, pc, stack>> ELSE Raise(TRUE)

(* The terminal goes away.                                                 *)
CloseInput ==
  /\ inputOpen
  /\ vm # "crashed"
  /\ inputOpen' = FALSE
  /\ UNCHANGED <<hostVars, heard, opts, execVars, vm, playVars, inputVars, runState, yield,
                 commandsClosed, done, exception, breakVars, step, ctl, cmd, commanded>>

-----------------------------------------------------------------------------
(* After the instruction, and the end of play().                           *)
PlayStep(from, to) ==
  /\ VmStep(from, to)
  /\ UNCHANGED <<execVars, inputVars, yield, exception, breakVars, step, ctl, cmd,
                 commanded>>

(* Mutant: the exit code is forgotten.                                     *)
ExitCodeKept == UNCHANGED exitCode
ExitCodeOne  == exitCode' = 1

(* executePanic(): the client resumed a program that stopped on an         *)
(* exception, or there is no debugging and nobody to stop for.             *)
ExecutePanic ==
  /\ \/ PlayStep("wait", "exit") /\ ~MustYield
     \/ PlayStep("after", "exit") /\ noDebug
  /\ exception
  /\ ExitCodeOne
  /\ Post(<<"output", "panicked">>)
  /\ UNCHANGED <<count, fatal, runState, done>>

(* Stop on the exception (for a second time), return when the program has  *)
(* ended, or count the instruction and go on.                              *)
AfterInst ==
  LET limit == count + 1 > MaxInstructions
  IN  /\ PlayStep("after", IF stack = <<>> \/ limit THEN "exit" ELSE "top")
      /\ ~(exception /\ noDebug)
      /\ Post(IF exception THEN <<"exception">> ELSE <<>>)
      /\ runState' = IF exception THEN "PAUSE" ELSE runState
      /\ count' = IF stack = <<>> THEN count ELSE count + 1
      /\ fatal' = (stack # <<>> /\ limit)
      /\ UNCHANGED <<exitCode, done>>

(* The deferred Host.Exited(exitCode) ...                                  *)
(* Mutant: Terminated() comes first.                                       *)
ExitedLast == <<"terminated", "exited">>
Exited     == <<"exited", "terminated">>

HostExited ==
  /\ PlayStep("exit", "closing")
  /\ Post(Exited)
  /\ UNCHANGED <<playVars, runState, done>>

(* ... and the deferred close(ds.done).                                    *)
(* Mutant: the deferred calls run in the order they are written.           *)
CloseDoneFirst ==
  /\ PlayStep("exit", "done")
  /\ done' = TRUE
  /\ UNCHANGED <<hostVars, playVars, runState>>

CloseDone ==
  /\ PlayStep("closing", "done")
  /\ done' = TRUE
  /\ UNCHANGED <<hostVars, playVars, runState>>

(* "infinite loop detected" ends the process.                              *)
Crash ==
  /\ PlayStep("done", "crashed")
  /\ fatal
  /\ UNCHANGED <<hostVars, playVars, runState, done>>

(* The host call's next event: it goes out, or not.                        *)
Hear(event) ==
  /\ told' = IF event \in Told THEN event ELSE told
  /\ late' = IF suppressed THEN late + 1 ELSE late

HostProgress ==
  /\ \/ (TestSuppressed \/ SendOutput) /\ UNCHANGED heard
     \/ SendEvent /\ Hear(Head(outbox))
  /\ UNCHANGED <<opts, execVars, vm, playVars, inputVars, inputOpen, runState, yield,
                 commandsClosed, done, exception, breakVars, step, ctl, cmd, commanded>>

-----------------------------------------------------------------------------
(* A caller starts a call ...                                              *)
Call == \/ Play \/ PlayAgain \/ UpdateUnstarted
        \/ CallContinue \/ CallStep \/ CallRestartFrame
        \/ CallUpdateBreakpoints \/ CallOther
        \/ Terminate \/ Halt \/ Wait

(* ... and proceeds with it.                                               *)
CtlProgress == CallReturns \/ TerminateYield \/ CloseCommands \/ WaitReturns

Command == \/ CmdContinue \/ CmdPause \/ CmdStep \/ CmdRestartFrame
           \/ CmdRestartNoFrame \/ CmdBreakpoints \/ CmdInspect \/ CmdEval
           \/ CmdEvalInput

ExecInst == \/ ExecPlain \/ ExecFails \/ ExecJump \/ ExecCall
            \/ ExecCallOverflows \/ ExecLeave \/ ExecOutput \/ ExecInput

(* What the VM's goroutine does without anyone typing.                     *)
VmProgress == \/ HostProgress \/ CheckBreakpoints
              \/ ReceiveCmd \/ Command \/ EndCmd \/ ExitRequested
              \/ ExecInst \/ InputTimeout \/ InputEof
              \/ ExecutePanic \/ AfterInst \/ HostExited \/ CloseDone \/ Crash

Typing == InputAccepted \/ InputRejected \/ CloseInput

Next == Call \/ CtlProgress \/ VmProgress \/ Typing

Spec == Init /\ [][Next]_vars

(* Both goroutines are scheduled, and a select with several cases ready    *)
(* picks one at random; nobody is obliged to call or to type.              *)
FairSpec ==
  /\ Spec
  /\ WF_vars(CtlProgress)
  /\ WF_vars(VmProgress)
  /\ SF_vars(ReceiveCmd)
  /\ SF_vars(ExitRequested)

-----------------------------------------------------------------------------
ExecTypeOK ==
  /\ pc \in 0..(LastPC + 1)
  /\ stack \in Seq(Frames)

DebugTypeOK ==
  /\ cmd \in Commands
  /\ lineBreaks \in SUBSET PCs
  /\ instBreaks \in SUBSET PCs
  /\ step \in ArmedSteps \cup {NoStep}

ControlTypeOK ==
  /\ vm \in VmStates /\ ctl \in CtlStates
  /\ timer \in Timers /\ evalTimer \in Timers
  /\ runState \in {"UNSTARTED", "RUN", "PAUSE"}
  /\ count \in Nat /\ exitCode \in {0, 1}

HeardTypeOK == told \in Told /\ late \in Nat

FlagsTypeOK ==
  /\ noDebug \in BOOLEAN /\ stopOnEntry \in BOOLEAN
  /\ native \in BOOLEAN /\ fatal \in BOOLEAN /\ inputOpen \in BOOLEAN
  /\ yield \in BOOLEAN /\ commandsClosed \in BOOLEAN /\ done \in BOOLEAN
  /\ exception \in BOOLEAN /\ commanded \in BOOLEAN

TypeOK == /\ HostTypeOK /\ HeardTypeOK /\ ExecTypeOK /\ DebugTypeOK
          /\ ControlTypeOK /\ FlagsTypeOK

(* Where the program can be: a function is entered by a call, and a        *)
(* session that still executes has a frame to execute in.                  *)
StackInv ==
  /\ vm \notin {"after", "exit", "closing", "done", "crashed"} => stack # <<>>
  /\ stack # <<>> => pc \in PCs
  /\ \A i \in 2..Len(stack) : Op[stack[i].ret] = "call"
  /\ runState = "UNSTARTED" => vm = "unstarted"

(* The inputAdapter() calls that are active: the program's own, made by an *)
(* Input instruction that did not fail, and an evaluation's above it.      *)
InputInv ==
  /\ vm = "input" => timer # "off" \/ Evaluating
  /\ timer # "off" => /\ vm \in {"input", "cmd", "cmdEnd"}
                      /\ Op[pc] = "input"
                      /\ ~exception
  /\ Evaluating => vm = "input"

(* Who runs a closure, who waits for it, and until when.                   *)
CallInv ==
  /\ vm \in {"cmd", "cmdEnd", "cmdPanic"} \/ Evaluating => ctl = "await"
  /\ ctl \in {"send", "await"} => ~commandsClosed
  /\ done => vm \in {"done", "crashed"}
  /\ yield => \/ ctl \in {"send", "await", "terminating", "closing", "waiting"}
              \/ commandsClosed
              \/ vm \in {"done", "crashed"}
  /\ yield => vm \notin {"cmdEnd", "cmdPanic"} /\ ~Evaluating

SessionInv == TypeOK /\ StackInv /\ InputInv /\ CallInv

(* What the VM can have to tell, and what is left of it when the first of  *)
(* two events is sent.                                                     *)
StopReports   == {<<event>> : event \in StopEvents} \cup {<<"step", "breakpoint">>}
ResumeReports == {<<"continued">>, <<"continued", "output">>}
OtherReports  == {<<>>, <<"output">>, <<"output", "panicked">>, <<"panicked">>}
ExitReports   == {<<"exited", "terminated">>, <<"terminated">>}

(* An event that passed the test of the flag is the first to be sent after *)
(* the flag was set, and no other passes.                                  *)
LateInv ==
  /\ late \in {0, 1}
  /\ passed \/ ~suppressed => late = 0

(* The exit is the last that play() tells, and after it nothing is left.   *)
Left == {"closing", "done", "crashed"}

EndInv ==
  /\ outbox \in IF vm \in Left THEN ExitReports \cup {<<>>}
                              ELSE StopReports \cup ResumeReports \cup OtherReports
  /\ vm \in Left /\ outbox = <<>> => told = "terminated" \/ suppressed
  /\ vm \in {"done", "crashed"} => outbox = <<>>
  /\ told \in EndEvents => vm \in Left /\ outbox \in {<<>>, <<"terminated">>}
  /\ told = "terminated" => outbox = <<>>

(* The client of a paused program was told of the stop, or will be before  *)
(* the VM does anything else; or it asks the program to continue.          *)
ParkInv ==
  runState = "PAUSE" =>
    /\ outbox \notin ResumeReports
    /\ ~suppressed /\ vm \notin Left =>
         \/ outbox \in StopReports
         \/ told \in StopEvents
         \/ ctl \in {"send", "await"} /\ cmd.op = "continue"

(* What the closure did that has run, or waits for input.                  *)
CommandInv ==
  /\ vm = "cmdEnd" /\ cmd.op = "continue" => runState = "RUN"
  /\ vm = "cmdPanic" => cmd.op = "restartFrame"
  /\ Evaluating => cmd.op = "evalInput"
  /\ vm \in {"cmdEnd", "cmdPanic"} \/ Evaluating => commanded

(* How play() may return with an exception.                                *)
ExitInv ==
  /\ exitCode = 1 => exception /\ vm \in Left \cup {"exit"}
  /\ vm = "after" /\ exception => stack # <<>>
  /\ vm \in Left \cup {"exit"} /\ exception /\ ~commandsClosed => exitCode = 1 \/ fatal

(* Between checkBreakpoints() and the instruction only a command changes   *)
(* what it looked at.                                                      *)
StopInv == vm = "wait" /\ ~commanded /\ runState # "PAUSE" => ~BreakHit /\ ~StepHit

(* Without debugging nobody sends a command, so no step is armed, and a    *)
(* program that stops on a breakpoint stays there.                         *)
NoDebugInv ==
  /\ vm = "unstarted" => runState = "UNSTARTED"
  /\ noDebug => ctl \notin {"send", "await", "returning"} /\ step = NoStep
  /\ noDebug /\ runState = "PAUSE" => vm \in Left \cup {"wait", "exit"}

ReportInv == LateInv /\ EndInv /\ ParkInv /\ CommandInv /\ ExitInv /\ StopInv /\ NoDebugInv

IInv == SessionInv /\ ReportInv

(* The VM's goroutine is inside play().                                    *)
Playing == vm \notin {"unstarted", "done", "crashed"}

(* An instruction starts to execute.                                       *)
StartsInst == vm = "wait" /\ vm' \in {"after", "input"}

(* Whenever no call is in progress and the session was not terminated, the *)
(* request to yield is withdrawn: a stale one would park the VM in play()'s *)
(* receive, with nobody left to send it a command.                         *)
NoStaleYield ==
  ctl \in {"idle", "panicked"} /\ ~commandsClosed /\ Playing => ~yield

(* A closure runs only while its caller waits inside runInVm(), so the two *)
(* goroutines never touch the session together; and runInVm() never offers *)
(* one on a closed channel, which would panic.                             *)
CommandHandshake ==
  /\ vm \in {"cmd", "cmdEnd", "cmdPanic"} \/ Evaluating => ctl = "await"
  /\ ctl = "send" => ~commandsClosed

(* An exception that is pending when play() returns is reported as exit    *)
(* code 1, unless the client asked to terminate, and exit code 1 is never  *)
(* invented.                                                               *)
ExitCodeTellsException ==
  vm \in {"exit", "closing", "done"} /\ ~fatal =>
    /\ exception /\ ~commandsClosed => exitCode = 1
    /\ exitCode = 1 => exception

(* ds.done is closed only after the client was told the program exited,    *)
(* unless the host was told to be quiet: dap's restart reports the old     *)
(* run's end itself once Wait() returns.                                   *)
DoneAfterExited == done => outbox = <<>> /\ (told = "terminated" \/ suppressed)

(* After SuppressAllEvents() at most the one event that had already passed *)
(* the test of the flag still goes out.                                    *)
HaltNearlyQuiet == late <= 1

(* The client knows of a VM that is parked until it is resumed: the last   *)
(* it heard is that the program stopped.  (Were it told that the program   *)
(* resumed, it would wait for the next stop, and the VM for the client.)   *)
ParkedIsTold ==
  vm = "wait" /\ runState = "PAUSE" /\ outbox = <<>> /\ ctl = "idle" /\ ~suppressed
    => told \in StopEvents

(* The end of the run is the last thing the client hears about it.         *)
ExitIsFinal ==
  [][/\ told = "exited" => told' \in {"exited", "terminated"}
     /\ told = "terminated" => told' = "terminated"]_told

(* Unless a command intervened, the VM starts no instruction that has a    *)
(* breakpoint, or that lies beyond the step the client asked for: outside  *)
(* of the stepped line (or instruction) in the same invocation of its      *)
(* function, back in a caller, or, stepping in, in a callee.               *)
NoStopMissed ==
  [][StartsInst /\ ~commanded =>
       /\ pc \notin lineBreaks /\ pc \notin instBreaks
       /\ step # NoStep => Depth >= step.frame
       /\ step.type \in {"NEXT", "IN"} /\ Depth = step.frame =>
            IF step.gran = "line" THEN Line[pc] = step.line ELSE pc = step.inst
       /\ step.type = "IN" => Depth = step.frame]_vars

(* A program goes on past an exception only if a frame is restarted.       *)
ExceptionHolds ==
  [][exception => UNCHANGED <<pc, stack>> \/ (~exception' /\ vm = "cmd")]_<<pc, stack>>

(* What the session promises to its caller.                                *)
life == CASE vm = "exit"    -> "leaving"
          [] vm \in {"unstarted", "closing", "done", "crashed"} -> vm
          [] OTHER          -> "playing"

serving == CASE Evaluating                       -> "evaluating"
             [] vm \in {"cmdEnd", "cmdPanic"}     -> "serving"
             [] OTHER                             -> "open"

call == CASE ctl = "idle"                         -> "none"
          [] ctl \in {"send", "await"}            -> serving
          [] ctl = "returning"                    -> "served"
          [] ctl \in {"terminating", "closing"}   -> "terminating"
          [] OTHER                                -> ctl

request == IF cmd.op \in {"lineBreaks", "instBreaks"} THEN cmd ELSE [op |-> cmd.op]

Run == INSTANCE DebugRun WITH paused <- runState = "PAUSE", cmd <- request

(* A session does nothing its caller was not promised: each of its steps   *)
(* is one of DebugRun's, or none that the caller can see.                  *)
ImplementsRun == Run!RunSpec

(* A session launched with StopOnEntry stops before its first instruction. *)
StopsOnEntry == [][stopOnEntry /\ count = 0 /\ StartsInst => told # "nothing"]_vars

(* A session asked to terminate ends, wherever its VM is: running, paused, *)
(* waiting for input, or stopped on an exception.                          *)
TerminateEnds == (commandsClosed /\ Playing) ~> done

(* A call on a session that plays returns, even if the VM leaves play()    *)
(* meanwhile without serving it; but for the evaluation of an expression   *)
(* that waits for input, and for the end of the process.                   *)
CallsReturn ==
  (ctl \in {"send", "await", "waiting"} /\ Playing)
    ~> (ctl = "idle" \/ Evaluating \/ vm = "crashed")
=============================================================================
