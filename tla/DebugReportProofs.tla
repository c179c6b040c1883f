-------------------------- MODULE DebugReportProofs --------------------------
(***************************************************************************)
(* For every program, whatever its breakpoints and its client's calls:     *)
(* what a session tells its client is true, and complete; and a            *)
(* debug.Session does what DebugRun promises, and nothing else.            *)
(***************************************************************************)
EXTENDS DebugSessionProofs

(* The sequences of one and of two.                                        *)
LEMMA Short ==
  ASSUME NEW a, NEW b
  PROVE  /\ <<a>> # <<>> /\ Head(<<a>>) = a /\ Tail(<<a>>) = <<>>
         /\ <<a, b>> # <<>> /\ Head(<<a, b>>) = a /\ Tail(<<a, b>>) = <<b>>
         /\ <<a>> \o <<b>> = <<a, b>>
         /\ <<>> \o <<a>> = <<a>> /\ <<a>> \o <<>> = <<a>>
<1>1. <<a>> \in Seq({a, b}) /\ <<a, b>> \in Seq({a, b}) /\ <<b>> \in Seq({a, b})
  OBVIOUS
<1>2. Len(<<a>>) = 1 /\ Len(<<a, b>>) = 2 /\ Len(<<b>>) = 1
  OBVIOUS
<1>3. <<a>> # <<>> /\ <<a, b>> # <<>>
  BY <1>2
<1>4. Head(<<a>>) = a /\ Head(<<a, b>>) = a
  OBVIOUS
<1>5. Tail(<<a>>) = <<>>
  BY <1>1, <1>2, <1>3, HeadTailProperties, EmptySeq
<1>6. Tail(<<a, b>>) = <<b>>
  <2>1. Tail(<<a, b>>) \in Seq({a, b}) /\ Len(Tail(<<a, b>>)) = 1
    BY <1>1, <1>2, <1>3, HeadTailProperties
  <2>2. Tail(<<a, b>>)[1] = b
    BY <1>1, <1>2, <1>3, HeadTailProperties
  <2> QED BY <1>1, <1>2, <2>1, <2>2, SeqEqual
<1>7. <<a>> \o <<b>> = <<a, b>>
  <2>1. <<a>> \o <<b>> \in Seq({a, b}) /\ Len(<<a>> \o <<b>>) = 2
    BY <1>1, <1>2, ConcatProperties
  <2>2. (<<a>> \o <<b>>)[1] = a /\ (<<a>> \o <<b>>)[2] = b
    BY <1>1, <1>2, ConcatProperties
  <2>3. \A i \in 1..2 : (<<a>> \o <<b>>)[i] = <<a, b>>[i]
    BY <2>2
  <2> QED BY <1>1, <1>2, <2>1, <2>3, SeqEqual
<1>8. <<>> \o <<a>> = <<a>> /\ <<a>> \o <<>> = <<a>>
  OBVIOUS
<1> QED BY <1>3, <1>4, <1>5, <1>6, <1>7, <1>8

(* The reports that a step puts together.                                  *)
LEMMA Joined ==
  /\ <<>> \o <<>> = <<>>
  /\ <<"step">> \o <<"breakpoint">> = <<"step", "breakpoint">>
  /\ <<"step">> \o <<>> = <<"step">> /\ <<>> \o <<"breakpoint">> = <<"breakpoint">>
  /\ <<"continued">> \o <<"output">> = <<"continued", "output">>
  /\ <<>> \o <<"output">> = <<"output">>
<1>1. <<>> \o <<>> = <<>>
  BY EmptySeq, ConcatEmptySeq
<1>2. <<"step">> \o <<"breakpoint">> = <<"step", "breakpoint">>
  BY Short
<1>3. <<"step">> \o <<>> = <<"step">> /\ <<>> \o <<"breakpoint">> = <<"breakpoint">>
  BY Short
<1>4. <<"continued">> \o <<"output">> = <<"continued", "output">>
  BY Short
<1>5. <<>> \o <<"output">> = <<"output">>
  BY Short
<1> QED BY <1>1, <1>2, <1>3, <1>4, <1>5

(* The kinds of reports differ in their first event.                       *)
LEMMA ReportHeads ==
  /\ <<>> \in OtherReports
  /\ \A r \in StopReports   : r # <<>> /\ Head(r) \in StopEvents
  /\ \A r \in ResumeReports : r # <<>> /\ Head(r) = "continued"
  /\ \A r \in OtherReports \ {<<>>} : Head(r) \in {"output", "panicked"}
  /\ \A r \in ExitReports   : r # <<>> /\ Head(r) \in EndEvents
<1>1. \A r \in StopReports : r # <<>> /\ Head(r) \in StopEvents
  <2> TAKE r \in StopReports
  <2>1. ASSUME NEW event \in StopEvents, r = <<event>>
        PROVE  r # <<>> /\ Head(r) \in StopEvents
    BY <2>1, Short
  <2>2. "step" \in StopEvents
    BY DEF StopEvents
  <2>3. CASE r = <<"step", "breakpoint">>
    BY <2>2, <2>3, Short
  <2> QED BY <2>1, <2>3 DEF StopReports
<1>2. \A r \in ResumeReports : r # <<>> /\ Head(r) = "continued"
  BY Short DEF ResumeReports
<1>3. \A r \in OtherReports \ {<<>>} : Head(r) \in {"output", "panicked"}
  BY Short DEF OtherReports
<1>4. \A r \in ExitReports : r # <<>> /\ Head(r) \in EndEvents
  BY Short DEF ExitReports, EndEvents
<1> QED BY <1>1, <1>2, <1>3, <1>4 DEF OtherReports

(* So none is of two kinds.                                                *)
LEMMA KindsDiffer ==
  /\ StopReports \cap (ResumeReports \cup OtherReports \cup ExitReports) = {}
  /\ ResumeReports \cap (OtherReports \cup ExitReports) = {}
  /\ OtherReports \cap ExitReports = {}
BY ReportHeads DEF EndEvents, StopEvents

(* What is left of a report when its first event has gone out.             *)
LEMMA ReportTails ==
  /\ \A r \in StopReports   : Tail(r) \in StopReports \cup {<<>>}
  /\ \A r \in ResumeReports : Tail(r) \in OtherReports
  /\ \A r \in OtherReports \ {<<>>} : Tail(r) \in OtherReports
  /\ Head(<<"exited", "terminated">>) = "exited"
  /\ Tail(<<"exited", "terminated">>) = <<"terminated">>
  /\ Head(<<"terminated">>) = "terminated"
  /\ Tail(<<"terminated">>) = <<>>
<1>1. \A r \in StopReports : Tail(r) \in StopReports \cup {<<>>}
  <2> TAKE r \in StopReports
  <2>1. ASSUME NEW event \in StopEvents, r = <<event>>
        PROVE  Tail(r) = <<>>
    BY <2>1, Short
  <2>2. <<"breakpoint">> \in StopReports
    BY DEF StopReports, StopEvents
  <2>3. CASE r = <<"step", "breakpoint">>
    BY <2>2, <2>3, Short
  <2> QED BY <2>1, <2>3 DEF StopReports
<1>2. \A r \in ResumeReports : Tail(r) \in OtherReports
  <2>1. Tail(<<"continued">>) = <<>> /\ Tail(<<"continued", "output">>) = <<"output">>
    BY Short
  <2> QED BY <2>1 DEF ResumeReports, OtherReports
<1>3. \A r \in OtherReports \ {<<>>} : Tail(r) \in OtherReports
  BY Short DEF OtherReports
<1> QED BY <1>1, <1>2, <1>3, Short

-----------------------------------------------------------------------------
(* The steps of the VM's goroutine, and of who types, but for the sending  *)
(* of events and the closing of the input.                                 *)
VmActs == \/ CheckBreakpoints \/ ReceiveCmd \/ Command \/ EndCmd \/ ExitRequested
          \/ ExecInst \/ InputTimeout \/ InputEof \/ InputAccepted \/ InputRejected
          \/ ExecutePanic \/ AfterInst \/ HostExited \/ CloseDone \/ Crash

(* The goroutines' steps are of five kinds.                                *)
LEMMA StepKinds ==
  ASSUME [Next]_vars
  PROVE  Call \/ CtlProgress \/ HostProgress \/ VmActs \/ CloseInput \/ UNCHANGED vars
BY DEF Next, VmProgress, Typing, VmActs

(* The VM goes on only when its events are out, and no step of its         *)
(* goroutine sends one or touches what belongs to the others.              *)
LEMMA VmFrame ==
  ASSUME VmActs
  PROVE  /\ outbox = <<>>
         /\ UNCHANGED <<told, late, suppressed, passed, noDebug, commandsClosed, cmd>>
         /\ UNCHANGED ctl \/ ReceiveCmd \/ EndCmd
<1> USE DEF hostVars, heard, opts, HostQuiet, VmStep, Post
<1>1. CASE CheckBreakpoints \/ ReceiveCmd \/ EndCmd \/ ExitRequested
  BY <1>1 DEF CheckBreakpoints, ReceiveCmd, EndCmd, ExitRequested, PlayExits
<1>2. CASE Command
  BY <1>2
  DEF  Command, CmdContinue, CmdPause, CmdStep, CmdRestartFrame, CmdRestartNoFrame,
       CmdBreakpoints, CmdInspect, CmdEval, CmdEvalInput, RunCmd
<1>3. CASE ExecInst
  BY <1>3
  DEF  ExecInst, ExecPlain, ExecFails, ExecJump, ExecCall, ExecCallOverflows, ExecLeave,
       ExecOutput, ExecInput, BeginInst, Raise
<1>4. CASE InputTimeout \/ InputEof \/ InputAccepted \/ InputRejected
  BY <1>4 DEF InputTimeout, InputEof, InputAccepted, InputRejected, InputReturns, InputStep,
       Raise
<1>5. CASE ExecutePanic \/ AfterInst \/ HostExited \/ CloseDone \/ Crash
  BY <1>5 DEF ExecutePanic, AfterInst, HostExited, CloseDone, Crash, PlayStep
<1> QED BY <1>1, <1>2, <1>3, <1>4, <1>5 DEF VmActs

(* The caller's goroutine leaves alone what is the VM's, but that Play()   *)
(* starts it.                                                              *)
LEMMA CtlFrame ==
  ASSUME Call \/ CtlProgress
  PROVE  /\ vm # "crashed"
         /\ UNCHANGED <<outbox, passed, late, noDebug, pc, stack, native, exitCode, fatal,
                        timer, evalTimer, exception, step, commanded>>
         /\ UNCHANGED <<vm, runState>> \/ Play
         /\ UNCHANGED suppressed \/ (suppressed' = TRUE /\ UNCHANGED told)
         /\ UNCHANGED told \/ CallContinue
         /\ UNCHANGED <<lineBreaks, instBreaks>> \/ runState = "UNSTARTED"
         /\ UNCHANGED commandsClosed \/ commandsClosed' = TRUE
<1> USE DEF hostVars, opts, execVars, playVars, inputVars, breakVars, CtlStep, RunInVm, Quietly
<1>1. CASE Play \/ PlayAgain \/ UpdateUnstarted \/ Terminate \/ Halt \/ Wait
  BY <1>1 DEF Play, PlayAgain, UpdateUnstarted, Terminate, Halt, Wait, SuppressAllEvents
<1>2. CASE CallContinue \/ CallStep \/ CallRestartFrame \/ CallUpdateBreakpoints \/ CallOther
  BY <1>2 DEF CallContinue, CallStep, CallRestartFrame, CallUpdateBreakpoints, CallOther
<1>3. CASE CtlProgress
  BY <1>3 DEF CtlProgress, CallReturns, TerminateYield, CloseCommands, WaitReturns,
       CommandDone, SessionDone
<1> QED BY <1>1, <1>2, <1>3 DEF Call

(* Sending an event changes nothing but what is left to send, and what the *)
(* client has heard.                                                       *)
LEMMA SendFrame ==
  ASSUME HostProgress
  PROVE  /\ outbox # <<>>
         /\ outbox' = Tail(outbox) \/ UNCHANGED outbox
         /\ UNCHANGED <<suppressed, noDebug, pc, stack, native, vm, count, exitCode, fatal,
                        timer, evalTimer, runState, commandsClosed, done, exception,
                        lineBreaks, instBreaks, step, ctl, cmd, commanded>>
BY DEF HostProgress, TestSuppressed, DropSuppressed, PassSuppressed, SendOutput, SendEvent,
       opts, execVars, playVars, inputVars, breakVars

(* What each step of the VM's goroutine tells, and where it is then.       *)
LEMMA VmReports ==
  ASSUME VmActs
  PROVE  /\ vm \notin Left =>
              \/ vm' = "closing" /\ outbox' = <<"exited", "terminated">>
              \/ vm' \notin Left
                   /\ outbox' \in StopReports \cup ResumeReports \cup OtherReports
         /\ vm \in Left => vm' \in {"done", "crashed"} /\ outbox' = <<>>
         /\ outbox' \in ResumeReports => runState' = "RUN"
         /\ runState' = "PAUSE" => runState = "PAUSE" \/ outbox' \in StopReports
<1>0. /\ \A event \in StopEvents : <<event>> \in StopReports
      /\ <<"step", "breakpoint">> \in StopReports
      /\ <<"continued">> \in ResumeReports /\ <<"continued", "output">> \in ResumeReports
      /\ <<>> \in OtherReports /\ <<"output">> \in OtherReports
      /\ <<"output", "panicked">> \in OtherReports
  BY DEF StopReports, ResumeReports, OtherReports
<1>1. outbox = <<>>
  BY VmFrame
<1> USE <1>0, <1>1, KindsDiffer DEF Left, StopEvents, hostVars, Post
<1>2. CASE CheckBreakpoints
  <2>1. outbox' = (IF StepHit THEN <<"step">> ELSE <<>>)
                    \o (IF BreakHit THEN <<"breakpoint">> ELSE <<>>)
    BY <1>2 DEF CheckBreakpoints
  <2>2. outbox' = IF StepHit THEN IF BreakHit THEN <<"step", "breakpoint">> ELSE <<"step">>
                             ELSE IF BreakHit THEN <<"breakpoint">> ELSE <<>>
    BY <2>1, Joined
  <2>3. vm = "top" /\ vm' = "wait"
          /\ runState' = IF StepHit \/ BreakHit THEN "PAUSE" ELSE runState
    BY <1>2 DEF CheckBreakpoints, VmStep
  <2>4. CASE StepHit \/ BreakHit
    BY <2>2, <2>3, <2>4
  <2>5. CASE ~(StepHit \/ BreakHit)
    BY <2>2, <2>3, <2>5
  <2> QED BY <2>4, <2>5
<1>3. CASE ReceiveCmd \/ EndCmd \/ ExitRequested
  BY <1>3 DEF ReceiveCmd, EndCmd, ExitRequested, PlayExits, VmStep
<1>4. CASE Command
  BY <1>4
  DEF  Command, CmdContinue, CmdPause, CmdStep, CmdRestartFrame, CmdRestartNoFrame,
       CmdBreakpoints, CmdInspect, CmdEval, CmdEvalInput, RunCmd, VmStep
<1>5. CASE ExecInst
  BY <1>5
  DEF  ExecInst, ExecPlain, ExecFails, ExecJump, ExecCall, ExecCallOverflows, ExecLeave,
       ExecOutput, ExecInput, BeginInst, NoPanic, Raise, VmStep
<1>6. CASE InputTimeout \/ InputEof
  BY <1>6 DEF InputTimeout, InputEof, InputReturns, InputStep, NoPanic, Raise, VmStep
<1>7. CASE InputAccepted
  BY <1>7 DEF InputAccepted, InputReturns, InputStep, NoPanic, Resumed, VmStep
<1>8. CASE InputRejected
  <2>1. outbox' = IF Timer = "fired" /\ runState = "RUN" THEN <<"continued", "output">>
                                                         ELSE <<"output">>
    BY <1>8, Joined DEF InputRejected, Resumed
  <2> QED BY <1>8, <2>1 DEF InputRejected, InputStep, NoPanic, VmStep
<1>9. CASE ExecutePanic
  BY <1>9 DEF ExecutePanic, PlayStep, VmStep
<1>10. CASE AfterInst
  <2>1. vm = "after" /\ vm' \in {"exit", "top"}
    BY <1>10 DEF AfterInst, PlayStep, VmStep
  <2>2. \/ outbox' = <<"exception">> /\ runState' = "PAUSE"
        \/ outbox' = <<>> /\ UNCHANGED runState
    BY <1>10 DEF AfterInst
  <2> QED BY <2>1, <2>2
<1>11. CASE HostExited
  <2>1. vm = "exit" /\ vm' = "closing" /\ UNCHANGED runState
    BY <1>11 DEF HostExited, PlayStep, VmStep
  <2>2. outbox' = <<"exited", "terminated">>
    BY <1>11 DEF HostExited, Exited
  <2>3. <<"exited", "terminated">> \in ExitReports
    BY DEF ExitReports
  <2> QED BY <2>1, <2>2, <2>3
<1>12. CASE CloseDone \/ Crash
  BY <1>12 DEF CloseDone, Crash, PlayStep, VmStep
<1> QED BY <1>2, <1>3, <1>4, <1>5, <1>6, <1>7, <1>8, <1>9, <1>10, <1>11, <1>12 DEF VmActs

-----------------------------------------------------------------------------
(* A suppressed host sends at most one more event.                         *)
LEMMA LateStep ==
  ASSUME LateInv, [Next]_vars
  PROVE  LateInv'
<1> USE DEF LateInv
<1>1. CASE Call \/ CtlProgress
  <2>1. passed' = passed
    BY <1>1, CtlFrame
  <2>2. late' = late
    BY <1>1, CtlFrame
  <2>3. suppressed => suppressed'
    BY <1>1, CtlFrame
  <2> QED BY <2>1, <2>2, <2>3
<1>2. CASE HostProgress
  BY <1>2
  DEF  HostProgress, TestSuppressed, DropSuppressed, PassSuppressed, Sendable, SendOutput,
       SendEvent, Hear, heard
<1>3. CASE VmActs
  BY <1>3, VmFrame
<1>4. CASE CloseInput \/ UNCHANGED vars
  BY <1>4 DEF CloseInput, vars, hostVars, heard
<1> QED BY <1>1, <1>2, <1>3, <1>4, StepKinds

(* The exit is told last.                                                  *)
LEMMA EndStep ==
  ASSUME StackInv, EndInv, [Next]_vars
  PROVE  EndInv'
<1>1. CASE Call \/ CtlProgress
  <2>1. UNCHANGED outbox
    BY <1>1, CtlFrame
  <2>2. vm' \in Left <=> vm \in Left
    BY <1>1, CtlFrame DEF Play, StackInv, Left
  <2>3. vm' \in Left => UNCHANGED vm
    BY <1>1, CtlFrame DEF Play, Left
  <2>4. told' = told \/ (told' = "resumed" /\ told \notin EndEvents)
    BY <1>1, CtlFrame DEF CallContinue
  <2>5. suppressed => suppressed'
    BY <1>1, CtlFrame
  <2>6. CASE vm \in Left
    <3>1. UNCHANGED vm
      BY <2>2, <2>3, <2>6
    <3> QED BY <2>1, <2>4, <2>5, <2>6, <3>1 DEF EndInv, EndEvents
  <2>7. CASE vm \notin Left
    <3>1. vm' \notin Left /\ vm' \notin {"done", "crashed"} /\ told' \notin EndEvents
      BY <2>2, <2>4, <2>7 DEF EndInv, EndEvents, Left
    <3>2. told' # "terminated"
      BY <3>1 DEF EndEvents
    <3> QED BY <2>1, <2>7, <3>1, <3>2 DEF EndInv
  <2> QED BY <2>6, <2>7
<1>2. CASE HostProgress
  <2>1. vm' = vm /\ suppressed' = suppressed /\ outbox # <<>>
    BY <1>2, SendFrame
  <2>2. CASE UNCHANGED outbox /\ UNCHANGED told
    BY <2>1, <2>2 DEF EndInv
  <2>3. CASE /\ outbox' = Tail(outbox)
             /\ \/ UNCHANGED told /\ (suppressed \/ Head(outbox) = "output")
                \/ told' = IF Head(outbox) \in Told THEN Head(outbox) ELSE told
    <3>1. CASE vm \in Left
      <4>1. vm = "closing" /\ outbox \in ExitReports
        BY <2>1, <3>1 DEF EndInv, Left
      <4>2. CASE outbox = <<"exited", "terminated">>
        <5>1. Head(outbox) = "exited" /\ outbox' = <<"terminated">>
          BY <2>3, <4>2, ReportTails
        <5>2. told' = "exited" \/ UNCHANGED told
          BY <2>3, <5>1
        <5>3. outbox' \in ExitReports /\ outbox' # <<>>
          BY <5>1, ReportHeads DEF ExitReports
        <5>4. told \notin EndEvents
          BY <2>1, <4>2, <5>1, <5>3, ReportTails DEF EndInv, EndEvents
        <5> QED BY <2>1, <3>1, <4>1, <5>1, <5>2, <5>3, <5>4 DEF EndInv, EndEvents
      <4>3. CASE outbox = <<"terminated">>
        <5>1. Head(outbox) = "terminated" /\ outbox' = <<>>
          BY <2>3, <4>3, ReportTails
        <5>2. told' = "terminated" \/ (UNCHANGED told /\ suppressed)
          BY <2>3, <5>1 DEF Told, EndEvents
        <5> QED BY <2>1, <3>1, <4>1, <5>1, <5>2 DEF EndInv, EndEvents
      <4> QED BY <4>1, <4>2, <4>3 DEF ExitReports
    <3>2. CASE vm \notin Left
      <4>1. outbox \in StopReports \cup ResumeReports \cup OtherReports /\ told \notin EndEvents
        BY <3>2 DEF EndInv
      <4>2. outbox' \in StopReports \cup ResumeReports \cup OtherReports
        BY <2>1, <2>3, <4>1, ReportHeads, ReportTails
      <4>3. Head(outbox) \notin EndEvents
        BY <2>1, <4>1, ReportHeads DEF EndEvents, StopEvents
      <4>4. told' \notin EndEvents
        BY <2>3, <4>1, <4>3
      <4> QED BY <2>1, <3>2, <4>2, <4>4 DEF EndInv, Left, EndEvents
    <3> QED BY <3>1, <3>2
  <2> QED
    BY <1>2, <2>2, <2>3
    DEF HostProgress, heard, Hear, TestSuppressed, DropSuppressed, PassSuppressed, SendOutput,
        SendEvent
<1>3. CASE VmActs
  <2>1. outbox = <<>> /\ UNCHANGED <<told, suppressed>>
    BY <1>3, VmFrame
  <2>2. CASE vm \in Left
    <3>1. vm' \in {"done", "crashed"} /\ outbox' = <<>>
      BY <1>3, <2>2, VmReports
    <3> QED BY <2>1, <2>2, <3>1 DEF EndInv, Left
  <2>3. CASE vm \notin Left
    <3>1. told \notin EndEvents
      BY <2>3 DEF EndInv
    <3>2. CASE vm' = "closing" /\ outbox' = <<"exited", "terminated">>
      <4>1. outbox' \in ExitReports /\ outbox' # <<>>
        BY <3>2, ReportHeads DEF ExitReports
      <4> QED BY <2>1, <3>1, <3>2, <4>1 DEF EndInv, Left, EndEvents
    <3>3. CASE vm' \notin Left /\ outbox' \in StopReports \cup ResumeReports \cup OtherReports
      BY <2>1, <3>1, <3>3 DEF EndInv, Left, EndEvents
    <3> QED BY <1>3, <2>3, <3>2, <3>3, VmReports
  <2> QED BY <2>2, <2>3
<1>4. CASE CloseInput \/ UNCHANGED vars
  BY <1>4 DEF CloseInput, vars, hostVars, heard, EndInv
<1> QED BY <1>1, <1>2, <1>3, <1>4, StepKinds

(* The closures.                                                           *)
LEMMA CommandStep ==
  ASSUME InputInv, CallInv, CommandInv, [Next]_vars
  PROVE  CommandInv'
<1> USE DEF CommandInv, InputInv, CallInv, Evaluating, execVars, playVars, inputVars, breakVars
<1>1. CASE Call \/ CtlProgress
  BY <1>1, CtlFrame
  DEF  Call, CtlProgress, Play, PlayAgain, UpdateUnstarted, CallContinue, CallStep,
       CallRestartFrame, CallUpdateBreakpoints, CallOther, Terminate, Halt, Wait, RunInVm,
       CallReturns, TerminateYield, CloseCommands, WaitReturns, CommandDone, SessionDone,
       CtlStep, Quietly
<1>2. CASE HostProgress
  BY <1>2, SendFrame
<1>3. CASE CheckBreakpoints \/ ReceiveCmd \/ EndCmd \/ ExitRequested
  BY <1>3 DEF CheckBreakpoints, ReceiveCmd, EndCmd, ExitRequested, PlayExits, VmStep
<1>4. CASE Command
  BY <1>4
  DEF  Command, CmdContinue, CmdPause, CmdStep, CmdRestartFrame, CmdRestartNoFrame,
       CmdBreakpoints, CmdInspect, CmdEval, CmdEvalInput, RunCmd, VmStep
<1>5. CASE ExecInst
  BY <1>5
  DEF  ExecInst, ExecPlain, ExecFails, ExecJump, ExecCall, ExecCallOverflows, ExecLeave,
       ExecOutput, ExecInput, BeginInst, NoPanic, Raise, VmStep
<1>6. CASE InputTimeout \/ InputEof \/ InputAccepted \/ InputRejected
  BY <1>6 DEF InputTimeout, InputEof, InputAccepted, InputRejected, InputReturns, InputStep,
       NoPanic, Raise, VmStep
<1>7. CASE ExecutePanic \/ AfterInst \/ HostExited \/ CloseDone \/ Crash
  BY <1>7 DEF ExecutePanic, AfterInst, HostExited, CloseDone, Crash, PlayStep, VmStep
<1>8. CASE CloseInput \/ UNCHANGED vars
  BY <1>8 DEF CloseInput, vars
<1> QED BY <1>1, <1>2, <1>3, <1>4, <1>5, <1>6, <1>7, <1>8, StepKinds DEF VmActs

(* A paused program's client knows of it, or will before anything else.    *)
LEMMA ParkStep ==
  ASSUME CallInv, EndInv, ParkInv, CommandInv, [Next]_vars
  PROVE  ParkInv'
<1>1. CASE Call \/ CtlProgress
  <2> SUFFICES ASSUME runState' = "PAUSE" PROVE ParkInv'
    BY DEF ParkInv
  <2>1. ~Play
    BY DEF Play
  <2>2. outbox' = outbox /\ vm' = vm /\ runState = "PAUSE"
    BY <1>1, <2>1, CtlFrame
  <2>3. suppressed => suppressed'
    BY <1>1, CtlFrame
  <2>4. CASE ~suppressed' /\ vm \notin Left
    <3>1. CASE CallContinue
      BY <2>2, <2>3, <3>1 DEF ParkInv, CallContinue, RunInVm, CtlStep
    <3>2. CASE ~CallContinue
      <4>1. told' = told
        BY <1>1, <3>2, CtlFrame
      <4>2. ctl \in {"send", "await"} => UNCHANGED <<ctl, cmd>> \/ done
        BY <1>1
        DEF  Call, CtlProgress, Play, PlayAgain, UpdateUnstarted, CallContinue, CallStep,
             CallRestartFrame, CallUpdateBreakpoints, CallOther, Terminate, Halt, Wait, RunInVm,
             CallReturns, TerminateYield, CloseCommands, WaitReturns, CommandDone, SessionDone,
             CtlStep, Quietly
      <4>3. ~done
        BY <2>4 DEF CallInv, Left
      <4> QED BY <2>2, <2>3, <2>4, <4>1, <4>2, <4>3 DEF ParkInv
    <3> QED BY <3>1, <3>2
  <2> QED BY <2>2, <2>3, <2>4 DEF ParkInv
<1>2. CASE HostProgress
  <2> SUFFICES ASSUME runState' = "PAUSE" PROVE ParkInv'
    BY DEF ParkInv
  <2>1. /\ outbox # <<>> /\ runState = "PAUSE" /\ vm' = vm /\ ctl' = ctl /\ cmd' = cmd
        /\ suppressed' = suppressed
    BY <1>2, SendFrame
  <2>2. outbox \notin ResumeReports
    BY <2>1 DEF ParkInv
  <2>3. outbox' \notin ResumeReports
    BY <1>2, <2>1, <2>2, SendFrame, ReportHeads, ReportTails, KindsDiffer
    DEF EndInv, ExitReports
  <2>4. ASSUME ~suppressed, vm \notin Left, outbox \in StopReports
        PROVE  outbox' \in StopReports \/ told' \in StopEvents
    <3>1. Head(outbox) \in StopEvents /\ Head(outbox) # "output"
      BY <2>4, ReportHeads DEF StopEvents
    <3>2. CASE UNCHANGED outbox
      BY <2>4, <3>2
    <3>3. CASE SendEvent /\ Hear(Head(outbox))
      BY <3>1, <3>3 DEF Hear, Told
    <3> QED
      BY <1>2, <2>4, <3>1, <3>2, <3>3
      DEF HostProgress, TestSuppressed, DropSuppressed, PassSuppressed, SendOutput
  <2>5. ASSUME vm \notin Left, outbox \notin StopReports
        PROVE  UNCHANGED told
    <3>1. outbox \in OtherReports \ {<<>>}
      BY <2>1, <2>2, <2>5 DEF EndInv
    <3>2. Head(outbox) \notin Told
      BY <3>1, ReportHeads DEF Told, StopEvents, EndEvents
    <3> QED BY <1>2, <3>2 DEF HostProgress, Hear, heard
  <2>6. told \in StopEvents /\ vm \notin Left /\ outbox \in StopReports => told' \in StopEvents
    BY <1>2, ReportHeads DEF HostProgress, Hear, heard, Told
  <2> QED BY <2>1, <2>3, <2>4, <2>5, <2>6 DEF ParkInv
<1>3. CASE VmActs
  <2> SUFFICES ASSUME runState' = "PAUSE" PROVE ParkInv'
    BY DEF ParkInv
  <2>1. outbox' \notin ResumeReports
    BY <1>3, VmReports
  <2>2. ASSUME ~suppressed', vm' \notin Left, outbox' \notin StopReports
        PROVE  told' \in StopEvents \/ (ctl' \in {"send", "await"} /\ cmd'.op = "continue")
    <3>1. runState = "PAUSE"
      BY <1>3, <2>2, VmReports
    <3>2. outbox = <<>> /\ told' = told /\ suppressed' = suppressed /\ cmd' = cmd
      BY <1>3, VmFrame
    <3>3. vm \notin Left
      BY <1>3, <2>2, VmReports DEF Left
    <3>4. told \in StopEvents \/ (ctl \in {"send", "await"} /\ cmd.op = "continue")
      BY <2>2, <3>1, <3>2, <3>3, ReportHeads DEF ParkInv
    <3>5. CASE EndCmd
      BY <3>1, <3>2, <3>4, <3>5 DEF EndCmd, CommandInv, VmStep
    <3>6. CASE ReceiveCmd
      BY <3>2, <3>4, <3>6 DEF ReceiveCmd
    <3>7. CASE UNCHANGED ctl
      BY <3>2, <3>4, <3>7
    <3> QED BY <1>3, <3>5, <3>6, <3>7, VmFrame
  <2> QED BY <2>1, <2>2 DEF ParkInv
<1>4. CASE CloseInput \/ UNCHANGED vars
  BY <1>4 DEF CloseInput, vars, hostVars, heard, ParkInv
<1> QED BY <1>1, <1>2, <1>3, <1>4, StepKinds

(* How play() comes to its end.                                            *)
LEMMA ExitStep ==
  ASSUME StackInv, InputInv, ExitInv, [Next]_vars
  PROVE  ExitInv'
<1> USE DEF ExitInv, StackInv, InputInv, Left, Evaluating, execVars, playVars, inputVars
<1>1. CASE Call \/ CtlProgress
  <2>1. exitCode' = exitCode /\ exception' = exception /\ fatal' = fatal /\ stack' = stack
    BY <1>1, CtlFrame
  <2>2. commandsClosed => commandsClosed'
    BY <1>1, CtlFrame
  <2>3. vm' = vm \/ (vm = "unstarted" /\ vm' = "top")
    BY <1>1, CtlFrame DEF Play
  <2> QED BY <2>1, <2>2, <2>3
<1>2. CASE HostProgress
  BY <1>2, SendFrame
<1>3. CASE CheckBreakpoints \/ ReceiveCmd \/ EndCmd \/ ExitRequested
  BY <1>3 DEF CheckBreakpoints, ReceiveCmd, EndCmd, ExitRequested, PlayExits, VmStep
<1>4. CASE Command
  BY <1>4
  DEF  Command, CmdContinue, CmdPause, CmdStep, CmdRestartFrame, CmdRestartNoFrame,
       CmdBreakpoints, CmdInspect, CmdEval, CmdEvalInput, RunCmd, VmStep
<1>5. CASE ExecInst
  BY <1>5
  DEF  ExecInst, ExecPlain, ExecFails, ExecJump, ExecCall, ExecCallOverflows, ExecLeave,
       ExecOutput, ExecInput, BeginInst, MayExecute, NoPanic, Raise, VmStep
<1>6. CASE InputTimeout \/ InputEof \/ InputAccepted \/ InputRejected
  BY <1>6 DEF InputTimeout, InputEof, InputAccepted, InputRejected, InputReturns, InputStep,
       NoPanic, Raise, VmStep
<1>7. CASE ExecutePanic \/ HostExited \/ CloseDone \/ Crash
  BY <1>7 DEF ExecutePanic, ExitCodeOne, HostExited, CloseDone, Crash, PlayStep, VmStep
<1>8. CASE AfterInst
  <2>1. vm = "after" /\ vm' \in {"exit", "top"} /\ (vm' = "exit" /\ stack # <<>> => fatal')
    BY <1>8 DEF AfterInst, PlayStep, VmStep
  <2>2. exitCode' = exitCode /\ exception' = exception /\ stack' = stack
    BY <1>8 DEF AfterInst, PlayStep
  <2> QED BY <2>1, <2>2
<1>9. CASE CloseInput \/ UNCHANGED vars
  BY <1>9 DEF CloseInput, vars
<1> QED BY <1>1, <1>2, <1>3, <1>4, <1>5, <1>6, <1>7, <1>8, <1>9, StepKinds DEF VmActs

(* What checkBreakpoints() decides on is the state the VM's goroutine      *)
(* leaves alone until it serves a command or executes the instruction.     *)
LEMMA StopStep ==
  ASSUME StackInv, CommandInv, StopInv, [Next]_vars
  PROVE  StopInv'
<1> SUFFICES ASSUME vm' = "wait", ~commanded', runState' # "PAUSE"
             PROVE  ~BreakHit' /\ ~StepHit'
  BY DEF StopInv
<1> USE DEF execVars, breakVars
<1>1. ASSUME UNCHANGED <<pc, stack, native, lineBreaks, instBreaks, step>>
      PROVE  BreakHit' = BreakHit /\ StepHit' = StepHit
  BY <1>1 DEF BreakHit, StepHit, NextHit, Depth
<1>2. CASE Call \/ CtlProgress
  <2>1. vm = "wait" /\ runState = runState' /\ commanded = commanded'
    BY <1>2, CtlFrame DEF Play
  <2>2. runState # "UNSTARTED"
    BY <2>1 DEF StackInv
  <2>3. UNCHANGED <<pc, stack, native, lineBreaks, instBreaks, step>>
    BY <1>2, <2>2, CtlFrame
  <2> QED BY <1>1, <2>1, <2>3 DEF StopInv
<1>3. CASE HostProgress
  BY <1>1, <1>3, SendFrame DEF StopInv
<1>4. CASE VmActs
  <2>1. CheckBreakpoints \/ EndCmd
    <3>1. ~Command
      BY DEF Command, CmdContinue, CmdPause, CmdStep, CmdRestartFrame, CmdRestartNoFrame,
         CmdBreakpoints, CmdInspect, CmdEval, CmdEvalInput, RunCmd, VmStep
    <3>2. ~ExecInst
      BY DEF ExecInst, ExecPlain, ExecFails, ExecJump, ExecCall, ExecCallOverflows, ExecLeave,
         ExecOutput, ExecInput, BeginInst, VmStep
    <3>3. ~(InputTimeout \/ InputEof \/ InputAccepted \/ InputRejected)
      BY DEF InputTimeout, InputEof, InputAccepted, InputRejected, InputReturns, InputStep,
         VmStep
    <3>4. ~(ReceiveCmd \/ ExitRequested \/ ExecutePanic \/ AfterInst \/ HostExited \/ CloseDone
              \/ Crash)
      BY DEF ReceiveCmd, ExitRequested, PlayExits, ExecutePanic, AfterInst, HostExited,
         CloseDone, Crash, PlayStep, VmStep
    <3> QED BY <1>4, <3>1, <3>2, <3>3, <3>4 DEF VmActs
  <2>2. CASE CheckBreakpoints
    <3>1. ~StepHit /\ ~BreakHit
      BY <2>2 DEF CheckBreakpoints
    <3>2. UNCHANGED <<pc, stack, native, lineBreaks, instBreaks, step>>
      BY <2>2, <3>1 DEF CheckBreakpoints
    <3> QED BY <1>1, <3>1, <3>2
  <2>3. CASE EndCmd
    BY <2>3 DEF EndCmd, VmStep, CommandInv
  <2> QED BY <2>1, <2>2, <2>3
<1>5. CASE CloseInput \/ UNCHANGED vars
  BY <1>1, <1>5 DEF CloseInput, vars, StopInv
<1> QED BY <1>2, <1>3, <1>4, <1>5, StepKinds

(* A session without debugging.                                            *)
LEMMA NoDebugStep ==
  ASSUME StackInv, CallInv, NoDebugInv, [Next]_vars
  PROVE  NoDebugInv'
<1> USE DEF NoDebugInv, StackInv, CallInv, Left, execVars, playVars, inputVars, breakVars
<1>1. CASE Call
  BY <1>1
  DEF  Call, Play, PlayAgain, UpdateUnstarted, CallContinue, CallStep, CallRestartFrame,
       CallUpdateBreakpoints, CallOther, Terminate, Halt, Wait, RunInVm, CtlStep, Quietly, opts
<1>2. CASE CtlProgress
  BY <1>2
  DEF  CtlProgress, CallReturns, TerminateYield, CloseCommands, WaitReturns, CommandDone,
       SessionDone, CtlStep, Quietly, opts
<1>3. CASE HostProgress
  BY <1>3, SendFrame
<1>4. CASE CheckBreakpoints \/ ReceiveCmd \/ EndCmd \/ ExitRequested
  BY <1>4 DEF CheckBreakpoints, ReceiveCmd, EndCmd, ExitRequested, PlayExits, VmStep, opts
<1>5. CASE Command
  BY <1>5
  DEF  Command, CmdContinue, CmdPause, CmdStep, CmdRestartFrame, CmdRestartNoFrame,
       CmdBreakpoints, CmdInspect, CmdEval, CmdEvalInput, RunCmd, VmStep, opts
<1>6. CASE ExecInst
  BY <1>6
  DEF  ExecInst, ExecPlain, ExecFails, ExecJump, ExecCall, ExecCallOverflows, ExecLeave,
       ExecOutput, ExecInput, BeginInst, MayExecute, MustYield, NoPanic, Raise, VmStep, opts
<1>7. CASE InputTimeout \/ InputEof \/ InputAccepted \/ InputRejected
  <2>1. vm = "input" /\ noDebug' = noDebug /\ ctl' = ctl
    BY <1>7 DEF InputTimeout, InputEof, InputAccepted, InputRejected, InputReturns, InputStep,
         VmStep, opts
  <2>2. vm' # "unstarted"
    BY <1>7 DEF InputTimeout, InputEof, InputAccepted, InputRejected, InputReturns, InputStep,
         VmStep
  <2>3. noDebug => runState' = runState /\ step' = step
    BY <1>7 DEF InputTimeout, InputEof, InputAccepted, InputRejected, NoPanic, Raise
  <2> QED BY <2>1, <2>2, <2>3
<1>8. CASE ExecutePanic \/ HostExited \/ CloseDone \/ Crash
  BY <1>8 DEF ExecutePanic, HostExited, CloseDone, Crash, PlayStep, VmStep, opts
<1>9. CASE AfterInst
  <2>1. vm = "after" /\ vm' \in {"exit", "top"} /\ noDebug' = noDebug
    BY <1>9 DEF AfterInst, PlayStep, VmStep, opts
  <2>2. ctl' = ctl /\ step' = step /\ (noDebug => runState' = runState)
    BY <1>9 DEF AfterInst, PlayStep
  <2> QED BY <2>1, <2>2
<1>10. CASE CloseInput \/ UNCHANGED vars
  BY <1>10 DEF CloseInput, vars, opts
<1> QED BY <1>1, <1>2, <1>3, <1>4, <1>5, <1>6, <1>7, <1>8, <1>9, <1>10, StepKinds DEF VmActs

-----------------------------------------------------------------------------
(* The session starts in a state of the invariant.                         *)
LEMMA InitReportInv == Init => IInv
<1> SUFFICES ASSUME Init PROVE IInv
  OBVIOUS
<1>1. SessionInv
  BY InitInv
<1>2. LateInv /\ CommandInv /\ ExitInv /\ NoDebugInv
  BY DEF Init, LateInv, CommandInv, ExitInv, NoDebugInv, Evaluating, Left
<1>3. EndInv /\ ParkInv /\ StopInv
  BY DEF Init, HostInit, EndInv, ParkInv, StopInv, Left, OtherReports, EndEvents
<1> QED BY <1>1, <1>2, <1>3 DEF IInv, ReportInv

(* No step leaves it.                                                      *)
LEMMA StepReportInv == IInv /\ [Next]_vars => IInv'
BY StepInv, LateStep, EndStep, ParkStep, CommandStep, ExitStep, StopStep, NoDebugStep
DEF IInv, SessionInv, ReportInv

(* The invariant the others are read from.                                 *)
THEOREM FullInvariance == Spec => []IInv
<1>1. Init => IInv
  BY InitReportInv
<1>2. IInv /\ [Next]_vars => IInv'
  BY StepReportInv
<1> QED BY <1>1, <1>2, PTL DEF Spec

-----------------------------------------------------------------------------
(* Unless a command intervened, no instruction starts that the client      *)
(* asked to stop before.                                                   *)
LEMMA NoStopStep ==
  ASSUME IInv, [Next]_vars, StartsInst, ~commanded
  PROVE  /\ pc \notin lineBreaks /\ pc \notin instBreaks
         /\ step # NoStep => Depth >= step.frame
         /\ step.type \in {"NEXT", "IN"} /\ Depth = step.frame =>
              IF step.gran = "line" THEN Line[pc] = step.line ELSE pc = step.inst
         /\ step.type = "IN" => Depth = step.frame
<1>1. runState # "PAUSE"
  <2>1. ~(Call \/ CtlProgress)
    BY CtlFrame DEF StartsInst, Play
  <2>2. ~HostProgress
    BY SendFrame DEF StartsInst
  <2>3. ~(CloseInput \/ UNCHANGED vars)
    BY DEF CloseInput, vars, StartsInst
  <2>4. ~(CheckBreakpoints \/ ReceiveCmd \/ EndCmd \/ ExitRequested)
    BY DEF CheckBreakpoints, ReceiveCmd, EndCmd, ExitRequested, PlayExits, VmStep, StartsInst
  <2>5. ~Command
    BY DEF Command, CmdContinue, CmdPause, CmdStep, CmdRestartFrame, CmdRestartNoFrame,
       CmdBreakpoints, CmdInspect, CmdEval, CmdEvalInput, RunCmd, VmStep, StartsInst
  <2>6. ~(InputTimeout \/ InputEof \/ InputAccepted \/ InputRejected)
    BY DEF InputTimeout, InputEof, InputAccepted, InputRejected, InputReturns, InputStep,
       VmStep, StartsInst
  <2>7. ~(ExecutePanic \/ AfterInst \/ HostExited \/ CloseDone \/ Crash)
    BY DEF ExecutePanic, AfterInst, HostExited, CloseDone, Crash, PlayStep, VmStep, StartsInst
  <2>8. ExecInst
    BY <2>1, <2>2, <2>3, <2>4, <2>5, <2>6, <2>7, StepKinds DEF VmActs
  <2> QED
    BY <2>8
    DEF ExecInst, ExecPlain, ExecFails, ExecJump, ExecCall, ExecCallOverflows, ExecLeave,
        ExecOutput, ExecInput, BeginInst, MayExecute, MustYield
<1>2. ~BreakHit /\ ~StepHit
  BY <1>1 DEF IInv, ReportInv, StopInv, StartsInst
<1>3. Depth \in Nat
  BY LenProperties DEF IInv, SessionInv, TypeOK, ExecTypeOK, Depth
<1>4. CASE step = NoStep
  BY <1>2, <1>4 DEF BreakHit, NoStep
<1>5. CASE step \in ArmedSteps
  <2>1. step.type \in {"NEXT", "IN", "OUT"} /\ step.frame \in Nat
    BY <1>5 DEF ArmedSteps, StepTypes
  <2>2. Depth >= step.frame
    BY <1>2, <1>3, <2>1 DEF StepHit, NextHit
  <2>3. step.type \in {"NEXT", "IN"} /\ Depth = step.frame =>
          ~(IF step.gran = "line" THEN Line[pc] # step.line ELSE pc # step.inst)
    BY <1>2, <1>3, <2>1 DEF StepHit, NextHit
  <2>4. step.type = "IN" => Depth = step.frame
    BY <1>2, <1>3, <2>1 DEF StepHit
  <2> QED BY <1>2, <2>2, <2>3, <2>4 DEF BreakHit
<1> QED BY <1>4, <1>5 DEF IInv, SessionInv, TypeOK, DebugTypeOK

(* The VM stops where the client asked it to.                              *)
THEOREM StopsAreKept == Spec => NoStopMissed
<1>1. IInv /\ [Next]_vars =>
        [StartsInst /\ ~commanded =>
           /\ pc \notin lineBreaks /\ pc \notin instBreaks
           /\ step # NoStep => Depth >= step.frame
           /\ step.type \in {"NEXT", "IN"} /\ Depth = step.frame =>
                IF step.gran = "line" THEN Line[pc] = step.line ELSE pc = step.inst
           /\ step.type = "IN" => Depth = step.frame]_vars
  BY NoStopStep
<1> QED BY <1>1, FullInvariance, PTL DEF Spec, NoStopMissed

(* Once the host is suppressed, at most one event still goes out.          *)
THEOREM HaltSilences == Spec => []HaltNearlyQuiet
<1>1. IInv => HaltNearlyQuiet
  BY DEF IInv, ReportInv, LateInv, HaltNearlyQuiet
<1> QED BY <1>1, FullInvariance, PTL

(* close(ds.done) comes after the client was told of the exit.             *)
THEOREM DoneIsTold == Spec => []DoneAfterExited
<1>1. IInv => DoneAfterExited
  BY DEF IInv, SessionInv, CallInv, ReportInv, EndInv, Left, DoneAfterExited
<1> QED BY <1>1, FullInvariance, PTL

(* The exit code is 1 exactly for a program that ends in an exception.     *)
THEOREM ExitCodeIsTrue == Spec => []ExitCodeTellsException
<1>1. IInv => ExitCodeTellsException
  BY DEF IInv, ReportInv, ExitInv, Left, ExitCodeTellsException
<1> QED BY <1>1, FullInvariance, PTL

(* The client of a program that is parked knows that it has stopped.       *)
THEOREM ParkIsTold == Spec => []ParkedIsTold
<1>1. IInv => ParkedIsTold
  BY ReportHeads DEF IInv, ReportInv, ParkInv, Left, ParkedIsTold
<1> QED BY <1>1, FullInvariance, PTL

(* The client hears nothing after the end of the run.                      *)
THEOREM ExitIsToldLast == Spec => ExitIsFinal
<1>1. ASSUME IInv, [Next]_vars, told # told'
      PROVE  /\ told = "exited" => told' \in {"exited", "terminated"}
             /\ told = "terminated" => told' = "terminated"
  <2> SUFFICES ASSUME told \in EndEvents
               PROVE  told = "exited" /\ told' = "terminated"
    BY DEF EndEvents
  <2> USE DEF IInv, ReportInv
  <2>1. ~(Call \/ CtlProgress)
    BY <1>1, CtlFrame DEF CallContinue
  <2>2. ~VmActs
    BY <1>1, VmFrame
  <2>3. ~(CloseInput \/ UNCHANGED vars)
    BY <1>1 DEF CloseInput, vars, heard
  <2>4. HostProgress
    BY <1>1, <2>1, <2>2, <2>3, StepKinds
  <2>5. outbox = <<"terminated">>
    BY <2>4, <1>1, SendFrame DEF EndInv
  <2>6. told' = "terminated"
    BY <1>1, <2>4, <2>5, ReportTails DEF HostProgress, Hear, heard
  <2>7. told = "exited"
    BY <1>1, <2>6 DEF EndEvents
  <2> QED BY <2>6, <2>7
<1>2. IInv /\ [Next]_vars =>
        [/\ told = "exited" => told' \in {"exited", "terminated"}
         /\ told = "terminated" => told' = "terminated"]_told
  BY <1>1
<1> QED BY <1>2, FullInvariance, PTL DEF Spec, ExitIsFinal

-----------------------------------------------------------------------------
(* The session does what DebugRun promises, and nothing else.              *)

(* Where the caller of a session sees its VM, before and after a step.     *)
LEMMA LifeIs ==
  ASSUME vm \in VmStates, vm' \in VmStates
  PROVE  /\ vm \in Left \cup {"unstarted"} => life = vm
         /\ vm = "exit" => life = "leaving"
         /\ vm \notin Left \cup {"unstarted", "exit"} => life = "playing"
         /\ vm' \in Left \cup {"unstarted"} => life' = vm'
         /\ vm' = "exit" => life' = "leaving"
         /\ vm' \notin Left \cup {"unstarted", "exit"} => life' = "playing"
BY DEF life, Left, VmStates

(* Where its call is.                                                      *)
LEMMA CallIs ==
  ASSUME CallInv, InputInv, ctl \in CtlStates
  PROVE  /\ ctl = "idle" => call = "none"
         /\ Evaluating => call = "evaluating"
         /\ ctl = "returning" => call = "served"
         /\ vm \in {"cmdEnd", "cmdPanic"} => call = "serving"
         /\ ctl \in {"send", "await"} /\ ~Evaluating /\ vm \notin {"cmdEnd", "cmdPanic"}
              => call = "open"
         /\ ctl \in {"terminating", "closing"} => call = "terminating"
         /\ ctl \in {"waiting", "panicked"} => call = ctl
BY DEF call, serving, CallInv, InputInv, Evaluating, CtlStates

(* The same of what follows: a step leads from one of them to the other.   *)
LEMMA CallIsNext ==
  ASSUME CallInv', InputInv', (ctl \in CtlStates)'
  PROVE  /\ ctl' = "idle" => call' = "none"
         /\ Evaluating' => call' = "evaluating"
         /\ ctl' = "returning" => call' = "served"
         /\ vm' \in {"cmdEnd", "cmdPanic"} => call' = "serving"
         /\ ctl' \in {"send", "await"} /\ ~Evaluating' /\ vm' \notin {"cmdEnd", "cmdPanic"}
              => call' = "open"
         /\ ctl' \in {"terminating", "closing"} => call' = "terminating"
         /\ ctl' \in {"waiting", "panicked"} => call' = ctl'
BY DEF call, serving, CallInv, InputInv, Evaluating, CtlStates

(* The closure it passes.                                                  *)
LEMMA RequestIs ==
  ASSUME NEW c \in Commands
  PROVE  LET r == IF c.op \in {"lineBreaks", "instBreaks"} THEN c ELSE [op |-> c.op]
         IN  /\ r \in Run!RunCommands
             /\ r.op = c.op
             /\ c.op \in {"lineBreaks", "instBreaks"} => r.pcs = c.pcs
BY DEF Commands, Run!RunCommands

(* A session starts as it is promised to.                                  *)
LEMMA InitIsRunInit == Init => Run!RunInit
<1> SUFFICES ASSUME Init PROVE Run!RunInit
  OBVIOUS
<1>1. life = "unstarted" /\ call = "none" /\ request = Run!NoRunCommand
  BY DEF Init, life, call, serving, request, Evaluating, NoCmd, Run!NoRunCommand
<1>2. lineBreaks \in {bps \cup entry : bps \in BreakSets, entry \in {{}, {0}}}
  <2>1. PICK bps \in BreakSets : lineBreaks = IF stopOnEntry THEN bps \cup {0} ELSE bps
    BY DEF Init
  <2>2. lineBreaks = bps \cup {} \/ lineBreaks = bps \cup {0}
    BY <2>1
  <2> QED BY <2>2
<1>3. HostInit /\ noDebug \in BOOLEAN /\ runState # "PAUSE" /\ commandsClosed = FALSE
        /\ instBreaks = {}
  BY DEF Init
<1> QED BY <1>1, <1>2, <1>3 DEF Run!RunInit, Run!HostInit, HostInit

-----------------------------------------------------------------------------
(* What the caller does is what it may do.                                 *)
LEMMA CallerImplements ==
  ASSUME IInv, IInv', Call \/ CtlProgress
  PROVE  Run!RunCaller \/ UNCHANGED Run!runVars
<1>1. /\ vm \in VmStates /\ vm' \in VmStates
      /\ ctl \in CtlStates /\ (ctl \in CtlStates)'
      /\ CallInv /\ InputInv /\ CallInv' /\ InputInv'
  BY DEF IInv, SessionInv, TypeOK, ControlTypeOK
<1>2. /\ vm # "crashed" /\ outbox' = outbox /\ passed' = passed /\ noDebug' = noDebug
      /\ evalTimer' = evalTimer
  BY CtlFrame
<1>3. life # "crashed"
  BY <1>1, <1>2, LifeIs DEF Left
<1>4. (runState = "UNSTARTED") <=> (vm = "unstarted")
  BY DEF IInv, SessionInv, ReportInv, StackInv, NoDebugInv
<1>5. ASSUME ctl = "idle"
      PROVE  ~Evaluating /\ vm \notin {"cmdEnd", "cmdPanic"} /\ call = "none"
  BY <1>1, <1>5, CallIs DEF CallInv
<1>6. ASSUME vm' = vm
      PROVE  life' = life
  BY <1>6 DEF life
<1>7. ASSUME cmd' = cmd
      PROVE  request' = request
  BY <1>7 DEF request
<1> USE <1>2, <1>3
    DEF CtlStep, Quietly, hostVars, breakVars, Run!CallStep, Run!breakVars, Run!runVars,
        Run!hostVars
<1>8. CASE Play
  <2>1. ctl = "idle" /\ ctl' = "idle" /\ vm = "unstarted" /\ vm' = "top" /\ cmd' = cmd
    BY <1>4, <1>8 DEF Play
  <2>2. life = "unstarted" /\ life' = "playing" /\ call = "none" /\ call' = "none"
    BY <1>1, <1>5, <2>1, LifeIs, CallIsNext DEF Left
  <2>3. runState # "PAUSE" /\ runState' # "PAUSE"
    BY <1>8 DEF Play
  <2>4. suppressed' = suppressed /\ commandsClosed' = commandsClosed
          /\ lineBreaks' = lineBreaks /\ instBreaks' = instBreaks
    BY <1>8 DEF Play
  <2> QED BY <1>7, <2>1, <2>2, <2>3, <2>4 DEF Run!RunPlay, Run!RunCaller
<1>9. CASE PlayAgain
  <2>1. vm # "unstarted" /\ ctl = "idle" /\ ctl' = "panicked"
    BY <1>4, <1>9 DEF PlayAgain
  <2>2. life # "unstarted" /\ call = "none" /\ call' = "panicked"
    BY <1>1, <1>5, <2>1, LifeIs, CallIsNext DEF Left
  <2> QED BY <1>6, <1>7, <1>9, <2>2 DEF PlayAgain, Run!RunPlayAgain, Run!RunCaller
<1>10. CASE UpdateUnstarted
  <2>1. vm = "unstarted" /\ ctl = "idle" /\ ctl' = "idle"
    BY <1>4, <1>10 DEF UpdateUnstarted
  <2>2. life = "unstarted" /\ call = "none" /\ call' = "none"
    BY <1>1, <1>5, <2>1, LifeIs, CallIsNext DEF Left
  <2>3. PICK kind \in {"lineBreaks", "instBreaks"}, bps \in BreakSets :
               /\ lineBreaks' = IF kind = "lineBreaks" THEN bps ELSE lineBreaks
               /\ instBreaks' = IF kind = "instBreaks" THEN bps ELSE instBreaks
    BY <1>10 DEF UpdateUnstarted
  <2>4. Run!RunUpdateUnstarted(kind, bps)
    BY <1>6, <1>7, <1>10, <2>2, <2>3 DEF UpdateUnstarted, Run!RunUpdateUnstarted
  <2> QED BY <2>4 DEF Run!RunCaller
<1>11. CASE CallContinue \/ CallStep \/ CallRestartFrame \/ CallUpdateBreakpoints \/ CallOther
  <2>1. PICK c \in Commands : RunInVm(c)
    BY <1>11, CallRunsCommand
  <2>2. ctl = "idle" /\ ctl' = "send" /\ vm' = vm
    BY <2>1 DEF RunInVm
  <2>3. call = "none" /\ call' = "open"
    <3>1. ~Evaluating' /\ vm' \notin {"cmdEnd", "cmdPanic"}
      BY <1>5, <2>2 DEF Evaluating
    <3> QED BY <1>1, <1>5, <2>2, <3>1, CallIsNext
  <2>4. request' \in Run!RunCommands
    BY <2>1, RequestIs DEF RunInVm, request
  <2>5. suppressed' = suppressed
    BY <1>11, <2>1 DEF CallContinue, CallStep, CallRestartFrame, CallUpdateBreakpoints, CallOther
  <2>6. Run!Offer(request')
    BY <1>6, <2>1, <2>2, <2>3, <2>5 DEF RunInVm, Guarded, Run!Offer
  <2> QED BY <2>4, <2>6 DEF Run!RunCaller
<1>12. CASE Terminate \/ Halt
  <2>1. ctl = "idle" /\ ctl' = "terminating" /\ vm' = vm /\ cmd' = cmd
    BY <1>12 DEF Terminate, Halt
  <2>2. call = "none" /\ call' = "terminating"
    BY <1>1, <1>5, <2>1, CallIsNext
  <2>3. CASE Terminate
    BY <1>6, <1>7, <2>1, <2>2, <2>3 DEF Terminate, Run!RunTerminate, Run!RunCaller
  <2>4. CASE Halt
    BY <1>6, <1>7, <2>1, <2>2, <2>4 DEF Halt, SuppressAllEvents, Run!RunHalt, Run!RunCaller
  <2> QED BY <1>12, <2>3, <2>4
<1>13. CASE Wait
  <2>1. ctl = "idle" /\ ctl' = "waiting" /\ vm' = vm /\ cmd' = cmd
    BY <1>13 DEF Wait
  <2>2. call = "none" /\ call' = "waiting"
    BY <1>1, <1>5, <2>1, CallIsNext
  <2> QED BY <1>6, <1>7, <1>13, <2>1, <2>2 DEF Wait, Run!RunWait, Run!RunCaller
<1>14. CASE CallReturns
  <2>1. /\ cmd' = NoCmd /\ vm' = vm /\ ctl' = "idle"
        /\ ctl = "returning" \/ (done /\ ctl \in {"send", "await"})
    BY <1>14 DEF CallReturns, CommandDone, SessionDone
  <2>2. request' = Run!NoRunCommand
    BY <2>1 DEF request, NoCmd, Run!NoRunCommand
  <2>3. call' = "none"
    BY <1>1, <2>1, CallIsNext
  <2>4. call = "served" \/ (call = "open" /\ life = "done")
    <3>1. CASE ctl = "returning"
      BY <1>1, <3>1, CallIs
    <3>2. CASE done /\ ctl \in {"send", "await"}
      <4>1. vm = "done"
        BY <1>1, <1>2, <3>2 DEF CallInv
      <4>2. ~Evaluating
        BY <1>1, <4>1 DEF InputInv
      <4> QED BY <1>1, <3>2, <4>1, <4>2, CallIs, LifeIs DEF Left
    <3> QED BY <2>1, <3>1, <3>2
  <2> QED
    BY <1>6, <1>14, <2>1, <2>2, <2>3, <2>4
    DEF CallReturns, Run!OfferReturns, Run!NobodyServes, Run!RunCaller
<1>15. CASE TerminateYield
  <2>1. ctl = "terminating" /\ ctl' = "closing" /\ vm' = vm /\ cmd' = cmd
    BY <1>15 DEF TerminateYield
  <2>2. call = "terminating" /\ call' = "terminating"
    BY <1>1, <2>1, CallIs, CallIsNext
  <2> QED BY <1>6, <1>7, <1>15, <2>1, <2>2 DEF TerminateYield
<1>16. CASE CloseCommands
  <2>1. ctl = "closing" /\ ctl' = "idle" /\ vm' = vm /\ cmd' = cmd
    BY <1>16 DEF CloseCommands
  <2>2. call = "terminating" /\ call' = "none"
    BY <1>1, <2>1, CallIs, CallIsNext
  <2> QED BY <1>6, <1>7, <1>16, <2>1, <2>2 DEF CloseCommands, Run!RunClose, Run!RunCaller
<1>17. CASE WaitReturns
  <2>1. done /\ ctl = "waiting" /\ ctl' = "idle" /\ vm' = vm /\ cmd' = cmd
    BY <1>17 DEF WaitReturns
  <2>2. call = "waiting" /\ call' = "none"
    BY <1>1, <2>1, CallIs, CallIsNext
  <2>3. life = "done"
    BY <1>1, <1>2, <2>1, LifeIs DEF CallInv, Left
  <2> QED
    BY <1>6, <1>7, <1>17, <2>1, <2>2, <2>3 DEF WaitReturns, Run!RunWaitReturns, Run!RunCaller
<1> QED
  BY <1>8, <1>9, <1>10, <1>11, <1>12, <1>13, <1>14, <1>15, <1>16, <1>17 DEF Call, CtlProgress

-----------------------------------------------------------------------------
(* The states of the VM's goroutine in play() and not in a closure.        *)
Executing == {"top", "wait", "input", "after"}

(* While the VM executes, the caller's call is where it was.               *)
LEMMA ExecutingFrame ==
  ASSUME IInv, IInv', VmActs, vm \in Executing, vm' \in Executing,
         ctl' = ctl, evalTimer' = evalTimer, lineBreaks' = lineBreaks, instBreaks' = instBreaks
  PROVE  /\ life = "playing" /\ life' = "playing" /\ call' = call /\ request' = request
         /\ call # "serving" /\ (call = "evaluating" => Evaluating)
         /\ UNCHANGED <<suppressed, passed, noDebug, commandsClosed>>
         /\ outbox = <<>>
         /\ noDebug => step = NoStep /\ (vm # "wait" => runState # "PAUSE")
<1>1. /\ vm \in VmStates /\ vm' \in VmStates /\ ctl \in CtlStates
      /\ CallInv /\ InputInv /\ NoDebugInv
  BY DEF IInv, SessionInv, TypeOK, ControlTypeOK, ReportInv
<1>2. life = "playing" /\ life' = "playing"
  BY <1>1, LifeIs DEF Executing, Left
<1>3. vm \notin {"cmdEnd", "cmdPanic"} /\ vm' \notin {"cmdEnd", "cmdPanic"}
  BY DEF Executing
<1>4. call' = call
  BY <1>3 DEF call, serving, Evaluating
<1>5. call # "serving" /\ (call = "evaluating" => Evaluating)
  BY <1>1, <1>3 DEF call, serving, CtlStates
<1>6. request' = request
  BY VmFrame DEF request
<1>7. noDebug => step = NoStep /\ (vm # "wait" => runState # "PAUSE")
  BY <1>1 DEF NoDebugInv, Executing, Left
<1> QED BY <1>2, <1>4, <1>5, <1>6, <1>7, VmFrame

(* It may be silent ...                                                    *)
LEMMA SilentImplements ==
  ASSUME IInv, IInv', VmActs, vm \in Executing, vm' \in Executing,
         ctl' = ctl, evalTimer' = evalTimer, lineBreaks' = lineBreaks, instBreaks' = instBreaks,
         outbox' = <<>>, runState' = runState
  PROVE  UNCHANGED Run!runVars
BY ExecutingFrame DEF Run!runVars, Run!hostVars, Run!breakVars

(* ... or report what it does ...                                          *)
LEMMA ReportImplements ==
  ASSUME IInv, IInv', VmActs, vm \in Executing, vm' \in Executing,
         ctl' = ctl, evalTimer' = evalTimer, lineBreaks' = lineBreaks, instBreaks' = instBreaks,
         runState' = runState, noDebug => runState # "PAUSE",
         \/ outbox' \in {<<"output">>, <<"i/o wait">>}
         \/ outbox' \in {<<"continued">>, <<"continued", "output">>} /\ runState # "PAUSE"
  PROVE  Run!Report
<1>1. /\ life = "playing" /\ life' = "playing" /\ call' = call /\ request' = request
      /\ call # "serving" /\ outbox = <<>>
      /\ UNCHANGED <<suppressed, passed, noDebug, commandsClosed>>
  BY ExecutingFrame
<1>2. Run!Playing(outbox')
  BY <1>1 DEF Run!Playing, Run!RunStep, Run!HostQuiet, Run!Post, Run!breakVars
<1> QED BY <1>1, <1>2 DEF Run!Report, Run!Stuck

(* ... or that it has stopped.                                             *)
LEMMA StopImplements ==
  ASSUME IInv, IInv', VmActs, vm \in Executing, vm' \in Executing,
         ctl' = ctl, evalTimer' = evalTimer, lineBreaks' = lineBreaks, instBreaks' = instBreaks,
         runState' = "PAUSE", noDebug => outbox' = <<"breakpoint">> /\ runState # "PAUSE",
         outbox' \in {<<"step">>, <<"breakpoint">>, <<"step", "breakpoint">>, <<"exception">>},
         ~Evaluating
  PROVE  Run!Stop
<1>1. /\ life = "playing" /\ life' = "playing" /\ call' = call /\ request' = request
      /\ call \notin {"evaluating", "serving"} /\ outbox = <<>>
      /\ UNCHANGED <<suppressed, passed, noDebug, commandsClosed>>
  BY ExecutingFrame
<1>2. Run!Playing(outbox')
  BY <1>1 DEF Run!Playing, Run!RunStep, Run!HostQuiet, Run!Post, Run!breakVars
<1> QED BY <1>1, <1>2 DEF Run!Stop, Run!Stuck

(* play() returns.                                                         *)
LEMMA LeaveImplements ==
  ASSUME IInv, IInv', VmActs, vm \in Executing, vm' = "exit",
         ctl' = ctl, evalTimer' = evalTimer, lineBreaks' = lineBreaks, instBreaks' = instBreaks,
         ~Evaluating,
         \/ outbox' \in {<<>>, <<"output", "panicked">>} /\ runState' = runState
         \/ ~noDebug /\ outbox' = <<"exception">> /\ runState' = "PAUSE",
         noDebug /\ runState = "PAUSE" => commandsClosed
  PROVE  Run!Leave
<1>1. /\ vm \in VmStates /\ vm' \in VmStates /\ ctl \in CtlStates /\ CallInv
  BY DEF IInv, SessionInv, TypeOK, ControlTypeOK
<1>2. life = "playing" /\ life' = "leaving"
  BY <1>1, LifeIs DEF Executing, Left
<1>3. call' = call /\ call \notin {"evaluating", "serving"}
  <2>1. ~Evaluating' /\ vm \notin {"cmdEnd", "cmdPanic"} /\ vm' \notin {"cmdEnd", "cmdPanic"}
    BY DEF Evaluating, Executing
  <2> QED BY <1>1, <2>1 DEF call, serving, CtlStates
<1>4. request' = request
  BY VmFrame DEF request
<1>5. Run!RunStep("playing", "leaving")
  BY <1>2, VmFrame DEF Run!RunStep, Run!HostQuiet
<1>6. suppressed' = suppressed /\ passed' = passed
  BY VmFrame
<1>7. \/ \E evs \in {<<>>, <<"output", "panicked">>} :
           Run!Post(evs) /\ (runState' = "PAUSE") = (runState = "PAUSE")
      \/ ~noDebug /\ Run!Post(<<"exception">>) /\ (runState' = "PAUSE") = TRUE
  BY <1>6 DEF Run!Post
<1> QED BY <1>3, <1>4, <1>5, <1>7 DEF Run!Leave, Run!Stuck, Run!breakVars

(* It serves a command.                                                    *)
LEMMA ServeImplements ==
  ASSUME IInv, IInv', Command
  PROVE  Run!Serve
<1>1. /\ vm \in VmStates /\ vm' \in VmStates /\ ctl \in CtlStates /\ (ctl \in CtlStates)'
      /\ CallInv /\ InputInv /\ CallInv' /\ InputInv' /\ cmd \in Commands
  BY DEF IInv, SessionInv, TypeOK, ControlTypeOK, DebugTypeOK
<1>2. vm = "cmd" /\ ctl' = ctl /\ cmd' = cmd
  BY DEF Command, CmdContinue, CmdPause, CmdStep, CmdRestartFrame, CmdRestartNoFrame,
     CmdBreakpoints, CmdInspect, CmdEval, CmdEvalInput, RunCmd, VmStep
<1>3. /\ outbox = <<>> /\ suppressed' = suppressed /\ passed' = passed /\ noDebug' = noDebug
      /\ commandsClosed' = commandsClosed
  BY VmFrame DEF VmActs
<1>4. request' = request /\ request.op = cmd.op
        /\ (cmd.op \in {"lineBreaks", "instBreaks"} => request.pcs = cmd.pcs)
  BY <1>1, <1>2, RequestIs DEF request
<1>5. life = "playing" /\ call = "open"
  BY <1>1, <1>2, LifeIs, CallIs DEF CallInv, InputInv, Left
<1>6. CASE CmdEvalInput
  <2>1. vm' = "input" /\ evalTimer' = "armed" /\ cmd.op = "evalInput"
    BY <1>6 DEF CmdEvalInput, RunCmd, VmStep
  <2>2. life' = "playing" /\ call' = "evaluating"
    BY <1>1, <2>1, LifeIs, CallIsNext DEF Left, Evaluating
  <2>3. outbox' = <<"output">> /\ runState' = runState /\ lineBreaks' = lineBreaks
          /\ instBreaks' = instBreaks
    BY <1>6 DEF CmdEvalInput, Post, breakVars
  <2> QED
    BY <1>3, <1>4, <1>5, <2>1, <2>2, <2>3
    DEF Run!Serve, Run!RunStep, Run!HostQuiet, Run!Post
<1>7. CASE ~CmdEvalInput
  <2>1. vm' \in {"cmdEnd", "cmdPanic"} /\ cmd.op # "evalInput"
    BY <1>7 DEF Command, CmdContinue, CmdPause, CmdStep, CmdRestartFrame, CmdRestartNoFrame,
       CmdBreakpoints, CmdInspect, CmdEval, RunCmd, VmStep
  <2>2. life' = "playing" /\ call' = "serving"
    BY <1>1, <2>1, LifeIs, CallIsNext DEF Left
  <2>3. /\ outbox' \in CASE cmd.op = "pause" -> {<<"pause">>}
                         [] cmd.op = "eval"  -> {<<>>, <<"output">>}
                         [] OTHER            -> {<<>>}
        /\ runState' = CASE cmd.op = "continue" -> "RUN"
                         [] cmd.op = "pause"    -> "PAUSE"
                         [] OTHER               -> runState
        /\ lineBreaks' = IF cmd.op = "lineBreaks" THEN cmd.pcs ELSE lineBreaks
        /\ instBreaks' = IF cmd.op = "instBreaks" THEN cmd.pcs ELSE instBreaks
    BY <1>3, <1>7
    DEF Command, CmdContinue, CmdPause, CmdStep, CmdRestartFrame, CmdRestartNoFrame,
        CmdBreakpoints, CmdInspect, CmdEval, RunCmd, Post, hostVars, breakVars
  <2>4. \E evs \in CASE cmd.op = "pause"     -> {<<"pause">>}
                      [] cmd.op = "eval"      -> {<<>>, <<"output">>}
                      [] cmd.op = "evalInput" -> {<<"output">>}
                      [] OTHER                -> {<<>>} : Run!Post(evs)
    BY <1>3, <2>1, <2>3 DEF Run!Post
  <2>5. (runState' = "PAUSE") = CASE cmd.op = "continue" -> FALSE
                                  [] cmd.op = "pause"    -> TRUE
                                  [] OTHER               -> runState = "PAUSE"
    BY <2>3
  <2>6. Run!RunStep("playing", "playing")
    BY <1>3, <1>5, <2>2 DEF Run!RunStep, Run!HostQuiet
  <2> QED BY <1>4, <1>5, <2>1, <2>2, <2>3, <2>4, <2>5, <2>6 DEF Run!Serve
<1> QED BY <1>6, <1>7

(* What the VM's goroutine does is what it may do.                         *)
LEMMA VmImplements ==
  ASSUME IInv, IInv', VmActs
  PROVE  Run!RunVm \/ UNCHANGED Run!runVars
<1>1. /\ vm \in VmStates /\ vm' \in VmStates /\ ctl \in CtlStates /\ (ctl \in CtlStates)'
      /\ CallInv /\ InputInv /\ CallInv' /\ InputInv' /\ NoDebugInv
  BY DEF IInv, SessionInv, ReportInv, TypeOK, ControlTypeOK
<1>2. /\ outbox = <<>> /\ suppressed' = suppressed /\ passed' = passed /\ noDebug' = noDebug
      /\ commandsClosed' = commandsClosed /\ request' = request
  BY VmFrame DEF request
<1>3. vm # "input" => ~Evaluating
  BY <1>1 DEF InputInv
<1>4. noDebug => step = NoStep /\ (vm \in {"top", "after", "input"} => runState # "PAUSE")
  BY <1>1 DEF NoDebugInv, Left
<1> USE <1>2 DEF Executing, Run!RunVm, execVars, playVars, inputVars, breakVars, hostVars, Post
<1>5. CASE CheckBreakpoints
  <2>1. /\ vm = "top" /\ vm' = "wait" /\ ctl' = ctl /\ evalTimer' = evalTimer
        /\ lineBreaks' = lineBreaks /\ instBreaks' = instBreaks
    BY <1>5 DEF CheckBreakpoints, VmStep
  <2>2. CASE ~StepHit /\ ~BreakHit
    <3>1. outbox' = <<>> /\ runState' = runState
      <4>1. <<>> \o <<>> = <<>>
        BY EmptySeq, ConcatEmptySeq
      <4> QED BY <1>5, <2>2, <4>1 DEF CheckBreakpoints
    <3> QED BY <2>1, <3>1, SilentImplements
  <2>3. CASE StepHit \/ BreakHit
    <3>1. runState' = "PAUSE"
      BY <1>5, <2>3 DEF CheckBreakpoints
    <3>2. outbox' = IF StepHit THEN IF BreakHit THEN <<"step", "breakpoint">> ELSE <<"step">>
                               ELSE <<"breakpoint">>
      BY <1>5, <2>3, Joined DEF CheckBreakpoints
    <3>3. noDebug => ~StepHit /\ runState # "PAUSE"
      BY <1>4, <2>1 DEF StepHit, NoStep
    <3> QED BY <1>3, <2>1, <3>1, <3>2, <3>3, StopImplements
  <2> QED BY <2>2, <2>3
<1>6. CASE ReceiveCmd
  <2>1. /\ ctl = "send" /\ ctl' = "await" /\ vm \in {"wait", "input"} /\ vm' = "cmd"
        /\ evalTimer' = evalTimer /\ outbox' = <<>> /\ runState' = runState
        /\ lineBreaks' = lineBreaks /\ instBreaks' = instBreaks
    BY <1>6 DEF ReceiveCmd, VmStep
  <2>2. ~Evaluating /\ ~Evaluating'
    BY <1>1, <2>1 DEF CallInv, Evaluating
  <2>3. call = "open" /\ call' = "open"
    BY <1>1, <2>1, <2>2, CallIs, CallIsNext
  <2>4. life = "playing" /\ life' = "playing"
    BY <1>1, <2>1, LifeIs DEF Left
  <2> QED BY <2>1, <2>3, <2>4 DEF Run!runVars, Run!hostVars, Run!breakVars
<1>7. CASE Command
  BY <1>7, ServeImplements
<1>8. CASE EndCmd
  <2>1. /\ vm \in {"cmdEnd", "cmdPanic"} /\ vm' \in Executing /\ ctl' = "returning"
        /\ outbox' = <<>> /\ runState' = runState
        /\ lineBreaks' = lineBreaks /\ instBreaks' = instBreaks
    BY <1>8 DEF EndCmd, VmStep
  <2>2. call = "serving" /\ call' = "served"
    BY <1>1, <2>1, CallIs, CallIsNext
  <2>3. life = "playing" /\ life' = "playing"
    BY <1>1, <2>1, LifeIs DEF Left
  <2> QED
    BY <2>1, <2>2, <2>3
    DEF Run!Served, Run!RunStep, Run!HostQuiet, Run!hostVars, Run!breakVars
<1>9. CASE ExitRequested
  <2>1. /\ vm \in Executing /\ vm' = "exit" /\ ctl' = ctl /\ evalTimer' = evalTimer
        /\ lineBreaks' = lineBreaks /\ instBreaks' = instBreaks
        /\ outbox' = <<>> /\ runState' = runState /\ commandsClosed
    BY <1>9 DEF ExitRequested, PlayExits, VmStep
  <2>2. ~Evaluating
    BY <1>1, <2>1 DEF CallInv
  <2> QED BY <2>1, <2>2, LeaveImplements
<1>10. CASE ExecInst
  <2>1. /\ vm = "wait" /\ vm' \in {"after", "input"} /\ ctl' = ctl /\ evalTimer' = evalTimer
        /\ lineBreaks' = lineBreaks /\ instBreaks' = instBreaks /\ runState # "PAUSE"
    BY <1>10
    DEF ExecInst, ExecPlain, ExecFails, ExecJump, ExecCall, ExecCallOverflows, ExecLeave,
        ExecOutput, ExecInput, BeginInst, MayExecute, MustYield, VmStep
  <2>2. CASE outbox' = <<>> /\ runState' = runState
    BY <2>1, <2>2, SilentImplements
  <2>3. CASE outbox' = <<"output">> /\ runState' = runState
    BY <2>1, <2>3, ReportImplements
  <2>4. CASE ~noDebug /\ outbox' = <<"exception">> /\ runState' = "PAUSE"
    BY <1>3, <2>1, <2>4, StopImplements
  <2> QED
    BY <1>10, <2>2, <2>3, <2>4
    DEF ExecInst, ExecPlain, ExecFails, ExecJump, ExecCall, ExecCallOverflows, ExecLeave,
        ExecOutput, ExecInput, NoPanic, Raise
<1>11. CASE InputTimeout \/ InputRejected
  <2>1. /\ vm = "input" /\ vm' = "input" /\ ctl' = ctl /\ runState' = runState
        /\ lineBreaks' = lineBreaks /\ instBreaks' = instBreaks
    BY <1>11 DEF InputTimeout, InputRejected, InputStep, NoPanic, VmStep
  <2>2. \/ outbox' \in {<<"output">>, <<"i/o wait">>}
        \/ outbox' = <<"continued", "output">> /\ runState # "PAUSE"
    <3>1. CASE InputTimeout
      BY <3>1 DEF InputTimeout
    <3>2. CASE InputRejected
      <4>1. outbox' = Resumed \o <<"output">>
        BY <3>2 DEF InputRejected
      <4>2. Resumed = <<>> \/ (Resumed = <<"continued">> /\ runState # "PAUSE")
        BY DEF Resumed
      <4> QED BY <4>1, <4>2, Joined
    <3> QED BY <1>11, <3>1, <3>2
  <2>3. Evaluating' <=> Evaluating
    BY <1>11 DEF InputTimeout, InputRejected, InputStep, Evaluating
  <2>4. call' = call
    BY <2>1, <2>3 DEF call, serving
  <2>5. life = "playing" /\ life' = "playing"
    BY <1>1, <2>1, LifeIs DEF Left
  <2>6. call # "serving"
    BY <1>1, <2>1 DEF call, serving, CtlStates
  <2>7. Run!Playing(outbox')
    BY <2>1, <2>4, <2>5 DEF Run!Playing, Run!RunStep, Run!HostQuiet, Run!Post, Run!breakVars
  <2> QED BY <1>4, <2>1, <2>2, <2>6, <2>7 DEF Run!Report, Run!Stuck
<1>12. CASE (InputAccepted \/ InputEof) /\ Evaluating
  <2>1. /\ vm = "input" /\ vm' = "cmdEnd" /\ ctl' = ctl /\ runState' = runState
        /\ lineBreaks' = lineBreaks /\ instBreaks' = instBreaks
    BY <1>12 DEF InputAccepted, InputEof, InputReturns, InputStep, NoPanic, VmStep
  <2>2. outbox' = <<>> \/ (outbox' = <<"continued">> /\ runState # "PAUSE")
    BY <1>12 DEF InputAccepted, InputEof, Resumed
  <2>3. call = "evaluating" /\ call' = "serving"
    BY <1>1, <1>12, <2>1, CallIs, CallIsNext
  <2>4. life = "playing" /\ life' = "playing"
    BY <1>1, <2>1, LifeIs DEF Left
  <2>5. <<"continued">> # <<>>
    BY Short
  <2> QED
    BY <2>1, <2>2, <2>3, <2>4, <2>5
    DEF Run!Evaluated, Run!RunStep, Run!HostQuiet, Run!Post, Run!breakVars
<1>13. CASE (InputAccepted \/ InputEof) /\ ~Evaluating
  <2>1. /\ vm = "input" /\ vm' = "after" /\ ctl' = ctl /\ evalTimer' = evalTimer
        /\ lineBreaks' = lineBreaks /\ instBreaks' = instBreaks
    BY <1>13 DEF InputAccepted, InputEof, InputReturns, InputStep, VmStep
  <2>2. CASE outbox' = <<>> /\ runState' = runState
    BY <2>1, <2>2, SilentImplements
  <2>3. CASE outbox' = <<"continued">> /\ runState # "PAUSE" /\ runState' = runState
    BY <2>1, <2>3, ReportImplements
  <2>4. CASE ~noDebug /\ outbox' = <<"exception">> /\ runState' = "PAUSE"
    BY <1>13, <2>1, <2>4, StopImplements
  <2> QED
    BY <1>13, <2>2, <2>3, <2>4 DEF InputAccepted, InputEof, Resumed, NoPanic, Raise
<1>14. CASE ExecutePanic
  <2>1. /\ vm \in {"wait", "after"} /\ vm' = "exit" /\ ctl' = ctl /\ evalTimer' = evalTimer
        /\ lineBreaks' = lineBreaks /\ instBreaks' = instBreaks
        /\ outbox' = <<"output", "panicked">> /\ runState' = runState
        /\ vm = "wait" => runState # "PAUSE"
    BY <1>14 DEF ExecutePanic, MustYield, PlayStep, VmStep
  <2> QED BY <1>3, <1>4, <2>1, LeaveImplements
<1>15. CASE AfterInst
  <2>1. /\ vm = "after" /\ vm' \in {"exit", "top"} /\ ctl' = ctl /\ evalTimer' = evalTimer
        /\ lineBreaks' = lineBreaks /\ instBreaks' = instBreaks
    BY <1>15 DEF AfterInst, PlayStep, VmStep
  <2>2. \/ ~noDebug /\ outbox' = <<"exception">> /\ runState' = "PAUSE"
        \/ outbox' = <<>> /\ runState' = runState
    BY <1>15 DEF AfterInst
  <2>3. CASE vm' = "exit"
    BY <1>3, <1>4, <2>1, <2>2, <2>3, LeaveImplements
  <2>4. CASE vm' = "top" /\ ~noDebug /\ outbox' = <<"exception">> /\ runState' = "PAUSE"
    BY <1>3, <2>1, <2>4, StopImplements
  <2>5. CASE vm' = "top" /\ outbox' = <<>> /\ runState' = runState
    BY <2>1, <2>5, SilentImplements
  <2> QED BY <2>1, <2>2, <2>3, <2>4, <2>5
<1>16. CASE HostExited \/ CloseDone \/ Crash
  <2>1. /\ ctl' = ctl /\ evalTimer' = evalTimer /\ runState' = runState
        /\ lineBreaks' = lineBreaks /\ instBreaks' = instBreaks
        /\ vm \in {"exit", "closing", "done"} /\ vm' \in Left
    BY <1>16 DEF HostExited, CloseDone, Crash, PlayStep, VmStep, Left
  <2>2. call' = call
    BY <2>1 DEF call, serving, Evaluating, Left
  <2>3. CASE HostExited
    <3>1. vm = "exit" /\ vm' = "closing" /\ outbox' = <<"exited", "terminated">>
      BY <2>3 DEF HostExited, PlayStep, VmStep, Exited
    <3>2. life = "leaving" /\ life' = "closing"
      BY <1>1, <3>1, LifeIs DEF Left
    <3> QED
      BY <2>1, <2>2, <3>1, <3>2
      DEF Run!RunExited, Run!RunStep, Run!HostQuiet, Run!Post, Run!breakVars
  <2>4. CASE CloseDone
    <3>1. vm = "closing" /\ vm' = "done" /\ outbox' = <<>>
      BY <2>4 DEF CloseDone, PlayStep, VmStep
    <3>2. life = "closing" /\ life' = "done"
      BY <1>1, <3>1, LifeIs DEF Left
    <3> QED
      BY <2>1, <2>2, <3>1, <3>2
      DEF Run!RunDone, Run!RunStep, Run!HostQuiet, Run!hostVars, Run!breakVars
  <2>5. CASE Crash
    <3>1. vm = "done" /\ vm' = "crashed" /\ outbox' = <<>>
      BY <2>5 DEF Crash, PlayStep, VmStep
    <3>2. life = "done" /\ life' = "crashed"
      BY <1>1, <3>1, LifeIs DEF Left
    <3> QED
      BY <2>1, <2>2, <3>1, <3>2
      DEF Run!RunCrash, Run!RunStep, Run!HostQuiet, Run!hostVars, Run!breakVars
  <2> QED BY <1>16, <2>3, <2>4, <2>5
<1> QED
  BY <1>5, <1>6, <1>7, <1>8, <1>9, <1>10, <1>11, <1>12, <1>13, <1>14, <1>15, <1>16 DEF VmActs

(* The events go out as they are promised to.                              *)
LEMMA HostImplements ==
  ASSUME HostProgress
  PROVE  Run!RunHost
<1>1. /\ UNCHANGED <<vm, ctl, evalTimer, cmd, runState>>
      /\ noDebug' = noDebug /\ commandsClosed' = commandsClosed
      /\ lineBreaks' = lineBreaks /\ instBreaks' = instBreaks
  BY SendFrame
<1>2. life' = life /\ call' = call /\ request' = request
  BY <1>1 DEF life, call, serving, Evaluating, request
<1>3. Run!TestSuppressed \/ Run!SendOutput \/ Run!SendEvent
  BY DEF HostProgress, TestSuppressed, DropSuppressed, PassSuppressed, Sendable, SendOutput,
     SendEvent, Run!TestSuppressed, Run!DropSuppressed, Run!PassSuppressed, Run!Sendable,
     Run!SendOutput, Run!SendEvent
<1> QED BY <1>1, <1>2, <1>3 DEF Run!RunHost, Run!breakVars

-----------------------------------------------------------------------------
(* A session does what its caller was promised, and nothing else: its      *)
(* initial states and its steps are DebugRun's, or steps the caller does   *)
(* not see.                                                                *)
THEOREM SessionImplementsRun == Spec => ImplementsRun
<1>1. Init => Run!RunInit
  BY InitIsRunInit
<1>2. IInv /\ [Next]_vars => [Run!RunNext]_(Run!runVars)
  <2> SUFFICES ASSUME IInv, [Next]_vars PROVE Run!RunNext \/ UNCHANGED Run!runVars
    OBVIOUS
  <2>1. IInv'
    BY StepReportInv
  <2>2. CASE Call \/ CtlProgress
    BY <2>1, <2>2, CallerImplements DEF Run!RunNext
  <2>3. CASE HostProgress
    BY <2>3, HostImplements DEF Run!RunNext
  <2>4. CASE VmActs
    BY <2>1, <2>4, VmImplements DEF Run!RunNext
  <2>5. CASE CloseInput \/ UNCHANGED vars
    BY <2>5
    DEF CloseInput, vars, opts, hostVars, breakVars, inputVars, life, call, serving, Evaluating,
        request, Run!runVars, Run!hostVars, Run!breakVars
  <2> QED BY <2>2, <2>3, <2>4, <2>5, StepKinds
<1> QED BY <1>1, <1>2, FullInvariance, PTL DEF Spec, ImplementsRun, Run!RunSpec
=============================================================================
