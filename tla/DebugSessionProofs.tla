------------------------- MODULE DebugSessionProofs -------------------------
(***************************************************************************)
(* For every program, whatever its breakpoints and its client's calls: the *)
(* session's state is well formed, a closure runs only while its caller    *)
(* waits for it, a request to yield does not outlive the call that made    *)
(* it, and an exception holds the program where it is.                     *)
(*                                                                         *)
(* All follow from one inductive invariant, SessionInv.  What needs it is  *)
(* that the two goroutines know of each other only through the channel:    *)
(* that Terminate() never finds a call in progress (CallInv), that the VM  *)
(* comes back to the inputAdapter() call a closure interrupted (InputInv), *)
(* and that a function returns behind the call that entered it (StackInv). *)
(***************************************************************************)
EXTENDS DebugSession, TLAPS, SequenceTheorems

(* Every call but Play(), Terminate(), Halt() and Wait() passes a command  *)
(* to runInVm().                                                           *)
LEMMA CallRunsCommand ==
  ASSUME CallContinue \/ CallStep \/ CallRestartFrame \/ CallUpdateBreakpoints \/ CallOther
  PROVE  \E c \in Commands : RunInVm(c)
<1>1. CASE CallContinue
  BY <1>1 DEF CallContinue, Commands
<1>2. CASE CallStep
  <2>1. PICK type \in StepTypes, gran \in StepGrans :
               RunInVm([op |-> "step", type |-> type, gran |-> gran])
    BY <1>2 DEF CallStep
  <2>2. [op |-> "step", type |-> type, gran |-> gran] \in Commands
    BY DEF Commands
  <2> QED BY <2>1, <2>2
<1>3. CASE CallRestartFrame
  <2>1. PICK id \in 1..(MaxStack + 1) : RunInVm([op |-> "restartFrame", id |-> id])
    BY <1>3 DEF CallRestartFrame
  <2>2. [op |-> "restartFrame", id |-> id] \in Commands
    BY BoundsAssumption DEF Commands
  <2> QED BY <2>1, <2>2
<1>4. CASE CallUpdateBreakpoints
  <2>1. PICK kind \in {"lineBreaks", "instBreaks"}, bps \in BreakSets :
               RunInVm([op |-> kind, pcs |-> bps])
    BY <1>4 DEF CallUpdateBreakpoints
  <2>2. [op |-> kind, pcs |-> bps] \in Commands
    BY BoundsAssumption DEF Commands
  <2> QED BY <2>1, <2>2
<1>5. CASE CallOther
  BY <1>5 DEF CallOther, Commands
<1> QED BY <1>1, <1>2, <1>3, <1>4, <1>5

(* Only the last instruction of a function leaves it, so the next one      *)
(* exists.                                                                 *)
LEMMA NextPC ==
  ASSUME pc \in PCs, Op[pc] # "leave"
  PROVE  pc + 1 \in PCs
BY ProgramAssumption DEF PCs

(* The first n frames of a stack.                                          *)
LEMMA Prefix ==
  ASSUME NEW S, NEW s \in Seq(S), NEW n \in 0..Len(s)
  PROVE  /\ SubSeq(s, 1, n) \in Seq(S)
         /\ Len(SubSeq(s, 1, n)) = n
         /\ \A i \in 1..n : SubSeq(s, 1, n)[i] = s[i]
<1>1. Len(s) \in Nat
  BY LenProperties
<1>2. \A i \in 1..n : s[i] \in S
  <2> TAKE i \in 1..n
  <2>1. i \in 1..Len(s)
    BY <1>1
  <2> QED BY <2>1, ElementOfSeq
<1>3. n \in Int /\ 1 \in Int
  BY <1>1
<1> QED BY <1>1, <1>2, <1>3, SubSeqProperties

(* The sequences of events that host calls send.                           *)
LEMMA EventSeqs ==
  /\ <<>> \in Seq(Events)
  /\ \A e \in Events : <<e>> \in Seq(Events)
  /\ \A e, f \in Events : <<e, f>> \in Seq(Events)
  /\ \A s, t \in Seq(Events) : s \o t \in Seq(Events)
<1>1. \A s, t \in Seq(Events) : s \o t \in Seq(Events)
  BY ConcatProperties
<1> QED BY <1>1

(* A host call leaves well-formed events to send.                          *)
LEMMA PostType ==
  ASSUME HostTypeOK, NEW evs \in Seq(Events), Post(evs)
  PROVE  HostTypeOK'
BY DEF HostTypeOK, Post

-----------------------------------------------------------------------------
(* What is to be sent stays well formed.                                   *)
LEMMA HostTypeStep ==
  ASSUME HostTypeOK, [Next]_vars
  PROVE  HostTypeOK'
<1> USE DEF hostVars
<1>1. CASE Call
  <2>1. CASE UNCHANGED hostVars
    BY <2>1 DEF HostTypeOK
  <2>2. CASE SuppressAllEvents
    BY <2>2 DEF HostTypeOK, SuppressAllEvents
  <2> QED
    BY <1>1, <2>1, <2>2
    DEF Call, Play, PlayAgain, UpdateUnstarted, CallContinue, CallStep, CallRestartFrame,
        CallUpdateBreakpoints, CallOther, Terminate, Halt, Wait, Quietly
<1>2. CASE CtlProgress
  BY <1>2 DEF HostTypeOK, CtlProgress, CallReturns, TerminateYield, CloseCommands, WaitReturns,
       Quietly
<1>3. CASE HostProgress
  <2>1. outbox # <<>> => Tail(outbox) \in Seq(Events) /\ Head(outbox) \in Events
    BY HeadTailProperties DEF HostTypeOK
  <2>2. CASE DropSuppressed \/ SendOutput
    BY <2>1, <2>2 DEF HostTypeOK, DropSuppressed, SendOutput
  <2>3. CASE PassSuppressed
    BY <2>3 DEF HostTypeOK, PassSuppressed
  <2>4. CASE SendEvent
    BY <2>1, <2>4 DEF HostTypeOK, SendEvent
  <2> QED BY <1>3, <2>2, <2>3, <2>4 DEF HostProgress, TestSuppressed
<1>4. CASE CheckBreakpoints
  <2> DEFINE steps  == IF StepHit THEN <<"step">> ELSE <<>>
             breaks == IF BreakHit THEN <<"breakpoint">> ELSE <<>>
  <2>1. steps \in Seq(Events) /\ breaks \in Seq(Events)
    BY EventSeqs DEF Events, StopEvents
  <2>2. steps \o breaks \in Seq(Events)
    BY <2>1, EventSeqs
  <2>3. Post(steps \o breaks)
    BY <1>4 DEF CheckBreakpoints
  <2> QED BY <2>2, <2>3, PostType
<1>5. CASE ReceiveCmd
  BY <1>5 DEF HostTypeOK, ReceiveCmd
<1>6. CASE Command
  <2>1. CASE UNCHANGED hostVars
    BY <2>1 DEF HostTypeOK
  <2>2. CASE \E evs \in {<<"pause">>, <<>>, <<"output">>} : Post(evs)
    <3>1. {<<"pause">>, <<>>, <<"output">>} \subseteq Seq(Events)
      BY EventSeqs DEF Events, StopEvents
    <3> QED BY <2>2, <3>1, PostType
  <2> QED
    BY <1>6, <2>1, <2>2
    DEF Command, CmdContinue, CmdPause, CmdStep, CmdRestartFrame, CmdRestartNoFrame,
        CmdBreakpoints, CmdInspect, CmdEval, CmdEvalInput
<1>7. CASE EndCmd
  BY <1>7 DEF HostTypeOK, EndCmd
<1>8. CASE ExitRequested
  BY <1>8 DEF HostTypeOK, ExitRequested
<1>9. CASE ExecPlain
  BY <1>9 DEF HostTypeOK, ExecPlain
<1>10. CASE ExecFails
  <2>1. CASE Post(<<"exception">>)
    <3>1. <<"exception">> \in Seq(Events)
      BY EventSeqs DEF Events, StopEvents
    <3> QED BY <2>1, <3>1, PostType
  <2>2. CASE UNCHANGED hostVars
    BY <2>2 DEF HostTypeOK
  <2> QED BY <1>10, <2>1, <2>2 DEF ExecFails, Raise
<1>11. CASE ExecJump
  BY <1>11 DEF HostTypeOK, ExecJump
<1>12. CASE ExecCall
  BY <1>12 DEF HostTypeOK, ExecCall
<1>13. CASE ExecCallOverflows
  <2>1. CASE Post(<<"exception">>)
    <3>1. <<"exception">> \in Seq(Events)
      BY EventSeqs DEF Events, StopEvents
    <3> QED BY <2>1, <3>1, PostType
  <2>2. CASE UNCHANGED hostVars
    BY <2>2 DEF HostTypeOK
  <2> QED BY <1>13, <2>1, <2>2 DEF ExecCallOverflows, Raise
<1>14. CASE ExecLeave
  BY <1>14 DEF HostTypeOK, ExecLeave
<1>15. CASE ExecOutput
  <2>1. Post(<<"output">>)
    BY <1>15 DEF ExecOutput
  <2>2. <<"output">> \in Seq(Events)
    BY EventSeqs DEF Events, StopEvents, EndEvents
  <2> QED BY <2>1, <2>2, PostType
<1>16. CASE ExecInput
  <2>1. Post(<<"output">>)
    BY <1>16 DEF ExecInput
  <2>2. <<"output">> \in Seq(Events)
    BY EventSeqs DEF Events, StopEvents, EndEvents
  <2> QED BY <2>1, <2>2, PostType
<1>17. CASE InputTimeout
  <2>1. Post(<<"i/o wait">>)
    BY <1>17 DEF InputTimeout
  <2>2. <<"i/o wait">> \in Seq(Events)
    BY EventSeqs DEF Events, StopEvents, EndEvents
  <2> QED BY <2>1, <2>2, PostType
<1>18. CASE InputEof
  <2>1. CASE Post(<<"exception">>)
    <3>1. <<"exception">> \in Seq(Events)
      BY EventSeqs DEF Events, StopEvents
    <3> QED BY <2>1, <3>1, PostType
  <2>2. CASE UNCHANGED hostVars
    BY <2>2 DEF HostTypeOK
  <2> QED BY <1>18, <2>1, <2>2 DEF InputEof, Raise
<1>19. CASE Typing
  <2>1. Resumed \in Seq(Events)
    BY EventSeqs DEF Resumed, Events
  <2>2. CASE InputAccepted
    BY <2>1, <2>2, PostType DEF InputAccepted
  <2>3. CASE InputRejected
    <3>1. <<"output">> \in Seq(Events)
      BY EventSeqs DEF Events
    <3>2. Resumed \o <<"output">> \in Seq(Events)
      BY <2>1, <3>1, EventSeqs
    <3> QED BY <2>3, <3>2, PostType DEF InputRejected
  <2>4. CASE CloseInput
    BY <2>4 DEF HostTypeOK, CloseInput
  <2> QED BY <1>19, <2>2, <2>3, <2>4 DEF Typing
<1>20. CASE ExecutePanic \/ AfterInst \/ HostExited \/ CloseDone \/ Crash
  <2>1. CASE UNCHANGED hostVars
    BY <2>1 DEF HostTypeOK
  <2>2. CASE \E evs \in {<<"output", "panicked">>, <<"exception">>, <<>>,
                        <<"exited", "terminated">>} : Post(evs)
    <3>1. {<<"output", "panicked">>, <<"exception">>, <<>>, <<"exited", "terminated">>}
            \subseteq Seq(Events)
      BY EventSeqs DEF Events, StopEvents, EndEvents
    <3> QED BY <2>2, <3>1, PostType
  <2> QED
    BY <1>20, <2>1, <2>2
    DEF ExecutePanic, AfterInst, HostExited, CloseDone, Crash, Exited
<1>21. CASE UNCHANGED vars
  BY <1>21 DEF HostTypeOK, vars
<1> QED
  BY <1>1, <1>2, <1>3, <1>4, <1>5, <1>6, <1>7, <1>8, <1>9, <1>10, <1>11,
     <1>12, <1>13, <1>14, <1>15, <1>16, <1>17, <1>18, <1>19, <1>20, <1>21
  DEF  Next, VmProgress, ExecInst

(* What the client was told stays well formed.                             *)
LEMMA HeardTypeStep ==
  ASSUME HeardTypeOK, [Next]_vars
  PROVE  HeardTypeOK'
<1> USE DEF HeardTypeOK, heard
<1>1. CASE UNCHANGED heard
  BY <1>1
<1>2. CASE Call
  <2>1. CASE Play \/ PlayAgain \/ UpdateUnstarted \/ Terminate \/ Halt \/ Wait
    BY <2>1 DEF Play, PlayAgain, UpdateUnstarted, Terminate, Halt, Wait, CtlStep, Quietly
  <2>2. CASE CallContinue
    BY <2>2, CallRunsCommand DEF CallContinue, RunInVm, CtlStep, Told
  <2>3. CASE CallStep \/ CallRestartFrame \/ CallUpdateBreakpoints \/ CallOther
    BY <2>3 DEF CallStep, CallRestartFrame, CallUpdateBreakpoints, CallOther, RunInVm, CtlStep
  <2> QED BY <1>2, <2>1, <2>2, <2>3 DEF Call
<1>3. CASE CtlProgress
  <2>1. CASE CallReturns
    BY <2>1 DEF CallReturns, CommandDone, SessionDone, CtlStep
  <2>2. CASE TerminateYield \/ CloseCommands \/ WaitReturns
    BY <2>2 DEF TerminateYield, CloseCommands, WaitReturns, CtlStep, Quietly
  <2> QED BY <1>3, <2>1, <2>2 DEF CtlProgress
<1>4. CASE HostProgress
  <2>1. CASE Hear(Head(outbox))
    BY <2>1 DEF Hear
  <2> QED BY <1>1, <1>4, <2>1 DEF HostProgress
<1>5. CASE CheckBreakpoints \/ ReceiveCmd \/ EndCmd \/ ExitRequested
  BY <1>5 DEF CheckBreakpoints, ReceiveCmd, EndCmd, ExitRequested, PlayExits, VmStep
<1>6. CASE Command
  BY <1>6
  DEF  Command, CmdContinue, CmdPause, CmdStep, CmdRestartFrame, CmdRestartNoFrame,
       CmdBreakpoints, CmdInspect, CmdEval, CmdEvalInput, RunCmd, VmStep
<1>7. CASE ExecInst
  BY <1>7
  DEF  ExecInst, ExecPlain, ExecFails, ExecJump, ExecCall, ExecCallOverflows, ExecLeave,
       ExecOutput, ExecInput, BeginInst, VmStep
<1>8. CASE InputTimeout \/ InputEof \/ Typing
  BY <1>8
  DEF  InputTimeout, InputEof, Typing, InputAccepted, InputRejected, CloseInput,
       InputReturns, InputStep, VmStep
<1>9. CASE ExecutePanic \/ AfterInst \/ HostExited \/ CloseDone \/ Crash
  BY <1>9 DEF ExecutePanic, AfterInst, HostExited, CloseDone, Crash, PlayStep, VmStep
<1>10. CASE UNCHANGED vars
  BY <1>10 DEF vars
<1> QED
  BY <1>2, <1>3, <1>4, <1>5, <1>6, <1>7, <1>8, <1>9, <1>10 DEF Next, VmProgress

(* The program counter stays in the code, and the stack well formed.       *)
LEMMA ExecTypeStep ==
  ASSUME ExecTypeOK, StackInv, InputInv, [Next]_vars
  PROVE  ExecTypeOK'
<1> USE DEF ExecTypeOK, opts, execVars, playVars, inputVars, breakVars, hostVars
<1>1. CASE Call
  BY <1>1
  DEF  Call, Play, PlayAgain, UpdateUnstarted, CallContinue, CallStep, CallRestartFrame,
       CallUpdateBreakpoints, CallOther, Terminate, Halt, Wait, RunInVm, CtlStep, Quietly
<1>2. CASE CtlProgress
  BY <1>2
  DEF  CtlProgress, CallReturns, TerminateYield, CloseCommands, WaitReturns,
       CommandDone, SessionDone, CtlStep, Quietly
<1>3. CASE HostProgress
  BY <1>3 DEF HostProgress
<1>4. CASE CheckBreakpoints
  BY <1>4 DEF CheckBreakpoints, VmStep
<1>5. CASE ReceiveCmd
  BY <1>5 DEF ReceiveCmd, VmStep
<1>6. CASE Command
  <2>1. CASE CmdRestartFrame
    <3>1. cmd.id \in 1..Len(stack) /\ stack' = SubSeq(stack, 1, cmd.id)
            /\ pc' = stack[cmd.id].start
      BY <2>1 DEF CmdRestartFrame, RestartPC
    <3>2. Len(stack) \in Nat /\ cmd.id \in 0..Len(stack)
      BY <3>1, LenProperties DEF ExecTypeOK
    <3>3. stack' \in Seq(Frames) /\ Len(stack') = cmd.id
            /\ \A i \in 1..cmd.id : stack'[i] = stack[i]
      BY <3>1, <3>2, Prefix DEF ExecTypeOK
    <3>4. stack[cmd.id] \in Frames
      BY <3>1, ElementOfSeq DEF ExecTypeOK
    <3>5. pc' \in PCs
      BY <3>1, <3>4 DEF Frames
    <3> QED BY <3>3, <3>5, ProgramAssumption DEF PCs
  <2>2. CASE CmdContinue \/ CmdPause \/ CmdStep \/ CmdRestartNoFrame \/ CmdBreakpoints
             \/ CmdInspect \/ CmdEval \/ CmdEvalInput
    BY <2>2 DEF CmdContinue, CmdPause, CmdStep, CmdRestartNoFrame, CmdBreakpoints,
         CmdInspect, CmdEval, CmdEvalInput, RunCmd, VmStep
  <2> QED BY <1>6, <2>1, <2>2 DEF Command
<1>7. CASE EndCmd
  BY <1>7 DEF EndCmd, VmStep
<1>8. CASE ExitRequested
  BY <1>8 DEF ExitRequested, PlayExits, VmStep
<1>9. CASE ExecPlain
  <2>1. pc' \in PCs
    BY <1>9, NextPC, ProgramAssumption DEF ExecPlain, BeginInst, VmStep, StackInv
  <2> QED BY <1>9, <2>1, ProgramAssumption DEF ExecPlain, NoPanic, BeginInst, VmStep, PCs
<1>10. CASE ExecFails
  BY <1>10 DEF ExecFails, Raise, BeginInst, VmStep, MayExecute
<1>11. CASE ExecJump
  <2>1. pc' \in PCs
    BY <1>11, NextPC, ProgramAssumption DEF ExecJump, BeginInst, VmStep, StackInv
  <2> QED BY <1>11, <2>1, ProgramAssumption DEF ExecJump, NoPanic, BeginInst, VmStep, PCs
<1>12. CASE ExecCall
  <2>1. pc \in PCs /\ Op[pc] = "call" /\ Target[pc] \in PCs
    BY <1>12, ProgramAssumption DEF ExecCall, BeginInst, VmStep, StackInv
  <2>2. [start |-> Target[pc], ret |-> pc] \in Frames
    BY <2>1 DEF Frames
  <2>3. /\ stack' \in Seq(Frames)
        /\ Len(stack') = Len(stack) + 1
        /\ \A i \in 1..Len(stack) : stack'[i] = stack[i]
        /\ stack'[Len(stack) + 1] = [start |-> Target[pc], ret |-> pc]
    BY <1>12, <2>2, AppendProperties DEF ExecCall, ExecTypeOK
  <2> QED BY <1>12, <2>1, <2>3, ProgramAssumption DEF ExecCall, PCs
<1>13. CASE ExecCallOverflows
  BY <1>13 DEF ExecCallOverflows, Raise, BeginInst, VmStep, MayExecute
<1>14. CASE ExecLeave
  <2>1. stack # <<>> /\ stack \in Seq(Frames) /\ Len(stack) \in Nat \ {0}
    BY <1>14, EmptySeq DEF ExecLeave, BeginInst, VmStep, StackInv, ExecTypeOK
  <2>2. stack' = SubSeq(stack, 1, Len(stack) - 1)
    BY <1>14 DEF ExecLeave
  <2>3. Len(stack) - 1 \in 0..Len(stack)
    BY <2>1
  <2>4. stack' \in Seq(Frames) /\ Len(stack') = Len(stack) - 1
          /\ \A i \in 1..Len(stack) - 1 : stack'[i] = stack[i]
    BY <2>1, <2>2, <2>3, Prefix
  <2>5. PICK r \in PCs : r = stack[Len(stack)].ret /\ pc' = r + 1
    <3>1. Len(stack) \in 1..Len(stack)
      BY <2>1
    <3>2. stack[Len(stack)] \in Frames
      BY <2>1, <3>1, ElementOfSeq
    <3> QED BY <1>14, <3>2 DEF Frames, ExecLeave
  <2>6. pc' \in 0..(LastPC + 1)
    <3>1. pc' = r + 1
      BY <2>5
    <3> QED BY <3>1, ProgramAssumption DEF PCs
  <2> QED BY <2>4, <2>6
<1>15. CASE ExecOutput
  <2>1. pc' \in PCs
    BY <1>15, NextPC, ProgramAssumption DEF ExecOutput, BeginInst, VmStep, StackInv
  <2> QED BY <1>15, <2>1, ProgramAssumption DEF ExecOutput, NoPanic, BeginInst, VmStep, PCs
<1>16. CASE ExecInput
  BY <1>16 DEF ExecInput, NoPanic, BeginInst, VmStep, MayExecute
<1>17. CASE InputTimeout
  BY <1>17 DEF InputTimeout, NoPanic, InputStep, VmStep
<1>18. CASE InputEof
  BY <1>18 DEF InputEof, NoPanic, Raise, InputReturns, InputStep, VmStep
<1>19. CASE Typing
  <2>1. CASE InputAccepted
    <3>1. ~Evaluating => timer # "off"
      BY <2>1 DEF InputAccepted, InputReturns, InputStep, VmStep, InputInv
    <3>2. pc \in PCs
      BY <2>1 DEF InputAccepted, InputReturns, InputStep, VmStep, StackInv
    <3>3. pc' \in PCs
      BY <2>1, <3>1, <3>2, NextPC DEF InputAccepted, InputInv
    <3> QED BY <2>1, <3>3, ProgramAssumption DEF InputAccepted, NoPanic, InputReturns, InputStep,
            VmStep, PCs
  <2>2. CASE InputRejected \/ CloseInput
    BY <2>2 DEF InputRejected, CloseInput, NoPanic, InputStep, VmStep
  <2> QED BY <1>19, <2>1, <2>2 DEF Typing
<1>20. CASE ExecutePanic \/ AfterInst \/ HostExited \/ CloseDone \/ Crash
  BY <1>20
  DEF  ExecutePanic, AfterInst, HostExited, CloseDone, Crash, ExitCodeOne, PlayStep, VmStep
<1>21. CASE UNCHANGED vars
  BY <1>21 DEF vars
<1> QED
  BY <1>1, <1>2, <1>3, <1>4, <1>5, <1>6, <1>7, <1>8, <1>9, <1>10, <1>11,
     <1>12, <1>13, <1>14, <1>15, <1>16, <1>17, <1>18, <1>19, <1>20, <1>21
  DEF  Next, VmProgress, ExecInst

(* The command, the breakpoints and the armed step are well formed.         *)
LEMMA DebugTypeStep ==
  ASSUME ExecTypeOK, StackInv, DebugTypeOK, [Next]_vars
  PROVE  DebugTypeOK'
<1> USE DEF DebugTypeOK, NoStep, opts, execVars, playVars, inputVars, breakVars, hostVars
<1>1. CASE Call
  <2>1. CASE Play \/ PlayAgain \/ Terminate \/ Halt \/ Wait
    BY <2>1 DEF Play, PlayAgain, Terminate, Halt, Wait, CtlStep, Quietly
  <2>2. CASE UpdateUnstarted
    BY <2>2, BoundsAssumption DEF UpdateUnstarted, CtlStep
  <2>3. CASE CallContinue \/ CallStep \/ CallRestartFrame \/ CallUpdateBreakpoints \/ CallOther
    BY <2>3, CallRunsCommand DEF RunInVm, CtlStep
  <2> QED BY <1>1, <2>1, <2>2, <2>3 DEF Call
<1>2. CASE CtlProgress
  <2>1. CASE CallReturns
    <3>1. NoCmd \in Commands
      BY DEF NoCmd, Commands
    <3> QED BY <2>1, <3>1 DEF CallReturns, CommandDone, SessionDone, CtlStep
  <2>2. CASE TerminateYield \/ CloseCommands \/ WaitReturns
    BY <2>2 DEF TerminateYield, CloseCommands, WaitReturns, CtlStep, Quietly
  <2> QED BY <1>2, <2>1, <2>2 DEF CtlProgress
<1>3. CASE HostProgress
  BY <1>3 DEF HostProgress
<1>4. CASE CheckBreakpoints
  BY <1>4 DEF CheckBreakpoints, VmStep
<1>5. CASE ReceiveCmd
  BY <1>5 DEF ReceiveCmd, VmStep
<1>6. CASE Command
  <2>1. CASE CmdStep
    <3>1. cmd.type \in StepTypes /\ cmd.gran \in StepGrans
      BY <2>1 DEF CmdStep, RunCmd, Commands
    <3>2. pc \in PCs /\ Line[pc] \in Nat
      BY <2>1, ProgramAssumption DEF CmdStep, RunCmd, VmStep, StackInv
    <3>3. Depth \in Nat
      BY LenProperties DEF ExecTypeOK, Depth
    <3>4. step' \in ArmedSteps
      BY <2>1, <3>1, <3>2, <3>3 DEF CmdStep, ArmedSteps
    <3> QED BY <2>1, <3>4 DEF CmdStep, RunCmd, VmStep
  <2>2. CASE CmdBreakpoints
    <3>1. cmd.op \in {"lineBreaks", "instBreaks"} => cmd.pcs \in SUBSET PCs
      BY DEF Commands
    <3> QED BY <2>2, <3>1 DEF CmdBreakpoints, RunCmd, VmStep
  <2>3. CASE CmdContinue \/ CmdPause \/ CmdRestartFrame \/ CmdRestartNoFrame
             \/ CmdInspect \/ CmdEval \/ CmdEvalInput
    BY <2>3 DEF CmdContinue, CmdPause, CmdRestartFrame, CmdRestartNoFrame, CmdInspect,
         CmdEval, CmdEvalInput, RunCmd, VmStep
  <2> QED BY <1>6, <2>1, <2>2, <2>3 DEF Command
<1>7. CASE EndCmd
  BY <1>7 DEF EndCmd, VmStep
<1>8. CASE ExitRequested
  BY <1>8 DEF ExitRequested, PlayExits, VmStep
<1>9. CASE ExecPlain
  BY <1>9 DEF ExecPlain, NoPanic, BeginInst, VmStep, MayExecute
<1>10. CASE ExecFails
  BY <1>10 DEF ExecFails, Raise, BeginInst, VmStep, MayExecute
<1>11. CASE ExecJump
  BY <1>11 DEF ExecJump, NoPanic, BeginInst, VmStep, MayExecute
<1>12. CASE ExecCall
  BY <1>12 DEF ExecCall, NoPanic, BeginInst, VmStep, MayExecute
<1>13. CASE ExecCallOverflows
  BY <1>13 DEF ExecCallOverflows, Raise, BeginInst, VmStep, MayExecute
<1>14. CASE ExecLeave
  BY <1>14 DEF ExecLeave, NoPanic, BeginInst, VmStep, MayExecute
<1>15. CASE ExecOutput
  BY <1>15 DEF ExecOutput, NoPanic, BeginInst, VmStep, MayExecute
<1>16. CASE ExecInput
  BY <1>16 DEF ExecInput, NoPanic, BeginInst, VmStep, MayExecute
<1>17. CASE InputTimeout
  BY <1>17 DEF InputTimeout, NoPanic, InputStep, VmStep
<1>18. CASE InputEof
  BY <1>18 DEF InputEof, NoPanic, Raise, InputReturns, InputStep, VmStep
<1>19. CASE Typing
  BY <1>19
  DEF  Typing, InputAccepted, InputRejected, CloseInput, NoPanic, InputReturns,
       InputStep, VmStep
<1>20. CASE ExecutePanic \/ AfterInst \/ HostExited \/ CloseDone \/ Crash
  BY <1>20
  DEF  ExecutePanic, AfterInst, HostExited, CloseDone, Crash, ExitCodeOne, PlayStep, VmStep
<1>21. CASE UNCHANGED vars
  BY <1>21 DEF vars
<1> QED
  BY <1>1, <1>2, <1>3, <1>4, <1>5, <1>6, <1>7, <1>8, <1>9, <1>10, <1>11,
     <1>12, <1>13, <1>14, <1>15, <1>16, <1>17, <1>18, <1>19, <1>20, <1>21
  DEF  Next, VmProgress, ExecInst

(* The modes, the timers and the counters keep their types.                 *)
LEMMA ControlTypeStep ==
  ASSUME ControlTypeOK, [Next]_vars
  PROVE  ControlTypeOK'
<1> USE DEF ControlTypeOK, VmStates, CtlStates, Timers, Evaluating,
          opts, execVars, playVars, inputVars, breakVars, hostVars
<1>1. CASE Call
  BY <1>1 DEF Call, Play, PlayAgain, UpdateUnstarted, CallContinue, CallStep, CallRestartFrame,
       CallUpdateBreakpoints, CallOther, Terminate, Halt, Wait, RunInVm, CtlStep, Quietly
<1>2. CASE CtlProgress
  BY <1>2
  DEF  CtlProgress, CallReturns, TerminateYield, CloseCommands, WaitReturns,
       CommandDone, SessionDone, CtlStep, Quietly
<1>3. CASE HostProgress
  BY <1>3 DEF HostProgress
<1>4. CASE CheckBreakpoints
  BY <1>4 DEF CheckBreakpoints, VmStep
<1>5. CASE ReceiveCmd
  BY <1>5 DEF ReceiveCmd, VmStep
<1>6. CASE Command
  BY <1>6
  DEF  Command, CmdContinue, CmdPause, CmdStep, CmdRestartFrame, CmdRestartNoFrame,
       CmdBreakpoints, CmdInspect, CmdEval, CmdEvalInput, RunCmd, WithdrawYield, VmStep
<1>7. CASE EndCmd
  BY <1>7 DEF EndCmd, VmStep
<1>8. CASE ExitRequested
  BY <1>8 DEF ExitRequested, PlayExits, VmStep
<1>9. CASE ExecPlain
  BY <1>9 DEF ExecPlain, NoPanic, BeginInst, VmStep, MayExecute
<1>10. CASE ExecFails
  BY <1>10 DEF ExecFails, Raise, BeginInst, VmStep, MayExecute
<1>11. CASE ExecJump
  BY <1>11 DEF ExecJump, NoPanic, BeginInst, VmStep, MayExecute
<1>12. CASE ExecCall
  BY <1>12 DEF ExecCall, NoPanic, BeginInst, VmStep, MayExecute
<1>13. CASE ExecCallOverflows
  BY <1>13 DEF ExecCallOverflows, Raise, BeginInst, VmStep, MayExecute
<1>14. CASE ExecLeave
  BY <1>14 DEF ExecLeave, NoPanic, BeginInst, VmStep, MayExecute
<1>15. CASE ExecOutput
  BY <1>15 DEF ExecOutput, NoPanic, BeginInst, VmStep, MayExecute
<1>16. CASE ExecInput
  BY <1>16 DEF ExecInput, NoPanic, BeginInst, VmStep, MayExecute
<1>17. CASE InputTimeout
  BY <1>17 DEF InputTimeout, NoPanic, InputStep, VmStep
<1>18. CASE InputEof
  BY <1>18 DEF InputEof, NoPanic, Raise, InputReturns, InputStep, VmStep
<1>19. CASE Typing
  BY <1>19
  DEF  Typing, InputAccepted, InputRejected, CloseInput, NoPanic, InputReturns,
       InputStep, VmStep
<1>20. CASE ExecutePanic \/ AfterInst \/ HostExited \/ CloseDone \/ Crash
  <2>1. CASE ExecutePanic
    BY <2>1 DEF ExecutePanic, ExitCodeOne, PlayStep, VmStep
  <2>2. CASE AfterInst
    <3>1. count + 1 \in Nat
      OBVIOUS
    <3> QED BY <2>2, <3>1 DEF AfterInst, PlayStep, VmStep
  <2>3. CASE HostExited \/ CloseDone \/ Crash
    BY <2>3 DEF HostExited, CloseDone, Crash, PlayStep, VmStep
  <2> QED BY <1>20, <2>1, <2>2, <2>3
<1>21. CASE UNCHANGED vars
  BY <1>21 DEF vars
<1> QED
  BY <1>1, <1>2, <1>3, <1>4, <1>5, <1>6, <1>7, <1>8, <1>9, <1>10, <1>11,
     <1>12, <1>13, <1>14, <1>15, <1>16, <1>17, <1>18, <1>19, <1>20, <1>21
  DEF  Next, VmProgress, ExecInst

(* Every flag stays a Boolean.                                             *)
LEMMA FlagsTypeStep ==
  ASSUME FlagsTypeOK, [Next]_vars
  PROVE  FlagsTypeOK'
<1> USE DEF FlagsTypeOK, opts, execVars, playVars, inputVars, breakVars, hostVars
<1>1. CASE Call
  <2>1. CASE Play \/ PlayAgain \/ UpdateUnstarted \/ Terminate \/ Halt \/ Wait
    BY <2>1 DEF Play, PlayAgain, UpdateUnstarted, Terminate, Halt, Wait, CtlStep, Quietly
  <2>2. CASE CallContinue \/ CallStep \/ CallRestartFrame \/ CallUpdateBreakpoints \/ CallOther
    BY <2>2, CallRunsCommand DEF RunInVm, CtlStep
  <2> QED BY <1>1, <2>1, <2>2 DEF Call
<1>2. CASE CtlProgress
  <2>1. CASE CallReturns
    BY <2>1 DEF CallReturns, CommandDone, SessionDone, CtlStep
  <2>2. CASE TerminateYield \/ CloseCommands \/ WaitReturns
    BY <2>2 DEF TerminateYield, CloseCommands, WaitReturns, CtlStep, Quietly
  <2> QED BY <1>2, <2>1, <2>2 DEF CtlProgress
<1>3. CASE HostProgress
  BY <1>3 DEF HostProgress
<1>4. CASE CheckBreakpoints
  BY <1>4 DEF CheckBreakpoints, VmStep
<1>5. CASE ReceiveCmd
  BY <1>5 DEF ReceiveCmd, VmStep
<1>6. CASE Command
  BY <1>6
  DEF  Command, CmdContinue, CmdPause, CmdStep, CmdRestartFrame, CmdRestartNoFrame,
       CmdBreakpoints, CmdInspect, CmdEval, CmdEvalInput, RunCmd, WithdrawYield, VmStep
<1>7. CASE EndCmd
  BY <1>7 DEF EndCmd, VmStep
<1>8. CASE ExitRequested
  BY <1>8 DEF ExitRequested, PlayExits, VmStep
<1>9. CASE ExecPlain
  BY <1>9 DEF ExecPlain, NoPanic, BeginInst, VmStep, MayExecute
<1>10. CASE ExecFails
  BY <1>10 DEF ExecFails, Raise, BeginInst, VmStep, MayExecute
<1>11. CASE ExecJump
  BY <1>11 DEF ExecJump, NoPanic, BeginInst, VmStep, MayExecute
<1>12. CASE ExecCall
  BY <1>12 DEF ExecCall, NoPanic, BeginInst, VmStep, MayExecute
<1>13. CASE ExecCallOverflows
  BY <1>13 DEF ExecCallOverflows, Raise, BeginInst, VmStep, MayExecute
<1>14. CASE ExecLeave
  BY <1>14 DEF ExecLeave, NoPanic, BeginInst, VmStep, MayExecute
<1>15. CASE ExecOutput
  BY <1>15 DEF ExecOutput, NoPanic, BeginInst, VmStep, MayExecute
<1>16. CASE ExecInput
  BY <1>16 DEF ExecInput, NoPanic, BeginInst, VmStep, MayExecute
<1>17. CASE InputTimeout
  BY <1>17 DEF InputTimeout, NoPanic, InputStep, VmStep
<1>18. CASE InputEof
  BY <1>18 DEF InputEof, NoPanic, Raise, InputReturns, InputStep, VmStep
<1>19. CASE Typing
  BY <1>19
  DEF  Typing, InputAccepted, InputRejected, CloseInput, NoPanic, InputReturns,
       InputStep, VmStep
<1>20. CASE ExecutePanic \/ AfterInst \/ HostExited \/ CloseDone \/ Crash
  <2>1. CASE ExecutePanic
    BY <2>1 DEF ExecutePanic, PlayStep, VmStep
  <2>2. CASE AfterInst
    <3>1. fatal' \in BOOLEAN
      BY <2>2 DEF AfterInst
    <3> QED BY <2>2, <3>1 DEF AfterInst, PlayStep, VmStep
  <2>3. CASE HostExited \/ CloseDone \/ Crash
    BY <2>3 DEF HostExited, CloseDone, Crash, PlayStep, VmStep
  <2> QED BY <1>20, <2>1, <2>2, <2>3
<1>21. CASE UNCHANGED vars
  BY <1>21 DEF vars
<1> QED
  BY <1>1, <1>2, <1>3, <1>4, <1>5, <1>6, <1>7, <1>8, <1>9, <1>10, <1>11,
     <1>12, <1>13, <1>14, <1>15, <1>16, <1>17, <1>18, <1>19, <1>20, <1>21
  DEF  Next, VmProgress, ExecInst

(* Where the program can be.                                               *)
LEMMA StackStep ==
  ASSUME ExecTypeOK, StackInv, InputInv, [Next]_vars
  PROVE  StackInv'
<1> USE DEF StackInv, opts, execVars, playVars, inputVars, breakVars, hostVars
<1>1. CASE Call
  BY <1>1
  DEF  Call, Play, PlayAgain, UpdateUnstarted, CallContinue, CallStep, CallRestartFrame,
       CallUpdateBreakpoints, CallOther, Terminate, Halt, Wait, RunInVm, CtlStep, Quietly
<1>2. CASE CtlProgress
  BY <1>2
  DEF  CtlProgress, CallReturns, TerminateYield, CloseCommands, WaitReturns,
       CommandDone, SessionDone, CtlStep, Quietly
<1>3. CASE HostProgress
  BY <1>3 DEF HostProgress
<1>4. CASE CheckBreakpoints
  BY <1>4 DEF CheckBreakpoints, VmStep
<1>5. CASE ReceiveCmd
  BY <1>5 DEF ReceiveCmd, VmStep
<1>6. CASE Command
  <2>1. CASE CmdRestartFrame
    <3>1. cmd.id \in 1..Len(stack) /\ stack' = SubSeq(stack, 1, cmd.id)
            /\ pc' = stack[cmd.id].start
      BY <2>1 DEF CmdRestartFrame, RestartPC
    <3>2. Len(stack) \in Nat /\ cmd.id \in 0..Len(stack)
      BY <3>1, LenProperties DEF ExecTypeOK
    <3>3. stack' \in Seq(Frames) /\ Len(stack') = cmd.id
            /\ \A i \in 1..cmd.id : stack'[i] = stack[i]
      BY <3>1, <3>2, Prefix DEF ExecTypeOK
    <3>4. stack[cmd.id] \in Frames
      BY <3>1, ElementOfSeq DEF ExecTypeOK
    <3>5. pc' \in PCs
      BY <3>1, <3>4 DEF Frames
    <3>6. \A i \in 2..Len(stack') : Op[stack'[i].ret] = "call"
      BY <3>2, <3>3
    <3>7. stack' # <<>>
      BY <3>1, <3>2, <3>3, EmptySeq
    <3> QED BY <2>1, <3>5, <3>6, <3>7 DEF CmdRestartFrame, RunCmd, VmStep
  <2>2. CASE CmdContinue \/ CmdPause \/ CmdStep \/ CmdRestartNoFrame \/ CmdBreakpoints
             \/ CmdInspect \/ CmdEval \/ CmdEvalInput
    BY <2>2 DEF CmdContinue, CmdPause, CmdStep, CmdRestartNoFrame, CmdBreakpoints,
         CmdInspect, CmdEval, CmdEvalInput, RunCmd, VmStep
  <2> QED BY <1>6, <2>1, <2>2 DEF Command
<1>7. CASE EndCmd
  BY <1>7 DEF EndCmd, VmStep
<1>8. CASE ExitRequested
  BY <1>8 DEF ExitRequested, PlayExits, VmStep
<1>9. CASE ExecPlain
  <2>1. pc' \in PCs
    BY <1>9, NextPC, ProgramAssumption DEF ExecPlain, BeginInst, VmStep, StackInv
  <2> QED BY <1>9, <2>1, ProgramAssumption DEF ExecPlain, NoPanic, BeginInst, VmStep, PCs
<1>10. CASE ExecFails
  BY <1>10 DEF ExecFails, Raise, BeginInst, VmStep, MayExecute
<1>11. CASE ExecJump
  <2>1. pc' \in PCs
    BY <1>11, NextPC, ProgramAssumption DEF ExecJump, BeginInst, VmStep, StackInv
  <2> QED BY <1>11, <2>1, ProgramAssumption DEF ExecJump, NoPanic, BeginInst, VmStep, PCs
<1>12. CASE ExecCall
  <2>1. pc \in PCs /\ Op[pc] = "call" /\ Target[pc] \in PCs
    BY <1>12, ProgramAssumption DEF ExecCall, BeginInst, VmStep, StackInv
  <2>2. [start |-> Target[pc], ret |-> pc] \in Frames
    BY <2>1 DEF Frames
  <2>3. /\ stack' \in Seq(Frames)
        /\ Len(stack') = Len(stack) + 1
        /\ \A i \in 1..Len(stack) : stack'[i] = stack[i]
        /\ stack'[Len(stack) + 1] = [start |-> Target[pc], ret |-> pc]
    BY <1>12, <2>2, AppendProperties DEF ExecCall, ExecTypeOK
  <2>4. \A i \in 2..Len(stack') : Op[stack'[i].ret] = "call"
    <3>1. Len(stack) \in Nat
      BY LenProperties DEF ExecTypeOK
    <3> TAKE i \in 2..Len(stack')
    <3>2. CASE i = Len(stack) + 1
      BY <2>1, <2>3, <3>2
    <3>3. CASE i # Len(stack) + 1
      <4>1. i \in 2..Len(stack)
        BY <2>3, <3>1, <3>3
      <4> QED BY <2>3, <3>1, <4>1
    <3> QED BY <3>2, <3>3
  <2> QED BY <1>12, <2>1, <2>4 DEF ExecCall, NoPanic, BeginInst, VmStep
<1>13. CASE ExecCallOverflows
  BY <1>13 DEF ExecCallOverflows, Raise, BeginInst, VmStep, MayExecute
<1>14. CASE ExecLeave
  <2>1. stack # <<>> /\ stack \in Seq(Frames) /\ Len(stack) \in Nat \ {0}
    BY <1>14, EmptySeq DEF ExecLeave, BeginInst, VmStep, StackInv, ExecTypeOK
  <2>2. stack' = SubSeq(stack, 1, Len(stack) - 1)
    BY <1>14 DEF ExecLeave
  <2>3. Len(stack) - 1 \in 0..Len(stack)
    BY <2>1
  <2>4. stack' \in Seq(Frames) /\ Len(stack') = Len(stack) - 1
          /\ \A i \in 1..Len(stack) - 1 : stack'[i] = stack[i]
    BY <2>1, <2>2, <2>3, Prefix
  <2>5. PICK r \in PCs : r = stack[Len(stack)].ret /\ pc' = r + 1
    <3>1. Len(stack) \in 1..Len(stack)
      BY <2>1
    <3>2. stack[Len(stack)] \in Frames
      BY <2>1, <3>1, ElementOfSeq
    <3> QED BY <1>14, <3>2 DEF Frames, ExecLeave
  <2>6. stack' # <<>> => pc' \in PCs
    <3> SUFFICES ASSUME stack' # <<>> PROVE pc' \in PCs
      OBVIOUS
    <3>1. Len(stack') \in Nat \ {0}
      BY <2>4, EmptySeq
    <3>2. Len(stack) \in 2..Len(stack)
      BY <2>1, <2>4, <3>1
    <3>3. Op[stack[Len(stack)].ret] = "call"
      BY <3>2
    <3>4. r # LastPC
      BY <2>5, <3>3, ProgramAssumption DEF PCs
    <3>5. pc' = r + 1
      BY <2>5
    <3> QED BY <3>4, <3>5, ProgramAssumption DEF PCs
  <2>7. \A i \in 2..Len(stack') : Op[stack'[i].ret] = "call"
    BY <2>1, <2>4
  <2> QED BY <1>14, <2>6, <2>7 DEF ExecLeave, NoPanic, BeginInst, VmStep
<1>15. CASE ExecOutput
  <2>1. pc' \in PCs
    BY <1>15, NextPC, ProgramAssumption DEF ExecOutput, BeginInst, VmStep, StackInv
  <2> QED BY <1>15, <2>1, ProgramAssumption DEF ExecOutput, NoPanic, BeginInst, VmStep, PCs
<1>16. CASE ExecInput
  BY <1>16 DEF ExecInput, NoPanic, BeginInst, VmStep, MayExecute
<1>17. CASE InputTimeout
  BY <1>17 DEF InputTimeout, NoPanic, InputStep, VmStep
<1>18. CASE InputEof
  BY <1>18 DEF InputEof, NoPanic, Raise, InputReturns, InputStep, VmStep
<1>19. CASE Typing
  <2>1. CASE InputAccepted
    <3>1. ~Evaluating => timer # "off"
      BY <2>1 DEF InputAccepted, InputReturns, InputStep, VmStep, InputInv
    <3>2. pc \in PCs
      BY <2>1 DEF InputAccepted, InputReturns, InputStep, VmStep, StackInv
    <3>3. pc' \in PCs
      BY <2>1, <3>1, <3>2, NextPC DEF InputAccepted, InputInv
    <3> QED BY <2>1, <3>3, ProgramAssumption DEF InputAccepted, NoPanic, InputReturns, InputStep,
            VmStep, PCs
  <2>2. CASE InputRejected \/ CloseInput
    BY <2>2 DEF InputRejected, CloseInput, NoPanic, InputStep, VmStep
  <2> QED BY <1>19, <2>1, <2>2 DEF Typing
<1>20. CASE ExecutePanic \/ AfterInst \/ HostExited \/ CloseDone \/ Crash
  BY <1>20
  DEF  ExecutePanic, AfterInst, HostExited, CloseDone, Crash, ExitCodeOne, PlayStep, VmStep
<1>21. CASE UNCHANGED vars
  BY <1>21 DEF vars
<1> QED
  BY <1>1, <1>2, <1>3, <1>4, <1>5, <1>6, <1>7, <1>8, <1>9, <1>10, <1>11,
     <1>12, <1>13, <1>14, <1>15, <1>16, <1>17, <1>18, <1>19, <1>20, <1>21
  DEF  Next, VmProgress, ExecInst

(* Who is in inputAdapter().                                               *)
LEMMA InputStepInv ==
  ASSUME StackInv, InputInv, CallInv, [Next]_vars
  PROVE  InputInv'
<1> USE DEF CallInv, StackInv, InputInv, Evaluating,
            opts, execVars, playVars, inputVars, breakVars, hostVars
<1>1. CASE Call
  BY <1>1
  DEF  Call, Play, PlayAgain, UpdateUnstarted, CallContinue, CallStep, CallRestartFrame,
       CallUpdateBreakpoints, CallOther, Terminate, Halt, Wait, RunInVm, CtlStep, Quietly
<1>2. CASE CtlProgress
  BY <1>2
  DEF  CtlProgress, CallReturns, TerminateYield, CloseCommands, WaitReturns,
       CommandDone, SessionDone, CtlStep, Quietly
<1>3. CASE HostProgress
  BY <1>3 DEF HostProgress
<1>4. CASE CheckBreakpoints
  BY <1>4 DEF CheckBreakpoints, VmStep
<1>5. CASE ReceiveCmd
  BY <1>5 DEF ReceiveCmd, VmStep
<1>6. CASE Command
  BY <1>6
  DEF  Command, CmdContinue, CmdPause, CmdStep, CmdRestartFrame, CmdRestartNoFrame,
       CmdBreakpoints, CmdInspect, CmdEval, CmdEvalInput, RunCmd, WithdrawYield, VmStep
<1>7. CASE EndCmd
  BY <1>7 DEF EndCmd, VmStep
<1>8. CASE ExitRequested
  BY <1>8 DEF ExitRequested, PlayExits, VmStep
<1>9. CASE ExecPlain
  BY <1>9 DEF ExecPlain, NoPanic, BeginInst, VmStep, MayExecute
<1>10. CASE ExecFails
  BY <1>10 DEF ExecFails, Raise, BeginInst, VmStep, MayExecute
<1>11. CASE ExecJump
  BY <1>11 DEF ExecJump, NoPanic, BeginInst, VmStep, MayExecute
<1>12. CASE ExecCall
  BY <1>12 DEF ExecCall, NoPanic, BeginInst, VmStep, MayExecute
<1>13. CASE ExecCallOverflows
  BY <1>13 DEF ExecCallOverflows, Raise, BeginInst, VmStep, MayExecute
<1>14. CASE ExecLeave
  BY <1>14 DEF ExecLeave, NoPanic, BeginInst, VmStep, MayExecute
<1>15. CASE ExecOutput
  BY <1>15 DEF ExecOutput, NoPanic, BeginInst, VmStep, MayExecute
<1>16. CASE ExecInput
  BY <1>16 DEF ExecInput, NoPanic, BeginInst, VmStep, MayExecute
<1>17. CASE InputTimeout
  BY <1>17 DEF InputTimeout, NoPanic, InputStep, VmStep
<1>18. CASE InputEof
  BY <1>18 DEF InputEof, NoPanic, Raise, InputReturns, InputStep, VmStep
<1>19. CASE Typing
  BY <1>19
  DEF  Typing, InputAccepted, InputRejected, CloseInput, NoPanic, InputReturns,
       InputStep, VmStep
<1>20. CASE ExecutePanic \/ AfterInst \/ HostExited \/ CloseDone \/ Crash
  BY <1>20
  DEF  ExecutePanic, AfterInst, HostExited, CloseDone, Crash, ExitCodeOne, PlayStep, VmStep
<1>21. CASE UNCHANGED vars
  BY <1>21 DEF vars
<1> QED
  BY <1>1, <1>2, <1>3, <1>4, <1>5, <1>6, <1>7, <1>8, <1>9, <1>10, <1>11,
     <1>12, <1>13, <1>14, <1>15, <1>16, <1>17, <1>18, <1>19, <1>20, <1>21
  DEF  Next, VmProgress, ExecInst

(* The rendezvous of the two goroutines.                                   *)
LEMMA CallStepInv ==
  ASSUME StackInv, InputInv, CallInv, [Next]_vars
  PROVE  CallInv'
<1> USE DEF CallInv, StackInv, InputInv, Evaluating,
            opts, execVars, playVars, inputVars, breakVars, hostVars
<1>1. CASE Call
  BY <1>1
  DEF  Call, Play, PlayAgain, UpdateUnstarted, CallContinue, CallStep, CallRestartFrame,
       CallUpdateBreakpoints, CallOther, Terminate, Halt, Wait, RunInVm, CtlStep, Quietly, Guarded
<1>2. CASE CtlProgress
  BY <1>2
  DEF  CtlProgress, CallReturns, TerminateYield, CloseCommands, WaitReturns,
       CommandDone, SessionDone, CtlStep, Quietly
<1>3. CASE HostProgress
  BY <1>3 DEF HostProgress
<1>4. CASE CheckBreakpoints
  BY <1>4 DEF CheckBreakpoints, VmStep
<1>5. CASE ReceiveCmd
  BY <1>5 DEF ReceiveCmd, VmStep
<1>6. CASE Command
  BY <1>6
  DEF  Command, CmdContinue, CmdPause, CmdStep, CmdRestartFrame, CmdRestartNoFrame,
       CmdBreakpoints, CmdInspect, CmdEval, CmdEvalInput, RunCmd, WithdrawYield, VmStep
<1>7. CASE EndCmd
  BY <1>7 DEF EndCmd, VmStep
<1>8. CASE ExitRequested
  BY <1>8 DEF ExitRequested, PlayExits, VmStep
<1>9. CASE ExecPlain
  BY <1>9 DEF ExecPlain, NoPanic, BeginInst, VmStep, MayExecute
<1>10. CASE ExecFails
  BY <1>10 DEF ExecFails, Raise, BeginInst, VmStep, MayExecute
<1>11. CASE ExecJump
  BY <1>11 DEF ExecJump, NoPanic, BeginInst, VmStep, MayExecute
<1>12. CASE ExecCall
  BY <1>12 DEF ExecCall, NoPanic, BeginInst, VmStep, MayExecute
<1>13. CASE ExecCallOverflows
  BY <1>13 DEF ExecCallOverflows, Raise, BeginInst, VmStep, MayExecute
<1>14. CASE ExecLeave
  BY <1>14 DEF ExecLeave, NoPanic, BeginInst, VmStep, MayExecute
<1>15. CASE ExecOutput
  BY <1>15 DEF ExecOutput, NoPanic, BeginInst, VmStep, MayExecute
<1>16. CASE ExecInput
  BY <1>16 DEF ExecInput, NoPanic, BeginInst, VmStep, MayExecute
<1>17. CASE InputTimeout
  BY <1>17 DEF InputTimeout, NoPanic, InputStep, VmStep
<1>18. CASE InputEof
  BY <1>18 DEF InputEof, NoPanic, Raise, InputReturns, InputStep, VmStep
<1>19. CASE Typing
  BY <1>19
  DEF  Typing, InputAccepted, InputRejected, CloseInput, NoPanic, InputReturns,
       InputStep, VmStep
<1>20. CASE ExecutePanic \/ AfterInst \/ HostExited \/ CloseDone \/ Crash
  BY <1>20
  DEF  ExecutePanic, AfterInst, HostExited, CloseDone, Crash, ExitCodeOne, PlayStep, VmStep
<1>21. CASE UNCHANGED vars
  BY <1>21 DEF vars
<1> QED
  BY <1>1, <1>2, <1>3, <1>4, <1>5, <1>6, <1>7, <1>8, <1>9, <1>10, <1>11,
     <1>12, <1>13, <1>14, <1>15, <1>16, <1>17, <1>18, <1>19, <1>20, <1>21
  DEF  Next, VmProgress, ExecInst

-----------------------------------------------------------------------------
(* The session starts in a state of the invariant.                         *)
LEMMA InitInv == Init => SessionInv
<1> SUFFICES ASSUME Init PROVE SessionInv
  OBVIOUS
<1>1. 0 \in PCs
  BY ProgramAssumption DEF PCs
<1>2. HostTypeOK
  BY EventSeqs DEF Init, HostInit, HostTypeOK
<1>3. ExecTypeOK
  <2>1. [start |-> 0, ret |-> 0] \in Frames
    BY <1>1 DEF Frames
  <2>2. pc \in 0..(LastPC + 1)
    BY ProgramAssumption DEF Init
  <2> QED BY <2>1, <2>2 DEF Init, ExecTypeOK
<1>4. DebugTypeOK
  <2>1. NoCmd \in Commands
    BY DEF NoCmd, Commands
  <2>2. lineBreaks \in SUBSET PCs
    BY <1>1, BoundsAssumption DEF Init
  <2> QED BY <2>1, <2>2 DEF Init, DebugTypeOK
<1>5. ControlTypeOK
  BY DEF Init, ControlTypeOK, VmStates, CtlStates, Timers
<1>6. FlagsTypeOK /\ HeardTypeOK
  BY DEF Init, FlagsTypeOK, HeardTypeOK, Told
<1>7. StackInv
  BY <1>1 DEF Init, StackInv
<1>8. InputInv /\ CallInv
  BY DEF Init, InputInv, CallInv, Evaluating
<1> QED BY <1>2, <1>3, <1>4, <1>5, <1>6, <1>7, <1>8 DEF SessionInv, TypeOK

(* No step leaves it.                                                      *)
LEMMA StepInv == SessionInv /\ [Next]_vars => SessionInv'
BY HostTypeStep, HeardTypeStep, ExecTypeStep, DebugTypeStep, ControlTypeStep, FlagsTypeStep,
   StackStep, InputStepInv, CallStepInv
DEF SessionInv, TypeOK

(* The invariant the others are read from.                                 *)
THEOREM Invariance == Spec => []SessionInv
<1>1. Init => SessionInv
  BY InitInv
<1>2. SessionInv /\ [Next]_vars => SessionInv'
  BY StepInv
<1> QED BY <1>1, <1>2, PTL DEF Spec

-----------------------------------------------------------------------------
(* The session's state is well formed: the program counter never leaves    *)
(* the code, and only events and commands the code knows are exchanged.    *)
THEOREM TypeCorrect == Spec => []TypeOK
<1>1. SessionInv => TypeOK
  BY DEF SessionInv
<1> QED BY <1>1, Invariance, PTL

(* runInVm()'s request to yield is withdrawn by the time its caller comes  *)
(* back to make another call.                                              *)
THEOREM YieldIsWithdrawn == Spec => []NoStaleYield
<1>1. SessionInv => NoStaleYield
  BY DEF SessionInv, CallInv, NoStaleYield, Playing
<1> QED BY <1>1, Invariance, PTL

(* Closures run while their caller waits in runInVm(), and are never       *)
(* offered on the channel that Terminate() closed.                         *)
THEOREM ClosuresAreAwaited == Spec => []CommandHandshake
<1>1. SessionInv => CommandHandshake
  BY DEF SessionInv, CallInv, CommandHandshake
<1> QED BY <1>1, Invariance, PTL

(* After an exception the program does not move, but by RestartFrame().    *)
LEMMA ExceptionStep ==
  ASSUME SessionInv, [Next]_vars, exception
  PROVE  UNCHANGED <<pc, stack>> \/ (~exception' /\ vm = "cmd")
<1> USE DEF opts, execVars, playVars, inputVars, breakVars, hostVars, Evaluating
<1>1. CASE Call
  BY <1>1
  DEF  Call, Play, PlayAgain, UpdateUnstarted, CallContinue, CallStep, CallRestartFrame,
       CallUpdateBreakpoints, CallOther, Terminate, Halt, Wait, RunInVm, CtlStep, Quietly
<1>2. CASE CtlProgress
  BY <1>2
  DEF  CtlProgress, CallReturns, TerminateYield, CloseCommands, WaitReturns,
       CommandDone, SessionDone, CtlStep, Quietly
<1>3. CASE HostProgress
  BY <1>3 DEF HostProgress
<1>4. CASE CheckBreakpoints
  BY <1>4 DEF CheckBreakpoints, VmStep
<1>5. CASE ReceiveCmd
  BY <1>5 DEF ReceiveCmd, VmStep
<1>6. CASE Command
  BY <1>6
  DEF  Command, CmdContinue, CmdPause, CmdStep, CmdRestartFrame, CmdRestartNoFrame,
       CmdBreakpoints, CmdInspect, CmdEval, CmdEvalInput, RunCmd, WithdrawYield, VmStep
<1>7. CASE EndCmd
  BY <1>7 DEF EndCmd, VmStep
<1>8. CASE ExitRequested
  BY <1>8 DEF ExitRequested, PlayExits, VmStep
<1>9. CASE ExecPlain
  BY <1>9 DEF ExecPlain, NoPanic, BeginInst, VmStep, MayExecute
<1>10. CASE ExecFails
  BY <1>10 DEF ExecFails, Raise, BeginInst, VmStep, MayExecute
<1>11. CASE ExecJump
  BY <1>11 DEF ExecJump, NoPanic, BeginInst, VmStep, MayExecute
<1>12. CASE ExecCall
  BY <1>12 DEF ExecCall, NoPanic, BeginInst, VmStep, MayExecute
<1>13. CASE ExecCallOverflows
  BY <1>13 DEF ExecCallOverflows, Raise, BeginInst, VmStep, MayExecute
<1>14. CASE ExecLeave
  BY <1>14 DEF ExecLeave, NoPanic, BeginInst, VmStep, MayExecute
<1>15. CASE ExecOutput
  BY <1>15 DEF ExecOutput, NoPanic, BeginInst, VmStep, MayExecute
<1>16. CASE ExecInput
  BY <1>16 DEF ExecInput, NoPanic, BeginInst, VmStep, MayExecute
<1>17. CASE InputTimeout
  BY <1>17 DEF InputTimeout, NoPanic, InputStep, VmStep
<1>18. CASE InputEof
  BY <1>18 DEF InputEof, NoPanic, Raise, InputReturns, InputStep, VmStep
<1>19. CASE Typing
  BY <1>19
  DEF  Typing, InputAccepted, InputRejected, CloseInput, NoPanic, InputReturns,
       InputStep, VmStep, SessionInv, InputInv
<1>20. CASE ExecutePanic \/ AfterInst \/ HostExited \/ CloseDone \/ Crash
  BY <1>20
  DEF  ExecutePanic, AfterInst, HostExited, CloseDone, Crash, ExitCodeOne, PlayStep, VmStep
<1>21. CASE UNCHANGED vars
  BY <1>21 DEF vars
<1> QED
  BY <1>1, <1>2, <1>3, <1>4, <1>5, <1>6, <1>7, <1>8, <1>9, <1>10, <1>11,
     <1>12, <1>13, <1>14, <1>15, <1>16, <1>17, <1>18, <1>19, <1>20, <1>21
  DEF  Next, VmProgress, ExecInst

(* Only restarting a frame gets a program past an exception.               *)
THEOREM ExceptionIsFinal == Spec => ExceptionHolds
<1>1. SessionInv /\ [Next]_vars =>
        [exception => UNCHANGED <<pc, stack>> \/ (~exception' /\ vm = "cmd")]_<<pc, stack>>
  BY ExceptionStep
<1> QED BY <1>1, Invariance, PTL DEF Spec, ExceptionHolds
=============================================================================
