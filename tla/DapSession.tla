----------------------------- MODULE DapSession ------------------------------
(***************************************************************************)
(* dap/: one connection.  Three goroutines:                                *)
(*                                                                         *)
(*  - the handler runs Session.Run(): it reads a request, runs its handler *)
(*    to the end, and reads the next; at the end of the connection it runs *)
(*    its deferred functions;                                              *)
(*  - the VM of the current debug session (DebugRun);                      *)
(*  - the writer, sendFromQueue(), passes on to the client what the others *)
(*    put in sendQueue.                                                    *)
(*                                                                         *)
(* A handler is the sequence of its statements that send, or that use the  *)
(* debug session; `todo` is what is left of it.                            *)
(***************************************************************************)
EXTENDS DebugRun, TerminalLink, Breakpoints

CONSTANTS
  QueueCap,     (* the capacity of sendQueue                               *)
  MaxRequests,  (* bound: the requests the client sends                    *)
  Ops,          (* the requests this client makes, and "hangUp"             *)
  Launches,     (* the arguments of launch and restart it uses             *)
  LineSets,     (* the lines it sets breakpoints on                        *)
  InstSets,     (* the instructions it sets them on                        *)
  CanTerminal   (* the client can run a terminal                           *)

(* How tryStartSession() fares: the source is there, cannot be read, does  *)
(* not compile, or is to be tested and has no expected output.             *)
Sources == {"ok", "unreadable", "errors", "noOutFile"}

ASSUME DapAssumption ==
  /\ QueueCap \in Nat \ {0} /\ MaxRequests \in Nat /\ CanTerminal \in BOOLEAN
  /\ PCs = 0..(NInst - 1)
  /\ LineSets \subseteq SUBSET Nat /\ InstSets \subseteq SUBSET Int
  /\ Launches \subseteq [noDebug : BOOLEAN, stopOnEntry : BOOLEAN, source : Sources]

VARIABLES
  inbox,        (* the request the client sent, until the handler reads it *)
  asked,        (* how many requests it sent                               *)
  connected,    (* the client has not hung up                              *)
  handler,      (* Run(): "serving", "unwinding" (deferred calls), "ended" *)
  todo,
  bps, instBps, (* Session.bpsBySum of the program, Session.instBps        *)
  sendQueue, queueClosed,
  writer,       (* sendFromQueue() is running                              *)
  view,         (* what the client shows; "lost" once it missed a message  *)
  invited,      (* the client was asked to run a terminal                  *)
  answers       (* history: the responses to the request last read         *)

clientVars  == <<inbox, asked, connected>>
bpVars      == <<bps, instBps>>
queueVars   == <<sendQueue, queueClosed, view>>
handlerVars == <<handler, todo, answers>>
terminalVars == <<linkVars, invited>>
dapVars     == <<clientVars, handlerVars, bpVars, queueVars, writer, terminalVars>>
vars        == <<runVars, dapVars>>

Requests ==
  [op : Ops \cap {"configurationDone", "disconnect", "terminate", "continue",
                   "next", "pause", "restartFrame", "stackTrace", "evaluate"}]
    \cup [op : Ops \cap {"launch", "restart"}, args : Launches]
    \cup [op : Ops \cap {"setBreakpoints"}, lines : LineSets, source : {"ok", "errors"}]
    \cup [op : Ops \cap {"setInstructionBreakpoints"}, pcs : InstSets]

(* Those that use a session, which has to be started.                      *)
NeedStarted == {"restart", "continue", "next", "pause", "restartFrame", "stackTrace",
                "evaluate"}

DapInit ==
  /\ HostInit
  /\ noDebug = FALSE /\ life = "none" /\ paused = FALSE /\ commandsClosed = FALSE
  /\ lineBreaks = {} /\ instBreaks = {} /\ call = "none" /\ cmd = NoRunCommand
  /\ inbox = <<>> /\ asked = 0 /\ connected = TRUE
  /\ handler = "serving" /\ todo = <<>>
  /\ bps = {} /\ instBps = {}
  /\ sendQueue = <<>> /\ queueClosed = FALSE /\ writer = TRUE
  /\ view = "none"
  /\ LinkInit /\ invited = FALSE
  /\ answers = 1

-----------------------------------------------------------------------------
(* What goes through sendQueue: an event, or a response, of which the      *)
(* client's view depends on those that say the program runs on.            *)
Messages == {"stopped", "output", "exited", "terminated", "response", "resumed",
             "runInTerminal"}

(* eventHost: the event of each host call.  Continued() sends its event    *)
(* under the name of a stop.                                               *)
HostEvent(ev) ==
  CASE ev \in StopEvents \cup {"continued"} -> "stopped"
    [] ev = "panicked"                      -> "output"
    [] OTHER                                -> ev

(* send(): a full queue loses the message.                                 *)
(* Mutant: the queue grows.                                                *)
Unbounded   == TRUE
HasRoom     == Len(sendQueue) < QueueCap
Enqueue(msg) ==
  /\ ~queueClosed
  /\ sendQueue' = IF HasRoom THEN Append(sendQueue, msg) ELSE sendQueue
  /\ view' = IF HasRoom THEN view ELSE "lost"
  /\ UNCHANGED queueClosed

(* The statements of the handlers.                                         *)
Send(event)      == <<[do |-> "send", msg |-> event]>>
Respond(msg)     == <<[do |-> "respond", msg |-> msg]>>
Ok(req)          == Respond(IF req.op \in {"launch", "restart", "continue", "next"}
                              THEN "resumed" ELSE "response")
Fail             == Respond("response")
RunInVm(op)      == <<[do |-> "runInVm", cmd |-> [op |-> op]]>>
UpdateLines(lines) ==
  <<[do |-> "runInVm", cmd |-> [op |-> "lineBreaks", pcs |-> ComputeLineBreaks(lines)]]>>
UpdateInsts(pcs) ==
  <<[do |-> "runInVm", cmd |-> [op |-> "instBreaks", pcs |-> ComputeInstBreaks(pcs)]]>>
Do(what)         == <<[do |-> what]>>
New(args)        == <<[do |-> "new", args |-> args]>>

NoSession == life = "none"

(* Resume()                                                                *)
Resume == RunInVm("continue")

(* The terminal: started once for all programs of the connection, unless   *)
(* there is no port for it, and each program begins with a banner on it.   *)
Start(args) ==
  IF link # "none"
    THEN {Do("banner") \o New(args)}
    ELSE {New(args)} \cup
           IF CanTerminal
             THEN {Do("startTerminal") \o Send("runInTerminal") \o Do("banner") \o New(args)}
             ELSE {}

(* tryStartSession(), and what follows where it succeeds.                  *)
(* Mutant: the caller does not look whether it did.                        *)
TryStartBlindly(req, rest) ==
  IF req.args.source = "errors"
    THEN {Send("output") \o Fail \o rest} ELSE {start \o rest : start \in Start(req.args)}
TryStart(req, rest) ==
  CASE req.args.source = "unreadable" -> {Fail}
    [] req.args.source = "errors"     -> {Send("output") \o Fail}
    [] req.args.source = "noOutFile"  -> {Fail \o New(req.args) \o rest}
    [] OTHER                          -> {start \o rest : start \in Start(req.args)}

Launch(req) ==
  IF NoSession
    THEN TryStart(req, Ok(req) \o (IF req.args.noDebug THEN Do("play") ELSE <<>>))
    ELSE {Fail}

(* Mutant: the old session is not waited for.                              *)
HaltOnly    == Do("halt") \o Do("close")
HaltAndWait == Do("halt") \o Do("close") \o Do("wait")

Restart(req) ==
  IF NoSession
    THEN {Fail}
    ELSE {HaltAndWait \o Do("nil") \o Send("exited") \o start :
            start \in TryStart(req, Ok(req) \o Do("play"))}

ConfigurationDone(req) ==
  IF NoSession
    THEN Fail
    ELSE Ok(req) \o UpdateLines(bps) \o UpdateInsts(instBps) \o Do("play")

TerminateSession == IF NoSession THEN <<>> ELSE Do("terminate") \o Do("close")

Disconnect(req)    == TerminateSession \o Ok(req)
TerminateReq(req)  == TerminateSession \o Send("terminated") \o Ok(req)

(* pausedSessionRequiredError(): a session, and one that is debugged.      *)
(* A thread id that is not the session's fails the same way.               *)
Debugged(req, body) ==
  IF NoSession \/ noDebug THEN {Fail} ELSE {Fail} \cup body

(* Mutant: the response after the program was resumed.                     *)
RespondLast(req, calls)  == calls \o Ok(req)
RespondFirst(req, calls) == Ok(req) \o calls

Continue(req) == Debugged(req, {RespondFirst(req, Resume)})
StepNext(req)    == Debugged(req, {RespondFirst(req, RunInVm("step") \o Resume)})

PauseReq(req) == {Fail} \cup IF NoSession THEN {} ELSE {RunInVm("pause") \o Ok(req)}

RestartFrame(req) ==
  Debugged(req, {RunInVm("restartFrame") \o Fail,
                 RunInVm("restartFrame") \o Ok(req) \o Send("stopped")})

StackTrace(req) == Debugged(req, {RunInVm("inspect") \o Ok(req)})
Evaluate(req)   == Debugged(req, {RunInVm(op) \o resp :
                                    op \in {"eval", "evalInput"}, resp \in {Ok(req), Fail}})

(* A source that was modified is read again, and may have errors.  The     *)
(* lines that have no instruction are not kept.                            *)
(* Mutant: the session's breakpoints are left alone.                       *)
RecordBreakpoints(req) == Ok(req)
SetBreakpoints(req) ==
  IF req.source = "errors"
    THEN Fail
    ELSE (IF NoSession THEN <<>> ELSE UpdateLines(Verified(req.lines))) \o Ok(req)
SetInstructionBreakpoints(req) ==
  IF NoSession THEN Fail ELSE UpdateInsts(req.pcs) \o Ok(req)

(* dispatchRequest(): the ways the handler may go.                         *)
Handlers(req) ==
  CASE req.op = "launch"            -> Launch(req)
    [] req.op = "restart"           -> Restart(req)
    [] req.op = "configurationDone" -> {ConfigurationDone(req)}
    [] req.op = "disconnect"        -> {Disconnect(req)}
    [] req.op = "terminate"         -> {TerminateReq(req)}
    [] req.op = "continue"          -> Continue(req)
    [] req.op = "next"              -> StepNext(req)
    [] req.op = "pause"             -> PauseReq(req)
    [] req.op = "restartFrame"      -> RestartFrame(req)
    [] req.op = "stackTrace"        -> StackTrace(req)
    [] req.op = "evaluate"          -> Evaluate(req)
    [] req.op = "setBreakpoints"    -> {SetBreakpoints(req)}
    [] OTHER                        -> {SetInstructionBreakpoints(req)}

(* The deferred functions of Run(): the terminal's Close(), Halt(),        *)
(* close(sendQueue), wg.Wait().                                            *)
(* Mutant: the terminal stays open.                                        *)
NoClose  == (IF NoSession THEN <<>> ELSE Do("halt") \o Do("close"))
              \o Do("closeQueue") \o Do("join")
Deferred == (IF link = "none" THEN <<>> ELSE Do("closeTerminal"))
              \o (IF NoSession THEN <<>> ELSE Do("halt") \o Do("close"))
              \o Do("closeQueue") \o Do("join")

-----------------------------------------------------------------------------
(* The client asks nothing of a session that it has not started: the       *)
(* handler would wait for ever.  It sends a request when the one before is *)
(* handled: as they are handled one by one, to send earlier is the same.   *)
MaySend(req) ==
  /\ inbox = <<>> /\ todo = <<>>
  /\ req.op \in NeedStarted => life # "unstarted"

ClientSends ==
  /\ connected /\ asked < MaxRequests
  /\ \E req \in Requests :
       /\ MaySend(req)
       /\ inbox' = Append(inbox, req)
  /\ asked' = asked + 1
  /\ UNCHANGED <<runVars, connected, handlerVars, bpVars, queueVars, writer, terminalVars>>

HangUp ==
  /\ "hangUp" \in Ops /\ connected
  /\ connected' = FALSE
  /\ UNCHANGED <<runVars, inbox, asked, handlerVars, bpVars, queueVars, writer, terminalVars>>

(* The client shows a program as stopped or running by what it last heard. *)
Shown(msg) ==
  CASE view # "lost" /\ msg = "stopped"    -> "stopped"
    [] view # "lost" /\ msg \in EndEvents  -> "ended"
    [] view # "lost" /\ msg = "resumed"    -> "running"
    [] OTHER                               -> view

(* sendFromQueue()                                                         *)
Deliver ==
  /\ writer /\ connected /\ life # "crashed"
  /\ sendQueue # <<>>
  /\ sendQueue' = Tail(sendQueue)
  /\ view' = Shown(Head(sendQueue))
  /\ invited' = (invited \/ Head(sendQueue) = "runInTerminal")
  /\ UNCHANGED <<runVars, clientVars, handlerVars, bpVars, queueClosed, writer, linkVars>>

(* It ends when the queue is closed and empty, or cannot be written out.   *)
WriterEnds ==
  /\ writer /\ life # "crashed"
  /\ IF sendQueue = <<>> THEN queueClosed ELSE ~connected
  /\ writer' = FALSE
  /\ UNCHANGED <<runVars, clientVars, handlerVars, bpVars, queueVars, terminalVars>>

-----------------------------------------------------------------------------
(* The handler.                                                            *)
Receive ==
  /\ handler = "serving" /\ todo = <<>> /\ call = "none" /\ life # "crashed"
  /\ inbox # <<>>
  /\ LET req == Head(inbox)
     IN  /\ todo' \in Handlers(req)
         /\ bps' = IF req.op = "setBreakpoints" /\ req.source = "ok"
                     THEN Verified(req.lines) ELSE bps
         /\ instBps' = IF req.op = "setInstructionBreakpoints" /\ ~NoSession
                         THEN ComputeInstBreaks(req.pcs) ELSE instBps
  /\ inbox' = Tail(inbox)
  /\ answers' = 0
  /\ UNCHANGED <<runVars, asked, connected, handler, queueVars, writer, terminalVars>>

(* The end of the connection.                                              *)
ReceiveEof ==
  /\ handler = "serving" /\ todo = <<>> /\ call = "none" /\ life # "crashed"
  /\ inbox = <<>> /\ ~connected
  /\ handler' = "unwinding"
  /\ todo' = Deferred
  /\ UNCHANGED <<runVars, clientVars, answers, bpVars, queueVars, writer, terminalVars>>

(* The next statement is what; the calls of the others have returned.      *)
AtStatement(what) ==
  /\ todo # <<>> /\ Head(todo).do = what
  /\ call = "none" /\ inWrite # "handler" /\ life # "crashed"

Advance == todo' = Tail(todo) /\ UNCHANGED <<clientVars, bpVars, writer, terminalVars>>

(* The statements that use the terminal.                                   *)
AdvanceOn(linkStep) ==
  /\ linkStep /\ todo' = Tail(todo)
  /\ UNCHANGED <<runVars, clientVars, handler, answers, bpVars, queueVars, writer, invited>>

DoStartTerminal == AtStatement("startTerminal") /\ AdvanceOn(StartLink)
DoBanner        == AtStatement("banner") /\ AdvanceOn(BeginWrite("handler"))
DoCloseTerminal == AtStatement("closeTerminal") /\ AdvanceOn(CloseLink)

DoSend ==
  /\ AtStatement("send")
  /\ Enqueue(Head(todo).msg)
  /\ Advance
  /\ UNCHANGED <<runVars, handler, answers>>

DoRespond ==
  /\ AtStatement("respond")
  /\ Enqueue(Head(todo).msg)
  /\ answers' = answers + 1
  /\ Advance
  /\ UNCHANGED <<runVars, handler>>

(* runInVm(), and the calls of debug.Session that use it.                  *)
DoRunInVm ==
  /\ AtStatement("runInVm")
  /\ LET c      == Head(todo).cmd
         update == life = "unstarted" /\ c.op \in {"lineBreaks", "instBreaks"}
     IN  \/ noDebug /\ UNCHANGED runVars
         \/ update /\ RunUpdateUnstarted(c.op, c.pcs)
         \/ ~update /\ Offer(c)
         \/ ~update /\ commandsClosed /\ UNCHANGED runVars
  /\ Advance
  /\ UNCHANGED <<queueVars, handler, answers>>

(* debug.New(), with the breakpoints that are known.                       *)
DoNew ==
  /\ AtStatement("new")
  /\ LET args == Head(todo).args
     IN  NewRun(args.noDebug,
                ComputeLineBreaks(bps) \cup (IF args.stopOnEntry /\ NInst > 0 THEN {0} ELSE {}),
                ComputeInstBreaks(instBps))
  /\ Advance
  /\ UNCHANGED <<queueVars, handler, answers>>

DoPlay ==
  /\ AtStatement("play")
  /\ RunPlay
  /\ Advance
  /\ UNCHANGED <<queueVars, handler, answers>>

(* Play() panics when the session is started; nothing recovers it before   *)
(* Run()'s deferred functions.                                             *)
DoPlayAgain ==
  /\ AtStatement("play")
  /\ life # "unstarted"
  /\ handler' = "unwinding"
  /\ todo' = Deferred
  /\ UNCHANGED <<runVars, clientVars, answers, bpVars, queueVars, writer, terminalVars>>

DoHalt ==
  /\ AtStatement("halt") /\ RunHalt
  /\ Advance /\ UNCHANGED <<queueVars, handler, answers>>

DoTerminate ==
  /\ AtStatement("terminate") /\ RunTerminate
  /\ Advance /\ UNCHANGED <<queueVars, handler, answers>>

(* The end of Halt() and Terminate().                                      *)
DoClose ==
  /\ todo # <<>> /\ Head(todo).do = "close" /\ RunClose
  /\ Advance /\ UNCHANGED <<queueVars, handler, answers>>

DoWait ==
  /\ AtStatement("wait") /\ RunWait
  /\ Advance /\ UNCHANGED <<queueVars, handler, answers>>

(* h.sess = nil.  (A run that is about to end the process is past it.)     *)
DoNil ==
  /\ AtStatement("nil")
  /\ life' = "none" /\ noDebug' = FALSE /\ paused' = FALSE /\ commandsClosed' = FALSE
  /\ lineBreaks' = {} /\ instBreaks' = {}
  /\ suppressed' = FALSE /\ outbox' = <<>> /\ passed' = FALSE
  /\ UNCHANGED <<call, cmd>>
  /\ Advance /\ UNCHANGED <<queueVars, handler, answers>>

DoCloseQueue ==
  /\ AtStatement("closeQueue")
  /\ queueClosed' = TRUE
  /\ Advance
  /\ UNCHANGED <<runVars, sendQueue, view, handler, answers>>

DoJoin ==
  /\ AtStatement("join")
  /\ ~writer
  /\ handler' = "ended"
  /\ Advance
  /\ UNCHANGED <<runVars, queueVars, answers>>

CallReturns ==
  /\ OfferReturns \/ RunWaitReturns
  /\ UNCHANGED dapVars

Statement == \/ DoSend \/ DoRespond \/ DoRunInVm \/ DoNew \/ DoPlay \/ DoPlayAgain \/ DoHalt
             \/ DoTerminate \/ DoClose \/ DoWait \/ DoNil \/ DoCloseQueue \/ DoJoin
             \/ DoStartTerminal \/ DoBanner \/ DoCloseTerminal

-----------------------------------------------------------------------------
(* The VM.                                                                 *)
VmRuns == RunVm /\ inWrite # "vm" /\ UNCHANGED dapVars

VmTests ==
  /\ life # "crashed" /\ inWrite # "vm"
  /\ TestSuppressed
  /\ UNCHANGED <<noDebug, life, paused, commandsClosed, breakVars, call, cmd, dapVars>>

(* Output goes to the client, and then to the terminal.                    *)
VmSends ==
  /\ life # "crashed" /\ inWrite # "vm"
  /\ \/ SendEvent /\ UNCHANGED linkVars
     \/ SendOutput /\ link = "none" /\ UNCHANGED linkVars
     \/ SendOutput /\ BeginWrite("vm")
  /\ Enqueue(HostEvent(Head(outbox)))
  /\ UNCHANGED <<noDebug, life, paused, commandsClosed, breakVars, call, cmd, clientVars,
                 handlerVars, bpVars, writer, invited>>

(* To send on a closed channel panics: inside of an instruction that is an *)
(* exception of the program, and a program without debugging writes about  *)
(* it; anywhere else it ends the process.                                  *)
InInstruction ==
  life = "playing" /\ ~noDebug /\ Head(outbox) \in {"output", "i/o wait", "continued"}

VmSendPanics ==
  /\ outbox # <<>> /\ (Head(outbox) = "output" \/ passed)
  /\ queueClosed /\ life # "crashed" /\ inWrite # "vm"
  /\ IF InInstruction THEN paused' = TRUE /\ UNCHANGED life
                      ELSE life' = "crashed" /\ UNCHANGED paused
  /\ outbox' = <<>> /\ passed' = FALSE
  /\ UNCHANGED <<suppressed, noDebug, commandsClosed, breakVars, call, cmd, dapVars>>

-----------------------------------------------------------------------------
(* The terminal: a client that was asked to runs one, which connects, and  *)
(* reads or not; the line that is written to it is taken.                  *)
Linked(linkStep) ==
  /\ life # "crashed" /\ linkStep
  /\ UNCHANGED <<runVars, clientVars, handlerVars, bpVars, queueVars, writer, invited>>

TerminalActs == Linked((invited /\ Connect) \/ Flow)
TerminalTakes == Linked(WriteReturns)

-----------------------------------------------------------------------------
DapNext == \/ ClientSends \/ HangUp
           \/ Receive \/ ReceiveEof \/ Statement \/ CallReturns
           \/ VmRuns \/ VmTests \/ VmSends \/ VmSendPanics
           \/ Deliver \/ WriterEnds
           \/ TerminalActs \/ TerminalTakes

DapSpec == DapInit /\ [][DapNext]_vars

(* The goroutines run on, and the client reads what it is sent.  Of the VM *)
(* DebugSession shows that it gets round to serve a call (CallsReturn) and *)
(* leaves play() when it is asked to (TerminateEnds), for which no fairness*)
(* of a single step is enough: it may report other things all the time.    *)
(* Of Write() Terminal shows that it returns where FairReturn says so.     *)
VmStep(step) == step /\ inWrite # "vm" /\ UNCHANGED dapVars

FairDapSpec ==
  /\ DapSpec
  /\ WF_vars(Receive \/ ReceiveEof) /\ WF_vars(Statement) /\ WF_vars(CallReturns)
  /\ WF_vars(VmTests \/ VmSends \/ VmSendPanics)
  /\ WF_vars(VmStep(Served \/ RunExited \/ RunDone))
  /\ SF_vars(VmStep(Serve)) /\ SF_vars(VmStep(commandsClosed /\ Leave))
  /\ WF_vars(Deliver \/ WriterEnds)
  /\ WF_vars(Linked(FairReturn))

-----------------------------------------------------------------------------
(* The types of the variables.                                             *)
Statements ==
  [do : {"send"}, msg : {"stopped", "output", "exited", "terminated", "runInTerminal"}]
    \cup [do : {"respond"}, msg : {"response", "resumed"}]
    \cup [do : {"runInVm"}, cmd : RunCommands]
    \cup [do : {"new"}, args : Launches]
    \cup [do : {"startTerminal", "banner", "closeTerminal", "play", "halt", "terminate",
                "close", "wait", "nil", "closeQueue", "join"}]

DapTypeOK ==
  /\ RunTypeOK /\ LinkTypeOK /\ invited \in BOOLEAN
  /\ inbox \in Seq(Requests) /\ asked \in 0..MaxRequests /\ connected \in BOOLEAN
  /\ todo \in Seq(Statements)
  /\ handler \in {"serving", "unwinding", "ended"}
  /\ bps \in SUBSET Nat /\ instBps \in SUBSET PCs
  /\ sendQueue \in Seq(Messages) /\ Len(sendQueue) <= QueueCap
  /\ queueClosed \in BOOLEAN /\ writer \in BOOLEAN
  /\ view \in {"none", "running", "stopped", "ended", "lost"}
  /\ answers \in Nat

AtRest == todo = <<>> /\ call = "none" /\ handler = "serving"

(* A program that is stopped is shown as stopped once the messages have    *)
(* arrived, if none was lost: the response that says it resumes never      *)
(* overtakes the stop (dap/control.go answers, then resumes).              *)
StopIsSeen ==
  AtRest /\ connected /\ outbox = <<>> /\ sendQueue = <<>>
    /\ life = "playing" /\ paused /\ ~commandsClosed
  => view \in {"stopped", "lost"}

(* When the handler is at rest, the VM has the breakpoints the client set, *)
(* before or after the launch, the restart or the start of the program: it *)
(* stops where each of these lines begins, and nowhere else but on entry.  *)
BreakpointsInForce ==
  AtRest /\ life = "playing" /\ ~noDebug /\ ~commandsClosed =>
    LET starts == {pc \in LineStarts : Line[pc] \in bps}
    IN  /\ starts \subseteq lineBreaks /\ lineBreaks \subseteq starts \cup {0}
        /\ \A line \in bps : \E pc \in starts : Line[pc] = line
        /\ instBreaks = instBps

(* A request is answered once, on every way through its handler, however   *)
(* the start of a session fails.  (Not so a launch in test mode without    *)
(* the file of the expected output, start.go:70.)                          *)
AnsweredOnce == AtRest => answers = 1

(* The handler lets go of a session only when its VM is at the end: a      *)
(* restart never mixes the events of two runs.                             *)
OneVm == [][life # "none" /\ life' = "none" => life = "done" /\ outbox = <<>>]_life

(* Why they hold.  The run that a session is at: its VM has nothing to     *)
(* tell before it is started and when it is done, and nothing of its end   *)
(* while it plays; the host is suppressed by Halt() alone.                 *)
VmInv ==
  /\ life \in {"none", "unstarted", "done"} => outbox = <<>>
  /\ life \in {"none", "unstarted"} => ~paused
  /\ life = "playing" =>
       \A i \in 1..Len(outbox) : outbox[i] \in StopEvents \cup {"output", "continued"}
  /\ suppressed => commandsClosed \/ call = "terminating"
  /\ call \in {"none", "terminating", "waiting"} => cmd = NoRunCommand

(* The order in which handlers use a session: it is let go when it was     *)
(* waited for, the client is told of an end when there was one, and that   *)
(* the program runs before it is started, or resumed by what follows.      *)
TellsEnd(stmt)    == stmt.do = "send" /\ stmt.msg \in EndEvents
TellsResume(stmt) == stmt.do = "respond" /\ stmt.msg = "resumed"
After(before, stmt) ==
  /\ stmt.do = "nil" => before = "wait"
  /\ TellsEnd(stmt) => before \in {"close", "nil"}
  /\ TellsResume(stmt) => before = "new"

Updates(stmt, kind) == stmt.do = "runInVm" /\ stmt.cmd.op = kind
ToDo(stmt)  == \E i \in 1..Len(todo) : todo[i] = stmt
ToContinue  == [do |-> "runInVm", cmd |-> [op |-> "continue"]]

TodoInv ==
  /\ \A i \in 2..Len(todo) : After(todo[i - 1].do, todo[i])
  /\ todo # <<>> =>
       /\ todo[1].do = "nil" => call = "waiting" \/ life \in {"done", "crashed"}
       /\ TellsEnd(todo[1]) => life = "none" \/ commandsClosed
       /\ TellsResume(todo[1]) => life = "unstarted" \/ ToDo(ToContinue)
  /\ ToDo(ToContinue) =>
       ~noDebug /\ \A i \in 1..Len(todo) : todo[i].do \notin {"new", "nil"}
  /\ handler = "serving" =>
       ~queueClosed /\ \A i \in 1..Len(todo) : todo[i].do # "closeQueue"

(* The breakpoints are in the VM, or on their way to it.                   *)
OnTheWay(kind) ==
  \/ call = "open" /\ cmd.op = kind
  \/ \E i \in 1..Len(todo) : Updates(todo[i], kind)

BreakInv ==
  /\ \A line \in bps : InstFromSource(line) >= 0
  /\ \A i \in 1..Len(todo) :
       /\ Updates(todo[i], "lineBreaks") => todo[i].cmd.pcs = ComputeLineBreaks(bps)
       /\ Updates(todo[i], "instBreaks") => todo[i].cmd.pcs = instBps
  /\ cmd.op = "lineBreaks" => cmd.pcs = ComputeLineBreaks(bps)
  /\ cmd.op = "instBreaks" => cmd.pcs = instBps
  /\ handler = "serving" /\ life \in {"unstarted", "playing"} /\ ~noDebug /\ ~commandsClosed =>
       /\ \/ /\ ComputeLineBreaks(bps) \subseteq lineBreaks
             /\ lineBreaks \subseteq ComputeLineBreaks(bps) \cup {0}
          \/ OnTheWay("lineBreaks")
       /\ instBreaks = instBps \/ OnTheWay("instBreaks")

(* The last that the client has heard, or will hear, of a program that is  *)
(* stopped is the stop, unless the program is about to be resumed.         *)
Unstops == {"resumed"} \cup EndEvents
LastIsStop ==
  \E i \in 0..Len(sendQueue) :
    /\ IF i = 0 THEN view = "stopped" ELSE sendQueue[i] = "stopped"
    /\ \A j \in (i + 1)..Len(sendQueue) : sendQueue[j] \notin Unstops

StopInv ==
  handler = "serving" /\ life = "playing" /\ paused /\ ~commandsClosed
    /\ call # "terminating" /\ view # "lost"
  => \/ \E i \in 1..Len(outbox) : outbox[i] \in StopEvents
     \/ ToDo(ToContinue) \/ (call = "open" /\ cmd.op = "continue")
     \/ LastIsStop

(* Where no launch is in test mode without the file of the expected        *)
(* output, the answer to a request is still to come or was given.          *)
Untested == \A args \in Launches : args.source # "noOutFile"
Answers  == {i \in 1..Len(todo) : todo[i].do = "respond"}
AnswerInv ==
  Untested /\ handler = "serving" =>
    \/ answers = 1 /\ Answers = {}
    \/ answers = 0 /\ \E i \in Answers : Answers = {i}

DapInv == DapTypeOK /\ VmInv /\ TodoInv /\ BreakInv /\ StopInv /\ AnswerInv

(* Every request of this client is handled to its end, but for the         *)
(* evaluation of an expression that waits for input, and while something   *)
(* is written to a terminal that has not connected or does not read.       *)
Blocked   == call = "evaluating" \/ life = "crashed"
Unwritten == link \in {"waiting", "stuck"} /\ inWrite # "none"

RequestsHandled ==
  (inbox # <<>> \/ todo # <<>>)
    ~> (Blocked \/ Unwritten \/ handler = "ended" \/ (inbox = <<>> /\ todo = <<>>))

(* When the client hangs up Run() returns, and the program ends with it,   *)
(* also one whose output no terminal takes; but not if the handler waits   *)
(* for the terminal, because of the banner (start.go:104) or of the program*)
(* that it calls or waits for: it never hears of the end.                  *)
HangUpEnds ==
  ~connected
    ~> \/ Blocked \/ (Unwritten /\ (inWrite = "handler" \/ call # "none"))
       \/ handler = "ended" /\ life \in {"none", "unstarted", "done"} /\ inWrite = "none"

(* "we do not close this channel prematurely" (dap/session.go:35): no      *)
(* message is sent on the closed queue.                                    *)
NeverSendsOnClosed ==
  queueClosed => outbox = <<>> \/ (Head(outbox) # "output" /\ ~passed)
=============================================================================
