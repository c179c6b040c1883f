------------------------------ MODULE DebugRun -------------------------------
(***************************************************************************)
(* What a debug.Session promises to the one goroutine that uses it (the    *)
(* DAP handler), whatever program it runs: from Play() on the VM reports   *)
(* stops, output and input, serves one call at a time, and ends, after     *)
(* which every call returns at once.  DebugSession implements it.          *)
(***************************************************************************)
EXTENDS EventHost

CONSTANTS
  PCs,        (* the program's instructions                                *)
  BreakSets   (* the sets of them the client may set breakpoints on        *)

ASSUME BreakSetsAssumption == BreakSets \subseteq SUBSET PCs

VARIABLES
  noDebug,                 (* Opts.NoDebug                                 *)
  life,                    (* how far play() has come                      *)
  paused,                  (* runState is PAUSE                            *)
  commandsClosed,
  lineBreaks, instBreaks,
  call,                    (* how far the caller's call has come           *)
  cmd                      (* the closure of the call                      *)

breakVars == <<lineBreaks, instBreaks>>
runVars   == <<hostVars, noDebug, life, paused, commandsClosed, breakVars, call, cmd>>

(* "none": there is no session.  "leaving": play() returns, "closing": it  *)
(* has called Exited().                                                    *)
Lives == {"none", "unstarted", "playing", "leaving", "closing", "done", "crashed"}

(* "open": runInVm() offers a closure, "evaluating": the closure waits for *)
(* input, "serving": it has run, and what it writes goes out, "served": it *)
(* is done.                                                                *)
Calls == {"none", "open", "evaluating", "serving", "served", "terminating", "waiting",
          "panicked"}

RunCommands ==
  [op : {"continue", "pause", "step", "restartFrame", "inspect", "eval", "evalInput"}]
    \cup [op : {"lineBreaks", "instBreaks"}, pcs : SUBSET PCs]
NoRunCommand == [op |-> "inspect"]

RunTypeOK ==
  /\ HostTypeOK
  /\ noDebug \in BOOLEAN /\ paused \in BOOLEAN /\ commandsClosed \in BOOLEAN
  /\ life \in Lives /\ call \in Calls
  /\ cmd \in RunCommands
  /\ lineBreaks \in SUBSET PCs /\ instBreaks \in SUBSET PCs

(* debug.New()                                                             *)
NewRun(isNoDebug, bps, pcs) ==
  /\ noDebug' = isNoDebug
  /\ life' = "unstarted" /\ paused' = FALSE /\ commandsClosed' = FALSE
  /\ lineBreaks' = bps /\ instBreaks' = pcs
  /\ call' = "none" /\ cmd' = NoRunCommand
  /\ suppressed' = FALSE /\ outbox' = <<>> /\ passed' = FALSE

RunInit ==
  /\ HostInit
  /\ noDebug \in BOOLEAN
  /\ life = "unstarted" /\ paused = FALSE /\ commandsClosed = FALSE
  /\ lineBreaks \in {bps \cup entry : bps \in BreakSets, entry \in {{}, {0}}}
  /\ instBreaks = {}
  /\ call = "none" /\ cmd = NoRunCommand

-----------------------------------------------------------------------------
(* The caller.                                                             *)
CallStep(from, to) ==
  /\ call = from
  /\ life # "crashed"
  /\ call' = to
  /\ UNCHANGED <<noDebug, outbox, passed>>

RunPlay ==
  /\ life = "unstarted"
  /\ CallStep("none", "none")
  /\ life' = "playing"
  /\ UNCHANGED <<suppressed, paused, commandsClosed, breakVars, cmd>>

RunPlayAgain ==
  /\ life # "unstarted"
  /\ CallStep("none", "panicked")
  /\ UNCHANGED <<suppressed, life, paused, commandsClosed, breakVars, cmd>>

RunUpdateUnstarted(kind, bps) ==
  /\ ~noDebug
  /\ life = "unstarted"
  /\ CallStep("none", "none")
  /\ lineBreaks' = IF kind = "lineBreaks" THEN bps ELSE lineBreaks
  /\ instBreaks' = IF kind = "instBreaks" THEN bps ELSE instBreaks
  /\ UNCHANGED <<suppressed, life, paused, commandsClosed, cmd>>

Offer(c) ==
  /\ ~noDebug
  /\ ~commandsClosed
  /\ CallStep("none", "open")
  /\ cmd' = c
  /\ UNCHANGED <<suppressed, life, paused, commandsClosed, breakVars>>

(* The closure has run, or there is nobody left to run it.                 *)
(* Mutant: the caller knows nothing of the latter.                         *)
Unknown      == FALSE
NobodyServes == life = "done"
OfferReturns ==
  /\ CallStep("served", "none") \/ (NobodyServes /\ CallStep("open", "none"))
  /\ cmd' = NoRunCommand
  /\ UNCHANGED <<suppressed, life, paused, commandsClosed, breakVars>>

RunTerminate ==
  /\ CallStep("none", "terminating")
  /\ UNCHANGED <<suppressed, life, paused, commandsClosed, breakVars, cmd>>

RunHalt ==
  /\ CallStep("none", "terminating")
  /\ suppressed' = TRUE
  /\ UNCHANGED <<life, paused, commandsClosed, breakVars, cmd>>

RunClose ==
  /\ CallStep("terminating", "none")
  /\ commandsClosed' = TRUE
  /\ UNCHANGED <<suppressed, life, paused, breakVars, cmd>>

RunWait ==
  /\ commandsClosed
  /\ CallStep("none", "waiting")
  /\ UNCHANGED <<suppressed, life, paused, commandsClosed, breakVars, cmd>>

RunWaitReturns ==
  /\ life = "done"
  /\ CallStep("waiting", "none")
  /\ UNCHANGED <<suppressed, life, paused, commandsClosed, breakVars, cmd>>

-----------------------------------------------------------------------------
(* The VM.                                                                 *)
RunStep(from, to) ==
  /\ life = from
  /\ HostQuiet
  /\ life' = to
  /\ UNCHANGED <<noDebug, commandsClosed>>

Playing(evs) ==
  /\ RunStep("playing", "playing")
  /\ Post(evs)
  /\ UNCHANGED <<breakVars, call, cmd>>

(* Without debugging a program that stopped cannot be resumed.             *)
Stuck == noDebug /\ paused

(* The program stops: a step has arrived, a breakpoint is hit, or both; or *)
(* an exception, of which the client is told while it is debugging.        *)
Stop ==
  /\ ~Stuck
  /\ \E evs \in {<<"step">>, <<"breakpoint">>, <<"step", "breakpoint">>, <<"exception">>} :
       (noDebug => evs = <<"breakpoint">>) /\ Playing(evs)
  /\ call \notin {"evaluating", "serving"}
  /\ paused' = TRUE

(* The program writes, waits for input, and continues when it gets some.   *)
Report ==
  /\ ~Stuck
  /\ \/ \E evs \in {<<"output">>, <<"i/o wait">>} : Playing(evs)
     \/ ~paused /\ \E evs \in {<<"continued">>, <<"continued", "output">>} : Playing(evs)
  /\ call # "serving"
  /\ UNCHANGED paused

Serve ==
  /\ call = "open"
  /\ call' = IF cmd.op = "evalInput" THEN "evaluating" ELSE "serving"
  /\ RunStep("playing", "playing")
  /\ \E evs \in CASE cmd.op = "pause"     -> {<<"pause">>}
                  [] cmd.op = "eval"      -> {<<>>, <<"output">>}
                  [] cmd.op = "evalInput" -> {<<"output">>}
                  [] OTHER                -> {<<>>} : Post(evs)
  /\ paused' = CASE cmd.op = "continue" -> FALSE
                 [] cmd.op = "pause"    -> TRUE
                 [] OTHER               -> paused
  /\ lineBreaks' = IF cmd.op = "lineBreaks" THEN cmd.pcs ELSE lineBreaks
  /\ instBreaks' = IF cmd.op = "instBreaks" THEN cmd.pcs ELSE instBreaks
  /\ UNCHANGED cmd

(* An evaluation gets the line it waited for, or the end of the input.     *)
Evaluated ==
  /\ call = "evaluating"
  /\ call' = "serving"
  /\ RunStep("playing", "playing")
  /\ \E evs \in {<<>>, <<"continued">>} : (evs # <<>> => ~paused) /\ Post(evs)
  /\ UNCHANGED <<paused, breakVars, cmd>>

Served ==
  /\ call = "serving"
  /\ call' = "served"
  /\ RunStep("playing", "playing")
  /\ UNCHANGED <<hostVars, paused, breakVars, cmd>>

(* play() returns: the program has ended or the client terminates it; with *)
(* an exception, of which it tells; or with a panic.                       *)
Leave ==
  /\ RunStep("playing", "leaving")
  /\ call \notin {"evaluating", "serving"}
  /\ \/ \E evs \in {<<>>, <<"output", "panicked">>} : Post(evs) /\ UNCHANGED paused
     \/ ~noDebug /\ Post(<<"exception">>) /\ paused' = TRUE
  /\ Stuck => commandsClosed
  /\ UNCHANGED <<breakVars, call, cmd>>

RunExited ==
  /\ RunStep("leaving", "closing")
  /\ Post(<<"exited", "terminated">>)
  /\ UNCHANGED <<paused, breakVars, call, cmd>>

RunDone ==
  /\ RunStep("closing", "done")
  /\ UNCHANGED <<hostVars, paused, breakVars, call, cmd>>

RunCrash ==
  /\ RunStep("done", "crashed")
  /\ UNCHANGED <<hostVars, paused, breakVars, call, cmd>>

RunHost ==
  /\ TestSuppressed \/ SendOutput \/ SendEvent
  /\ UNCHANGED <<noDebug, life, paused, commandsClosed, breakVars, call, cmd>>

-----------------------------------------------------------------------------
RunCaller ==
  \/ RunPlay \/ RunPlayAgain
  \/ \E kind \in {"lineBreaks", "instBreaks"}, bps \in BreakSets :
       RunUpdateUnstarted(kind, bps)
  \/ \E c \in RunCommands : Offer(c)
  \/ OfferReturns \/ RunTerminate \/ RunHalt \/ RunClose \/ RunWait \/ RunWaitReturns

RunVm == \/ Stop \/ Report \/ Serve \/ Evaluated \/ Served
         \/ Leave \/ RunExited \/ RunDone \/ RunCrash

RunNext == RunCaller \/ RunVm \/ RunHost

RunSpec == RunInit /\ [][RunNext]_runVars
=============================================================================
