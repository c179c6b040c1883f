------------------------------ MODULE EventHost ------------------------------
(***************************************************************************)
(* dap/host.go: the eventHost through which one run of the VM tells the    *)
(* client what happens to it.  The VM's goroutine sends; the DAP handler's *)
(* goroutine may suppress the host at any moment (SuppressAllEvents).      *)
(* send() loads the flag and only then sends, so the two can interleave.   *)
(*                                                                         *)
(* A call the VM makes (Paused, Exception, Exited, ...) is one or more     *)
(* events it must hand over, in order, before it does anything else.       *)
(* Program output takes another way out (Opts.Output, which is             *)
(* dap/session.go's stdout): it is never suppressed.                       *)
(***************************************************************************)
EXTENDS Naturals, Sequences

VARIABLES
  suppressed,  (* eventHost.suppressed                                     *)
  outbox,      (* the events of the VM's current host calls, not yet sent  *)
  passed       (* the first of them has passed the test of `suppressed`    *)

hostVars == <<suppressed, outbox, passed>>

(* The events that make the client show a stopped program.                 *)
StopEvents == {"step", "breakpoint", "pause", "i/o wait", "exception"}
EndEvents  == {"exited", "terminated"}
Events     == StopEvents \cup EndEvents \cup {"continued", "panicked", "output"}

HostTypeOK ==
  /\ suppressed \in BOOLEAN
  /\ outbox \in Seq(Events)
  /\ passed \in BOOLEAN

HostInit ==
  /\ suppressed = FALSE
  /\ outbox = <<>>
  /\ passed = FALSE

(* The VM's goroutine has no host call or output to finish.                *)
HostQuiet == outbox = <<>>

(* The VM makes host calls (or writes output) that send evs.               *)
Post(evs) ==
  /\ outbox' = evs
  /\ UNCHANGED <<suppressed, passed>>

(* send(), the load of the flag: a suppressed event is dropped ...         *)
DropSuppressed ==
  /\ outbox # <<>>
  /\ Head(outbox) # "output"
  /\ ~passed
  /\ suppressed
  /\ outbox' = Tail(outbox)
  /\ UNCHANGED <<suppressed, passed>>

(* ... and any other goes on to sendFunc.                                  *)
(* Mutant: the flag is not looked at.                                      *)
Unchecked == TRUE
Sendable  == ~suppressed

PassSuppressed ==
  /\ outbox # <<>>
  /\ Head(outbox) # "output"
  /\ ~passed
  /\ Sendable
  /\ passed' = TRUE
  /\ UNCHANGED <<suppressed, outbox>>

TestSuppressed == DropSuppressed \/ PassSuppressed

(* send(), the call of sendFunc.                                           *)
SendEvent ==
  /\ outbox # <<>>
  /\ Head(outbox) # "output"
  /\ passed
  /\ passed' = FALSE
  /\ outbox' = Tail(outbox)
  /\ UNCHANGED suppressed

(* Opts.Output: no test of the flag.                                       *)
SendOutput ==
  /\ outbox # <<>>
  /\ Head(outbox) = "output"
  /\ outbox' = Tail(outbox)
  /\ UNCHANGED <<suppressed, passed>>

(* SuppressAllEvents, called by the DAP handler's goroutine.               *)
SuppressAllEvents ==
  /\ suppressed' = TRUE
  /\ UNCHANGED <<outbox, passed>>
=============================================================================
