---------------------------- MODULE TerminalLink -----------------------------
(***************************************************************************)
(* What a dap.Terminal promises to those who write to it: Write() blocks   *)
(* while nobody takes the line (no terminal has connected yet, or the one  *)
(* that has does not read), and never once Close() was called.  Terminal   *)
(* implements it.                                                          *)
(***************************************************************************)
EXTENDS Naturals

VARIABLES
  link,    (* "none": not started, "waiting": for a connection             *)
  inWrite   (* who is in Write(): the handler, with the banner, or the VM   *)

linkVars == <<link, inWrite>>

Links   == {"none", "waiting", "flowing", "stuck", "closed"}
Writers == {"none", "handler", "vm"}

LinkTypeOK == link \in Links /\ inWrite \in Writers

LinkInit == link = "none" /\ inWrite = "none"

StartLink ==
  /\ link = "none"
  /\ link' = "waiting" /\ UNCHANGED inWrite

Connect ==
  /\ link = "waiting"
  /\ link' \in {"flowing", "stuck"} /\ UNCHANGED inWrite

(* The terminal reads again, or does not.                                  *)
Flow ==
  /\ link \in {"flowing", "stuck"}
  /\ link' = IF link = "flowing" THEN "stuck" ELSE "flowing"
  /\ UNCHANGED inWrite

(* The handler closes the terminal, and the handler writes the banner: it  *)
(* does not do both.                                                       *)
CloseLink ==
  /\ link \notin {"none", "closed"} /\ inWrite # "handler"
  /\ link' = "closed" /\ UNCHANGED inWrite

BeginWrite(who) ==
  /\ link # "none" /\ inWrite = "none"
  /\ inWrite' = who /\ UNCHANGED link

(* The line is taken, or Done is closed.                                   *)
WriteReturns ==
  /\ inWrite # "none" /\ link \notin {"none", "waiting"}
  /\ inWrite' = "none" /\ UNCHANGED link

LinkNext ==
  \/ StartLink \/ Connect \/ Flow \/ CloseLink \/ WriteReturns
  \/ \E who \in Writers \ {"none"} : BeginWrite(who)

(* A line is taken sooner or later, unless the terminal does not read.     *)
FairReturn == WriteReturns /\ link # "stuck"

LinkSafety == LinkInit /\ [][LinkNext]_linkVars
LinkSpec   == LinkSafety /\ WF_linkVars(FairReturn)
=============================================================================
