------------------------------ MODULE Terminal -------------------------------
(***************************************************************************)
(* dap/terminal.go: the adapter's end of a terminal.  A goroutine accepts  *)
(* one connection and passes on what is written (the acceptor); a second   *)
(* one passes on the lines that are typed (the scanner).  The handler and  *)
(* the VM use them through the channels Output, Input and Done.  At the    *)
(* other end is `gaddis terminal`, cmd/gaddis/terminal.go (the peer), which *)
(* may be killed, and may stop reading.                                    *)
(*                                                                         *)
(* Lines are numbered, in each direction; 0 is a line that is longer than  *)
(* a bufio.Scanner takes.                                                  *)
(***************************************************************************)
EXTENDS Naturals, Sequences

CONSTANTS
  MaxOut, MaxIn,  (* bounds: the lines written, and those typed            *)
  Buffer          (* the lines that a connection holds, in a direction     *)

ASSUME TerminalAssumption == MaxOut \in Nat /\ MaxIn \in Nat /\ Buffer \in Nat \ {0}

VARIABLES
  listening, closing, done,  (* Listener; Close() has begun, has ended     *)
  acceptor, scanner,         (* the goroutines: where they are             *)
  line,                      (* what they have in their hands: [out, in]   *)
  inWrite, out,               (* who is in Write(), with line number out    *)
  reading,                   (* the VM waits for Input                     *)
  fin,                       (* who has closed its direction: [adapter, peer] *)
  toPeer, toAdapter,         (* what is under way                          *)
  peer,                      (* "none", "dialed", "open", "gone"           *)
  stalled,                   (* the peer does not read (nor anything else) *)
  typed,                     (* the lines it has sent                      *)
  taken, shown, read, cut    (* history: the last line taken before Done,  *)
                             (* the lines the peer has shown, those the VM *)
                             (* has read; what has cut the connection short*)

adapterVars == <<listening, closing, done, acceptor, scanner, line>>
userVars    == <<inWrite, out, reading, taken, read>>
peerVars    == <<peer, stalled, typed, shown>>
connVars    == <<fin, toPeer, toAdapter, cut>>
vars        == <<adapterVars, userVars, peerVars, connVars>>

Init ==
  /\ listening = FALSE /\ closing = FALSE /\ done = FALSE
  /\ acceptor = "none" /\ scanner = "none" /\ line = [out |-> 0, in |-> 0]
  /\ inWrite = "none" /\ out = 0 /\ reading = FALSE
  /\ fin = [adapter |-> FALSE, peer |-> FALSE] /\ toPeer = <<>> /\ toAdapter = <<>>
  /\ peer = "none" /\ stalled = FALSE /\ typed = 0
  /\ taken = 0 /\ shown = <<>> /\ read = <<>> /\ cut = {}

-----------------------------------------------------------------------------
(* The handler and the VM.                                                 *)
StartTerminal ==
  /\ acceptor = "none"
  /\ acceptor' = "accept" /\ listening' = TRUE
  /\ UNCHANGED <<closing, done, scanner, line, userVars, peerVars, connVars>>

(* Write(): into its select ...                                            *)
Write(who) ==
  /\ acceptor # "none" /\ inWrite = "none" /\ out < MaxOut
  /\ who = "handler" => ~closing
  /\ inWrite' = who /\ out' = out + 1
  /\ UNCHANGED <<adapterVars, reading, taken, read, peerVars, connVars>>

(* ... and out of it: see also TakeOutput.                                 *)
(* Mutant: it does not watch Done.                                         *)
Unwatched  == FALSE
DoneClosed == done
WriteGivesUp ==
  /\ inWrite # "none" /\ DoneClosed
  /\ inWrite' = "none"
  /\ UNCHANGED <<adapterVars, out, reading, taken, read, peerVars, connVars>>

(* Close(): the listener, which resets a connection it has not accepted,   *)
(* and then Done.                                                          *)
CloseListener ==
  /\ acceptor # "none" /\ inWrite # "handler" /\ ~closing
  /\ closing' = TRUE /\ listening' = FALSE
  /\ IF peer = "dialed"
       THEN peer' = "gone" /\ fin' = [fin EXCEPT !.peer = TRUE] /\ toAdapter' = <<>>
       ELSE UNCHANGED <<peer, fin, toAdapter>>
  /\ UNCHANGED <<done, acceptor, scanner, line, userVars, stalled, typed, shown, toPeer, cut>>

CloseDone ==
  /\ closing /\ ~done
  /\ done' = TRUE
  /\ UNCHANGED <<listening, closing, acceptor, scanner, line, userVars, peerVars, connVars>>

(* inputAdapter() waits for Input, and may have to do with something else. *)
Read ==
  /\ acceptor # "none" /\ ~(reading /\ scanner = "ended")
  /\ reading' = ~reading
  /\ UNCHANGED <<adapterVars, inWrite, out, taken, read, peerVars, connVars>>

-----------------------------------------------------------------------------
(* The acceptor.  It accepts one connection.                               *)
(* Mutant: and leaves the listener open.                                   *)
KeepListening == UNCHANGED listening
StopListening == listening' = FALSE
Accept ==
  /\ acceptor = "accept" /\ peer = "dialed"
  /\ StopListening
  /\ acceptor' = "loop" /\ scanner' = "scan" /\ peer' = "open"
  /\ UNCHANGED <<closing, done, line, userVars, stalled, typed, shown, connVars>>

AcceptFails ==
  /\ acceptor = "accept" /\ ~listening
  /\ acceptor' = "ended"
  /\ UNCHANGED <<listening, closing, done, scanner, line, userVars, peerVars, connVars>>

TakeOutput ==
  /\ acceptor = "loop" /\ inWrite # "none"
  /\ acceptor' = "write" /\ line' = [line EXCEPT !.out = out]
  /\ inWrite' = "none" /\ taken' = IF done THEN taken ELSE out
  /\ UNCHANGED <<listening, closing, done, scanner, out, reading, read, peerVars, connVars>>

(* conn.Write() waits for room.  Its errors are ignored.                   *)
(* Mutant: it does not wait.                                               *)
SendOrDrop(n) == toPeer' = IF Len(toPeer) < Buffer THEN Append(toPeer, n) ELSE toPeer
SendLine(n)   == Len(toPeer) < Buffer /\ toPeer' = Append(toPeer, n)
ConnWrite ==
  /\ acceptor = "write"
  /\ IF peer = "gone" \/ fin.adapter THEN UNCHANGED toPeer ELSE SendLine(line.out)
  /\ acceptor' = "loop" /\ line' = [line EXCEPT !.out = 0]
  /\ UNCHANGED <<listening, closing, done, scanner, userVars, peerVars, fin, toAdapter, cut>>

(* Mutant: it does not tell the peer.                                      *)
NoCloseWrite == UNCHANGED fin
CloseWrite   == fin' = [fin EXCEPT !.adapter = TRUE]

AcceptorDone ==
  /\ acceptor = "loop" /\ done
  /\ CloseWrite
  /\ acceptor' = "join"
  /\ UNCHANGED <<listening, closing, done, scanner, line, userVars, peerVars,
                 toPeer, toAdapter, cut>>

Join ==
  /\ acceptor = "join" /\ scanner = "ended"
  /\ acceptor' = "ended"
  /\ UNCHANGED <<listening, closing, done, scanner, line, userVars, peerVars, connVars>>

(* The scanner.  When it ends it closes Input.                             *)
ScanLine ==
  /\ scanner = "scan" /\ toAdapter # <<>>
  /\ toAdapter' = Tail(toAdapter)
  /\ IF Head(toAdapter) = 0
       THEN scanner' = "ended" /\ cut' = cut \cup {"overlong"} /\ UNCHANGED line
       ELSE scanner' = "offer" /\ line' = [line EXCEPT !.in = Head(toAdapter)] /\ UNCHANGED cut
  /\ UNCHANGED <<listening, closing, done, acceptor, userVars, peerVars, fin, toPeer>>

(* Mutant: the lines that have arrived are not waited for.                 *)
PeerFin      == fin.peer
NothingLeft  == toAdapter = <<>> /\ fin.peer
ScanEnds ==
  /\ scanner = "scan" /\ NothingLeft
  /\ scanner' = "ended"
  /\ UNCHANGED <<listening, closing, done, acceptor, line, userVars, peerVars, connVars>>

GiveInput ==
  /\ scanner = "offer" /\ reading
  /\ scanner' = "scan" /\ line' = [line EXCEPT !.in = 0]
  /\ reading' = FALSE /\ read' = Append(read, line.in)
  /\ UNCHANGED <<listening, closing, done, acceptor, inWrite, out, taken, peerVars, connVars>>

ScannerDone ==
  /\ scanner = "offer" /\ done
  /\ CloseWrite
  /\ scanner' = "drain"
  /\ UNCHANGED <<listening, closing, done, acceptor, line, userVars, peerVars,
                 toPeer, toAdapter, cut>>

(* It reads until the peer is at its end or five seconds have passed, and  *)
(* closes the connection; in the second case what is under way may be lost.*)
DrainEnds ==
  /\ scanner = "drain"
  /\ scanner' = "ended" /\ toAdapter' = <<>>
  /\ \/ fin.peer /\ UNCHANGED <<toPeer, cut>>
     \/ ~fin.peer /\ toPeer' \in {toPeer, <<>>} /\ cut' = cut \cup {"deadline"}
  /\ UNCHANGED <<listening, closing, done, acceptor, line, userVars, peerVars, fin>>

-----------------------------------------------------------------------------
(* The peer.                                                               *)
Dial ==
  /\ peer = "none" /\ listening
  /\ peer' = "dialed"
  /\ UNCHANGED <<adapterVars, userVars, stalled, typed, shown, connVars>>

PeerRuns == peer \in {"dialed", "open"} /\ ~stalled

Type ==
  /\ PeerRuns /\ ~fin.peer
  /\ typed < MaxIn /\ Len(toAdapter) < Buffer
  /\ \E n \in {0, typed + 1} : toAdapter' = Append(toAdapter, n)
  /\ typed' = typed + 1
  /\ UNCHANGED <<adapterVars, userVars, peer, stalled, shown, fin, toPeer, cut>>

StdinEof ==
  /\ PeerRuns /\ ~fin.peer
  /\ fin' = [fin EXCEPT !.peer = TRUE]
  /\ UNCHANGED <<adapterVars, userVars, peerVars, toPeer, toAdapter, cut>>

Show ==
  /\ PeerRuns /\ toPeer # <<>>
  /\ toPeer' = Tail(toPeer) /\ shown' = Append(shown, Head(toPeer))
  /\ UNCHANGED <<adapterVars, userVars, peer, stalled, typed, fin, toAdapter, cut>>

(* At the end of what it reads it returns and closes the connection.       *)
Leave ==
  /\ PeerRuns /\ toPeer = <<>> /\ fin.adapter
  /\ peer' = "gone" /\ fin' = [fin EXCEPT !.peer = TRUE]
  /\ UNCHANGED <<adapterVars, userVars, stalled, typed, shown, toPeer, toAdapter, cut>>

Kill ==
  /\ peer \in {"dialed", "open"}
  /\ peer' = "gone" /\ fin' = [fin EXCEPT !.peer = TRUE]
  /\ stalled' = FALSE /\ cut' = cut \cup {"killed"}
  /\ toPeer' = <<>> /\ toAdapter' \in {toAdapter, <<>>}
  /\ UNCHANGED <<adapterVars, userVars, typed, shown>>

Stall ==
  /\ peer \in {"dialed", "open"}
  /\ stalled' = ~stalled
  /\ UNCHANGED <<adapterVars, userVars, peer, typed, shown, connVars>>

-----------------------------------------------------------------------------
Acceptor == Accept \/ AcceptFails \/ TakeOutput \/ ConnWrite \/ AcceptorDone \/ Join
Scanner  == ScanLine \/ ScanEnds \/ GiveInput \/ ScannerDone \/ DrainEnds
User     == StartTerminal \/ CloseListener \/ CloseDone \/ Read \/ WriteGivesUp
              \/ \E who \in {"handler", "vm"} : Write(who)
Peer     == Dial \/ Type \/ StdinEof \/ Show \/ Leave \/ Kill \/ Stall

Next == User \/ Acceptor \/ Scanner \/ Peer
Spec == Init /\ [][Next]_vars

(* The goroutines run, Close() ends, and a peer that is not stalled reads. *)
FairSpec ==
  /\ Spec
  /\ WF_vars(Acceptor) /\ WF_vars(Scanner)
  /\ WF_vars(WriteGivesUp) /\ WF_vars(CloseDone)
  /\ WF_vars(Show \/ Leave)

-----------------------------------------------------------------------------
(* The types of the variables; and a listener that has its connection is   *)
(* closed.                                                                 *)
TerminalTypeOK ==
  /\ scanner # "none" => ~listening
  /\ listening \in BOOLEAN /\ closing \in BOOLEAN /\ done \in BOOLEAN
  /\ reading \in BOOLEAN /\ stalled \in BOOLEAN
  /\ acceptor \in {"none", "accept", "loop", "write", "join", "ended"}
  /\ scanner \in {"none", "scan", "offer", "drain", "ended"}
  /\ line \in [out : 0..MaxOut, in : 0..MaxIn]
  /\ inWrite \in {"none", "handler", "vm"} /\ out \in 0..MaxOut /\ taken \in 0..out
  /\ fin \in [adapter : BOOLEAN, peer : BOOLEAN]
  /\ toPeer \in Seq(1..MaxOut) /\ Len(toPeer) <= Buffer
  /\ toAdapter \in Seq(0..MaxIn) /\ Len(toAdapter) <= Buffer
  /\ peer \in {"none", "dialed", "open", "gone"}
  /\ shown \in Seq(1..MaxOut) /\ read \in Seq(1..MaxIn)
  /\ typed \in 0..MaxIn /\ cut \subseteq {"killed", "overlong", "deadline"}

UpTo(n) == [i \in 1..n |-> i]
InHand(n) == IF n = 0 THEN <<>> ELSE <<n>>

(* The lines that are on their way to the peer, or there; nothing has cut  *)
(* it off from them.                                                       *)
arrived   == shown \o toPeer
PeerReads == cut \cap {"killed", "deadline"} = {}

(* What is written is shown in its order.  Nothing is lost while the peer  *)
(* lives and the terminal is open; and when it is closed (and the peer not *)
(* cut off) no more than the line the acceptor has in its hand: the scanner*)
(* may have closed the connection for writing before it.                   *)
OutputInOrder ==
  /\ \A i \in 1..(Len(arrived) - 1) : arrived[i] < arrived[i + 1]
  /\ PeerReads =>
       /\ ~done => arrived \o InHand(line.out) = UpTo(taken)
       /\ \A n \in 1..(taken - 1) : Len(arrived) >= n /\ arrived[n] = n

(* What is typed is read in its order, none left out; and Input is closed  *)
(* only when all was read, if the peer was not cut off and the terminal    *)
(* open.                                                                   *)
InputInOrder ==
  /\ read = UpTo(Len(read))
  /\ scanner = "ended" /\ cut = {} /\ ~done => Len(read) = typed

(* Both directions.                                                        *)
LinesInOrder == OutputInOrder /\ InputInOrder

(* Why they are in order.  Where the goroutines, the peer and Close() are,  *)
(* seen from each other: who has a connection, and what it was closed for. *)
StageInv ==
  /\ acceptor = "none" => scanner = "none" /\ ~closing
  /\ done => closing
  /\ closing => inWrite # "handler"
  /\ acceptor \in {"none", "accept"} => scanner = "none"
  /\ scanner \in {"scan", "offer", "drain"} => acceptor \in {"loop", "write", "join"}
  /\ acceptor \in {"loop", "write", "join"} => scanner # "none"
  /\ scanner # "none" => peer \in {"open", "gone"}
  /\ acceptor = "join" \/ scanner = "drain" => done
  /\ fin.adapter => done /\ scanner # "none"
  /\ peer = "gone" /\ scanner # "none" => "killed" \in cut \/ fin.adapter
  /\ peer = "gone" => fin.peer
  /\ "killed" \in cut => peer = "gone"
  /\ "overlong" \in cut => scanner = "ended"
  /\ "deadline" \in cut => done /\ scanner = "ended"

(* What is in whose hands; numbers are given out one by one, and every     *)
(* line but the one in Write() was taken, as long as the terminal is open. *)
HandsInv ==
  /\ acceptor = "write" <=> line.out # 0
  /\ scanner = "offer" => line.in # 0
  /\ line.in # 0 => scanner = "offer" \/ (scanner \in {"drain", "ended"} /\ done)
  /\ inWrite # "none" => out > 0
  /\ ~done => out = taken + (IF inWrite = "none" THEN 0 ELSE 1)

(* The lines are ahead of one another in the order they were written in:   *)
(* at the peer, in the acceptor's hand, in Write().                        *)
OrderInv ==
  /\ \A i, j \in 1..Len(arrived) : i < j => arrived[i] < arrived[j]
  /\ \A i \in 1..Len(arrived) :
       /\ arrived[i] <= out
       /\ line.out # 0 => arrived[i] < line.out
       /\ inWrite # "none" => arrived[i] < out
  /\ line.out <= out
  /\ inWrite # "none" => line.out < out

(* And none is missing.                                                    *)
LossInv ==
  PeerReads =>
    /\ ~done => /\ line.out \in {0, taken}
                /\ taken = Len(arrived) + (IF line.out = 0 THEN 0 ELSE 1)
    /\ taken <= Len(arrived) + 1
    /\ \A n \in 1..Len(arrived) : n < taken \/ ~done => arrived[n] = n

(* The lines on their way to the VM follow those it has read and the one   *)
(* in the scanner's hand, an overlong one in its place among them.         *)
Ahead == Len(read) + (IF line.in = 0 THEN 0 ELSE 1)
InputInv ==
  /\ \A i \in 1..Len(read) : read[i] = i
  /\ line.in \in {0, Len(read) + 1}
  /\ scanner # "ended" =>
       /\ \A i \in 1..Len(toAdapter) : toAdapter[i] \in {0, Ahead + i}
       /\ peer # "gone" => typed = Ahead + Len(toAdapter)
  /\ cut = {} /\ ~done /\ scanner # "none" => typed = Ahead + Len(toAdapter)
  /\ cut = {} /\ ~done /\ scanner = "ended" => fin.peer /\ toAdapter = <<>>

TerminalInv == TerminalTypeOK /\ StageInv /\ HandsInv /\ OrderInv /\ LossInv /\ InputInv

(* It implements TerminalLink: Write() blocks while nobody takes the line, *)
(* and no longer than that.                                                *)
link ==
  CASE acceptor = "none"                                               -> "none"
    [] acceptor # "none" /\ done                                       -> "closed"
    [] acceptor \in {"accept", "ended"} /\ ~done                       -> "waiting"
    [] acceptor \notin {"none", "accept", "ended"} /\ ~done /\ stalled -> "stuck"
    [] OTHER                                                           -> "flowing"

Link == INSTANCE TerminalLink
ImplementsLink == Link!LinkSpec

(* After Close() both goroutines end, and the connection with them, if the *)
(* peer reads: only then does a scanner that waits for a line find its end.*)
CloseEnds ==
  done ~> stalled \/ (acceptor = "ended" /\ scanner \in {"none", "ended"} /\ peer # "open")
=============================================================================
