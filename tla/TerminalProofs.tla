--------------------------- MODULE TerminalProofs ---------------------------
(***************************************************************************)
(* For every number of lines, in both directions, and every size of the    *)
(* connection: a dap.Terminal loses none of them and changes their order   *)
(* nowhere, and Write() blocks only where TerminalLink lets it.            *)
(*                                                                         *)
(* Both follow from the inductive TerminalInv.  Of its parts, OrderInv     *)
(* puts the line in Write(), the one in the acceptor's hand and those on   *)
(* the connection in one order; LossInv needs StageInv to know that a      *)
(* connection is half closed only after Done, and that a peer is gone only *)
(* after that or because it was killed; InputInv needs HandsInv to know    *)
(* that the scanner reads on only with an empty hand.                      *)
(***************************************************************************)
EXTENDS Terminal, TLAPS, SequenceTheorems

(* The first of a sequence put at the end of the one before it ...         *)
LEMMA ShiftOver ==
  ASSUME NEW S, NEW s \in Seq(S), NEW t \in Seq(S), t # <<>>
  PROVE  Append(s, Head(t)) \o Tail(t) = s \o t
<1>1. /\ Head(t) \in S /\ Tail(t) \in Seq(S) /\ Len(Tail(t)) = Len(t) - 1 /\ Head(t) = t[1]
      /\ \A i \in 1..Len(Tail(t)) : Tail(t)[i] = t[i + 1]
  BY HeadTailProperties
<1>2. /\ <<Head(t)>> \in Seq(S) /\ Len(<<Head(t)>>) = 1 /\ <<Head(t)>>[1] = t[1]
  BY <1>1
<1>3. t = <<Head(t)>> \o Tail(t)
  <2> DEFINE h == <<Head(t)>>
             r == Tail(t)
             u == h \o r
  <2>1. Len(t) \in Nat /\ Len(r) = Len(t) - 1 /\ Len(h) = 1 /\ h[1] = t[1]
    BY <1>1, <1>2, LenProperties
  <2>2. /\ u \in Seq(S) /\ Len(u) = Len(h) + Len(r)
        /\ \A i \in 1..(Len(h) + Len(r)) : u[i] = IF i <= Len(h) THEN h[i] ELSE r[i - Len(h)]
    BY <1>1, <1>2, ConcatProperties
  <2>3. \A i \in 1..Len(r) : r[i] = t[i + 1]
    BY <1>1
  <2> HIDE DEF h, r, u
  <2>4. Len(u) = Len(t)
    BY <2>1, <2>2
  <2>5. ASSUME NEW i \in 1..Len(t) PROVE t[i] = u[i]
    <3>1. CASE i = 1
      BY <2>1, <2>2, <2>4, <3>1
    <3>2. CASE i # 1
      <4>1. i - 1 \in 1..Len(r) /\ ~(i <= 1) /\ (i - 1) + 1 = i
        BY <2>1, <3>2
      <4>2. u[i] = r[i - 1]
        BY <2>1, <2>2, <2>4, <4>1
      <4>3. r[i - 1] = t[(i - 1) + 1]
        BY <2>3, <4>1
      <4> QED BY <4>1, <4>2, <4>3
    <3> QED BY <3>1, <3>2
  <2>6. t = u
    BY <2>2, <2>4, <2>5, SeqEqual
  <2> QED BY <2>6 DEF u, h, r
<1>4. (s \o <<Head(t)>>) \o Tail(t) = s \o (<<Head(t)>> \o Tail(t))
  BY <1>1, <1>2, ConcatAssociative
<1>5. Append(s, Head(t)) = s \o <<Head(t)>>
  BY <1>1, AppendIsConcat
<1> QED BY <1>3, <1>4, <1>5

(* ... and one more put at the end of both.                                *)
LEMMA AppendOver ==
  ASSUME NEW S, NEW s \in Seq(S), NEW t \in Seq(S), NEW e \in S
  PROVE  s \o Append(t, e) = Append(s \o t, e)
<1>1. s \o t \in Seq(S)
  BY ConcatProperties
<1>2. Append(t, e) = t \o <<e>> /\ Append(s \o t, e) = (s \o t) \o <<e>>
  BY <1>1, AppendIsConcat
<1>3. <<e>> \in Seq(S)
  OBVIOUS
<1>4. (s \o t) \o <<e>> = s \o (t \o <<e>>)
  BY <1>3, ConcatAssociative
<1> QED BY <1>2, <1>4

(* The lines in the goroutines' hands, one of them replaced.               *)
LEMMA Lines ==
  ASSUME TerminalTypeOK
  PROVE  /\ \A n \in 0..MaxOut : [line EXCEPT !.out = n] \in [out : 0..MaxOut, in : 0..MaxIn]
         /\ \A n \in 0..MaxIn  : [line EXCEPT !.in = n]  \in [out : 0..MaxOut, in : 0..MaxIn]
         /\ line.out \in 0..MaxOut /\ line.in \in 0..MaxIn
BY DEF TerminalTypeOK

(* The connection, with one direction more closed.                         *)
LEMMA Ends ==
  ASSUME TerminalTypeOK
  PROVE  /\ [fin EXCEPT !.adapter = TRUE] \in [adapter : BOOLEAN, peer : BOOLEAN]
         /\ [fin EXCEPT !.peer = TRUE] \in [adapter : BOOLEAN, peer : BOOLEAN]
BY DEF TerminalTypeOK

(* What is under way, emptied, with one line more or one less.             *)
LEMMA Queues ==
  ASSUME TerminalTypeOK
  PROVE  /\ <<>> \in Seq(0..MaxIn) /\ <<>> \in Seq(1..MaxOut) /\ Len(<<>>) <= Buffer
         /\ Len(toPeer) < Buffer => \A n \in 1..MaxOut :
              Append(toPeer, n) \in Seq(1..MaxOut) /\ Len(Append(toPeer, n)) <= Buffer
         /\ Len(toAdapter) < Buffer => \A n \in 0..MaxIn :
              Append(toAdapter, n) \in Seq(0..MaxIn) /\ Len(Append(toAdapter, n)) <= Buffer
         /\ toPeer # <<>> =>
              /\ Head(toPeer) \in 1..MaxOut 
              /\ Tail(toPeer) \in Seq(1..MaxOut) /\ Len(Tail(toPeer)) <= Buffer
         /\ toAdapter # <<>> =>
              /\ Head(toAdapter) \in 0..MaxIn
              /\ Tail(toAdapter) \in Seq(0..MaxIn) /\ Len(Tail(toAdapter)) <= Buffer
<1>1. /\ <<>> \in Seq(0..MaxIn) /\ <<>> \in Seq(1..MaxOut) /\ Len(<<>>) <= Buffer
  BY EmptySeq, TerminalAssumption
<1>2. toPeer \in Seq(1..MaxOut) /\ Len(toPeer) <= Buffer
  BY DEF TerminalTypeOK
<1>3. toAdapter \in Seq(0..MaxIn) /\ Len(toAdapter) <= Buffer
  BY DEF TerminalTypeOK
<1>4. Buffer \in Nat
  BY TerminalAssumption
<1>5. Len(toPeer) < Buffer => \A n \in 1..MaxOut :
        Append(toPeer, n) \in Seq(1..MaxOut) /\ Len(Append(toPeer, n)) <= Buffer
  BY <1>2, <1>4, AppendProperties, LenProperties
<1>6. Len(toAdapter) < Buffer => \A n \in 0..MaxIn :
        Append(toAdapter, n) \in Seq(0..MaxIn) /\ Len(Append(toAdapter, n)) <= Buffer
  BY <1>3, <1>4, AppendProperties, LenProperties
<1>7. toPeer # <<>> =>
              /\ Head(toPeer) \in 1..MaxOut 
              /\ Tail(toPeer) \in Seq(1..MaxOut) /\ Len(Tail(toPeer)) <= Buffer
  <2>1. Len(toPeer) \in Nat
    BY <1>2, LenProperties
  <2>2. toPeer # <<>> => /\ Head(toPeer) \in 1..MaxOut
                         /\ Tail(toPeer) \in Seq(1..MaxOut) /\ Len(Tail(toPeer)) = Len(toPeer) - 1
    BY <1>2, HeadTailProperties
  <2> QED BY <1>2, <1>4, <2>1, <2>2
<1>8. toAdapter # <<>> =>
              /\ Head(toAdapter) \in 0..MaxIn
              /\ Tail(toAdapter) \in Seq(0..MaxIn) /\ Len(Tail(toAdapter)) <= Buffer
  <2>1. Len(toAdapter) \in Nat
    BY <1>3, LenProperties
  <2>2. toAdapter # <<>> => /\ Head(toAdapter) \in 0..MaxIn
                            /\ Tail(toAdapter) \in Seq(0..MaxIn)
                            /\ Len(Tail(toAdapter)) = Len(toAdapter) - 1
    BY <1>3, HeadTailProperties
  <2> QED BY <1>3, <1>4, <2>1, <2>2
<1> QED BY <1>1, <1>5, <1>6, <1>7, <1>8

(* How a step changes what holds lines, and what is closed.                *)
LEMMA Moves ==
  ASSUME [Next]_vars
  PROVE  /\ \/ line' = line
            \/ line' = [line EXCEPT !.out = 0] \/ line' = [line EXCEPT !.in = 0]
            \/ line' = [line EXCEPT !.out = out]
            \/ toAdapter # <<>> /\ line' = [line EXCEPT !.in = Head(toAdapter)]
         /\ \/ toPeer' \in {toPeer, <<>>}
            \/ toPeer # <<>> /\ toPeer' = Tail(toPeer)
            \/ acceptor = "write" /\ Len(toPeer) < Buffer /\ toPeer' = Append(toPeer, line.out)
         /\ \/ toAdapter' \in {toAdapter, <<>>}
            \/ toAdapter # <<>> /\ toAdapter' = Tail(toAdapter)
            \/ /\ typed < MaxIn /\ Len(toAdapter) < Buffer
               /\ \E n \in {0, typed + 1} : toAdapter' = Append(toAdapter, n)
         /\ \/ fin' = fin
            \/ fin' = [fin EXCEPT !.adapter = TRUE]
            \/ fin' = [fin EXCEPT !.peer = TRUE]
         /\ shown' = shown \/ (toPeer # <<>> /\ shown' = Append(shown, Head(toPeer)))
         /\ read' = read \/ (scanner = "offer" /\ read' = Append(read, line.in))
<1> USE DEF adapterVars, userVars, peerVars, connVars
<1>1. CASE User
  BY <1>1 DEF User, StartTerminal, Write, WriteGivesUp, CloseListener, CloseDone, Read
<1>2. CASE Acceptor
  BY <1>2 DEF Acceptor, Accept, AcceptFails, TakeOutput, ConnWrite, SendLine, AcceptorDone, CloseWrite, Join
<1>3. CASE Scanner
  BY <1>3 DEF Scanner, ScanLine, ScanEnds, GiveInput, ScannerDone, CloseWrite, DrainEnds
<1>4. CASE Peer
  BY <1>4 DEF Peer, Dial, Type, StdinEof, Show, Leave, Kill, Stall
<1>5. CASE UNCHANGED vars
  BY <1>5 DEF vars
<1> QED BY <1>1, <1>2, <1>3, <1>4, <1>5 DEF Next

(* A step keeps the types; each part of the state is changed by few.       *)
LEMMA TypeStep ==
  ASSUME TerminalTypeOK, StageInv, HandsInv, [Next]_vars
  PROVE  TerminalTypeOK'
<1>0. out \in 0..MaxOut /\ typed \in 0..MaxIn /\ MaxIn \in Nat
  BY TerminalAssumption DEF TerminalTypeOK
<1>1. line' \in [out : 0..MaxOut, in : 0..MaxIn]
  <2>1. line \in [out : 0..MaxOut, in : 0..MaxIn] /\ 0 \in 0..MaxOut /\ 0 \in 0..MaxIn
    BY TerminalAssumption DEF TerminalTypeOK
  <2> QED BY <1>0, <2>1, Moves, Lines, Queues
<1>2. toPeer' \in Seq(1..MaxOut) /\ Len(toPeer') <= Buffer
  <2>1. acceptor = "write" => line.out \in 1..MaxOut
    BY Lines DEF HandsInv
  <2>2. toPeer \in Seq(1..MaxOut) /\ Len(toPeer) <= Buffer
    BY DEF TerminalTypeOK
  <2> QED BY <2>1, <2>2, Moves, Queues
<1>3. toAdapter' \in Seq(0..MaxIn) /\ Len(toAdapter') <= Buffer
  <2>1. toAdapter \in Seq(0..MaxIn) /\ Len(toAdapter) <= Buffer
    BY DEF TerminalTypeOK
  <2>2. typed < MaxIn => 0 \in 0..MaxIn /\ typed + 1 \in 0..MaxIn
    BY <1>0
  <2> QED BY <2>1, <2>2, Moves, Queues
<1>4. fin' \in [adapter : BOOLEAN, peer : BOOLEAN]
  <2>1. fin \in [adapter : BOOLEAN, peer : BOOLEAN]
    BY DEF TerminalTypeOK
  <2> QED BY <2>1, Moves, Ends
<1>5. listening' \in BOOLEAN /\ closing' \in BOOLEAN /\ done' \in BOOLEAN
      /\ reading' \in BOOLEAN /\ stalled' \in BOOLEAN
  <2>1. /\ listening \in BOOLEAN /\ closing \in BOOLEAN /\ done \in BOOLEAN
        /\ reading \in BOOLEAN /\ stalled \in BOOLEAN
    BY DEF TerminalTypeOK
  <2> USE <2>1 DEF adapterVars, userVars, peerVars, connVars
  <2>3. CASE User
    BY <2>3 DEF User, StartTerminal, Write, WriteGivesUp, CloseListener, CloseDone, Read
  <2>4. CASE Acceptor
    BY <2>4
    DEF  Acceptor, Accept, StopListening, AcceptFails, TakeOutput, ConnWrite, AcceptorDone, Join
  <2>5. CASE Scanner
    BY <2>5 DEF Scanner, ScanLine, ScanEnds, GiveInput, ScannerDone, DrainEnds
  <2>6. CASE Peer
    BY <2>6 DEF Peer, Dial, Type, StdinEof, Show, Leave, Kill, Stall
  <2>7. CASE UNCHANGED vars
    BY <2>7 DEF vars
  <2> QED BY <2>3, <2>4, <2>5, <2>6, <2>7 DEF Next
<1>6. /\ acceptor' \in {"none", "accept", "loop", "write", "join", "ended"}
      /\ scanner' \in {"none", "scan", "offer", "drain", "ended"}
      /\ peer' \in {"none", "dialed", "open", "gone"}
  <2>1. /\ acceptor \in {"none", "accept", "loop", "write", "join", "ended"}
        /\ scanner \in {"none", "scan", "offer", "drain", "ended"}
        /\ peer \in {"none", "dialed", "open", "gone"}
    BY DEF TerminalTypeOK
  <2> USE <2>1 DEF adapterVars, userVars, peerVars, connVars
  <2>3. CASE User
    BY <2>3 DEF User, StartTerminal, Write, WriteGivesUp, CloseListener, CloseDone, Read
  <2>4. CASE Acceptor
    BY <2>4
    DEF  Acceptor, Accept, StopListening, AcceptFails, TakeOutput, ConnWrite, AcceptorDone, Join
  <2>5. CASE Scanner
    BY <2>5 DEF Scanner, ScanLine, ScanEnds, GiveInput, ScannerDone, DrainEnds
  <2>6. CASE Peer
    BY <2>6 DEF Peer, Dial, Type, StdinEof, Show, Leave, Kill, Stall
  <2>7. CASE UNCHANGED vars
    BY <2>7 DEF vars
  <2> QED BY <2>3, <2>4, <2>5, <2>6, <2>7 DEF Next
<1>7. cut' \subseteq {"killed", "overlong", "deadline"}
  <2>1. cut \subseteq {"killed", "overlong", "deadline"}
    BY DEF TerminalTypeOK
  <2> USE <2>1 DEF adapterVars, userVars, peerVars, connVars
  <2>3. CASE User
    BY <2>3 DEF User, StartTerminal, Write, WriteGivesUp, CloseListener, CloseDone, Read
  <2>4. CASE Acceptor
    BY <2>4
    DEF  Acceptor, Accept, StopListening, AcceptFails, TakeOutput, ConnWrite, AcceptorDone, Join
  <2>5. CASE Scanner
    BY <2>5 DEF Scanner, ScanLine, ScanEnds, GiveInput, ScannerDone, DrainEnds
  <2>6. CASE Peer
    BY <2>6 DEF Peer, Dial, Type, StdinEof, Show, Leave, Kill, Stall
  <2>7. CASE UNCHANGED vars
    BY <2>7 DEF vars
  <2> QED BY <2>3, <2>4, <2>5, <2>6, <2>7 DEF Next
<1>8. scanner' # "none" => ~listening'
  <2>1. /\ scanner # "none" => ~listening
        /\ acceptor \in {"none", "accept"} => scanner = "none"
    BY DEF TerminalTypeOK, StageInv
  <2> USE <2>1 DEF adapterVars, userVars, peerVars, connVars
  <2>3. CASE User
    BY <2>3 DEF User, StartTerminal, Write, WriteGivesUp, CloseListener, CloseDone, Read
  <2>4. CASE Acceptor
    BY <2>4
    DEF  Acceptor, Accept, StopListening, AcceptFails, TakeOutput, ConnWrite, AcceptorDone, Join
  <2>5. CASE Scanner
    BY <2>5 DEF Scanner, ScanLine, ScanEnds, GiveInput, ScannerDone, DrainEnds
  <2>6. CASE Peer
    BY <2>6 DEF Peer, Dial, Type, StdinEof, Show, Leave, Kill, Stall
  <2>7. CASE UNCHANGED vars
    BY <2>7 DEF vars
  <2> QED BY <2>3, <2>4, <2>5, <2>6, <2>7 DEF Next
<1>9. (inWrite \in {"none", "handler", "vm"} /\ out \in 0..MaxOut /\ taken \in 0..out)'
      /\ typed' \in 0..MaxIn
  <2>1. /\ inWrite \in {"none", "handler", "vm"} /\ out \in 0..MaxOut /\ taken \in 0..out
        /\ typed \in 0..MaxIn /\ MaxIn \in Nat /\ MaxOut \in Nat
    BY TerminalAssumption DEF TerminalTypeOK
  <2> USE <2>1 DEF adapterVars, userVars, peerVars, connVars
  <2>3. CASE User
    BY <2>3 DEF User, StartTerminal, Write, WriteGivesUp, CloseListener, CloseDone, Read
  <2>4. CASE Acceptor
    BY <2>4
    DEF  Acceptor, Accept, StopListening, AcceptFails, TakeOutput, ConnWrite, AcceptorDone, Join
  <2>5. CASE Scanner
    BY <2>5 DEF Scanner, ScanLine, ScanEnds, GiveInput, ScannerDone, DrainEnds
  <2>6. CASE Peer
    BY <2>6 DEF Peer, Dial, Type, StdinEof, Show, Leave, Kill, Stall
  <2>7. CASE UNCHANGED vars
    BY <2>7 DEF vars
  <2> QED BY <2>3, <2>4, <2>5, <2>6, <2>7 DEF Next
<1>10. shown' \in Seq(1..MaxOut)
  <2>1. shown \in Seq(1..MaxOut)
    BY DEF TerminalTypeOK
  <2>2. \A n \in 1..MaxOut : Append(shown, n) \in Seq(1..MaxOut)
    BY <2>1, AppendProperties
  <2> QED BY <2>1, <2>2, Moves, Queues
<1>11. read' \in Seq(1..MaxIn)
  <2>1. read \in Seq(1..MaxIn)
    BY DEF TerminalTypeOK
  <2>2. \A n \in 1..MaxIn : Append(read, n) \in Seq(1..MaxIn)
    BY <2>1, AppendProperties
  <2>3. scanner = "offer" => line.in \in 1..MaxIn
    BY Lines DEF HandsInv
  <2> QED BY <2>1, <2>2, <2>3, Moves
<1> QED
  BY <1>1, <1>2, <1>3, <1>4, <1>5, <1>6, <1>7, <1>8, <1>9, <1>10, <1>11 DEF TerminalTypeOK

(* A step keeps the stages of the goroutines, the peer and Close() in line *)
(* with one another.                                                       *)
LEMMA StageStep ==
  ASSUME TerminalTypeOK, StageInv, [Next]_vars
  PROVE  StageInv'
<1>0. /\ acceptor \in {"none", "accept", "loop", "write", "join", "ended"}
      /\ scanner \in {"none", "scan", "offer", "drain", "ended"}
      /\ peer \in {"none", "dialed", "open", "gone"}
      /\ fin \in [adapter : BOOLEAN, peer : BOOLEAN]
  BY DEF TerminalTypeOK
<1> USE <1>0 DEF StageInv, adapterVars, userVars, peerVars, connVars
<1>1. CASE User
  BY <1>1
  DEF User, StartTerminal, Write, WriteGivesUp, DoneClosed, CloseListener, CloseDone, Read
<1>2. CASE Acceptor
  BY <1>2
  DEF Acceptor, Accept, StopListening, AcceptFails, TakeOutput, ConnWrite, SendLine,
      AcceptorDone, CloseWrite, Join
<1>3. CASE Scanner
  BY <1>3
  DEF Scanner, ScanLine, ScanEnds, NothingLeft, GiveInput, ScannerDone, CloseWrite, DrainEnds
<1>4. CASE Peer
  BY <1>4 DEF Peer, Dial, Type, StdinEof, Show, Leave, Kill, Stall, PeerRuns
<1>5. CASE UNCHANGED vars
  BY <1>5 DEF vars
<1> QED BY <1>1, <1>2, <1>3, <1>4, <1>5 DEF Next

(* A step takes a line out of a hand or puts one into it, never over one.  *)
LEMMA HandsStep ==
  ASSUME TerminalTypeOK, StageInv, HandsInv, [Next]_vars
  PROVE  HandsInv'
<1>0. /\ acceptor \in {"none", "accept", "loop", "write", "join", "ended"}
      /\ scanner \in {"none", "scan", "offer", "drain", "ended"}
      /\ line \in [out : 0..MaxOut, in : 0..MaxIn] /\ toAdapter \in Seq(0..MaxIn)
      /\ inWrite \in {"none", "handler", "vm"} /\ out \in 0..MaxOut /\ taken \in 0..out
  BY DEF TerminalTypeOK
<1> USE <1>0 DEF StageInv, HandsInv, adapterVars, userVars, peerVars, connVars
<1>1. CASE User
  BY <1>1
  DEF User, StartTerminal, Write, WriteGivesUp, DoneClosed, CloseListener, CloseDone, Read
<1>2. CASE Acceptor
  BY <1>2
  DEF Acceptor, Accept, StopListening, AcceptFails, TakeOutput, ConnWrite, SendLine,
      AcceptorDone, CloseWrite, Join
<1>3. CASE Scanner
  BY <1>3
  DEF Scanner, ScanLine, ScanEnds, NothingLeft, GiveInput, ScannerDone, CloseWrite, DrainEnds
<1>4. CASE Peer
  BY <1>4 DEF Peer, Dial, Type, StdinEof, Show, Leave, Kill, Stall, PeerRuns
<1>5. CASE UNCHANGED vars
  BY <1>5 DEF vars
<1> QED BY <1>1, <1>2, <1>3, <1>4, <1>5 DEF Next

(* What the peer has shown, with what is under way to it, grows at its end *)
(* and nowhere else; what is under way is lost when the peer is cut off.   *)
LEMMA ArrivedMoves ==
  ASSUME TerminalTypeOK, HandsInv, [Next]_vars
  PROVE  /\ arrived \in Seq(1..MaxOut) /\ Len(arrived) \in Nat
         /\ ConnWrite => arrived' \in {arrived, Append(arrived, line.out)}
         /\ Kill \/ DrainEnds =>
              \/ arrived' = arrived
              \/ ~PeerReads' /\ arrived' = shown
         /\ ~(ConnWrite \/ Kill \/ DrainEnds) => arrived' = arrived
<1>1. shown \in Seq(1..MaxOut) /\ toPeer \in Seq(1..MaxOut)
  BY DEF TerminalTypeOK
<1>2. arrived \in Seq(1..MaxOut)
  BY <1>1, ConcatProperties DEF arrived
<1>3. Len(arrived) \in Nat
  BY <1>2, LenProperties
<1>4. ASSUME ConnWrite PROVE arrived' \in {arrived, Append(arrived, line.out)}
  <2>1. shown' = shown /\ toPeer' \in {toPeer, Append(toPeer, line.out)}
    BY <1>4 DEF ConnWrite, SendLine, peerVars
  <2>2. line.out \in 1..MaxOut
    BY <1>4, Lines DEF ConnWrite, HandsInv
  <2>3. shown \o Append(toPeer, line.out) = Append(shown \o toPeer, line.out)
    BY <1>1, <2>2, AppendOver
  <2> QED BY <2>1, <2>3 DEF arrived
<1>5. ASSUME Kill \/ DrainEnds
      PROVE  arrived' = arrived \/ (~PeerReads' /\ arrived' = shown)
  <2>1. shown' = shown
    BY <1>5 DEF Kill, DrainEnds, peerVars
  <2>2. \/ toPeer' = toPeer
        \/ toPeer' = <<>> /\ cut' \cap {"killed", "deadline"} # {}
    BY <1>5 DEF Kill, DrainEnds
  <2>3. shown \o <<>> = shown
    BY <1>1, ConcatEmptySeq
  <2> QED BY <2>1, <2>2, <2>3 DEF arrived, PeerReads
<1>6. ASSUME ~(ConnWrite \/ Kill \/ DrainEnds) PROVE arrived' = arrived
  <2>1. CASE Show
    <3>1. shown' = Append(shown, Head(toPeer)) /\ toPeer' = Tail(toPeer) /\ toPeer # <<>>
      BY <2>1 DEF Show
    <3> QED BY <1>1, <3>1, ShiftOver DEF arrived
  <2>2. CASE ~Show
    <3>1. shown' = shown /\ toPeer' = toPeer
      BY <1>6, <2>2
      DEF Next, User, StartTerminal, Write, WriteGivesUp, CloseListener, CloseDone, Read,
          Acceptor, Accept, AcceptFails, TakeOutput, AcceptorDone, Join,
          Scanner, ScanLine, ScanEnds, GiveInput, ScannerDone,
          Peer, Dial, Type, StdinEof, Leave, Stall,
          vars, peerVars, connVars
    <3> QED BY <3>1 DEF arrived
  <2> QED BY <2>1, <2>2
<1> QED BY <1>2, <1>3, <1>4, <1>5, <1>6

(* The first lines of what has arrived.                                    *)
LEMMA ShownFirst ==
  ASSUME TerminalTypeOK
  PROVE  /\ Len(shown) \in Nat /\ Len(shown) <= Len(arrived)
         /\ \A i \in 1..Len(shown) : arrived[i] = shown[i]
<1>1. shown \in Seq(1..MaxOut) /\ toPeer \in Seq(1..MaxOut)
  BY DEF TerminalTypeOK
<1>2. Len(shown) \in Nat /\ Len(toPeer) \in Nat
  BY <1>1, LenProperties
<1>3. /\ Len(arrived) = Len(shown) + Len(toPeer)
      /\ \A i \in 1..(Len(shown) + Len(toPeer)) :
           arrived[i] = IF i <= Len(shown) THEN shown[i] ELSE toPeer[i - Len(shown)]
  BY <1>1, ConcatProperties DEF arrived
<1> QED BY <1>2, <1>3

(* A step keeps the lines to the peer in their order.                      *)
LEMMA OrderStep ==
  ASSUME TerminalTypeOK, HandsInv, OrderInv, [Next]_vars
  PROVE  OrderInv'
<1>1. /\ arrived \in Seq(1..MaxOut) /\ Len(arrived) \in Nat
      /\ \A i \in 1..Len(arrived) : arrived[i] \in 1..MaxOut
  BY ArrivedMoves, ElementOfSeq
<1>2. /\ line.out \in 0..MaxOut /\ out \in 0..MaxOut /\ MaxOut \in Nat
      /\ line \in [out : 0..MaxOut, in : 0..MaxIn]
  BY Lines, TerminalAssumption DEF TerminalTypeOK
<1>3. CASE ConnWrite
  <2>1. /\ line.out # 0 /\ line'.out = 0 /\ out' = out /\ inWrite' = inWrite
    BY <1>2, <1>3 DEF ConnWrite, HandsInv, userVars
  <2>2. CASE arrived' = arrived
    BY <1>1, <1>2, <2>1, <2>2 DEF OrderInv
  <2>3. CASE arrived' = Append(arrived, line.out)
    <3>1. /\ Len(arrived') = Len(arrived) + 1
          /\ \A i \in 1..Len(arrived) : arrived'[i] = arrived[i]
          /\ arrived'[Len(arrived) + 1] = line.out
      BY <1>1, <1>2, <2>1, <2>3, AppendProperties
    <3>2. ASSUME NEW i \in 1..Len(arrived') PROVE i \in 1..Len(arrived) \/ i = Len(arrived) + 1
      BY <1>1, <3>1
    <3>3. \A i \in 1..Len(arrived) : arrived[i] < line.out /\ arrived[i] <= out
      BY <2>1 DEF OrderInv
    <3>4. ASSUME NEW i \in 1..Len(arrived'), NEW j \in 1..Len(arrived'), i < j
          PROVE  arrived'[i] < arrived'[j]
      <4>1. i \in 1..Len(arrived)
        BY <1>1, <3>1, <3>4
      <4>2. CASE j \in 1..Len(arrived)
        BY <3>1, <3>4, <4>1, <4>2 DEF OrderInv
      <4>3. CASE j = Len(arrived) + 1
        BY <3>1, <3>3, <4>1, <4>3
      <4> QED BY <3>2, <4>2, <4>3
    <3>5. ASSUME NEW i \in 1..Len(arrived')
          PROVE  arrived'[i] <= out' /\ (inWrite' # "none" => arrived'[i] < out')
      BY <1>2, <2>1, <3>1, <3>2, <3>3 DEF OrderInv
    <3> QED BY <1>2, <2>1, <3>4, <3>5 DEF OrderInv
  <2> QED BY <1>3, <2>2, <2>3, ArrivedMoves
<1>4. CASE Kill \/ DrainEnds
  <2>1. line' = line /\ out' = out /\ inWrite' = inWrite
    BY <1>4 DEF Kill, DrainEnds, userVars, adapterVars
  <2>2. /\ Len(arrived') <= Len(arrived) /\ Len(arrived') \in Nat
        /\ \A i \in 1..Len(arrived') : arrived'[i] = arrived[i]
    BY <1>1, <1>4, ArrivedMoves, ShownFirst
  <2>3. \A i \in 1..Len(arrived') : i \in 1..Len(arrived)
    BY <1>1, <2>2
  <2>4. \A i, j \in 1..Len(arrived') : i < j => arrived'[i] < arrived'[j]
    BY <2>2, <2>3 DEF OrderInv
  <2>5. \A i \in 1..Len(arrived') : /\ arrived'[i] <= out'
                                    /\ line'.out # 0 => arrived'[i] < line'.out
                                    /\ inWrite' # "none" => arrived'[i] < out'
    BY <2>1, <2>2, <2>3 DEF OrderInv
  <2> QED BY <2>1, <2>4, <2>5 DEF OrderInv
<1>5. CASE ~(ConnWrite \/ Kill \/ DrainEnds)
  <2>1. arrived' = arrived
    BY <1>5, ArrivedMoves
  <2>2. CASE TakeOutput
    <3>1. inWrite # "none" /\ inWrite' = "none" /\ line'.out = out /\ out' = out
      BY <1>2, <2>2 DEF TakeOutput
    <3> QED BY <1>1, <1>2, <2>1, <3>1 DEF OrderInv
  <2>3. CASE \E who \in {"handler", "vm"} : Write(who)
    <3>1. inWrite = "none" /\ out' = out + 1 /\ line' = line
      BY <2>3 DEF Write, adapterVars
    <3> QED BY <1>1, <1>2, <2>1, <3>1 DEF OrderInv
  <2>4. CASE ~(TakeOutput \/ \E who \in {"handler", "vm"} : Write(who))
    <3>1. out' = out /\ line'.out = line.out /\ inWrite' \in {inWrite, "none"}
      BY <1>2, <1>5, <2>4
      DEF Next, User, StartTerminal, WriteGivesUp, CloseListener, CloseDone, Read,
          Acceptor, Accept, AcceptFails, AcceptorDone, Join,
          Scanner, ScanLine, ScanEnds, GiveInput, ScannerDone,
          Peer, Dial, Type, StdinEof, Leave, Stall, Show,
          vars, userVars, adapterVars
    <3> QED BY <1>1, <1>2, <2>1, <3>1 DEF OrderInv
  <2> QED BY <2>2, <2>3, <2>4
<1> QED BY <1>3, <1>4, <1>5

(* A step loses none of them, while the peer is not cut off.               *)
LEMMA LossStep ==
  ASSUME TerminalTypeOK, StageInv, HandsInv, LossInv, [Next]_vars
  PROVE  LossInv'
<1>1. arrived \in Seq(1..MaxOut) /\ Len(arrived) \in Nat
  BY ArrivedMoves
<1>2. /\ line.out \in 0..MaxOut /\ out \in 0..MaxOut /\ taken \in 0..out /\ MaxOut \in Nat
      /\ line \in [out : 0..MaxOut, in : 0..MaxIn] /\ done \in BOOLEAN
  BY Lines, TerminalAssumption DEF TerminalTypeOK
<1>3. CASE ConnWrite
  <2>1. /\ line.out # 0 /\ line'.out = 0 /\ taken' = taken /\ done' = done
        /\ PeerReads' => PeerReads
    BY <1>2, <1>3 DEF ConnWrite, HandsInv, userVars, PeerReads
  <2>2. CASE peer = "gone" \/ fin.adapter
    <3>1. arrived' = arrived
      BY <1>3, <2>2 DEF ConnWrite, arrived, peerVars
    <3>2. PeerReads => done
      BY <1>3, <2>2 DEF ConnWrite, StageInv, PeerReads
    <3> QED BY <1>1, <1>2, <2>1, <3>1, <3>2 DEF LossInv
  <2>3. CASE ~(peer = "gone" \/ fin.adapter)
    <3>1. arrived' = Append(arrived, line.out)
      <4>1. shown' = shown /\ toPeer' = Append(toPeer, line.out)
        BY <1>3, <2>3 DEF ConnWrite, SendLine, peerVars
      <4>2. shown \in Seq(1..MaxOut) /\ toPeer \in Seq(1..MaxOut) /\ line.out \in 1..MaxOut
        BY <1>2, <2>1 DEF TerminalTypeOK
      <4>3. shown \o Append(toPeer, line.out) = Append(shown \o toPeer, line.out)
        BY <4>2, AppendOver
      <4> QED BY <4>1, <4>3 DEF arrived
    <3>2. /\ Len(arrived') = Len(arrived) + 1
          /\ \A i \in 1..Len(arrived) : arrived'[i] = arrived[i]
          /\ arrived'[Len(arrived) + 1] = line.out
      BY <1>1, <1>2, <2>1, <3>1, AppendProperties
    <3>3. ASSUME PeerReads PROVE LossInv'
      <4>1. /\ taken <= Len(arrived) + 1
            /\ ~done => line.out = taken /\ taken = Len(arrived) + 1
            /\ \A n \in 1..Len(arrived) : n < taken \/ ~done => arrived[n] = n
        BY <1>2, <2>1, <3>3 DEF LossInv
      <4>2. ASSUME NEW n \in 1..Len(arrived'), n < taken \/ ~done PROVE arrived'[n] = n
        <5>1. CASE n \in 1..Len(arrived)
          BY <3>2, <4>1, <4>2, <5>1
        <5>2. CASE n = Len(arrived) + 1
          BY <1>1, <1>2, <3>2, <4>1, <4>2, <5>2
        <5> QED BY <1>1, <3>2, <5>1, <5>2
      <4> QED BY <1>1, <1>2, <2>1, <3>2, <4>1, <4>2 DEF LossInv
    <3> QED BY <2>1, <3>3 DEF LossInv
  <2> QED BY <2>2, <2>3
<1>4. CASE Kill \/ DrainEnds
  <2>1. line' = line /\ taken' = taken /\ done' = done /\ (PeerReads' => PeerReads)
    BY <1>4 DEF Kill, DrainEnds, userVars, adapterVars, PeerReads
  <2>2. PeerReads' => arrived' = arrived
    BY <1>4, ArrivedMoves
  <2> QED BY <2>1, <2>2 DEF LossInv
<1>5. CASE ~(ConnWrite \/ Kill \/ DrainEnds)
  <2>1. arrived' = arrived
    BY <1>5, ArrivedMoves
  <2>2. CASE TakeOutput
    <3>1. /\ line.out = 0 /\ line'.out = out /\ inWrite # "none" /\ done' = done
          /\ taken' = (IF done THEN taken ELSE out) /\ (PeerReads' => PeerReads)
      BY <1>2, <2>2 DEF TakeOutput, HandsInv, connVars, PeerReads
    <3>2. ~done => out = taken + 1
      BY <3>1 DEF HandsInv
    <3>3. CASE done
      BY <1>1, <1>2, <2>1, <3>1, <3>3 DEF LossInv
    <3>4. CASE ~done
      <4>1. out # 0
        BY <1>2, <3>2, <3>4
      <4> QED BY <1>1, <1>2, <2>1, <3>1, <3>2, <3>4, <4>1 DEF LossInv
    <3> QED BY <3>3, <3>4
  <2>3. CASE ~TakeOutput
    <3>1. /\ line'.out = line.out /\ taken' = taken /\ (done => done')
          /\ (PeerReads' => PeerReads)
      BY <1>2, <1>5, <2>3
      DEF Next, User, StartTerminal, Write, WriteGivesUp, CloseListener, CloseDone, Read,
          Acceptor, Accept, AcceptFails, AcceptorDone, Join,
          Scanner, ScanLine, ScanEnds, GiveInput, ScannerDone,
          Peer, Dial, Type, StdinEof, Leave, Stall, Show,
          vars, userVars, adapterVars, connVars, PeerReads
    <3> QED BY <1>1, <1>2, <2>1, <3>1 DEF LossInv
  <2> QED BY <2>2, <2>3
<1> QED BY <1>3, <1>4, <1>5

(* A step keeps the lines from the peer in their order, and loses none.    *)
LEMMA InputStep ==
  ASSUME TerminalTypeOK, StageInv, HandsInv, InputInv, [Next]_vars
  PROVE  InputInv'
<1>1. /\ read \in Seq(1..MaxIn) /\ toAdapter \in Seq(0..MaxIn)
      /\ Len(read) \in Nat /\ Len(toAdapter) \in Nat
      /\ line.in \in 0..MaxIn /\ typed \in 0..MaxIn /\ MaxIn \in Nat
      /\ line \in [out : 0..MaxOut, in : 0..MaxIn]
      /\ fin \in [adapter : BOOLEAN, peer : BOOLEAN]
  BY Lines, LenProperties, TerminalAssumption DEF TerminalTypeOK
<1>2. Ahead \in Nat
  BY <1>1 DEF Ahead
<1>3. CASE CloseListener
  <2>1. read' = read /\ line' = line /\ scanner' = scanner /\ cut' = cut /\ done' = done
          /\ typed' = typed
    BY <1>3 DEF CloseListener, userVars
  <2>2. CASE peer = "dialed"
    <3>1. scanner = "none" /\ peer' = "gone" /\ toAdapter' = <<>>
      BY <1>3, <2>2 DEF CloseListener, StageInv
    <3>2. 1..Len(<<>>) = {}
      BY EmptySeq
    <3> QED BY <2>1, <3>1, <3>2 DEF InputInv, Ahead
  <2>3. CASE peer # "dialed"
    BY <1>3, <2>1, <2>3 DEF CloseListener, InputInv, Ahead
  <2> QED BY <2>2, <2>3
<1>4. CASE Accept
  BY <1>4 DEF Accept, InputInv, Ahead, StageInv, userVars, connVars
<1>5. CASE ScanLine
  <2>1. /\ toAdapter # <<>> /\ toAdapter' = Tail(toAdapter) /\ Head(toAdapter) = toAdapter[1]
        /\ Len(toAdapter') = Len(toAdapter) - 1 /\ Len(toAdapter) > 0
        /\ \A i \in 1..Len(toAdapter') : toAdapter'[i] = toAdapter[i + 1]
    BY <1>1, <1>5, HeadTailProperties, EmptySeq DEF ScanLine
  <2>2. /\ scanner = "scan" /\ line.in = 0 /\ Ahead = Len(read)
        /\ read' = read /\ peer' = peer /\ typed' = typed /\ done' = done
    BY <1>5 DEF ScanLine, HandsInv, Ahead, userVars, peerVars
  <2>3. CASE Head(toAdapter) = 0
    BY <1>5, <2>2, <2>3 DEF ScanLine, InputInv
  <2>4. CASE Head(toAdapter) # 0
    <3>1. scanner' = "offer" /\ cut' = cut /\ line'.in = toAdapter[1]
      BY <1>1, <1>5, <2>1, <2>4 DEF ScanLine
    <3>2. toAdapter[1] = Len(read) + 1
      BY <1>1, <2>1, <2>2, <2>4 DEF InputInv
    <3>3. Ahead' = Ahead + 1
      BY <1>1, <2>2, <3>1, <3>2 DEF Ahead
    <3>4. \A i \in 1..Len(toAdapter') : toAdapter'[i] \in {0, Ahead' + i}
      <4>1. TAKE i \in 1..Len(toAdapter')
      <4>2. i + 1 \in 1..Len(toAdapter) /\ Ahead + (i + 1) = Ahead' + i
        BY <1>1, <1>2, <2>1, <3>3
      <4> QED BY <2>1, <2>2, <4>2 DEF InputInv
    <3>5. typed = Ahead + Len(toAdapter) => typed' = Ahead' + Len(toAdapter')
      BY <1>1, <1>2, <2>1, <2>2, <3>3
    <3> QED BY <2>2, <3>1, <3>2, <3>4, <3>5 DEF InputInv
  <2> QED BY <2>3, <2>4
<1>6. CASE GiveInput
  <2>1. /\ line.in = Len(read) + 1 /\ line'.in = 0 /\ read' = Append(read, line.in)
        /\ scanner = "offer" /\ scanner' = "scan" /\ toAdapter' = toAdapter /\ cut' = cut
        /\ done' = done /\ peer' = peer /\ typed' = typed
    BY <1>1, <1>6 DEF GiveInput, HandsInv, InputInv, peerVars, connVars
  <2>2. /\ Len(read') = Len(read) + 1
        /\ \A i \in 1..Len(read) : read'[i] = read[i]
        /\ read'[Len(read) + 1] = Len(read) + 1
    <3>1. line.in \in 1..MaxIn
      BY <1>1, <2>1
    <3> QED BY <1>1, <2>1, <3>1, AppendProperties
  <2>3. Ahead' = Ahead
    BY <1>1, <2>1, <2>2 DEF Ahead
  <2>4. ASSUME NEW i \in 1..Len(read') PROVE read'[i] = i
    BY <1>1, <2>2 DEF InputInv
  <2> QED BY <2>1, <2>3, <2>4 DEF InputInv
<1>7. CASE Type
  <2>1. PICK n \in {0, typed + 1} : toAdapter' = Append(toAdapter, n)
    BY <1>7 DEF Type
  <2>2. /\ typed < MaxIn /\ typed' = typed + 1 /\ ~fin.peer /\ peer # "gone" /\ peer' = peer
        /\ read' = read /\ line' = line /\ scanner' = scanner /\ cut' = cut /\ done' = done
    BY <1>7 DEF Type, PeerRuns, userVars, adapterVars
  <2>3. /\ Len(toAdapter') = Len(toAdapter) + 1
        /\ \A i \in 1..Len(toAdapter) : toAdapter'[i] = toAdapter[i]
        /\ toAdapter'[Len(toAdapter) + 1] = n
    <3>1. n \in 0..MaxIn
      BY <1>1, <2>2
    <3> QED BY <1>1, <2>1, <3>1, AppendProperties
  <2>4. Ahead' = Ahead
    BY <2>2 DEF Ahead
  <2>5. scanner # "ended" => \A i \in 1..Len(toAdapter') : toAdapter'[i] \in {0, Ahead' + i}
    <3>1. SUFFICES ASSUME scanner # "ended", NEW i \in 1..Len(toAdapter')
                   PROVE  toAdapter'[i] \in {0, Ahead + i}
      BY <2>4
    <3>2. typed = Ahead + Len(toAdapter)
      BY <2>2, <3>1 DEF InputInv
    <3>3. CASE i \in 1..Len(toAdapter)
      BY <2>3, <3>1, <3>3 DEF InputInv
    <3>4. CASE i = Len(toAdapter) + 1
      BY <1>1, <1>2, <2>3, <3>2, <3>4
    <3> QED BY <1>1, <2>3, <3>3, <3>4
  <2>6. typed = Ahead + Len(toAdapter) => typed' = Ahead' + Len(toAdapter')
    BY <1>1, <1>2, <2>2, <2>3, <2>4
  <2> QED BY <2>2, <2>4, <2>5, <2>6 DEF InputInv
<1>8. CASE Kill
  <2>1. /\ cut' # {} /\ peer' = "gone" /\ toAdapter' \in {toAdapter, <<>>}
        /\ read' = read /\ line' = line /\ scanner' = scanner
    BY <1>8 DEF Kill, adapterVars, userVars
  <2>2. 1..Len(<<>>) = {}
    BY EmptySeq
  <2> QED BY <2>1, <2>2 DEF InputInv, Ahead
<1>9. CASE ScanEnds \/ ScannerDone \/ DrainEnds
  <2>1. /\ read' = read /\ line' = line /\ peer' = peer /\ typed' = typed /\ done' = done
        /\ (cut' = {} => cut = {})
    BY <1>9 DEF ScanEnds, ScannerDone, DrainEnds, userVars, peerVars, connVars
  <2>2. CASE ScanEnds
    BY <2>1, <2>2 DEF ScanEnds, NothingLeft, InputInv, Ahead, connVars
  <2>3. CASE ScannerDone
    BY <2>1, <2>3 DEF ScannerDone, CloseWrite, InputInv, Ahead
  <2>4. CASE DrainEnds
    BY <2>1, <2>4 DEF DrainEnds, InputInv, StageInv
  <2> QED BY <1>9, <2>2, <2>3, <2>4
<1>10. CASE ~(\/ CloseListener \/ Accept \/ ScanLine \/ GiveInput \/ Type \/ Kill
              \/ ScanEnds \/ ScannerDone \/ DrainEnds)
  <2>1. /\ read' = read /\ line'.in = line.in /\ typed' = typed /\ scanner' = scanner
        /\ toAdapter' = toAdapter /\ cut' = cut /\ (done => done') /\ (fin.peer => fin'.peer)
        /\ peer' = peer \/ (peer = "none" /\ peer' = "dialed") \/ (peer' = "gone" /\ done')
    BY <1>1, <1>10
    DEF Next, User, StartTerminal, Write, WriteGivesUp, CloseDone, Read,
        Acceptor, AcceptFails, TakeOutput, ConnWrite, AcceptorDone, CloseWrite, Join, Scanner,
        Peer, Dial, StdinEof, Leave, Stall, Show, StageInv,
        vars, userVars, adapterVars, peerVars, connVars
  <2>2. Ahead' = Ahead
    BY <2>1 DEF Ahead
  <2> QED BY <2>1, <2>2 DEF InputInv
<1> QED BY <1>3, <1>4, <1>5, <1>6, <1>7, <1>8, <1>9, <1>10

(* The invariant holds before StartTerminal().                             *)
LEMMA InitInv == Init => TerminalInv
<1> SUFFICES ASSUME Init PROVE TerminalInv
  OBVIOUS
<1>1. /\ toPeer = <<>> /\ toAdapter = <<>> /\ shown = <<>> /\ read = <<>>
      /\ line.out = 0 /\ line.in = 0 /\ out = 0 /\ taken = 0 /\ typed = 0 /\ inWrite = "none"
      /\ scanner = "none"
  BY DEF Init
<1>2. /\ <<>> \in Seq(1..MaxOut) /\ <<>> \in Seq(0..MaxIn) /\ <<>> \in Seq(1..MaxIn)
      /\ Len(<<>>) = 0 /\ 1..Len(<<>>) = {}
  BY EmptySeq
<1>3. arrived = <<>>
  BY <1>1, <1>2, ConcatEmptySeq DEF arrived
<1>4. TerminalTypeOK
  <2>1. Len(toPeer) <= Buffer /\ Len(toAdapter) <= Buffer /\ MaxOut \in Nat /\ MaxIn \in Nat
    BY <1>1, <1>2, TerminalAssumption
  <2>2. /\ line \in [out : 0..MaxOut, in : 0..MaxIn] /\ fin \in [adapter : BOOLEAN, peer : BOOLEAN]
        /\ out \in 0..MaxOut /\ taken \in 0..out /\ typed \in 0..MaxIn
    BY <2>1 DEF Init
  <2>3. /\ toPeer \in Seq(1..MaxOut) /\ shown \in Seq(1..MaxOut)
        /\ toAdapter \in Seq(0..MaxIn) /\ read \in Seq(1..MaxIn)
    BY <1>1, <1>2
  <2> QED BY <2>1, <2>2, <2>3 DEF Init, TerminalTypeOK
<1>5. StageInv /\ HandsInv
  BY DEF Init, StageInv, HandsInv
<1>6. OrderInv /\ LossInv
  BY <1>1, <1>2, <1>3 DEF OrderInv, LossInv
<1>7. InputInv
  BY <1>1, <1>2 DEF InputInv, Ahead
<1> QED BY <1>4, <1>5, <1>6, <1>7 DEF TerminalInv

(* The invariant of the terminal connection: it holds in every state of    *)
(* every behaviour of dap.Terminal and its peer.                           *)
THEOREM TerminalInvariance == Spec => []TerminalInv
<1>1. Init => TerminalInv
  BY InitInv
<1>2. TerminalInv /\ [Next]_vars => TerminalInv'
  BY TypeStep, StageStep, HandsStep, OrderStep, LossStep, InputStep DEF TerminalInv
<1> QED BY <1>1, <1>2, PTL DEF Spec

(* The first n numbers.                                                    *)
LEMMA UpToIs ==
  ASSUME NEW n \in Nat
  PROVE  UpTo(n) \in Seq(Nat) /\ Len(UpTo(n)) = n /\ \A i \in 1..n : UpTo(n)[i] = i
BY DEF UpTo

(* What the invariant says of the lines written.                           *)
LEMMA OutputIsInOrder ==
  ASSUME TerminalInv
  PROVE  OutputInOrder
<1>1. /\ shown \in Seq(1..MaxOut) /\ toPeer \in Seq(1..MaxOut) /\ MaxOut \in Nat
      /\ line.out \in 0..MaxOut /\ taken \in Nat
  BY Lines, TerminalAssumption DEF TerminalInv, TerminalTypeOK
<1>2. arrived \in Seq(1..MaxOut) /\ Len(arrived) \in Nat
  BY <1>1, ConcatProperties, LenProperties DEF arrived
<1>3. \A i \in 1..(Len(arrived) - 1) : arrived[i] < arrived[i + 1]
  <2>1. TAKE i \in 1..(Len(arrived) - 1)
  <2>2. i \in 1..Len(arrived) /\ i + 1 \in 1..Len(arrived) /\ i < i + 1
    BY <1>2
  <2> QED BY <2>2 DEF TerminalInv, OrderInv
<1>4. ASSUME PeerReads, ~done PROVE arrived \o InHand(line.out) = UpTo(taken)
  <2>1. /\ line.out \in {0, taken}
        /\ taken = Len(arrived) + (IF line.out = 0 THEN 0 ELSE 1)
        /\ \A n \in 1..Len(arrived) : arrived[n] = n
    BY <1>4 DEF TerminalInv, LossInv
  <2>2. arrived \in Seq(Nat)
    BY <1>1, <1>2, SeqMonotonic, 1..MaxOut \subseteq Nat
  <2>3. UpTo(taken) \in Seq(Nat) /\ Len(UpTo(taken)) = taken /\ \A i \in 1..taken : UpTo(taken)[i] = i
    BY <1>1, UpToIs
  <2>4. CASE line.out = 0
    <3>1. arrived \o InHand(line.out) = arrived
      BY <2>2, <2>4, ConcatEmptySeq DEF InHand
    <3> QED BY <1>2, <2>1, <2>2, <2>3, <2>4, <3>1, SeqEqual
  <2>5. CASE line.out # 0
    <3>1. arrived \o InHand(line.out) = Append(arrived, line.out)
      BY <1>1, <2>2, <2>5, AppendIsConcat DEF InHand
    <3>2. /\ Append(arrived, line.out) \in Seq(Nat)
          /\ Len(Append(arrived, line.out)) = Len(arrived) + 1
          /\ \A i \in 1..Len(arrived) : Append(arrived, line.out)[i] = arrived[i]
          /\ Append(arrived, line.out)[Len(arrived) + 1] = line.out
      BY <1>1, <2>2, AppendProperties
    <3>3. \A i \in 1..taken : Append(arrived, line.out)[i] = i
      BY <1>2, <2>1, <2>5, <3>2
    <3> HIDE DEF InHand
    <3> QED BY <1>2, <2>1, <2>3, <2>5, <3>1, <3>2, <3>3, SeqEqual
  <2> QED BY <2>4, <2>5
<1>5. ASSUME PeerReads, NEW n \in 1..(taken - 1) PROVE Len(arrived) >= n /\ arrived[n] = n
  <2>1. n \in 1..Len(arrived) /\ n < taken
    BY <1>1, <1>2, <1>5 DEF TerminalInv, LossInv
  <2> QED BY <1>2, <1>5, <2>1 DEF TerminalInv, LossInv
<1> QED BY <1>3, <1>4, <1>5 DEF OutputInOrder

(* And of the lines typed.                                                 *)
LEMMA InputIsInOrder ==
  ASSUME TerminalInv
  PROVE  InputInOrder
<1>1. /\ read \in Seq(1..MaxIn) /\ Len(read) \in Nat /\ read \in Seq(Nat)
  BY LenProperties, SeqMonotonic, TerminalAssumption, 1..MaxIn \subseteq Nat
  DEF TerminalInv, TerminalTypeOK
<1>2. read = UpTo(Len(read))
  <2>1. /\ UpTo(Len(read)) \in Seq(Nat) /\ Len(UpTo(Len(read))) = Len(read)
        /\ \A i \in 1..Len(read) : UpTo(Len(read))[i] = read[i]
    BY <1>1, UpToIs DEF TerminalInv, InputInv
  <2> QED BY <1>1, <2>1, SeqEqual
<1>3. ASSUME scanner = "ended", cut = {}, ~done PROVE Len(read) = typed
  <2>1. toAdapter = <<>> /\ line.in = 0 /\ typed = Ahead + Len(toAdapter)
    BY <1>3 DEF TerminalInv, InputInv, HandsInv
  <2> QED BY <1>1, <2>1, EmptySeq DEF Ahead
<1> QED BY <1>2, <1>3 DEF InputInOrder

(* The lines given to Write() are shown in their order, none missing while *)
(* the terminal is open and its peer not cut off, and all but the one in   *)
(* the acceptor's hand when it is closed; those typed are read in theirs,  *)
(* and Input is closed only when all of them were read.                    *)
THEOREM LinesKeepTheirOrder == Spec => []LinesInOrder
<1>1. TerminalInv => LinesInOrder
  BY OutputIsInOrder, InputIsInOrder DEF LinesInOrder
<1> QED BY <1>1, TerminalInvariance, PTL

(* A step of the terminal is one of the link it implements, or none.       *)
LEMMA StepImplements ==
  ASSUME TerminalTypeOK, StageInv, StageInv', [Next]_vars
  PROVE  [Link!LinkNext]_(Link!linkVars)
<1>0. /\ acceptor \in {"none", "accept", "loop", "write", "join", "ended"}
      /\ inWrite \in {"none", "handler", "vm"} /\ done \in BOOLEAN /\ stalled \in BOOLEAN
      /\ closing \in BOOLEAN
  BY DEF TerminalTypeOK
<1> USE <1>0 DEF link, StageInv, Link!LinkNext, Link!linkVars, adapterVars, userVars, peerVars, connVars
<1>1. CASE StartTerminal
  BY <1>1 DEF StartTerminal, Link!StartLink
<1>2. ASSUME NEW who \in {"handler", "vm"}, Write(who) PROVE Link!BeginWrite(who)
  BY <1>2 DEF Write, Link!BeginWrite
<1>3. CASE WriteGivesUp
  BY <1>3 DEF WriteGivesUp, DoneClosed, Link!WriteReturns
<1>4. CASE CloseDone
  BY <1>4 DEF CloseDone, Link!CloseLink
<1>5. CASE CloseListener \/ Read
  BY <1>5 DEF CloseListener, Read
<1>6. CASE Accept
  BY <1>6 DEF Accept, Link!Connect
<1>7. CASE TakeOutput
  BY <1>7 DEF TakeOutput, Link!WriteReturns
<1>8. CASE AcceptFails \/ ConnWrite \/ AcceptorDone \/ Join
  BY <1>8 DEF AcceptFails, ConnWrite, AcceptorDone, Join
<1>9. CASE Scanner
  BY <1>9 DEF Scanner, ScanLine, ScanEnds, GiveInput, ScannerDone, DrainEnds
<1>10. CASE Kill \/ Stall
  BY <1>10 DEF Kill, Stall, Link!Flow
<1>11. CASE Dial \/ Type \/ StdinEof \/ Show \/ Leave
  BY <1>11 DEF Dial, Type, StdinEof, Show, Leave
<1>12. CASE UNCHANGED vars
  BY <1>12 DEF vars
<1> QED
  BY <1>1, <1>2, <1>3, <1>4, <1>5, <1>6, <1>7, <1>8, <1>9, <1>10, <1>11, <1>12
  DEF Next, User, Acceptor, Peer, Link!Writers

(* The terminal implements TerminalLink, but for its fairness: Write()     *)
(* returns only when a connection takes the line or the terminal was       *)
(* closed, and Close() comes only when the handler is not in Write().      *)
THEOREM TerminalIsALink == Spec => Link!LinkSafety
<1>1. Init => Link!LinkInit
  BY DEF Init, Link!LinkInit, link
<1>2. TerminalInv /\ TerminalInv' /\ [Next]_vars => [Link!LinkNext]_(Link!linkVars)
  BY StepImplements DEF TerminalInv
<1> QED BY <1>1, <1>2, TerminalInvariance, PTL DEF Spec, Link!LinkSafety
=============================================================================
