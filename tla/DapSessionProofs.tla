-------------------------- MODULE DapSessionProofs ---------------------------
(***************************************************************************)
(* What DapSession promises, proved for every queue, client, program and   *)
(* set of breakpoints.  But for the tables, which come first, it follows   *)
(* from an invariant, DapInv, whose parts are kept one after the other:    *)
(*                                                                         *)
(*  - VmInv, of the run alone;                                             *)
(*  - TodoInv, of the order of the statements that a handler has left;     *)
(*  - BreakInv, that the VM's breakpoints are the client's or on their way;*)
(*  - StopInv, that a program's stop is the last the client hears of it;   *)
(*  - AnswerInv, that an answer is to come or was given.                   *)
(*                                                                         *)
(* A handler is put together from sequences of statements.  The first half *)
(* of the module shows what each handler is, by fragments: a fragment says *)
(* in what order statements come and how often they answer, after anything *)
(* that may come before, and two fragments in turn make one.  The second   *)
(* half shows that each part of DapInv is kept by a statement that is      *)
(* taken off the handler, by a new request, and by the other goroutines.   *)
(***************************************************************************)
EXTENDS DapSession, Loops, SequenceTheorems

-----------------------------------------------------------------------------
(* The tables of breakpoints.                                              *)

(* The first loop of NewBreakpoints() ...                                  *)
LEMMA LinesUpToIs ==
  /\ linesUpTo[0] = 0
  /\ \A n \in 1..NInst :
       linesUpTo[n] = IF Line[n - 1] >= linesUpTo[n - 1] THEN Line[n - 1] + 1
                                                         ELSE linesUpTo[n - 1]
<1> DEFINE F == [n \in 1..NInst |->
                   [m \in Nat |-> IF Line[n - 1] >= m THEN Line[n - 1] + 1 ELSE m]]
           Loop(g) == g = [n \in 0..NInst |-> IF n = 0 THEN 0
                             ELSE IF Line[n - 1] >= g[n - 1] THEN Line[n - 1] + 1 ELSE g[n - 1]]
<1>1. F \in [1..NInst -> [Nat -> Nat]]
  BY CodeAssumption
<1>2. PICK g \in [0..NInst -> Nat] : g[0] = 0 /\ \A n \in 1..NInst : g[n] = F[n][g[n - 1]]
  <2>1. NInst \in Nat /\ 0 \in Nat
    BY CodeAssumption
  <2> HIDE DEF F
  <2>2. HasValues(NInst, Nat, 0, F)
    BY <1>1, <2>1, LoopHasValues
  <2> QED BY <2>2 DEF HasValues
<1>3. Loop(g)
  <2>1. ASSUME NEW n \in 0..NInst, n # 0
        PROVE  F[n][g[n - 1]] = IF Line[n - 1] >= g[n - 1] THEN Line[n - 1] + 1 ELSE g[n - 1]
    <3>1. n \in 1..NInst /\ g[n - 1] \in Nat
      BY <1>2, <2>1, CodeAssumption
    <3> QED BY <3>1
  <2>2. g = [n \in 0..NInst |-> g[n]]
    BY <1>2
  <2>3. ASSUME NEW n \in 0..NInst, n # 0 PROVE n \in 1..NInst
    BY <2>3, CodeAssumption
  <2> QED BY <1>2, <2>1, <2>2, <2>3
<1>4. Loop(linesUpTo)
  <2>1. \E f : Loop(f)
    BY <1>3
  <2> QED BY <2>1 DEF linesUpTo
<1>5. ASSUME NEW n \in 0..NInst
      PROVE  linesUpTo[n] = IF n = 0 THEN 0
               ELSE IF Line[n - 1] >= linesUpTo[n - 1] THEN Line[n - 1] + 1 ELSE linesUpTo[n - 1]
  BY <1>4
<1>6. 0 \in 0..NInst /\ \A n \in 1..NInst : n \in 0..NInst /\ n # 0
  BY CodeAssumption
<1> QED BY <1>5, <1>6

(* ... and what it finds: the lines of the instructions are below NLines.  *)
LEMMA NLinesIs == NLines \in Nat /\ \A pc \in 0..(NInst - 1) : Line[pc] < NLines
<1> DEFINE S == {n \in 0..NInst :
                   linesUpTo[n] \in Nat /\ \A pc \in 0..(n - 1) : Line[pc] < linesUpTo[n]}
<1>1. 0 \in S
  BY LinesUpToIs, CodeAssumption
<1>2. ASSUME NEW n \in 0..(NInst - 1), n \in S PROVE n + 1 \in S
  <2>1. /\ n + 1 \in 1..NInst /\ (n + 1) - 1 = n /\ Line[n] \in Nat
        /\ linesUpTo[n] \in Nat /\ \A pc \in 0..(n - 1) : Line[pc] < linesUpTo[n]
    BY <1>2, CodeAssumption
  <2>2. linesUpTo[n + 1] = IF Line[n] >= linesUpTo[n] THEN Line[n] + 1 ELSE linesUpTo[n]
    BY <2>1, LinesUpToIs
  <2>3. ASSUME NEW pc \in 0..n PROVE Line[pc] < linesUpTo[n + 1]
    <3>1. Line[pc] \in Nat
      BY <2>1, CodeAssumption
    <3>2. CASE pc = n
      BY <2>1, <2>2, <3>2
    <3>3. CASE pc # n
      <4>1. Line[pc] < linesUpTo[n]
        BY <2>1, <3>3
      <4> QED BY <2>1, <2>2, <3>1, <4>1
    <3> QED BY <3>2, <3>3
  <2> QED BY <2>1, <2>2, <2>3
<1>3. NInst \in S
  <2> HIDE DEF S
  <2>1. \A n \in 0..NInst : n \in S
    BY <1>1, <1>2, CodeAssumption, UpFromZero
  <2> QED BY <2>1, CodeAssumption
<1> QED BY <1>3 DEF NLines

LinesOf == 0..(NLines - 1)
Tables  == [LinesOf -> Int]

(* A round of the second loop: a line's entry is set once.                 *)
LEMMA FirstOfLineIs ==
  ASSUME NEW table \in Tables, NEW pc \in 0..(NInst - 1)
  PROVE  /\ FirstOfLine(table, pc) \in Tables
         /\ \A line \in LinesOf : FirstOfLine(table, pc)[line] =
              IF line = Line[pc] /\ table[line] < 0 THEN pc ELSE table[line]
<1>1. Line[pc] \in LinesOf /\ pc \in Int
  BY NLinesIs, CodeAssumption DEF LinesOf
<1> QED BY <1>1 DEF FirstOfLine, Tables

(* The second loop ...                                                     *)
LEMMA TableUpToIs ==
  /\ tableUpTo[0] = [line \in LinesOf |-> -1]
  /\ \A n \in 1..NInst : tableUpTo[n] = FirstOfLine(tableUpTo[n - 1], n - 1)
<1> DEFINE start == [line \in LinesOf |-> -1]
           F == [n \in 1..NInst |-> [table \in Tables |-> FirstOfLine(table, n - 1)]]
           Loop(g) == g = [n \in 0..NInst |-> IF n = 0 THEN start ELSE FirstOfLine(g[n - 1], n - 1)]
<1>1. F \in [1..NInst -> [Tables -> Tables]]
  <2>1. ASSUME NEW n \in 1..NInst, NEW table \in Tables PROVE FirstOfLine(table, n - 1) \in Tables
    BY FirstOfLineIs, CodeAssumption
  <2> QED BY <2>1
<1>2. PICK g \in [0..NInst -> Tables] : g[0] = start /\ \A n \in 1..NInst : g[n] = F[n][g[n - 1]]
  <2>1. NInst \in Nat /\ start \in Tables
    BY CodeAssumption DEF Tables
  <2> HIDE DEF F, start
  <2>2. HasValues(NInst, Tables, start, F)
    BY <1>1, <2>1, LoopHasValues
  <2> QED BY <2>2 DEF HasValues
<1> HIDE DEF start
<1>3. Loop(g)
  <2>1. ASSUME NEW n \in 0..NInst, n # 0
        PROVE  n \in 1..NInst /\ F[n][g[n - 1]] = FirstOfLine(g[n - 1], n - 1)
    <3>1. n \in 1..NInst /\ g[n - 1] \in Tables
      BY <1>2, <2>1, CodeAssumption
    <3> QED BY <3>1
  <2>2. g = [n \in 0..NInst |-> g[n]]
    BY <1>2
  <2> QED BY <1>2, <2>1, <2>2
<1>4. Loop(tableUpTo)
  <2>1. \E f : Loop(f)
    BY <1>3
  <2> QED BY <2>1 DEF tableUpTo, LinesOf, start
<1>5. ASSUME NEW n \in 0..NInst
      PROVE  tableUpTo[n] = IF n = 0 THEN start ELSE FirstOfLine(tableUpTo[n - 1], n - 1)
  BY <1>4
<1>6. 0 \in 0..NInst /\ \A n \in 1..NInst : n \in 0..NInst /\ n # 0
  BY CodeAssumption
<1> QED BY <1>5, <1>6 DEF start

(* pc is the first of the instructions before n that its line has.         *)
IsFirst(pc, line, n) ==
  pc \in 0..(n - 1) /\ Line[pc] = line /\ \A earlier \in 0..(pc - 1) : Line[earlier] # line

(* ... and what it finds: the first instruction of each line.              *)
LEMMA TableIs ==
  /\ sourceToInst \in Tables
  /\ \A line \in LinesOf :
       \/ IsFirst(sourceToInst[line], line, NInst)
       \/ sourceToInst[line] = -1 /\ \A pc \in 0..(NInst - 1) : Line[pc] # line
<1> DEFINE Good(n) == /\ tableUpTo[n] \in Tables
                      /\ \A line \in LinesOf :
                           \/ IsFirst(tableUpTo[n][line], line, n)
                           \/ tableUpTo[n][line] = -1 /\ \A pc \in 0..(n - 1) : Line[pc] # line
           S == {n \in 0..NInst : Good(n)}
<1>1. 0 \in S
  <2>1. tableUpTo[0] \in Tables /\ \A line \in LinesOf : tableUpTo[0][line] = -1
    BY TableUpToIs DEF Tables
  <2>2. 0..(0 - 1) = {} /\ 0 \in 0..NInst
    BY CodeAssumption
  <2> QED BY <2>1, <2>2
<1>2. ASSUME NEW n \in 0..(NInst - 1), n \in S PROVE n + 1 \in S
  <2>1. /\ n + 1 \in 1..NInst /\ n + 1 \in 0..NInst /\ (n + 1) - 1 = n /\ n \in Nat
        /\ Line[n] \in Nat
    BY CodeAssumption
  <2>2. Good(n)
    BY <1>2
  <2>3. tableUpTo[n + 1] = FirstOfLine(tableUpTo[n], n)
    BY <2>1, TableUpToIs
  <2>4. /\ tableUpTo[n + 1] \in Tables
        /\ \A line \in LinesOf : tableUpTo[n + 1][line] =
             IF line = Line[n] /\ tableUpTo[n][line] < 0 THEN n ELSE tableUpTo[n][line]
    BY <2>2, <2>3, FirstOfLineIs
  <2>5. ASSUME NEW line \in LinesOf
        PROVE  \/ IsFirst(tableUpTo[n + 1][line], line, n + 1)
               \/ tableUpTo[n + 1][line] = -1 /\ \A pc \in 0..n : Line[pc] # line
    <3>1. \A pc \in 0..n : pc \in 0..(n - 1) \/ pc = n
      BY <2>1
    <3>2. CASE tableUpTo[n][line] = -1 /\ \A pc \in 0..(n - 1) : Line[pc] # line
      <4>1. CASE line = Line[n]
        BY <2>1, <2>4, <3>2, <4>1 DEF IsFirst
      <4>2. CASE line # Line[n]
        BY <2>4, <3>1, <3>2, <4>2
      <4> QED BY <4>1, <4>2
    <3>3. CASE IsFirst(tableUpTo[n][line], line, n)
      <4>1. tableUpTo[n][line] \in 0..(n - 1)
        BY <3>3 DEF IsFirst
      <4>2. tableUpTo[n + 1][line] = tableUpTo[n][line]
        BY <2>4, <4>1
      <4> QED BY <2>1, <3>3, <4>1, <4>2 DEF IsFirst
    <3> QED BY <2>2, <3>2, <3>3
  <2> QED BY <2>1, <2>4, <2>5
<1>3. NInst \in S
  <2> HIDE DEF S
  <2>1. \A n \in 0..NInst : n \in S
    BY <1>1, <1>2, CodeAssumption, UpFromZero
  <2> QED BY <2>1, CodeAssumption
<1> QED BY <1>3 DEF sourceToInst

(* So does InstFromSource(), for any line.                                 *)
LEMMA InstFromSourceIs ==
  ASSUME NEW line \in Nat
  PROVE  \/ InstFromSource(line) \in LineStarts /\ Line[InstFromSource(line)] = line
         \/ InstFromSource(line) = -1 /\ \A pc \in 0..(NInst - 1) : Line[pc] # line
<1>1. CASE line \in LinesOf
  <2>1. InstFromSource(line) = sourceToInst[line]
    BY <1>1 DEF InstFromSource, LinesOf
  <2> QED BY <1>1, <2>1, TableIs DEF IsFirst, LineStarts
<1>2. CASE line \notin LinesOf
  <2>1. InstFromSource(line) = -1
    BY <1>2 DEF InstFromSource, LinesOf
  <2>2. ASSUME NEW pc \in 0..(NInst - 1) PROVE Line[pc] # line
    BY <1>2, NLinesIs, CodeAssumption DEF LinesOf
  <2> QED BY <2>1, <2>2
<1> QED BY <1>1, <1>2

(* For every program and every set of lines: a breakpoint can be set on    *)
(* the lines that have an instruction, and on no other, and the VM stops   *)
(* at the first instruction of each of them, and nowhere else              *)
(* (NewBreakpoints(), ValidSrcLine(), ComputeLineBreaks()).                *)
THEOREM BreakpointsAreExact ==
  ASSUME NEW lines \in SUBSET Nat
  PROVE  /\ Verified(lines) = {line \in lines : \E pc \in 0..(NInst - 1) : Line[pc] = line}
         /\ ComputeLineBreaks(lines) = {pc \in LineStarts : Line[pc] \in lines}
<1>1. ASSUME NEW line \in lines
      PROVE  InstFromSource(line) >= 0 <=> \E pc \in 0..(NInst - 1) : Line[pc] = line
  <2>1. CASE InstFromSource(line) \in LineStarts /\ Line[InstFromSource(line)] = line
    BY <2>1 DEF LineStarts
  <2>2. CASE InstFromSource(line) = -1 /\ \A pc \in 0..(NInst - 1) : Line[pc] # line
    BY <2>2
  <2> QED BY <2>1, <2>2, InstFromSourceIs
<1>2. ASSUME NEW line \in Verified(lines)
      PROVE  InstFromSource(line) \in LineStarts /\ Line[InstFromSource(line)] \in lines
  <2>1. line \in Nat /\ line \in lines /\ InstFromSource(line) # -1
    BY DEF Verified
  <2> QED BY <2>1, InstFromSourceIs
<1>3. ASSUME NEW pc \in LineStarts, Line[pc] \in lines
      PROVE  Line[pc] \in Verified(lines) /\ InstFromSource(Line[pc]) = pc
  <2>1. pc \in 0..(NInst - 1) /\ Line[pc] \in Nat
    BY CodeAssumption DEF LineStarts
  <2>2. InstFromSource(Line[pc]) \in LineStarts /\ Line[InstFromSource(Line[pc])] = Line[pc]
    BY <2>1, InstFromSourceIs
  <2>3. InstFromSource(Line[pc]) \in 0..(NInst - 1)
    BY <2>2 DEF LineStarts
  <2>4. InstFromSource(Line[pc]) = pc
    BY <2>1, <2>2, <2>3 DEF LineStarts
  <2> QED BY <1>3, <2>3, <2>4 DEF Verified
<1> QED BY <1>1, <1>2, <1>3 DEF Verified, ComputeLineBreaks

-----------------------------------------------------------------------------
(* A part of a handler: statements of S, of which the first may follow one *)
(* that does `first`, and the last does `last`; it answers n times.        *)
Fragment(S, first, s, last, n) ==
  /\ s \in Seq(S)
  /\ \A i \in 1..Len(s) : After(IF i = 1 THEN first ELSE s[i - 1].do, s[i])
  /\ last = IF s = <<>> THEN first ELSE s[Len(s)].do
  /\ n = 0 => \A i \in 1..Len(s) : s[i].do # "respond"
  /\ n = 1 => \E i \in 1..Len(s) :
       s[i].do = "respond" /\ \A j \in 1..Len(s) : s[j].do = "respond" => j = i

(* Nothing is a fragment.                                                  *)
LEMMA NoStatement ==
  ASSUME NEW S, NEW first
  PROVE  Fragment(S, first, <<>>, first, 0)
BY EmptySeq DEF Fragment

(* A statement is one, where it may follow what comes before it.           *)
LEMMA OneStatement ==
  ASSUME NEW S, NEW first, NEW stmt \in S, After(first, stmt)
  PROVE  /\ stmt.do # "respond" => Fragment(S, first, <<stmt>>, stmt.do, 0)
         /\ stmt.do = "respond" => Fragment(S, first, <<stmt>>, "respond", 1)
<1>1. <<stmt>> \in Seq(S) /\ Len(<<stmt>>) = 1 /\ <<stmt>>[1] = stmt /\ <<stmt>> # <<>>
  OBVIOUS
<1>2. \A i \in 1..1 : i = 1
  OBVIOUS
<1> QED BY <1>1, <1>2 DEF Fragment

(* What follows a fragment continues it.                                   *)
LEMMA InTurn ==
  ASSUME NEW S, NEW first, NEW s, NEW then, NEW m \in Nat, Fragment(S, first, s, then, m),
         NEW t, NEW last, NEW n \in Nat, Fragment(S, then, t, last, n), NEW count, count = m + n
  PROVE  Fragment(S, first, s \o t, last, count)
<1> DEFINE u == s \o t
<1>1. s \in Seq(S) /\ t \in Seq(S)
  BY DEF Fragment
<1>2. /\ u \in Seq(S) /\ Len(u) = Len(s) + Len(t) /\ Len(s) \in Nat /\ Len(t) \in Nat
      /\ \A i \in 1..(Len(s) + Len(t)) : u[i] = IF i <= Len(s) THEN s[i] ELSE t[i - Len(s)]
      /\ Len(u) \in Nat
  BY <1>1, ConcatProperties, LenProperties
<1>3. (s = <<>> <=> Len(s) = 0) /\ (t = <<>> <=> Len(t) = 0) /\ (u = <<>> <=> Len(u) = 0)
  BY <1>1, <1>2, EmptySeq
<1> HIDE DEF u
<1>4. \A i \in 1..Len(s) : i \in 1..Len(u) /\ u[i] = s[i]
  BY <1>2
<1>5. \A i \in 1..Len(t) : Len(s) + i \in 1..Len(u) /\ u[Len(s) + i] = t[i]
  <2>1. ASSUME NEW i \in 1..Len(t)
        PROVE  /\ Len(s) + i \in 1..(Len(s) + Len(t)) /\ ~(Len(s) + i <= Len(s))
               /\ (Len(s) + i) - Len(s) = i
    BY <1>2
  <2> QED BY <1>2, <2>1
<1>6. ASSUME NEW i \in 1..Len(u)
      PROVE  (i \in 1..Len(s)) \/ (i - Len(s) \in 1..Len(t) /\ Len(s) + (i - Len(s)) = i)
  BY <1>2
<1>7. ASSUME NEW i \in 1..Len(u) PROVE After(IF i = 1 THEN first ELSE u[i - 1].do, u[i])
  <2>1. CASE i \in 1..Len(s)
    <3>1. i # 1 => i - 1 \in 1..Len(s)
      BY <1>2, <2>1
    <3> QED BY <1>4, <2>1, <3>1 DEF Fragment
  <2>2. CASE i - Len(s) = 1
    <3>1. 1 \in 1..Len(t) /\ u[i] = t[1]
      BY <1>2, <1>5, <1>6, <2>2
    <3>2. then = IF i = 1 THEN first ELSE u[i - 1].do
      <4>1. CASE s = <<>>
        BY <1>2, <1>3, <2>2, <4>1 DEF Fragment
      <4>2. CASE s # <<>>
        <5>1. i # 1 /\ i - 1 = Len(s) /\ Len(s) \in 1..Len(s)
          BY <1>2, <1>3, <2>2, <4>2
        <5> QED BY <1>4, <4>2, <5>1 DEF Fragment
      <4> QED BY <4>1, <4>2
    <3>3. After(then, t[1])
      BY <3>1 DEF Fragment
    <3> QED BY <3>1, <3>2, <3>3
  <2>3. CASE i \notin 1..Len(s) /\ i - Len(s) # 1
    <3> DEFINE j == i - Len(s)
    <3>1. j \in 1..Len(t) /\ j # 1 /\ j - 1 \in 1..Len(t) /\ Len(s) + j = i
          /\ Len(s) + (j - 1) = i - 1 /\ i # 1
      BY <1>2, <1>6, <2>3
    <3>2. u[i] = t[j] /\ u[i - 1] = t[j - 1]
      BY <1>5, <3>1
    <3>3. After(t[j - 1].do, t[j])
      BY <3>1 DEF Fragment
    <3> QED BY <3>1, <3>2, <3>3
  <2> QED BY <2>1, <2>2, <2>3
<1>8. last = IF u = <<>> THEN first ELSE u[Len(u)].do
  <2>1. CASE t = <<>>
    BY <1>2, <1>3, <1>4, <2>1 DEF Fragment
  <2>2. CASE t # <<>>
    <3>1. Len(t) \in 1..Len(t) /\ Len(s) + Len(t) = Len(u) /\ u # <<>>
      BY <1>2, <1>3, <2>2
    <3> QED BY <1>5, <2>2, <3>1 DEF Fragment
  <2> QED BY <2>1, <2>2
<1>9. ASSUME m + n = 0 PROVE \A i \in 1..Len(u) : u[i].do # "respond"
  <2>1. m = 0 /\ n = 0
    BY <1>9
  <2>2. /\ \A i \in 1..Len(s) : s[i].do # "respond"
        /\ \A i \in 1..Len(t) : t[i].do # "respond"
    BY <2>1 DEF Fragment
  <2>3. ASSUME NEW i \in 1..Len(u) PROVE u[i].do # "respond"
    BY <1>4, <1>5, <1>6, <2>2
  <2> QED BY <2>3
<1>10. ASSUME m + n = 1
       PROVE  \E i \in 1..Len(u) :
                u[i].do = "respond" /\ \A j \in 1..Len(u) : u[j].do = "respond" => j = i
  <2>1. CASE m = 1
    <3>1. n = 0
      BY <1>10, <2>1
    <3>2. PICK i \in 1..Len(s) :
                 s[i].do = "respond" /\ \A j \in 1..Len(s) : s[j].do = "respond" => j = i
      BY <2>1 DEF Fragment
    <3>3. \A j \in 1..Len(t) : t[j].do # "respond"
      BY <3>1 DEF Fragment
    <3>4. i \in 1..Len(u) /\ u[i].do = "respond"
      BY <1>4, <3>2
    <3>5. ASSUME NEW j \in 1..Len(u), u[j].do = "respond" PROVE j = i
      BY <1>4, <1>5, <1>6, <3>2, <3>3, <3>5
    <3> QED BY <3>4, <3>5
  <2>2. CASE m = 0
    <3>1. n = 1
      BY <1>10, <2>2
    <3>2. PICK k \in 1..Len(t) :
                 t[k].do = "respond" /\ \A j \in 1..Len(t) : t[j].do = "respond" => j = k
      BY <3>1 DEF Fragment
    <3>3. \A j \in 1..Len(s) : s[j].do # "respond"
      BY <2>2 DEF Fragment
    <3>4. Len(s) + k \in 1..Len(u) /\ u[Len(s) + k].do = "respond"
      BY <1>5, <3>2
    <3>5. ASSUME NEW j \in 1..Len(u), u[j].do = "respond" PROVE j = Len(s) + k
      <4>1. j - Len(s) \in 1..Len(t) /\ Len(s) + (j - Len(s)) = j
        BY <1>4, <1>6, <3>3, <3>5
      <4>2. j - Len(s) = k
        BY <1>5, <3>2, <3>5, <4>1
      <4> QED BY <4>1, <4>2
    <3> QED BY <3>4, <3>5
  <2> QED BY <1>10, <2>1, <2>2
<1> QED BY <1>2, <1>7, <1>8, <1>9, <1>10 DEF Fragment, u

(* The statements of the handlers that start and end sessions, and of the  *)
(* others, where these are the breakpoints.                                *)
Starting == {stmt \in Statements : stmt.do \notin {"runInVm", "closeQueue"}}
Calling(lines, insts) ==
  {stmt \in Statements :
     /\ stmt.do \notin {"new", "nil", "closeQueue"}
     /\ Updates(stmt, "continue") => ~noDebug
     /\ Updates(stmt, "lineBreaks") => stmt.cmd.pcs = ComputeLineBreaks(lines)
     /\ Updates(stmt, "instBreaks") => stmt.cmd.pcs = insts}

(* The statements that may follow any other.                               *)
Anywhere ==
  [do : {"send"}, msg : {"stopped", "output", "runInTerminal"}]
    \cup [do : {"startTerminal", "banner", "closeTerminal", "play", "halt", "terminate",
                "close", "wait", "join"}]

(* Each of them is a fragment, after anything.                             *)
LEMMA AnywhereIs ==
  ASSUME NEW stmt \in Anywhere, NEW S, stmt \in S, NEW first
  PROVE  Fragment(S, first, <<stmt>>, stmt.do, 0)
<1>1. stmt.do # "respond" /\ After(first, stmt)
  BY DEF Anywhere, After, TellsEnd, TellsResume, EndEvents
<1> QED BY <1>1, OneStatement

(* Every handler may have it.                                              *)
LEMMA AnywhereCan ==
  ASSUME NEW stmt \in Anywhere
  PROVE  stmt \in Starting /\ \A lines, insts : stmt \in Calling(lines, insts)
BY DEF Anywhere, Starting, Calling, Statements, Updates

(* The statements that use the terminal, or the session, are such ones.    *)
LEMMA DoIs ==
  ASSUME NEW what \in {"startTerminal", "banner", "closeTerminal", "play", "halt", "terminate",
                       "close", "wait", "join"},
         NEW first
  PROVE  /\ Fragment(Starting, first, Do(what), what, 0)
         /\ \A lines, insts : Fragment(Calling(lines, insts), first, Do(what), what, 0)
<1> DEFINE stmt == [do |-> what]
<1>1. stmt \in Anywhere /\ stmt.do = what /\ Do(what) = <<stmt>>
  BY DEF Anywhere, Do
<1> HIDE DEF stmt
<1> QED BY <1>1, AnywhereIs, AnywhereCan

(* So are the events that do not tell of an end.                           *)
LEMMA SendIs ==
  ASSUME NEW msg \in {"stopped", "output", "runInTerminal"}, NEW first
  PROVE  /\ Fragment(Starting, first, Send(msg), "send", 0)
         /\ \A lines, insts : Fragment(Calling(lines, insts), first, Send(msg), "send", 0)
<1> DEFINE stmt == [do |-> "send", msg |-> msg]
<1>1. stmt \in Anywhere /\ stmt.do = "send" /\ Send(msg) = <<stmt>>
  BY DEF Anywhere, Send
<1> HIDE DEF stmt
<1> QED BY <1>1, AnywhereIs, AnywhereCan

(* The end of a program is told after its session was closed, or let go.   *)
LEMMA SendEndIs ==
  ASSUME NEW msg \in EndEvents, NEW first \in {"close", "nil"}
  PROVE  /\ Fragment(Starting, first, Send(msg), "send", 0)
         /\ \A lines, insts : Fragment(Calling(lines, insts), first, Send(msg), "send", 0)
<1> DEFINE stmt == [do |-> "send", msg |-> msg]
<1>1. /\ stmt \in Starting /\ \A lines, insts : stmt \in Calling(lines, insts)
      /\ After(first, stmt) /\ stmt.do = "send" /\ Send(msg) = <<stmt>>
  BY DEF EndEvents, Send, Starting, Calling, Statements, After, Updates, TellsResume
<1> HIDE DEF stmt
<1>2. ASSUME NEW S, stmt \in S PROVE Fragment(S, first, <<stmt>>, "send", 0)
  BY <1>1, <1>2, OneStatement
<1> QED BY <1>1, <1>2

(* An answer; one that says that the program runs is given when it was     *)
(* just started, or before it is resumed.                                  *)
LEMMA RespondIs ==
  ASSUME NEW msg \in {"response", "resumed"}, NEW first, msg = "resumed" => first = "new"
  PROVE  /\ Fragment(Starting, first, Respond(msg), "respond", 1)
         /\ \A lines, insts : Fragment(Calling(lines, insts), first, Respond(msg), "respond", 1)
<1> DEFINE stmt == [do |-> "respond", msg |-> msg]
<1>1. /\ stmt \in Starting /\ \A lines, insts : stmt \in Calling(lines, insts)
      /\ After(first, stmt) /\ stmt.do = "respond" /\ Respond(msg) = <<stmt>>
  BY DEF Respond, Starting, Calling, Statements, After, Updates, TellsResume, TellsEnd
<1> HIDE DEF stmt
<1>2. ASSUME NEW S, stmt \in S PROVE Fragment(S, first, <<stmt>>, "respond", 1)
  BY <1>1, <1>2, OneStatement
<1> QED BY <1>1, <1>2

(* debug.New() may follow anything.                                        *)
LEMMA NewIs ==
  ASSUME NEW args \in Launches, NEW first
  PROVE  Fragment(Starting, first, New(args), "new", 0)
<1> DEFINE stmt == [do |-> "new", args |-> args]
<1>1. /\ stmt \in Starting /\ After(first, stmt) /\ stmt.do = "new" /\ New(args) = <<stmt>>
  BY DEF New, Starting, Statements, After, TellsResume, TellsEnd
<1> HIDE DEF stmt
<1> QED BY <1>1, OneStatement

(* tryStartSession() ends with a new session, of whatever comes before.    *)
LEMMA StartIs ==
  ASSUME NEW args \in Launches, NEW s \in Start(args), NEW first
  PROVE  Fragment(Starting, first, s, "new", 0)
<1>1. \A f : Fragment(Starting, f, New(args), "new", 0)
  BY NewIs
<1>2. \A f : Fragment(Starting, f, Do("banner"), "banner", 0)
  BY DoIs
<1>3. \A f : Fragment(Starting, f, Do("startTerminal"), "startTerminal", 0)
  BY DoIs
<1>4. \A f : Fragment(Starting, f, Send("runInTerminal"), "send", 0)
  BY SendIs
<1>5. CASE s = New(args)
  BY <1>1, <1>5
<1>6. CASE s = Do("banner") \o New(args)
  BY <1>1, <1>2, <1>6, InTurn, 0 \in Nat, 0 + 0 = 0
<1>7. CASE s = Do("startTerminal") \o Send("runInTerminal") \o Do("banner") \o New(args)
  <2>1. Fragment(Starting, first, Do("startTerminal") \o Send("runInTerminal"), "send", 0)
    BY <1>3, <1>4, InTurn, 0 \in Nat, 0 + 0 = 0
  <2>2. Fragment(Starting, first, Do("startTerminal") \o Send("runInTerminal") \o Do("banner"),
                 "banner", 0)
    BY <1>2, <2>1, InTurn, 0 \in Nat, 0 + 0 = 0
  <2> QED BY <1>1, <1>7, <2>2, InTurn, 0 \in Nat, 0 + 0 = 0
<1> QED BY <1>5, <1>6, <1>7 DEF Start

(* A handler, or its rest, that answers as it should.                      *)
Handles(S, first, s) ==
  \E last : \E n \in Nat : Fragment(S, first, s, last, n) /\ (Untested => n = 1)

(* A fragment that answers once is such a handler.                         *)
LEMMA HandlesOnce ==
  ASSUME NEW S, NEW first, NEW s, NEW last, Fragment(S, first, s, last, 1)
  PROVE  Handles(S, first, s)
BY DEF Handles

(* Where the start fails, it answers; where it succeeds, what follows does.*)
LEMMA TryStartIs ==
  ASSUME NEW req, req.args \in Launches,
         NEW rest, NEW last, Fragment(Starting, "new", rest, last, 1),
         NEW s \in TryStart(req, rest), NEW first
  PROVE  Handles(Starting, first, s)
<1>1. \A f : Fragment(Starting, f, Fail, "respond", 1)
  BY RespondIs DEF Fail
<1>2. CASE s = Fail
  BY <1>1, <1>2, HandlesOnce
<1>3. CASE s = Send("output") \o Fail
  <2>1. Fragment(Starting, first, Send("output"), "send", 0)
    BY SendIs
  <2>2. Fragment(Starting, first, s, "respond", 1)
    BY <1>1, <1>3, <2>1, InTurn, 0 \in Nat, 1 \in Nat, 0 + 1 = 1
  <2> QED BY <2>2, HandlesOnce
<1>4. CASE req.args.source = "noOutFile" /\ s = Fail \o New(req.args) \o rest
  <2>1. Fragment(Starting, first, Fail \o New(req.args), "new", 1)
    BY <1>1, NewIs, InTurn, 0 \in Nat, 1 \in Nat, 1 + 0 = 1
  <2>2. Fragment(Starting, first, s, last, 2)
    BY <1>4, <2>1, InTurn, 1 \in Nat, 1 + 1 = 2
  <2>3. ~Untested
    BY <1>4 DEF Untested
  <2> QED BY <2>2, <2>3, 2 \in Nat DEF Handles
<1>5. CASE \E start \in Start(req.args) : s = start \o rest
  <2>1. PICK start \in Start(req.args) : s = start \o rest
    BY <1>5
  <2>2. Fragment(Starting, first, s, last, 1)
    BY <2>1, StartIs, InTurn, 0 \in Nat, 1 \in Nat, 0 + 1 = 1
  <2> QED BY <2>2, HandlesOnce
<1> QED BY <1>2, <1>3, <1>4, <1>5 DEF TryStart

(* onLaunchRequest()                                                       *)
LEMMA LaunchIs ==
  ASSUME NEW req, req.op = "launch", req.args \in Launches, NEW s \in Launch(req), NEW first
  PROVE  Handles(Starting, first, s)
<1>1. Fragment(Starting, first, Fail, "respond", 1)
  BY RespondIs DEF Fail
<1>2. Fragment(Starting, "new", Ok(req), "respond", 1)
  BY RespondIs DEF Ok
<1>3. Fragment(Starting, "new", Ok(req) \o Do("play"), "play", 1)
  BY <1>2, DoIs, InTurn, 0 \in Nat, 1 \in Nat, 1 + 0 = 1
<1>4. Fragment(Starting, "new", Ok(req) \o <<>>, "respond", 1)
  BY <1>2, NoStatement, InTurn, 0 \in Nat, 1 \in Nat, 1 + 0 = 1
<1>5. CASE s = Fail
  BY <1>1, <1>5, HandlesOnce
<1>6. CASE s \in TryStart(req, Ok(req) \o (IF req.args.noDebug THEN Do("play") ELSE <<>>))
  <2>1. CASE req.args.noDebug
    BY <1>3, <1>6, <2>1, TryStartIs
  <2>2. CASE ~req.args.noDebug
    BY <1>4, <1>6, <2>2, TryStartIs
  <2> QED BY <2>1, <2>2
<1> QED BY <1>5, <1>6 DEF Launch

(* onRestartRequest()                                                      *)
LEMMA RestartIs ==
  ASSUME NEW req, req.op = "restart", req.args \in Launches, NEW s \in Restart(req), NEW first
  PROVE  Handles(Starting, first, s)
<1>1. Fragment(Starting, first, Fail, "respond", 1)
  BY RespondIs DEF Fail
<1>2. CASE s = Fail
  BY <1>1, <1>2, HandlesOnce
<1>3. CASE \E start \in TryStart(req, Ok(req) \o Do("play")) :
             s = HaltAndWait \o Do("nil") \o Send("exited") \o start
  <2>1. PICK start \in TryStart(req, Ok(req) \o Do("play")) :
               s = HaltAndWait \o Do("nil") \o Send("exited") \o start
    BY <1>3
  <2>2. Fragment(Starting, first, HaltAndWait, "wait", 0)
    <3>1. Fragment(Starting, first, Do("halt"), "halt", 0)
      BY DoIs
    <3>2. Fragment(Starting, first, Do("halt") \o Do("close"), "close", 0)
      BY <3>1, DoIs, InTurn, 0 \in Nat, 0 + 0 = 0
    <3>3. Fragment(Starting, "close", Do("wait"), "wait", 0)
      BY DoIs
    <3> QED BY <3>2, <3>3, InTurn, 0 \in Nat, 0 + 0 = 0 DEF HaltAndWait
  <2>3. Fragment(Starting, "wait", Do("nil"), "nil", 0)
    <3> DEFINE stmt == [do |-> "nil"]
    <3>1. stmt \in Starting /\ After("wait", stmt) /\ stmt.do = "nil" /\ Do("nil") = <<stmt>>
      BY DEF Starting, Statements, After, TellsEnd, TellsResume, Do
    <3> HIDE DEF stmt
    <3> QED BY <3>1, OneStatement
  <2>4. Fragment(Starting, first, HaltAndWait \o Do("nil"), "nil", 0)
    BY <2>2, <2>3, InTurn, 0 \in Nat, 0 + 0 = 0
  <2>5. Fragment(Starting, "nil", Send("exited"), "send", 0)
    BY SendEndIs DEF EndEvents
  <2>6. Fragment(Starting, first, HaltAndWait \o Do("nil") \o Send("exited"), "send", 0)
    BY <2>4, <2>5, InTurn, 0 \in Nat, 0 + 0 = 0
  <2>7. Fragment(Starting, "new", Ok(req) \o Do("play"), "play", 1)
    <3>1. Fragment(Starting, "new", Ok(req), "respond", 1)
      BY RespondIs DEF Ok
    <3> QED BY <3>1, DoIs, InTurn, 0 \in Nat, 1 \in Nat, 1 + 0 = 1
  <2>8. Handles(Starting, "send", start)
    BY <2>7, TryStartIs
  <2>9. PICK last : \E n \in Nat : Fragment(Starting, "send", start, last, n) /\ (Untested => n = 1)
    BY <2>8 DEF Handles
  <2>10. PICK n \in Nat : Fragment(Starting, "send", start, last, n) /\ (Untested => n = 1)
    BY <2>9
  <2>11. Fragment(Starting, first, s, last, n)
    BY <2>1, <2>6, <2>10, InTurn, 0 \in Nat, 0 + n = n
  <2> QED BY <2>10, <2>11 DEF Handles
<1> QED BY <1>2, <1>3 DEF Restart

(* A statement of a handler is a statement of what it is part of.          *)
Has(s, stmt) == \E i \in 1..Len(s) : s[i] = stmt

(* A statement of a part is a statement of the whole.                      *)
LEMMA HasOver ==
  ASSUME NEW S, NEW s \in Seq(S), NEW t \in Seq(S), NEW stmt, Has(s, stmt) \/ Has(t, stmt)
  PROVE  Has(s \o t, stmt)
<1>1. /\ Len(s \o t) = Len(s) + Len(t) /\ Len(s) \in Nat /\ Len(t) \in Nat
      /\ \A i \in 1..(Len(s) + Len(t)) : (s \o t)[i] = IF i <= Len(s) THEN s[i] ELSE t[i - Len(s)]
  BY ConcatProperties, LenProperties
<1>2. CASE Has(s, stmt)
  <2>1. PICK i \in 1..Len(s) : s[i] = stmt
    BY <1>2 DEF Has
  <2>2. i \in 1..(Len(s) + Len(t)) /\ i <= Len(s)
    BY <1>1
  <2> QED BY <1>1, <2>1, <2>2 DEF Has
<1>3. CASE Has(t, stmt)
  <2>1. PICK i \in 1..Len(t) : t[i] = stmt
    BY <1>3 DEF Has
  <2>2. /\ Len(s) + i \in 1..(Len(s) + Len(t)) /\ ~(Len(s) + i <= Len(s))
        /\ (Len(s) + i) - Len(s) = i
    BY <1>1
  <2> QED BY <1>1, <2>1, <2>2 DEF Has
<1> QED BY <1>2, <1>3

(* A closure that is run in the VM.                                        *)
LEMMA RunInVmIs ==
  ASSUME NEW op \in {"continue", "pause", "step", "restartFrame", "inspect", "eval", "evalInput"},
         op = "continue" => ~noDebug,
         NEW lines, NEW insts, NEW first
  PROVE  /\ Fragment(Calling(lines, insts), first, RunInVm(op), "runInVm", 0)
         /\ Has(RunInVm(op), [do |-> "runInVm", cmd |-> [op |-> op]])
<1> DEFINE stmt == [do |-> "runInVm", cmd |-> [op |-> op]]
<1>1. /\ stmt \in Calling(lines, insts) /\ After(first, stmt) /\ stmt.do = "runInVm"
      /\ RunInVm(op) = <<stmt>> /\ Len(<<stmt>>) = 1 /\ <<stmt>>[1] = stmt
  BY DEF RunInVm, Calling, Statements, RunCommands, After, Updates, TellsEnd, TellsResume
<1> HIDE DEF stmt
<1>2. Fragment(Calling(lines, insts), first, <<stmt>>, "runInVm", 0)
  BY <1>1, OneStatement
<1>3. Has(<<stmt>>, stmt)
  BY <1>1 DEF Has
<1> QED BY <1>1, <1>2, <1>3 DEF stmt

(* The breakpoints that a handler passes to the VM exist.                  *)
LEMMA BreaksExist ==
  /\ \A lines \in SUBSET Nat : ComputeLineBreaks(lines) \in SUBSET PCs
  /\ \A pcs : ComputeInstBreaks(pcs) \in SUBSET PCs
  /\ \A pcs \in SUBSET PCs : ComputeInstBreaks(pcs) = pcs
<1>1. ASSUME NEW lines \in SUBSET Nat PROVE ComputeLineBreaks(lines) \in SUBSET PCs
  BY BreakpointsAreExact, DapAssumption DEF LineStarts
<1>2. /\ \A pcs : ComputeInstBreaks(pcs) \in SUBSET PCs
      /\ \A pcs \in SUBSET PCs : ComputeInstBreaks(pcs) = pcs
  BY DapAssumption DEF ComputeInstBreaks
<1> QED BY <1>1, <1>2

(* Breakpoints are filtered once: what is verified stays as it is.         *)
LEMMA VerifiedAgain ==
  ASSUME NEW lines \in SUBSET Nat
  PROVE  /\ Verified(lines) \in SUBSET Nat
         /\ \A line \in Verified(lines) : InstFromSource(line) >= 0
BY DEF Verified

(* The calls that set breakpoints, and what they carry.                    *)
LEMMA UpdateIs ==
  ASSUME NEW lines \in SUBSET Nat, NEW pcs, NEW first
  PROVE  /\ \A insts : Fragment(Calling(lines, insts), first, UpdateLines(lines), "runInVm", 0)
         /\ Has(UpdateLines(lines), [do |-> "runInVm", cmd |-> [op |-> "lineBreaks",
                                     pcs |-> ComputeLineBreaks(lines)]])
         /\ \A any : Fragment(Calling(any, ComputeInstBreaks(pcs)), first, UpdateInsts(pcs),
                              "runInVm", 0)
         /\ Has(UpdateInsts(pcs), [do |-> "runInVm", cmd |-> [op |-> "instBreaks",
                                   pcs |-> ComputeInstBreaks(pcs)]])
<1>1. ASSUME NEW insts
      PROVE  Fragment(Calling(lines, insts), first, UpdateLines(lines), "runInVm", 0)
  <2> DEFINE stmt == [do |-> "runInVm", cmd |-> [op |-> "lineBreaks",
                                               pcs |-> ComputeLineBreaks(lines)]]
  <2>1. ComputeLineBreaks(lines) \in SUBSET PCs
    BY BreaksExist
  <2>2. stmt \in Statements
    BY <2>1 DEF Statements, RunCommands
  <2>3. /\ stmt \in Calling(lines, insts) /\ After(first, stmt) /\ stmt.do = "runInVm"
        /\ UpdateLines(lines) = <<stmt>>
    BY <2>2 DEF UpdateLines, Calling, After, Updates, TellsEnd, TellsResume
  <2> HIDE DEF stmt
  <2> QED BY <2>3, OneStatement
<1>2. ASSUME NEW any
      PROVE  Fragment(Calling(any, ComputeInstBreaks(pcs)), first, UpdateInsts(pcs), "runInVm", 0)
  <2> DEFINE stmt == [do |-> "runInVm", cmd |-> [op |-> "instBreaks",
                                               pcs |-> ComputeInstBreaks(pcs)]]
  <2>1. ComputeInstBreaks(pcs) \in SUBSET PCs
    BY BreaksExist
  <2>2. stmt \in Statements
    BY <2>1 DEF Statements, RunCommands
  <2>3. /\ stmt \in Calling(any, ComputeInstBreaks(pcs)) /\ After(first, stmt)
        /\ stmt.do = "runInVm" /\ UpdateInsts(pcs) = <<stmt>>
    BY <2>2 DEF UpdateInsts, Calling, After, Updates, TellsEnd, TellsResume
  <2> HIDE DEF stmt
  <2> QED BY <2>3, OneStatement
<1>3. ASSUME NEW stmt PROVE Has(<<stmt>>, stmt)
  BY Len(<<stmt>>) = 1, <<stmt>>[1] = stmt DEF Has
<1> QED BY <1>1, <1>2, <1>3 DEF UpdateLines, UpdateInsts

(* What comes before or after a statement that does not answer.            *)
LEMMA ThenAnswers ==
  ASSUME NEW S, NEW first, NEW s, NEW then, NEW t, NEW last,
         \/ Fragment(S, first, s, then, 0) /\ Fragment(S, then, t, last, 1)
         \/ Fragment(S, first, s, then, 1) /\ Fragment(S, then, t, last, 0)
  PROVE  Fragment(S, first, s \o t, last, 1)
BY InTurn, 0 \in Nat, 1 \in Nat, 0 + 1 = 1, 1 + 0 = 1

(* Two fragments that do not answer make one that does not.                *)
LEMMA ThenNot ==
  ASSUME NEW S, NEW first, NEW s, NEW then, NEW t, NEW last,
         Fragment(S, first, s, then, 0), Fragment(S, then, t, last, 0)
  PROVE  Fragment(S, first, s \o t, last, 0)
BY InTurn, 0 \in Nat, 0 + 0 = 0

(* A response that does not say that the program runs.                     *)
LEMMA FailIs ==
  ASSUME NEW first
  PROVE  /\ Fragment(Starting, first, Fail, "respond", 1)
         /\ \A lines, insts : Fragment(Calling(lines, insts), first, Fail, "respond", 1)
         /\ \A lines, insts : Handles(Calling(lines, insts), first, Fail)
<1>1. /\ Fragment(Starting, first, Fail, "respond", 1)
      /\ \A lines, insts : Fragment(Calling(lines, insts), first, Fail, "respond", 1)
  BY RespondIs DEF Fail
<1> QED BY <1>1, HandlesOnce

(* The response of success: it may say that the program runs, and then only*)
(* after a new session.                                                    *)
LEMMA OkIs ==
  ASSUME NEW req, NEW first, req.op \in {"launch", "restart", "continue", "next"} => first = "new",
         NEW lines, NEW insts
  PROVE  Fragment(Calling(lines, insts), first, Ok(req), "respond", 1)
BY RespondIs DEF Ok

(* onConfigurationDoneRequest()                                            *)
LEMMA ConfigurationDoneIs ==
  ASSUME NEW req, req.op = "configurationDone", NEW first,
         bps \in SUBSET Nat, instBps \in SUBSET PCs
  PROVE  Handles(Calling(bps, instBps), first, ConfigurationDone(req))
<1> DEFINE S == Calling(bps, instBps)
<1>1. CASE NoSession
  <2>1. ConfigurationDone(req) = Fail
    BY <1>1 DEF ConfigurationDone
  <2> QED BY <2>1, FailIs
<1>2. CASE ~NoSession
  <2>1. Fragment(S, first, Ok(req), "respond", 1)
    BY OkIs
  <2>2. \A f : Fragment(S, f, UpdateLines(bps), "runInVm", 0)
    BY UpdateIs
  <2>3. \A f : Fragment(S, f, UpdateInsts(instBps), "runInVm", 0)
    BY UpdateIs, BreaksExist
  <2>4. \A f : Fragment(S, f, Do("play"), "play", 0)
    BY DoIs
  <2> HIDE DEF S
  <2>5. Fragment(S, first, Ok(req) \o UpdateLines(bps), "runInVm", 1)
    BY <2>1, <2>2, ThenAnswers
  <2>6. Fragment(S, first, Ok(req) \o UpdateLines(bps) \o UpdateInsts(instBps), "runInVm", 1)
    BY <2>3, <2>5, ThenAnswers
  <2>7. Fragment(S, first, Ok(req) \o UpdateLines(bps) \o UpdateInsts(instBps) \o Do("play"),
                 "play", 1)
    BY <2>4, <2>6, ThenAnswers
  <2>8. Handles(S, first, ConfigurationDone(req))
    BY <1>2, <2>7, HandlesOnce DEF ConfigurationDone
  <2> QED BY <2>8 DEF S
<1> QED BY <1>1, <1>2

(* terminateSession(): it closes the session, if there is one.             *)
LEMMA TerminateSessionIs ==
  ASSUME NEW first, NEW lines, NEW insts
  PROVE  Fragment(Calling(lines, insts), first, TerminateSession,
                  IF NoSession THEN first ELSE "close", 0)
<1>1. Fragment(Calling(lines, insts), first, <<>>, first, 0)
  BY NoStatement
<1>2. Fragment(Calling(lines, insts), first, Do("terminate") \o Do("close"), "close", 0)
  BY DoIs, ThenNot
<1> QED BY <1>1, <1>2 DEF TerminateSession

(* onDisconnectRequest()                                                   *)
LEMMA DisconnectIs ==
  ASSUME NEW req, req.op = "disconnect", NEW first, NEW lines, NEW insts
  PROVE  Handles(Calling(lines, insts), first, Disconnect(req))
<1>1. \A f : Fragment(Calling(lines, insts), f, Ok(req), "respond", 1)
  BY OkIs
<1>2. Fragment(Calling(lines, insts), first, Disconnect(req), "respond", 1)
  BY <1>1, TerminateSessionIs, ThenAnswers DEF Disconnect
<1> QED BY <1>2, HandlesOnce

(* onTerminateRequest(): without a session it tells of the end all the same*)
LEMMA TerminateReqIs ==
  ASSUME NEW req, req.op = "terminate", NEW lines, NEW insts
  PROVE  Handles(Calling(lines, insts), IF NoSession THEN "close" ELSE "none", TerminateReq(req))
<1> DEFINE first == IF NoSession THEN "close" ELSE "none"
<1>1. Fragment(Calling(lines, insts), first, TerminateSession, "close", 0)
  BY TerminateSessionIs
<1>2. Fragment(Calling(lines, insts), "close", Send("terminated"), "send", 0)
  BY SendEndIs DEF EndEvents
<1>3. Fragment(Calling(lines, insts), "send", Ok(req), "respond", 1)
  BY OkIs
<1>4. Fragment(Calling(lines, insts), first, TerminateSession \o Send("terminated"), "send", 0)
  BY <1>1, <1>2, ThenNot
<1>5. Fragment(Calling(lines, insts), first, TerminateReq(req), "respond", 1)
  BY <1>3, <1>4, ThenAnswers DEF TerminateReq
<1> QED BY <1>5, HandlesOnce

(* onContinueRequest() and those of the steps: they say that the program   *)
(* runs because they are going to resume it.                               *)
Resumes(s) == Has(s, ToContinue)

(* onContinueRequest(), onNextRequest(): they fail, or answer that the     *)
(* program runs and then resume it.                                        *)
LEMMA ContinueIs ==
  ASSUME NEW req, NEW lines, NEW insts, NEW first,
         NEW s, \/ req.op = "continue" /\ s \in Continue(req)
                \/ req.op = "next" /\ s \in StepNext(req)
  PROVE  \/ Handles(Calling(lines, insts), first, s)
         \/ Handles(Calling(lines, insts), "new", s) /\ Resumes(s)
<1> DEFINE S == Calling(lines, insts)
<1>1. CASE s = Fail
  BY <1>1, FailIs
<1>2. CASE ~noDebug /\ (s = Ok(req) \o Resume \/ s = Ok(req) \o (RunInVm("step") \o Resume))
  <2>1. Fragment(S, "new", Ok(req), "respond", 1)
    BY OkIs
  <2>2. \A f : Fragment(S, f, Resume, "runInVm", 0) /\ Has(Resume, ToContinue)
    BY <1>2, RunInVmIs DEF Resume, ToContinue
  <2>3. \A f : Fragment(S, f, RunInVm("step"), "runInVm", 0)
    BY RunInVmIs
  <2> HIDE DEF S
  <2>4. Fragment(S, "respond", RunInVm("step") \o Resume, "runInVm", 0)
    BY <2>2, <2>3, ThenNot
  <2>5. Fragment(S, "new", s, "runInVm", 1)
    BY <1>2, <2>1, <2>2, <2>4, ThenAnswers
  <2>6. Has(s, ToContinue)
    <3>1. Ok(req) \in Seq(S) /\ Resume \in Seq(S) /\ RunInVm("step") \in Seq(S)
      BY <2>1, <2>2, <2>3 DEF Fragment
    <3>2. RunInVm("step") \o Resume \in Seq(S) /\ Has(RunInVm("step") \o Resume, ToContinue)
      BY <2>2, <3>1, HasOver, ConcatProperties
    <3>3. /\ Has(Ok(req) \o Resume, ToContinue)
          /\ Has(Ok(req) \o (RunInVm("step") \o Resume), ToContinue)
      BY <2>2, <3>1, <3>2, HasOver
    <3> QED BY <1>2, <3>3
  <2> QED BY <2>5, <2>6, HandlesOnce DEF Resumes, S
<1> QED BY <1>1, <1>2 DEF Continue, StepNext, Debugged, RespondFirst

(* The requests that ask the VM for something, and then answer.            *)
LEMMA AsksIs ==
  ASSUME NEW op \in {"pause", "step", "restartFrame", "inspect", "eval", "evalInput"},
         NEW req, req.op \notin {"launch", "restart", "continue", "next"},
         NEW resp \in {Ok(req), Fail}, NEW lines, NEW insts, NEW first
  PROVE  /\ Handles(Calling(lines, insts), first, RunInVm(op) \o resp)
         /\ Handles(Calling(lines, insts), first, RunInVm(op) \o resp \o Send("stopped"))
<1> DEFINE S == Calling(lines, insts)
<1>1. Fragment(S, first, RunInVm(op), "runInVm", 0)
  BY RunInVmIs
<1>2. Fragment(S, "runInVm", resp, "respond", 1)
  BY OkIs, FailIs
<1>3. Fragment(S, "respond", Send("stopped"), "send", 0)
  BY SendIs
<1> HIDE DEF S
<1>4. Fragment(S, first, RunInVm(op) \o resp, "respond", 1)
  BY <1>1, <1>2, ThenAnswers
<1>5. Fragment(S, first, RunInVm(op) \o resp \o Send("stopped"), "send", 1)
  BY <1>3, <1>4, ThenAnswers
<1> QED BY <1>4, <1>5, HandlesOnce DEF S

(* onSetBreakpointsRequest(), onSetInstructionBreakpointsRequest(): a      *)
(* session that there is gets them.                                        *)
LEMMA SetBreakpointsIs ==
  ASSUME NEW req, req.op = "setBreakpoints", req.lines \in SUBSET Nat, NEW insts, NEW first
  PROVE  LET lines == IF req.source = "errors" THEN bps ELSE Verified(req.lines)
         IN  /\ Handles(Calling(lines, insts), first, SetBreakpoints(req))
             /\ req.source # "errors" /\ ~NoSession =>
                  Has(SetBreakpoints(req), [do |-> "runInVm", cmd |-> [op |-> "lineBreaks",
                                                         pcs |-> ComputeLineBreaks(lines)]])
<1> DEFINE lines == IF req.source = "errors" THEN bps ELSE Verified(req.lines)
           S == Calling(lines, insts)
<1>1. CASE req.source = "errors"
  <2>1. SetBreakpoints(req) = Fail
    BY <1>1 DEF SetBreakpoints
  <2>2. Handles(S, first, Fail)
    BY FailIs
  <2> QED BY <1>1, <2>1, <2>2
<1>2. \A f : Fragment(S, f, Ok(req), "respond", 1)
  BY OkIs
<1>3. CASE req.source # "errors" /\ NoSession
  <2>1. Fragment(S, first, <<>>, first, 0)
    BY NoStatement
  <2>2. Fragment(S, first, <<>> \o Ok(req), "respond", 1)
    BY <1>2, <2>1, ThenAnswers
  <2> QED BY <1>3, <2>2, HandlesOnce DEF SetBreakpoints
<1>4. CASE req.source # "errors" /\ ~NoSession
  <2>1. Verified(req.lines) \in SUBSET Nat
    BY VerifiedAgain
  <2> DEFINE stmt == [do |-> "runInVm", cmd |-> [op |-> "lineBreaks",
                                               pcs |-> ComputeLineBreaks(Verified(req.lines))]]
  <2>2. /\ Fragment(S, first, UpdateLines(Verified(req.lines)), "runInVm", 0)
        /\ Has(UpdateLines(Verified(req.lines)), stmt)
    BY <1>4, <2>1, UpdateIs
  <2> HIDE DEF S, stmt
  <2>3. SetBreakpoints(req) = UpdateLines(Verified(req.lines)) \o Ok(req)
    BY <1>4 DEF SetBreakpoints
  <2>4. Fragment(S, first, SetBreakpoints(req), "respond", 1)
    BY <1>2, <2>2, <2>3, ThenAnswers
  <2>5. Has(SetBreakpoints(req), stmt)
    <3>1. UpdateLines(Verified(req.lines)) \in Seq(S) /\ Ok(req) \in Seq(S)
      BY <1>2, <2>2 DEF Fragment
    <3>2. Has(UpdateLines(Verified(req.lines)) \o Ok(req), stmt)
      BY <2>2, <3>1, HasOver
    <3> QED BY <2>3, <3>2
  <2>6. Handles(S, first, SetBreakpoints(req))
    BY <2>4, HandlesOnce
  <2> QED BY <1>4, <2>5, <2>6 DEF S, stmt
<1> QED BY <1>1, <1>3, <1>4

(* onSetInstructionBreakpointsRequest(): what it keeps, it passes to the   *)
(* VM.                                                                     *)
LEMMA SetInstructionBreakpointsIs ==
  ASSUME NEW req, req.op = "setInstructionBreakpoints", NEW lines, NEW first
  PROVE  LET insts == IF NoSession THEN instBps ELSE ComputeInstBreaks(req.pcs)
         IN  /\ Handles(Calling(lines, insts), first, SetInstructionBreakpoints(req))
             /\ ~NoSession =>
                  Has(SetInstructionBreakpoints(req),
                      [do |-> "runInVm", cmd |-> [op |-> "instBreaks", pcs |-> insts]])
<1> DEFINE insts == IF NoSession THEN instBps ELSE ComputeInstBreaks(req.pcs)
           S == Calling(lines, insts)
<1>1. CASE NoSession
  BY <1>1, FailIs DEF SetInstructionBreakpoints
<1>2. CASE ~NoSession
  <2>1. \A f : Fragment(S, f, Ok(req), "respond", 1)
    BY OkIs
  <2> DEFINE stmt == [do |-> "runInVm", cmd |-> [op |-> "instBreaks",
                                               pcs |-> ComputeInstBreaks(req.pcs)]]
  <2>2. /\ Fragment(S, first, UpdateInsts(req.pcs), "runInVm", 0)
        /\ Has(UpdateInsts(req.pcs), stmt)
    BY <1>2, UpdateIs, {} \in SUBSET Nat
  <2> HIDE DEF S, stmt
  <2>3. SetInstructionBreakpoints(req) = UpdateInsts(req.pcs) \o Ok(req)
    BY <1>2 DEF SetInstructionBreakpoints
  <2>4. Fragment(S, first, SetInstructionBreakpoints(req), "respond", 1)
    BY <2>1, <2>2, <2>3, ThenAnswers
  <2>5. Has(SetInstructionBreakpoints(req), stmt)
    <3>1. UpdateInsts(req.pcs) \in Seq(S) /\ Ok(req) \in Seq(S)
      BY <2>1, <2>2 DEF Fragment
    <3>2. Has(UpdateInsts(req.pcs) \o Ok(req), stmt)
      BY <2>2, <3>1, HasOver
    <3> QED BY <2>3, <3>2
  <2>6. Handles(S, first, SetInstructionBreakpoints(req))
    BY <2>4, HandlesOnce
  <2> QED BY <1>2, <2>5, <2>6 DEF S, stmt
<1> QED BY <1>1, <1>2

(* What the invariants need to know of a handler that is about to run.     *)
Handled(s, lines, insts) ==
  /\ s \in Seq(Statements)
  /\ \A i \in 2..Len(s) : After(s[i - 1].do, s[i])
  /\ s # <<>> => /\ s[1].do # "nil"
                 /\ TellsEnd(s[1]) => NoSession
                 /\ TellsResume(s[1]) => Resumes(s)
  /\ Resumes(s) => ~noDebug /\ \A i \in 1..Len(s) : s[i].do \notin {"new", "nil"}
  /\ \A i \in 1..Len(s) :
       /\ s[i].do # "closeQueue"
       /\ Updates(s[i], "lineBreaks") => s[i].cmd.pcs = ComputeLineBreaks(lines)
       /\ Updates(s[i], "instBreaks") => s[i].cmd.pcs = insts
  /\ Untested => \E i \in 1..Len(s) :
       s[i].do = "respond" /\ \A j \in 1..Len(s) : s[j].do = "respond" => j = i

(* What such a handler is, statement by statement.                         *)
LEMMA HandlesIs ==
  ASSUME NEW S, S \subseteq Statements, NEW first \in {"none", "close", "new"}, NEW s,
         Handles(S, first, s)
  PROVE  /\ s \in Seq(S) /\ s \in Seq(Statements)
         /\ \A i \in 1..Len(s) : s[i] \in S
         /\ \A i \in 2..Len(s) : After(s[i - 1].do, s[i])
         /\ s # <<>> => /\ s[1].do # "nil"
                        /\ TellsEnd(s[1]) => first = "close"
                        /\ TellsResume(s[1]) => first = "new"
         /\ Untested => \E i \in 1..Len(s) :
              s[i].do = "respond" /\ \A j \in 1..Len(s) : s[j].do = "respond" => j = i
<1>1. PICK last : \E n \in Nat : Fragment(S, first, s, last, n) /\ (Untested => n = 1)
  BY DEF Handles
<1>2. PICK n \in Nat : Fragment(S, first, s, last, n) /\ (Untested => n = 1)
  BY <1>1
<1>3. s \in Seq(S)
  BY <1>2 DEF Fragment
<1>4. s \in Seq(Statements) /\ Len(s) \in Nat /\ (s # <<>> => Len(s) # 0)
      /\ \A i \in 1..Len(s) : s[i] \in S
  BY <1>3, SeqMonotonic, LenProperties, EmptySeq, ElementOfSeq
<1>5. \A i \in 1..Len(s) : After(IF i = 1 THEN first ELSE s[i - 1].do, s[i])
  BY <1>2 DEF Fragment
<1>6. ASSUME NEW i \in 2..Len(s) PROVE After(s[i - 1].do, s[i])
  <2>1. i \in 1..Len(s) /\ i # 1
    BY <1>4
  <2> QED BY <1>5, <2>1
<1>7. s # <<>> => After(first, s[1])
  <2>1. s # <<>> => 1 \in 1..Len(s)
    BY <1>4
  <2> QED BY <1>5, <2>1
<1>8. s # <<>> => /\ s[1].do # "nil"
                  /\ TellsEnd(s[1]) => first = "close"
                  /\ TellsResume(s[1]) => first = "new"
  BY <1>7 DEF After
<1>9. Untested => \E i \in 1..Len(s) :
              s[i].do = "respond" /\ \A j \in 1..Len(s) : s[j].do = "respond" => j = i
  BY <1>2 DEF Fragment
<1> QED BY <1>3, <1>4, <1>6, <1>8, <1>9

(* The handlers that start a session call nothing in its VM.               *)
LEMMA HandledStarting ==
  ASSUME NEW s, Handles(Starting, "none", s), NEW lines, NEW insts
  PROVE  Handled(s, lines, insts)
<1>1. Starting \subseteq Statements
  BY DEF Starting
<1>2. ASSUME NEW stmt \in Starting
      PROVE  /\ stmt.do # "closeQueue" /\ stmt # ToContinue
             /\ ~Updates(stmt, "lineBreaks") /\ ~Updates(stmt, "instBreaks")
  BY DEF Starting, ToContinue, Updates
<1>3. \A i \in 1..Len(s) : s[i] \in Starting
  BY <1>1, HandlesIs
<1>4. ~Resumes(s)
  BY <1>2, <1>3 DEF Resumes, Has
<1> QED BY <1>1, <1>2, <1>3, <1>4, HandlesIs DEF Handled

(* The handlers that call it neither start a session nor let one go.       *)
LEMMA HandledCalling ==
  ASSUME NEW s, NEW lines, NEW insts, NEW first \in {"none", "close", "new"},
         Handles(Calling(lines, insts), first, s),
         first = "close" => NoSession, first = "new" => Resumes(s)
  PROVE  Handled(s, lines, insts)
<1> DEFINE S == Calling(lines, insts)
<1>1. S \subseteq Statements /\ Handles(S, first, s)
  BY DEF Calling
<1>2. ASSUME NEW stmt \in S
      PROVE  /\ stmt.do \notin {"closeQueue", "new", "nil"}
             /\ stmt = ToContinue => ~noDebug
             /\ Updates(stmt, "lineBreaks") => stmt.cmd.pcs = ComputeLineBreaks(lines)
             /\ Updates(stmt, "instBreaks") => stmt.cmd.pcs = insts
  BY DEF Calling, ToContinue, Updates
<1> HIDE DEF S
<1>3. \A i \in 1..Len(s) : s[i] \in S
  BY <1>1, HandlesIs
<1>4. Resumes(s) => ~noDebug
  BY <1>2, <1>3 DEF Resumes, Has
<1>5. s \in Seq(Statements)
  BY <1>1, HandlesIs
<1>6. \A i \in 2..Len(s) : After(s[i - 1].do, s[i])
  BY <1>1, HandlesIs
<1>7. s # <<>> => /\ s[1].do # "nil"
                  /\ TellsEnd(s[1]) => first = "close"
                  /\ TellsResume(s[1]) => first = "new"
  BY <1>1, HandlesIs
<1>8. Untested => \E i \in 1..Len(s) :
        s[i].do = "respond" /\ \A j \in 1..Len(s) : s[j].do = "respond" => j = i
  BY <1>1, HandlesIs
<1> QED BY <1>2, <1>3, <1>4, <1>5, <1>6, <1>7, <1>8 DEF Handled

(* The breakpoints that are known when the request was received.           *)
LinesThen(req) ==
  IF req.op = "setBreakpoints" /\ req.source = "ok" THEN Verified(req.lines) ELSE bps
InstsThen(req) ==
  IF req.op = "setInstructionBreakpoints" /\ ~NoSession
    THEN ComputeInstBreaks(req.pcs) ELSE instBps

(* What a request carries.                                                 *)
LEMMA RequestsAre ==
  ASSUME NEW req \in Requests
  PROVE  /\ req.op \in {"configurationDone", "disconnect", "terminate", "continue", "next",
                        "pause", "restartFrame", "stackTrace", "evaluate", "launch", "restart",
                        "setBreakpoints", "setInstructionBreakpoints"}
         /\ req.op \in {"launch", "restart"} => req.args \in Launches
         /\ req.op = "setBreakpoints" =>
              req.lines \in SUBSET Nat /\ req.source \in {"ok", "errors"}
BY DapAssumption DEF Requests

(* dispatchRequest()                                                       *)
LEMMA HandlersAre ==
  ASSUME bps \in SUBSET Nat, instBps \in SUBSET PCs,
         NEW req \in Requests, NEW s \in Handlers(req)
  PROVE  Handled(s, LinesThen(req), InstsThen(req))
<1> DEFINE L == LinesThen(req)
           I == InstsThen(req)
<1>0. req.op \notin {"setBreakpoints", "setInstructionBreakpoints"} => L = bps /\ I = instBps
  BY DEF LinesThen, InstsThen
<1> HIDE DEF L, I
<1>1. CASE req.op = "launch"
  BY <1>1, RequestsAre, LaunchIs, HandledStarting DEF Handlers, L, I
<1>2. CASE req.op = "restart"
  BY <1>2, RequestsAre, RestartIs, HandledStarting DEF Handlers, L, I
<1>3. CASE req.op = "configurationDone"
  <2>1. Handles(Calling(L, I), "none", s)
    BY <1>0, <1>3, ConfigurationDoneIs DEF Handlers
  <2> QED BY <2>1, HandledCalling DEF L, I
<1>4. CASE req.op = "disconnect"
  <2>1. Handles(Calling(L, I), "none", s)
    BY <1>4, DisconnectIs DEF Handlers
  <2> QED BY <2>1, HandledCalling DEF L, I
<1>5. CASE req.op = "terminate"
  <2>1. Handles(Calling(L, I), IF NoSession THEN "close" ELSE "none", s)
    BY <1>5, TerminateReqIs DEF Handlers
  <2> QED BY <2>1, HandledCalling DEF L, I
<1>6. CASE req.op = "continue" \/ req.op = "next"
  <2>1. (req.op = "continue" /\ s \in Continue(req)) \/ (req.op = "next" /\ s \in StepNext(req))
    BY <1>6 DEF Handlers
  <2>2. \/ Handles(Calling(L, I), "none", s)
        \/ Handles(Calling(L, I), "new", s) /\ Resumes(s)
    BY <2>1, ContinueIs
  <2> QED BY <2>2, HandledCalling DEF L, I
<1>7. CASE req.op \in {"pause", "restartFrame", "stackTrace", "evaluate"}
  <2>1. \/ s = Fail
        \/ \E op \in {"pause", "step", "restartFrame", "inspect", "eval", "evalInput"},
               resp \in {Ok(req), Fail} :
             s \in {RunInVm(op) \o resp, RunInVm(op) \o resp \o Send("stopped")}
    <3>1. CASE req.op = "pause"
      <4>1. s = Fail \/ s = RunInVm("pause") \o Ok(req)
        BY <3>1 DEF Handlers, PauseReq
      <4> QED BY <4>1
    <3>2. CASE req.op = "restartFrame"
      <4>1. \/ s = Fail \/ s = RunInVm("restartFrame") \o Fail
            \/ s = RunInVm("restartFrame") \o Ok(req) \o Send("stopped")
        BY <3>2 DEF Handlers, RestartFrame, Debugged
      <4> QED BY <4>1
    <3>3. CASE req.op = "stackTrace"
      <4>1. s = Fail \/ s = RunInVm("inspect") \o Ok(req)
        BY <3>3 DEF Handlers, StackTrace, Debugged
      <4> QED BY <4>1
    <3>4. CASE req.op = "evaluate"
      <4>1. \/ s = Fail
            \/ \E op \in {"eval", "evalInput"}, resp \in {Ok(req), Fail} : s = RunInVm(op) \o resp
        BY <3>4 DEF Handlers, Evaluate, Debugged
      <4> QED BY <4>1
    <3> QED BY <1>7, <3>1, <3>2, <3>3, <3>4
  <2>2. Handles(Calling(L, I), "none", s)
    <3>1. CASE s = Fail
      BY <3>1, FailIs
    <3>2. CASE s # Fail
      <4>1. PICK op \in {"pause", "step", "restartFrame", "inspect", "eval", "evalInput"},
                 resp \in {Ok(req), Fail} :
                   s \in {RunInVm(op) \o resp, RunInVm(op) \o resp \o Send("stopped")}
        BY <2>1, <3>2
      <4>2. req.op \notin {"launch", "restart", "continue", "next"}
        BY <1>7
      <4>3. /\ Handles(Calling(L, I), "none", RunInVm(op) \o resp)
            /\ Handles(Calling(L, I), "none", RunInVm(op) \o resp \o Send("stopped"))
        BY <4>2, AsksIs
      <4> QED BY <4>1, <4>3
    <3> QED BY <3>1, <3>2
  <2> QED BY <2>2, HandledCalling DEF L, I
<1>8. CASE req.op = "setBreakpoints"
  <2>1. Handles(Calling(L, I), "none", s)
    <3>1. L = IF req.source = "errors" THEN bps ELSE Verified(req.lines)
      BY <1>8, RequestsAre DEF L, LinesThen
    <3>2. s = SetBreakpoints(req)
      BY <1>8 DEF Handlers
    <3> QED BY <1>8, <3>1, <3>2, RequestsAre, SetBreakpointsIs
  <2> QED BY <2>1, HandledCalling DEF L, I
<1>9. CASE req.op = "setInstructionBreakpoints"
  <2>1. Handles(Calling(L, I), "none", s)
    <3>1. I = IF NoSession THEN instBps ELSE ComputeInstBreaks(req.pcs)
      BY <1>9 DEF I, InstsThen
    <3>2. s = SetInstructionBreakpoints(req)
      BY <1>9 DEF Handlers
    <3> QED BY <1>9, <3>1, <3>2, SetInstructionBreakpointsIs
  <2> QED BY <2>1, HandledCalling DEF L, I
<1> QED BY <1>1, <1>2, <1>3, <1>4, <1>5, <1>6, <1>7, <1>8, <1>9, RequestsAre

(* The deferred functions of Run() only end things.                        *)
Ending == {"closeTerminal", "halt", "close", "closeQueue", "join"}

(* They neither send nor call.                                             *)
LEMMA DeferredIs ==
  Deferred \in Seq(Statements) /\ \A i \in 1..Len(Deferred) : Deferred[i].do \in Ending
<1> DEFINE S == [do : Ending]
<1>1. \A what \in Ending : Do(what) \in Seq(S)
  BY DEF Do
<1> HIDE DEF S
<1>2. <<>> \in Seq(S)
  BY EmptySeq
<1>3. (IF link = "none" THEN <<>> ELSE Do("closeTerminal")) \in Seq(S)
  BY <1>1, <1>2 DEF Ending
<1>4. (IF NoSession THEN <<>> ELSE Do("halt") \o Do("close")) \in Seq(S)
  BY <1>1, <1>2, ConcatProperties DEF Ending
<1>5. Do("closeQueue") \in Seq(S) /\ Do("join") \in Seq(S)
  BY <1>1 DEF Ending
<1>6. Deferred \in Seq(S)
  BY <1>3, <1>4, <1>5, ConcatProperties DEF Deferred
<1>7. Deferred \in Seq(Statements)
  <2>1. S \subseteq Statements
    BY DEF S, Statements, Ending
  <2> QED BY <1>6, <2>1, SeqMonotonic
<1>8. \A i \in 1..Len(Deferred) : Deferred[i] \in S
  BY <1>6, ElementOfSeq
<1> QED BY <1>7, <1>8 DEF S

-----------------------------------------------------------------------------
(* The queues and what a step makes of them.                               *)
LEMMA Rest ==
  ASSUME todo \in Seq(Statements), todo # <<>>
  PROVE  /\ Tail(todo) \in Seq(Statements)
         /\ Len(todo) \in Nat /\ Len(Tail(todo)) \in Nat /\ Len(todo) = Len(Tail(todo)) + 1
         /\ Head(todo) = todo[1] /\ todo[1] \in Statements /\ 1 \in 1..Len(todo)
         /\ \A i \in 1..Len(Tail(todo)) : i + 1 \in 1..Len(todo) /\ Tail(todo)[i] = todo[i + 1]
         /\ Tail(todo) # <<>> => /\ 1 \in 1..Len(Tail(todo)) /\ 2 \in 2..Len(todo)
                                 /\ Tail(todo)[1] = todo[2]
<1>1. /\ Tail(todo) \in Seq(Statements) /\ Head(todo) \in Statements
      /\ Len(Tail(todo)) = Len(todo) - 1 /\ Head(todo) = todo[1]
      /\ \A i \in 1..Len(Tail(todo)) : Tail(todo)[i] = todo[i + 1]
  BY HeadTailProperties
<1>2. Len(todo) \in Nat /\ Len(Tail(todo)) \in Nat /\ (Tail(todo) # <<>> => Len(Tail(todo)) # 0)
  BY <1>1, LenProperties, EmptySeq
<1> QED BY <1>1, <1>2

(* What is left of the VM's events when the first of them is taken.        *)
LEMMA Outbox ==
  ASSUME outbox \in Seq(Events), outbox # <<>>
  PROVE  /\ Tail(outbox) \in Seq(Events)
         /\ Len(outbox) \in Nat /\ Len(Tail(outbox)) \in Nat /\ Len(outbox) = Len(Tail(outbox)) + 1
         /\ Head(outbox) = outbox[1] /\ outbox[1] \in Events /\ 1 \in 1..Len(outbox)
         /\ \A i \in 1..Len(Tail(outbox)) :
              i + 1 \in 1..Len(outbox) /\ Tail(outbox)[i] = outbox[i + 1]
<1>1. /\ Tail(outbox) \in Seq(Events) /\ Head(outbox) \in Events
      /\ Len(Tail(outbox)) = Len(outbox) - 1 /\ Head(outbox) = outbox[1]
      /\ \A i \in 1..Len(Tail(outbox)) : Tail(outbox)[i] = outbox[i + 1]
  BY HeadTailProperties
<1>2. Len(outbox) \in Nat /\ Len(Tail(outbox)) \in Nat
  BY <1>1, LenProperties
<1> QED BY <1>1, <1>2

(* send(): the message is the last in the queue, or the client has lost it.*)
LEMMA Enqueues ==
  ASSUME DapTypeOK, NEW msg \in Messages, Enqueue(msg)
  PROVE  /\ sendQueue' \in Seq(Messages) /\ Len(sendQueue') <= QueueCap /\ Len(sendQueue) \in Nat
         /\ view' \in {"none", "running", "stopped", "ended", "lost"}
         /\ ~queueClosed /\ ~queueClosed'
         /\ \/ view' = "lost"
            \/ /\ view' = view
               /\ Len(sendQueue') = Len(sendQueue) + 1
               /\ \A i \in 1..Len(sendQueue) : sendQueue'[i] = sendQueue[i]
               /\ sendQueue'[Len(sendQueue) + 1] = msg
<1>1. /\ sendQueue \in Seq(Messages) /\ Len(sendQueue) <= QueueCap /\ QueueCap \in Nat
      /\ view \in {"none", "running", "stopped", "ended", "lost"}
  BY DapAssumption DEF DapTypeOK
<1>2. /\ Append(sendQueue, msg) \in Seq(Messages) /\ Len(Append(sendQueue, msg)) = Len(sendQueue) + 1
      /\ \A i \in 1..Len(sendQueue) : Append(sendQueue, msg)[i] = sendQueue[i]
      /\ Append(sendQueue, msg)[Len(sendQueue) + 1] = msg /\ Len(sendQueue) \in Nat
  BY <1>1, AppendProperties, LenProperties
<1>3. CASE HasRoom
  BY <1>1, <1>2, <1>3 DEF Enqueue, HasRoom
<1>4. CASE ~HasRoom
  BY <1>1, <1>2, <1>4 DEF Enqueue
<1> QED BY <1>3, <1>4

(* The messages of the host: a stop is sent as a stop, and neither output  *)
(* nor Continued() says that the program runs or has ended.                *)
LEMMA HostEvents ==
  ASSUME NEW ev \in Events
  PROVE  /\ HostEvent(ev) \in Messages
         /\ ev \in StopEvents => HostEvent(ev) = "stopped"
         /\ ev \in {"output", "continued"} => HostEvent(ev) \notin Unstops
BY DEF Events, StopEvents, EndEvents, HostEvent, Messages, Unstops

(* sendFromQueue() takes the first.                                        *)
LEMMA Delivers ==
  ASSUME DapTypeOK, sendQueue # <<>>
  PROVE  /\ Tail(sendQueue) \in Seq(Messages) /\ Len(Tail(sendQueue)) <= QueueCap
         /\ Len(sendQueue) \in Nat /\ Len(sendQueue) = Len(Tail(sendQueue)) + 1
         /\ Len(Tail(sendQueue)) \in Nat
         /\ Head(sendQueue) = sendQueue[1] /\ sendQueue[1] \in Messages
         /\ \A i \in 1..Len(Tail(sendQueue)) : Tail(sendQueue)[i] = sendQueue[i + 1]
         /\ Shown(Head(sendQueue)) \in {"none", "running", "stopped", "ended", "lost"}
<1>1. sendQueue \in Seq(Messages) /\ Len(sendQueue) <= QueueCap /\ QueueCap \in Nat
  BY DapAssumption DEF DapTypeOK
<1>2. /\ Tail(sendQueue) \in Seq(Messages) /\ Head(sendQueue) \in Messages
      /\ Len(Tail(sendQueue)) = Len(sendQueue) - 1 /\ Head(sendQueue) = sendQueue[1]
      /\ \A i \in 1..Len(Tail(sendQueue)) : Tail(sendQueue)[i] = sendQueue[i + 1]
  BY <1>1, HeadTailProperties
<1>3. Len(sendQueue) \in Nat /\ Len(Tail(sendQueue)) \in Nat
  BY <1>1, <1>2, LenProperties
<1>4. Shown(Head(sendQueue)) \in {"none", "running", "stopped", "ended", "lost"}
  BY DEF DapTypeOK, Shown
<1> QED BY <1>1, <1>2, <1>3, <1>4

-----------------------------------------------------------------------------
(* What a step may change.  A statement of the handler is taken off `todo`,*)
(* but for the Play() that panics.                                         *)
Advances == todo # <<>> /\ todo' = Tail(todo) /\ UNCHANGED <<bps, instBps>>
Handling == UNCHANGED <<handler, todo, answers, bps, instBps, queueClosed>>

(* Every statement but a second Play() takes itself off the handler.       *)
LEMMA StatementAdvances ==
  ASSUME Statement
  PROVE  DoPlayAgain \/ Advances
BY DEF Statement, Advances, DoSend, DoRespond, DoRunInVm, DoNew, DoPlay, DoHalt, DoTerminate,
       DoClose, DoWait, DoNil, DoCloseQueue, DoJoin, DoStartTerminal, DoBanner, DoCloseTerminal,
       AtStatement, Advance, AdvanceOn, bpVars

(* The steps of the VM, and the return of a call from it.                  *)
VmMoves == CallReturns \/ VmRuns \/ VmTests \/ VmSends \/ VmSendPanics

(* The steps that are none of the handler's leave the handler alone.       *)
LEMMA OthersHandle ==
  ASSUME [DapNext]_vars
  PROVE  \/ Receive \/ ReceiveEof \/ Statement
         \/ /\ Handling
            /\ VmMoves \/ (UNCHANGED runVars /\ (UNCHANGED <<sendQueue, view>> \/ Deliver))
<1>1. CASE ClientSends \/ HangUp
  BY <1>1 DEF ClientSends, HangUp, Handling, handlerVars, bpVars, queueVars
<1>2. CASE CallReturns \/ VmRuns \/ VmTests \/ VmSendPanics
  BY <1>2 DEF CallReturns, VmRuns, VmTests, VmSendPanics, VmMoves,
              Handling, dapVars, handlerVars, bpVars, queueVars
<1>3. CASE VmSends
  BY <1>3 DEF VmSends, Enqueue, Handling, handlerVars, bpVars, VmMoves
<1>4. CASE Deliver \/ WriterEnds
  BY <1>4 DEF Deliver, WriterEnds, Handling, handlerVars, bpVars, queueVars
<1>5. CASE TerminalActs \/ TerminalTakes
  BY <1>5 DEF TerminalActs, TerminalTakes, Linked, Handling, handlerVars, bpVars, queueVars
<1>6. CASE UNCHANGED vars
  BY <1>6 DEF vars, dapVars, Handling, handlerVars, bpVars, queueVars
<1> QED BY <1>1, <1>2, <1>3, <1>4, <1>5, <1>6 DEF DapNext

(* The steps of the run that the connection is at.                         *)
RunMoves ==
  \/ DoRunInVm \/ DoNew \/ DoPlay \/ DoHalt \/ DoTerminate \/ DoClose \/ DoWait \/ DoNil
  \/ CallReturns \/ VmRuns \/ VmTests \/ VmSends \/ VmSendPanics

(* The other steps leave the session alone.                                *)
LEMMA OthersKeepRun ==
  ASSUME [DapNext]_vars
  PROVE  RunMoves \/ UNCHANGED runVars
<1>1. CASE ClientSends \/ HangUp \/ Receive \/ ReceiveEof \/ Deliver \/ WriterEnds
           \/ TerminalActs \/ TerminalTakes
  BY <1>1 DEF ClientSends, HangUp, Receive, ReceiveEof, Deliver, WriterEnds, TerminalActs,
              TerminalTakes, Linked
<1>2. CASE Statement
  BY <1>2 DEF Statement, RunMoves, DoSend, DoRespond, DoPlayAgain, DoCloseQueue, DoJoin,
              DoStartTerminal, DoBanner, DoCloseTerminal, AdvanceOn
<1>3. CASE UNCHANGED vars
  BY <1>3 DEF vars
<1> QED BY <1>1, <1>2, <1>3 DEF DapNext, RunMoves

(* The sequences of events that the VM posts.                              *)
LEMMA Posted ==
  /\ \A a \in Events : <<a>> \in Seq(Events)
  /\ \A a, b \in Events : <<a, b>> \in Seq(Events)
  /\ <<>> \in Seq(Events)
BY EmptySeq

(* The VM's events, and the closure it runs, are what they should be.      *)
LEMMA RunVmTypes ==
  ASSUME RunTypeOK, RunVm
  PROVE  RunTypeOK'
<1>1. ASSUME NEW evs \in {<<>>, <<"step">>, <<"breakpoint">>, <<"step", "breakpoint">>,
                         <<"exception">>, <<"output">>, <<"i/o wait">>, <<"continued">>,
                         <<"continued", "output">>, <<"pause">>, <<"output", "panicked">>,
                         <<"exited", "terminated">>}
      PROVE  evs \in Seq(Events)
  BY Posted DEF Events, StopEvents, EndEvents
<1>2. CASE Stop \/ Report
  BY <1>1, <1>2 DEF Stop, Report, Playing, Post, RunStep, breakVars, RunTypeOK, HostTypeOK, Lives
<1>3. CASE Serve
  <2>1. outbox' \in Seq(Events) /\ UNCHANGED <<suppressed, passed>>
    BY <1>1, <1>3 DEF Serve, Post
  <2>2. lineBreaks' \in SUBSET PCs /\ instBreaks' \in SUBSET PCs
    BY <1>3 DEF Serve, RunTypeOK, RunCommands
  <2>3. paused' \in BOOLEAN /\ call' \in Calls /\ life' \in Lives
    BY <1>3 DEF Serve, RunStep, RunTypeOK, Calls, Lives
  <2>4. UNCHANGED <<noDebug, commandsClosed, cmd>>
    BY <1>3 DEF Serve, RunStep
  <2> QED BY <2>1, <2>2, <2>3, <2>4 DEF RunTypeOK, HostTypeOK
<1>4. CASE Evaluated \/ Served
  BY <1>1, <1>4 DEF Evaluated, Served, Post, RunStep, breakVars, hostVars, RunTypeOK, HostTypeOK,
                    Lives, Calls
<1>5. CASE Leave \/ RunExited \/ RunDone \/ RunCrash
  BY <1>1, <1>5 DEF Leave, RunExited, RunDone, RunCrash, Post, RunStep, breakVars, hostVars,
                    RunTypeOK, HostTypeOK, Lives
<1> QED BY <1>2, <1>3, <1>4, <1>5 DEF RunVm

(* What the next statement carries.                                        *)
LEMMA NextStatement ==
  ASSUME DapTypeOK, todo # <<>>
  PROVE  /\ Head(todo) = todo[1] /\ todo[1] \in Statements
         /\ Head(todo).do = "runInVm" => Head(todo).cmd \in RunCommands
         /\ Head(todo).do = "new" => Head(todo).args \in Launches
         /\ Head(todo).do = "send" =>
              Head(todo).msg \in {"stopped", "output", "exited", "terminated", "runInTerminal"}
         /\ Head(todo).do = "respond" => Head(todo).msg \in {"response", "resumed"}
<1>1. Head(todo) = todo[1] /\ todo[1] \in Statements
  BY Rest DEF DapTypeOK
<1> QED BY <1>1 DEF Statements

(* The type of the run's variables.                                        *)
LEMMA RunTypes ==
  ASSUME DapTypeOK, [DapNext]_vars
  PROVE  RunTypeOK'
<1>0. RunTypeOK
  BY DEF DapTypeOK
<1>1. CASE UNCHANGED runVars
  BY <1>0, <1>1 DEF runVars, hostVars, breakVars, RunTypeOK, HostTypeOK
<1>2. CASE DoRunInVm
  <2>1. Head(todo).cmd \in RunCommands
    BY <1>2, NextStatement DEF DoRunInVm, AtStatement
  <2> DEFINE c == Head(todo).cmd
  <2>2. c.op \in {"lineBreaks", "instBreaks"} => c.pcs \in SUBSET PCs
    BY <2>1 DEF RunCommands
  <2>3. \/ UNCHANGED runVars
        \/ c.op \in {"lineBreaks", "instBreaks"} /\ RunUpdateUnstarted(c.op, c.pcs)
        \/ Offer(c)
    BY <1>2 DEF DoRunInVm
  <2> HIDE DEF c
  <2>4. CASE c.op \in {"lineBreaks", "instBreaks"} /\ RunUpdateUnstarted(c.op, c.pcs)
    BY <1>0, <2>2, <2>4 DEF RunUpdateUnstarted, CallStep, RunTypeOK, HostTypeOK, Calls
  <2>5. CASE Offer(c)
    BY <1>0, <2>1, <2>5 DEF Offer, CallStep, breakVars, RunTypeOK, HostTypeOK, Calls, c
  <2> QED BY <1>1, <2>3, <2>4, <2>5
<1>3. CASE DoNew
  <2> DEFINE args == Head(todo).args
             lines == ComputeLineBreaks(bps) \cup (IF args.stopOnEntry /\ NInst > 0 THEN {0} ELSE {})
  <2>1. args \in Launches /\ NewRun(args.noDebug, lines, ComputeInstBreaks(instBps))
    BY <1>3, NextStatement DEF DoNew, AtStatement
  <2>2. args.noDebug \in BOOLEAN
    BY <2>1, DapAssumption
  <2>3. lines \in SUBSET PCs
    <3>1. ComputeLineBreaks(bps) \in SUBSET PCs
      BY BreaksExist DEF DapTypeOK
    <3>2. NInst > 0 => 0 \in PCs
      BY DapAssumption, CodeAssumption
    <3> QED BY <3>1, <3>2
  <2>4. ComputeInstBreaks(instBps) \in SUBSET PCs
    BY BreaksExist
  <2> HIDE DEF args, lines
  <2> QED BY <2>1, <2>2, <2>3, <2>4, Posted
          DEF NewRun, RunTypeOK, HostTypeOK, NoRunCommand, RunCommands, Lives, Calls
<1>4. CASE DoPlay \/ DoHalt \/ DoTerminate \/ DoClose \/ DoWait
  BY <1>0, <1>4 DEF DoPlay, DoHalt, DoTerminate, DoClose, DoWait, RunPlay, RunHalt, RunTerminate,
                    RunClose, RunWait, CallStep, breakVars, RunTypeOK, HostTypeOK, Lives, Calls
<1>5. CASE DoNil
  BY <1>0, <1>5, Posted DEF DoNil, RunTypeOK, HostTypeOK, Lives
<1>6. CASE CallReturns
  BY <1>0, <1>6 DEF CallReturns, OfferReturns, RunWaitReturns, CallStep, breakVars,
                    RunTypeOK, HostTypeOK, Calls, NoRunCommand, RunCommands
<1>7. CASE VmRuns
  BY <1>0, <1>7, RunVmTypes DEF VmRuns
<1>8. CASE VmTests \/ VmSends
  <2>1. outbox # <<>> /\ outbox' \in {outbox, Tail(outbox)} /\ passed' \in {passed, TRUE, FALSE}
        /\ UNCHANGED suppressed
    BY <1>8 DEF VmTests, VmSends, TestSuppressed, DropSuppressed, PassSuppressed, SendEvent,
                SendOutput
  <2>2. outbox' \in Seq(Events) /\ passed' \in BOOLEAN
    BY <1>0, <2>1, Outbox DEF RunTypeOK, HostTypeOK
  <2>3. UNCHANGED <<noDebug, life, paused, commandsClosed, breakVars, call, cmd>>
    BY <1>8 DEF VmTests, VmSends
  <2> QED BY <1>0, <2>1, <2>2, <2>3 DEF breakVars, RunTypeOK, HostTypeOK
<1>9. CASE VmSendPanics
  BY <1>0, <1>9, Posted DEF VmSendPanics, breakVars, RunTypeOK, HostTypeOK, Lives
<1> QED BY <1>1, <1>2, <1>3, <1>4, <1>5, <1>6, <1>7, <1>8, <1>9, OthersKeepRun DEF RunMoves

(* What the client is told: nothing new, one message more, or it reads one.*)
LEMMA OthersTell ==
  ASSUME DapTypeOK, [DapNext]_vars
  PROVE  \/ UNCHANGED <<sendQueue, view>>
         \/ DoSend \/ DoRespond \/ VmSends \/ Deliver
<1>1. CASE ClientSends \/ HangUp \/ Receive \/ ReceiveEof \/ WriterEnds \/ TerminalActs
           \/ TerminalTakes
  BY <1>1 DEF ClientSends, HangUp, Receive, ReceiveEof, WriterEnds, TerminalActs,
              TerminalTakes, Linked, queueVars
<1>2. CASE CallReturns \/ VmRuns \/ VmTests \/ VmSendPanics \/ UNCHANGED vars
  BY <1>2 DEF CallReturns, VmRuns, VmTests, VmSendPanics, dapVars, queueVars, vars
<1>3. CASE Statement
  BY <1>3 DEF Statement, DoRunInVm, DoNew, DoPlay, DoPlayAgain, DoHalt, DoTerminate, DoClose,
              DoWait, DoNil, DoCloseQueue, DoJoin, DoStartTerminal, DoBanner, DoCloseTerminal,
              AdvanceOn, queueVars
<1> QED BY <1>1, <1>2, <1>3 DEF DapNext

(* What is put in the queue is a message.                                  *)
LEMMA Tells ==
  ASSUME DapTypeOK
  PROVE  /\ DoSend \/ DoRespond => Head(todo).msg \in Messages /\ Enqueue(Head(todo).msg)
         /\ VmSends => HostEvent(Head(outbox)) \in Messages /\ Enqueue(HostEvent(Head(outbox)))
<1>1. DoSend \/ DoRespond => Head(todo).msg \in Messages /\ Enqueue(Head(todo).msg)
  BY NextStatement DEF DoSend, DoRespond, AtStatement, Messages
<1>2. VmSends => outbox # <<>> /\ Enqueue(HostEvent(Head(outbox)))
  BY DEF VmSends, SendEvent, SendOutput
<1>3. outbox # <<>> => Head(outbox) \in Events
  BY Outbox DEF DapTypeOK, RunTypeOK, HostTypeOK
<1> QED BY <1>1, <1>2, <1>3, HostEvents

(* The type of the connection's variables.                                 *)
LEMMA TypeStep ==
  ASSUME DapTypeOK, [DapNext]_vars
  PROVE  DapTypeOK'
<1>1. RunTypeOK'
  BY RunTypes
<1>2. LinkTypeOK' /\ invited' \in BOOLEAN
  <2>1. LinkTypeOK /\ invited \in BOOLEAN
    BY DEF DapTypeOK
  <2>2. CASE DoStartTerminal \/ DoBanner \/ DoCloseTerminal
    BY <2>1, <2>2 DEF DoStartTerminal, DoBanner, DoCloseTerminal, AdvanceOn, StartLink, BeginWrite,
                      CloseLink, LinkTypeOK, Links, Writers
  <2>3. CASE VmSends
    BY <2>1, <2>3 DEF VmSends, BeginWrite, linkVars, LinkTypeOK, Writers
  <2>4. CASE Deliver
    BY <2>1, <2>4 DEF Deliver, linkVars, LinkTypeOK
  <2>5. CASE TerminalActs \/ TerminalTakes
    BY <2>1, <2>5 DEF TerminalActs, TerminalTakes, Linked, Connect, Flow, WriteReturns, LinkTypeOK,
                      Links, Writers
  <2>6. CASE UNCHANGED terminalVars
    BY <2>1, <2>6 DEF terminalVars, linkVars, LinkTypeOK
  <2>7. CASE Statement
    BY <2>2, <2>6, <2>7
       DEF Statement, DoSend, DoRespond, DoRunInVm, DoNew, DoPlay, DoPlayAgain, DoHalt,
           DoTerminate, DoClose, DoWait, DoNil, DoCloseQueue, DoJoin, Advance
  <2>8. CASE \/ ClientSends \/ HangUp \/ Receive \/ ReceiveEof \/ WriterEnds \/ CallReturns
             \/ VmRuns \/ VmTests \/ VmSendPanics \/ UNCHANGED vars
    BY <2>6, <2>8 DEF ClientSends, HangUp, Receive, ReceiveEof, WriterEnds, CallReturns, VmRuns,
                      VmTests, VmSendPanics, dapVars, vars
  <2> QED BY <2>3, <2>4, <2>5, <2>7, <2>8 DEF DapNext
<1>3. inbox' \in Seq(Requests) /\ asked' \in 0..MaxRequests /\ connected' \in BOOLEAN
  <2>1. inbox \in Seq(Requests) /\ asked \in 0..MaxRequests /\ connected \in BOOLEAN
    BY DEF DapTypeOK
  <2>2. CASE ClientSends
    <3>1. PICK req \in Requests : inbox' = Append(inbox, req)
      BY <2>2 DEF ClientSends
    <3>2. inbox' \in Seq(Requests)
      BY <2>1, <3>1, AppendProperties
    <3> QED BY <2>1, <2>2, <3>2, DapAssumption DEF ClientSends
  <2>3. CASE HangUp
    BY <2>1, <2>3 DEF HangUp
  <2>4. CASE Receive
    <3>1. inbox # <<>> /\ inbox' = Tail(inbox) /\ UNCHANGED <<asked, connected>>
      BY <2>4 DEF Receive
    <3> QED BY <2>1, <3>1, HeadTailProperties
  <2>5. CASE UNCHANGED clientVars
    BY <2>1, <2>5 DEF clientVars
  <2>6. CASE Statement
    BY <2>5, <2>6
       DEF Statement, DoSend, DoRespond, DoRunInVm, DoNew, DoPlay, DoPlayAgain, DoHalt,
           DoTerminate, DoClose, DoWait, DoNil, DoCloseQueue, DoJoin, Advance,
           DoStartTerminal, DoBanner, DoCloseTerminal, AdvanceOn
  <2>7. CASE \/ ReceiveEof \/ WriterEnds \/ CallReturns \/ Deliver \/ VmSends
             \/ VmRuns \/ VmTests \/ VmSendPanics \/ TerminalActs \/ TerminalTakes \/ UNCHANGED vars
    BY <2>5, <2>7 DEF ReceiveEof, WriterEnds, CallReturns, VmRuns, Deliver, VmSends, TerminalActs,
                      TerminalTakes, Linked, VmTests, VmSendPanics, dapVars, vars
  <2> QED BY <2>2, <2>3, <2>4, <2>6, <2>7 DEF DapNext
<1>4. bps' \in SUBSET Nat /\ instBps' \in SUBSET PCs
  <2>1. bps \in SUBSET Nat /\ instBps \in SUBSET PCs
    BY DEF DapTypeOK
  <2>2. CASE Receive
    <3>1. Head(inbox) \in Requests
      BY <2>2, HeadTailProperties DEF Receive, DapTypeOK
    <3>2. bps' = LinesThen(Head(inbox)) /\ instBps' = InstsThen(Head(inbox))
      BY <2>2 DEF Receive, LinesThen, InstsThen
    <3>3. LinesThen(Head(inbox)) \in SUBSET Nat
      BY <2>1, <3>1, RequestsAre, VerifiedAgain DEF LinesThen
    <3>4. InstsThen(Head(inbox)) \in SUBSET PCs
      BY <2>1, BreaksExist DEF InstsThen
    <3> QED BY <3>2, <3>3, <3>4
  <2>3. CASE ReceiveEof \/ DoPlayAgain
    BY <2>1, <2>3 DEF ReceiveEof, DoPlayAgain, bpVars
  <2> QED BY <2>1, <2>2, <2>3, OthersHandle, StatementAdvances DEF Handling, Advances
<1>5. todo' \in Seq(Statements)
  <2>1. todo \in Seq(Statements)
    BY DEF DapTypeOK
  <2>2. CASE Receive
    <3>1. Head(inbox) \in Requests /\ todo' \in Handlers(Head(inbox))
      BY <2>2, HeadTailProperties DEF Receive, DapTypeOK
    <3> QED BY <3>1, HandlersAre DEF Handled, DapTypeOK
  <2>3. CASE ReceiveEof \/ DoPlayAgain
    BY <2>3, DeferredIs DEF ReceiveEof, DoPlayAgain
  <2> QED BY <2>1, <2>2, <2>3, OthersHandle, StatementAdvances, Rest DEF Handling, Advances
<1>6. handler' \in {"serving", "unwinding", "ended"} /\ answers' \in Nat /\ queueClosed' \in BOOLEAN
  <2>1. handler \in {"serving", "unwinding", "ended"} /\ answers \in Nat /\ queueClosed \in BOOLEAN
    BY DEF DapTypeOK
  <2>2. CASE Receive \/ ReceiveEof
    BY <2>1, <2>2 DEF Receive, ReceiveEof, queueVars
  <2>3. CASE DoSend \/ DoRespond
    BY <2>1, <2>3 DEF DoSend, DoRespond, Enqueue
  <2>4. CASE DoPlayAgain \/ DoCloseQueue \/ DoJoin
    BY <2>1, <2>4 DEF DoPlayAgain, DoCloseQueue, DoJoin, queueVars
  <2>5. CASE UNCHANGED <<handler, answers, queueClosed>>
    BY <2>1, <2>5
  <2>6. CASE Statement
    BY <2>3, <2>4, <2>5, <2>6
       DEF Statement, DoRunInVm, DoNew, DoPlay, DoHalt, DoTerminate, DoClose, DoWait, DoNil,
           DoStartTerminal, DoBanner, DoCloseTerminal, AdvanceOn, queueVars
  <2> QED BY <2>2, <2>5, <2>6, OthersHandle DEF Handling
<1>7. /\ sendQueue' \in Seq(Messages) /\ Len(sendQueue') <= QueueCap
      /\ view' \in {"none", "running", "stopped", "ended", "lost"}
  <2>1. CASE UNCHANGED <<sendQueue, view>>
    BY <2>1 DEF DapTypeOK
  <2>2. CASE DoSend \/ DoRespond \/ VmSends
    BY <2>2, Tells, Enqueues
  <2>3. CASE Deliver
    BY <2>3, Delivers DEF Deliver
  <2> QED BY <2>1, <2>2, <2>3, OthersTell
<1>8. writer' \in BOOLEAN
  <2>1. writer \in BOOLEAN
    BY DEF DapTypeOK
  <2>2. CASE UNCHANGED writer
    BY <2>1, <2>2
  <2>3. CASE WriterEnds
    BY <2>3 DEF WriterEnds
  <2>4. CASE Statement
    BY <2>2, <2>4
       DEF Statement, DoSend, DoRespond, DoRunInVm, DoNew, DoPlay, DoPlayAgain, DoHalt,
           DoTerminate, DoClose, DoWait, DoNil, DoCloseQueue, DoJoin, Advance,
           DoStartTerminal, DoBanner, DoCloseTerminal, AdvanceOn
  <2>5. CASE \/ ClientSends \/ HangUp \/ Receive \/ ReceiveEof \/ CallReturns \/ Deliver \/ VmSends
             \/ VmRuns \/ VmTests \/ VmSendPanics \/ TerminalActs \/ TerminalTakes \/ UNCHANGED vars
    BY <2>2, <2>5 DEF ClientSends, HangUp, Receive, ReceiveEof, CallReturns, VmRuns, Deliver,
                      VmSends, TerminalActs, TerminalTakes, Linked, VmTests, VmSendPanics, dapVars,
                      vars
  <2> QED BY <2>3, <2>4, <2>5 DEF DapNext
<1> QED BY <1>1, <1>2, <1>3, <1>4, <1>5, <1>6, <1>7, <1>8 DEF DapTypeOK

-----------------------------------------------------------------------------
(* The run: its VM has nothing to tell before it starts and after it ended,*)
(* and its host is suppressed by Halt() alone.                             *)
Telling(evs) == \A i \in 1..Len(evs) : evs[i] \in StopEvents \cup {"output", "continued"}

PlayEvents == {<<>>, <<"step">>, <<"breakpoint">>, <<"step", "breakpoint">>, <<"exception">>,
               <<"output">>, <<"i/o wait">>, <<"continued">>, <<"continued", "output">>, <<"pause">>}

(* While it plays, the VM tells of stops, output and its going on ...      *)
LEMMA PlayTells ==
  ASSUME NEW evs \in PlayEvents
  PROVE  Telling(evs)
<1>1. ASSUME NEW a \in StopEvents \cup {"output", "continued"} PROVE Telling(<<a>>)
  BY \A i \in 1..1 : i = 1 DEF Telling
<1>2. ASSUME NEW a \in StopEvents \cup {"output", "continued"},
             NEW b \in StopEvents \cup {"output", "continued"}
      PROVE  Telling(<<a, b>>)
  BY \A i \in 1..2 : i = 1 \/ i = 2 DEF Telling
<1>3. Telling(<<>>)
  BY DEF Telling
<1>4. {"step", "breakpoint", "exception", "output", "i/o wait", "continued", "pause"}
        \subseteq StopEvents \cup {"output", "continued"}
  BY DEF StopEvents
<1> HIDE DEF Telling
<1> QED BY <1>1, <1>2, <1>3, <1>4 DEF PlayEvents

(* ... which is what the steps of play() post, one lot at a time.          *)
LEMMA PlayPosts ==
  ASSUME Stop \/ Report \/ Serve \/ Evaluated
  PROVE  /\ outbox' \in PlayEvents /\ outbox = <<>>
         /\ life = "playing" /\ life' = "playing"
         /\ UNCHANGED <<suppressed, commandsClosed, cmd, noDebug>>
         /\ call' = call \/ (call \in {"open", "evaluating"} /\ call' \in {"evaluating", "serving"})
<1>1. CASE Stop \/ Report
  BY <1>1 DEF Stop, Report, Playing, Post, RunStep, HostQuiet, PlayEvents
<1>2. CASE Serve
  BY <1>2 DEF Serve, Post, RunStep, HostQuiet, PlayEvents
<1>3. CASE Evaluated
  BY <1>3 DEF Evaluated, Post, RunStep, HostQuiet, PlayEvents
<1> QED BY <1>1, <1>2, <1>3

(* VmInv is kept by every step, whatever the handler does.                 *)
LEMMA VmStepInv ==
  ASSUME DapTypeOK, VmInv, [DapNext]_vars
  PROVE  VmInv'
<1>0. /\ life \in {"none", "unstarted", "done"} => outbox = <<>>
      /\ life \in {"none", "unstarted"} => ~paused
      /\ life = "playing" => Telling(outbox)
      /\ suppressed => commandsClosed \/ call = "terminating"
      /\ call \in {"none", "terminating", "waiting"} => cmd = NoRunCommand
      /\ life \in Lives /\ call \in Calls /\ outbox \in Seq(Events)
  BY DEF VmInv, Telling, DapTypeOK, RunTypeOK, HostTypeOK
<1> SUFFICES /\ life' \in {"none", "unstarted", "done"} => outbox' = <<>>
             /\ life' \in {"none", "unstarted"} => ~paused'
             /\ life' = "playing" => Telling(outbox')
             /\ suppressed' => commandsClosed' \/ call' = "terminating"
             /\ call' \in {"none", "terminating", "waiting"} => cmd' = NoRunCommand
  BY DEF VmInv, Telling
<1>1. CASE UNCHANGED runVars
  BY <1>0, <1>1 DEF runVars, hostVars
<1>2. Telling(<<>>)
  BY PlayTells DEF PlayEvents
<1>3. CASE DoRunInVm
  <2>1. \/ UNCHANGED runVars
        \/ RunUpdateUnstarted(Head(todo).cmd.op, Head(todo).cmd.pcs)
        \/ Offer(Head(todo).cmd)
    BY <1>3 DEF DoRunInVm
  <2>2. CASE RunUpdateUnstarted(Head(todo).cmd.op, Head(todo).cmd.pcs)
    BY <1>0, <2>2 DEF RunUpdateUnstarted, CallStep
  <2>3. CASE Offer(Head(todo).cmd)
    BY <1>0, <2>3 DEF Offer, CallStep
  <2> QED BY <1>1, <2>1, <2>2, <2>3
<1>4. CASE DoNew
  <2>1. /\ life' = "unstarted" /\ paused' = FALSE /\ suppressed' = FALSE /\ outbox' = <<>>
        /\ cmd' = NoRunCommand
    BY <1>4 DEF DoNew, NewRun
  <2> QED BY <2>1
<1>5. CASE DoPlay \/ DoHalt \/ DoTerminate \/ DoClose \/ DoWait
  BY <1>0, <1>2, <1>5 DEF DoPlay, DoHalt, DoTerminate, DoClose, DoWait, RunPlay, RunHalt,
                    RunTerminate, RunClose, RunWait, CallStep
<1>6. CASE DoNil
  BY <1>0, <1>6 DEF DoNil
<1>7. CASE CallReturns
  BY <1>0, <1>7 DEF CallReturns, OfferReturns, RunWaitReturns, CallStep
<1>8. CASE VmRuns
  <2>1. CASE Stop \/ Report \/ Serve \/ Evaluated
    BY <1>0, <2>1, PlayPosts, PlayTells
  <2>2. CASE Served
    BY <1>0, <2>2 DEF Served, RunStep, hostVars
  <2>3. CASE Leave \/ RunExited \/ RunDone \/ RunCrash
    BY <1>0, <2>3 DEF Leave, RunExited, RunDone, RunCrash, Post, RunStep, HostQuiet, hostVars
  <2> QED BY <1>8, <2>1, <2>2, <2>3 DEF VmRuns, RunVm
<1>9. CASE VmTests \/ VmSends
  <2>1. outbox # <<>> /\ outbox' \in {outbox, Tail(outbox)} /\ UNCHANGED suppressed
    BY <1>9 DEF VmTests, VmSends, TestSuppressed, DropSuppressed, PassSuppressed, SendEvent,
                SendOutput
  <2>2. life = "playing" => Telling(outbox')
    BY <1>0, <2>1, Outbox DEF Telling
  <2>3. UNCHANGED <<life, paused, commandsClosed, call, cmd>>
    BY <1>9 DEF VmTests, VmSends
  <2> QED BY <1>0, <2>1, <2>2, <2>3
<1>10. CASE VmSendPanics
  <2>1. UNCHANGED <<suppressed, commandsClosed, call, cmd>> /\ outbox' = <<>> /\ outbox # <<>>
    BY <1>10 DEF VmSendPanics
  <2>2. life' \notin {"none", "unstarted"}
    BY <1>0, <1>10, <2>1 DEF VmSendPanics, InInstruction
  <2>3. Telling(outbox')
    BY <1>2, <2>1
  <2>4. suppressed' => commandsClosed' \/ call' = "terminating"
    BY <1>0, <2>1
  <2>5. call' \in {"none", "terminating", "waiting"} => cmd' = NoRunCommand
    BY <1>0, <2>1
  <2> QED BY <2>1, <2>2, <2>3, <2>4, <2>5
<1> QED BY <1>1, <1>3, <1>4, <1>5, <1>6, <1>7, <1>8, <1>9, <1>10, OthersKeepRun DEF RunMoves

-----------------------------------------------------------------------------
(* The answer to a request.  While the handler serves, it is still to come *)
(* or was given.                                                           *)
OneIn(s) == \E i \in 1..Len(s) :
  s[i].do = "respond" /\ \A j \in 1..Len(s) : s[j].do = "respond" => j = i
NoneIn(s) == \A i \in 1..Len(s) : s[i].do # "respond"

(* AnswerInv in terms of what is left of the handler ...                   *)
LEMMA AnswersAre ==
  AnswerInv <=> (Untested /\ handler = "serving" =>
                   \/ answers = 1 /\ NoneIn(todo)
                   \/ answers = 0 /\ OneIn(todo))
<1>1. Answers = {} <=> NoneIn(todo)
  BY DEF Answers, NoneIn
<1>2. (\E i \in Answers : Answers = {i}) <=> OneIn(todo)
  BY DEF Answers, OneIn
<1> QED BY <1>1, <1>2 DEF AnswerInv

(* ... and the same after a step.                                          *)
LEMMA AnswersAreThen ==
  AnswerInv' <=> (Untested /\ handler' = "serving" =>
                    \/ answers' = 1 /\ NoneIn(todo')
                    \/ answers' = 0 /\ OneIn(todo'))
<1>1. Answers' = {} <=> NoneIn(todo')
  BY DEF Answers, NoneIn
<1>2. (\E i \in Answers' : Answers' = {i}) <=> OneIn(todo')
  BY DEF Answers, OneIn
<1> QED BY <1>1, <1>2 DEF AnswerInv

(* When a statement is done, its answer is no longer to come.              *)
LEMMA RestAnswers ==
  ASSUME todo \in Seq(Statements), todo # <<>>
  PROVE  /\ NoneIn(todo) => Head(todo).do # "respond" /\ NoneIn(Tail(todo))
         /\ OneIn(todo) /\ Head(todo).do = "respond" => NoneIn(Tail(todo))
         /\ OneIn(todo) /\ Head(todo).do # "respond" => OneIn(Tail(todo))
<1> DEFINE t == Tail(todo)
<1>1. /\ Len(todo) \in Nat /\ Len(t) \in Nat /\ Len(todo) = Len(t) + 1
      /\ Head(todo) = todo[1] /\ 1 \in 1..Len(todo)
      /\ \A i \in 1..Len(t) : i + 1 \in 1..Len(todo) /\ t[i] = todo[i + 1]
  BY Rest
<1> HIDE DEF t
<1>2. NoneIn(todo) => Head(todo).do # "respond" /\ NoneIn(t)
  BY <1>1 DEF NoneIn
<1>3. ASSUME OneIn(todo), Head(todo).do = "respond" PROVE NoneIn(t)
  <2>1. \A j \in 1..Len(todo) : todo[j].do = "respond" => j = 1
    BY <1>1, <1>3 DEF OneIn
  <2>2. ASSUME NEW i \in 1..Len(t) PROVE t[i].do # "respond"
    BY <1>1, <2>1
  <2> QED BY <2>2 DEF NoneIn
<1>4. ASSUME OneIn(todo), Head(todo).do # "respond" PROVE OneIn(t)
  <2>1. PICK i \in 1..Len(todo) :
               todo[i].do = "respond" /\ \A j \in 1..Len(todo) : todo[j].do = "respond" => j = i
    BY <1>4 DEF OneIn
  <2>2. i # 1 /\ i - 1 \in 1..Len(t) /\ (i - 1) + 1 = i
    BY <1>1, <1>4, <2>1
  <2>3. t[i - 1].do = "respond"
    BY <1>1, <2>1, <2>2
  <2>4. ASSUME NEW j \in 1..Len(t), t[j].do = "respond" PROVE j = i - 1
    <3>1. j + 1 = i
      BY <1>1, <2>1, <2>4
    <3> QED BY <2>2, <3>1
  <2> QED BY <2>2, <2>3, <2>4 DEF OneIn
<1> QED BY <1>2, <1>3, <1>4 DEF t

(* AnswerInv is kept: a handler begins with one answer to come, the        *)
(* response counts it, and the others leave it.                            *)
LEMMA AnswerStep ==
  ASSUME DapTypeOK, AnswerInv, [DapNext]_vars
  PROVE  AnswerInv'
<1>0. Untested /\ handler = "serving" =>
        \/ answers = 1 /\ NoneIn(todo)
        \/ answers = 0 /\ OneIn(todo)
  BY AnswersAre
<1>1. SUFFICES ASSUME Untested, handler' = "serving"
               PROVE  \/ answers' = 1 /\ NoneIn(todo')
                      \/ answers' = 0 /\ OneIn(todo')
  BY AnswersAreThen
<1>2. todo \in Seq(Statements)
  BY DEF DapTypeOK
<1>3. CASE Handling
  BY <1>0, <1>1, <1>3 DEF Handling
<1>4. CASE Receive
  <2>1. Head(inbox) \in Requests /\ todo' \in Handlers(Head(inbox)) /\ answers' = 0
    BY <1>4, HeadTailProperties DEF Receive, DapTypeOK
  <2>2. OneIn(todo')
    BY <1>1, <2>1, HandlersAre DEF Handled, DapTypeOK, OneIn
  <2> QED BY <2>1, <2>2
<1>5. CASE ReceiveEof \/ DoPlayAgain \/ DoJoin
  BY <1>1, <1>5 DEF ReceiveEof, DoPlayAgain, DoJoin
<1>6. CASE DoRespond
  <2>1. /\ todo # <<>> /\ todo' = Tail(todo) /\ Head(todo).do = "respond"
        /\ answers' = answers + 1 /\ handler' = handler
    BY <1>6 DEF DoRespond, AtStatement, Advance
  <2> QED BY <1>0, <1>1, <1>2, <2>1, RestAnswers
<1>7. CASE Statement /\ ~DoRespond /\ ~DoPlayAgain /\ ~DoJoin
  <2>1. /\ todo # <<>> /\ todo' = Tail(todo) /\ Head(todo).do # "respond"
        /\ answers' = answers /\ handler' = handler
    BY <1>7 DEF Statement, DoSend, DoRunInVm, DoNew, DoPlay, DoHalt, DoTerminate, DoClose,
                DoWait, DoNil, DoCloseQueue, DoStartTerminal, DoBanner, DoCloseTerminal,
                AtStatement, Advance, AdvanceOn
  <2> QED BY <1>0, <1>1, <1>2, <2>1, RestAnswers
<1> QED BY <1>3, <1>4, <1>5, <1>6, <1>7, OthersHandle

-----------------------------------------------------------------------------
(* The handler's statements.  What each of them makes of the session.      *)
LEMMA StatementDoes ==
  ASSUME Statement, ~DoPlayAgain
  PROVE  /\ Advances /\ handler' \in {handler, "ended"}
         /\ life # "crashed" /\ (call = "none" \/ Head(todo).do = "close")
         /\ Head(todo).do = "wait"  => call' = "waiting" /\ life' = life
         /\ Head(todo).do = "close" => commandsClosed'
         /\ Head(todo).do = "nil"   => life' = "none"
         /\ Head(todo).do = "new"   => life' = "unstarted"
         /\ Head(todo).do \notin {"new", "nil"} => noDebug' = noDebug
         /\ Head(todo).do # "closeQueue" => queueClosed' = queueClosed
<1>1. CASE DoSend \/ DoRespond \/ DoCloseQueue \/ DoJoin
  BY <1>1 DEF DoSend, DoRespond, DoCloseQueue, DoJoin, AtStatement, Advance, Advances, Enqueue,
              runVars, queueVars, bpVars
<1>2. CASE DoStartTerminal \/ DoBanner \/ DoCloseTerminal
  BY <1>2 DEF DoStartTerminal, DoBanner, DoCloseTerminal, AtStatement, AdvanceOn, Advances,
              runVars, queueVars, bpVars
<1>3. CASE DoRunInVm
  BY <1>3 DEF DoRunInVm, AtStatement, Advance, Advances, runVars, queueVars, bpVars,
              RunUpdateUnstarted, Offer, CallStep
<1>4. CASE DoNew \/ DoNil
  BY <1>4 DEF DoNew, DoNil, AtStatement, Advance, Advances, queueVars, bpVars, NewRun
<1>5. CASE DoPlay \/ DoHalt \/ DoTerminate \/ DoClose \/ DoWait
  BY <1>5 DEF DoPlay, DoHalt, DoTerminate, DoClose, DoWait, AtStatement, Advance, Advances,
              queueVars, bpVars, RunPlay, RunHalt, RunTerminate, RunClose, RunWait, CallStep
<1> QED BY <1>1, <1>2, <1>3, <1>4, <1>5 DEF Statement

(* The steps of the VM: they end what has begun, and begin nothing.        *)
LEMMA VmMovesDo ==
  ASSUME VmInv, VmMoves
  PROVE  /\ UNCHANGED <<noDebug, commandsClosed>>
         /\ life \in {"none", "unstarted"} => life' = life
         /\ call = "waiting" \/ life \in {"done", "crashed"} =>
              call' = "waiting" \/ life' \in {"done", "crashed"}
<1>1. CASE CallReturns
  BY <1>1 DEF CallReturns, OfferReturns, NobodyServes, RunWaitReturns, CallStep
<1>2. CASE VmRuns
  <2>1. CASE Stop \/ Report
    BY <2>1 DEF Stop, Report, Playing, RunStep
  <2>2. CASE Serve \/ Evaluated \/ Served
    BY <2>2 DEF Serve, Evaluated, Served, RunStep
  <2>3. CASE Leave \/ RunExited \/ RunDone \/ RunCrash
    BY <2>3 DEF Leave, RunExited, RunDone, RunCrash, RunStep
  <2> QED BY <1>2, <2>1, <2>2, <2>3 DEF VmRuns, RunVm
<1>3. CASE VmTests \/ VmSends
  BY <1>3 DEF VmTests, VmSends
<1>4. CASE VmSendPanics
  <2>1. /\ UNCHANGED <<noDebug, commandsClosed, call>> /\ life' \in {life, "crashed"}
        /\ outbox # <<>>
    BY <1>4 DEF VmSendPanics
  <2>2. life \notin {"none", "unstarted"}
    BY <2>1 DEF VmInv
  <2> QED BY <2>1, <2>2
<1> QED BY <1>1, <1>2, <1>3, <1>4 DEF VmMoves

(* What is left of a handler.                                              *)
Ordered(s) == \A i \in 2..Len(s) : After(s[i - 1].do, s[i])
Without(s, kinds) == \A i \in 1..Len(s) : s[i].do \notin kinds

(* TodoInv in terms of what is left of the handler ...                     *)
LEMMA TodoIs ==
  TodoInv <=>
    /\ Ordered(todo)
    /\ todo # <<>> =>
         /\ todo[1].do = "nil" => call = "waiting" \/ life \in {"done", "crashed"}
         /\ TellsEnd(todo[1]) => life = "none" \/ commandsClosed
         /\ TellsResume(todo[1]) => life = "unstarted" \/ Resumes(todo)
    /\ Resumes(todo) => ~noDebug /\ Without(todo, {"new", "nil"})
    /\ handler = "serving" => ~queueClosed /\ Without(todo, {"closeQueue"})
BY DEF TodoInv, Ordered, Without, Resumes, Has, ToDo

(* ... and the same after a step.                                          *)
LEMMA TodoIsThen ==
  TodoInv' <=>
    /\ Ordered(todo')
    /\ todo' # <<>> =>
         /\ todo'[1].do = "nil" => call' = "waiting" \/ life' \in {"done", "crashed"}
         /\ TellsEnd(todo'[1]) => life' = "none" \/ commandsClosed'
         /\ TellsResume(todo'[1]) => life' = "unstarted" \/ Resumes(todo')
    /\ Resumes(todo') => ~noDebug' /\ Without(todo', {"new", "nil"})
    /\ handler' = "serving" => ~queueClosed' /\ Without(todo', {"closeQueue"})
BY DEF TodoInv, Ordered, Without, Resumes, Has, ToDo

(* The rest of a handler is in order, as the whole of it is, and resumes   *)
(* the program if the whole does so later.                                 *)
LEMMA RestKeeps ==
  ASSUME todo \in Seq(Statements), todo # <<>>
  PROVE  /\ Ordered(todo) => Ordered(Tail(todo))
         /\ Ordered(todo) /\ Tail(todo) # <<>> => After(Head(todo).do, Tail(todo)[1])
         /\ Resumes(Tail(todo)) => Resumes(todo)
         /\ Resumes(todo) => Resumes(Tail(todo)) \/ Head(todo) = ToContinue
         /\ \A kinds : Without(todo, kinds) =>
              Without(Tail(todo), kinds) /\ Head(todo).do \notin kinds
<1> DEFINE t == Tail(todo)
<1>1. /\ Len(todo) \in Nat /\ Len(t) \in Nat /\ Len(todo) = Len(t) + 1
      /\ Head(todo) = todo[1] /\ 1 \in 1..Len(todo)
      /\ \A i \in 1..Len(t) : i + 1 \in 1..Len(todo) /\ t[i] = todo[i + 1]
      /\ t # <<>> => 2 \in 2..Len(todo) /\ t[1] = todo[2]
  BY Rest
<1> HIDE DEF t
<1>2. ASSUME Ordered(todo), NEW i \in 2..Len(t) PROVE After(t[i - 1].do, t[i])
  <2>1. /\ i + 1 \in 2..Len(todo) /\ i \in 1..Len(t) /\ i - 1 \in 1..Len(t)
        /\ (i - 1) + 1 = i /\ (i + 1) - 1 = i
    BY <1>1
  <2>2. t[i] = todo[i + 1] /\ t[i - 1] = todo[i]
    BY <1>1, <2>1
  <2> QED BY <1>2, <2>1, <2>2 DEF Ordered
<1>3. Ordered(todo) /\ t # <<>> => After(Head(todo).do, t[1])
  BY <1>1, 2 - 1 = 1 DEF Ordered
<1>4. ASSUME Resumes(t) PROVE Resumes(todo)
  <2>1. PICK i \in 1..Len(t) : t[i] = ToContinue
    BY <1>4 DEF Resumes, Has
  <2> QED BY <1>1, <2>1 DEF Resumes, Has
<1>5. ASSUME Resumes(todo), Head(todo) # ToContinue PROVE Resumes(t)
  <2>1. PICK i \in 1..Len(todo) : todo[i] = ToContinue
    BY <1>5 DEF Resumes, Has
  <2>2. i # 1 /\ i - 1 \in 1..Len(t) /\ (i - 1) + 1 = i
    BY <1>1, <1>5, <2>1
  <2> QED BY <1>1, <2>1, <2>2 DEF Resumes, Has
<1>6. ASSUME NEW kinds, Without(todo, kinds)
      PROVE  Without(t, kinds) /\ Head(todo).do \notin kinds
  BY <1>1, <1>6 DEF Without
<1> QED BY <1>2, <1>3, <1>4, <1>5, <1>6 DEF Ordered, t

(* TodoInv is kept: a handler is in order from its beginning, and each     *)
(* statement leaves the session as the next one needs it.                  *)
LEMMA TodoStep ==
  ASSUME DapTypeOK, VmInv, TodoInv, [DapNext]_vars
  PROVE  TodoInv'
<1>0. todo \in Seq(Statements)
  BY DEF DapTypeOK
<1>1. CASE Handling /\ (VmMoves \/ UNCHANGED runVars)
  <2>1. UNCHANGED <<todo, handler, queueClosed>>
    BY <1>1 DEF Handling
  <2>2. /\ UNCHANGED <<noDebug, commandsClosed>>
        /\ life \in {"none", "unstarted"} => life' = life
        /\ call = "waiting" \/ life \in {"done", "crashed"} =>
             call' = "waiting" \/ life' \in {"done", "crashed"}
    BY <1>1, VmMovesDo DEF runVars
  <2> QED BY <2>1, <2>2, TodoIs, TodoIsThen
<1>2. CASE Receive
  <2>1. /\ Head(inbox) \in Requests /\ todo' \in Handlers(Head(inbox))
        /\ UNCHANGED <<noDebug, commandsClosed, life, call, handler, queueClosed>>
    BY <1>2, HeadTailProperties DEF Receive, DapTypeOK, runVars, queueVars
  <2>2. Handled(todo', LinesThen(Head(inbox)), InstsThen(Head(inbox)))
    BY <2>1, HandlersAre DEF DapTypeOK
  <2>3. /\ Ordered(todo') /\ Without(todo', {"closeQueue"})
        /\ todo' # <<>> => /\ todo'[1].do # "nil"
                           /\ TellsEnd(todo'[1]) => life' = "none"
                           /\ TellsResume(todo'[1]) => Resumes(todo')
        /\ Resumes(todo') => ~noDebug /\ Without(todo', {"new", "nil"})
    BY <2>1, <2>2 DEF Handled, Ordered, Without, NoSession
  <2> QED BY <2>1, <2>3, TodoIs, TodoIsThen
<1>3. CASE ReceiveEof \/ DoPlayAgain
  <2>1. /\ handler' = "unwinding" /\ todo' \in Seq(Statements)
        /\ Without(todo', {"nil", "send", "respond", "runInVm"})
    BY <1>3, DeferredIs DEF ReceiveEof, DoPlayAgain, Without, Ending
  <2>2. ASSUME NEW stmt, NEW before, stmt.do \notin {"nil", "send", "respond", "runInVm"}
        PROVE  After(before, stmt) /\ ~TellsEnd(stmt) /\ ~TellsResume(stmt) /\ stmt # ToContinue
    BY <2>2 DEF After, TellsEnd, TellsResume, ToContinue
  <2>3. Len(todo') \in Nat /\ (todo' # <<>> => Len(todo') # 0)
    BY <2>1, LenProperties, EmptySeq
  <2>4. ASSUME NEW i \in 1..Len(todo')
        PROVE  /\ \A before : After(before, todo'[i])
               /\ ~TellsEnd(todo'[i]) /\ ~TellsResume(todo'[i]) /\ todo'[i] # ToContinue
               /\ todo'[i].do # "nil"
    <3>1. todo'[i].do \notin {"nil", "send", "respond", "runInVm"}
      BY <2>1 DEF Without
    <3> QED BY <2>2, <3>1
  <2>5. Ordered(todo')
    <3>1. \A i \in 2..Len(todo') : i \in 1..Len(todo')
      BY <2>3
    <3> QED BY <2>4, <3>1 DEF Ordered
  <2>6. ~Resumes(todo')
    BY <2>4 DEF Resumes, Has
  <2>7. todo' # <<>> => todo'[1].do # "nil" /\ ~TellsEnd(todo'[1]) /\ ~TellsResume(todo'[1])
    <3>1. todo' # <<>> => 1 \in 1..Len(todo')
      BY <2>3
    <3> QED BY <2>4, <3>1
  <2> QED BY <2>1, <2>5, <2>6, <2>7, TodoIsThen
<1>4. CASE Statement /\ ~DoPlayAgain
  <2>1. todo # <<>> /\ todo' = Tail(todo)
    BY <1>4, StatementDoes DEF Advances
  <2>2. /\ Ordered(todo')
        /\ todo' # <<>> => After(Head(todo).do, todo'[1])
        /\ Resumes(todo') => /\ Resumes(todo) /\ ~noDebug /\ Without(todo', {"new", "nil"})
                             /\ Head(todo).do \notin {"new", "nil"}
        /\ handler = "serving" => /\ ~queueClosed /\ Without(todo', {"closeQueue"})
                                  /\ Head(todo).do # "closeQueue"
    BY <1>0, <2>1, RestKeeps, TodoIs
  <2>3. todo' # <<>> =>
         /\ todo'[1].do = "nil" => call' = "waiting" \/ life' \in {"done", "crashed"}
         /\ TellsEnd(todo'[1]) => life' = "none" \/ commandsClosed'
         /\ TellsResume(todo'[1]) => life' = "unstarted" \/ Resumes(todo')
    BY <1>4, <2>2, StatementDoes DEF After
  <2> QED BY <1>4, <2>2, <2>3, StatementDoes, TodoIsThen
<1> QED BY <1>1, <1>2, <1>3, <1>4, OthersHandle

-----------------------------------------------------------------------------
(* The breakpoints.                                                        *)
UpdatesAre(s, lines, insts) ==
  \A i \in 1..Len(s) :
    /\ Updates(s[i], "lineBreaks") => s[i].cmd.pcs = ComputeLineBreaks(lines)
    /\ Updates(s[i], "instBreaks") => s[i].cmd.pcs = insts
Updating(s, kind)       == \E i \in 1..Len(s) : Updates(s[i], kind)
LinesIn(breaks, lines)  ==
  ComputeLineBreaks(lines) \subseteq breaks /\ breaks \subseteq ComputeLineBreaks(lines) \cup {0}
InForce == life \in {"unstarted", "playing"} /\ ~noDebug /\ ~commandsClosed
Offered(kind) == call = "open" /\ cmd.op = kind

(* BreakInv in terms of what is left of the handler ...                    *)
LEMMA BreaksAre ==
  BreakInv <=>
    /\ \A line \in bps : InstFromSource(line) >= 0
    /\ UpdatesAre(todo, bps, instBps)
    /\ cmd.op = "lineBreaks" => cmd.pcs = ComputeLineBreaks(bps)
    /\ cmd.op = "instBreaks" => cmd.pcs = instBps
    /\ handler = "serving" /\ InForce =>
         /\ LinesIn(lineBreaks, bps) \/ Offered("lineBreaks") \/ Updating(todo, "lineBreaks")
         /\ instBreaks = instBps \/ Offered("instBreaks") \/ Updating(todo, "instBreaks")
BY DEF BreakInv, UpdatesAre, Updating, LinesIn, InForce, Offered, OnTheWay

(* ... and the same after a step.                                          *)
LEMMA BreaksAreThen ==
  BreakInv' <=>
    /\ \A line \in bps' : InstFromSource(line) >= 0
    /\ UpdatesAre(todo', bps', instBps')
    /\ cmd'.op = "lineBreaks" => cmd'.pcs = ComputeLineBreaks(bps')
    /\ cmd'.op = "instBreaks" => cmd'.pcs = instBps'
    /\ handler' = "serving" /\ InForce' =>
         /\ LinesIn(lineBreaks', bps') \/ Offered("lineBreaks")' \/ Updating(todo', "lineBreaks")
         /\ instBreaks' = instBps' \/ Offered("instBreaks")' \/ Updating(todo', "instBreaks")
BY DEF BreakInv, UpdatesAre, Updating, LinesIn, InForce, Offered, OnTheWay

(* What the rest of a handler sets is what it set, and what it no longer   *)
(* sets was set by the statement that was done.                            *)
LEMMA RestUpdates ==
  ASSUME todo \in Seq(Statements), todo # <<>>, NEW lines, NEW insts, UpdatesAre(todo, lines, insts)
  PROVE  /\ UpdatesAre(Tail(todo), lines, insts)
         /\ Updates(Head(todo), "lineBreaks") => Head(todo).cmd.pcs = ComputeLineBreaks(lines)
         /\ Updates(Head(todo), "instBreaks") => Head(todo).cmd.pcs = insts
         /\ \A kind : Updating(todo, kind) => Updates(Head(todo), kind) \/ Updating(Tail(todo), kind)
<1> DEFINE t == Tail(todo)
<1>1. /\ Len(todo) \in Nat /\ Len(t) \in Nat /\ Len(todo) = Len(t) + 1
      /\ Head(todo) = todo[1] /\ 1 \in 1..Len(todo)
      /\ \A i \in 1..Len(t) : i + 1 \in 1..Len(todo) /\ t[i] = todo[i + 1]
  BY Rest
<1> HIDE DEF t
<1>2. UpdatesAre(t, lines, insts)
  BY <1>1 DEF UpdatesAre
<1>3. ASSUME NEW kind, Updating(todo, kind), ~Updates(Head(todo), kind) PROVE Updating(t, kind)
  <2>1. PICK i \in 1..Len(todo) : Updates(todo[i], kind)
    BY <1>3 DEF Updating
  <2>2. i # 1 /\ i - 1 \in 1..Len(t) /\ (i - 1) + 1 = i
    BY <1>1, <1>3, <2>1
  <2>3. t[i - 1] = todo[i]
    BY <1>1, <2>2
  <2> QED BY <2>1, <2>2, <2>3 DEF Updating
<1> QED BY <1>1, <1>2, <1>3 DEF UpdatesAre, t

(* The VM takes over the breakpoints of the closure that it runs, and no   *)
(* others.                                                                 *)
LEMMA VmMovesBreaks ==
  ASSUME VmMoves
  PROVE  /\ UNCHANGED <<noDebug, commandsClosed>> /\ cmd' \in {cmd, NoRunCommand}
         /\ life' \in {"unstarted", "playing"} =>
              /\ life' = life
              /\ \/ UNCHANGED breakVars /\ (call = "open" => call' = "open" /\ cmd' = cmd)
                 \/ /\ call = "open"
                    /\ lineBreaks' = IF cmd.op = "lineBreaks" THEN cmd.pcs ELSE lineBreaks
                    /\ instBreaks' = IF cmd.op = "instBreaks" THEN cmd.pcs ELSE instBreaks
<1>1. CASE CallReturns
  BY <1>1 DEF CallReturns, OfferReturns, NobodyServes, RunWaitReturns, CallStep
<1>2. CASE VmRuns
  <2>1. CASE Stop \/ Report
    BY <2>1 DEF Stop, Report, Playing, RunStep
  <2>2. CASE Serve
    BY <2>2 DEF Serve, RunStep
  <2>3. CASE Evaluated \/ Served
    BY <2>3 DEF Evaluated, Served, RunStep
  <2>4. CASE Leave \/ RunExited \/ RunDone \/ RunCrash
    BY <2>4 DEF Leave, RunExited, RunDone, RunCrash, RunStep
  <2> QED BY <1>2, <2>1, <2>2, <2>3, <2>4 DEF VmRuns, RunVm
<1>3. CASE VmTests \/ VmSends
  BY <1>3 DEF VmTests, VmSends
<1>4. CASE VmSendPanics
  BY <1>4 DEF VmSendPanics
<1> QED BY <1>1, <1>2, <1>3, <1>4 DEF VmMoves

(* A request for other breakpoints passes them to the session that there is*)
LEMMA ReceiveUpdates ==
  ASSUME DapTypeOK, Receive, life # "none"
  PROVE  /\ bps' = bps \/ Updating(todo', "lineBreaks")
         /\ instBps' = instBps \/ Updating(todo', "instBreaks")
<1> DEFINE req == Head(inbox)
<1>1. req \in Requests /\ todo' \in Handlers(req)
  BY HeadTailProperties DEF Receive, DapTypeOK
<1>2. ~NoSession
  BY DEF NoSession
<1>3. bps' = LinesThen(req) /\ instBps' = InstsThen(req)
  BY DEF Receive, LinesThen, InstsThen
<1> HIDE DEF req
<1>4. \A kind, pcs : Has(todo', [do |-> "runInVm", cmd |-> [op |-> kind, pcs |-> pcs]])
                      => Updating(todo', kind)
  <2>1. ASSUME NEW kind, NEW pcs
        PROVE  Updates([do |-> "runInVm", cmd |-> [op |-> kind, pcs |-> pcs]], kind)
    BY DEF Updates
  <2> QED BY <2>1 DEF Has, Updating
<1>5. ASSUME bps' # bps PROVE Updating(todo', "lineBreaks")
  <2>1. req.op = "setBreakpoints" /\ req.source = "ok" /\ req.lines \in SUBSET Nat
    BY <1>1, <1>3, <1>5, RequestsAre DEF LinesThen
  <2>2. todo' = SetBreakpoints(req)
    BY <1>1, <2>1 DEF Handlers
  <2> DEFINE lines == IF req.source = "errors" THEN bps ELSE Verified(req.lines)
  <2>3. Has(SetBreakpoints(req), [do |-> "runInVm", cmd |-> [op |-> "lineBreaks",
                                                        pcs |-> ComputeLineBreaks(lines)]])
    BY <1>2, <2>1, SetBreakpointsIs
  <2> HIDE DEF lines
  <2> QED BY <1>4, <2>2, <2>3
<1>6. ASSUME instBps' # instBps PROVE Updating(todo', "instBreaks")
  <2>1. req.op = "setInstructionBreakpoints"
    BY <1>3, <1>6 DEF InstsThen
  <2>2. todo' = SetInstructionBreakpoints(req)
    BY <1>1, <2>1 DEF Handlers
  <2> DEFINE insts == IF NoSession THEN instBps ELSE ComputeInstBreaks(req.pcs)
  <2>3. Has(SetInstructionBreakpoints(req),
            [do |-> "runInVm", cmd |-> [op |-> "instBreaks", pcs |-> insts]])
    BY <1>2, <2>1, SetInstructionBreakpointsIs
  <2> HIDE DEF insts
  <2> QED BY <1>4, <2>2, <2>3
<1> QED BY <1>5, <1>6

(* BreakInv is kept: new breakpoints are on their way to the VM from when  *)
(* they are recorded on, until it has them.                                *)
LEMMA BreakStep ==
  ASSUME DapTypeOK, VmInv, BreakInv, [DapNext]_vars
  PROVE  BreakInv'
<1>0. /\ todo \in Seq(Statements) /\ bps \in SUBSET Nat /\ instBps \in SUBSET PCs
      /\ call \in {"none", "terminating", "waiting"} => cmd = NoRunCommand
      /\ NoRunCommand.op = "inspect"
  BY DEF DapTypeOK, VmInv, NoRunCommand
<1>1. CASE Handling /\ (VmMoves \/ UNCHANGED runVars)
  <2>1. UNCHANGED <<todo, handler, bps, instBps>>
    BY <1>1 DEF Handling
  <2>2. CASE UNCHANGED runVars
    <3>1. UNCHANGED <<life, noDebug, commandsClosed, call, cmd, lineBreaks, instBreaks>>
      BY <2>2 DEF runVars, breakVars
    <3> QED BY <2>1, <3>1, BreaksAre, BreaksAreThen DEF InForce, Offered
  <2>3. CASE VmMoves
    <3>1. InForce' => InForce
      BY <2>3, VmMovesBreaks DEF InForce
    <3>2. InForce' /\ handler' = "serving" =>
           /\ LinesIn(lineBreaks', bps) \/ Offered("lineBreaks")' \/ Updating(todo, "lineBreaks")
           /\ instBreaks' = instBps \/ Offered("instBreaks")' \/ Updating(todo, "instBreaks")
      <4>1. SUFFICES ASSUME InForce', handler' = "serving"
                     PROVE  /\ \/ LinesIn(lineBreaks', bps) \/ Offered("lineBreaks")'
                               \/ Updating(todo, "lineBreaks")
                            /\ \/ instBreaks' = instBps \/ Offered("instBreaks")'
                               \/ Updating(todo, "instBreaks")
        OBVIOUS
      <4>2. /\ LinesIn(lineBreaks, bps) \/ Offered("lineBreaks") \/ Updating(todo, "lineBreaks")
            /\ instBreaks = instBps \/ Offered("instBreaks") \/ Updating(todo, "instBreaks")
            /\ cmd.op = "lineBreaks" => cmd.pcs = ComputeLineBreaks(bps)
            /\ cmd.op = "instBreaks" => cmd.pcs = instBps
        BY <2>1, <3>1, <4>1, BreaksAre
      <4>3. CASE UNCHANGED breakVars /\ (call = "open" => call' = "open" /\ cmd' = cmd)
        BY <4>2, <4>3 DEF Offered, breakVars
      <4>4. CASE /\ lineBreaks' = IF cmd.op = "lineBreaks" THEN cmd.pcs ELSE lineBreaks
                 /\ instBreaks' = IF cmd.op = "instBreaks" THEN cmd.pcs ELSE instBreaks
        BY <4>2, <4>4 DEF Offered, LinesIn
      <4> QED BY <2>3, <4>1, <4>3, <4>4, VmMovesBreaks DEF InForce
    <3>3. cmd' \in {cmd, NoRunCommand}
      BY <2>3, VmMovesBreaks
    <3> QED BY <1>0, <2>1, <3>2, <3>3, BreaksAre, BreaksAreThen
  <2> QED BY <1>1, <2>2, <2>3
<1>2. CASE Receive
  <2>1. /\ Head(inbox) \in Requests /\ todo' \in Handlers(Head(inbox))
        /\ bps' = LinesThen(Head(inbox)) /\ instBps' = InstsThen(Head(inbox))
        /\ UNCHANGED <<noDebug, commandsClosed, life, call, cmd, lineBreaks, instBreaks, handler>>
        /\ todo = <<>> /\ call = "none"
    BY <1>2, HeadTailProperties
       DEF Receive, DapTypeOK, runVars, breakVars, LinesThen, InstsThen
  <2>2. UpdatesAre(todo', bps', instBps')
    BY <1>0, <2>1, HandlersAre DEF Handled, UpdatesAre
  <2>3. \A line \in bps' : InstFromSource(line) >= 0
    BY <1>0, <2>1, RequestsAre, VerifiedAgain, BreaksAre DEF LinesThen
  <2>4. \A kind : ~Updating(todo, kind)
    BY <2>1 DEF Updating
  <2>5. cmd'.op = "inspect"
    BY <1>0, <2>1
  <2>6. InForce' /\ handler' = "serving" =>
          /\ life # "none"
          /\ LinesIn(lineBreaks', bps) /\ instBreaks' = instBps
    BY <1>0, <2>1, <2>4, BreaksAre DEF InForce, Offered
  <2>7. handler' = "serving" /\ InForce' =>
         /\ LinesIn(lineBreaks', bps') \/ Updating(todo', "lineBreaks")
         /\ instBreaks' = instBps' \/ Updating(todo', "instBreaks")
    BY <1>2, <2>6, ReceiveUpdates
  <2> QED BY <2>2, <2>3, <2>5, <2>7, BreaksAreThen
<1>3. CASE ReceiveEof \/ DoPlayAgain
  <2>1. /\ handler' = "unwinding" /\ UNCHANGED <<bps, instBps, cmd>>
        /\ Without(todo', {"runInVm"})
    BY <1>3, DeferredIs DEF ReceiveEof, DoPlayAgain, bpVars, runVars, Without, Ending
  <2>2. UpdatesAre(todo', bps', instBps')
    BY <2>1 DEF UpdatesAre, Without, Updates
  <2> QED BY <2>1, <2>2, BreaksAre, BreaksAreThen
<1>4. CASE Statement /\ ~DoPlayAgain
  <2>1. /\ todo # <<>> /\ todo' = Tail(todo) /\ UNCHANGED <<bps, instBps>>
        /\ handler' \in {handler, "ended"}
    BY <1>4, StatementDoes DEF Advances
  <2>2. /\ UpdatesAre(todo', bps', instBps')
        /\ Updates(Head(todo), "lineBreaks") => Head(todo).cmd.pcs = ComputeLineBreaks(bps)
        /\ Updates(Head(todo), "instBreaks") => Head(todo).cmd.pcs = instBps
        /\ \A kind : Updating(todo, kind) => Updates(Head(todo), kind) \/ Updating(todo', kind)
    BY <1>0, <2>1, RestUpdates, BreaksAre
  <2>3. CASE DoRunInVm
    <3> DEFINE c == Head(todo).cmd
    <3>1. /\ Head(todo).do = "runInVm" /\ call = "none" /\ cmd = NoRunCommand
          /\ UNCHANGED <<life, noDebug, commandsClosed>> /\ c \in RunCommands
      BY <1>0, <2>3, NextStatement DEF DoRunInVm, AtStatement, RunUpdateUnstarted, Offer, CallStep,
                         runVars
    <3>2. \A kind : Updates(Head(todo), kind) <=> c.op = kind
      BY <3>1 DEF Updates
    <3>3. \/ noDebug /\ UNCHANGED runVars
          \/ c.op \in {"lineBreaks", "instBreaks"} /\ RunUpdateUnstarted(c.op, c.pcs)
          \/ Offer(c)
          \/ commandsClosed /\ UNCHANGED runVars
      BY <2>3 DEF DoRunInVm
    <3> HIDE DEF c
    <3>4. CASE UNCHANGED runVars /\ (noDebug \/ commandsClosed)
      <4>1. cmd'.op = "inspect" /\ ~InForce'
        BY <1>0, <3>1, <3>4 DEF InForce, runVars
      <4> QED BY <2>1, <2>2, <4>1, BreaksAre, BreaksAreThen
    <3>5. CASE c.op \in {"lineBreaks", "instBreaks"} /\ RunUpdateUnstarted(c.op, c.pcs)
      <4>1. /\ lineBreaks' = IF c.op = "lineBreaks" THEN c.pcs ELSE lineBreaks
            /\ instBreaks' = IF c.op = "instBreaks" THEN c.pcs ELSE instBreaks
            /\ cmd'.op = "inspect"
        BY <1>0, <3>1, <3>5 DEF RunUpdateUnstarted
      <4>2. InForce' => InForce
        BY <3>1 DEF InForce
      <4>3. handler' = "serving" /\ InForce' =>
             /\ LinesIn(lineBreaks', bps) \/ Updating(todo', "lineBreaks")
             /\ instBreaks' = instBps \/ Updating(todo', "instBreaks")
        BY <2>1, <2>2, <3>1, <3>2, <4>1, <4>2, BreaksAre DEF Offered, LinesIn, c
      <4> QED BY <2>1, <2>2, <4>1, <4>3, BreaksAre, BreaksAreThen
    <3>6. CASE Offer(c)
      <4>1. call' = "open" /\ cmd' = c /\ UNCHANGED <<lineBreaks, instBreaks>>
        BY <3>6 DEF Offer, CallStep, breakVars
      <4>2. InForce' => InForce
        BY <3>1 DEF InForce
      <4>3. /\ cmd'.op = "lineBreaks" => cmd'.pcs = ComputeLineBreaks(bps)
            /\ cmd'.op = "instBreaks" => cmd'.pcs = instBps
        BY <2>2, <3>2, <4>1 DEF c
      <4>4. handler' = "serving" /\ InForce' =>
             /\ LinesIn(lineBreaks', bps) \/ Offered("lineBreaks")' \/ Updating(todo', "lineBreaks")
             /\ instBreaks' = instBps \/ Offered("instBreaks")' \/ Updating(todo', "instBreaks")
        BY <2>1, <2>2, <3>1, <3>2, <4>1, <4>2, BreaksAre DEF Offered
      <4> QED BY <2>1, <2>2, <4>3, <4>4, BreaksAre, BreaksAreThen
    <3> QED BY <3>3, <3>4, <3>5, <3>6
  <2>4. CASE DoNew
    <3>1. /\ lineBreaks' = ComputeLineBreaks(bps)
               \cup (IF Head(todo).args.stopOnEntry /\ NInst > 0 THEN {0} ELSE {})
          /\ instBreaks' = ComputeInstBreaks(instBps) /\ cmd' = NoRunCommand
      BY <2>4 DEF DoNew, NewRun
    <3>2. LinesIn(lineBreaks', bps) /\ instBreaks' = instBps
      BY <1>0, <3>1, BreaksExist DEF LinesIn
    <3> QED BY <1>0, <2>1, <2>2, <3>1, <3>2, BreaksAre, BreaksAreThen
  <2>5. CASE ~DoRunInVm /\ ~DoNew
    <3>1. /\ Head(todo).do # "runInVm" /\ UNCHANGED <<cmd>>
          /\ call \in {"none", "terminating"}
      BY <1>4, <2>5 DEF Statement, DoSend, DoRespond, DoPlay, DoHalt, DoTerminate, DoClose, DoWait,
                      DoNil, DoCloseQueue, DoJoin, DoStartTerminal, DoBanner, DoCloseTerminal,
                      AtStatement, AdvanceOn, RunPlay, RunHalt, RunTerminate, RunClose, RunWait,
                      CallStep, runVars
    <3>2. \A kind : ~Updates(Head(todo), kind) /\ ~Offered(kind)
      BY <3>1 DEF Updates, Offered
    <3>3. InForce' => InForce /\ UNCHANGED <<lineBreaks, instBreaks>>
      BY <1>4, <2>5 DEF Statement, DoSend, DoRespond, DoPlay, DoHalt, DoTerminate, DoClose, DoWait,
                      DoNil, DoCloseQueue, DoJoin, DoStartTerminal, DoBanner, DoCloseTerminal,
                      AdvanceOn, RunPlay, RunHalt, RunTerminate, RunClose, RunWait,
                      CallStep, runVars, breakVars, InForce
    <3>4. handler' = "serving" /\ InForce' =>
           /\ LinesIn(lineBreaks', bps) \/ Updating(todo', "lineBreaks")
           /\ instBreaks' = instBps \/ Updating(todo', "instBreaks")
      BY <2>1, <2>2, <3>2, <3>3, BreaksAre
    <3> QED BY <2>1, <2>2, <3>1, <3>4, BreaksAre, BreaksAreThen
  <2> QED BY <2>3, <2>4, <2>5
<1> QED BY <1>1, <1>2, <1>3, <1>4, OthersHandle

-----------------------------------------------------------------------------
(* What the client sees of a program that is stopped.                      *)
Stopping ==
  /\ handler = "serving" /\ life = "playing" /\ paused
  /\ ~commandsClosed /\ call # "terminating" /\ view # "lost"
StopTold(evs) == \E i \in 1..Len(evs) : evs[i] \in StopEvents

(* StopInv in terms of what is left of the handler, and after a step.      *)
LEMMA StopsAre ==
  /\ StopInv  <=> (Stopping => \/ StopTold(outbox) \/ Resumes(todo)
                              \/ Offered("continue") \/ LastIsStop)
  /\ StopInv' <=> (Stopping' => \/ StopTold(outbox') \/ Resumes(todo')
                               \/ Offered("continue")' \/ LastIsStop')
BY DEF StopInv, Stopping, StopTold, Resumes, Has, ToDo, Offered

(* A message that does not say that the program runs, or ended, leaves the *)
(* stop the last that the client hears.                                    *)
LEMMA EnqueueKeepsStop ==
  ASSUME DapTypeOK, NEW msg \in Messages, Enqueue(msg), view' # "lost"
  PROVE  /\ view # "lost"
         /\ LastIsStop /\ msg \notin Unstops => LastIsStop'
         /\ msg = "stopped" => LastIsStop'
<1>1. /\ view' = view /\ Len(sendQueue) \in Nat
      /\ Len(sendQueue') = Len(sendQueue) + 1
      /\ \A i \in 1..Len(sendQueue) : sendQueue'[i] = sendQueue[i]
      /\ sendQueue'[Len(sendQueue) + 1] = msg
  BY Enqueues
<1>2. ASSUME LastIsStop, msg \notin Unstops PROVE LastIsStop'
  <2>1. PICK i \in 0..Len(sendQueue) :
               /\ IF i = 0 THEN view = "stopped" ELSE sendQueue[i] = "stopped"
               /\ \A j \in (i + 1)..Len(sendQueue) : sendQueue[j] \notin Unstops
    BY <1>2 DEF LastIsStop
  <2>2. i \in 0..Len(sendQueue')
    BY <1>1
  <2>3. IF i = 0 THEN view' = "stopped" ELSE sendQueue'[i] = "stopped"
    BY <1>1, <2>1
  <2>4. ASSUME NEW j \in (i + 1)..Len(sendQueue') PROVE sendQueue'[j] \notin Unstops
    <3>1. j = Len(sendQueue) + 1 \/ (j \in (i + 1)..Len(sendQueue) /\ j \in 1..Len(sendQueue))
      BY <1>1
    <3> QED BY <1>1, <1>2, <2>1, <3>1
  <2> QED BY <2>2, <2>3, <2>4 DEF LastIsStop, Unstops
<1>3. ASSUME msg = "stopped" PROVE LastIsStop'
  <2>1. /\ Len(sendQueue') \in 0..Len(sendQueue') /\ Len(sendQueue') # 0
        /\ sendQueue'[Len(sendQueue')] = "stopped"
        /\ (Len(sendQueue') + 1)..Len(sendQueue') = {}
    BY <1>1, <1>3
  <2> QED BY <2>1 DEF LastIsStop
<1>4. view # "lost"
  BY <1>1
<1> QED BY <1>2, <1>3, <1>4

(* To show a message leaves the stop the last that the client hears.       *)
LEMMA DeliverKeepsStop ==
  ASSUME DapTypeOK, Deliver
  PROVE  /\ view = "lost" => view' = "lost"
         /\ LastIsStop /\ view # "lost" => LastIsStop'
<1>1. /\ sendQueue # <<>> /\ sendQueue' = Tail(sendQueue) /\ view' = Shown(Head(sendQueue))
  BY DEF Deliver
<1>2. /\ Len(sendQueue) \in Nat /\ Len(sendQueue) = Len(sendQueue') + 1 /\ Len(sendQueue') \in Nat
      /\ Head(sendQueue) = sendQueue[1]
      /\ \A i \in 1..Len(sendQueue') : sendQueue'[i] = sendQueue[i + 1]
  BY <1>1, Delivers
<1>3. view = "lost" => view' = "lost"
  BY <1>1 DEF Shown
<1>4. ASSUME LastIsStop, view # "lost" PROVE LastIsStop'
  <2>1. PICK i \in 0..Len(sendQueue) :
               /\ IF i = 0 THEN view = "stopped" ELSE sendQueue[i] = "stopped"
               /\ \A j \in (i + 1)..Len(sendQueue) : sendQueue[j] \notin Unstops
    BY <1>4 DEF LastIsStop
  <2>2. CASE i \in {0, 1}
    <3>1. view' = "stopped"
      <4>1. CASE i = 1
        BY <1>1, <1>2, <1>4, <2>1, <4>1 DEF Shown, EndEvents
      <4>2. CASE i = 0
        <5>1. view = "stopped" /\ sendQueue[1] \notin Unstops
          <6>1. 1 \in (i + 1)..Len(sendQueue)
            BY <1>2, <4>2
          <6> QED BY <2>1, <4>2, <6>1
        <5>2. sendQueue[1] \notin EndEvents /\ sendQueue[1] # "resumed"
          BY <5>1 DEF Unstops
        <5> QED BY <1>1, <1>2, <5>1, <5>2 DEF Shown
      <4> QED BY <2>2, <4>1, <4>2
    <3>2. ASSUME NEW j \in 1..Len(sendQueue') PROVE sendQueue'[j] \notin Unstops
      <4>1. j + 1 \in (i + 1)..Len(sendQueue)
        BY <1>2, <2>2
      <4> QED BY <1>2, <2>1, <4>1
    <3> QED BY <1>2, <3>1, <3>2, 0 + 1 = 1, 0 \in 0..Len(sendQueue') DEF LastIsStop, Unstops
  <2>3. CASE i \notin {0, 1}
    <3>1. i - 1 \in 1..Len(sendQueue') /\ i - 1 \in 0..Len(sendQueue') /\ i - 1 # 0
          /\ (i - 1) + 1 = i
      BY <1>2, <2>3
    <3>2. sendQueue'[i - 1] = "stopped"
      BY <1>2, <2>1, <2>3, <3>1
    <3>3. ASSUME NEW j \in ((i - 1) + 1)..Len(sendQueue') PROVE sendQueue'[j] \notin Unstops
      <4>1. j \in 1..Len(sendQueue') /\ j + 1 \in (i + 1)..Len(sendQueue)
        BY <1>2, <2>3, <3>1
      <4> QED BY <1>2, <2>1, <4>1
    <3> QED BY <3>1, <3>2, <3>3 DEF LastIsStop, Unstops
  <2> QED BY <2>2, <2>3
<1> QED BY <1>3, <1>4

(* The VM's part: what is posted while the program is stopped, and sent.   *)
LEMMA VmKeepsStop ==
  ASSUME DapTypeOK, VmInv, TodoInv, StopInv, Handling, VmMoves
  PROVE  StopInv'
<1>0. UNCHANGED <<todo, handler, queueClosed>>
  BY DEF Handling
<1>1. SUFFICES ASSUME Stopping'
               PROVE  \/ StopTold(outbox') \/ Resumes(todo)
                      \/ Offered("continue")' \/ LastIsStop'
  BY <1>0, StopsAre
<1>2. CASE CallReturns
  <2>1. /\ UNCHANGED <<life, paused, commandsClosed, outbox, view, sendQueue>>
        /\ call = "served" \/ life = "done"
    BY <1>2 DEF CallReturns, OfferReturns, NobodyServes, RunWaitReturns, CallStep, dapVars, queueVars
  <2>2. Stopping /\ call = "served"
    BY <1>0, <1>1, <2>1 DEF Stopping
  <2>3. LastIsStop' <=> LastIsStop
    BY <2>1 DEF LastIsStop
  <2> QED BY <2>1, <2>2, <2>3, StopsAre DEF Offered
<1>3. CASE VmRuns
  <2>1. UNCHANGED <<sendQueue, view>>
    BY <1>3 DEF VmRuns, dapVars, queueVars
  <2>2. LastIsStop' <=> LastIsStop
    BY <2>1 DEF LastIsStop
  <2>3. \A ev \in StopEvents : StopTold(<<ev>>)
    BY 1 \in 1..1 DEF StopTold
  <2>4. StopTold(<<"step", "breakpoint">>)
    BY 1 \in 1..2 DEF StopTold, StopEvents
  <2>5. ~StopTold(<<>>)
    BY DEF StopTold
  <2>6. CASE Stop
    <3>1. outbox' \in {<<"step">>, <<"breakpoint">>, <<"step", "breakpoint">>, <<"exception">>}
      BY <2>6 DEF Stop, Playing, Post
    <3> QED BY <2>3, <2>4, <3>1 DEF StopEvents
  <2>7. CASE /\ paused' = paused /\ life = "playing" /\ outbox = <<>>
             /\ UNCHANGED <<commandsClosed, call>> /\ cmd' = cmd
    <3>1. Stopping
      BY <1>0, <1>1, <2>1, <2>7 DEF Stopping
    <3> QED BY <2>2, <2>5, <2>7, <3>1, StopsAre DEF Offered
  <2>8. CASE Report
    BY <2>7, <2>8 DEF Report, Playing, RunStep, HostQuiet
  <2>9. CASE Serve
    <3>1. CASE cmd.op = "continue"
      BY <1>1, <2>9, <3>1 DEF Serve, Stopping
    <3>2. CASE cmd.op = "pause"
      <4>1. outbox' = <<"pause">>
        BY <2>9, <3>2 DEF Serve, Post
      <4> QED BY <2>3, <4>1 DEF StopEvents
    <3>3. CASE cmd.op \notin {"continue", "pause"}
      <4>1. /\ paused' = paused /\ life = "playing" /\ outbox = <<>> /\ call = "open"
            /\ UNCHANGED commandsClosed
        BY <2>9, <3>3 DEF Serve, RunStep, HostQuiet
      <4>2. Stopping
        BY <1>0, <1>1, <2>1, <4>1 DEF Stopping
      <4> QED BY <2>2, <2>5, <3>3, <4>1, <4>2, StopsAre DEF Offered
    <3> QED BY <3>1, <3>2, <3>3
  <2>10. CASE Evaluated \/ Served
    <3>1. /\ paused' = paused /\ life = "playing" /\ outbox = <<>>
          /\ call \in {"evaluating", "serving"} /\ UNCHANGED commandsClosed
      BY <2>10 DEF Evaluated, Served, RunStep, HostQuiet
    <3>2. Stopping
      BY <1>0, <1>1, <2>1, <3>1 DEF Stopping
    <3> QED BY <2>2, <2>5, <3>1, <3>2, StopsAre DEF Offered
  <2>11. CASE Leave \/ RunExited \/ RunDone \/ RunCrash
    BY <1>1, <2>11 DEF Leave, RunExited, RunDone, RunCrash, RunStep, Stopping
  <2> QED BY <1>3, <2>6, <2>8, <2>9, <2>10, <2>11 DEF VmRuns, RunVm
<1>4. CASE VmTests
  <2>1. UNCHANGED <<life, paused, commandsClosed, call, cmd, sendQueue, view>>
    BY <1>4 DEF VmTests, dapVars, queueVars
  <2>2. Stopping /\ ~suppressed
    BY <1>0, <1>1, <2>1 DEF Stopping, VmInv
  <2>3. outbox' = outbox
    BY <1>4, <2>2 DEF VmTests, TestSuppressed, DropSuppressed, PassSuppressed
  <2>4. LastIsStop' <=> LastIsStop
    BY <2>1 DEF LastIsStop
  <2> QED BY <2>1, <2>2, <2>3, <2>4, StopsAre DEF Offered
<1>5. CASE VmSends
  <2>1. /\ outbox # <<>> /\ outbox' = Tail(outbox)
        /\ UNCHANGED <<life, paused, commandsClosed, call, cmd>>
        /\ Enqueue(HostEvent(Head(outbox))) /\ HostEvent(Head(outbox)) \in Messages
    BY <1>5, Tells DEF VmSends, SendEvent, SendOutput
  <2>2. view' # "lost" /\ view # "lost"
    BY <1>1, <2>1, EnqueueKeepsStop DEF Stopping
  <2>3. Stopping
    BY <1>0, <1>1, <2>1, <2>2 DEF Stopping
  <2>4. /\ Len(outbox) \in Nat /\ Len(outbox') \in Nat /\ Len(outbox) = Len(outbox') + 1
        /\ Head(outbox) = outbox[1] /\ outbox[1] \in Events /\ 1 \in 1..Len(outbox)
        /\ \A i \in 1..Len(outbox') : outbox'[i] = outbox[i + 1]
    BY <2>1, Outbox DEF DapTypeOK, RunTypeOK, HostTypeOK
  <2>5. Head(outbox) \in StopEvents \cup {"output", "continued"}
    BY <2>3, <2>4 DEF VmInv, Stopping
  <2>6. CASE Head(outbox) \in StopEvents
    BY <2>1, <2>2, <2>4, <2>6, HostEvents, EnqueueKeepsStop
  <2>7. CASE Head(outbox) \notin StopEvents
    <3>1. HostEvent(Head(outbox)) \notin Unstops
      BY <2>4, <2>5, <2>7, HostEvents
    <3>2. LastIsStop => LastIsStop'
      BY <2>1, <2>2, <3>1, EnqueueKeepsStop
    <3>3. ASSUME StopTold(outbox) PROVE StopTold(outbox')
      <4>1. PICK i \in 1..Len(outbox) : outbox[i] \in StopEvents
        BY <3>3 DEF StopTold
      <4>2. i # 1 /\ i - 1 \in 1..Len(outbox') /\ (i - 1) + 1 = i
        BY <2>4, <2>7, <4>1
      <4>3. outbox'[i - 1] = outbox[i]
        BY <2>4, <4>2
      <4> QED BY <4>1, <4>2, <4>3 DEF StopTold
    <3> QED BY <2>1, <2>3, <3>2, <3>3, StopsAre DEF Offered
  <2> QED BY <2>6, <2>7
<1>6. CASE VmSendPanics
  BY <1>0, <1>1, <1>6, TodoIs DEF VmSendPanics, Stopping
<1> QED BY <1>2, <1>3, <1>4, <1>5, <1>6 DEF VmMoves

(* A statement that sends, takes nothing of this back: an end is told of a *)
(* session that is closed, and the program said to run that will.          *)
LEMMA SendKeepsStop ==
  ASSUME DapTypeOK, TodoInv, StopInv, DoSend \/ DoRespond, Stopping'
  PROVE  StopTold(outbox') \/ Resumes(todo') \/ LastIsStop'
<1>1. /\ todo # <<>> /\ todo' = Tail(todo) /\ Head(todo).do \in {"send", "respond"}
      /\ UNCHANGED <<life, paused, commandsClosed, call, outbox>> /\ call = "none"
      /\ handler' = handler /\ Enqueue(Head(todo).msg) /\ Head(todo).msg \in Messages
  BY Tells DEF DoSend, DoRespond, AtStatement, Advance, runVars, hostVars
<1>2. view' # "lost" /\ view # "lost"
  BY <1>1, EnqueueKeepsStop DEF Stopping
<1>3. Stopping /\ ~Offered("continue")
  BY <1>1, <1>2 DEF Stopping, Offered
<1>4. Resumes(todo) => Resumes(todo')
  BY <1>1, RestKeeps DEF DapTypeOK, ToContinue
<1>5. CASE Resumes(todo)
  BY <1>4, <1>5
<1>6. CASE ~Resumes(todo)
  <2>1. Head(todo) = todo[1]
    BY <1>1, NextStatement
  <2>2. ~TellsEnd(Head(todo)) /\ ~TellsResume(Head(todo))
    BY <1>1, <1>3, <1>6, <2>1, TodoIs DEF Stopping
  <2>3. Head(todo).msg \notin Unstops
    BY <1>1, <2>2, NextStatement DEF DoSend, DoRespond, AtStatement, TellsEnd, TellsResume, Unstops,
                                    EndEvents
  <2>4. StopTold(outbox) \/ LastIsStop
    BY <1>3, <1>6, StopsAre
  <2>5. LastIsStop => LastIsStop'
    BY <1>1, <1>2, <2>3, EnqueueKeepsStop
  <2> QED BY <1>1, <2>4, <2>5
<1> QED BY <1>5, <1>6

(* StopInv is kept: by the VM, by what is sent, and by the statements that *)
(* resume or end the program.                                              *)
LEMMA StopStep ==
  ASSUME DapTypeOK, VmInv, TodoInv, StopInv, [DapNext]_vars
  PROVE  StopInv'
<1>0. SUFFICES ASSUME Stopping'
               PROVE  \/ StopTold(outbox') \/ Resumes(todo')
                      \/ Offered("continue")' \/ LastIsStop'
  BY StopsAre
<1>1. UNCHANGED <<sendQueue, view>> => (LastIsStop' <=> LastIsStop)
  BY DEF LastIsStop
<1>2. UNCHANGED runVars =>
        /\ UNCHANGED <<life, commandsClosed, call, outbox, noDebug, cmd>>
        /\ paused' <=> paused
  BY DEF runVars, hostVars
<1>3. CASE Handling /\ VmMoves
  BY <1>0, <1>3, VmKeepsStop, StopsAre
<1>4. CASE Handling /\ UNCHANGED runVars /\ UNCHANGED <<sendQueue, view>>
  BY <1>0, <1>1, <1>2, <1>4, StopsAre DEF Handling, Stopping, Offered
<1>5. CASE Handling /\ UNCHANGED runVars /\ Deliver
  <2>1. view # "lost"
    BY <1>0, <1>5, DeliverKeepsStop DEF Stopping
  <2>2. Stopping
    BY <1>0, <1>2, <1>5, <2>1 DEF Handling, Stopping
  <2>3. LastIsStop => LastIsStop'
    BY <1>5, <2>1, DeliverKeepsStop
  <2> QED BY <1>2, <1>5, <2>2, <2>3, StopsAre DEF Handling, Offered
<1>6. CASE Receive
  <2>1. todo = <<>> /\ UNCHANGED <<runVars, handler, sendQueue, view>>
    BY <1>6 DEF Receive, queueVars
  <2>2. ~Resumes(todo)
    BY <2>1 DEF Resumes, Has
  <2>3. Stopping
    BY <1>0, <1>2, <2>1 DEF Stopping
  <2> QED BY <1>1, <1>2, <2>1, <2>2, <2>3, StopsAre DEF Offered
<1>7. CASE ReceiveEof \/ DoPlayAgain \/ DoJoin
  BY <1>0, <1>7 DEF ReceiveEof, DoPlayAgain, DoJoin, Stopping
<1>8. CASE DoNew \/ DoNil \/ DoHalt \/ DoTerminate \/ DoClose \/ DoWait
  <2>1. CASE DoNew \/ DoNil
    BY <1>0, <2>1 DEF DoNew, DoNil, NewRun, Stopping
  <2>2. CASE DoHalt \/ DoTerminate
    BY <1>0, <2>2 DEF DoHalt, DoTerminate, RunHalt, RunTerminate, CallStep, Stopping
  <2>3. CASE DoClose \/ DoWait
    <3>1. commandsClosed'
      BY <2>3 DEF DoClose, DoWait, RunClose, RunWait
    <3> QED BY <1>0, <3>1 DEF Stopping
  <2> QED BY <1>8, <2>1, <2>2, <2>3
<1>9. CASE DoPlay
  BY <1>0, <1>9 DEF DoPlay, RunPlay, Stopping, VmInv
<1>10. CASE DoSend \/ DoRespond
  BY <1>0, <1>10, SendKeepsStop
<1>11. CASE DoCloseQueue
  <2>1. /\ todo # <<>> /\ Head(todo).do = "closeQueue" /\ handler' = handler
    BY <1>11 DEF DoCloseQueue, AtStatement
  <2>2. Without(todo, {"closeQueue"}) /\ todo \in Seq(Statements)
    BY <1>0, <2>1, TodoIs DEF Stopping, DapTypeOK
  <2> QED BY <2>1, <2>2, RestKeeps
<1>12. CASE DoStartTerminal \/ DoBanner \/ DoCloseTerminal
  <2>1. /\ todo # <<>> /\ todo' = Tail(todo) /\ Head(todo).do # "runInVm"
        /\ UNCHANGED <<runVars, handler, sendQueue, view>> /\ call = "none"
    BY <1>12 DEF DoStartTerminal, DoBanner, DoCloseTerminal, AtStatement, AdvanceOn, queueVars
  <2>2. Stopping /\ ~Offered("continue")
    BY <1>0, <1>2, <2>1 DEF Stopping, Offered
  <2>3. Resumes(todo) => Resumes(todo')
    BY <2>1, RestKeeps DEF DapTypeOK, ToContinue
  <2> QED BY <1>1, <1>2, <2>1, <2>2, <2>3, StopsAre
<1>13. CASE DoRunInVm
  <2> DEFINE c == Head(todo).cmd
  <2>1. /\ todo # <<>> /\ todo' = Tail(todo) /\ call = "none"
        /\ UNCHANGED <<handler, sendQueue, view>>
    BY <1>13 DEF DoRunInVm, AtStatement, Advance, queueVars
  <2>2. \/ noDebug /\ UNCHANGED runVars
        \/ RunUpdateUnstarted(c.op, c.pcs)
        \/ Offer(c)
        \/ commandsClosed /\ UNCHANGED runVars
    BY <1>13 DEF DoRunInVm
  <2>3. Head(todo) = ToContinue => c.op = "continue"
    BY DEF ToContinue
  <2>4. Resumes(todo) => ~noDebug /\ (Resumes(todo') \/ Head(todo) = ToContinue)
    BY <2>1, RestKeeps, TodoIs DEF DapTypeOK
  <2> HIDE DEF c
  <2>5. /\ UNCHANGED <<life, commandsClosed, outbox>> /\ (paused' <=> paused)
        /\ \/ noDebug \/ commandsClosed \/ life = "unstarted"
           \/ call' = "open" /\ cmd' = c
    BY <1>2, <2>2 DEF RunUpdateUnstarted, Offer, CallStep
  <2>6. Stopping /\ ~Offered("continue")
    BY <1>0, <2>1, <2>5 DEF Stopping, Offered
  <2>7. Resumes(todo) => Resumes(todo') \/ Offered("continue")'
    BY <2>3, <2>4, <2>5, <2>6 DEF Stopping, Offered
  <2> QED BY <1>1, <2>1, <2>5, <2>6, <2>7, StopsAre
<1> QED BY <1>3, <1>4, <1>5, <1>6, <1>7, <1>8, <1>9, <1>10, <1>11, <1>12, <1>13, OthersHandle
        DEF Statement

-----------------------------------------------------------------------------
(* The invariant.                                                          *)
LEMMA DapStart ==
  ASSUME DapInit
  PROVE  DapInv
<1>1. /\ suppressed = FALSE /\ outbox = <<>> /\ passed = FALSE
      /\ noDebug = FALSE /\ life = "none" /\ paused = FALSE /\ commandsClosed = FALSE
      /\ lineBreaks = {} /\ instBreaks = {} /\ call = "none" /\ cmd = NoRunCommand
      /\ inbox = <<>> /\ asked = 0 /\ connected = TRUE /\ handler = "serving" /\ todo = <<>>
      /\ bps = {} /\ instBps = {} /\ sendQueue = <<>> /\ queueClosed = FALSE /\ writer = TRUE
      /\ view = "none" /\ invited = FALSE /\ answers = 1
  BY DEF DapInit, HostInit
<1>2. DapTypeOK
  <2>1. LinkTypeOK
    BY DEF DapInit, LinkInit, LinkTypeOK, Links, Writers
  <2>2. RunTypeOK
    BY <1>1, Posted DEF RunTypeOK, HostTypeOK, Lives, Calls, NoRunCommand, RunCommands
  <2>3. /\ inbox \in Seq(Requests) /\ todo \in Seq(Statements) /\ sendQueue \in Seq(Messages)
        /\ Len(sendQueue) = 0
    BY <1>1, EmptySeq
  <2>4. asked \in 0..MaxRequests /\ Len(sendQueue) <= QueueCap /\ answers \in Nat
    BY <1>1, <2>3, DapAssumption
  <2>5. bps \in SUBSET Nat /\ instBps \in SUBSET PCs
    BY <1>1
  <2> QED BY <1>1, <2>1, <2>2, <2>3, <2>4, <2>5 DEF DapTypeOK
<1>3. VmInv
  BY <1>1 DEF VmInv
<1>4. TodoInv
  BY <1>1 DEF TodoInv, ToDo
<1>5. BreakInv
  BY <1>1 DEF BreakInv, NoRunCommand
<1>6. StopInv
  BY <1>1 DEF StopInv
<1>7. AnswerInv
  BY <1>1 DEF AnswerInv, Answers
<1> QED BY <1>2, <1>3, <1>4, <1>5, <1>6, <1>7 DEF DapInv

(* DapInv holds always: each part is kept by every step from the parts     *)
(* before it.                                                              *)
THEOREM DapInvariance == DapSpec => []DapInv
<1>1. DapInit => DapInv
  BY DapStart
<1>2. DapInv /\ [DapNext]_vars => DapInv'
  BY TypeStep, VmStepInv, TodoStep, BreakStep, StopStep, AnswerStep DEF DapInv
<1> QED BY <1>1, <1>2, PTL DEF DapSpec

-----------------------------------------------------------------------------
(* When all is quiet and every message has arrived, a program that is      *)
(* stopped is shown as stopped, unless a message was lost: the answer that *)
(* says it runs never overtakes the stop (dap/control.go).                 *)
THEOREM StopIsSeenAlways == DapSpec => []StopIsSeen
<1>1. DapInv => StopIsSeen
  <2> SUFFICES ASSUME DapInv, AtRest, connected, outbox = <<>>, sendQueue = <<>>,
                      life = "playing", paused, ~commandsClosed, view # "lost"
               PROVE  view = "stopped"
    BY DEF StopIsSeen
  <2>1. Stopping /\ ~StopTold(outbox) /\ ~Resumes(todo) /\ ~Offered("continue")
    BY DEF AtRest, Stopping, StopTold, Resumes, Has, Offered
  <2>2. LastIsStop
    BY <2>1, StopsAre DEF DapInv
  <2>3. \A i \in 0..Len(sendQueue) : i = 0
    OBVIOUS
  <2> QED BY <2>2, <2>3 DEF LastIsStop
<1> QED BY <1>1, DapInvariance, PTL

(* Every request is answered once, on every way through its handler        *)
(* (dispatchRequest()), where no launch is in test mode without the file of*)
(* the expected output: there tryStartSession() answers and goes on        *)
(* (dap/start.go:70).                                                      *)
THEOREM AnsweredOnceAlways ==
  ASSUME Untested
  PROVE  DapSpec => []AnsweredOnce
<1>1. Untested /\ DapInv => AnsweredOnce
  <2> SUFFICES ASSUME Untested, DapInv, AtRest PROVE answers = 1
    BY DEF AnsweredOnce
  <2>1. todo = <<>> /\ handler = "serving" /\ AnswerInv
    BY DEF AtRest, DapInv
  <2>2. ~OneIn(todo)
    BY <2>1 DEF OneIn
  <2> QED BY <2>1, <2>2, AnswersAre
<1>2. Untested
  OBVIOUS
<1> QED BY <1>1, <1>2, DapInvariance, PTL

(* When the handler is at rest, the VM of a program that is debugged has   *)
(* the breakpoints that the client set, on the first instruction of each   *)
(* line, and on no other but for stopOnEntry: before or after the launch, a*)
(* restart or configurationDone.                                           *)
THEOREM BreakpointsHold == DapSpec => []BreakpointsInForce
<1>1. DapInv => BreakpointsInForce
  <2> DEFINE starts == {pc \in LineStarts : Line[pc] \in bps}
  <2> SUFFICES ASSUME DapInv, AtRest, life = "playing", ~noDebug, ~commandsClosed
               PROVE  /\ starts \subseteq lineBreaks /\ lineBreaks \subseteq starts \cup {0}
                      /\ \A line \in bps : \E pc \in starts : Line[pc] = line
                      /\ instBreaks = instBps
    BY DEF BreakpointsInForce
  <2>1. bps \in SUBSET Nat /\ \A line \in bps : InstFromSource(line) >= 0
    BY DEF DapInv, DapTypeOK, BreakInv
  <2>2. ComputeLineBreaks(bps) = starts
    BY <2>1, BreakpointsAreExact
  <2>3. handler = "serving" /\ InForce
    BY DEF AtRest, InForce
  <2>4. /\ ~Offered("lineBreaks") /\ ~Updating(todo, "lineBreaks")
        /\ ~Offered("instBreaks") /\ ~Updating(todo, "instBreaks")
    BY DEF AtRest, Offered, Updating
  <2>5. LinesIn(lineBreaks, bps) /\ instBreaks = instBps
    BY <2>3, <2>4, BreaksAre DEF DapInv
  <2>6. ASSUME NEW line \in bps PROVE \E pc \in starts : Line[pc] = line
    <3>1. InstFromSource(line) \in LineStarts /\ Line[InstFromSource(line)] = line
      BY <2>1, InstFromSourceIs
    <3> QED BY <3>1
  <2> QED BY <2>2, <2>5, <2>6 DEF LinesIn
<1> QED BY <1>1, DapInvariance, PTL

(* A session is let go only when its VM is done and its events are sent:   *)
(* the events of two runs never mix (restart, dap/start.go).               *)
THEOREM OneVmAtATime == DapSpec => OneVm
<1>1. DapInv /\ [DapNext]_vars =>
        [life # "none" /\ life' = "none" => life = "done" /\ outbox = <<>>]_life
  <2> SUFFICES ASSUME DapInv, [DapNext]_vars, life # "none", life' = "none"
               PROVE  life = "done" /\ outbox = <<>>
    OBVIOUS
  <2>1. CASE DoNil
    <3>1. todo # <<>> /\ Head(todo).do = "nil" /\ call = "none" /\ life # "crashed"
      BY <2>1 DEF DoNil, AtStatement
    <3>2. todo[1].do = "nil"
      BY <3>1, NextStatement DEF DapInv
    <3>3. life = "done"
      BY <3>1, <3>2, TodoIs DEF DapInv
    <3> QED BY <3>3 DEF DapInv, VmInv
  <2>2. CASE DoRunInVm \/ DoPlay \/ DoHalt \/ DoTerminate \/ DoClose \/ DoWait \/ CallReturns
    BY <2>2 DEF DoRunInVm, DoPlay, DoHalt, DoTerminate, DoClose, DoWait, CallReturns, RunPlay,
                RunHalt, RunTerminate, RunClose, RunWait, RunUpdateUnstarted, Offer,
                OfferReturns, RunWaitReturns, runVars
  <2>3. CASE DoNew
    BY <2>3 DEF DoNew, NewRun
  <2>4. CASE VmRuns
    BY <2>4 DEF VmRuns, RunVm, Stop, Report, Serve, Evaluated, Served, Leave, RunExited, RunDone,
                RunCrash, Playing, RunStep
  <2>5. CASE VmTests \/ VmSends \/ VmSendPanics
    BY <2>5 DEF VmTests, VmSends, VmSendPanics
  <2>6. CASE UNCHANGED runVars
    BY <2>6 DEF runVars
  <2> QED BY <2>1, <2>2, <2>3, <2>4, <2>5, <2>6, OthersKeepRun DEF RunMoves
<1> QED BY <1>1, DapInvariance, PTL DEF DapSpec, OneVm
=============================================================================
