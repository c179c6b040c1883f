--------------------------- MODULE FunctionRunProofs ---------------------------
(***************************************************************************)
(* For every function of the language: the code asmgen.go makes of it does *)
(* what its source says, and what controlflow/ reports of it is so.        *)
(*                                                                         *)
(* The statements are shown to be well-founded, the four recursive         *)
(* functions over them (Flow, Writes, WhileHalts, StmtCode) to be as they  *)
(* are written, and the code of a statement to be the code of its parts.   *)
(* Then, by induction over what stands in what, every statement runs well: *)
(* from where its code begins, with nothing on the stack, the machine and  *)
(* the source go on in step until the code has been run to its end.  The   *)
(* invariant is that the machine is at one of the points of such a run.    *)
(***************************************************************************)
EXTENDS FunctionRun, Loops, SequenceTheorems, TLAPS

-----------------------------------------------------------------------------
(***************************************************************************)
(* Statements.                                                             *)
(***************************************************************************)

(* Each level of statements is over blocks of the one below ...            *)
LEMMA UpToIs ==
  /\ UpTo[0] = {}
  /\ \A n \in 1..Depth : UpTo[n] = StatementsOver(Seq(UpTo[n - 1]))
<1> DEFINE Is(g, K) ==
      g = [n \in 0..K |-> IF n = 0 THEN {} ELSE StatementsOver(Seq(g[n - 1]))]
           S == {K \in 0..Depth : \E g : Is(g, K)}
<1>1. 0 \in S
  <2> DEFINE g == [n \in 0..0 |-> {}]
  <2>1. Is(g, 0) /\ 0 \in 0..Depth
    BY DepthAssumption
  <2> HIDE DEF g, Is
  <2> QED BY <2>1
<1>2. ASSUME NEW K \in 0..(Depth - 1), K \in S PROVE K + 1 \in S
  <2>1. PICK g : Is(g, K)
    BY <1>2
  <2> DEFINE h == [n \in 0..(K + 1) |-> IF n = K + 1 THEN StatementsOver(Seq(g[K])) ELSE g[n]]
  <2>2. ASSUME NEW n \in 0..(K + 1)
        PROVE  h[n] = IF n = 0 THEN {} ELSE StatementsOver(Seq(h[n - 1]))
    <3>1. CASE n = K + 1
      <4>1. n # 0 /\ n - 1 = K /\ K \in 0..(K + 1) /\ K # K + 1
        BY <3>1
      <4>2. h[n - 1] = g[K]
        BY <4>1
      <4> QED BY <3>1, <4>1, <4>2
    <3>2. CASE n # K + 1
      <4>1. h[n] = g[n] /\ n \in 0..K
        BY <3>2
      <4>2. n # 0 => n - 1 \in 0..(K + 1) /\ n - 1 # K + 1
        BY <3>2
      <4>3. n # 0 => h[n - 1] = g[n - 1]
        BY <4>2
      <4>4. g[n] = IF n = 0 THEN {} ELSE StatementsOver(Seq(g[n - 1]))
        BY <2>1, <4>1
      <4> QED BY <4>1, <4>3, <4>4
    <3> QED BY <3>1, <3>2
  <2>3. Is(h, K + 1)
    BY <2>2
  <2>4. K + 1 \in 0..Depth
    BY DepthAssumption
  <2> HIDE DEF h, Is
  <2> QED BY <2>3, <2>4
<1>3. Depth \in S
  <2> HIDE DEF S
  <2>1. \A n \in 0..Depth : n \in S
    BY <1>1, <1>2, DepthAssumption, UpFromZero
  <2> QED BY <2>1, DepthAssumption
<1>4. Is(UpTo, Depth)
  <2>1. \E g : Is(g, Depth)
    BY <1>3
  <2> QED BY <2>1 DEF UpTo
<1>5. ASSUME NEW n \in 0..Depth
      PROVE  UpTo[n] = IF n = 0 THEN {} ELSE StatementsOver(Seq(UpTo[n - 1]))
  BY <1>4
<1>6. 0 \in 0..Depth /\ \A n \in 1..Depth : n \in 0..Depth /\ n # 0
  BY DepthAssumption
<1> QED BY <1>5, <1>6

(* What a statement is.                                                    *)
HasCases(s, blocks) ==
  /\ s.cases \in Seq([e : Exprs, block : blocks])
  /\ s.other \in Seq(blocks) /\ Len(s.other) <= 1

IsStatement(s, blocks) ==
  \/ s.k \in {"display", "return"} /\ s.e \in Exprs
  \/ s.k = "set" /\ s.v \in Vars /\ s.e \in Exprs
  \/ s.k = "call" /\ s.v \in Vars
  \/ s.k = "if" /\ s.cases # <<>> /\ HasCases(s, blocks)
  \/ s.k = "select" /\ s.e \in Exprs /\ HasCases(s, blocks)
  \/ s.k = "while" /\ s.e \in Exprs /\ s.block \in blocks
  \/ s.k = "do" /\ s.until \in BOOLEAN /\ s.e \in Exprs /\ s.block \in blocks
  \/ s.k = "for" /\ s.v \in Vars /\ s.start \in Exprs /\ s.stop \in Exprs /\ s.block \in blocks
  \/ s.k = "foreach" /\ s.v \in Vars /\ s.e \in Exprs /\ s.block \in blocks

(* Of a statement over some blocks.                                        *)
LEMMA StatementIs ==
  ASSUME NEW blocks, NEW s \in StatementsOver(blocks)
  PROVE  IsStatement(s, blocks)
<1> DEFINE cases  == Seq([e : Exprs, block : blocks])
           others == {other \in Seq(blocks) : Len(other) <= 1}
<1>1. \/ s \in [k : {"display", "return"}, e : Exprs]
      \/ s \in [k : {"set"}, v : Vars, e : Exprs]
      \/ s \in [k : {"call"}, v : Vars]
      \/ s \in [k : {"if"}, cases : cases \ {<<>>}, other : others]
      \/ s \in [k : {"select"}, e : Exprs, cases : cases, other : others]
      \/ s \in [k : {"while"}, e : Exprs, block : blocks]
      \/ s \in [k : {"do"}, until : BOOLEAN, e : Exprs, block : blocks]
      \/ s \in [k : {"for"}, v : Vars, start : Exprs, stop : Exprs, block : blocks]
      \/ s \in [k : {"foreach"}, v : Vars, e : Exprs, block : blocks]
  BY Zenon DEF StatementsOver
<1> HIDE DEF cases
<1>2. \A other \in others : other \in Seq(blocks) /\ Len(other) <= 1
  OBVIOUS
<1> HIDE DEF others
<1>3. \/ s.k \in {"display", "return"} /\ s.e \in Exprs
      \/ s.k = "set" /\ s.v \in Vars /\ s.e \in Exprs
      \/ s.k = "call" /\ s.v \in Vars
      \/ s.k = "if" /\ s.cases # <<>> /\ s.cases \in cases /\ s.other \in others
      \/ s.k = "select" /\ s.e \in Exprs /\ s.cases \in cases /\ s.other \in others
      \/ s.k = "while" /\ s.e \in Exprs /\ s.block \in blocks
      \/ s.k = "do" /\ s.until \in BOOLEAN /\ s.e \in Exprs /\ s.block \in blocks
      \/ s.k = "for" /\ s.v \in Vars /\ s.start \in Exprs /\ s.stop \in Exprs /\ s.block \in blocks
      \/ s.k = "foreach" /\ s.v \in Vars /\ s.e \in Exprs /\ s.block \in blocks
  BY <1>1
<1> QED
  BY <1>2, <1>3, Zenon DEF IsStatement, HasCases, cases

(* Of sequences, of statements, of levels: more gives more, ...            *)
LEMMA SeqGrows ==
  ASSUME NEW S, NEW T, S \subseteq T
  PROVE  Seq(S) \subseteq Seq(T)
OBVIOUS

(* ... for the statements over more blocks too, ...                        *)
LEMMA OverGrows ==
  ASSUME NEW X, NEW Y, X \subseteq Y
  PROVE  StatementsOver(X) \subseteq StatementsOver(Y)
<1>1. [e : Exprs, block : X] \subseteq [e : Exprs, block : Y]
  OBVIOUS
<1>2. Seq([e : Exprs, block : X]) \subseteq Seq([e : Exprs, block : Y])
  BY <1>1, SeqGrows
<1>3. Seq(X) \subseteq Seq(Y)
  BY SeqGrows
<1> DEFINE cases(Z)  == Seq([e : Exprs, block : Z])
           others(Z) == {other \in Seq(Z) : Len(other) <= 1}
<1>4. cases(X) \subseteq cases(Y)
  BY <1>2
<1>5. others(X) \subseteq others(Y)
  BY <1>3
<1>6. ASSUME NEW Z
      PROVE  StatementsOver(Z) =
       [k : {"display", "return"}, e : Exprs]
       \cup [k : {"set"}, v : Vars, e : Exprs]
       \cup [k : {"call"}, v : Vars]
       \cup [k : {"if"}, cases : cases(Z) \ {<<>>}, other : others(Z)]
       \cup [k : {"select"}, e : Exprs, cases : cases(Z), other : others(Z)]
       \cup [k : {"while"}, e : Exprs, block : Z]
       \cup [k : {"do"}, until : BOOLEAN, e : Exprs, block : Z]
       \cup [k : {"for"}, v : Vars, start : Exprs, stop : Exprs, block : Z]
       \cup [k : {"foreach"}, v : Vars, e : Exprs, block : Z]
  BY Zenon DEF StatementsOver
<1> HIDE DEF cases, others
<1>7. [k : {"if"}, cases : cases(X) \ {<<>>}, other : others(X)]
        \subseteq [k : {"if"}, cases : cases(Y) \ {<<>>}, other : others(Y)]
  BY <1>4, <1>5
<1>8. [k : {"select"}, e : Exprs, cases : cases(X), other : others(X)]
        \subseteq [k : {"select"}, e : Exprs, cases : cases(Y), other : others(Y)]
  BY <1>4, <1>5
<1>9. /\ [k : {"while"}, e : Exprs, block : X] \subseteq [k : {"while"}, e : Exprs, block : Y]
      /\ [k : {"do"}, until : BOOLEAN, e : Exprs, block : X]
           \subseteq [k : {"do"}, until : BOOLEAN, e : Exprs, block : Y]
      /\ [k : {"for"}, v : Vars, start : Exprs, stop : Exprs, block : X]
           \subseteq [k : {"for"}, v : Vars, start : Exprs, stop : Exprs, block : Y]
      /\ [k : {"foreach"}, v : Vars, e : Exprs, block : X]
           \subseteq [k : {"foreach"}, v : Vars, e : Exprs, block : Y]
  OBVIOUS
<1> QED
  BY <1>6, <1>7, <1>8, <1>9, Zenon

(* ... so what stands in a statement is a statement of the level below.    *)
LEMMA LevelsGrow ==
  \A n \in 0..(Depth - 1) : UpTo[n] \subseteq UpTo[n + 1]
<1> DEFINE S == {n \in 0..Depth : n < Depth => UpTo[n] \subseteq UpTo[n + 1]}
<1>1. 0 \in S
  BY UpToIs, DepthAssumption
<1>2. ASSUME NEW n \in 0..(Depth - 1), n \in S PROVE n + 1 \in S
  <2>1. n + 1 \in 0..Depth
    BY DepthAssumption
  <2>2. ASSUME n + 1 < Depth PROVE UpTo[n + 1] \subseteq UpTo[n + 2]
    <3>1. UpTo[n] \subseteq UpTo[n + 1]
      BY <1>2, DepthAssumption
    <3>2. /\ n + 1 \in 1..Depth /\ n + 2 \in 1..Depth
          /\ (n + 1) - 1 = n /\ (n + 2) - 1 = n + 1
      BY <2>2, DepthAssumption
    <3>3. /\ UpTo[n + 1] = StatementsOver(Seq(UpTo[n]))
          /\ UpTo[n + 2] = StatementsOver(Seq(UpTo[n + 1]))
      BY <3>2, UpToIs
    <3>4. Seq(UpTo[n]) \subseteq Seq(UpTo[n + 1])
      BY <3>1, SeqGrows
    <3> QED BY <3>3, <3>4, OverGrows
  <2>3. (n + 1) + 1 = n + 2
    OBVIOUS
  <2> QED BY <2>1, <2>2, <2>3
<1>3. \A n \in 0..Depth : n \in S
  <2> HIDE DEF S
  <2> QED BY <1>1, <1>2, DepthAssumption, UpFromZero
<1> QED BY <1>3, DepthAssumption

(* Statements of any level are statements.                                 *)
LEMMA LevelsAreStatements ==
  \A n \in 0..Depth : UpTo[n] \subseteq Statements
<1> DEFINE S == {n \in 0..Depth : UpTo[Depth - n] \subseteq Statements}
<1>1. 0 \in S
  BY DepthAssumption DEF Statements
<1>2. ASSUME NEW n \in 0..(Depth - 1), n \in S PROVE n + 1 \in S
  <2>1. /\ n + 1 \in 0..Depth /\ Depth - (n + 1) \in 0..(Depth - 1)
        /\ (Depth - (n + 1)) + 1 = Depth - n
    BY DepthAssumption
  <2>2. UpTo[Depth - (n + 1)] \subseteq UpTo[Depth - n]
    BY <2>1, LevelsGrow
  <2> QED BY <1>2, <2>1, <2>2
<1>3. \A n \in 0..Depth : n \in S
  <2> HIDE DEF S
  <2> QED BY <1>1, <1>2, DepthAssumption, UpFromZero
<1>4. ASSUME NEW n \in 0..Depth PROVE UpTo[n] \subseteq Statements
  <2>1. Depth - n \in 0..Depth /\ Depth - (Depth - n) = n
    BY DepthAssumption
  <2> QED BY <1>3, <2>1
<1> QED BY <1>4

(* The blocks of a statement.                                              *)
LEMMA BlocksAre ==
  ASSUME NEW blocks, NEW s, IsStatement(s, blocks)
  PROVE  /\ Blocks(s) \in Seq(blocks)
         /\ s.k \in Loops => Blocks(s) = <<s.block>> /\ s.block \in blocks
         /\ s.k \in Branches =>
              /\ Len(Blocks(s)) = Len(s.cases) + Len(s.other)
              /\ \A i \in 1..Len(s.cases) : Blocks(s)[i] = s.cases[i].block
              /\ s.other # <<>> => /\ Len(s.other) = 1
                                   /\ Blocks(s)[Len(s.cases) + 1] = s.other[1]
         /\ s.k \notin Loops \cup Branches => Blocks(s) = <<>>
<1>1. CASE s.k \in Branches
  <2> DEFINE own == [i \in DOMAIN s.cases |-> s.cases[i].block]
  <2>1. HasCases(s, blocks) /\ s.k \notin Loops
    BY <1>1 DEF IsStatement, Branches, Loops
  <2>2. /\ s.cases \in Seq([e : Exprs, block : blocks])
        /\ s.other \in Seq(blocks) /\ Len(s.other) <= 1
    BY <2>1 DEF HasCases
  <2>3. own \in Seq(blocks) /\ Len(own) = Len(s.cases)
        /\ \A i \in 1..Len(s.cases) : own[i] = s.cases[i].block
    <3>1. /\ Len(s.cases) \in Nat /\ DOMAIN s.cases = 1..Len(s.cases)
          /\ \A i \in 1..Len(s.cases) : s.cases[i] \in [e : Exprs, block : blocks]
      BY <2>2, LenProperties, ElementOfSeq
    <3>2. own \in [1..Len(s.cases) -> blocks]
      BY <3>1
    <3>3. own \in Seq(blocks) /\ Len(own) = Len(s.cases)
      BY <3>1, <3>2
    <3> QED BY <3>1, <3>3
  <2>4. Blocks(s) = own \o s.other
    BY <1>1, <2>1 DEF Blocks
  <2> HIDE DEF own
  <2>7. Len(own) \in Nat /\ Len(s.other) \in Nat
    BY <2>2, <2>3, LenProperties
  <2>5. s.other # <<>> => Len(s.other) = 1
    <3>1. s.other # <<>> => Len(s.other) # 0
      BY <2>2, EmptySeq
    <3>2. PICK n \in Nat : n = Len(s.other)
      BY <2>7
    <3>3. n <= 1
      BY <2>2, <3>2
    <3>4. n # 0 => n = 1
      BY <3>3
    <3> QED BY <3>1, <3>2, <3>4, Zenon
  <2>6. /\ own \o s.other \in Seq(blocks)
        /\ Len(own \o s.other) = Len(own) + Len(s.other)
        /\ \A i \in 1..(Len(own) + Len(s.other)) :
             (own \o s.other)[i] = IF i <= Len(own) THEN own[i] ELSE s.other[i - Len(own)]
    BY <2>2, <2>3, ConcatProperties
  <2>8. s.other # <<>> => (own \o s.other)[Len(own) + 1] = s.other[1]
    <3>1. SUFFICES ASSUME s.other # <<>> PROVE (own \o s.other)[Len(own) + 1] = s.other[1]
      OBVIOUS
    <3>2. Len(own) + 1 \in 1..(Len(own) + Len(s.other)) /\ (Len(own) + 1) - Len(own) = 1
          /\ ~(Len(own) + 1 <= Len(own))
      BY <2>5, <2>7, <3>1
    <3> QED BY <2>6, <3>2
  <2>9. \A i \in 1..Len(s.cases) : (own \o s.other)[i] = s.cases[i].block
    <3> TAKE i \in 1..Len(s.cases)
    <3>2. PICK m \in Nat, n \in Nat : m = Len(own) /\ n = Len(s.other)
      BY <2>7
    <3>3. i \in 1..m
      BY <2>3, <3>2
    <3>4. i \in 1..(m + n) /\ i <= m
      BY <3>3
    <3>1. i \in 1..(Len(own) + Len(s.other)) /\ i <= Len(own)
      BY <3>2, <3>4
    <3> QED BY <2>3, <2>6, <3>1
  <2> QED BY <1>1, <2>1, <2>3, <2>4, <2>5, <2>6, <2>8, <2>9
<1>2. CASE s.k \in Loops
  <2>1. s.block \in blocks /\ s.k \notin Branches
    BY <1>2 DEF IsStatement, Branches, Loops
  <2>2. Blocks(s) = <<s.block>>
    BY <1>2, <2>1 DEF Blocks
  <2>3. <<s.block>> \in Seq(blocks)
    BY <2>1
  <2> QED BY <1>2, <2>1, <2>2, <2>3, Zenon
<1>3. CASE s.k \notin Loops \cup Branches
  <2>1. Blocks(s) = <<>>
    BY <1>3 DEF Blocks
  <2> QED BY <1>3, <2>1, EmptySeq
<1> QED BY <1>1, <1>2, <1>3

(* Of a statement.                                                         *)
LEMMA AllAreStatements ==
  ASSUME NEW s \in Statements
  PROVE  IsStatement(s, Seq(Statements)) /\ Blocks(s) \in Seq(Seq(Statements))
<1>1. Depth # 0
  BY UpToIs DEF Statements
<1>2. Depth \in 1..Depth /\ Depth - 1 \in 0..Depth
  BY <1>1, DepthAssumption
<1>3. s \in StatementsOver(Seq(UpTo[Depth - 1]))
  BY <1>2, UpToIs DEF Statements
<1>4. Seq(UpTo[Depth - 1]) \subseteq Seq(Statements)
  BY <1>2, LevelsAreStatements, SeqGrows
<1>5. s \in StatementsOver(Seq(Statements))
  BY <1>3, <1>4, OverGrows
<1> QED BY <1>5, StatementIs, BlocksAre

(* What holds of a statement when it holds of those inside holds of all.   *)
LEMMA FromInside ==
  ASSUME NEW P,
         \A s \in Statements :
           (\A i \in 1..Len(Blocks(s)) : Blocks(s)[i] \in Seq(P)) => s \in P
  PROVE  Statements \subseteq P
<1> DEFINE S == {n \in 0..Depth : UpTo[n] \subseteq P}
<1>1. 0 \in S
  BY UpToIs, DepthAssumption
<1>2. ASSUME NEW n \in 0..(Depth - 1), n \in S PROVE n + 1 \in S
  <2>1. n + 1 \in 1..Depth /\ n + 1 \in 0..Depth /\ (n + 1) - 1 = n
    BY DepthAssumption
  <2>2. ASSUME NEW s \in UpTo[n + 1] PROVE s \in P
    <3>1. s \in StatementsOver(Seq(UpTo[n]))
      BY <2>1, UpToIs
    <3>2. Blocks(s) \in Seq(Seq(UpTo[n]))
      BY <3>1, StatementIs, BlocksAre
    <3>3. Seq(UpTo[n]) \subseteq Seq(P)
      BY <1>2, SeqGrows
    <3>4. \A i \in 1..Len(Blocks(s)) : Blocks(s)[i] \in Seq(UpTo[n])
      BY <3>2, ElementOfSeq
    <3>5. s \in Statements
      BY <2>1, LevelsAreStatements
    <3> QED BY <3>3, <3>4, <3>5
  <2> QED BY <2>1, <2>2
<1>3. \A n \in 0..Depth : n \in S
  <2> HIDE DEF S
  <2> QED BY <1>1, <1>2, DepthAssumption, UpFromZero
<1> QED BY <1>3, DepthAssumption DEF Statements

(* A function on 1..n is a sequence.                                       *)
LEMMA FunctionIsSeq ==
  ASSUME NEW W, NEW n \in Nat, NEW q \in [1..n -> W]
  PROVE  q \in Seq(W) /\ Len(q) = n
OBVIOUS

(* What f says of the statements inside.                                   *)
LEMMA OfBlocksAre ==
  ASSUME NEW S, NEW V, NEW f, \A t \in S : f[t] \in V,
         NEW s, Blocks(s) \in Seq(Seq(S))
  PROVE  /\ OfBlocks(f, s) \in Seq(Seq(V))
         /\ DOMAIN OfBlocks(f, s) = DOMAIN Blocks(s)
         /\ \A i \in 1..Len(Blocks(s)) :
              OfBlocks(f, s)[i] = [j \in DOMAIN Blocks(s)[i] |-> f[Blocks(s)[i][j]]]
<1> DEFINE inside(i) == [j \in DOMAIN Blocks(s)[i] |-> f[Blocks(s)[i][j]]]
<1>1. DOMAIN Blocks(s) = 1..Len(Blocks(s)) /\ Len(Blocks(s)) \in Nat
  BY LenProperties
<1>2. ASSUME NEW i \in 1..Len(Blocks(s)) PROVE inside(i) \in Seq(V)
  <2>1. PICK b \in Seq(S) : b = Blocks(s)[i]
    BY ElementOfSeq
  <2>2. DOMAIN b = 1..Len(b) /\ Len(b) \in Nat /\ \A j \in 1..Len(b) : b[j] \in S
    BY LenProperties, ElementOfSeq
  <2>3. [j \in DOMAIN b |-> f[b[j]]] \in [1..Len(b) -> V]
    BY <2>2
  <2>4. [j \in DOMAIN b |-> f[b[j]]] \in Seq(V)
    BY <2>2, <2>3
  <2> QED BY <2>1, <2>4
<1> HIDE DEF inside
<1>3. OfBlocks(f, s) = [i \in 1..Len(Blocks(s)) |-> inside(i)]
  BY <1>1 DEF OfBlocks, inside
<1>4. OfBlocks(f, s) \in [1..Len(Blocks(s)) -> Seq(V)]
  BY <1>2, <1>3
<1>5. OfBlocks(f, s) \in Seq(Seq(V))
  <2> DEFINE W == Seq(V)
  <2>1. OfBlocks(f, s) \in [1..Len(Blocks(s)) -> W]
    BY <1>4
  <2> HIDE DEF W
  <2>2. OfBlocks(f, s) \in Seq(W)
    BY <1>1, <2>1, FunctionIsSeq
  <2> QED BY <2>2 DEF W
<1> QED BY <1>1, <1>3, <1>5 DEF inside

(* Functions that say the same of the statements inside.                   *)
LEMMA OfBlocksAgree ==
  ASSUME NEW S, NEW f, NEW g, \A t \in S : f[t] = g[t],
         NEW s, Blocks(s) \in Seq(Seq(S))
  PROVE  OfBlocks(f, s) = OfBlocks(g, s)
<1>1. ASSUME NEW i \in DOMAIN Blocks(s), NEW j \in DOMAIN Blocks(s)[i]
      PROVE  f[Blocks(s)[i][j]] = g[Blocks(s)[i][j]]
  <2>1. PICK b \in Seq(S) : b = Blocks(s)[i]
    BY LenProperties, ElementOfSeq
  <2>2. b[j] \in S
    BY <2>1, LenProperties, ElementOfSeq
  <2> QED BY <2>1, <2>2
<1> QED BY <1>1 DEF OfBlocks

(* There is a function that makes of a statement what G makes of what the  *)
(* function says of the statements inside ...                              *)
LEMMA RecursionIs ==
  ASSUME NEW V, NEW G \in [Statements -> [Seq(Seq(V)) -> V]]
  PROVE  \E f \in [Statements -> V] : \A s \in Statements : f[s] = G[s][OfBlocks(f, s)]
<1> DEFINE Is(g, n) == /\ g \in [UpTo[n] -> V]
                       /\ \A s \in UpTo[n] : g[s] = G[s][OfBlocks(g, s)]
           S == {n \in 0..Depth : \E g : Is(g, n)}
<1>1. 0 \in S
  <2> DEFINE g == [s \in UpTo[0] |-> s]
  <2>1. Is(g, 0) /\ 0 \in 0..Depth
    BY UpToIs, DepthAssumption
  <2> HIDE DEF g, Is
  <2> QED BY <2>1
<1>2. ASSUME NEW n \in 0..(Depth - 1), n \in S PROVE n + 1 \in S
  <2>1. PICK g : Is(g, n)
    BY <1>2
  <2> DEFINE h == [s \in UpTo[n + 1] |-> G[s][OfBlocks(g, s)]]
  <2>2. /\ n + 1 \in 1..Depth /\ n + 1 \in 0..Depth /\ (n + 1) - 1 = n
        /\ UpTo[n] \subseteq UpTo[n + 1] /\ UpTo[n + 1] \subseteq Statements
    BY DepthAssumption, LevelsGrow, LevelsAreStatements
  <2>3. ASSUME NEW s \in UpTo[n + 1] PROVE Blocks(s) \in Seq(Seq(UpTo[n]))
    <3>1. s \in StatementsOver(Seq(UpTo[n]))
      BY <2>2, UpToIs
    <3> QED BY <3>1, StatementIs, BlocksAre
  <2>4. ASSUME NEW s \in UpTo[n + 1] PROVE G[s][OfBlocks(g, s)] \in V
    <3>1. OfBlocks(g, s) \in Seq(Seq(V))
      BY <2>1, <2>3, OfBlocksAre
    <3>2. G[s] \in [Seq(Seq(V)) -> V]
      BY <2>2
    <3> QED BY <3>1, <3>2, Zenon
  <2>5. \A s \in UpTo[n] : h[s] = g[s]
    BY <2>1, <2>2
  <2>6. ASSUME NEW s \in UpTo[n + 1] PROVE h[s] = G[s][OfBlocks(h, s)]
    <3>1. OfBlocks(h, s) = OfBlocks(g, s)
      <4> HIDE DEF h
      <4> QED BY <2>3, <2>5, OfBlocksAgree
    <3> QED BY <3>1
  <2>7. Is(h, n + 1)
    BY <2>4, <2>6
  <2> HIDE DEF h, Is
  <2> QED BY <2>2, <2>7
<1>3. Depth \in S
  <2> HIDE DEF S
  <2>1. \A n \in 0..Depth : n \in S
    BY <1>1, <1>2, DepthAssumption, UpFromZero
  <2> QED BY <2>1, DepthAssumption
<1> QED BY <1>3 DEF Statements

(* ... and the values of such a function are as G makes them.              *)
LEMMA ValuesAre ==
  ASSUME NEW V, NEW f,
         \A s \in Statements : OfBlocks(f, s) \in Seq(Seq(V)) => f[s] \in V
  PROVE  \A s \in Statements : f[s] \in V /\ OfBlocks(f, s) \in Seq(Seq(V))
<1> DEFINE P == {s \in Statements : f[s] \in V}
<1>1. ASSUME NEW s \in Statements, \A i \in 1..Len(Blocks(s)) : Blocks(s)[i] \in Seq(P)
      PROVE  s \in P
  <2>1. Blocks(s) \in Seq(Seq(P))
    <3>1. Blocks(s) \in Seq(Seq(Statements))
      BY AllAreStatements
    <3> DEFINE W == Seq(P)
    <3>2. \A i \in 1..Len(Blocks(s)) : Blocks(s)[i] \in W
      BY <1>1
    <3> HIDE DEF W
    <3>3. Blocks(s) \in Seq(W)
      BY <3>1, <3>2, LenProperties
    <3> QED BY <3>3 DEF W
  <2>2. OfBlocks(f, s) \in Seq(Seq(V))
    <3>1. \A t \in P : f[t] \in V
      OBVIOUS
    <3> HIDE DEF P
    <3> QED BY <2>1, <3>1, OfBlocksAre
  <2> QED BY <2>2
<1>2. Statements \subseteq P
  <2> HIDE DEF P
  <2> QED BY <1>1, FromInside
<1>3. ASSUME NEW s \in Statements PROVE OfBlocks(f, s) \in Seq(Seq(V))
  <2>1. \A t \in Statements : f[t] \in V
    BY <1>2
  <2> QED BY <2>1, AllAreStatements, OfBlocksAre
<1> QED BY <1>2, <1>3

(***************************************************************************)
(* What the analyses compute.                                              *)
(***************************************************************************)
Flows == {CONTINUE, MAYBE, HALT}

FlowsBy(inside, s) == [i \in DOMAIN Blocks(s) |-> BlockFlow(inside[i])]
FlowsOf(s)         == FlowsBy(OfBlocks(Flow, s), s)

(* A statement has one of the three flows, whatever is said of its blocks. *)
LEMMA StmtFlowIs ==
  ASSUME NEW s \in Statements, NEW inside
  PROVE  StmtFlow(s, FlowsBy(inside, s)) \in Flows
<1>1. CASE s.k \in Loops
  <2>1. Blocks(s) = <<s.block>>
    BY <1>1, AllAreStatements, BlocksAre
  <2>2. PICK flow \in Flows : flow = FlowsBy(inside, s)[1]
    BY <2>1 DEF FlowsBy, BlockFlow, Flows
  <2> QED
    BY <1>1, <2>2 DEF Loops, Branches, StmtFlow, DoFlow, WhileFlow, ForFlow, Alternatives, Flows
<1>2. CASE s.k \in Branches
  BY <1>2 DEF Branches, StmtFlow, ChoiceFlow, Alternatives, Flows
<1>3. CASE s.k \notin Loops \cup Branches
  BY <1>3 DEF Loops, Branches, StmtFlow, Flows
<1> QED BY <1>1, <1>2, <1>3

(* The flow of a statement comes from the flows of its blocks.             *)
LEMMA FlowIs ==
  ASSUME NEW s \in Statements
  PROVE  Flow[s] = StmtFlow(s, FlowsOf(s)) /\ Flow[s] \in Flows
<1> DEFINE G == [t \in Statements |-> [inside \in Seq(Seq(Flows)) |->
                                        StmtFlow(t, FlowsBy(inside, t))]]
           Is(g) == g = [t \in Statements |-> StmtFlow(t, FlowsBy(OfBlocks(g, t), t))]
<1>1. G \in [Statements -> [Seq(Seq(Flows)) -> Flows]]
  BY StmtFlowIs
<1>2. PICK f \in [Statements -> Flows] :
        \A t \in Statements : f[t] = G[t][OfBlocks(f, t)]
  <2> HIDE DEF G
  <2> QED BY <1>1, RecursionIs
<1>3. ASSUME NEW t \in Statements PROVE f[t] = StmtFlow(t, FlowsBy(OfBlocks(f, t), t))
  <2>1. OfBlocks(f, t) \in Seq(Seq(Flows))
    BY AllAreStatements, OfBlocksAre
  <2> QED BY <1>2, <2>1
<1>4. Is(Flow)
  <2>1. Is(f)
    BY <1>3
  <2>2. \E g : Is(g)
    BY <2>1
  <2>3. Flow = CHOOSE g : Is(g)
    BY DEF Flow, FlowsBy
  <2> HIDE DEF Is
  <2> QED BY <2>2, <2>3
<1>5. Flow[s] = StmtFlow(s, FlowsBy(OfBlocks(Flow, s), s))
  BY <1>4
<1> QED BY <1>5, StmtFlowIs DEF FlowsOf

(* What a statement writes comes from what its blocks write.               *)
LEMMA WritesAre ==
  ASSUME NEW s \in Statements
  PROVE  Writes[s] = StmtWrites(s, OfBlocks(Writes, s)) /\ Writes[s] \in SUBSET Vars
<1> DEFINE V == SUBSET Vars
           G == [t \in Statements |-> [inside \in Seq(Seq(V)) |-> StmtWrites(t, inside)]]
           Is(g) == g = [t \in Statements |-> StmtWrites(t, OfBlocks(g, t))]
<1>1. ASSUME NEW t \in Statements, NEW inside \in Seq(Seq(V))
      PROVE  StmtWrites(t, inside) \in V
  <2>1. t.k \in {"set", "call", "for", "foreach"} => t.v \in Vars
    BY AllAreStatements DEF IsStatement
  <2>2. ASSUME NEW i \in DOMAIN inside, NEW j \in DOMAIN inside[i] PROVE inside[i][j] \subseteq Vars
    <3>1. PICK b \in Seq(V) : b = inside[i]
      BY LenProperties, ElementOfSeq
    <3>2. b[j] \in V
      BY <3>1, LenProperties, ElementOfSeq
    <3> QED BY <3>1, <3>2
  <2> QED BY <2>1, <2>2 DEF StmtWrites
<1>2. G \in [Statements -> [Seq(Seq(V)) -> V]]
  BY <1>1
<1>3. PICK f \in [Statements -> V] :
        \A t \in Statements : f[t] = G[t][OfBlocks(f, t)]
  <2> HIDE DEF G, V
  <2> QED BY <1>2, RecursionIs
<1>4. ASSUME NEW t \in Statements PROVE f[t] = StmtWrites(t, OfBlocks(f, t))
  <2>1. OfBlocks(f, t) \in Seq(Seq(V))
    <3> HIDE DEF V
    <3> QED BY AllAreStatements, OfBlocksAre
  <2> QED BY <1>3, <2>1
<1>5. Is(Writes)
  <2>1. Is(f)
    BY <1>4
  <2>2. \E g : Is(g)
    BY <2>1
  <2>3. Writes = CHOOSE g : Is(g)
    BY DEF Writes
  <2> HIDE DEF Is
  <2> QED BY <2>2, <2>3
<1>6. \A t \in Statements : Writes[t] = StmtWrites(t, OfBlocks(Writes, t))
  BY <1>5
<1>7. \A t \in Statements : Writes[t] \in V
  <2>1. \A t \in Statements : OfBlocks(Writes, t) \in Seq(Seq(V)) => Writes[t] \in V
    BY <1>1, <1>6
  <2> HIDE DEF V
  <2> QED BY <2>1, ValuesAre
<1> QED BY <1>6, <1>7

(* A statement halts by a While itself, or something in it does.           *)
LEMMA WhileHaltsIs ==
  ASSUME NEW s \in Statements
  PROVE  WhileHalts[s] = HaltsByWhile(s, OfBlocks(WhileHalts, s))
<1> DEFINE G == [t \in Statements |-> [inside \in Seq(Seq(BOOLEAN)) |-> HaltsByWhile(t, inside)]]
           Is(g) == g = [t \in Statements |-> HaltsByWhile(t, OfBlocks(g, t))]
<1>1. G \in [Statements -> [Seq(Seq(BOOLEAN)) -> BOOLEAN]]
  BY Zenon DEF HaltsByWhile
<1>2. PICK f \in [Statements -> BOOLEAN] :
        \A t \in Statements : f[t] = G[t][OfBlocks(f, t)]
  <2> HIDE DEF G
  <2> QED BY <1>1, RecursionIs
<1>3. ASSUME NEW t \in Statements PROVE f[t] = HaltsByWhile(t, OfBlocks(f, t))
  <2>1. OfBlocks(f, t) \in Seq(Seq(BOOLEAN))
    BY AllAreStatements, OfBlocksAre
  <2> QED BY <1>2, <2>1, Zenon
<1>4. Is(WhileHalts)
  <2>1. Is(f)
    BY <1>3, Zenon
  <2>2. \E g : Is(g)
    BY <2>1
  <2>3. WhileHalts = CHOOSE g : Is(g)
    BY DEF WhileHalts
  <2> HIDE DEF Is
  <2> QED BY <2>2, <2>3
<1> QED BY <1>4, Zenon

(* What is said of a statement's blocks.                                   *)
LEMMA OfBlockIs ==
  ASSUME NEW s \in Statements, NEW i \in 1..Len(Blocks(s))
  PROVE  /\ Blocks(s)[i] \in Seq(Statements)
         /\ FlowsOf(s)[i] = FlowOf(Blocks(s)[i])
         /\ WritesOf(Blocks(s)[i]) \subseteq Writes[s]
         /\ \A j \in DOMAIN Blocks(s)[i] : WhileHalts[Blocks(s)[i][j]] => WhileHalts[s]
<1>1. Blocks(s)[i] \in Seq(Statements) /\ i \in DOMAIN Blocks(s)
  BY AllAreStatements, ElementOfSeq, LenProperties
<1>2. ASSUME NEW f
      PROVE  /\ OfBlocks(f, s)[i] = [j \in DOMAIN Blocks(s)[i] |-> f[Blocks(s)[i][j]]]
             /\ DOMAIN OfBlocks(f, s) = DOMAIN Blocks(s)
  BY <1>1 DEF OfBlocks
<1>3. FlowsOf(s)[i] = FlowOf(Blocks(s)[i])
  BY <1>1, <1>2 DEF FlowsOf, FlowsBy, FlowOf
<1>4. ASSUME NEW j \in DOMAIN Blocks(s)[i] PROVE Writes[Blocks(s)[i][j]] \subseteq Writes[s]
  <2>1. /\ i \in DOMAIN OfBlocks(Writes, s) /\ j \in DOMAIN OfBlocks(Writes, s)[i]
        /\ OfBlocks(Writes, s)[i][j] = Writes[Blocks(s)[i][j]]
    <3>1. /\ OfBlocks(Writes, s)[i] = [k \in DOMAIN Blocks(s)[i] |-> Writes[Blocks(s)[i][k]]]
          /\ DOMAIN OfBlocks(Writes, s) = DOMAIN Blocks(s)
      BY <1>2
    <3> QED BY <1>1, <3>1
  <2>2. OfBlocks(Writes, s)[i][j] \subseteq StmtWrites(s, OfBlocks(Writes, s))
    BY <2>1 DEF StmtWrites
  <2> QED BY <2>1, <2>2, WritesAre
<1>5. ASSUME NEW j \in DOMAIN Blocks(s)[i], WhileHalts[Blocks(s)[i][j]] PROVE WhileHalts[s]
  <2>1. /\ i \in DOMAIN OfBlocks(WhileHalts, s) /\ j \in DOMAIN OfBlocks(WhileHalts, s)[i]
        /\ OfBlocks(WhileHalts, s)[i][j] = WhileHalts[Blocks(s)[i][j]]
    <3>1. /\ OfBlocks(WhileHalts, s)[i]
               = [k \in DOMAIN Blocks(s)[i] |-> WhileHalts[Blocks(s)[i][k]]]
          /\ DOMAIN OfBlocks(WhileHalts, s) = DOMAIN Blocks(s)
      BY <1>2
    <3> QED BY <1>1, <3>1
  <2>2. HaltsByWhile(s, OfBlocks(WhileHalts, s))
    BY <1>5, <2>1, Zenon DEF HaltsByWhile
  <2> QED BY <2>2, WhileHaltsIs
<1> QED BY <1>1, <1>3, <1>4, <1>5 DEF WritesOf

(***************************************************************************)
(* The code.                                                               *)
(***************************************************************************)
Names == Vars \cup Temps

OpNames    == {"begin", "end", "zero", "store", "incr", "dup", "pop", "deref", "binOp",
               "arrayVal", "arrayLen", "display", "call", "return"}
Constants  == {"any", "true", "false"}
OpInsts    == {Op(op) : op \in OpNames}
ValueInsts == {Value(val) : val \in Constants}
LocalInsts == {LocalVal(v) : v \in Names} \cup {LocalRef(v) : v \in Names}
JumpInsts  == {Jump(n) : n \in Int}
TestInsts  == {JumpIf(on, n) : on \in BOOLEAN, n \in Int}
Insts      == OpInsts \cup ValueInsts \cup LocalInsts \cup JumpInsts \cup TestInsts

Codes == Seq(Insts)

(* A statement starts with one of these.                                   *)
Starts == {"value", "localVal", "localRef"}
StmtCodes  == {c \in Codes : Len(c) >= 1 /\ c[1].op \in Starts}
BlockCodes == {c \in Codes : Len(c) >= 1 => c[1].op \in Starts}

(* One code behind another.                                                *)
LEMMA ConcatCodes ==
  ASSUME NEW a \in Codes, NEW b \in Codes
  PROVE  /\ a \o b \in Codes /\ Len(a) \in Nat /\ Len(b) \in Nat
         /\ Len(a \o b) = Len(a) + Len(b)
         /\ \A i \in 1..(Len(a) + Len(b)) :
              (a \o b)[i] = IF i <= Len(a) THEN a[i] ELSE b[i - Len(a)]
BY ConcatProperties, LenProperties DEF Codes

(* What a code starts with does not change by what stands behind it.       *)
LEMMA ConcatStarts ==
  ASSUME NEW a \in Codes, NEW b \in Codes
  PROVE  /\ a \in StmtCodes => a \o b \in StmtCodes
         /\ a \in BlockCodes /\ b \in StmtCodes => a \o b \in StmtCodes
<1>0. PICK c, m, n : c = a \o b /\ m = Len(a) /\ n = Len(b)
  OBVIOUS
<1>1. /\ c \in Codes /\ m \in Nat /\ n \in Nat /\ Len(c) = m + n
      /\ \A i \in 1..(m + n) : c[i] = IF i <= m THEN a[i] ELSE b[i - m]
  BY <1>0, ConcatCodes
<1>2. m >= 1 => 1 \in 1..(m + n) /\ 1 <= m
  BY <1>1
<1>3. m = 0 /\ n >= 1 => 1 \in 1..(m + n) /\ ~(1 <= m) /\ 1 - m = 1
  BY <1>1
<1>4. m >= 1 => c[1] = a[1]
  BY <1>1, <1>2
<1>5. m = 0 /\ n >= 1 => c[1] = b[1]
  BY <1>1, <1>3
<1>6. m >= 1 => m + n >= 1
  BY <1>1
<1>7. n >= 1 => m + n >= 1 /\ (m >= 1 \/ m = 0)
  BY <1>1
<1> QED BY <1>0, <1>1, <1>4, <1>5, <1>6, <1>7 DEF StmtCodes, BlockCodes

(* Codes of a few instructions.                                            *)
LEMMA SmallCodes ==
  /\ <<>> \in Codes /\ Len(<<>>) = 0 /\ <<>> \in BlockCodes
  /\ \A x \in Insts : <<x>> \in Codes /\ Len(<<x>>) = 1
  /\ \A x, y \in Insts : <<x, y>> \in Codes
  /\ \A x, y, z \in Insts : <<x, y, z>> \in Codes
  /\ \A u, x, y, z \in Insts : <<u, x, y, z>> \in Codes
  /\ \A t, u, x, y, z \in Insts : <<t, u, x, y, z>> \in Codes
  /\ StmtCodes \subseteq BlockCodes /\ BlockCodes \subseteq Codes
<1>1. <<>> \in Codes /\ Len(<<>>) = 0
  BY EmptySeq DEF Codes
<1> QED BY <1>1 DEF Codes, BlockCodes, StmtCodes

(* The instructions.                                                       *)
LEMMA OpsAre ==
  /\ \A op \in OpNames : Op(op) \in Insts
  /\ \A val \in Constants : Value(val) \in Insts
  /\ \A v \in Names : LocalVal(v) \in Insts /\ LocalRef(v) \in Insts
  /\ \A n \in Int : Jump(n) \in Insts /\ JumpFalse(n) \in Insts /\ JumpTrue(n) \in Insts
  /\ \A n \in Int : \A on \in BOOLEAN : JumpIf(on, n) \in Insts
<1>1. ASSUME NEW n \in Int, NEW on \in BOOLEAN PROVE JumpIf(on, n) \in Insts
  <2>1. JumpIf(on, n) \in TestInsts
    BY DEF TestInsts
  <2> QED BY <2>1 DEF Insts
<1>2. \A n \in Int : JumpFalse(n) \in Insts /\ JumpTrue(n) \in Insts
  BY <1>1 DEF JumpFalse, JumpTrue
<1>3. ASSUME NEW n \in Int PROVE Jump(n) \in Insts
  <2>1. Jump(n) \in JumpInsts
    BY DEF JumpInsts
  <2> QED BY <2>1 DEF Insts
<1>4. ASSUME NEW v \in Names PROVE LocalVal(v) \in Insts /\ LocalRef(v) \in Insts
  <2>1. LocalVal(v) \in LocalInsts /\ LocalRef(v) \in LocalInsts
    BY DEF LocalInsts
  <2> QED BY <2>1 DEF Insts
<1>5. ASSUME NEW op \in OpNames PROVE Op(op) \in Insts
  <2>1. Op(op) \in OpInsts
    BY DEF OpInsts
  <2> QED BY <2>1 DEF Insts
<1>6. ASSUME NEW val \in Constants PROVE Value(val) \in Insts
  <2>1. Value(val) \in ValueInsts
    BY DEF ValueInsts
  <2> QED BY <2>1 DEF Insts
<1> QED BY <1>1, <1>2, <1>3, <1>4, <1>5, <1>6

(* An expression is one instruction.                                       *)
LEMMA ExprCodeIs ==
  ASSUME NEW e \in Exprs
  PROVE  /\ ExprCode(e) \in StmtCodes /\ Len(ExprCode(e)) = 1
         /\ e.val = "local" => e.v \in Vars /\ ExprCode(e)[1] = LocalVal(e.v)
         /\ e.val # "local" => e.val \in {"any", "true", "false"} /\ ExprCode(e)[1] = Value(e.val)
<1>1. CASE \E v \in Vars : e = Local(v)
  <2>1. PICK v \in Vars : e = Local(v)
    BY <1>1
  <2>2. e.val = "local" /\ e.v = v
    BY <2>1 DEF Local
  <2>3. LocalVal(v) \in Insts /\ ExprCode(e) = <<LocalVal(v)>> /\ LocalVal(v).op = "localVal"
    BY <2>2, OpsAre DEF Names, ExprCode, LocalVal
  <2> QED BY <2>2, <2>3, SmallCodes DEF StmtCodes, Starts
<1>2. CASE \E val \in {"any", "true", "false"} : e = Expr(val)
  <2>1. PICK val \in {"any", "true", "false"} : e = Expr(val)
    BY <1>2
  <2>2. e.val = val /\ val # "local"
    BY <2>1 DEF Expr
  <2>3. Value(val) \in Insts /\ ExprCode(e) = <<Value(val)>> /\ Value(val).op = "value"
    BY <2>2, OpsAre DEF Constants, ExprCode, Value
  <2> QED BY <2>2, <2>3, SmallCodes DEF StmtCodes, Starts
<1> QED BY <1>1, <1>2 DEF Exprs

(* One after the other.                                                    *)
LEMMA TogetherIs ==
  ASSUME NEW codes \in Seq(StmtCodes)
  PROVE  \E g \in [0..Len(codes) -> BlockCodes] :
           /\ g[0] = <<>>
           /\ \A n \in 1..Len(codes) : g[n] = g[n - 1] \o codes[n]
           /\ Together(codes) = g[Len(codes)]
<1> DEFINE N == Len(codes)
           F == [n \in 1..N |-> [c \in BlockCodes |-> c \o codes[n]]]
           Is(g) == g = [n \in 0..N |-> IF n = 0 THEN <<>> ELSE g[n - 1] \o codes[n]]
<1>1. N \in Nat /\ \A n \in 1..N : codes[n] \in StmtCodes
  BY LenProperties, ElementOfSeq
<1> HIDE DEF N
<1>2. F \in [1..N -> [BlockCodes -> BlockCodes]]
  <2>1. ASSUME NEW n \in 1..N, NEW c \in BlockCodes PROVE c \o codes[n] \in BlockCodes
    BY <1>1, ConcatStarts, SmallCodes
  <2> QED BY <2>1
<1>3. PICK g \in [0..N -> BlockCodes] : g[0] = <<>> /\ \A n \in 1..N : g[n] = F[n][g[n - 1]]
  <2> HIDE DEF F
  <2>1. HasValues(N, BlockCodes, <<>>, F)
    BY <1>1, <1>2, SmallCodes, LoopHasValues
  <2> QED BY <2>1 DEF HasValues
<1>4. ASSUME NEW n \in 1..N PROVE g[n] = g[n - 1] \o codes[n]
  <2>1. g[n - 1] \in BlockCodes
    BY <1>1, <1>3
  <2> QED BY <1>3, <2>1
<1>5. Is(g)
  <2>1. ASSUME NEW n \in 0..N PROVE g[n] = IF n = 0 THEN <<>> ELSE g[n - 1] \o codes[n]
    <3>1. n # 0 => n \in 1..N
      BY <1>1
    <3> QED BY <1>3, <1>4, <3>1
  <2>2. g = [n \in 0..N |-> g[n]]
    BY <1>3
  <2> QED BY <2>1, <2>2
<1> DEFINE upTo == CHOOSE h : Is(h)
<1>6. Is(upTo)
  <2>1. \E h : Is(h)
    BY <1>5
  <2> HIDE DEF Is
  <2> QED BY <2>1
<1>7. Together(codes) = upTo[N]
  BY DEF Together, N
<1>8. upTo = g
  <2> HIDE DEF upTo
  <2> DEFINE S == {n \in 0..N : upTo[n] = g[n]}
  <2>3. \A n \in 0..N : upTo[n] = IF n = 0 THEN <<>> ELSE upTo[n - 1] \o codes[n]
    BY <1>6
  <2>1. 0 \in S
    BY <1>1, <1>3, <2>3
  <2>2. ASSUME NEW n \in 0..(N - 1), n \in S PROVE n + 1 \in S
    <3>1. n + 1 \in 1..N /\ n + 1 \in 0..N /\ n + 1 # 0 /\ (n + 1) - 1 = n
      BY <1>1
    <3>2. upTo[n + 1] = upTo[n] \o codes[n + 1] /\ g[n + 1] = g[n] \o codes[n + 1]
      BY <1>4, <2>3, <3>1
    <3> QED BY <2>2, <3>1, <3>2
  <2>4. \A n \in 0..N : n \in S
    <3> HIDE DEF S
    <3> QED BY <1>1, <2>1, <2>2, UpFromZero
  <2>5. upTo = [n \in 0..N |-> upTo[n]] /\ g = [n \in 0..N |-> g[n]]
    BY <1>3, <1>6
  <2> QED BY <2>4, <2>5
<1> QED BY <1>3, <1>4, <1>7, <1>8 DEF N

(* The code of a case of an If starts with that of its condition ...       *)
LEMMA CondCodeIs ==
  ASSUME NEW e \in Exprs, NEW b \in Codes, NEW r \in Codes
  PROVE  CondCode(e, b, r) \in StmtCodes
<1>1. Len(b) \in Nat /\ Len(r) \in Nat
  BY ConcatCodes
<1>2. /\ ExprCode(e) \in StmtCodes
      /\ <<JumpFalse(Len(b) + 2)>> \in Codes /\ <<Jump(Len(r) + 1)>> \in Codes
  BY <1>1, ExprCodeIs, OpsAre, SmallCodes
<1> QED BY <1>2, ConcatStarts, SmallCodes DEF CondCode

(* ... and that of a Select with a Dup, behind the code of the selector.   *)
LEMMA CaseCodeIs ==
  ASSUME NEW e \in Exprs, NEW b \in Codes, NEW r \in Codes
  PROVE  CaseCode(e, b, r) \in Codes
<1>1. Len(b) \in Nat /\ Len(r) \in Nat
  BY ConcatCodes
<1>3. Op("dup") \in Insts /\ Op("binOp") \in Insts /\ Op("pop") \in Insts
  BY OpsAre DEF OpNames
<1>4. JumpFalse(Len(b) + 3) \in Insts /\ Jump(Len(r) + 1) \in Insts
  BY <1>1, OpsAre
<1>2. /\ <<Op("dup")>> \in Codes /\ ExprCode(e) \in Codes
      /\ <<Op("binOp"), JumpFalse(Len(b) + 3), Op("pop")>> \in Codes
      /\ <<Jump(Len(r) + 1)>> \in Codes
  BY <1>3, <1>4, ExprCodeIs, SmallCodes DEF StmtCodes
<1> QED BY <1>2, ConcatCodes DEF CaseCode

(* The cases from the last to the first.                                   *)
CaseOf(s, e, b, r) == IF s.k = "if" THEN CondCode(e, b, r) ELSE CaseCode(e, b, r)

HasCasesCode(s, blocks, otherwise) ==
  \E g \in [0..Len(s.cases) -> Codes] :
    /\ g[0] = otherwise
    /\ \A n \in 1..Len(s.cases) :
         g[n] = CaseOf(s, s.cases[Len(s.cases) + 1 - n].e, blocks[Len(s.cases) + 1 - n], g[n - 1])
    /\ CasesCode(s, blocks, otherwise) = g[Len(s.cases)]

(* Cases are compiled from the last to the first.                          *)
LEMMA CasesCodeIs ==
  ASSUME NEW s, Len(s.cases) \in Nat, \A i \in 1..Len(s.cases) : s.cases[i].e \in Exprs,
         NEW blocks, \A i \in 1..Len(s.cases) : blocks[i] \in Codes, NEW otherwise \in Codes
  PROVE  HasCasesCode(s, blocks, otherwise)
<1> DEFINE N == Len(s.cases)
           Of(n, r) == CaseOf(s, s.cases[N + 1 - n].e, blocks[N + 1 - n], r)
           F == [n \in 1..N |-> [r \in Codes |-> Of(n, r)]]
           Is(g) == g = [n \in 0..N |-> IF n = 0 THEN otherwise ELSE Of(n, g[n - 1])]
<1>1. N \in Nat /\ \A i \in 1..N : s.cases[i].e \in Exprs
  OBVIOUS
<1>2. F \in [1..N -> [Codes -> Codes]]
  <2>1. ASSUME NEW n \in 1..N, NEW r \in Codes PROVE Of(n, r) \in Codes
    <3>1. N + 1 - n \in 1..N
      BY <1>1
    <3> QED BY <1>1, <3>1, CondCodeIs, CaseCodeIs DEF CaseOf, StmtCodes
  <2> HIDE DEF Of, N
  <2> QED BY <2>1
<1> HIDE DEF Of
<1>3. PICK g \in [0..N -> Codes] : g[0] = otherwise /\ \A n \in 1..N : g[n] = F[n][g[n - 1]]
  <2> HIDE DEF F, N
  <2>1. HasValues(N, Codes, otherwise, F)
    BY <1>1, <1>2, LoopHasValues
  <2> QED BY <2>1 DEF HasValues
<1>7. CasesCode(s, blocks, otherwise) =
        LET last == CHOOSE h : Is(h) IN last[N]
  BY DEF CasesCode, Of, CaseOf
<1> HIDE DEF N
<1>4. ASSUME NEW n \in 1..N PROVE g[n] = Of(n, g[n - 1])
  <2>1. g[n - 1] \in Codes
    BY <1>1, <1>3
  <2> QED BY <1>3, <2>1
<1>5. Is(g)
  <2>1. ASSUME NEW n \in 0..N PROVE g[n] = IF n = 0 THEN otherwise ELSE Of(n, g[n - 1])
    <3>1. n # 0 => n \in 1..N
      BY <1>1
    <3> QED BY <1>3, <1>4, <3>1
  <2>2. g = [n \in 0..N |-> g[n]]
    BY <1>3
  <2> QED BY <2>1, <2>2
<1> DEFINE last == CHOOSE h : Is(h)
<1>6. Is(last)
  <2>1. \E h : Is(h)
    BY <1>5
  <2> HIDE DEF Is
  <2> QED BY <2>1
<1>8. last = g
  <2> HIDE DEF last
  <2> DEFINE S == {n \in 0..N : last[n] = g[n]}
  <2>3. \A n \in 0..N : last[n] = IF n = 0 THEN otherwise ELSE Of(n, last[n - 1])
    BY <1>6
  <2>1. 0 \in S
    BY <1>1, <1>3, <2>3
  <2>2. ASSUME NEW n \in 0..(N - 1), n \in S PROVE n + 1 \in S
    <3>1. n + 1 \in 1..N /\ n + 1 \in 0..N /\ n + 1 # 0 /\ (n + 1) - 1 = n
      BY <1>1
    <3>2. last[n + 1] = Of(n + 1, last[n]) /\ g[n + 1] = Of(n + 1, g[n])
      BY <1>4, <2>3, <3>1
    <3> QED BY <2>2, <3>1, <3>2
  <2>4. \A n \in 0..N : n \in S
    <3> HIDE DEF S
    <3> QED BY <1>1, <2>1, <2>2, UpFromZero
  <2>5. last = [n \in 0..N |-> last[n]] /\ g = [n \in 0..N |-> g[n]]
    BY <1>3, <1>6
  <2> QED BY <2>4, <2>5
<1> QED BY <1>3, <1>4, <1>7, <1>8 DEF N, Of, HasCasesCode

(* The code of a statement starts with one of Starts.                      *)
LEMMA CodeWithIs ==
  ASSUME NEW s \in Statements, NEW blocks, Len(blocks) = Len(Blocks(s)),
         \A i \in 1..Len(Blocks(s)) : blocks[i] \in BlockCodes
  PROVE  CodeWith(s, blocks) \in StmtCodes
<1>1. IsStatement(s, Seq(Statements))
  BY AllAreStatements
<1>2. CASE s.k \in Branches
  <2>1. HasCases(s, Seq(Statements)) /\ (s.k = "if" => s.cases # <<>>)
    BY <1>1, <1>2 DEF IsStatement, Branches
  <2>2. /\ s.cases \in Seq([e : Exprs, block : Seq(Statements)])
        /\ s.other \in Seq(Seq(Statements))
    BY <2>1 DEF HasCases
  <2>3. Len(s.cases) \in Nat /\ (s.k = "if" => Len(s.cases) # 0)
    BY <2>1, <2>2, EmptySeq, LenProperties
  <2>9. \A i \in 1..Len(s.cases) : s.cases[i].e \in Exprs
    <3>1. \A i \in 1..Len(s.cases) : s.cases[i] \in [e : Exprs, block : Seq(Statements)]
      BY <2>2, ElementOfSeq
    <3> QED BY <3>1
  <2>4. \A i \in 1..Len(s.cases) : blocks[i] \in Codes
    <3>1. Len(s.other) \in Nat /\ Len(Blocks(s)) = Len(s.cases) + Len(s.other)
      BY <1>1, <1>2, <2>2, BlocksAre, LenProperties
    <3>2. PICK m, n \in Nat : m = Len(s.cases) /\ n = Len(s.other)
      BY <2>3, <3>1
    <3>3. \A i \in 1..m : i \in 1..(m + n)
      OBVIOUS
    <3>4. \A i \in 1..Len(s.cases) : blocks[i] \in BlockCodes
      BY <3>1, <3>2, <3>3
    <3> QED BY <3>4, SmallCodes
  <2>5. s.other # <<>> => blocks[Len(blocks)] \in BlockCodes
    <3>1. s.other # <<>> => Len(Blocks(s)) = Len(s.cases) + 1
      BY <1>1, <1>2, BlocksAre
    <3>2. s.other # <<>> => Len(Blocks(s)) \in 1..Len(Blocks(s))
      BY <2>3, <3>1
    <3> QED BY <3>2
  <2>6. \A c \in BlockCodes : ElseCode(c) \in Codes /\ DefaultCode(c) \in Codes
    <3>1. <<Op("pop")>> \in Codes /\ <<Jump(1)>> \in Codes
      BY OpsAre, SmallCodes DEF OpNames
    <3> QED BY <3>1, ConcatCodes, SmallCodes DEF ElseCode, DefaultCode
  <2>7. CASE s.k = "if"
    <3> DEFINE otherwise == IF s.other = <<>> THEN <<>> ELSE ElseCode(blocks[Len(blocks)])
    <3>1. otherwise \in Codes
      BY <2>5, <2>6, SmallCodes
    <3> HIDE DEF otherwise
    <3>9. HasCasesCode(s, blocks, otherwise)
      BY <2>3, <2>9, <2>4, <3>1, CasesCodeIs
    <3>2. PICK g \in [0..Len(s.cases) -> Codes] :
            /\ g[0] = otherwise
            /\ \A n \in 1..Len(s.cases) :
                 g[n] = CaseOf(s, s.cases[Len(s.cases) + 1 - n].e,
                               blocks[Len(s.cases) + 1 - n], g[n - 1])
            /\ CasesCode(s, blocks, otherwise) = g[Len(s.cases)]
      BY <3>9, Zenon DEF HasCasesCode
    <3>3. PICK n \in Nat : n = Len(s.cases) /\ n # 0
      BY <2>3, <2>7
    <3>4. n \in 1..n /\ n - 1 \in 0..n /\ n + 1 - n = 1 /\ 1 \in 1..n
      BY <3>3
    <3>5. g[n] = CaseOf(s, s.cases[1].e, blocks[1], g[n - 1])
      BY <3>2, <3>3, <3>4
    <3>6. s.cases[1].e \in Exprs /\ blocks[1] \in Codes /\ g[n - 1] \in Codes
      BY <2>4, <2>9, <3>2, <3>3, <3>4
    <3>7. g[n] \in StmtCodes
      BY <2>7, <3>5, <3>6, CondCodeIs DEF CaseOf
    <3>8. CodeWith(s, blocks) = IfCode(s, blocks)
      BY <2>7 DEF CodeWith
    <3> QED BY <3>2, <3>3, <3>7, <3>8 DEF IfCode, otherwise
  <2>8. CASE s.k = "select"
    <3> DEFINE otherwise == IF s.other = <<>> THEN <<Op("pop")>>
                                              ELSE DefaultCode(blocks[Len(blocks)])
    <3>1. otherwise \in Codes
      BY <2>5, <2>6, OpsAre, SmallCodes DEF OpNames
    <3> HIDE DEF otherwise
    <3>2. CasesCode(s, blocks, otherwise) \in Codes
      <4>9. HasCasesCode(s, blocks, otherwise)
        BY <2>3, <2>9, <2>4, <3>1, CasesCodeIs
      <4>1. PICK g \in [0..Len(s.cases) -> Codes] :
              /\ g[0] = otherwise
              /\ \A n \in 1..Len(s.cases) :
                   g[n] = CaseOf(s, s.cases[Len(s.cases) + 1 - n].e,
                                 blocks[Len(s.cases) + 1 - n], g[n - 1])
              /\ CasesCode(s, blocks, otherwise) = g[Len(s.cases)]
        BY <4>9, Zenon DEF HasCasesCode
      <4>2. Len(s.cases) \in 0..Len(s.cases)
        BY <2>3
      <4> QED BY <4>1, <4>2
    <3>3. ExprCode(s.e) \in StmtCodes
      BY <1>1, <2>8, ExprCodeIs DEF IsStatement
    <3>4. CodeWith(s, blocks) = SelectCode(s, blocks)
      BY <2>8 DEF CodeWith
    <3> QED BY <3>2, <3>3, <3>4, ConcatStarts, SmallCodes DEF SelectCode, otherwise
  <2> QED BY <1>2, <2>7, <2>8 DEF Branches
<1>3. CASE s.k \in Loops
  <2> DEFINE b == blocks[1]
  <2>1. /\ 1 \in 1..Len(Blocks(s))
    <3>1. Blocks(s) = <<s.block>>
      BY <1>1, <1>3, BlocksAre
    <3> QED BY <3>1
  <2>2. b \in BlockCodes /\ b \in Codes /\ Len(b) \in Nat
    BY <2>1, SmallCodes, ConcatCodes
  <2> HIDE DEF b
  <2>3. CASE s.k = "do"
    <3>1. ExprCode(s.e) \in StmtCodes /\ Len(ExprCode(s.e)) = 1
      BY <1>1, <2>3, ExprCodeIs DEF IsStatement
    <3>2. <<JumpIf(~s.until, -(Len(b) + Len(ExprCode(s.e))))>> \in Codes
      <4>1. -(Len(b) + Len(ExprCode(s.e))) \in Int /\ (~s.until) \in BOOLEAN
        BY <1>1, <2>2, <2>3, <3>1 DEF IsStatement
      <4> QED BY <4>1, OpsAre, SmallCodes
    <3>3. CodeWith(s, blocks) = DoCode(s, b)
      BY <2>3 DEF CodeWith, b
    <3>4. b \o ExprCode(s.e) \in StmtCodes
      BY <2>2, <3>1, ConcatStarts, SmallCodes
    <3> QED BY <3>2, <3>3, <3>4, ConcatStarts DEF DoCode, StmtCodes
  <2>4. CASE s.k = "while"
    <3>1. ExprCode(s.e) \in StmtCodes
      BY <1>1, <2>4, ExprCodeIs DEF IsStatement
    <3>2. <<JumpFalse(Len(b) + 2)>> \in Codes
      BY <2>2, OpsAre, SmallCodes
    <3> DEFINE loop == (ExprCode(s.e) \o <<JumpFalse(Len(b) + 2)>>) \o b
    <3>3. loop \in StmtCodes
      BY <2>2, <3>1, <3>2, ConcatStarts, SmallCodes
    <3> HIDE DEF loop
    <3>4. <<Jump(-Len(loop))>> \in Codes
      <4>1. -Len(loop) \in Int
        BY <3>3, ConcatCodes, SmallCodes
      <4> QED BY <4>1, OpsAre, SmallCodes
    <3>5. CodeWith(s, blocks) = WhileCode(s, b)
      BY <2>4 DEF CodeWith, b
    <3> QED BY <3>3, <3>4, <3>5, ConcatStarts, SmallCodes DEF WhileCode, loop
  <2>5. CASE s.k = "for"
    <3>1. /\ LocalRef(s.v) \in Insts /\ ExprCode(s.start) \in Codes /\ ExprCode(s.stop) \in Codes
      BY <1>1, <2>5, ExprCodeIs, OpsAre, SmallCodes DEF IsStatement, Names
    <3>2. /\ Op("dup") \in Insts /\ Op("store") \in Insts /\ Op("deref") \in Insts
          /\ Op("binOp") \in Insts /\ Op("incr") \in Insts /\ JumpFalse(Len(b) + 5) \in Insts
      BY <2>2, OpsAre DEF OpNames
    <3>3. /\ <<LocalRef(s.v), Op("dup")>> \in StmtCodes
          /\ <<Op("store")>> \in Codes /\ <<Op("deref")>> \in Codes
          /\ <<Op("binOp"), JumpFalse(Len(b) + 5)>> \in Codes
          /\ <<LocalRef(s.v), Op("dup"), Op("incr")>> \in Codes
      BY <3>1, <3>2, SmallCodes DEF StmtCodes, Starts, LocalRef
    <3> DEFINE init == (<<LocalRef(s.v), Op("dup")>> \o ExprCode(s.start)) \o <<Op("store")>>
               test == (<<Op("deref")>> \o ExprCode(s.stop))
                         \o <<Op("binOp"), JumpFalse(Len(b) + 5)>>
               loop == (test \o b) \o <<LocalRef(s.v), Op("dup"), Op("incr")>>
    <3>4. init \in StmtCodes
      BY <3>1, <3>3, ConcatStarts, SmallCodes
    <3>5. test \in Codes
      BY <3>1, <3>3, ConcatCodes
    <3> HIDE DEF init, test
    <3>6. loop \in Codes
      BY <2>2, <3>3, <3>5, ConcatCodes
    <3> HIDE DEF loop
    <3>7. <<Jump(-Len(loop))>> \in Codes
      <4>1. -Len(loop) \in Int
        BY <3>6, ConcatCodes
      <4> QED BY <4>1, OpsAre, SmallCodes
    <3>8. CodeWith(s, blocks) = ForCode(s, b)
      BY <2>5 DEF CodeWith, b
    <3>9. (init \o loop) \o <<Jump(-Len(loop))>> \in StmtCodes
      BY <3>4, <3>6, <3>7, ConcatStarts, SmallCodes
    <3> QED BY <3>8, <3>9 DEF ForCode, init, test, loop
  <2>6. CASE s.k = "foreach"
    <3>1. /\ LocalRef(s.v) \in Insts /\ ExprCode(s.e) \in Codes
          /\ \A v \in {"$idx", "$arr"} : LocalRef(v) \in Insts /\ LocalVal(v) \in Insts
      BY <1>1, <2>6, ExprCodeIs, OpsAre, SmallCodes DEF IsStatement, Names, Temps
    <3>2. /\ Op("zero") \in Insts /\ Op("store") \in Insts /\ Op("arrayLen") \in Insts
          /\ Op("arrayVal") \in Insts /\ Op("binOp") \in Insts /\ Op("incr") \in Insts
          /\ JumpFalse(Len(b) + 9) \in Insts
      BY <2>2, OpsAre DEF OpNames
    <3> DEFINE set  == <<LocalRef("$idx"), Op("zero"), Op("store")>>
               init == set \o SetCode("$arr", s.e)
               test == <<LocalVal("$idx"), LocalVal("$arr"), Op("arrayLen"), Op("binOp"),
                         JumpFalse(Len(b) + 9)>>
               next == <<LocalRef(s.v), LocalVal("$arr"), LocalVal("$idx"), Op("arrayVal"),
                         Op("store")>>
               more == <<LocalRef("$idx"), Op("incr")>>
               loop == ((test \o next) \o b) \o more
    <3>3. set \in StmtCodes
      BY <3>1, <3>2, SmallCodes DEF StmtCodes, Starts, LocalRef
    <3>4. SetCode("$arr", s.e) \in Codes
      BY <3>1, <3>2, SmallCodes, ConcatCodes DEF SetCode
    <3>5. test \in Codes /\ next \in Codes /\ more \in Codes
      BY <3>1, <3>2, SmallCodes
    <3> HIDE DEF set, test, next, more
    <3>6. init \in StmtCodes
      BY <3>3, <3>4, ConcatStarts, SmallCodes
    <3>7. loop \in Codes
      BY <2>2, <3>5, ConcatCodes
    <3> HIDE DEF init, loop
    <3>8. <<Jump(-Len(loop))>> \in Codes
      <4>1. -Len(loop) \in Int
        BY <3>7, ConcatCodes
      <4> QED BY <4>1, OpsAre, SmallCodes
    <3>9. CodeWith(s, blocks) = ForEachCode(s, b)
      BY <2>6 DEF CodeWith, b
    <3>10. (init \o loop) \o <<Jump(-Len(loop))>> \in StmtCodes
      BY <3>6, <3>7, <3>8, ConcatStarts, SmallCodes
    <3> QED BY <3>9, <3>10 DEF ForEachCode, init, test, loop, set, next, more
  <2> QED BY <1>3, <2>3, <2>4, <2>5, <2>6 DEF Loops
<1>4. CASE s.k \notin Loops \cup Branches
  <2>1. CASE s.k = "call"
    <3>1. LocalRef(s.v) \in Insts /\ Op("call") \in Insts
      BY <1>1, <2>1, OpsAre DEF IsStatement, Names, OpNames
    <3>2. CodeWith(s, blocks) = CallCode(s.v)
      BY <2>1 DEF CodeWith
    <3> QED BY <3>1, <3>2, SmallCodes DEF CallCode, StmtCodes, Starts, LocalRef
  <2>2. CASE s.k \in {"set", "display", "return"}
    <3>1. ExprCode(s.e) \in StmtCodes
      BY <1>1, <2>2, ExprCodeIs DEF IsStatement
    <3>2. /\ <<Op("store")>> \in Codes /\ <<Op("display")>> \in Codes
          /\ <<Op("return")>> \in Codes
      BY OpsAre, SmallCodes DEF OpNames
    <3>3. CASE s.k = "set"
      <4>1. LocalRef(s.v) \in Insts
        BY <1>1, <3>3, OpsAre DEF IsStatement, Names
      <4>2. <<LocalRef(s.v)>> \in StmtCodes
        BY <4>1, SmallCodes DEF StmtCodes, Starts, LocalRef
      <4>3. CodeWith(s, blocks) = SetCode(s.v, s.e)
        BY <3>3 DEF CodeWith
      <4> QED BY <3>1, <3>2, <4>2, <4>3, ConcatStarts, SmallCodes DEF SetCode
    <3>4. CASE s.k = "display"
      <4>1. CodeWith(s, blocks) = DisplayCode(s.e)
        BY <3>4 DEF CodeWith
      <4> QED BY <3>1, <3>2, <4>1, ConcatStarts, SmallCodes DEF DisplayCode
    <3>5. CASE s.k = "return"
      <4>1. CodeWith(s, blocks) = ReturnCode(s.e)
        BY <3>5 DEF CodeWith
      <4> QED BY <3>1, <3>2, <4>1, ConcatStarts, SmallCodes DEF ReturnCode
    <3> QED BY <2>2, <3>3, <3>4, <3>5
  <2> QED BY <1>1, <1>4, <2>1, <2>2 DEF IsStatement, Loops, Branches
<1> QED BY <1>2, <1>3, <1>4

(* The code of a statement's blocks.                                       *)
TogetherOf(inside, s) == [i \in DOMAIN Blocks(s) |-> Together(inside[i])]
CodesOf(s)            == [i \in DOMAIN Blocks(s) |-> BlockCode(Blocks(s)[i])]

(* The same, from the codes of the statements in the blocks.               *)
LEMMA CodeInsideIs ==
  ASSUME NEW s \in Statements, NEW inside \in Seq(Seq(StmtCodes)),
         DOMAIN inside = DOMAIN Blocks(s)
  PROVE  CodeWith(s, TogetherOf(inside, s)) \in StmtCodes
<1>1. DOMAIN Blocks(s) = 1..Len(Blocks(s)) /\ Len(Blocks(s)) \in Nat
  BY AllAreStatements, LenProperties
<1>2. ASSUME NEW i \in 1..Len(Blocks(s)) PROVE Together(inside[i]) \in BlockCodes
  <2>1. PICK codes \in Seq(StmtCodes) : codes = inside[i]
    BY <1>1, LenProperties, ElementOfSeq
  <2>2. PICK g \in [0..Len(codes) -> BlockCodes] : Together(codes) = g[Len(codes)]
    BY TogetherIs, Zenon
  <2>3. Len(codes) \in 0..Len(codes)
    BY LenProperties
  <2> QED BY <2>1, <2>2, <2>3
<1>3. TogetherOf(inside, s) \in [1..Len(Blocks(s)) -> BlockCodes]
  BY <1>1, <1>2 DEF TogetherOf
<1>4. Len(TogetherOf(inside, s)) = Len(Blocks(s))
  BY <1>1, <1>3, FunctionIsSeq
<1> QED BY <1>3, <1>4, CodeWithIs

(* The code of a statement is made of that of its blocks.                  *)
LEMMA StmtCodeIs ==
  ASSUME NEW s \in Statements
  PROVE  StmtCode[s] \in StmtCodes /\ StmtCode[s] = CodeWith(s, CodesOf(s))
<1> DEFINE none == <<Value("any")>>
           Of(t, inside) == IF DOMAIN inside = DOMAIN Blocks(t)
                            THEN CodeWith(t, TogetherOf(inside, t)) ELSE none
           G == [t \in Statements |-> [inside \in Seq(Seq(StmtCodes)) |-> Of(t, inside)]]
           Is(g) == g = [t \in Statements |-> CodeWith(t, TogetherOf(OfBlocks(g, t), t))]
<1>1. none \in StmtCodes
  <2>1. Value("any") \in Insts /\ Value("any").op = "value"
    BY OpsAre DEF Constants, Value
  <2> QED BY <2>1, SmallCodes DEF StmtCodes, Starts
<1> HIDE DEF none
<1>2. G \in [Statements -> [Seq(Seq(StmtCodes)) -> StmtCodes]]
  <2>1. \A t \in Statements : \A inside \in Seq(Seq(StmtCodes)) : Of(t, inside) \in StmtCodes
    BY <1>1, CodeInsideIs
  <2> HIDE DEF Of
  <2> QED BY <2>1
<1>3. PICK f \in [Statements -> StmtCodes] :
        \A t \in Statements : f[t] = G[t][OfBlocks(f, t)]
  <2> HIDE DEF G
  <2> QED BY <1>2, RecursionIs
<1>4. ASSUME NEW t \in Statements PROVE f[t] = CodeWith(t, TogetherOf(OfBlocks(f, t), t))
  <2>1. OfBlocks(f, t) \in Seq(Seq(StmtCodes))
    BY AllAreStatements, OfBlocksAre
  <2>2. DOMAIN OfBlocks(f, t) = DOMAIN Blocks(t)
    BY DEF OfBlocks
  <2> QED BY <1>3, <2>1, <2>2
<1>5. Is(StmtCode)
  <2>1. Is(f)
    BY <1>4
  <2>2. \E g : Is(g)
    BY <2>1
  <2>3. StmtCode = CHOOSE g : Is(g)
    BY DEF StmtCode, TogetherOf
  <2> HIDE DEF Is
  <2> QED BY <2>2, <2>3
<1>6. \A t \in Statements : StmtCode[t] = CodeWith(t, TogetherOf(OfBlocks(StmtCode, t), t))
  BY <1>5
<1>7. \A t \in Statements : StmtCode[t] \in StmtCodes
  <2>1. ASSUME NEW t \in Statements, OfBlocks(StmtCode, t) \in Seq(Seq(StmtCodes))
        PROVE  StmtCode[t] \in StmtCodes
    <3>1. DOMAIN OfBlocks(StmtCode, t) = DOMAIN Blocks(t)
      BY DEF OfBlocks
    <3> QED BY <1>6, <2>1, <3>1, CodeInsideIs
  <2> QED BY <2>1, ValuesAre
<1>8. TogetherOf(OfBlocks(StmtCode, s), s) = CodesOf(s)
  BY DEF TogetherOf, OfBlocks, CodesOf, BlockCode
<1> QED BY <1>6, <1>7, <1>8

HasBlockCode(block) ==
  \E g \in [0..Len(block) -> BlockCodes] :
    /\ g[0] = <<>>
    /\ \A n \in 1..Len(block) : g[n] = g[n - 1] \o StmtCode[block[n]]
    /\ BlockCode(block) = g[Len(block)]

(* The code of a block is that of its statements, one after the other.     *)
LEMMA BlockCodeIs ==
  ASSUME NEW block \in Seq(Statements)
  PROVE  HasBlockCode(block) /\ BlockCode(block) \in BlockCodes
<1> DEFINE codes == [i \in DOMAIN block |-> StmtCode[block[i]]]
<1>1. /\ DOMAIN block = 1..Len(block) /\ Len(block) \in Nat
      /\ \A i \in 1..Len(block) : block[i] \in Statements
  BY LenProperties, ElementOfSeq
<1>2. codes \in [1..Len(block) -> StmtCodes]
  BY <1>1, StmtCodeIs
<1>3. codes \in Seq(StmtCodes) /\ Len(codes) = Len(block)
  <2> HIDE DEF codes
  <2> QED BY <1>1, <1>2, FunctionIsSeq
<1>4. \A i \in 1..Len(block) : codes[i] = StmtCode[block[i]]
  BY <1>1
<1>5. BlockCode(block) = Together(codes)
  BY DEF BlockCode
<1> HIDE DEF codes
<1>6. PICK g \in [0..Len(codes) -> BlockCodes] :
        /\ g[0] = <<>>
        /\ \A n \in 1..Len(codes) : g[n] = g[n - 1] \o codes[n]
        /\ Together(codes) = g[Len(codes)]
  BY <1>3, TogetherIs
<1>7. BlockCode(block) \in BlockCodes
  BY <1>1, <1>3, <1>5, <1>6
<1> QED BY <1>3, <1>4, <1>5, <1>6, <1>7 DEF HasBlockCode

(***************************************************************************)
(* Where code stands in the code of a function.                            *)
(***************************************************************************)
Has(fun, at, i)    == at \in DOMAIN FunctionCode(fun) /\ FunctionCode(fun)[at] = i
Placed(fun, at, c) == \A i \in 1..Len(c) : Has(fun, at + i - 1, c[i])

(* Where two codes stand one behind the other.                             *)
LEMMA PlacedParts ==
  ASSUME NEW fun, NEW at \in Nat, NEW a \in Codes, NEW b \in Codes, Placed(fun, at, a \o b)
  PROVE  /\ Placed(fun, at, a) /\ Placed(fun, at + Len(a), b)
         /\ at + Len(a) \in Nat /\ Len(a) \in Nat /\ Len(b) \in Nat
<1>1. PICK c, m, n : c = a \o b /\ m = Len(a) /\ n = Len(b)
  OBVIOUS
<1>2. /\ m \in Nat /\ n \in Nat /\ Len(c) = m + n
      /\ \A i \in 1..(m + n) : c[i] = IF i <= m THEN a[i] ELSE b[i - m]
  BY <1>1, ConcatCodes
<1>3. \A i \in 1..(m + n) : Has(fun, at + i - 1, c[i])
  BY <1>1, <1>2 DEF Placed
<1>4. ASSUME NEW i \in 1..m PROVE Has(fun, at + i - 1, a[i])
  <2>1. i \in 1..(m + n) /\ i <= m
    BY <1>2
  <2> QED BY <1>2, <1>3, <2>1
<1>5. ASSUME NEW i \in 1..n PROVE Has(fun, (at + m) + i - 1, b[i])
  <2>1. m + i \in 1..(m + n) /\ ~(m + i <= m) /\ (m + i) - m = i
    BY <1>2
  <2>2. at + (m + i) - 1 = (at + m) + i - 1
    BY <1>2
  <2> QED BY <1>2, <1>3, <2>1, <2>2
<1> QED BY <1>1, <1>2, <1>4, <1>5 DEF Placed

(* Where a few instructions stand.                                         *)
LEMMA PlacedSmall ==
  ASSUME NEW fun, NEW at \in Nat
  PROVE  /\ \A x : Placed(fun, at, <<x>>) => Has(fun, at, x)
         /\ \A x, y : Placed(fun, at, <<x, y>>) => Has(fun, at, x) /\ Has(fun, at + 1, y)
         /\ \A x, y, z : Placed(fun, at, <<x, y, z>>) =>
              Has(fun, at, x) /\ Has(fun, at + 1, y) /\ Has(fun, at + 2, z)
         /\ \A x, y, z, u, v : Placed(fun, at, <<x, y, z, u, v>>) =>
              /\ Has(fun, at, x) /\ Has(fun, at + 1, y) /\ Has(fun, at + 2, z)
              /\ Has(fun, at + 3, u) /\ Has(fun, at + 4, v)
<1>1. /\ at + 1 - 1 = at /\ at + 2 - 1 = at + 1 /\ at + 3 - 1 = at + 2
      /\ at + 4 - 1 = at + 3 /\ at + 5 - 1 = at + 4
  OBVIOUS
<1>2. ASSUME NEW x, Placed(fun, at, <<x>>) PROVE Has(fun, at, x)
  <2>1. Len(<<x>>) = 1 /\ <<x>>[1] = x
    OBVIOUS
  <2>2. 1 \in 1..Len(<<x>>)
    BY <2>1
  <2> QED BY <1>1, <1>2, <2>1, <2>2 DEF Placed
<1>3. ASSUME NEW x, NEW y, Placed(fun, at, <<x, y>>)
      PROVE  Has(fun, at, x) /\ Has(fun, at + 1, y)
  <2>1. PICK c : c = <<x, y>>
    OBVIOUS
  <2>2. Len(c) = 2 /\ c[1] = x /\ c[2] = y
    BY <2>1
  <2>3. 1 \in 1..Len(c) /\ 2 \in 1..Len(c)
    BY <2>2
  <2> QED BY <1>1, <1>3, <2>1, <2>2, <2>3 DEF Placed
<1>4. ASSUME NEW x, NEW y, NEW z, Placed(fun, at, <<x, y, z>>)
      PROVE  Has(fun, at, x) /\ Has(fun, at + 1, y) /\ Has(fun, at + 2, z)
  <2>1. PICK c : c = <<x, y, z>>
    OBVIOUS
  <2>2. Len(c) = 3 /\ c[1] = x /\ c[2] = y /\ c[3] = z
    BY <2>1
  <2>3. 1 \in 1..Len(c) /\ 2 \in 1..Len(c) /\ 3 \in 1..Len(c)
    BY <2>2
  <2> QED BY <1>1, <1>4, <2>1, <2>2, <2>3 DEF Placed
<1>5. ASSUME NEW x, NEW y, NEW z, NEW u, NEW v, Placed(fun, at, <<x, y, z, u, v>>)
      PROVE  /\ Has(fun, at, x) /\ Has(fun, at + 1, y) /\ Has(fun, at + 2, z)
             /\ Has(fun, at + 3, u) /\ Has(fun, at + 4, v)
  <2>1. PICK c : c = <<x, y, z, u, v>>
    OBVIOUS
  <2>2. Len(c) = 5 /\ c[1] = x /\ c[2] = y /\ c[3] = z /\ c[4] = u /\ c[5] = v
    BY <2>1
  <2>3. 1 \in 1..Len(c) /\ 2 \in 1..Len(c) /\ 3 \in 1..Len(c) /\ 4 \in 1..Len(c) /\ 5 \in 1..Len(c)
    BY <2>2
  <2> QED BY <1>1, <1>5, <2>1, <2>2, <2>3 DEF Placed
<1> QED BY <1>2, <1>3, <1>4, <1>5

(***************************************************************************)
(* The evaluation stack.                                                   *)
(***************************************************************************)
Values  == {Val(val) : val \in Constants}
Refs    == {Ref(v) : v \in Names}
Stacks  == Seq(Values \cup Refs)

Push(st, x) == Append(st, x)
TopOf(st)   == st[Len(st)]
UnderOf(st) == st[Len(st) - 1]
Less(st, n) == SubSeq(st, 1, Len(st) - n)

(* What Push leaves, and what Less takes away again.                       *)
LEMMA PushIs ==
  ASSUME NEW st \in Stacks, NEW x \in Values \cup Refs
  PROVE  /\ Push(st, x) \in Stacks /\ Len(st) \in Nat /\ Len(Push(st, x)) = Len(st) + 1
         /\ TopOf(Push(st, x)) = x /\ Less(Push(st, x), 1) = st
         /\ \A i \in 1..Len(st) : Push(st, x)[i] = st[i]
<1> DEFINE W == Values \cup Refs
<1>1. PICK n \in Nat : n = Len(st)
  BY LenProperties DEF Stacks
<1>2. /\ Append(st, x) \in Seq(W) /\ Len(Append(st, x)) = n + 1
      /\ \A i \in 1..n : Append(st, x)[i] = st[i]
      /\ Append(st, x)[n + 1] = x
  <2> HIDE DEF W
  <2>1. st \in Seq(W) /\ x \in W
    BY DEF Stacks, W
  <2> QED BY <1>1, <2>1, AppendProperties
<1>3. SubSeq(Append(st, x), 1, n + 1 - 1) = st
  <2>1. n + 1 - 1 = n
    OBVIOUS
  <2> DEFINE a == Append(st, x)
  <2>2. a \in Seq(W) /\ Len(a) = n + 1
    BY <1>2
  <2> HIDE DEF W, a
  <2>3. SubSeq(a, 1, n) = [i \in 1..n |-> a[i]]
    BY <2>2
  <2>4. st = [i \in 1..n |-> st[i]]
    BY <1>1, LenProperties DEF Stacks, W
  <2> QED BY <1>2, <2>1, <2>3, <2>4 DEF a
<1> QED BY <1>1, <1>2, <1>3 DEF Push, TopOf, Less, Stacks

(* The same for two.                                                       *)
LEMMA PushTwice ==
  ASSUME NEW st \in Stacks, NEW x \in Values \cup Refs, NEW y \in Values \cup Refs
  PROVE  /\ Len(Push(Push(st, x), y)) >= 2
         /\ UnderOf(Push(Push(st, x), y)) = x /\ Less(Push(Push(st, x), y), 2) = st
<1>1. PICK n \in Nat : n = Len(st)
  BY PushIs
<1>2. PICK a : a = Push(st, x)
  OBVIOUS
<1>3. a \in Stacks /\ Len(a) = n + 1 /\ a[n + 1] = x /\ \A i \in 1..n : a[i] = st[i]
  BY <1>1, <1>2, PushIs DEF TopOf
<1>4. PICK b : b = Push(a, y)
  OBVIOUS
<1>5. b \in Stacks /\ Len(b) = n + 2 /\ \A i \in 1..(n + 1) : b[i] = a[i]
  <2>1. b \in Stacks /\ Len(b) = Len(a) + 1 /\ \A i \in 1..Len(a) : b[i] = a[i]
    BY <1>3, <1>4, PushIs
  <2>2. (n + 1) + 1 = n + 2
    OBVIOUS
  <2> QED BY <1>3, <2>1, <2>2
<1>6. b[n + 1] = x /\ \A i \in 1..n : b[i] = st[i]
  BY <1>3, <1>5
<1>7. SubSeq(b, 1, n) = st
  <2> DEFINE W == Values \cup Refs
  <2>1. b \in Seq(W) /\ st \in Seq(W)
    BY <1>5 DEF Stacks
  <2> HIDE DEF W
  <2>2. SubSeq(b, 1, n) = [i \in 1..n |-> b[i]]
    BY <1>5, <2>1
  <2>3. st = [i \in 1..n |-> st[i]]
    BY <1>1, <2>1, LenProperties
  <2> QED BY <1>6, <2>2, <2>3
<1>8. n + 2 >= 2 /\ n + 2 - 1 = n + 1 /\ n + 2 - 2 = n
  OBVIOUS
<1> QED BY <1>2, <1>4, <1>5, <1>6, <1>7, <1>8 DEF UnderOf, Less

(* Values and references.                                                  *)
Cell(e) == IF e.val = "local" THEN Val("any") ELSE Val(e.val)

(* A value is no reference, and a reference no value.                      *)
LEMMA CellsAre ==
  /\ Val("any") \in Values
  /\ \A e \in Exprs : Cell(e) \in Values /\ Cell(e).val = IF e.val = "local" THEN "any" ELSE e.val
  /\ \A x \in Values : ~IsRef(x) /\ x.val \in Constants
  /\ \A v \in Names : Ref(v) \in Refs /\ IsRef(Ref(v)) /\ Ref(v).ref = v
  /\ \A x \in Refs : x.ref \in Names /\ IsRef(x) /\ x.val = "ref"
<1>1. Val("any") \in Values /\ \A x \in Values : ~IsRef(x) /\ x.val \in Constants
  <2>1. Val("any") \in Values
    BY DEF Values, Constants
  <2>2. ASSUME NEW x \in Values PROVE ~IsRef(x) /\ x.val \in Constants
    <3>1. PICK val \in Constants : x = Val(val)
      BY DEF Values
    <3>2. x.val = val
      BY <3>1 DEF Val
    <3> QED BY <3>2 DEF IsRef, Constants
  <2> QED BY <2>1, <2>2
<1>2. /\ \A v \in Names : Ref(v) \in Refs /\ IsRef(Ref(v)) /\ Ref(v).ref = v
      /\ \A x \in Refs : x.ref \in Names /\ IsRef(x) /\ x.val = "ref"
  BY DEF Refs, Ref, IsRef
<1>3. ASSUME NEW e \in Exprs
      PROVE  Cell(e) \in Values /\ Cell(e).val = IF e.val = "local" THEN "any" ELSE e.val
  <2>1. e.val # "local" => e.val \in Constants
    BY ExprCodeIs DEF Constants
  <2> QED BY <1>1, <2>1 DEF Cell, Values, Val
<1> QED BY <1>1, <1>2, <1>3

(***************************************************************************)
(* The points a run of a function comes to.                                *)
(***************************************************************************)
Point(at, st, locs, bk, td, marked) ==
  [pc |-> at, eval |-> st, locals |-> locs, back |-> bk, todo |-> td, marked |-> marked]

Trusts(fun) == \E i \in DOMAIN fun : WhileHalts[fun[i]]
Endless(marked) == "infinite" \in marked

(* Does the machine wait for the source to be unfolded?                    *)
Parts        == {"block", "stmt", "cases", "round"}
Waits(i, c)  == c.todo.item \in Parts /\ i.op \notin {"jump", "pop"}

(* The instruction finds what it takes, ...                                *)
FitsAt(i, c) ==
  /\ i.op = "store" => /\ Len(c.eval) >= 2
                       /\ UnderOf(c.eval) \in Refs /\ TopOf(c.eval) \in Values
  /\ i.op \in {"deref", "incr"} => /\ Len(c.eval) >= 1
                                   /\ TopOf(c.eval) \in Refs /\ TopOf(c.eval).ref \in c.locals
  /\ i.op = "call" => Len(c.eval) >= 1 /\ TopOf(c.eval) \in Refs
  /\ i.op \in {"binOp", "arrayVal"} => /\ Len(c.eval) >= 2
                                       /\ UnderOf(c.eval) \in Values /\ TopOf(c.eval) \in Values
  /\ i.op \in {"display", "jumpIf", "arrayLen"} => Len(c.eval) >= 1 /\ TopOf(c.eval) \in Values
  /\ i.op \in {"dup", "pop"} => Len(c.eval) >= 1 /\ TopOf(c.eval) \in Values \cup Refs
  /\ i.op = "return" => Len(c.eval) = 1 /\ TopOf(c.eval) \in Values
  /\ i.op = "end" => c.eval = <<>>

(* ... does what the source does, ...                                      *)
AgreesAt(i, c) ==
  /\ i.op = "localVal" /\ i.v \in Vars => c.todo.item = "read" /\ c.todo.v = i.v
  /\ i.op = "localVal" /\ c.todo.item = "read" /\ c.todo.early /\ ~c.back => i.v \notin c.locals
  /\ i.op = "store" /\ UnderOf(c.eval).ref \in Vars =>
       c.todo.item = "write" /\ c.todo.v = UnderOf(c.eval).ref
  /\ i.op = "incr" /\ TopOf(c.eval).ref \in Vars =>
       c.todo.item = "write" /\ c.todo.v = TopOf(c.eval).ref
  /\ i.op = "jumpIf" =>
       /\ c.todo.item = "test"
       /\ TopOf(c.eval).val = "any" \/ TopOf(c.eval).val = c.todo.val
  /\ i.op = "call" => c.todo.item = "pass" /\ c.todo.v = TopOf(c.eval).ref
  /\ i.op = "deref" => c.todo.item = "deref" /\ c.todo.v = TopOf(c.eval).ref
  /\ i.op = "value" => c.todo.item = "value" /\ c.todo.v = i.val
  /\ i.op \in {"begin", "display", "return"} => c.todo.item = i.op /\ c.todo.v = ""
  /\ i.op = "end" => c.todo = Done

(* ... and leaves the function as the analyses said.                       *)
LeavesAt(fun, i, c) ==
  /\ i.op = "return" => FlowOf(fun) # CONTINUE /\ ~Endless(c.marked)
  /\ i.op = "end" => (FlowOf(fun) # HALT \/ Trusts(fun)) /\ ~Endless(c.marked)

GoodAt(fun, i, c) ==
  /\ c.pc \in DOMAIN FunctionCode(fun) /\ FunctionCode(fun)[c.pc] = i
  /\ c.eval \in Stacks /\ c.locals \subseteq Names /\ c.back \in BOOLEAN
  /\ FitsAt(i, c)
  /\ ~Waits(i, c) => AgreesAt(i, c) /\ LeavesAt(fun, i, c)
  /\ Waits(i, c) /\ c.todo.item = "block" /\ Unreachable(c.todo.block, c.todo.i) => Trusts(fun)

(* Where the instruction leads.                                            *)
Go(c, st, locs, td) == Point(c.pc + 1, st, locs, c.back, td, c.marked)
GoBy(c, n, st, td)  == Point(c.pc + n, st, c.locals, c.back \/ n < 0, td, c.marked)
After(c, v)         == IF v \in Vars THEN c.todo.then ELSE c.todo

Noted(td)           == Marked(td) \cap {"infinite"}

Unfolds(c, d) ==
  d = Point(c.pc, c.eval, c.locals, c.back, Unfolded(c.todo), c.marked \cup Noted(c.todo))

Runs1(i, c, d) ==
  /\ i.op = "begin"    => d = Go(c, <<>>, {}, c.todo.then)
  /\ i.op = "value"    => d = Go(c, Push(c.eval, Val(i.val)), c.locals, c.todo.then)
  /\ i.op = "zero"     => d = Go(c, Push(c.eval, Val("any")), c.locals, c.todo)
  /\ i.op = "localRef" => d = Go(c, Push(c.eval, Ref(i.v)), c.locals, c.todo)
  /\ i.op = "localVal" => d = Go(c, Push(c.eval, Val("any")), c.locals, After(c, i.v))
  /\ i.op = "store"    => d = Go(c, Less(c.eval, 2), c.locals \cup {UnderOf(c.eval).ref},
                                 After(c, UnderOf(c.eval).ref))
  /\ i.op = "incr"     => d = Go(c, Less(c.eval, 1), c.locals \cup {TopOf(c.eval).ref},
                                 After(c, TopOf(c.eval).ref))
  /\ i.op = "dup"      => d = Go(c, Push(c.eval, TopOf(c.eval)), c.locals, c.todo)
  /\ i.op = "pop"      => d = Go(c, Less(c.eval, 1), c.locals, c.todo)
  /\ i.op = "deref"    => d = Go(c, Push(Less(c.eval, 1), Val("any")), c.locals, c.todo.then)
  /\ i.op = "arrayLen" => d = Go(c, Push(Less(c.eval, 1), Val("any")), c.locals, c.todo)
  /\ i.op \in {"binOp", "arrayVal"}
                       => d = Go(c, Push(Less(c.eval, 2), Val("any")), c.locals, c.todo)
  /\ i.op = "display"  => d = Go(c, Less(c.eval, 1), c.locals, c.todo.then)

Runs2(i, c, d) ==
  /\ i.op = "call"     => \E locs \in {c.locals, c.locals \cup {TopOf(c.eval).ref}} :
                            d = Go(c, Less(c.eval, 1), locs, c.todo.then)
  /\ i.op = "jump"     => d = GoBy(c, i.n, c.eval, c.todo)
  /\ i.op = "jumpIf"   => \E outcome \in Outcomes(TopOf(c.eval)) :
                            d = GoBy(c, IF outcome = i.on THEN i.n ELSE 1, Less(c.eval, 1),
                                     IF outcome THEN c.todo.yes ELSE c.todo.no)
  /\ i.op \notin {"return", "end"}

Moves(i, c, d) ==
  /\ Waits(i, c) => Unfolds(c, d)
  /\ ~Waits(i, c) => Runs1(i, c, d) /\ Runs2(i, c, d)

(***************************************************************************)
(* The points with these parts; the locals in lo are assigned, and, before *)
(* a jump back, no local outside of hi is.                                 *)
(***************************************************************************)
Facts(lo, hi) ==
  {f \in [locals : SUBSET Names, back : BOOLEAN] :
     lo \subseteq f.locals /\ (f.back \/ f.locals \cap Vars \subseteq hi)}
At(at, st, td, marked, lo, hi) ==
  {Point(at, st, f.locals, f.back, td, marked) : f \in Facts(lo, hi)}

(* What a point of At(...) is like, ...                                    *)
LEMMA AtIs ==
  ASSUME NEW at, NEW st, NEW td, NEW marked, NEW lo, NEW hi,
         NEW c \in At(at, st, td, marked, lo, hi)
  PROVE  /\ c.pc = at /\ c.eval = st /\ c.todo = td /\ c.marked = marked
         /\ c.locals \subseteq Names /\ c.back \in BOOLEAN /\ lo \subseteq c.locals
         /\ c.back \/ c.locals \cap Vars \subseteq hi
<1>1. PICK f \in Facts(lo, hi) : c = Point(at, st, f.locals, f.back, td, marked)
  BY DEF At
<1>2. /\ c.pc = at /\ c.eval = st /\ c.todo = td /\ c.marked = marked
      /\ c.locals = f.locals /\ c.back = f.back
  BY <1>1 DEF Point
<1>3. /\ f.locals \in SUBSET Names /\ f.back \in BOOLEAN
      /\ lo \subseteq f.locals /\ (f.back \/ f.locals \cap Vars \subseteq hi)
  BY DEF Facts
<1> QED BY <1>2, <1>3, Zenon

(* ... what is one, ...                                                    *)
LEMMA InAt ==
  ASSUME NEW at, NEW st, NEW td, NEW marked, NEW lo, NEW hi,
         NEW locs, locs \subseteq Names, NEW bk \in BOOLEAN,
         lo \subseteq locs, bk \/ locs \cap Vars \subseteq hi
  PROVE  Point(at, st, locs, bk, td, marked) \in At(at, st, td, marked, lo, hi)
<1> DEFINE f == [locals |-> locs, back |-> bk]
<1>1. f \in [locals : SUBSET Names, back : BOOLEAN] /\ f.locals = locs /\ f.back = bk
  OBVIOUS
<1> HIDE DEF f
<1>2. f \in Facts(lo, hi)
  BY <1>1, Zenon DEF Facts
<1>3. Point(at, st, f.locals, f.back, td, marked) \in At(at, st, td, marked, lo, hi)
  BY <1>2 DEF At
<1> QED BY <1>1, <1>3

(* ... and that less said of the locals gives more points.                 *)
LEMMA AtGrows ==
  ASSUME NEW at, NEW st, NEW td, NEW marked, NEW lo, NEW hi, NEW low, NEW high,
         low \subseteq lo, hi \subseteq high
  PROVE  At(at, st, td, marked, lo, hi) \subseteq At(at, st, td, marked, low, high)
<1>1. Facts(lo, hi) \subseteq Facts(low, high)
  <2>1. ASSUME NEW f \in Facts(lo, hi) PROVE f \in Facts(low, high)
    <3>1. /\ f \in [locals : SUBSET Names, back : BOOLEAN]
          /\ lo \subseteq f.locals /\ (f.back \/ f.locals \cap Vars \subseteq hi)
      BY Zenon DEF Facts
    <3>2. low \subseteq f.locals /\ (f.back \/ f.locals \cap Vars \subseteq high)
      BY <3>1, Zenon
    <3> QED BY <3>1, <3>2, Zenon DEF Facts
  <2> QED BY <2>1
<1> QED BY <1>1, Zenon DEF At

(***************************************************************************)
(* Every run from a point of A stays good until it comes to X, if it does. *)
(***************************************************************************)
GoodInto(fun, c, B) ==
  LET i == FunctionCode(fun)[c.pc]
  IN GoodAt(fun, i, c) /\ \A d : Moves(i, c, d) => d \in B

Steps(fun, A, B) == \A c \in A : GoodInto(fun, c, B)
Leads(fun, A, X) == \E P : A \subseteq P \cup X /\ Steps(fun, P, P \cup X)

(* From fewer points, to more points, ...                                  *)
LEMMA StepsMore ==
  ASSUME NEW fun, NEW A, NEW B, NEW A2, NEW B2, A2 \subseteq A, B \subseteq B2, Steps(fun, A, B)
  PROVE  Steps(fun, A2, B2)
BY Zenon DEF Steps, GoodInto

(* ... for runs of several steps too.                                      *)
LEMMA LeadsMore ==
  ASSUME NEW fun, NEW A, NEW X, NEW A2, NEW X2, A2 \subseteq A, X \subseteq X2, Leads(fun, A, X)
  PROVE  Leads(fun, A2, X2)
<1>1. PICK P : A \subseteq P \cup X /\ Steps(fun, P, P \cup X)
  BY DEF Leads
<1>2. A2 \subseteq P \cup X2 /\ P \cup X \subseteq P \cup X2 /\ P \subseteq P
  BY <1>1
<1>3. Steps(fun, P, P \cup X2)
  BY <1>1, <1>2, StepsMore
<1> QED BY <1>2, <1>3 DEF Leads

(* A run that is there need not move, ...                                  *)
LEMMA LeadsThere ==
  ASSUME NEW fun, NEW A, NEW X, A \subseteq X
  PROVE  Leads(fun, A, X)
<1>1. A \subseteq {} \cup X /\ Steps(fun, {}, {} \cup X)
  BY DEF Steps
<1> QED BY <1>1, Zenon DEF Leads

(* ... runs go on where others end, ...                                    *)
LEMMA LeadsThrough ==
  ASSUME NEW fun, NEW A, NEW B, NEW X, Leads(fun, A, B), Leads(fun, B, X)
  PROVE  Leads(fun, A, X)
<1>1. PICK P : A \subseteq P \cup B /\ Steps(fun, P, P \cup B)
  BY DEF Leads
<1>2. PICK Q : B \subseteq Q \cup X /\ Steps(fun, Q, Q \cup X)
  BY DEF Leads
<1> DEFINE R == P \cup Q
<1>3. A \subseteq R \cup X /\ P \cup B \subseteq R \cup X /\ Q \cup X \subseteq R \cup X
  BY <1>1, <1>2
<1>4. Steps(fun, P, R \cup X) /\ Steps(fun, Q, R \cup X)
  BY <1>1, <1>2, <1>3, StepsMore
<1>5. Steps(fun, R, R \cup X)
  BY <1>4 DEF Steps
<1> QED BY <1>3, <1>5, Zenon DEF Leads

(* ... a step is a run, ...                                                *)
LEMMA LeadsStep ==
  ASSUME NEW fun, NEW A, NEW B, Steps(fun, A, B)
  PROVE  Leads(fun, A, B)
<1>1. A \subseteq A \cup B /\ B \subseteq A \cup B
  OBVIOUS
<1>2. Steps(fun, A, A \cup B)
  BY <1>1, StepsMore
<1> QED BY <1>1, <1>2, Zenon DEF Leads

(* ... and a run may start from either of two sets of points.              *)
LEMMA LeadsEither ==
  ASSUME NEW fun, NEW A, NEW B, NEW X, Leads(fun, A, X), Leads(fun, B, X)
  PROVE  Leads(fun, A \cup B, X)
<1>1. PICK P : A \subseteq P \cup X /\ Steps(fun, P, P \cup X)
  BY DEF Leads
<1>2. PICK Q : B \subseteq Q \cup X /\ Steps(fun, Q, Q \cup X)
  BY DEF Leads
<1> DEFINE R == P \cup Q
<1>3. A \cup B \subseteq R \cup X /\ P \cup X \subseteq R \cup X /\ Q \cup X \subseteq R \cup X
  BY <1>1, <1>2
<1>4. Steps(fun, P, R \cup X) /\ Steps(fun, Q, R \cup X)
  BY <1>1, <1>2, <1>3, StepsMore
<1>5. Steps(fun, R, R \cup X)
  BY <1>4 DEF Steps
<1> QED BY <1>3, <1>5, Zenon DEF Leads

(* A loop: a run that comes back to where it started goes round until it   *)
(* leaves, if it does.                                                     *)
LEMMA LeadsLoop ==
  ASSUME NEW fun, NEW A, NEW B, NEW X, Steps(fun, A, B), Leads(fun, B, A \cup X)
  PROVE  Leads(fun, A, X) /\ Leads(fun, B, X)
<1>1. PICK P : B \subseteq P \cup (A \cup X) /\ Steps(fun, P, P \cup (A \cup X))
  BY DEF Leads
<1> DEFINE R == A \cup P
<1>2. /\ B \subseteq R \cup X /\ A \subseteq R \cup X
      /\ P \cup (A \cup X) \subseteq R \cup X
  BY <1>1
<1>3. Steps(fun, A, R \cup X) /\ Steps(fun, P, R \cup X)
  BY <1>1, <1>2, StepsMore
<1>4. Steps(fun, R, R \cup X)
  BY <1>3 DEF Steps
<1> QED BY <1>2, <1>4, Zenon DEF Leads

(***************************************************************************)
(* The instructions.                                                       *)
(***************************************************************************)
RightAt(fun, i, c) ==
  ~Waits(i, c) /\ FitsAt(i, c) /\ AgreesAt(i, c) /\ LeavesAt(fun, i, c)

(* An instruction that is right at each of the points leads from them      *)
(* where it moves.                                                         *)
LEMMA StepIs ==
  ASSUME NEW fun, NEW at, NEW i, Has(fun, at, i), NEW st \in Stacks, NEW td, NEW marked,
         NEW lo, NEW hi, NEW B,
         \A c \in At(at, st, td, marked, lo, hi) :
           RightAt(fun, i, c) /\ \A d : Moves(i, c, d) => d \in B
  PROVE  Steps(fun, At(at, st, td, marked, lo, hi), B)
<1>1. ASSUME NEW c \in At(at, st, td, marked, lo, hi)
      PROVE  GoodInto(fun, c, B)
  <2>1. /\ c.pc = at /\ c.eval = st /\ c.locals \subseteq Names /\ c.back \in BOOLEAN
    BY AtIs
  <2>2. FunctionCode(fun)[c.pc] = i /\ c.pc \in DOMAIN FunctionCode(fun)
    BY <2>1 DEF Has
  <2>3. GoodAt(fun, i, c)
    BY <2>1, <2>2, Zenon DEF GoodAt, RightAt
  <2> QED BY <2>2, <2>3 DEF GoodInto
<1> QED BY <1>1 DEF Steps

(* Most leave the locals as they are, ...                                  *)
LEMMA PlainStep ==
  ASSUME NEW fun, NEW at, NEW i, Has(fun, at, i), NEW st \in Stacks, NEW td, NEW marked,
         NEW lo, NEW hi, NEW st2, NEW td2,
         \A c \in At(at, st, td, marked, lo, hi) :
           RightAt(fun, i, c) /\ \A d : Moves(i, c, d) => d = Go(c, st2, c.locals, td2)
  PROVE  Steps(fun, At(at, st, td, marked, lo, hi), At(at + 1, st2, td2, marked, lo, hi))
<1>1. ASSUME NEW c \in At(at, st, td, marked, lo, hi)
      PROVE  Go(c, st2, c.locals, td2) \in At(at + 1, st2, td2, marked, lo, hi)
  BY AtIs, InAt DEF Go
<1> QED BY <1>1, StepIs

(* ... some assign one.                                                    *)
Written(v, hi) == IF v \in Vars THEN hi \cup {v} ELSE hi

(* What is assigned is assigned from there on.                             *)
LEMMA AssignStep ==
  ASSUME NEW fun, NEW at, NEW i, Has(fun, at, i), NEW st \in Stacks, NEW td, NEW marked,
         NEW lo, NEW hi, NEW v \in Names, NEW st2, NEW td2,
         \A c \in At(at, st, td, marked, lo, hi) :
           RightAt(fun, i, c) /\ \A d : Moves(i, c, d) => d = Go(c, st2, c.locals \cup {v}, td2)
  PROVE  Steps(fun, At(at, st, td, marked, lo, hi),
                    At(at + 1, st2, td2, marked, lo \cup {v}, Written(v, hi)))
<1>1. ASSUME NEW c \in At(at, st, td, marked, lo, hi)
      PROVE  Go(c, st2, c.locals \cup {v}, td2)
               \in At(at + 1, st2, td2, marked, lo \cup {v}, Written(v, hi))
  <2>1. /\ c.pc = at /\ c.marked = marked /\ c.locals \subseteq Names /\ c.back \in BOOLEAN
        /\ lo \subseteq c.locals /\ (c.back \/ c.locals \cap Vars \subseteq hi)
    BY AtIs
  <2>2. c.locals \cap Vars \subseteq hi => (c.locals \cup {v}) \cap Vars \subseteq Written(v, hi)
    BY DEF Written
  <2>3. c.locals \cup {v} \subseteq Names /\ lo \cup {v} \subseteq c.locals \cup {v}
    BY <2>1
  <2>4. c.back \/ (c.locals \cup {v}) \cap Vars \subseteq Written(v, hi)
    BY <2>1, <2>2, Zenon
  <2> QED BY <2>1, <2>3, <2>4, InAt DEF Go
<1> QED BY <1>1, StepIs

(* The value of an expression.                                             *)
LEMMA EvalStep ==
  ASSUME NEW fun, NEW at \in Nat, NEW e \in Exprs, Placed(fun, at, ExprCode(e)),
         NEW st \in Stacks, NEW w, NEW td, NEW marked, NEW lo, NEW hi, hi \subseteq w
  PROVE  Steps(fun, At(at, st, Evaluated(e, w, td), marked, lo, hi),
                    At(at + 1, Push(st, Cell(e)), td, marked, lo, hi))
<1>1. PICK i : i = ExprCode(e)[1]
  OBVIOUS
<1>2. Has(fun, at, i)
  <2>1. Len(ExprCode(e)) = 1 /\ at + 1 - 1 = at
    BY ExprCodeIs
  <2> QED BY <1>1, <2>1 DEF Placed
<1> DEFINE item == Evaluated(e, w, td)
<1>3. ASSUME NEW c \in At(at, st, item, marked, lo, hi)
      PROVE  /\ RightAt(fun, i, c)
               /\ \A d : Moves(i, c, d) => d = Go(c, Push(st, Cell(e)), c.locals, td)
  <2>1. /\ c.eval = st /\ c.todo = item /\ c.back \in BOOLEAN
        /\ c.back \/ c.locals \cap Vars \subseteq hi
    BY AtIs
  <2>3. CASE e.val = "local"
    <3>1. /\ item.item = "read" /\ item.v = e.v /\ item.early = (e.v \notin w) /\ item.then = td
      BY <2>3 DEF Evaluated, Early
    <3>2. i = LocalVal(e.v) /\ e.v \in Vars /\ Cell(e) = Val("any")
      BY <1>1, <2>3, ExprCodeIs DEF Cell
    <3>3. i.op = "localVal" /\ i.v = e.v
      BY <3>2 DEF LocalVal
    <3>4. ~Waits(i, c) /\ FitsAt(i, c) /\ LeavesAt(fun, i, c)
      BY <2>1, <3>1, <3>3 DEF FitsAt, LeavesAt, Waits, Parts
    <3>5. item.early /\ ~c.back => i.v \notin c.locals
      BY <2>1, <3>1, <3>2, <3>3, Zenon
    <3>6. AgreesAt(i, c)
      BY <2>1, <3>1, <3>3, <3>5 DEF AgreesAt
    <3>7. After(c, i.v) = td
      BY <2>1, <3>1, <3>2, <3>3 DEF After
    <3> QED BY <2>1, <3>2, <3>3, <3>4, <3>6, <3>7 DEF Moves, Runs1, RightAt
  <2>4. CASE e.val # "local"
    <3>1. item.item = "value" /\ item.v = e.val /\ item.then = td
      BY <2>4 DEF Evaluated, Effect
    <3>2. i = Value(e.val) /\ Cell(e) = Val(e.val)
      BY <1>1, <2>4, ExprCodeIs DEF Cell
    <3>3. i.op = "value" /\ i.val = e.val
      BY <3>2 DEF Value
    <3>4. ~Waits(i, c) /\ FitsAt(i, c) /\ LeavesAt(fun, i, c)
      BY <2>1, <3>1, <3>3 DEF FitsAt, LeavesAt, Waits, Parts
    <3>6. AgreesAt(i, c)
      BY <2>1, <3>1, <3>3 DEF AgreesAt
    <3> QED BY <2>1, <3>1, <3>2, <3>3, <3>4, <3>6 DEF Moves, Runs1, RightAt
  <2> QED BY <2>3, <2>4
<1> HIDE DEF item
<1>4. Steps(fun, At(at, st, item, marked, lo, hi),
                 At(at + 1, Push(st, Cell(e)), td, marked, lo, hi))
  BY <1>2, <1>3, PlainStep
<1> QED BY <1>4 DEF item

(* What is pushed without an effect.                                       *)
LEMMA PushStep ==
  ASSUME NEW fun, NEW at, NEW st \in Stacks, NEW td, td.item \notin Parts, NEW marked,
         NEW lo, NEW hi
  PROVE  /\ Has(fun, at, Op("zero")) =>
              Steps(fun, At(at, st, td, marked, lo, hi),
                         At(at + 1, Push(st, Val("any")), td, marked, lo, hi))
         /\ \A v : Has(fun, at, LocalRef(v)) =>
              Steps(fun, At(at, st, td, marked, lo, hi),
                         At(at + 1, Push(st, Ref(v)), td, marked, lo, hi))
         /\ \A v \in Temps : Has(fun, at, LocalVal(v)) /\ td.item # "read" =>
              Steps(fun, At(at, st, td, marked, lo, hi),
                         At(at + 1, Push(st, Val("any")), td, marked, lo, hi))
<1>1. ASSUME Has(fun, at, Op("zero"))
      PROVE  Steps(fun, At(at, st, td, marked, lo, hi),
                         At(at + 1, Push(st, Val("any")), td, marked, lo, hi))
  <2>1. PICK i : i = Op("zero")
    OBVIOUS
  <2>2. i.op = "zero"
    BY <2>1 DEF Op
  <2>3. ASSUME NEW c \in At(at, st, td, marked, lo, hi)
        PROVE  RightAt(fun, i, c)
                 /\ \A d : Moves(i, c, d) => d = Go(c, Push(st, Val("any")), c.locals, td)
    <3>1. c.eval = st /\ c.todo = td
      BY AtIs
    <3> QED BY <2>2, <3>1 DEF FitsAt, LeavesAt, Waits, AgreesAt, Moves, Runs1, RightAt
  <2> QED BY <1>1, <2>1, <2>3, PlainStep
<1>2. ASSUME NEW v, Has(fun, at, LocalRef(v))
      PROVE  Steps(fun, At(at, st, td, marked, lo, hi),
                         At(at + 1, Push(st, Ref(v)), td, marked, lo, hi))
  <2>1. PICK i : i = LocalRef(v)
    OBVIOUS
  <2>2. i.op = "localRef" /\ i.v = v
    BY <2>1 DEF LocalRef
  <2>3. ASSUME NEW c \in At(at, st, td, marked, lo, hi)
        PROVE  RightAt(fun, i, c)
                 /\ \A d : Moves(i, c, d) => d = Go(c, Push(st, Ref(v)), c.locals, td)
    <3>1. c.eval = st /\ c.todo = td
      BY AtIs
    <3> QED BY <2>2, <3>1 DEF FitsAt, LeavesAt, Waits, AgreesAt, Moves, Runs1, RightAt
  <2> QED BY <1>2, <2>1, <2>3, PlainStep
<1>3. ASSUME NEW v \in Temps, Has(fun, at, LocalVal(v)), td.item # "read"
      PROVE  Steps(fun, At(at, st, td, marked, lo, hi),
                         At(at + 1, Push(st, Val("any")), td, marked, lo, hi))
  <2>1. PICK i : i = LocalVal(v)
    OBVIOUS
  <2>2. i.op = "localVal" /\ i.v = v /\ v \notin Vars
    BY <2>1, TempsAssumption DEF LocalVal
  <2>3. ASSUME NEW c \in At(at, st, td, marked, lo, hi)
        PROVE  RightAt(fun, i, c)
                 /\ \A d : Moves(i, c, d) => d = Go(c, Push(st, Val("any")), c.locals, td)
    <3>1. c.eval = st /\ c.todo = td
      BY AtIs
    <3>2. After(c, i.v) = td
      BY <2>2, <3>1 DEF After
    <3> QED BY <1>3, <2>2, <3>1, <3>2 DEF FitsAt, LeavesAt, Waits, AgreesAt, Moves, Runs1, RightAt
  <2> QED BY <1>3, <2>1, <2>3, PlainStep
<1> QED BY <1>1, <1>2, <1>3

(* What works on the stack alone.                                          *)
LEMMA StackStep ==
  ASSUME NEW fun, NEW at, NEW st \in Stacks, NEW td, td.item \notin Parts, NEW marked,
         NEW lo, NEW hi, NEW x \in Values, NEW y \in Values, NEW z \in Values \cup Refs
  PROVE  /\ Has(fun, at, Op("dup")) =>
              Steps(fun, At(at, Push(st, z), td, marked, lo, hi),
                         At(at + 1, Push(Push(st, z), z), td, marked, lo, hi))
         /\ \A op \in {"binOp", "arrayVal"} : Has(fun, at, Op(op)) =>
              Steps(fun, At(at, Push(Push(st, x), y), td, marked, lo, hi),
                         At(at + 1, Push(st, Val("any")), td, marked, lo, hi))
         /\ Has(fun, at, Op("arrayLen")) =>
              Steps(fun, At(at, Push(st, x), td, marked, lo, hi),
                         At(at + 1, Push(st, Val("any")), td, marked, lo, hi))
<1>1. ASSUME Has(fun, at, Op("dup"))
      PROVE  Steps(fun, At(at, Push(st, z), td, marked, lo, hi),
                        At(at + 1, Push(Push(st, z), z), td, marked, lo, hi))
  <2>1. PICK i, s : i = Op("dup") /\ s = Push(st, z)
    OBVIOUS
  <2>2. i.op = "dup" /\ s \in Stacks /\ Len(s) >= 1 /\ TopOf(s) = z
    BY <2>1, PushIs DEF Op
  <2>3. ASSUME NEW c \in At(at, s, td, marked, lo, hi)
        PROVE  RightAt(fun, i, c) /\ \A d : Moves(i, c, d) => d = Go(c, Push(s, z), c.locals, td)
    <3>1. c.eval = s /\ c.todo = td
      BY AtIs
    <3> QED BY <2>2, <3>1 DEF FitsAt, LeavesAt, Waits, AgreesAt, Moves, Runs1, RightAt
  <2> QED BY <1>1, <2>1, <2>2, <2>3, PlainStep
<1>2. ASSUME NEW op \in {"binOp", "arrayVal"}, Has(fun, at, Op(op))
      PROVE  Steps(fun, At(at, Push(Push(st, x), y), td, marked, lo, hi),
                        At(at + 1, Push(st, Val("any")), td, marked, lo, hi))
  <2>1. PICK i, s : i = Op(op) /\ s = Push(Push(st, x), y)
    OBVIOUS
  <2>4. Push(st, x) \in Stacks
    BY PushIs
  <2>2. i.op \in {"binOp", "arrayVal"} /\ s \in Stacks
    BY <2>1, <2>4, PushIs DEF Op
  <2>5. Len(s) >= 2 /\ TopOf(s) = y /\ UnderOf(s) = x /\ Less(s, 2) = st
    BY <2>1, <2>4, PushIs, PushTwice
  <2>3. ASSUME NEW c \in At(at, s, td, marked, lo, hi)
        PROVE  RightAt(fun, i, c)
                 /\ \A d : Moves(i, c, d) => d = Go(c, Push(st, Val("any")), c.locals, td)
    <3>1. c.eval = s /\ c.todo = td
      BY AtIs
    <3> QED BY <2>2, <2>5, <3>1 DEF FitsAt, LeavesAt, Waits, AgreesAt, Moves, Runs1, RightAt
  <2> QED BY <1>2, <2>1, <2>2, <2>3, PlainStep
<1>3. ASSUME Has(fun, at, Op("arrayLen"))
      PROVE  Steps(fun, At(at, Push(st, x), td, marked, lo, hi),
                        At(at + 1, Push(st, Val("any")), td, marked, lo, hi))
  <2>1. PICK i, s : i = Op("arrayLen") /\ s = Push(st, x)
    OBVIOUS
  <2>2. i.op = "arrayLen" /\ s \in Stacks /\ Len(s) >= 1 /\ TopOf(s) = x /\ Less(s, 1) = st
    BY <2>1, PushIs DEF Op
  <2>3. ASSUME NEW c \in At(at, s, td, marked, lo, hi)
        PROVE  RightAt(fun, i, c)
                 /\ \A d : Moves(i, c, d) => d = Go(c, Push(st, Val("any")), c.locals, td)
    <3>1. c.eval = s /\ c.todo = td
      BY AtIs
    <3> QED BY <2>2, <3>1 DEF FitsAt, LeavesAt, Waits, AgreesAt, Moves, Runs1, RightAt
  <2> QED BY <1>3, <2>1, <2>2, <2>3, PlainStep
<1> QED BY <1>1, <1>2, <1>3

(* A Pop runs whatever is left to do.                                      *)
LEMMA PopStep ==
  ASSUME NEW fun, NEW at, Has(fun, at, Op("pop")), NEW st \in Stacks, NEW td, NEW marked,
         NEW lo, NEW hi, NEW x \in Values
  PROVE  Steps(fun, At(at, Push(st, x), td, marked, lo, hi), At(at + 1, st, td, marked, lo, hi))
<1>1. PICK i, s : i = Op("pop") /\ s = Push(st, x)
  OBVIOUS
<1>2. i.op = "pop" /\ s \in Stacks /\ Len(s) >= 1 /\ TopOf(s) = x /\ Less(s, 1) = st
  BY <1>1, PushIs DEF Op
<1>3. ASSUME NEW c \in At(at, s, td, marked, lo, hi)
      PROVE  RightAt(fun, i, c) /\ \A d : Moves(i, c, d) => d = Go(c, st, c.locals, td)
  <2>1. c.eval = s /\ c.todo = td
    BY AtIs
  <2> QED BY <1>2, <2>1 DEF FitsAt, LeavesAt, Waits, AgreesAt, Moves, Runs1, RightAt
<1> QED BY <1>1, <1>2, <1>3, PlainStep

(* An assignment, of a local or of a temporary.                            *)
LEMMA StoreStep ==
  ASSUME NEW fun, NEW at, Has(fun, at, Op("store")), NEW st \in Stacks, NEW td, NEW marked,
         NEW lo, NEW hi, NEW x \in Values, NEW v \in Names, NEW then,
         v \in Vars => td = Effect("write", v, then),
         v \notin Vars => td.item \notin Parts /\ td = then
  PROVE  Steps(fun, At(at, Push(Push(st, Ref(v)), x), td, marked, lo, hi),
                    At(at + 1, st, then, marked, lo \cup {v}, Written(v, hi)))
<1>1. PICK i, s : i = Op("store") /\ s = Push(Push(st, Ref(v)), x)
  OBVIOUS
<1>2. Ref(v) \in Refs /\ Ref(v).ref = v /\ Push(st, Ref(v)) \in Stacks
  BY CellsAre, PushIs
<1>3. i.op = "store" /\ s \in Stacks
  BY <1>1, <1>2, PushIs DEF Op
<1>4. Len(s) >= 2 /\ TopOf(s) = x /\ UnderOf(s) = Ref(v) /\ Less(s, 2) = st
  BY <1>1, <1>2, PushIs, PushTwice
<1>5. td.item \notin Parts /\ (v \in Vars => td.item = "write" /\ td.v = v /\ td.then = then)
  BY DEF Effect, Parts
<1>6. ASSUME NEW c \in At(at, s, td, marked, lo, hi)
      PROVE  RightAt(fun, i, c)
               /\ \A d : Moves(i, c, d) => d = Go(c, st, c.locals \cup {v}, then)
  <2>1. c.eval = s /\ c.todo = td
    BY AtIs
  <2>2. After(c, v) = then
    BY <1>5, <2>1 DEF After
  <2>3. FitsAt(i, c) /\ LeavesAt(fun, i, c)
    BY <1>2, <1>3, <1>4, <2>1 DEF FitsAt, LeavesAt
  <2>4. AgreesAt(i, c) /\ ~Waits(i, c)
    BY <1>2, <1>3, <1>4, <1>5, <2>1 DEF AgreesAt, Waits
  <2> QED BY <1>2, <1>3, <1>4, <2>1, <2>2, <2>3, <2>4 DEF Moves, Runs1, RightAt
<1> QED BY <1>1, <1>3, <1>6, AssignStep

(* An increment, of a local that has a value.                              *)
LEMMA IncrementStep ==
  ASSUME NEW fun, NEW at, Has(fun, at, Op("incr")), NEW st \in Stacks, NEW td, NEW marked,
         NEW lo, NEW hi, NEW v \in Names, v \in lo, NEW then,
         v \in Vars => td = Effect("write", v, then),
         v \notin Vars => td.item \notin Parts /\ td = then
  PROVE  Steps(fun, At(at, Push(st, Ref(v)), td, marked, lo, hi),
                    At(at + 1, st, then, marked, lo, Written(v, hi)))
<1>1. PICK i, s : i = Op("incr") /\ s = Push(st, Ref(v))
  OBVIOUS
<1>2. Ref(v) \in Refs /\ Ref(v).ref = v
  BY CellsAre
<1>3. i.op = "incr" /\ s \in Stacks /\ Len(s) >= 1 /\ TopOf(s) = Ref(v) /\ Less(s, 1) = st
  BY <1>1, <1>2, PushIs DEF Op
<1>5. td.item \notin Parts /\ (v \in Vars => td.item = "write" /\ td.v = v /\ td.then = then)
  BY DEF Effect, Parts
<1>6. ASSUME NEW c \in At(at, s, td, marked, lo, hi)
      PROVE  RightAt(fun, i, c)
               /\ \A d : Moves(i, c, d) => d = Go(c, st, c.locals \cup {v}, then)
  <2>1. c.eval = s /\ c.todo = td /\ v \in c.locals
    BY AtIs
  <2>2. After(c, v) = then
    BY <1>5, <2>1 DEF After
  <2>3. FitsAt(i, c) /\ LeavesAt(fun, i, c)
    BY <1>2, <1>3, <2>1 DEF FitsAt, LeavesAt
  <2>4. AgreesAt(i, c) /\ ~Waits(i, c)
    BY <1>2, <1>3, <1>5, <2>1 DEF AgreesAt, Waits
  <2> QED BY <1>2, <1>3, <2>1, <2>2, <2>3, <2>4 DEF Moves, Runs1, RightAt
<1>7. lo \cup {v} = lo
  OBVIOUS
<1>8. Steps(fun, At(at, s, td, marked, lo, hi),
                 At(at + 1, st, then, marked, lo \cup {v}, Written(v, hi)))
  <2>1. Has(fun, at, i) /\ s \in Stacks
    BY <1>1, <1>3
  <2> QED BY <1>6, <2>1, AssignStep, Zenon
<1> QED BY <1>1, <1>7, <1>8

(* The value of a For's variable.                                          *)
LEMMA DerefStep ==
  ASSUME NEW fun, NEW at, Has(fun, at, Op("deref")), NEW st \in Stacks, NEW marked,
         NEW lo, NEW hi, NEW v \in Names, v \in lo, NEW then
  PROVE  Steps(fun, At(at, Push(st, Ref(v)), Effect("deref", v, then), marked, lo, hi),
                    At(at + 1, Push(st, Val("any")), then, marked, lo, hi))
<1>1. PICK i, s, td : i = Op("deref") /\ s = Push(st, Ref(v)) /\ td = Effect("deref", v, then)
  OBVIOUS
<1>2. Ref(v) \in Refs /\ Ref(v).ref = v
  BY CellsAre
<1>3. i.op = "deref" /\ s \in Stacks /\ Len(s) >= 1 /\ TopOf(s) = Ref(v) /\ Less(s, 1) = st
  BY <1>1, <1>2, PushIs DEF Op
<1>5. td.item = "deref" /\ td.v = v /\ td.then = then
  BY <1>1 DEF Effect
<1>6. ASSUME NEW c \in At(at, s, td, marked, lo, hi)
      PROVE  RightAt(fun, i, c)
               /\ \A d : Moves(i, c, d) => d = Go(c, Push(st, Val("any")), c.locals, then)
  <2>1. c.eval = s /\ c.todo = td /\ v \in c.locals
    BY AtIs
  <2>3. FitsAt(i, c) /\ LeavesAt(fun, i, c)
    BY <1>2, <1>3, <2>1 DEF FitsAt, LeavesAt
  <2>4. AgreesAt(i, c) /\ ~Waits(i, c)
    BY <1>2, <1>3, <1>5, <2>1 DEF AgreesAt, Waits, Parts
  <2> QED BY <1>2, <1>3, <1>5, <2>1, <2>3, <2>4 DEF Moves, Runs1, RightAt
<1>7. Steps(fun, At(at, s, td, marked, lo, hi),
                 At(at + 1, Push(st, Val("any")), then, marked, lo, hi))
  BY <1>1, <1>3, <1>6, PlainStep
<1> QED BY <1>1, <1>7

(* The output of a value.                                                  *)
LEMMA DisplayStep ==
  ASSUME NEW fun, NEW at, Has(fun, at, Op("display")), NEW st \in Stacks, NEW x \in Values,
         NEW marked, NEW lo, NEW hi, NEW then
  PROVE  Steps(fun, At(at, Push(st, x), Effect("display", "", then), marked, lo, hi),
                    At(at + 1, st, then, marked, lo, hi))
<1>1. PICK i, s, td : i = Op("display") /\ s = Push(st, x) /\ td = Effect("display", "", then)
  OBVIOUS
<1>2. i.op = "display"
  BY <1>1 DEF Op
<1>4. Len(st) \in Nat /\ s \in Stacks /\ Len(s) = Len(st) + 1 /\ TopOf(s) = x /\ Less(s, 1) = st
  BY <1>1, PushIs
<1>3. i.op = "display" /\ s \in Stacks /\ Len(s) >= 1 /\ TopOf(s) = x /\ Less(s, 1) = st
  BY <1>2, <1>4
<1>5. td.item = "display" /\ td.v = "" /\ td.then = then
  BY <1>1 DEF Effect
<1>6. ASSUME NEW c \in At(at, s, td, marked, lo, hi)
      PROVE  RightAt(fun, i, c) /\ \A d : Moves(i, c, d) => d = Go(c, st, c.locals, then)
  <2>1. c.eval = s /\ c.todo = td
    BY AtIs
  <2> QED BY <1>3, <1>5, <2>1
          DEF FitsAt, LeavesAt, AgreesAt, Waits, Parts, Moves, Runs1, RightAt
<1>7. Steps(fun, At(at, s, td, marked, lo, hi), At(at + 1, st, then, marked, lo, hi))
  BY <1>1, <1>3, <1>6, PlainStep
<1> QED BY <1>1, <1>7

(* A call, which may assign the local it is passed, or not.                *)
LEMMA CallStep ==
  ASSUME NEW fun, NEW at, Has(fun, at, Op("call")), NEW st \in Stacks, NEW v \in Vars,
         NEW marked, NEW lo, NEW hi, NEW then
  PROVE  Steps(fun, At(at, Push(st, Ref(v)), Effect("pass", v, then), marked, lo, hi),
                    At(at + 1, st, then, marked, lo, hi \cup {v}))
<1>1. PICK i, s, td : i = Op("call") /\ s = Push(st, Ref(v)) /\ td = Effect("pass", v, then)
  OBVIOUS
<1>2. Ref(v) \in Refs /\ Ref(v).ref = v /\ v \in Names
  BY CellsAre DEF Names
<1>3. i.op = "call" /\ s \in Stacks /\ Len(s) >= 1 /\ TopOf(s) = Ref(v) /\ Less(s, 1) = st
  BY <1>1, <1>2, PushIs DEF Op
<1>5. td.item = "pass" /\ td.v = v /\ td.then = then
  BY <1>1 DEF Effect
<1> DEFINE B == At(at + 1, st, then, marked, lo, hi \cup {v})
<1>6. ASSUME NEW c \in At(at, s, td, marked, lo, hi)
      PROVE  RightAt(fun, i, c) /\ \A d : Moves(i, c, d) => d \in B
  <2>1. /\ c.pc = at /\ c.eval = s /\ c.todo = td /\ c.marked = marked
        /\ c.locals \subseteq Names /\ c.back \in BOOLEAN
        /\ lo \subseteq c.locals /\ (c.back \/ c.locals \cap Vars \subseteq hi)
    BY AtIs
  <2>3. FitsAt(i, c) /\ LeavesAt(fun, i, c)
    BY <1>2, <1>3, <2>1 DEF FitsAt, LeavesAt
  <2>4. AgreesAt(i, c) /\ ~Waits(i, c)
    BY <1>2, <1>3, <1>5, <2>1 DEF AgreesAt, Waits, Parts
  <2>5. ASSUME NEW d, Moves(i, c, d) PROVE d \in B
    <3>1. PICK locs \in {c.locals, c.locals \cup {v}} : d = Go(c, st, locs, then)
      BY <1>2, <1>3, <1>5, <2>1, <2>4, <2>5 DEF Moves, Runs2
    <3>2. locs \subseteq Names /\ lo \subseteq locs
      BY <1>2, <2>1, <3>1
    <3>3. c.locals \cap Vars \subseteq hi => locs \cap Vars \subseteq hi \cup {v}
      BY <3>1
    <3>4. c.back \/ locs \cap Vars \subseteq hi \cup {v}
      BY <2>1, <3>3, Zenon
    <3> QED BY <2>1, <3>1, <3>2, <3>4, InAt DEF Go
  <2> QED BY <2>3, <2>4, <2>5 DEF RightAt
<1> HIDE DEF B
<1>7. Steps(fun, At(at, s, td, marked, lo, hi), B)
  BY <1>1, <1>3, <1>6, StepIs
<1> QED BY <1>1, <1>7 DEF B

(* Jumps.  What is written does not matter once the run has gone back.     *)
LEMMA JumpStep ==
  ASSUME NEW fun, NEW at, NEW n \in Int, Has(fun, at, Jump(n)), NEW st \in Stacks, NEW td,
         NEW marked, NEW lo, NEW hi, NEW high, n < 0 \/ hi \subseteq high
  PROVE  Steps(fun, At(at, st, td, marked, lo, hi), At(at + n, st, td, marked, lo, high))
<1>1. PICK i : i = Jump(n)
  OBVIOUS
<1>2. i.op = "jump" /\ i.n = n
  BY <1>1 DEF Jump
<1> DEFINE B == At(at + n, st, td, marked, lo, high)
<1>3. ASSUME NEW c \in At(at, st, td, marked, lo, hi)
      PROVE  RightAt(fun, i, c) /\ \A d : Moves(i, c, d) => d \in B
  <2>1. /\ c.pc = at /\ c.eval = st /\ c.todo = td /\ c.marked = marked
        /\ c.locals \subseteq Names /\ c.back \in BOOLEAN
        /\ lo \subseteq c.locals /\ (c.back \/ c.locals \cap Vars \subseteq hi)
    BY AtIs
  <2>2. RightAt(fun, i, c)
    BY <1>2, <2>1 DEF FitsAt, LeavesAt, AgreesAt, Waits, RightAt
  <2>3. ASSUME NEW d, Moves(i, c, d) PROVE d \in B
    <3>1. d = GoBy(c, n, st, td)
      BY <1>2, <2>1, <2>3 DEF Moves, Runs2, Waits
    <3>2. (c.back \/ n < 0) \in BOOLEAN
      OBVIOUS
    <3>3. (c.back \/ n < 0) \/ c.locals \cap Vars \subseteq high
      BY <2>1, Zenon
    <3> QED BY <2>1, <3>1, <3>2, <3>3, InAt DEF GoBy
  <2> QED BY <2>2, <2>3
<1> HIDE DEF B
<1>4. Steps(fun, At(at, st, td, marked, lo, hi), B)
  BY <1>1, <1>3, StepIs
<1> QED BY <1>4 DEF B

(* on says with which outcome the jump is taken.                           *)
LEMMA JumpIfStep ==
  ASSUME NEW fun, NEW at, NEW n \in Int, NEW on \in BOOLEAN, Has(fun, at, JumpIf(on, n)),
         NEW st \in Stacks, NEW x \in Values, NEW val, x.val = "any" \/ x.val = val,
         NEW yes, NEW no, NEW marked, NEW lo, NEW hi, NEW high, n < 0 \/ hi \subseteq high, NEW B,
         TRUE \in Outcomes(x) => IF on THEN At(at + n, st, yes, marked, lo, high) \subseteq B
                                       ELSE At(at + 1, st, yes, marked, lo, hi) \subseteq B,
         FALSE \in Outcomes(x) => IF on THEN At(at + 1, st, no, marked, lo, hi) \subseteq B
                                        ELSE At(at + n, st, no, marked, lo, high) \subseteq B
  PROVE  Steps(fun, At(at, Push(st, x), Test(val, yes, no), marked, lo, hi), B)
<1>1. PICK i, s, td : i = JumpIf(on, n) /\ s = Push(st, x) /\ td = Test(val, yes, no)
  OBVIOUS
<1>2. i.op = "jumpIf" /\ i.n = n /\ i.on = on
  BY <1>1 DEF JumpIf
<1>3. Len(st) \in Nat /\ s \in Stacks /\ Len(s) = Len(st) + 1 /\ TopOf(s) = x /\ Less(s, 1) = st
  BY <1>1, PushIs
<1>4. Len(s) >= 1
  BY <1>3
<1>5. td.item = "test" /\ td.val = val /\ td.yes = yes /\ td.no = no
  BY <1>1 DEF Test
<1>6. ASSUME NEW c \in At(at, s, td, marked, lo, hi)
      PROVE  RightAt(fun, i, c) /\ \A d : Moves(i, c, d) => d \in B
  <2>1. /\ c.pc = at /\ c.eval = s /\ c.todo = td /\ c.marked = marked
        /\ c.locals \subseteq Names /\ c.back \in BOOLEAN
        /\ lo \subseteq c.locals /\ (c.back \/ c.locals \cap Vars \subseteq hi)
    BY AtIs
  <2>2. RightAt(fun, i, c)
    <3>1. FitsAt(i, c) /\ LeavesAt(fun, i, c) /\ ~Waits(i, c)
      BY <1>2, <1>3, <1>4, <1>5, <2>1 DEF FitsAt, LeavesAt, Waits, Parts
    <3>2. AgreesAt(i, c)
      BY <1>2, <1>3, <1>5, <2>1 DEF AgreesAt
    <3> QED BY <3>1, <3>2 DEF RightAt
  <2>3. ASSUME NEW d, Moves(i, c, d) PROVE d \in B
    <3>1. PICK outcome \in Outcomes(x) :
            d = GoBy(c, IF outcome = on THEN n ELSE 1, st, IF outcome THEN yes ELSE no)
      BY <1>2, <1>3, <1>5, <2>1, <2>2, <2>3 DEF Moves, Runs2, RightAt
    <3>2. outcome \in BOOLEAN
      BY DEF Outcomes
    <3>3. (c.back \/ n < 0) \in BOOLEAN /\ (c.back \/ 1 < 0) \in BOOLEAN
      OBVIOUS
    <3>4. (c.back \/ n < 0) \/ c.locals \cap Vars \subseteq high
      BY <2>1, Zenon
    <3>5. (c.back \/ 1 < 0) \/ c.locals \cap Vars \subseteq hi
      BY <2>1, Zenon
    <3>6. \A then : GoBy(c, n, st, then) \in At(at + n, st, then, marked, lo, high)
      BY <2>1, <3>3, <3>4, InAt DEF GoBy
    <3>7. \A then : GoBy(c, 1, st, then) \in At(at + 1, st, then, marked, lo, hi)
      BY <2>1, <3>3, <3>5, InAt DEF GoBy
    <3>8. CASE outcome = TRUE
      BY <3>1, <3>6, <3>7, <3>8
    <3>9. CASE outcome = FALSE
      BY <3>1, <3>6, <3>7, <3>9
    <3> QED BY <3>2, <3>8, <3>9
  <2> QED BY <2>2, <2>3
<1>7. Steps(fun, At(at, s, td, marked, lo, hi), B)
  BY <1>1, <1>3, <1>6, StepIs
<1> QED BY <1>1, <1>7

(* The ways into a function and out of it.                                 *)
LEMMA BeginStep ==
  ASSUME NEW fun, NEW at, Has(fun, at, Op("begin")), NEW marked, NEW lo, NEW hi, NEW then
  PROVE  Steps(fun, At(at, <<>>, Effect("begin", "", then), marked, lo, hi),
                    At(at + 1, <<>>, then, marked, {}, {}))
<1>1. PICK i, td : i = Op("begin") /\ td = Effect("begin", "", then)
  OBVIOUS
<1>2. i.op = "begin" /\ td.item = "begin" /\ td.v = "" /\ td.then = then
  BY <1>1 DEF Op, Effect
<1>3. <<>> \in Stacks
  BY EmptySeq DEF Stacks
<1> DEFINE B == At(at + 1, <<>>, then, marked, {}, {})
<1>4. ASSUME NEW c \in At(at, <<>>, td, marked, lo, hi)
      PROVE  RightAt(fun, i, c) /\ \A d : Moves(i, c, d) => d \in B
  <2>1. c.pc = at /\ c.eval = <<>> /\ c.todo = td /\ c.marked = marked /\ c.back \in BOOLEAN
    BY AtIs
  <2>2. RightAt(fun, i, c)
    BY <1>2, <2>1 DEF FitsAt, LeavesAt, AgreesAt, Waits, Parts, RightAt
  <2>3. ASSUME NEW d, Moves(i, c, d) PROVE d \in B
    <3>1. d = Point(at + 1, <<>>, {}, c.back, then, marked)
      BY <1>2, <2>1, <2>2, <2>3 DEF Moves, Runs1, RightAt, Go
    <3>2. {} \subseteq Names /\ {} \subseteq {} /\ (c.back \/ {} \cap Vars \subseteq {})
      OBVIOUS
    <3> QED BY <2>1, <3>1, <3>2, InAt
  <2> QED BY <2>2, <2>3
<1> HIDE DEF B
<1>5. Steps(fun, At(at, <<>>, td, marked, lo, hi), B)
  BY <1>1, <1>3, <1>4, StepIs
<1> QED BY <1>1, <1>5 DEF B

(* Nothing follows a Return ...                                            *)
LEMMA ReturnStep ==
  ASSUME NEW fun, NEW at, Has(fun, at, Op("return")), NEW x \in Values, NEW marked,
         NEW lo, NEW hi, FlowOf(fun) # CONTINUE, ~Endless(marked)
  PROVE  Steps(fun, At(at, Push(<<>>, x), Effect("return", "", Done), marked, lo, hi), {})
<1>1. PICK i, s, td : i = Op("return") /\ s = Push(<<>>, x) /\ td = Effect("return", "", Done)
  OBVIOUS
<1>2. i.op = "return" /\ td.item = "return" /\ td.v = ""
  BY <1>1 DEF Op, Effect
<1>3. <<>> \in Stacks /\ Len(<<>>) = 0
  BY EmptySeq DEF Stacks
<1>4. s \in Stacks /\ Len(s) = 1 /\ TopOf(s) = x
  <2>1. PICK e \in Stacks : e = <<>> /\ Len(e) = 0
    BY <1>3
  <2>2. s \in Stacks /\ Len(s) = Len(e) + 1 /\ TopOf(s) = x
    BY <1>1, <2>1, PushIs
  <2> QED BY <2>1, <2>2
<1>5. ASSUME NEW c \in At(at, s, td, marked, lo, hi)
      PROVE  RightAt(fun, i, c) /\ \A d : Moves(i, c, d) => d \in {}
  <2>1. c.eval = s /\ c.todo = td /\ c.marked = marked
    BY AtIs
  <2>2. RightAt(fun, i, c)
    BY <1>2, <1>4, <2>1 DEF FitsAt, LeavesAt, AgreesAt, Waits, Parts, RightAt
  <2>3. \A d : ~Moves(i, c, d)
    BY <1>2, <2>2 DEF Moves, Runs2, RightAt
  <2> QED BY <2>2, <2>3
<1>6. Steps(fun, At(at, s, td, marked, lo, hi), {})
  BY <1>1, <1>4, <1>5, StepIs
<1> QED BY <1>1, <1>6

(* ... or the end of the function.                                         *)
LEMMA EndStep ==
  ASSUME NEW fun, NEW at, Has(fun, at, Op("end")), NEW marked, NEW lo, NEW hi,
         FlowOf(fun) # HALT \/ Trusts(fun), ~Endless(marked)
  PROVE  Steps(fun, At(at, <<>>, Done, marked, lo, hi), {})
<1>1. PICK i : i = Op("end")
  OBVIOUS
<1>2. i.op = "end" /\ Done.item = "done"
  BY <1>1 DEF Op, Done
<1>3. <<>> \in Stacks
  BY EmptySeq DEF Stacks
<1>5. ASSUME NEW c \in At(at, <<>>, Done, marked, lo, hi)
      PROVE  RightAt(fun, i, c) /\ \A d : Moves(i, c, d) => d \in {}
  <2>1. c.eval = <<>> /\ c.todo = Done /\ c.marked = marked
    BY AtIs
  <2>2. RightAt(fun, i, c)
    BY <1>2, <2>1 DEF FitsAt, LeavesAt, AgreesAt, Waits, Parts, RightAt
  <2>3. \A d : ~Moves(i, c, d)
    BY <1>2, <2>2 DEF Moves, Runs2, RightAt
  <2> QED BY <2>2, <2>3
<1> QED BY <1>1, <1>3, <1>5, StepIs

(* What is left of the source is unfolded.                                 *)
FitsToUnfold(i, st, lo) ==
  \/ i.op \in Starts
  \/ i.op = "dup" /\ \E s \in Stacks : \E x \in Values : st = Push(s, x)
  \/ i.op = "deref" /\ \E s \in Stacks : \E v \in lo \cap Names : st = Push(s, Ref(v))

(* The machine waits where its next instruction finds what it takes.       *)
LEMMA UnfoldStep ==
  ASSUME NEW fun, NEW at, NEW i, Has(fun, at, i), NEW st \in Stacks,
         NEW td, td.item \in Parts, NEW marked, NEW lo, NEW hi, FitsToUnfold(i, st, lo),
         td.item = "block" /\ Unreachable(td.block, td.i) => Trusts(fun)
  PROVE  Steps(fun, At(at, st, td, marked, lo, hi),
                    At(at, st, Unfolded(td), marked \cup Noted(td), lo, hi))
<1> DEFINE B == At(at, st, Unfolded(td), marked \cup Noted(td), lo, hi)
<1>1. ASSUME NEW c \in At(at, st, td, marked, lo, hi)
      PROVE  GoodInto(fun, c, B)
  <2>1. /\ c.pc = at /\ c.eval = st /\ c.todo = td /\ c.marked = marked
        /\ c.locals \subseteq Names /\ c.back \in BOOLEAN
        /\ lo \subseteq c.locals /\ (c.back \/ c.locals \cap Vars \subseteq hi)
    BY AtIs
  <2>2. FunctionCode(fun)[c.pc] = i /\ c.pc \in DOMAIN FunctionCode(fun)
    BY <2>1 DEF Has
  <2>3. FitsAt(i, c)
    <3>1. CASE i.op \in Starts
      BY <3>1 DEF FitsAt, Starts
    <3>2. CASE i.op = "dup" /\ \E s \in Stacks : \E x \in Values : st = Push(s, x)
      <4>1. PICK s \in Stacks, x \in Values : st = Push(s, x)
        BY <3>2
      <4>2. Len(s) \in Nat /\ Len(st) = Len(s) + 1 /\ TopOf(st) = x
        BY <4>1, PushIs
      <4>3. Len(st) >= 1
        BY <4>2
      <4> QED BY <2>1, <3>2, <4>2, <4>3 DEF FitsAt
    <3>3. CASE i.op = "deref" /\ \E s \in Stacks : \E v \in lo \cap Names : st = Push(s, Ref(v))
      <4>1. PICK s \in Stacks, v \in lo \cap Names : st = Push(s, Ref(v))
        BY <3>3
      <4>2. Ref(v) \in Refs /\ Ref(v).ref = v
        BY CellsAre
      <4>3. Len(s) \in Nat /\ Len(st) = Len(s) + 1 /\ TopOf(st) = Ref(v)
        BY <4>1, <4>2, PushIs
      <4>4. Len(st) >= 1 /\ v \in c.locals
        BY <2>1, <4>3
      <4> QED BY <2>1, <3>3, <4>2, <4>3, <4>4 DEF FitsAt
    <3> QED BY <3>1, <3>2, <3>3 DEF FitsToUnfold
  <2>4. Waits(i, c)
    BY <2>1 DEF Waits, FitsToUnfold, Starts
  <2>5. GoodAt(fun, i, c)
    BY <2>1, <2>2, <2>3, <2>4, Zenon DEF GoodAt
  <2>6. Point(at, st, c.locals, c.back, Unfolded(td), marked \cup Noted(td)) \in B
    BY <2>1, InAt
  <2>7. \A d : Moves(i, c, d) => d \in B
    BY <2>1, <2>4, <2>6 DEF Moves, Unfolds
  <2> QED BY <2>2, <2>5, <2>7 DEF GoodInto
<1> QED BY <1>1 DEF Steps

(***************************************************************************)
(* A statement runs well: whatever it stands in, its code is good until it *)
(* has been run to its end, which it does not come to when it halts.       *)
(***************************************************************************)
MayRun(fun, flow, marked) == flow # CONTINUE => FlowOf(fun) # CONTINUE /\ ~Endless(marked)
Behind(fun, flow, A)      == IF flow = HALT /\ ~Trusts(fun) THEN {} ELSE A

RunsWell(fun, s) ==
  \A at \in Nat, lo \in SUBSET Names, w \in SUBSET Vars : \A then, marked :
    /\ Placed(fun, at, StmtCode[s])
    /\ MayRun(fun, Flow[s], marked)
    /\ WhileHalts[s] => Trusts(fun)
    => Leads(fun, At(at, <<>>, Stmt(s, w, then), marked, lo, w),
             Behind(fun, Flow[s], At(at + Len(StmtCode[s]), <<>>, then, marked, lo,
                                     w \cup Writes[s])))

BlockRunsWell(fun, block) ==
  \A at \in Nat, lo \in SUBSET Names, w \in SUBSET Vars : \A then, marked :
    /\ Placed(fun, at, BlockCode(block))
    /\ MayRun(fun, FlowOf(block), marked)
    /\ \A j \in DOMAIN block : WhileHalts[block[j]] => Trusts(fun)
    => Leads(fun, At(at, <<>>, BlockFrom(block, 1, w, then), marked, lo, w),
             Behind(fun, FlowOf(block), At(at + Len(BlockCode(block)), <<>>, then, marked, lo,
                                           w \cup WritesOf(block))))

(* A block halts if one of its statements does, and continues only if all  *)
(* do.                                                                     *)
LEMMA BlockFlowIs ==
  ASSUME NEW block \in Seq(Statements)
  PROVE  /\ FlowOf(block) \in Flows
         /\ FlowOf(block) = HALT <=> \E j \in DOMAIN block : Flow[block[j]] = HALT
         /\ FlowOf(block) = CONTINUE => \A j \in DOMAIN block : Flow[block[j]] = CONTINUE
<1>1. \A j \in DOMAIN block : Flow[block[j]] \in Flows
  BY FlowIs, LenProperties, ElementOfSeq
<1>2. FlowOf(block) = IF \E j \in DOMAIN block : Flow[block[j]] = HALT THEN HALT
                      ELSE IF \E j \in DOMAIN block : Flow[block[j]] = MAYBE THEN MAYBE
                      ELSE CONTINUE
  BY DEF FlowOf, BlockFlow
<1>3. CONTINUE # MAYBE /\ CONTINUE # HALT /\ MAYBE # HALT
  BY DEF CONTINUE, MAYBE, HALT
<1> QED BY <1>1, <1>2, <1>3 DEF Flows

(* What is behind a statement grows with the points, and when it need not  *)
(* halt.                                                                   *)
LEMMA BehindGrows ==
  ASSUME NEW fun, NEW flow, NEW flow2, flow2 = HALT => flow = HALT, NEW A, NEW B, A \subseteq B
  PROVE  Behind(fun, flow, A) \subseteq Behind(fun, flow2, B)
BY DEF Behind

(* A block is where its code begins.                                       *)
LEMMA BlockPrefixes ==
  ASSUME NEW N \in Nat, NEW g \in [0..N -> BlockCodes], NEW c,
         \A n \in 1..N : c[n] \in StmtCodes /\ g[n] = g[n - 1] \o c[n],
         NEW fun, NEW at \in Nat, Placed(fun, at, g[N])
  PROVE  \A n \in 0..N : Placed(fun, at, g[n])
<1> DEFINE S == {k \in 0..N : Placed(fun, at, g[N - k])}
<1>1. 0 \in S
  OBVIOUS
<1>2. ASSUME NEW k \in 0..(N - 1), k \in S PROVE k + 1 \in S
  <2>1. N - k \in 1..N /\ (N - k) - 1 = N - (k + 1) /\ N - (k + 1) \in 0..N /\ k + 1 \in 0..N
    OBVIOUS
  <2>2. g[N - k] = g[N - (k + 1)] \o c[N - k]
    BY <2>1
  <2>3. g[N - (k + 1)] \in Codes /\ c[N - k] \in Codes
    BY <2>1, SmallCodes
  <2>4. Placed(fun, at, g[N - (k + 1)] \o c[N - k])
    BY <1>2, <2>2
  <2>5. Placed(fun, at, g[N - (k + 1)])
    BY <2>3, <2>4, PlacedParts, Zenon
  <2> QED BY <2>1, <2>5
<1>3. \A k \in 0..N : k \in S
  <2> HIDE DEF S
  <2> QED BY <1>1, <1>2, UpFromZero
<1>4. ASSUME NEW n \in 0..N PROVE Placed(fun, at, g[n])
  <2>1. N - n \in 0..N /\ N - (N - n) = n
    OBVIOUS
  <2>2. N - n \in S
    BY <1>3, <2>1
  <2> QED BY <2>1, <2>2
<1> QED BY <1>4

(* A block runs well if its statements do.                                 *)
LEMMA BlockRuns ==
  ASSUME NEW fun, NEW block \in Seq(Statements),
         \A j \in DOMAIN block : RunsWell(fun, block[j])
  PROVE  BlockRunsWell(fun, block)
<1>1. PICK N \in Nat : N = Len(block) /\ DOMAIN block = 1..N
  BY LenProperties
<1>2. PICK g \in [0..N -> BlockCodes] :
        /\ g[0] = <<>>
        /\ \A n \in 1..N : g[n] = g[n - 1] \o StmtCode[block[n]]
        /\ BlockCode(block) = g[N]
  BY <1>1, BlockCodeIs, Zenon DEF HasBlockCode
<1>3. \A n \in 1..N : block[n] \in Statements /\ StmtCode[block[n]] \in StmtCodes
  BY <1>1, StmtCodeIs, ElementOfSeq
<1> SUFFICES
      ASSUME NEW at \in Nat, NEW lo \in SUBSET Names, NEW w \in SUBSET Vars,
             NEW then, NEW marked,
             Placed(fun, at, BlockCode(block)), MayRun(fun, FlowOf(block), marked),
             \A j \in DOMAIN block : WhileHalts[block[j]] => Trusts(fun)
      PROVE  Leads(fun, At(at, <<>>, BlockFrom(block, 1, w, then), marked, lo, w),
                   Behind(fun, FlowOf(block), At(at + Len(BlockCode(block)), <<>>, then, marked,
                                                 lo, w \cup WritesOf(block))))
  BY DEF BlockRunsWell
<1> DEFINE c == [n \in 1..N |-> StmtCode[block[n]]]
           W(n) == w \cup UNION {Writes[block[j]] : j \in 1..n}
           Halted(n) == (\E j \in 1..n : Flow[block[j]] = HALT) /\ ~Trusts(fun)
           There(n) == At(at + Len(g[n]), <<>>, BlockFrom(block, n + 1, W(n), then), marked,
                          lo, W(n))
           Ex(n) == IF Halted(n) THEN {} ELSE There(n)
           Start == At(at, <<>>, BlockFrom(block, 1, w, then), marked, lo, w)
           S == {n \in 0..N : Leads(fun, Start, Ex(n))}
<1>4. \A n \in 0..N : Placed(fun, at, g[n])
  <2>1. \A n \in 1..N : c[n] = StmtCode[block[n]]
    OBVIOUS
  <2> HIDE DEF c
  <2>2. \A n \in 1..N : c[n] \in StmtCodes /\ g[n] = g[n - 1] \o c[n]
    BY <1>2, <1>3, <2>1
  <2>3. Placed(fun, at, g[N])
    BY <1>2
  <2> QED BY <2>2, <2>3, BlockPrefixes
<1> HIDE DEF c
<1>5. 0 \in S
  <2>1. W(0) = w /\ at + Len(g[0]) = at /\ 0 + 1 = 1
    BY <1>2, SmallCodes
  <2>2. ~Halted(0)
    OBVIOUS
  <2>3. Ex(0) = Start
    <3> HIDE DEF W, Halted
    <3> QED BY <2>1, <2>2
  <2> HIDE DEF Ex, Start
  <2> QED BY <2>3, LeadsThere
<1>6. ASSUME NEW n \in 0..(N - 1) PROVE Leads(fun, Ex(n), Ex(n + 1))
  <2> DEFINE t == block[n + 1]
             p == at + Len(g[n])
             td == BlockFrom(block, n + 1, W(n), then)
             rest == BlockFrom(block, n + 2, W(n + 1), then)
  <2>1. n \in 0..N /\ n + 1 \in 1..N /\ n + 1 \in 0..N /\ (n + 1) - 1 = n /\ (n + 1) + 1 = n + 2
        /\ ~(n + 1 > N)
    OBVIOUS
  <2>2. W(n + 1) = W(n) \cup Writes[t]
    <3>1. \A j : j \in 1..(n + 1) <=> j \in 1..n \/ j = n + 1
      BY <2>1
    <3> QED BY <3>1
  <2>3. W(n) \in SUBSET Vars
    <3>1. ASSUME NEW j \in 1..n PROVE Writes[block[j]] \subseteq Vars
      <4>1. j \in 1..N
        OBVIOUS
      <4> QED BY <1>3, <4>1, WritesAre
    <3> QED BY <3>1
  <2>4. Halted(n) => Halted(n + 1)
    <3>1. \A j \in 1..n : j \in 1..(n + 1)
      OBVIOUS
    <3> QED BY <3>1
  <2>5. ~Halted(n) /\ Halted(n + 1) => Flow[t] = HALT /\ ~Trusts(fun)
    <3>1. \A j \in 1..(n + 1) : j \in 1..n \/ j = n + 1
      BY <2>1
    <3> QED BY <3>1
  <2>6. CASE Halted(n)
    <3>1. Ex(n) \subseteq Ex(n + 1)
      <4> HIDE DEF Halted, There
      <4> QED BY <2>4, <2>6
    <3> HIDE DEF Ex
    <3> QED BY <3>1, LeadsThere
  <2>7. CASE ~Halted(n)
    <3>1. /\ t \in Statements /\ StmtCode[t] \in StmtCodes /\ StmtCode[t] \in Codes
          /\ g[n] \in Codes /\ g[n + 1] = g[n] \o StmtCode[t]
      BY <1>2, <1>3, <2>1, SmallCodes
    <3>2. /\ Placed(fun, p, StmtCode[t]) /\ p \in Nat
          /\ Len(g[n]) \in Nat /\ Len(StmtCode[t]) \in Nat
      <4>1. Placed(fun, at, g[n] \o StmtCode[t])
        BY <1>4, <2>1, <3>1
      <4> QED BY <3>1, <4>1, PlacedParts, Zenon
    <3>3. at + Len(g[n + 1]) = p + Len(StmtCode[t])
      <4>1. Len(g[n + 1]) = Len(g[n]) + Len(StmtCode[t])
        BY <3>1, ConcatCodes
      <4>2. PICK k, m \in Nat : k = Len(g[n]) /\ m = Len(StmtCode[t])
        BY <3>2
      <4>3. at + (k + m) = (at + k) + m
        OBVIOUS
      <4> QED BY <4>1, <4>2, <4>3
    <3>4. Has(fun, p, StmtCode[t][1]) /\ StmtCode[t][1].op \in Starts
      <4> HIDE DEF p, t
      <4>1. Len(StmtCode[t]) >= 1 /\ StmtCode[t][1].op \in Starts
        BY <3>1 DEF StmtCodes
      <4>2. 1 \in 1..Len(StmtCode[t]) /\ p + 1 - 1 = p
        BY <3>2, <4>1
      <4> QED BY <3>2, <4>1, <4>2 DEF Placed
    <3>5. td = [item |-> "block", block |-> block, i |-> n + 1, written |-> W(n), then |-> then]
      <4> HIDE DEF W
      <4> QED BY <1>1, <2>1 DEF BlockFrom
    <3>6. /\ td.item = "block" /\ td.block = block /\ td.i = n + 1
          /\ td.written = W(n) /\ td.then = then
      <4> HIDE DEF W, td
      <4> QED BY <3>5
    <3>7. Unfolded(td) = Stmt(t, W(n), rest)
      <4>1. Unfolded(td) = Stmt(td.block[td.i], td.written,
                                BlockFrom(td.block, td.i + 1,
                                          td.written \cup Writes[td.block[td.i]], td.then))
        <5> HIDE DEF td
        <5> QED BY <3>6 DEF Unfolded
      <4> HIDE DEF W, td
      <4> QED BY <2>1, <2>2, <3>6, <4>1
    <3>8. Noted(td) = {}
      <4> HIDE DEF td
      <4> QED BY <3>6 DEF Noted, Marked
    <3>9. Unreachable(td.block, td.i) => Trusts(fun)
      <4>1. SUFFICES ASSUME Unreachable(block, n + 1) PROVE Trusts(fun)
        <5> HIDE DEF td
        <5> QED BY <3>6
      <4>2. n + 1 > 1 /\ Flow[block[(n + 1) - 1]] = HALT
        BY <4>1 DEF Unreachable
      <4>3. n \in 1..n /\ Flow[block[n]] = HALT
        BY <2>1, <4>2
      <4> QED BY <2>7, <4>3
    <3>10. Leads(fun, There(n), At(p, <<>>, Stmt(t, W(n), rest), marked, lo, W(n)))
      <4>1. <<>> \in Stacks
        BY EmptySeq DEF Stacks
      <4>2. FitsToUnfold(StmtCode[t][1], <<>>, lo)
        BY <3>4 DEF FitsToUnfold
      <4>3. td.item \in Parts /\ marked \cup Noted(td) = marked
        BY <3>6, <3>8 DEF Parts
      <4> DEFINE i == StmtCode[t][1]
                 V == W(n)
      <4>5. FitsToUnfold(i, <<>>, lo) /\ Has(fun, p, i)
        BY <3>4, <4>2
      <4> HIDE DEF W, p, td, i, t, V
      <4>4. Steps(fun, At(p, <<>>, td, marked, lo, V),
                       At(p, <<>>, Unfolded(td), marked \cup Noted(td), lo, V))
        BY <3>9, <4>1, <4>3, <4>5, UnfoldStep
      <4>6. Leads(fun, At(p, <<>>, td, marked, lo, V), At(p, <<>>, Unfolded(td), marked, lo, V))
        BY <4>3, <4>4, LeadsStep
      <4> QED BY <3>7, <4>6 DEF V, p, td
    <3>11. Leads(fun, At(p, <<>>, Stmt(t, W(n), rest), marked, lo, W(n)),
                 Behind(fun, Flow[t], There(n + 1)))
      <4>1. RunsWell(fun, t) /\ (WhileHalts[t] => Trusts(fun))
        BY <1>1, <2>1
      <4>2. MayRun(fun, Flow[t], marked)
        <5>1. Flow[t] # CONTINUE => FlowOf(block) # CONTINUE
          BY <1>1, <2>1, BlockFlowIs
        <5> QED BY <5>1 DEF MayRun
      <4> DEFINE V == W(n)
      <4>3. There(n + 1) = At(p + Len(StmtCode[t]), <<>>, rest, marked, lo, V \cup Writes[t])
        <5> HIDE DEF W
        <5> QED BY <2>1, <2>2, <3>3
      <4>4. V \in SUBSET Vars
        BY <2>3
      <4> HIDE DEF W, p, t, V, rest, There
      <4>5. Leads(fun, At(p, <<>>, Stmt(t, V, rest), marked, lo, V),
                  Behind(fun, Flow[t], At(p + Len(StmtCode[t]), <<>>, rest, marked, lo,
                                          V \cup Writes[t])))
        BY <3>2, <4>1, <4>2, <4>4 DEF RunsWell
      <4> QED BY <4>3, <4>5 DEF V
    <3>12. Behind(fun, Flow[t], There(n + 1)) \subseteq Ex(n + 1)
      <4> HIDE DEF There, Halted, t
      <4> QED BY <2>5, <2>7 DEF Behind
    <3>13. Ex(n) = There(n)
      <4> HIDE DEF There, Halted
      <4> QED BY <2>7
    <3> HIDE DEF Ex, There, W, p, t, rest
    <3> QED BY <3>10, <3>11, <3>12, <3>13, LeadsThrough, LeadsMore
  <2> QED BY <2>6, <2>7
<1>7. N \in S
  <2> HIDE DEF Ex, Start
  <2>1. ASSUME NEW n \in 0..(N - 1), n \in S PROVE n + 1 \in S
    <3>1. n + 1 \in 0..N
      OBVIOUS
    <3> QED BY <1>6, <2>1, <3>1, LeadsThrough
  <2>2. \A n \in 0..N : n \in S
    <3> HIDE DEF S
    <3> QED BY <1>5, <2>1, UpFromZero
  <2> QED BY <2>2
<1>8. Ex(N) \subseteq Behind(fun, FlowOf(block),
                             At(at + Len(BlockCode(block)), <<>>, then, marked, lo,
                                w \cup WritesOf(block)))
  <2>1. W(N) = w \cup WritesOf(block)
    BY <1>1 DEF WritesOf
  <2>2. BlockFrom(block, N + 1, W(N), then) = then
    <3>1. N + 1 > Len(block)
      BY <1>1
    <3> HIDE DEF W
    <3> QED BY <3>1 DEF BlockFrom
  <2>3. There(N) = At(at + Len(BlockCode(block)), <<>>, then, marked, lo, w \cup WritesOf(block))
    <3> HIDE DEF W
    <3> QED BY <1>2, <2>1, <2>2
  <2>4. FlowOf(block) = HALT /\ ~Trusts(fun) => Halted(N)
    BY <1>1, BlockFlowIs
  <2> HIDE DEF There, Halted
  <2> QED BY <2>3, <2>4 DEF Behind
<1>9. Leads(fun, Start, Ex(N))
  BY <1>7
<1> DEFINE X == Behind(fun, FlowOf(block), At(at + Len(BlockCode(block)), <<>>, then, marked,
                                              lo, w \cup WritesOf(block)))
<1>10. Ex(N) \subseteq X /\ Start \subseteq Start
  BY <1>8
<1>11. Leads(fun, Start, X)
  <2> HIDE DEF Ex, X, Start
  <2> QED BY <1>9, <1>10, LeadsMore
<1> QED BY <1>11

(* A step, and a run from there.                                           *)
LEMMA StepThen ==
  ASSUME NEW fun, NEW A, NEW B, NEW X, Steps(fun, A, B), Leads(fun, B, X)
  PROVE  Leads(fun, A, X)
BY LeadsStep, LeadsThrough

(* Between two statements the stack is empty but for the selectors of      *)
(* Select.                                                                 *)
LEMMA NoStack == <<>> \in Stacks
BY EmptySeq DEF Stacks

(* A statement is unfolded before its code is run.                         *)
Once(s) == IF InfiniteLoop(s) THEN {"infinite"} ELSE {}

(* What a statement means is left to do, and a loop that is infinite is    *)
(* marked.                                                                 *)
LEMMA UnfoldStmt ==
  ASSUME NEW fun, NEW s \in Statements, NEW at \in Nat, Placed(fun, at, StmtCode[s]),
         NEW w, NEW then, NEW marked, NEW lo, NEW hi
  PROVE  Steps(fun, At(at, <<>>, Stmt(s, w, then), marked, lo, hi),
                    At(at, <<>>, StmtMeaning(s, w, then), marked \cup Once(s), lo, hi))
<1>1. PICK i, td : i = StmtCode[s][1] /\ td = Stmt(s, w, then)
  OBVIOUS
<1>2. Has(fun, at, i) /\ i.op \in Starts
  <2>1. Len(StmtCode[s]) >= 1 /\ StmtCode[s] \in Codes /\ i.op \in Starts
    BY <1>1, StmtCodeIs DEF StmtCodes
  <2>2. Len(StmtCode[s]) \in Nat
    BY <2>1, ConcatCodes
  <2>3. 1 \in 1..Len(StmtCode[s]) /\ at + 1 - 1 = at
    BY <2>1, <2>2
  <2> QED BY <1>1, <2>1, <2>3 DEF Placed
<1>3. td.item = "stmt" /\ td.s = s /\ td.written = w /\ td.then = then
  BY <1>1 DEF Stmt
<1>4. td.item \in Parts /\ FitsToUnfold(i, <<>>, lo)
  BY <1>2, <1>3 DEF Parts, FitsToUnfold
<1>5. td.item # "block"
  BY <1>3
<1>6. Unfolded(td) = StmtMeaning(s, w, then)
  BY <1>3 DEF Unfolded
<1>7. Noted(td) = Once(s)
  BY <1>3 DEF Noted, Marked, Once
<1>8. Steps(fun, At(at, <<>>, td, marked, lo, hi),
                 At(at, <<>>, Unfolded(td), marked \cup Noted(td), lo, hi))
  BY <1>2, <1>4, <1>5, NoStack, UnfoldStep
<1> QED BY <1>1, <1>6, <1>7, <1>8

(* A statement that assigns a local writes it.                             *)
LEMMA WritesVar ==
  ASSUME NEW s \in Statements, s.k \in {"set", "call", "for", "foreach"}
  PROVE  s.v \in Writes[s]
BY WritesAre DEF StmtWrites

(* The parts of a statement's code.                                        *)
LEMMA ThreeParts ==
  ASSUME NEW fun, NEW at \in Nat, NEW a \in Codes, NEW b \in Codes, NEW c \in Codes,
         Placed(fun, at, (a \o b) \o c)
  PROVE  /\ Placed(fun, at, a) /\ Placed(fun, at + Len(a), b)
         /\ Placed(fun, at + Len(a) + Len(b), c)
         /\ Len(a) \in Nat /\ Len(b) \in Nat /\ Len(c) \in Nat
         /\ (a \o b) \o c \in Codes
         /\ Len((a \o b) \o c) = Len(a) + Len(b) + Len(c)
<1>1. PICK d \in Codes : d = a \o b
  BY ConcatCodes
<1>2. Placed(fun, at, d \o c)
  BY <1>1
<1>3. /\ Placed(fun, at, d) /\ Placed(fun, at + Len(d), c)
      /\ d \o c \in Codes /\ Len(d \o c) = Len(d) + Len(c)
  BY <1>2, ConcatCodes, PlacedParts, Zenon
<1>4. /\ Placed(fun, at, a) /\ Placed(fun, at + Len(a), b)
      /\ Len(a) \in Nat /\ Len(b) \in Nat /\ Len(d) = Len(a) + Len(b)
  <2>1. Placed(fun, at, a \o b)
    BY <1>1, <1>3
  <2> QED BY <1>1, <2>1, ConcatCodes, PlacedParts, Zenon
<1>5. Len(c) \in Nat
  BY ConcatCodes
<1>6. at + Len(d) = at + Len(a) + Len(b)
  <2>1. PICK k, m \in Nat : k = Len(a) /\ m = Len(b)
    BY <1>4
  <2>2. at + (k + m) = at + k + m
    OBVIOUS
  <2> QED BY <1>4, <2>1, <2>2
<1> QED BY <1>1, <1>3, <1>4, <1>5, <1>6

(* An expression and an instruction behind it.                             *)
LEMMA ExprThenOp ==
  ASSUME NEW fun, NEW at \in Nat, NEW e \in Exprs, NEW i \in Insts,
         Placed(fun, at, ExprCode(e) \o <<i>>)
  PROVE  /\ Placed(fun, at, ExprCode(e)) /\ Has(fun, at + 1, i)
         /\ Len(ExprCode(e) \o <<i>>) = 2
<1>1. ExprCode(e) \in Codes /\ Len(ExprCode(e)) = 1 /\ <<i>> \in Codes /\ Len(<<i>>) = 1
  BY ExprCodeIs, SmallCodes
<1>2. Placed(fun, at, ExprCode(e)) /\ Placed(fun, at + Len(ExprCode(e)), <<i>>)
  BY <1>1, PlacedParts, Zenon
<1>3. at + 1 \in Nat /\ Placed(fun, at + 1, <<i>>)
  BY <1>1, <1>2
<1>4. Has(fun, at + 1, i)
  BY <1>3, PlacedSmall, Zenon
<1>5. Len(ExprCode(e) \o <<i>>) = Len(ExprCode(e)) + Len(<<i>>)
  BY <1>1, ConcatCodes, Zenon
<1> QED BY <1>1, <1>2, <1>4, <1>5

(* The code of an assignment.                                              *)
LEMMA SetCodeIs ==
  ASSUME NEW fun, NEW at \in Nat, NEW v \in Names, NEW e \in Exprs,
         Placed(fun, at, SetCode(v, e))
  PROVE  /\ Has(fun, at, LocalRef(v)) /\ Placed(fun, at + 1, ExprCode(e))
         /\ Has(fun, at + 2, Op("store"))
         /\ SetCode(v, e) \in Codes /\ Len(SetCode(v, e)) = 3
<1>1. LocalRef(v) \in Insts /\ Op("store") \in Insts
  BY OpsAre DEF OpNames
<1>2. PICK a, b, c \in Codes : a = <<LocalRef(v)>> /\ b = ExprCode(e) /\ c = <<Op("store")>>
  BY <1>1, ExprCodeIs, SmallCodes
<1>3. Len(a) = 1 /\ Len(b) = 1 /\ Len(c) = 1
  BY <1>1, <1>2, ExprCodeIs, SmallCodes
<1>4. SetCode(v, e) = (a \o b) \o c
  BY <1>2 DEF SetCode
<1>5. /\ Placed(fun, at, a) /\ Placed(fun, at + Len(a), b)
      /\ Placed(fun, at + Len(a) + Len(b), c)
      /\ (a \o b) \o c \in Codes
      /\ Len((a \o b) \o c) = Len(a) + Len(b) + Len(c)
  <2>1. Placed(fun, at, (a \o b) \o c)
    BY <1>4
  <2> QED BY <2>1, ThreeParts
<1>6. at + 1 + 1 = at + 2 /\ at + 2 \in Nat /\ 1 + 1 + 1 = 3
  OBVIOUS
<1>7. Placed(fun, at + 1, b) /\ Placed(fun, at + 2, c) /\ Len(SetCode(v, e)) = 3
  BY <1>3, <1>4, <1>5, <1>6
<1> QED BY <1>2, <1>4, <1>5, <1>6, <1>7, PlacedSmall, Zenon

(* Display, Set, Call and Return run well.                                 *)
LEMMA SimpleRuns ==
  ASSUME NEW fun, NEW s \in Statements, s.k \in {"display", "set", "call", "return"}
  PROVE  RunsWell(fun, s)
<1>1. IsStatement(s, Seq(Statements))
  BY AllAreStatements
<1>2. Flow[s] = IF s.k = "return" THEN HALT ELSE CONTINUE
  BY FlowIs DEF StmtFlow, Branches
<1>3. CONTINUE # HALT
  BY DEF CONTINUE, HALT
<1>4. Once(s) = {}
  BY DEF Once, InfiniteLoop
<1> SUFFICES
      ASSUME NEW at \in Nat, NEW lo \in SUBSET Names, NEW w \in SUBSET Vars,
             NEW then, NEW marked,
             Placed(fun, at, StmtCode[s]), MayRun(fun, Flow[s], marked)
      PROVE  Leads(fun, At(at, <<>>, Stmt(s, w, then), marked, lo, w),
                   Behind(fun, Flow[s], At(at + Len(StmtCode[s]), <<>>, then, marked, lo,
                                           w \cup Writes[s])))
  BY DEF RunsWell
<1> DEFINE X == Behind(fun, Flow[s], At(at + Len(StmtCode[s]), <<>>, then, marked, lo,
                                        w \cup Writes[s]))
           A == At(at, <<>>, Stmt(s, w, then), marked, lo, w)
           M == At(at, <<>>, StmtMeaning(s, w, then), marked, lo, w)
<1>5. Steps(fun, A, M)
  <2>1. marked \cup Once(s) = marked
    BY <1>4
  <2> QED BY <2>1, UnfoldStmt
<1>6. StmtCode[s] = CodeWith(s, CodesOf(s))
  BY StmtCodeIs
<1>7. at + 1 \in Nat /\ at + 1 + 1 = at + 2 /\ at + 2 + 1 = at + 3 /\ w \subseteq w \cup Writes[s]
  OBVIOUS
<1>8. ASSUME NEW hi, hi \subseteq w \cup Writes[s], s.k # "return"
      PROVE  At(at + Len(StmtCode[s]), <<>>, then, marked, lo, hi) \subseteq X
  BY <1>2, <1>3, <1>8, AtGrows DEF Behind
<1> HIDE DEF X
<1>9. CASE s.k = "display"
  <2> DEFINE td == Effect("display", "", then)
             B == At(at + 1, Push(<<>>, Cell(s.e)), td, marked, lo, w)
             C == At(at + 2, <<>>, then, marked, lo, w)
  <2>1. s.e \in Exprs /\ Op("display") \in Insts
    BY <1>1, <1>9, OpsAre DEF IsStatement, OpNames
  <2>2. StmtCode[s] = ExprCode(s.e) \o <<Op("display")>>
    BY <1>6, <1>9 DEF CodeWith, DisplayCode
  <2>3. Placed(fun, at, ExprCode(s.e)) /\ Has(fun, at + 1, Op("display")) /\ Len(StmtCode[s]) = 2
    BY <2>1, <2>2, ExprThenOp
  <2>4. StmtMeaning(s, w, then) = Evaluated(s.e, w, td)
    BY <1>9 DEF StmtMeaning
  <2>5. Cell(s.e) \in Values
    BY <2>1, CellsAre
  <2>6. Steps(fun, M, B)
    <3> HIDE DEF td
    <3> QED BY <2>1, <2>3, <2>4, NoStack, EvalStep
  <2>7. Steps(fun, B, C)
    <3>1. Steps(fun, B, At(at + 1 + 1, <<>>, then, marked, lo, w))
      BY <2>3, <2>5, NoStack, DisplayStep
    <3> QED BY <1>7, <3>1
  <2>8. Leads(fun, C, X)
    BY <1>7, <1>8, <1>9, <2>3, LeadsThere
  <2> HIDE DEF A, B, C, M
  <2>9. Leads(fun, A, X)
    BY <1>5, <2>6, <2>7, <2>8, StepThen
  <2> QED BY <2>9 DEF A, X
<1>10. CASE s.k = "set"
  <2> DEFINE td == Effect("write", s.v, then)
             B == At(at + 1, Push(<<>>, Ref(s.v)), Evaluated(s.e, w, td), marked, lo, w)
             C == At(at + 2, Push(Push(<<>>, Ref(s.v)), Cell(s.e)), td, marked, lo, w)
             D == At(at + 3, <<>>, then, marked, lo \cup {s.v}, w \cup {s.v})
  <2>1. s.e \in Exprs /\ s.v \in Vars /\ s.v \in Names
    BY <1>1, <1>10 DEF IsStatement, Names
  <2>2. StmtCode[s] = SetCode(s.v, s.e)
    BY <1>6, <1>10 DEF CodeWith
  <2>3. /\ Has(fun, at, LocalRef(s.v)) /\ Placed(fun, at + 1, ExprCode(s.e))
        /\ Has(fun, at + 2, Op("store")) /\ Len(StmtCode[s]) = 3
    BY <2>1, <2>2, SetCodeIs
  <2>4. StmtMeaning(s, w, then) = Evaluated(s.e, w, td)
    BY <1>10 DEF StmtMeaning
  <2>5. Cell(s.e) \in Values /\ Push(<<>>, Ref(s.v)) \in Stacks
    BY <2>1, CellsAre, NoStack, PushIs
  <2>10. Evaluated(s.e, w, td).item \notin Parts
    BY DEF Evaluated, Effect, Parts
  <2>6. Steps(fun, M, B)
    <3> HIDE DEF td
    <3> QED BY <2>3, <2>4, <2>10, NoStack, PushStep
  <2>7. Steps(fun, B, C)
    <3> HIDE DEF td
    <3>1. Steps(fun, B, At(at + 1 + 1, Push(Push(<<>>, Ref(s.v)), Cell(s.e)), td, marked, lo, w))
      BY <1>7, <2>1, <2>3, <2>5, EvalStep
    <3> QED BY <1>7, <3>1
  <2>8. Steps(fun, C, D)
    <3>1. Written(s.v, w) = w \cup {s.v}
      BY <2>1 DEF Written
    <3>2. Steps(fun, C, At(at + 2 + 1, <<>>, then, marked, lo \cup {s.v}, Written(s.v, w)))
      BY <2>1, <2>3, <2>5, NoStack, StoreStep
    <3> QED BY <1>7, <3>1, <3>2
  <2>9. Leads(fun, D, X)
    <3>1. w \cup {s.v} \subseteq w \cup Writes[s]
      BY <1>10, WritesVar
    <3>2. D \subseteq At(at + 3, <<>>, then, marked, lo, w \cup {s.v})
      BY AtGrows
    <3>3. At(at + 3, <<>>, then, marked, lo, w \cup {s.v}) \subseteq X
      BY <1>8, <1>10, <2>3, <3>1
    <3> HIDE DEF D
    <3>4. D \subseteq X
      BY <3>2, <3>3
    <3> QED BY <3>4, LeadsThere
  <2> HIDE DEF A, B, C, D, M
  <2>11. Leads(fun, A, X)
    BY <1>5, <2>6, <2>7, <2>8, <2>9, StepThen
  <2> QED BY <2>11 DEF A, X
<1>11. CASE s.k = "call"
  <2> DEFINE B == At(at + 1, Push(<<>>, Ref(s.v)), Effect("pass", s.v, then), marked, lo, w)
             C == At(at + 2, <<>>, then, marked, lo, w \cup {s.v})
  <2>1. s.v \in Vars /\ s.v \in Names /\ LocalRef(s.v) \in Insts /\ Op("call") \in Insts
    BY <1>1, <1>11, OpsAre DEF IsStatement, Names, OpNames
  <2>2. StmtCode[s] = <<LocalRef(s.v), Op("call")>>
    BY <1>6, <1>11 DEF CodeWith, CallCode
  <2>3. Has(fun, at, LocalRef(s.v)) /\ Has(fun, at + 1, Op("call")) /\ Len(StmtCode[s]) = 2
    BY <2>2, PlacedSmall
  <2>4. StmtMeaning(s, w, then) = Effect("pass", s.v, then)
    BY <1>11 DEF StmtMeaning
  <2>5. Effect("pass", s.v, then).item \notin Parts
    BY DEF Effect, Parts
  <2>6. Steps(fun, M, B)
    BY <2>3, <2>4, <2>5, NoStack, PushStep
  <2>7. Steps(fun, B, C)
    <3>1. Steps(fun, B, At(at + 1 + 1, <<>>, then, marked, lo, w \cup {s.v}))
      BY <2>1, <2>3, NoStack, CallStep
    <3> QED BY <1>7, <3>1
  <2>8. Leads(fun, C, X)
    <3>1. w \cup {s.v} \subseteq w \cup Writes[s]
      BY <1>11, WritesVar
    <3> QED BY <1>8, <1>11, <2>3, <3>1, LeadsThere
  <2> HIDE DEF A, B, C, M
  <2>9. Leads(fun, A, X)
    BY <1>5, <2>6, <2>7, <2>8, StepThen
  <2> QED BY <2>9 DEF A, X
<1>12. CASE s.k = "return"
  <2> DEFINE td == Effect("return", "", Done)
             B == At(at + 1, Push(<<>>, Cell(s.e)), td, marked, lo, w)
  <2>1. s.e \in Exprs /\ Op("return") \in Insts
    BY <1>1, <1>12, OpsAre DEF IsStatement, OpNames
  <2>2. StmtCode[s] = ExprCode(s.e) \o <<Op("return")>>
    BY <1>6, <1>12 DEF CodeWith, ReturnCode
  <2>3. Placed(fun, at, ExprCode(s.e)) /\ Has(fun, at + 1, Op("return"))
    BY <2>1, <2>2, ExprThenOp
  <2>4. StmtMeaning(s, w, then) = Evaluated(s.e, w, td)
    BY <1>12 DEF StmtMeaning
  <2>5. Cell(s.e) \in Values
    BY <2>1, CellsAre
  <2>6. Steps(fun, M, B)
    <3> HIDE DEF td
    <3> QED BY <2>1, <2>3, <2>4, NoStack, EvalStep
  <2>7. Steps(fun, B, {})
    <3>1. FlowOf(fun) # CONTINUE /\ ~Endless(marked)
      BY <1>2, <1>3, <1>12 DEF MayRun
    <3> QED BY <2>3, <2>5, <3>1, ReturnStep
  <2>8. Leads(fun, {}, X)
    BY LeadsThere
  <2> HIDE DEF A, B, M
  <2>9. Leads(fun, A, X)
    BY <1>5, <2>6, <2>7, <2>8, StepThen
  <2> QED BY <2>9 DEF A, X
<1> QED BY <1>9, <1>10, <1>11, <1>12

(* A loop, its block and their code.                                       *)
LEMMA LoopIs ==
  ASSUME NEW s \in Statements, s.k \in Loops
  PROVE  /\ s.block \in Seq(Statements) /\ BlockCode(s.block) \in Codes
         /\ Len(BlockCode(s.block)) \in Nat
         /\ CodesOf(s)[1] = BlockCode(s.block)
         /\ FlowOf(s.block) \in Flows
         /\ Flow[s] = CASE s.k = "do" -> DoFlow(s, FlowOf(s.block))
                        [] s.k = "while" -> WhileFlow(s, FlowOf(s.block))
                        [] s.k \in {"for", "foreach"} -> ForFlow(FlowOf(s.block))
         /\ WritesOf(s.block) \subseteq Writes[s]
         /\ \A j \in DOMAIN s.block : WhileHalts[s.block[j]] => WhileHalts[s]
<1>1. PICK b : b = s.block /\ Blocks(s) = <<b>>
  BY AllAreStatements, BlocksAre
<1>2. 1 \in 1..Len(Blocks(s)) /\ Blocks(s)[1] = b /\ DOMAIN Blocks(s) = {1}
  BY <1>1
<1>3. /\ b \in Seq(Statements) /\ FlowsOf(s)[1] = FlowOf(b)
      /\ WritesOf(b) \subseteq Writes[s]
      /\ \A j \in DOMAIN b : WhileHalts[b[j]] => WhileHalts[s]
  BY <1>2, OfBlockIs
<1>4. CodesOf(s)[1] = BlockCode(b)
  BY <1>2 DEF CodesOf
<1>5. BlockCode(b) \in Codes /\ Len(BlockCode(b)) \in Nat
  BY <1>3, BlockCodeIs, SmallCodes, ConcatCodes
<1>6. Flow[s] = StmtFlow(s, FlowsOf(s))
  BY FlowIs
<1>7. StmtFlow(s, FlowsOf(s)) = CASE s.k = "do" -> DoFlow(s, FlowOf(b))
                        [] s.k = "while" -> WhileFlow(s, FlowOf(b))
                        [] s.k \in {"for", "foreach"} -> ForFlow(FlowOf(b))
  BY <1>3 DEF StmtFlow, Loops, Branches
<1>8. FlowOf(b) \in Flows
  BY <1>3, BlockFlowIs
<1> QED BY <1>1, <1>3, <1>4, <1>5, <1>6, <1>7, <1>8

(* The code of a While: the test, the block, and the jump back to the      *)
(* test.                                                                   *)
LEMMA WhileCodeIs ==
  ASSUME NEW fun, NEW at \in Nat, NEW s \in Statements, s.k = "while",
         Placed(fun, at, StmtCode[s]), NEW L \in Nat, L = Len(BlockCode(s.block))
  PROVE  /\ Placed(fun, at, ExprCode(s.e)) /\ Has(fun, at + 1, JumpIf(FALSE, L + 2))
         /\ Placed(fun, at + 2, BlockCode(s.block)) /\ Has(fun, at + 2 + L, Jump(-(L + 2)))
         /\ Len(StmtCode[s]) = L + 3 /\ s.e \in Exprs
<1>1. s.e \in Exprs /\ s.k \in Loops
  BY AllAreStatements DEF IsStatement, Loops
<1>2. PICK b \in Codes : b = BlockCode(s.block) /\ CodesOf(s)[1] = b
  BY <1>1, LoopIs
<1>3. JumpFalse(L + 2) \in Insts
  BY OpsAre
<1>4. PICK e, t \in Codes : e = ExprCode(s.e) /\ t = <<JumpFalse(L + 2)>>
  BY <1>1, <1>3, ExprCodeIs, SmallCodes
<1>5. Len(e) = 1 /\ Len(t) = 1 /\ Len(b) = L
  BY <1>1, <1>2, <1>3, <1>4, ExprCodeIs, SmallCodes
<1>6. PICK loop \in Codes : loop = (e \o t) \o b
  BY ConcatCodes
<1>7. Len(loop) = L + 2
  <2>1. Len(e \o t) = 2 /\ e \o t \in Codes
    <3>1. Len(e \o t) = Len(e) + Len(t) /\ e \o t \in Codes
      BY ConcatCodes, Zenon
    <3> QED BY <1>5, <3>1
  <2>2. Len(loop) = Len(e \o t) + Len(b)
    BY <1>6, <2>1, ConcatCodes
  <2> QED BY <1>5, <2>1, <2>2
<1>8. Jump(-(L + 2)) \in Insts
  BY OpsAre
<1>9. PICK j \in Codes : j = <<Jump(-(L + 2))>> /\ Len(j) = 1
  BY <1>8, SmallCodes
<1>10. StmtCode[s] = loop \o j
  <2>1. StmtCode[s] = WhileCode(s, b)
    BY <1>2, StmtCodeIs DEF CodeWith
  <2> QED BY <1>2, <1>4, <1>5, <1>6, <1>7, <1>9, <2>1 DEF WhileCode
<1>11. Placed(fun, at, loop \o j)
  BY <1>10
<1>12. Placed(fun, at, loop) /\ Placed(fun, at + Len(loop), j)
       /\ Len(loop \o j) = Len(loop) + Len(j)
  BY <1>11, ConcatCodes, PlacedParts, Zenon
<1>13. Placed(fun, at, (e \o t) \o b)
  BY <1>6, <1>12
<1>14. /\ Placed(fun, at, e) /\ Placed(fun, at + Len(e), t)
       /\ Placed(fun, at + Len(e) + Len(t), b)
  BY <1>13, ThreeParts
<1>15. at + 1 + 1 = at + 2 /\ at + (L + 2) = at + 2 + L /\ (L + 2) + 1 = L + 3
       /\ at + 1 \in Nat /\ at + 2 + L \in Nat
  OBVIOUS
<1>16. /\ Placed(fun, at + 1, t) /\ Placed(fun, at + 2, b) /\ Placed(fun, at + 2 + L, j)
       /\ Len(StmtCode[s]) = L + 3
  BY <1>5, <1>7, <1>9, <1>10, <1>12, <1>14, <1>15
<1>17. Has(fun, at + 1, JumpFalse(L + 2)) /\ Has(fun, at + 2 + L, Jump(-(L + 2)))
  BY <1>4, <1>9, <1>15, <1>16, PlacedSmall, Zenon
<1> QED BY <1>1, <1>2, <1>4, <1>14, <1>16, <1>17 DEF JumpFalse

(* The code of a Do: the block, the test, and the jump back to the block.  *)
LEMMA DoCodeIs ==
  ASSUME NEW fun, NEW at \in Nat, NEW s \in Statements, s.k = "do",
         Placed(fun, at, StmtCode[s]), NEW L \in Nat, L = Len(BlockCode(s.block))
  PROVE  /\ Placed(fun, at, BlockCode(s.block)) /\ Placed(fun, at + L, ExprCode(s.e))
         /\ Has(fun, at + L + 1, JumpIf(~s.until, -(L + 1)))
         /\ Len(StmtCode[s]) = L + 2 /\ s.e \in Exprs /\ s.until \in BOOLEAN
<1>1. s.e \in Exprs /\ s.until \in BOOLEAN /\ s.k \in Loops
  BY AllAreStatements DEF IsStatement, Loops
<1>2. PICK b \in Codes : b = BlockCode(s.block) /\ CodesOf(s)[1] = b
  BY <1>1, LoopIs
<1>3. JumpIf(~s.until, -(L + 1)) \in Insts
  <2>1. (~s.until) \in BOOLEAN /\ -(L + 1) \in Int
    OBVIOUS
  <2> QED BY <2>1, OpsAre
<1>4. PICK e, t \in Codes : e = ExprCode(s.e) /\ t = <<JumpIf(~s.until, -(L + 1))>>
  BY <1>1, <1>3, ExprCodeIs, SmallCodes
<1>5. Len(e) = 1 /\ Len(t) = 1 /\ Len(b) = L
  BY <1>1, <1>2, <1>3, <1>4, ExprCodeIs, SmallCodes
<1>6. StmtCode[s] = (b \o e) \o t
  <2>1. StmtCode[s] = DoCode(s, b)
    BY <1>2, StmtCodeIs DEF CodeWith
  <2> QED BY <1>2, <1>4, <1>5, <2>1 DEF DoCode
<1>7. Placed(fun, at, (b \o e) \o t)
  BY <1>6
<1>8. /\ Placed(fun, at, b) /\ Placed(fun, at + Len(b), e)
      /\ Placed(fun, at + Len(b) + Len(e), t)
      /\ Len((b \o e) \o t) = Len(b) + Len(e) + Len(t)
  BY <1>7, ThreeParts
<1>9. L + 1 + 1 = L + 2 /\ at + L + 1 \in Nat
  OBVIOUS
<1>10. Placed(fun, at + L, e) /\ Placed(fun, at + L + 1, t) /\ Len(StmtCode[s]) = L + 2
  BY <1>5, <1>6, <1>8, <1>9
<1>11. Has(fun, at + L + 1, JumpIf(~s.until, -(L + 1)))
  BY <1>4, <1>9, <1>10, PlacedSmall, Zenon
<1> QED BY <1>1, <1>2, <1>4, <1>8, <1>10, <1>11

(* The outcome of a condition.                                             *)
LEMMA OutcomesAre ==
  ASSUME NEW e \in Exprs
  PROVE  /\ Cell(e) \in Values /\ (Cell(e).val = "any" \/ Cell(e).val = e.val)
         /\ e.val = "true"  => FALSE \notin Outcomes(Cell(e))
         /\ e.val = "false" => TRUE \notin Outcomes(Cell(e))
<1>1. Cell(e) \in Values /\ Cell(e).val = IF e.val = "local" THEN "any" ELSE e.val
  BY CellsAre
<1>2. e.val = "true" => Outcomes(Cell(e)) = {TRUE}
  BY <1>1 DEF Outcomes
<1>3. e.val = "false" => Outcomes(Cell(e)) = {FALSE}
  BY <1>1 DEF Outcomes
<1> QED BY <1>1, <1>2, <1>3

(* A While runs well if its block does: rounds until its condition is      *)
(* false.                                                                  *)
LEMMA WhileRuns ==
  ASSUME NEW fun, NEW s \in Statements, s.k = "while", BlockRunsWell(fun, s.block)
  PROVE  RunsWell(fun, s)
<1>1. PICK L \in Nat : L = Len(BlockCode(s.block))
  BY LoopIs DEF Loops
<1>2. /\ FlowOf(s.block) \in Flows /\ Flow[s] = WhileFlow(s, FlowOf(s.block))
      /\ WritesOf(s.block) \subseteq Writes[s] /\ s.block \in Seq(Statements)
      /\ \A j \in DOMAIN s.block : WhileHalts[s.block[j]] => WhileHalts[s]
  BY LoopIs DEF Loops
<1> SUFFICES
      ASSUME NEW at \in Nat, NEW lo \in SUBSET Names, NEW w \in SUBSET Vars,
             NEW then, NEW marked,
             Placed(fun, at, StmtCode[s]), MayRun(fun, Flow[s], marked),
             WhileHalts[s] => Trusts(fun)
      PROVE  Leads(fun, At(at, <<>>, Stmt(s, w, then), marked, lo, w),
                   Behind(fun, Flow[s], At(at + Len(StmtCode[s]), <<>>, then, marked, lo,
                                           w \cup Writes[s])))
  BY DEF RunsWell
<1>3. /\ Placed(fun, at, ExprCode(s.e)) /\ Has(fun, at + 1, JumpIf(FALSE, L + 2))
      /\ Placed(fun, at + 2, BlockCode(s.block)) /\ Has(fun, at + 2 + L, Jump(-(L + 2)))
      /\ Len(StmtCode[s]) = L + 3 /\ s.e \in Exprs
  BY <1>1, WhileCodeIs
<1> DEFINE X == Behind(fun, Flow[s], At(at + Len(StmtCode[s]), <<>>, then, marked, lo,
                                        w \cup Writes[s]))
           x == Cell(s.e)
           y == marked \cup Once(s)
           again == Stmt(s, w, then)
           yes == BlockFrom(s.block, 1, w, again)
           A == At(at, <<>>, again, marked, lo, w)
           H == At(at, <<>>, again, y, lo, w)
           M == At(at, <<>>, StmtMeaning(s, w, then), y, lo, w)
           T == At(at + 1, Push(<<>>, x), Test(s.e.val, yes, then), y, lo, w)
           In == IF TRUE \in Outcomes(x) THEN At(at + 2, <<>>, yes, y, lo, w) ELSE {}
           Out == IF FALSE \in Outcomes(x) THEN At(at + L + 3, <<>>, then, y, lo, w) ELSE {}
<1>4. Steps(fun, A, M)
  BY UnfoldStmt
<1>5. Steps(fun, H, M)
  <2>1. y \cup Once(s) = y
    OBVIOUS
  <2> HIDE DEF y
  <2> QED BY <2>1, UnfoldStmt
<1>6. Steps(fun, M, T)
  <2>1. StmtMeaning(s, w, then) = Evaluated(s.e, w, Test(s.e.val, yes, then))
    BY DEF StmtMeaning, BeforeTest
  <2> HIDE DEF y, yes
  <2> QED BY <1>3, <2>1, NoStack, EvalStep
<1>7. Steps(fun, T, In \cup Out)
  <2>1. x \in Values /\ (x.val = "any" \/ x.val = s.e.val)
    BY <1>3, OutcomesAre
  <2>2. at + 1 + (L + 2) = at + L + 3 /\ at + 1 + 1 = at + 2 /\ L + 2 \in Int /\ w \subseteq w
    OBVIOUS
  <2>3. TRUE \in Outcomes(x) => At(at + 2, <<>>, yes, y, lo, w) \subseteq In \cup Out
    OBVIOUS
  <2>4. FALSE \in Outcomes(x) => At(at + L + 3, <<>>, then, y, lo, w) \subseteq In \cup Out
    OBVIOUS
  <2> DEFINE B == In \cup Out
  <2> HIDE DEF y, yes, x, B
  <2>5. /\ TRUE \in Outcomes(x) => At(at + 1 + 1, <<>>, yes, y, lo, w) \subseteq B
        /\ FALSE \in Outcomes(x) => At(at + 1 + (L + 2), <<>>, then, y, lo, w) \subseteq B
    BY <2>2, <2>3, <2>4 DEF B
  <2>6. Steps(fun, T, B)
    BY <1>3, <2>1, <2>2, <2>5, NoStack, JumpIfStep
  <2> QED BY <2>6 DEF B
<1>8. Leads(fun, In, H)
  <2>1. CASE TRUE \notin Outcomes(x)
    BY <2>1, LeadsThere
  <2>2. CASE TRUE \in Outcomes(x)
    <3>1. MayRun(fun, FlowOf(s.block), y)
      <4>1. SUFFICES ASSUME FlowOf(s.block) # CONTINUE
                     PROVE  FlowOf(fun) # CONTINUE /\ ~Endless(y)
        BY DEF MayRun
      <4>2. Once(s) = {}
        BY <4>1 DEF Once, InfiniteLoop
      <4>3. y = marked
        BY <4>2
      <4>4. s.e.val # "false"
        BY <1>3, <2>2, OutcomesAre
      <4>5. Flow[s] # CONTINUE
        BY <1>2, <4>1, <4>4 DEF WhileFlow, CONTINUE, HALT
      <4> QED BY <4>3, <4>5 DEF MayRun
    <3>2. at + 2 \in Nat /\ \A j \in DOMAIN s.block : WhileHalts[s.block[j]] => Trusts(fun)
      BY <1>2
    <3> DEFINE Back == At(at + 2 + L, <<>>, again, y, lo, w \cup WritesOf(s.block))
    <3>3. Leads(fun, At(at + 2, <<>>, yes, y, lo, w), Behind(fun, FlowOf(s.block), Back))
      <4> HIDE DEF y, again
      <4> QED BY <1>1, <1>3, <3>1, <3>2 DEF BlockRunsWell
    <3>4. Steps(fun, Back, H)
      <4>1. at + 2 + L + (-(L + 2)) = at /\ -(L + 2) < 0 /\ -(L + 2) \in Int
        OBVIOUS
      <4> HIDE DEF y, again
      <4>2. Steps(fun, Back, At(at + 2 + L + (-(L + 2)), <<>>, again, y, lo, w))
        BY <1>3, <4>1, NoStack, JumpStep
      <4> QED BY <4>1, <4>2
    <3>5. Behind(fun, FlowOf(s.block), Back) \subseteq Back
      BY DEF Behind
    <3>6. In = At(at + 2, <<>>, yes, y, lo, w)
      BY <2>2
    <3> HIDE DEF Back, H, In, y, yes
    <3>7. Leads(fun, Behind(fun, FlowOf(s.block), Back), H)
      BY <3>4, <3>5, LeadsStep, LeadsMore
    <3> QED BY <3>3, <3>6, <3>7, LeadsThrough
  <2> QED BY <2>1, <2>2
<1>9. Out \subseteq X
  <2>1. SUFFICES ASSUME FALSE \in Outcomes(x)
                 PROVE  At(at + L + 3, <<>>, then, y, lo, w) \subseteq X
    <3> HIDE DEF x, y, X
    <3> QED OBVIOUS
  <2>2. s.e.val # "true"
    BY <1>3, <2>1, OutcomesAre
  <2>3. Once(s) = {}
    BY <2>2 DEF Once, InfiniteLoop
  <2>4. y = marked
    BY <2>3
  <2>5. Flow[s] # HALT \/ Trusts(fun)
    <3>1. CASE s.e.val = "false"
      BY <1>2, <3>1 DEF WhileFlow, CONTINUE, HALT
    <3>2. CASE s.e.val # "false"
      <4>1. Flow[s] = FlowOf(s.block)
        BY <1>2, <2>2, <3>2 DEF WhileFlow
      <4>2. FlowOf(s.block) = HALT => HaltsByWhile(s, OfBlocks(WhileHalts, s))
        BY <2>2, <3>2 DEF HaltsByWhile
      <4> QED BY <4>1, <4>2, WhileHaltsIs
    <3> QED BY <3>1, <3>2
  <2>6. X = At(at + Len(StmtCode[s]), <<>>, then, marked, lo, w \cup Writes[s])
    BY <2>5 DEF Behind
  <2>7. at + L + 3 = at + Len(StmtCode[s])
    BY <1>3
  <2>8. w \subseteq w \cup Writes[s] /\ lo \subseteq lo
    OBVIOUS
  <2>9. At(at + L + 3, <<>>, then, marked, lo, w)
          \subseteq At(at + L + 3, <<>>, then, marked, lo, w \cup Writes[s])
    BY <2>8, AtGrows
  <2> HIDE DEF X, y
  <2> QED BY <2>4, <2>6, <2>7, <2>9
<1>10. Leads(fun, A, X)
  <2> HIDE DEF A, H, M, T, In, Out, X
  <2>1. Leads(fun, In, H \cup X)
    BY <1>8, LeadsMore
  <2>2. Leads(fun, Out, H \cup X)
    BY <1>9, LeadsThere
  <2>3. Leads(fun, In \cup Out, H \cup X)
    BY <2>1, <2>2, LeadsEither
  <2>4. Leads(fun, M, H \cup X)
    BY <1>6, <1>7, <2>3, StepThen
  <2>5. Leads(fun, M, X)
    BY <1>5, <2>4, LeadsLoop
  <2> QED BY <1>4, <2>5, StepThen
<1> QED BY <1>10

(* A Do runs well if its block does: a round before each test.             *)
LEMMA DoRuns ==
  ASSUME NEW fun, NEW s \in Statements, s.k = "do", BlockRunsWell(fun, s.block)
  PROVE  RunsWell(fun, s)
<1>1. PICK L \in Nat : L = Len(BlockCode(s.block))
  BY LoopIs DEF Loops
<1>2. /\ FlowOf(s.block) \in Flows /\ Flow[s] = DoFlow(s, FlowOf(s.block))
      /\ WritesOf(s.block) \subseteq Writes[s] /\ s.block \in Seq(Statements)
      /\ \A j \in DOMAIN s.block : WhileHalts[s.block[j]] => WhileHalts[s]
  BY LoopIs DEF Loops
<1> SUFFICES
      ASSUME NEW at \in Nat, NEW lo \in SUBSET Names, NEW w \in SUBSET Vars,
             NEW then, NEW marked,
             Placed(fun, at, StmtCode[s]), MayRun(fun, Flow[s], marked),
             WhileHalts[s] => Trusts(fun)
      PROVE  Leads(fun, At(at, <<>>, Stmt(s, w, then), marked, lo, w),
                   Behind(fun, Flow[s], At(at + Len(StmtCode[s]), <<>>, then, marked, lo,
                                           w \cup Writes[s])))
  BY DEF RunsWell
<1>3. /\ Placed(fun, at, BlockCode(s.block)) /\ Placed(fun, at + L, ExprCode(s.e))
      /\ Has(fun, at + L + 1, JumpIf(~s.until, -(L + 1)))
      /\ Len(StmtCode[s]) = L + 2 /\ s.e \in Exprs /\ s.until \in BOOLEAN
  BY <1>1, DoCodeIs
<1> DEFINE X == Behind(fun, Flow[s], At(at + Len(StmtCode[s]), <<>>, then, marked, lo,
                                        w \cup Writes[s]))
           x == Cell(s.e)
           y == marked \cup Once(s)
           hi == w \cup WritesOf(s.block)
           again == Stmt(s, w, then)
           test == IF s.until THEN Test(s.e.val, then, again) ELSE Test(s.e.val, again, then)
           td == Evaluated(s.e, hi, test)
           A == At(at, <<>>, again, marked, lo, w)
           H == At(at, <<>>, again, y, lo, w)
           M == At(at, <<>>, StmtMeaning(s, w, then), y, lo, w)
           Cond == At(at + L, <<>>, td, y, lo, hi)
           T == At(at + L + 1, Push(<<>>, x), test, y, lo, hi)
           Out == IF s.until \in Outcomes(x) THEN At(at + L + 2, <<>>, then, y, lo, hi) ELSE {}
<1>4. Steps(fun, A, M)
  BY UnfoldStmt
<1>5. Steps(fun, H, M)
  <2>1. y \cup Once(s) = y
    OBVIOUS
  <2> HIDE DEF y
  <2> QED BY <2>1, UnfoldStmt
<1>6. FlowOf(s.block) # CONTINUE => Once(s) = {}
  BY DEF Once, InfiniteLoop
<1>7. Leads(fun, M, Behind(fun, FlowOf(s.block), Cond))
  <2>1. StmtMeaning(s, w, then) = BlockFrom(s.block, 1, w, td)
    BY DEF StmtMeaning, BeforeTest
  <2>2. MayRun(fun, FlowOf(s.block), y)
    <3>1. SUFFICES ASSUME FlowOf(s.block) # CONTINUE
                   PROVE  FlowOf(fun) # CONTINUE /\ ~Endless(y)
      BY DEF MayRun
    <3>2. y = marked
      BY <1>6, <3>1
    <3>3. Flow[s] # CONTINUE
      BY <1>2, <3>1 DEF DoFlow, CONTINUE, HALT
    <3> QED BY <3>2, <3>3 DEF MayRun
  <2>3. \A j \in DOMAIN s.block : WhileHalts[s.block[j]] => Trusts(fun)
    BY <1>2
  <2> HIDE DEF y, td
  <2> QED BY <1>1, <1>3, <2>1, <2>2, <2>3 DEF BlockRunsWell
<1>8. Steps(fun, Cond, T)
  <2>1. at + L \in Nat /\ hi \subseteq hi
    OBVIOUS
  <2> HIDE DEF y, test, hi
  <2> QED BY <1>3, <2>1, NoStack, EvalStep
<1>9. Steps(fun, T, H \cup Out)
  <2>1. x \in Values /\ (x.val = "any" \/ x.val = s.e.val)
    BY <1>3, OutcomesAre
  <2>2. at + L + 1 + (-(L + 1)) = at /\ at + L + 1 + 1 = at + L + 2
        /\ -(L + 1) \in Int /\ -(L + 1) < 0
    OBVIOUS
  <2>3. s.until \in Outcomes(x) => At(at + L + 2, <<>>, then, y, lo, hi) \subseteq H \cup Out
    <3> HIDE DEF x, y, hi, H
    <3> QED OBVIOUS
  <2>4. At(at, <<>>, again, y, lo, w) \subseteq H \cup Out
    OBVIOUS
  <2> DEFINE B == H \cup Out
             n == -(L + 1)
  <2>5. /\ s.until \in Outcomes(x) =>
             At(at + L + 1 + 1, <<>>, then, y, lo, hi) \subseteq B
        /\ At(at + L + 1 + n, <<>>, again, y, lo, w) \subseteq B
        /\ n \in Int /\ n < 0
    <3> HIDE DEF x, y, hi, H, Out
    <3> QED BY <2>2, <2>3, <2>4
  <2>6. Has(fun, at + L + 1, JumpIf(~s.until, n))
    BY <1>3
  <2>7. CASE s.until = TRUE
    <3>1. test = Test(s.e.val, then, again)
      BY <2>7
    <3>2. Has(fun, at + L + 1, JumpIf(FALSE, n))
      <4>1. (~s.until) = FALSE
        BY <2>7
      <4> HIDE DEF n
      <4> QED BY <2>6, <4>1
    <3> HIDE DEF x, y, hi, H, B, n, again
    <3>3. TRUE \in Outcomes(x) => At(at + L + 1 + 1, <<>>, then, y, lo, hi) \subseteq B
      BY <2>5, <2>7
    <3>4. Steps(fun, At(at + L + 1, Push(<<>>, x), Test(s.e.val, then, again), y, lo, hi), B)
      BY <2>1, <2>5, <3>2, <3>3, NoStack, JumpIfStep
    <3> QED BY <3>1, <3>4 DEF B, test
  <2>8. CASE s.until = FALSE
    <3>1. test = Test(s.e.val, again, then)
      BY <2>8
    <3>2. Has(fun, at + L + 1, JumpIf(TRUE, n))
      <4>1. (~s.until) = TRUE
        BY <2>8
      <4> HIDE DEF n
      <4> QED BY <2>6, <4>1
    <3> HIDE DEF x, y, hi, H, B, n, again
    <3>3. FALSE \in Outcomes(x) => At(at + L + 1 + 1, <<>>, then, y, lo, hi) \subseteq B
      BY <2>5, <2>8
    <3>4. Steps(fun, At(at + L + 1, Push(<<>>, x), Test(s.e.val, again, then), y, lo, hi), B)
      BY <2>1, <2>5, <3>2, <3>3, NoStack, JumpIfStep
    <3> QED BY <3>1, <3>4 DEF B, test
  <2> HIDE DEF T, H, Out
  <2> QED BY <1>3, <2>7, <2>8
<1>10. FlowOf(s.block) # HALT \/ Trusts(fun) => Out \subseteq X
  <2>1. SUFFICES ASSUME s.until \in Outcomes(x), FlowOf(s.block) # HALT \/ Trusts(fun)
                 PROVE  At(at + L + 2, <<>>, then, y, lo, hi) \subseteq X
    <3> HIDE DEF x, y, X, hi
    <3> QED OBVIOUS
  <2>2. ~InfiniteDo(s)
    <3>1. s.until = TRUE \/ s.until = FALSE
      BY <1>3
    <3> QED BY <1>3, <2>1, <3>1, OutcomesAre DEF InfiniteDo
  <2>3. Once(s) = {}
    BY <2>2 DEF Once, InfiniteLoop
  <2>4. y = marked
    BY <2>3
  <2>5. Flow[s] = FlowOf(s.block)
    BY <1>2, <2>2 DEF DoFlow
  <2>6. X = At(at + Len(StmtCode[s]), <<>>, then, marked, lo, w \cup Writes[s])
    BY <2>1, <2>5 DEF Behind
  <2>7. at + L + 2 = at + Len(StmtCode[s])
    BY <1>3
  <2>8. hi \subseteq w \cup Writes[s] /\ lo \subseteq lo
    BY <1>2
  <2> HIDE DEF X, y, hi
  <2>9. At(at + L + 2, <<>>, then, marked, lo, hi)
          \subseteq At(at + L + 2, <<>>, then, marked, lo, w \cup Writes[s])
    BY <2>8, AtGrows
  <2> QED BY <2>4, <2>6, <2>7, <2>9
<1> DEFINE BC == Behind(fun, FlowOf(s.block), Cond)
<1>11. BC = {} \/ (BC = Cond /\ Out \subseteq X)
  <2>1. CASE FlowOf(s.block) = HALT /\ ~Trusts(fun)
    BY <2>1 DEF Behind
  <2>2. CASE ~(FlowOf(s.block) = HALT /\ ~Trusts(fun))
    <3> HIDE DEF Out, X, Cond
    <3> QED BY <1>10, <2>2 DEF Behind
  <2> QED BY <2>1, <2>2
<1>12. Leads(fun, A, X)
  <2>1. Leads(fun, M, BC)
    BY <1>7
  <2> HIDE DEF A, H, M, T, Cond, Out, X, BC
  <2>2. Leads(fun, BC, H \cup X)
    <3>1. CASE BC = {}
      BY <3>1, LeadsThere
    <3>2. CASE BC = Cond /\ Out \subseteq X
      <4>1. Leads(fun, H \cup Out, H \cup X)
        BY <3>2, LeadsThere
      <4>2. Leads(fun, Cond, H \cup X)
        BY <1>8, <1>9, <4>1, StepThen
      <4> QED BY <3>2, <4>2
    <3> QED BY <1>11, <3>1, <3>2
  <2>3. Leads(fun, M, H \cup X)
    BY <2>1, <2>2, LeadsThrough
  <2>4. Leads(fun, M, X)
    BY <1>5, <2>3, LeadsLoop
  <2> QED BY <1>4, <2>4, StepThen
<1> QED BY <1>12

(* The code of a For: start, test, block, step, and the jump back to the   *)
(* test.                                                                   *)
LEMMA ForCodeIs ==
  ASSUME NEW fun, NEW at \in Nat, NEW s \in Statements, s.k = "for",
         Placed(fun, at, StmtCode[s]), NEW L \in Nat, L = Len(BlockCode(s.block))
  PROVE  /\ s.start \in Exprs /\ s.stop \in Exprs /\ s.v \in Vars
         /\ Has(fun, at, LocalRef(s.v)) /\ Has(fun, at + 1, Op("dup"))
         /\ Placed(fun, at + 2, ExprCode(s.start)) /\ Has(fun, at + 3, Op("store"))
         /\ Has(fun, at + 4, Op("deref")) /\ Placed(fun, at + 5, ExprCode(s.stop))
         /\ Has(fun, at + 6, Op("binOp")) /\ Has(fun, at + 7, JumpIf(FALSE, L + 5))
         /\ Placed(fun, at + 8, BlockCode(s.block))
         /\ Has(fun, at + 8 + L, LocalRef(s.v)) /\ Has(fun, at + 9 + L, Op("dup"))
         /\ Has(fun, at + 10 + L, Op("incr")) /\ Has(fun, at + 11 + L, Jump(-(L + 7)))
         /\ Len(StmtCode[s]) = L + 12
<1>1. s.start \in Exprs /\ s.stop \in Exprs /\ s.v \in Vars /\ s.v \in Names /\ s.k \in Loops
  BY AllAreStatements DEF IsStatement, Loops, Names
<1>2. PICK b \in Codes : b = BlockCode(s.block) /\ CodesOf(s)[1] = b
  BY <1>1, LoopIs
<1> DEFINE a1 == <<LocalRef(s.v), Op("dup")>>
           a2 == ExprCode(s.start)
           a3 == <<Op("store")>>
           t1 == <<Op("deref")>>
           t2 == ExprCode(s.stop)
           t3 == <<Op("binOp"), JumpFalse(L + 5)>>
           m  == <<LocalRef(s.v), Op("dup"), Op("incr")>>
           j  == <<Jump(-(L + 7))>>
           init == (a1 \o a2) \o a3
           test == (t1 \o t2) \o t3
           loop == (test \o b) \o m
<1>3. /\ a1 \in Codes /\ a2 \in Codes /\ a3 \in Codes /\ t1 \in Codes /\ t2 \in Codes
      /\ t3 \in Codes /\ m \in Codes /\ j \in Codes
  <2>1. /\ LocalRef(s.v) \in Insts /\ Op("dup") \in Insts /\ Op("store") \in Insts
        /\ Op("deref") \in Insts /\ Op("binOp") \in Insts /\ Op("incr") \in Insts
    BY <1>1, OpsAre DEF OpNames
  <2>2. JumpFalse(L + 5) \in Insts /\ Jump(-(L + 7)) \in Insts
    BY OpsAre
  <2> QED BY <1>1, <2>1, <2>2, ExprCodeIs, SmallCodes
<1>4. /\ Len(a1) = 2 /\ Len(a2) = 1 /\ Len(a3) = 1 /\ Len(t1) = 1 /\ Len(t2) = 1
      /\ Len(t3) = 2 /\ Len(m) = 3 /\ Len(j) = 1 /\ Len(b) = L
  BY <1>1, <1>2, ExprCodeIs
<1>5. StmtCode[s] = (init \o loop) \o <<Jump(-Len(loop))>>
  <2>1. StmtCode[s] = ForCode(s, b)
    BY <1>2, StmtCodeIs DEF CodeWith
  <2> QED BY <1>4, <2>1 DEF ForCode
<1> HIDE DEF a1, a2, a3, t1, t2, t3, m, j
<1>6. /\ init \in Codes /\ Len(init) = 4 /\ test \in Codes /\ Len(test) = 4
      /\ loop \in Codes /\ Len(loop) = L + 7
  <2>1. /\ a1 \o a2 \in Codes /\ t1 \o t2 \in Codes
        /\ Len(a1 \o a2) = Len(a1) + Len(a2) /\ Len(t1 \o t2) = Len(t1) + Len(t2)
    BY <1>3, ConcatCodes
  <2>2. /\ init \in Codes /\ Len(init) = Len(a1 \o a2) + Len(a3)
        /\ test \in Codes /\ Len(test) = Len(t1 \o t2) + Len(t3)
    BY <1>3, <2>1, ConcatCodes, Zenon
  <2>3. test \o b \in Codes /\ Len(test \o b) = Len(test) + Len(b)
    BY <2>2, ConcatCodes, Zenon
  <2>4. loop \in Codes /\ Len(loop) = Len(test \o b) + Len(m)
    BY <1>3, <2>3, ConcatCodes, Zenon
  <2> QED BY <1>4, <2>1, <2>2, <2>3, <2>4
<1>7. Placed(fun, at, (init \o loop) \o j)
  BY <1>5, <1>6 DEF j
<1> HIDE DEF init, test, loop
<1>8. /\ Placed(fun, at, init) /\ Placed(fun, at + Len(init), loop)
      /\ Placed(fun, at + Len(init) + Len(loop), j)
      /\ Len((init \o loop) \o j) = Len(init) + Len(loop) + Len(j)
  <2>1. init \in Codes /\ loop \in Codes /\ j \in Codes
    BY <1>3, <1>6
  <2> QED BY <1>7, <2>1, ThreeParts
<1>9. /\ at + 4 + (L + 7) = at + 11 + L /\ at + 11 + L \in Nat /\ 4 + (L + 7) + 1 = L + 12
      /\ at + 4 \in Nat /\ at + 4 + 4 = at + 8 /\ at + 8 \in Nat /\ at + 4 + 1 = at + 5
      /\ at + 5 + 1 = at + 6 /\ at + 6 \in Nat /\ at + 6 + 1 = at + 7
      /\ at + 8 + L \in Nat /\ at + 8 + L + 1 = at + 9 + L /\ at + 8 + L + 2 = at + 10 + L
      /\ at + 2 + 1 = at + 3 /\ at + 2 \in Nat /\ at + 3 \in Nat
  OBVIOUS
<1>10. Placed(fun, at + 4, loop) /\ Placed(fun, at + 11 + L, j) /\ Len(StmtCode[s]) = L + 12
  BY <1>4, <1>5, <1>6, <1>8, <1>9 DEF j
<1>11. /\ Has(fun, at, LocalRef(s.v)) /\ Has(fun, at + 1, Op("dup"))
       /\ Placed(fun, at + 2, a2) /\ Has(fun, at + 3, Op("store"))
  <2>1. Placed(fun, at, (a1 \o a2) \o a3)
    BY <1>8 DEF init
  <2>2. /\ Placed(fun, at, a1) /\ Placed(fun, at + Len(a1), a2)
        /\ Placed(fun, at + Len(a1) + Len(a2), a3)
    BY <1>3, <2>1, ThreeParts, Zenon
  <2>3. Placed(fun, at + 2, a2) /\ Placed(fun, at + 3, a3)
    BY <1>4, <1>9, <2>2
  <2>4. Placed(fun, at, <<LocalRef(s.v), Op("dup")>>) /\ Placed(fun, at + 3, <<Op("store")>>)
    BY <2>2, <2>3 DEF a1, a3
  <2> QED BY <1>9, <2>3, <2>4, PlacedSmall, Zenon
<1>12. /\ Placed(fun, at + 4, test) /\ Placed(fun, at + 8, b) /\ Placed(fun, at + 8 + L, m)
  <2>1. Placed(fun, at + 4, (test \o b) \o m)
    BY <1>10 DEF loop
  <2>2. /\ Placed(fun, at + 4, test) /\ Placed(fun, at + 4 + Len(test), b)
        /\ Placed(fun, at + 4 + Len(test) + Len(b), m)
    BY <1>3, <1>6, <1>9, <2>1, ThreeParts, Zenon
  <2> QED BY <1>4, <1>6, <1>9, <2>2
<1>13. /\ Has(fun, at + 4, Op("deref")) /\ Placed(fun, at + 5, t2)
       /\ Has(fun, at + 6, Op("binOp")) /\ Has(fun, at + 7, JumpIf(FALSE, L + 5))
  <2>1. Placed(fun, at + 4, (t1 \o t2) \o t3)
    BY <1>12 DEF test
  <2>2. /\ Placed(fun, at + 4, t1) /\ Placed(fun, at + 4 + Len(t1), t2)
        /\ Placed(fun, at + 4 + Len(t1) + Len(t2), t3)
    BY <1>3, <1>9, <2>1, ThreeParts, Zenon
  <2>3. Placed(fun, at + 5, t2) /\ Placed(fun, at + 6, t3)
    BY <1>4, <1>9, <2>2
  <2>4. Placed(fun, at + 4, <<Op("deref")>>)
        /\ Placed(fun, at + 6, <<Op("binOp"), JumpFalse(L + 5)>>)
    BY <2>2, <2>3 DEF t1, t3
  <2>5. /\ Has(fun, at + 4, Op("deref")) /\ Has(fun, at + 6, Op("binOp"))
        /\ Has(fun, at + 6 + 1, JumpFalse(L + 5))
    BY <1>9, <2>4, PlacedSmall, Zenon
  <2> QED BY <1>9, <2>3, <2>5 DEF JumpFalse
<1>14. /\ Has(fun, at + 8 + L, LocalRef(s.v)) /\ Has(fun, at + 9 + L, Op("dup"))
       /\ Has(fun, at + 10 + L, Op("incr"))
  <2>1. Placed(fun, at + 8 + L, <<LocalRef(s.v), Op("dup"), Op("incr")>>)
    BY <1>12 DEF m
  <2>2. /\ Has(fun, at + 8 + L, LocalRef(s.v)) /\ Has(fun, at + 8 + L + 1, Op("dup"))
        /\ Has(fun, at + 8 + L + 2, Op("incr"))
    BY <1>9, <2>1, PlacedSmall, Zenon
  <2> QED BY <1>9, <2>2
<1>15. Has(fun, at + 11 + L, Jump(-(L + 7)))
  <2>1. Placed(fun, at + 11 + L, <<Jump(-(L + 7))>>)
    BY <1>10 DEF j
  <2> QED BY <1>9, <2>1, PlacedSmall, Zenon
<1> QED BY <1>1, <1>2, <1>10, <1>11, <1>12, <1>13, <1>14, <1>15 DEF a2, t2

(* A For or a For Each may run no round.                                   *)
LEMMA ForFlowIs ==
  ASSUME NEW flow \in Flows
  PROVE  ForFlow(flow) # HALT /\ (flow # CONTINUE => ForFlow(flow) # CONTINUE)
BY DEF ForFlow, Alternatives, Flows, CONTINUE, MAYBE, HALT

(* A For runs well if its block does.                                      *)
LEMMA ForRuns ==
  ASSUME NEW fun, NEW s \in Statements, s.k = "for", BlockRunsWell(fun, s.block)
  PROVE  RunsWell(fun, s)
<1>1. PICK L \in Nat : L = Len(BlockCode(s.block))
  BY LoopIs DEF Loops
<1>2. /\ FlowOf(s.block) \in Flows /\ Flow[s] = ForFlow(FlowOf(s.block))
      /\ WritesOf(s.block) \subseteq Writes[s] /\ s.block \in Seq(Statements)
      /\ \A j \in DOMAIN s.block : WhileHalts[s.block[j]] => WhileHalts[s]
  BY LoopIs DEF Loops
<1> SUFFICES
      ASSUME NEW at \in Nat, NEW lo \in SUBSET Names, NEW w \in SUBSET Vars,
             NEW then, NEW marked,
             Placed(fun, at, StmtCode[s]), MayRun(fun, Flow[s], marked),
             WhileHalts[s] => Trusts(fun)
      PROVE  Leads(fun, At(at, <<>>, Stmt(s, w, then), marked, lo, w),
                   Behind(fun, Flow[s], At(at + Len(StmtCode[s]), <<>>, then, marked, lo,
                                           w \cup Writes[s])))
  BY DEF RunsWell
<1>3. /\ s.start \in Exprs /\ s.stop \in Exprs /\ s.v \in Vars
      /\ Has(fun, at, LocalRef(s.v)) /\ Has(fun, at + 1, Op("dup"))
      /\ Placed(fun, at + 2, ExprCode(s.start)) /\ Has(fun, at + 3, Op("store"))
      /\ Has(fun, at + 4, Op("deref")) /\ Placed(fun, at + 5, ExprCode(s.stop))
      /\ Has(fun, at + 6, Op("binOp")) /\ Has(fun, at + 7, JumpIf(FALSE, L + 5))
      /\ Placed(fun, at + 8, BlockCode(s.block))
      /\ Has(fun, at + 8 + L, LocalRef(s.v)) /\ Has(fun, at + 9 + L, Op("dup"))
      /\ Has(fun, at + 10 + L, Op("incr")) /\ Has(fun, at + 11 + L, Jump(-(L + 7)))
      /\ Len(StmtCode[s]) = L + 12
  BY <1>1, ForCodeIs
<1>4. /\ s.v \in Names /\ s.v \in Writes[s]
  BY <1>3, WritesVar DEF Names
<1>5. PICK r, any : r = Ref(s.v) /\ any = Val("any")
  OBVIOUS
<1>6. /\ r \in Refs /\ any \in Values /\ any.val = "any"
  BY <1>4, <1>5, CellsAre DEF Val
<1>7. /\ Push(<<>>, r) \in Stacks /\ Push(Push(<<>>, r), r) \in Stacks
      /\ Push(<<>>, any) \in Stacks
  BY <1>6, NoStack, PushIs
<1> DEFINE X == Behind(fun, Flow[s], At(at + Len(StmtCode[s]), <<>>, then, marked, lo,
                                        w \cup Writes[s]))
           x == Cell(s.start)
           z == Cell(s.stop)
           low == lo \cup {s.v}
           in == w \cup {s.v}
           again == Round(s, w, then)
           write == Effect("write", s.v, again)
           yes == BlockFrom(s.block, 1, in, write)
           test == Test("any", yes, then)
           stop == Evaluated(s.stop, in, test)
           round == Effect("deref", s.v, stop)
           first == Effect("write", s.v, round)
           start == Evaluated(s.start, w, first)
           A  == At(at, <<>>, Stmt(s, w, then), marked, lo, w)
           A0 == At(at, <<>>, start, marked, lo, w)
           A1 == At(at + 1, Push(<<>>, r), start, marked, lo, w)
           A2 == At(at + 2, Push(Push(<<>>, r), r), start, marked, lo, w)
           A3 == At(at + 3, Push(Push(Push(<<>>, r), r), x), first, marked, lo, w)
           H  == At(at + 4, Push(<<>>, r), again, marked, low, in)
           R  == At(at + 4, Push(<<>>, r), round, marked, low, in)
           R1 == At(at + 5, Push(<<>>, any), stop, marked, low, in)
           R2 == At(at + 6, Push(Push(<<>>, any), z), test, marked, low, in)
           R3 == At(at + 7, Push(<<>>, any), test, marked, low, in)
           In == At(at + 8, <<>>, yes, marked, low, in)
           Out == At(at + 12 + L, <<>>, then, marked, low, in)
           hi == in \cup WritesOf(s.block)
           B0 == At(at + 8 + L, <<>>, write, marked, low, hi)
           B1 == At(at + 9 + L, Push(<<>>, r), write, marked, low, hi)
           B2 == At(at + 10 + L, Push(Push(<<>>, r), r), write, marked, low, hi)
           B3 == At(at + 11 + L, Push(<<>>, r), again, marked, low, Written(s.v, hi))
<1>8. RoundMeaning(s, w, then) = round /\ StmtMeaning(s, w, then) = start
  BY DEF RoundMeaning, StmtMeaning, BeforeBlock
<1>9. /\ at + 1 + 1 = at + 2 /\ at + 2 + 1 = at + 3 /\ at + 3 + 1 = at + 4 /\ at + 4 + 1 = at + 5
      /\ at + 5 + 1 = at + 6 /\ at + 6 + 1 = at + 7 /\ at + 7 + 1 = at + 8
      /\ at + 7 + (L + 5) = at + 12 + L /\ at + 8 + L + 1 = at + 9 + L
      /\ at + 9 + L + 1 = at + 10 + L /\ at + 10 + L + 1 = at + 11 + L
      /\ at + 11 + L + (-(L + 7)) = at + 4 /\ -(L + 7) \in Int /\ -(L + 7) < 0 /\ L + 5 \in Int
      /\ at + 2 \in Nat /\ at + 5 \in Nat /\ at + 8 \in Nat
      /\ low \in SUBSET Names /\ in \in SUBSET Vars /\ s.v \in low /\ in \subseteq in
      /\ w \subseteq w
  <2>1. /\ low \in SUBSET Names /\ in \in SUBSET Vars /\ s.v \in low /\ in \subseteq in
        /\ w \subseteq w
    BY <1>3, <1>4
  <2> HIDE DEF low, in
  <2> QED BY <2>1
<1>10. /\ start.item \notin Parts /\ write.item \notin Parts /\ test.item \notin Parts
       /\ x \in Values /\ z \in Values
  BY <1>3, CellsAre DEF Evaluated, Effect, Test, Parts
<1>11. Steps(fun, A, A0)
  <2>1. marked \cup Once(s) = marked
    BY DEF Once, InfiniteLoop
  <2> QED BY <1>8, <2>1, UnfoldStmt
<1>12. Written(s.v, w) = in
  BY <1>3 DEF Written
<1>13. Steps(fun, A0, A1) /\ Steps(fun, A1, A2)
  <2> HIDE DEF start
  <2>1. Steps(fun, A0, A1)
    BY <1>3, <1>5, <1>10, NoStack, PushStep
  <2>2. Steps(fun, At(at + 1, Push(<<>>, r), start, marked, lo, w),
                   At(at + 1 + 1, Push(Push(<<>>, r), r), start, marked, lo, w))
    BY <1>3, <1>6, <1>10, NoStack, StackStep
  <2> QED BY <1>9, <2>1, <2>2
<1>14. Steps(fun, A2, A3)
  <2> HIDE DEF first
  <2>1. Steps(fun, A2, At(at + 2 + 1, Push(Push(Push(<<>>, r), r), x), first, marked, lo, w))
    BY <1>3, <1>7, <1>9, EvalStep
  <2> QED BY <1>9, <2>1
<1>15. Steps(fun, A3, R)
  <2> HIDE DEF round, x
  <2>1. Steps(fun, A3, At(at + 3 + 1, Push(<<>>, r), round, marked, lo \cup {s.v},
                          Written(s.v, w)))
    BY <1>3, <1>4, <1>5, <1>7, <1>10, StoreStep
  <2> HIDE DEF A3
  <2> QED BY <1>9, <1>12, <2>1
<1>16. Steps(fun, H, R)
  <2>1. again.item = "round" /\ again.s = s /\ again.written = w /\ again.then = then
    BY DEF Round
  <2> HIDE DEF again, round
  <2>2. Unfolded(again) = round
    BY <1>8, <2>1 DEF Unfolded
  <2>3. marked \cup Noted(again) = marked
    BY <2>1 DEF Noted, Marked
  <2>4. again.item \in Parts /\ again.item # "block"
    BY <2>1 DEF Parts
  <2>5. FitsToUnfold(Op("deref"), Push(<<>>, r), low)
    BY <1>5, <1>6, <1>9, NoStack, PushIs, CellsAre DEF FitsToUnfold, Op, Starts
  <2> HIDE DEF low, in
  <2> QED BY <1>3, <1>7, <2>2, <2>3, <2>4, <2>5, UnfoldStep
<1>17. Steps(fun, R, R1)
  <2> HIDE DEF stop, low
  <2>1. Steps(fun, R, At(at + 4 + 1, Push(<<>>, any), stop, marked, low, in))
    BY <1>3, <1>4, <1>5, <1>9, NoStack, DerefStep
  <2> QED BY <1>9, <2>1
<1>18. Steps(fun, R1, R2)
  <2> HIDE DEF test, low, in
  <2>1. Steps(fun, R1, At(at + 5 + 1, Push(Push(<<>>, any), z), test, marked, low, in))
    BY <1>3, <1>7, <1>9, EvalStep
  <2> QED BY <1>9, <2>1
<1>19. Steps(fun, R2, R3)
  <2> HIDE DEF test, low, in, z
  <2>1. Steps(fun, R2, At(at + 6 + 1, Push(<<>>, any), test, marked, low, in))
    BY <1>3, <1>5, <1>6, <1>10, NoStack, StackStep
  <2> QED BY <1>9, <2>1
<1>20. Steps(fun, R3, In \cup Out)
  <2> DEFINE B == In \cup Out
  <2>1. In \subseteq B /\ Out \subseteq B
    OBVIOUS
  <2> HIDE DEF yes, low, in, B
  <2>2. /\ At(at + 7 + 1, <<>>, yes, marked, low, in) \subseteq B
        /\ At(at + 7 + (L + 5), <<>>, then, marked, low, in) \subseteq B
    BY <1>9, <2>1
  <2>3. Steps(fun, R3, B)
    BY <1>3, <1>6, <1>9, <2>2, NoStack, JumpIfStep
  <2> QED BY <2>3 DEF B
<1>21. Leads(fun, In, Behind(fun, FlowOf(s.block), B0))
  <2>1. MayRun(fun, FlowOf(s.block), marked)
    BY <1>2, ForFlowIs DEF MayRun
  <2>2. \A j \in DOMAIN s.block : WhileHalts[s.block[j]] => Trusts(fun)
    BY <1>2
  <2> HIDE DEF low, in, write
  <2> QED BY <1>1, <1>3, <1>9, <2>1, <2>2 DEF BlockRunsWell
<1>22. Steps(fun, B0, B1) /\ Steps(fun, B1, B2)
  <2> HIDE DEF write, low, hi
  <2>1. Steps(fun, B0, At(at + 8 + L + 1, Push(<<>>, r), write, marked, low, hi))
    BY <1>3, <1>5, <1>10, NoStack, PushStep
  <2>2. Steps(fun, B1, At(at + 9 + L + 1, Push(Push(<<>>, r), r), write, marked, low, hi))
    BY <1>3, <1>6, <1>10, NoStack, StackStep
  <2> QED BY <1>9, <2>1, <2>2
<1>23. Steps(fun, B2, B3)
  <2> HIDE DEF again, low, hi
  <2>1. Steps(fun, B2, At(at + 10 + L + 1, Push(<<>>, r), again, marked, low, Written(s.v, hi)))
    BY <1>3, <1>4, <1>5, <1>7, <1>9, IncrementStep
  <2> QED BY <1>9, <2>1
<1>24. Steps(fun, B3, H)
  <2> HIDE DEF again, low, hi, in
  <2>1. Steps(fun, B3, At(at + 11 + L + (-(L + 7)), Push(<<>>, r), again, marked, low, in))
    BY <1>3, <1>7, <1>9, JumpStep
  <2> QED BY <1>9, <2>1
<1>25. Out \subseteq X
  <2>1. X = At(at + Len(StmtCode[s]), <<>>, then, marked, lo, w \cup Writes[s])
    BY <1>2, ForFlowIs DEF Behind
  <2>2. at + 12 + L = at + Len(StmtCode[s])
    BY <1>3
  <2>3. in \subseteq w \cup Writes[s] /\ lo \subseteq low
    BY <1>4
  <2> HIDE DEF X, in, low
  <2>4. Out \subseteq At(at + 12 + L, <<>>, then, marked, lo, w \cup Writes[s])
    BY <2>3, AtGrows
  <2> QED BY <2>1, <2>2, <2>4
<1>26. Behind(fun, FlowOf(s.block), B0) \subseteq B0
  BY DEF Behind
<1>27. Leads(fun, A, X)
  <2> DEFINE BB == Behind(fun, FlowOf(s.block), B0)
  <2> HIDE DEF A, A0, A1, A2, A3, H, R, R1, R2, R3, In, Out, B0, B1, B2, B3, X
  <2>1. Leads(fun, B0, H)
    <3>1. Leads(fun, B3, H)
      BY <1>24, LeadsStep
    <3> QED BY <1>22, <1>23, <3>1, StepThen
  <2>2. Leads(fun, BB, H)
    BY <1>26, <2>1, LeadsMore
  <2>3. Leads(fun, In, H \cup X)
    <3> HIDE DEF BB
    <3>1. Leads(fun, In, H)
      BY <1>21, <2>2, LeadsThrough DEF BB
    <3> QED BY <3>1, LeadsMore
  <2>4. Leads(fun, Out, H \cup X)
    BY <1>25, LeadsThere
  <2>5. Leads(fun, In \cup Out, H \cup X)
    BY <2>3, <2>4, LeadsEither
  <2>6. Leads(fun, R, H \cup X)
    BY <1>17, <1>18, <1>19, <1>20, <2>5, StepThen
  <2>7. Leads(fun, R, X)
    BY <1>16, <2>6, LeadsLoop
  <2> QED BY <1>11, <1>13, <1>14, <1>15, <2>7, StepThen
<1> QED BY <1>27

(* The code of a For Each, with the two temporaries it counts and holds    *)
(* the array in.                                                           *)
LEMMA ForEachCodeIs ==
  ASSUME NEW fun, NEW at \in Nat, NEW s \in Statements, s.k = "foreach",
         Placed(fun, at, StmtCode[s]), NEW L \in Nat, L = Len(BlockCode(s.block))
  PROVE  /\ s.e \in Exprs /\ s.v \in Vars
         /\ Has(fun, at, LocalRef("$idx")) /\ Has(fun, at + 1, Op("zero"))
         /\ Has(fun, at + 2, Op("store")) /\ Has(fun, at + 3, LocalRef("$arr"))
         /\ Placed(fun, at + 4, ExprCode(s.e)) /\ Has(fun, at + 5, Op("store"))
         /\ Has(fun, at + 6, LocalVal("$idx")) /\ Has(fun, at + 7, LocalVal("$arr"))
         /\ Has(fun, at + 8, Op("arrayLen")) /\ Has(fun, at + 9, Op("binOp"))
         /\ Has(fun, at + 10, JumpIf(FALSE, L + 9))
         /\ Has(fun, at + 11, LocalRef(s.v)) /\ Has(fun, at + 12, LocalVal("$arr"))
         /\ Has(fun, at + 13, LocalVal("$idx")) /\ Has(fun, at + 14, Op("arrayVal"))
         /\ Has(fun, at + 15, Op("store"))
         /\ Placed(fun, at + 16, BlockCode(s.block))
         /\ Has(fun, at + 16 + L, LocalRef("$idx")) /\ Has(fun, at + 17 + L, Op("incr"))
         /\ Has(fun, at + 18 + L, Jump(-(L + 12)))
         /\ Len(StmtCode[s]) = L + 19
<1>1. /\ s.e \in Exprs /\ s.v \in Vars /\ s.v \in Names /\ s.k \in Loops
      /\ "$idx" \in Names /\ "$arr" \in Names
  BY AllAreStatements DEF IsStatement, Loops, Names, Temps
<1>2. PICK b \in Codes : b = BlockCode(s.block) /\ CodesOf(s)[1] = b
  BY <1>1, LoopIs
<1> DEFINE set  == <<LocalRef("$idx"), Op("zero"), Op("store")>>
           arr  == SetCode("$arr", s.e)
           test == <<LocalVal("$idx"), LocalVal("$arr"), Op("arrayLen"), Op("binOp"),
                     JumpFalse(L + 9)>>
           next == <<LocalRef(s.v), LocalVal("$arr"), LocalVal("$idx"), Op("arrayVal"),
                     Op("store")>>
           m    == <<LocalRef("$idx"), Op("incr")>>
           j    == <<Jump(-(L + 12))>>
           init == set \o arr
           top  == (test \o next) \o b
           loop == top \o m
<1>3. /\ set \in Codes /\ arr \in Codes /\ test \in Codes /\ next \in Codes
      /\ m \in Codes /\ j \in Codes /\ Len(arr) = 3
  <2>1. /\ LocalRef(s.v) \in Insts /\ Op("zero") \in Insts /\ Op("store") \in Insts
        /\ Op("arrayLen") \in Insts /\ Op("binOp") \in Insts /\ Op("incr") \in Insts
        /\ Op("arrayVal") \in Insts
    BY <1>1, OpsAre DEF OpNames
  <2>2. JumpFalse(L + 9) \in Insts /\ Jump(-(L + 12)) \in Insts
    BY OpsAre
  <2>3. /\ LocalRef("$idx") \in Insts /\ LocalVal("$idx") \in Insts
        /\ LocalRef("$arr") \in Insts /\ LocalVal("$arr") \in Insts
    BY <1>1, OpsAre
  <2>4. set \in Codes /\ test \in Codes /\ next \in Codes /\ m \in Codes /\ j \in Codes
    BY <2>1, <2>2, <2>3, SmallCodes
  <2>5. PICK a, e, o \in Codes :
          a = <<LocalRef("$arr")>> /\ e = ExprCode(s.e) /\ o = <<Op("store")>>
    BY <1>1, <2>1, <2>3, ExprCodeIs, SmallCodes
  <2>6. Len(a) = 1 /\ Len(e) = 1 /\ Len(o) = 1
    BY <1>1, <2>5, ExprCodeIs
  <2>7. arr = (a \o e) \o o
    BY <2>5 DEF SetCode
  <2>8. a \o e \in Codes /\ Len(a \o e) = Len(a) + Len(e)
    BY ConcatCodes, Zenon
  <2>9. (a \o e) \o o \in Codes /\ Len((a \o e) \o o) = Len(a \o e) + Len(o)
    BY <2>8, ConcatCodes, Zenon
  <2> HIDE DEF arr, set, test, next, m, j
  <2> QED BY <2>4, <2>6, <2>7, <2>8, <2>9
<1>4. /\ Len(set) = 3 /\ Len(test) = 5 /\ Len(next) = 5 /\ Len(m) = 2 /\ Len(j) = 1 /\ Len(b) = L
  BY <1>2
<1>5. StmtCode[s] = (init \o loop) \o <<Jump(-Len(loop))>>
  <2>1. StmtCode[s] = ForEachCode(s, b)
    BY <1>2, StmtCodeIs DEF CodeWith
  <2> QED BY <1>4, <2>1 DEF ForEachCode
<1> HIDE DEF set, arr, test, next, m, j
<1>6. /\ init \in Codes /\ Len(init) = 6 /\ top \in Codes /\ Len(top) = L + 10
      /\ loop \in Codes /\ Len(loop) = L + 12
  <2>1. /\ init \in Codes /\ Len(init) = Len(set) + Len(arr)
        /\ test \o next \in Codes /\ Len(test \o next) = Len(test) + Len(next)
    BY <1>3, ConcatCodes
  <2>2. top \in Codes /\ Len(top) = Len(test \o next) + Len(b)
    BY <2>1, ConcatCodes, Zenon
  <2>3. loop \in Codes /\ Len(loop) = Len(top) + Len(m)
    BY <1>3, <2>2, ConcatCodes, Zenon
  <2> HIDE DEF init, top, loop
  <2> QED BY <1>3, <1>4, <2>1, <2>2, <2>3
<1>7. Placed(fun, at, (init \o loop) \o j)
  BY <1>5, <1>6 DEF j
<1> HIDE DEF init, top, loop
<1>8. /\ Placed(fun, at, init) /\ Placed(fun, at + Len(init), loop)
      /\ Placed(fun, at + Len(init) + Len(loop), j)
      /\ Len((init \o loop) \o j) = Len(init) + Len(loop) + Len(j)
  <2>1. init \in Codes /\ loop \in Codes /\ j \in Codes
    BY <1>3, <1>6
  <2> QED BY <1>7, <2>1, ThreeParts
<1>9. /\ at + 6 + (L + 12) = at + 18 + L /\ at + 18 + L \in Nat /\ 6 + (L + 12) + 1 = L + 19
      /\ at + 3 \in Nat /\ at + 6 \in Nat /\ at + 3 + 1 = at + 4 /\ at + 3 + 2 = at + 5
      /\ at + 6 + 1 = at + 7 /\ at + 6 + 2 = at + 8 /\ at + 6 + 3 = at + 9
      /\ at + 6 + 4 = at + 10 /\ at + 6 + 5 = at + 11 /\ at + 11 \in Nat
      /\ at + 11 + 1 = at + 12 /\ at + 11 + 2 = at + 13 /\ at + 11 + 3 = at + 14
      /\ at + 11 + 4 = at + 15 /\ at + 11 + 5 = at + 16 /\ at + 16 \in Nat
      /\ at + 6 + (L + 10) = at + 16 + L /\ at + 16 + L \in Nat /\ at + 16 + L + 1 = at + 17 + L
  OBVIOUS
<1>10. Placed(fun, at + 6, loop) /\ Placed(fun, at + 18 + L, j) /\ Len(StmtCode[s]) = L + 19
  BY <1>4, <1>5, <1>6, <1>8, <1>9 DEF j
<1>11. /\ Has(fun, at, LocalRef("$idx")) /\ Has(fun, at + 1, Op("zero"))
       /\ Has(fun, at + 2, Op("store")) /\ Has(fun, at + 3, LocalRef("$arr"))
       /\ Placed(fun, at + 4, ExprCode(s.e)) /\ Has(fun, at + 5, Op("store"))
  <2>1. Placed(fun, at, set \o arr)
    BY <1>8 DEF init
  <2>2. Placed(fun, at, set) /\ Placed(fun, at + 3, arr)
    <3>1. Placed(fun, at, set) /\ Placed(fun, at + Len(set), arr)
      BY <1>3, <2>1, PlacedParts, Zenon
    <3> QED BY <1>4, <3>1
  <2>3. /\ Has(fun, at, LocalRef("$idx")) /\ Has(fun, at + 1, Op("zero"))
        /\ Has(fun, at + 2, Op("store"))
    <3>1. Placed(fun, at, <<LocalRef("$idx"), Op("zero"), Op("store")>>)
      BY <2>2 DEF set
    <3> QED BY <3>1, PlacedSmall, Zenon
  <2>4. /\ Has(fun, at + 3, LocalRef("$arr")) /\ Placed(fun, at + 3 + 1, ExprCode(s.e))
        /\ Has(fun, at + 3 + 2, Op("store"))
    <3>1. Placed(fun, at + 3, SetCode("$arr", s.e))
      BY <2>2 DEF arr
    <3> QED BY <1>1, <1>9, <3>1, SetCodeIs, Zenon
  <2> QED BY <1>9, <2>3, <2>4
<1>12. Placed(fun, at + 6, top) /\ Placed(fun, at + 16 + L, m)
  <2>1. Placed(fun, at + 6, top \o m)
    BY <1>10 DEF loop
  <2>2. Placed(fun, at + 6, top) /\ Placed(fun, at + 6 + Len(top), m)
    BY <1>3, <1>6, <1>9, <2>1, PlacedParts, Zenon
  <2> QED BY <1>6, <1>9, <2>2
<1>13. Placed(fun, at + 6, test) /\ Placed(fun, at + 11, next) /\ Placed(fun, at + 16, b)
  <2>1. Placed(fun, at + 6, (test \o next) \o b)
    BY <1>12 DEF top
  <2>2. /\ Placed(fun, at + 6, test) /\ Placed(fun, at + 6 + Len(test), next)
        /\ Placed(fun, at + 6 + Len(test) + Len(next), b)
    BY <1>3, <1>9, <2>1, ThreeParts, Zenon
  <2> QED BY <1>4, <1>9, <2>2
<1>14. /\ Has(fun, at + 6, LocalVal("$idx")) /\ Has(fun, at + 7, LocalVal("$arr"))
       /\ Has(fun, at + 8, Op("arrayLen")) /\ Has(fun, at + 9, Op("binOp"))
       /\ Has(fun, at + 10, JumpIf(FALSE, L + 9))
  <2>1. Placed(fun, at + 6, <<LocalVal("$idx"), LocalVal("$arr"), Op("arrayLen"), Op("binOp"),
                              JumpFalse(L + 9)>>)
    BY <1>13 DEF test
  <2>2. /\ Has(fun, at + 6, LocalVal("$idx")) /\ Has(fun, at + 6 + 1, LocalVal("$arr"))
        /\ Has(fun, at + 6 + 2, Op("arrayLen")) /\ Has(fun, at + 6 + 3, Op("binOp"))
        /\ Has(fun, at + 6 + 4, JumpFalse(L + 9))
    BY <1>9, <2>1, PlacedSmall, Zenon
  <2> QED BY <1>9, <2>2 DEF JumpFalse
<1>15. /\ Has(fun, at + 11, LocalRef(s.v)) /\ Has(fun, at + 12, LocalVal("$arr"))
       /\ Has(fun, at + 13, LocalVal("$idx")) /\ Has(fun, at + 14, Op("arrayVal"))
       /\ Has(fun, at + 15, Op("store"))
  <2>1. Placed(fun, at + 11, <<LocalRef(s.v), LocalVal("$arr"), LocalVal("$idx"), Op("arrayVal"),
                               Op("store")>>)
    BY <1>13 DEF next
  <2>2. /\ Has(fun, at + 11, LocalRef(s.v)) /\ Has(fun, at + 11 + 1, LocalVal("$arr"))
        /\ Has(fun, at + 11 + 2, LocalVal("$idx")) /\ Has(fun, at + 11 + 3, Op("arrayVal"))
        /\ Has(fun, at + 11 + 4, Op("store"))
    BY <1>9, <2>1, PlacedSmall, Zenon
  <2> QED BY <1>9, <2>2
<1>16. /\ Has(fun, at + 16 + L, LocalRef("$idx")) /\ Has(fun, at + 17 + L, Op("incr"))
       /\ Has(fun, at + 18 + L, Jump(-(L + 12)))
  <2>1. /\ Placed(fun, at + 16 + L, <<LocalRef("$idx"), Op("incr")>>)
        /\ Placed(fun, at + 18 + L, <<Jump(-(L + 12))>>)
    BY <1>10, <1>12 DEF m, j
  <2>2. /\ Has(fun, at + 16 + L, LocalRef("$idx")) /\ Has(fun, at + 16 + L + 1, Op("incr"))
        /\ Has(fun, at + 18 + L, Jump(-(L + 12)))
    BY <1>9, <2>1, PlacedSmall, Zenon
  <2> QED BY <1>9, <2>2
<1> QED BY <1>1, <1>2, <1>10, <1>11, <1>13, <1>14, <1>15, <1>16

(* A For Each runs well if its block does.                                 *)
LEMMA ForEachRuns ==
  ASSUME NEW fun, NEW s \in Statements, s.k = "foreach", BlockRunsWell(fun, s.block)
  PROVE  RunsWell(fun, s)
<1>1. PICK L \in Nat : L = Len(BlockCode(s.block))
  BY LoopIs DEF Loops
<1>2. /\ FlowOf(s.block) \in Flows /\ Flow[s] = ForFlow(FlowOf(s.block))
      /\ WritesOf(s.block) \subseteq Writes[s] /\ s.block \in Seq(Statements)
      /\ \A j \in DOMAIN s.block : WhileHalts[s.block[j]] => WhileHalts[s]
  BY LoopIs DEF Loops
<1> SUFFICES
      ASSUME NEW at \in Nat, NEW lo \in SUBSET Names, NEW w \in SUBSET Vars,
             NEW then, NEW marked,
             Placed(fun, at, StmtCode[s]), MayRun(fun, Flow[s], marked),
             WhileHalts[s] => Trusts(fun)
      PROVE  Leads(fun, At(at, <<>>, Stmt(s, w, then), marked, lo, w),
                   Behind(fun, Flow[s], At(at + Len(StmtCode[s]), <<>>, then, marked, lo,
                                           w \cup Writes[s])))
  BY DEF RunsWell
<1>3. /\ s.e \in Exprs /\ s.v \in Vars
      /\ Has(fun, at, LocalRef("$idx")) /\ Has(fun, at + 1, Op("zero"))
      /\ Has(fun, at + 2, Op("store")) /\ Has(fun, at + 3, LocalRef("$arr"))
      /\ Placed(fun, at + 4, ExprCode(s.e)) /\ Has(fun, at + 5, Op("store"))
      /\ Has(fun, at + 6, LocalVal("$idx")) /\ Has(fun, at + 7, LocalVal("$arr"))
      /\ Has(fun, at + 8, Op("arrayLen")) /\ Has(fun, at + 9, Op("binOp"))
      /\ Has(fun, at + 10, JumpIf(FALSE, L + 9))
      /\ Has(fun, at + 11, LocalRef(s.v)) /\ Has(fun, at + 12, LocalVal("$arr"))
      /\ Has(fun, at + 13, LocalVal("$idx")) /\ Has(fun, at + 14, Op("arrayVal"))
      /\ Has(fun, at + 15, Op("store"))
      /\ Placed(fun, at + 16, BlockCode(s.block))
      /\ Has(fun, at + 16 + L, LocalRef("$idx")) /\ Has(fun, at + 17 + L, Op("incr"))
      /\ Has(fun, at + 18 + L, Jump(-(L + 12)))
      /\ Len(StmtCode[s]) = L + 19
  BY <1>1, ForEachCodeIs
<1>4. PICK r, any, idx, arr :
        r = Ref(s.v) /\ any = Val("any") /\ idx = Ref("$idx") /\ arr = Ref("$arr")
  OBVIOUS
<1>5. /\ s.v \in Names /\ s.v \in Writes[s]
      /\ "$idx" \in Names /\ "$arr" \in Names /\ "$idx" \in Temps /\ "$arr" \in Temps
      /\ "$idx" \notin Vars /\ "$arr" \notin Vars
  BY <1>3, WritesVar, TempsAssumption DEF Names, Temps
<1>6. /\ r \in Refs /\ idx \in Refs /\ arr \in Refs /\ any \in Values /\ any.val = "any"
  BY <1>4, <1>5, CellsAre DEF Val
<1>7. /\ Push(<<>>, r) \in Stacks /\ Push(<<>>, idx) \in Stacks /\ Push(<<>>, arr) \in Stacks
      /\ Push(<<>>, any) \in Stacks /\ Push(Push(<<>>, r), any) \in Stacks
  BY <1>6, NoStack, PushIs
<1> DEFINE X == Behind(fun, Flow[s], At(at + Len(StmtCode[s]), <<>>, then, marked, lo,
                                        w \cup Writes[s]))
           x == Cell(s.e)
           lo1 == lo \cup {"$idx"}
           lo2 == lo1 \cup {"$arr"}
           lo3 == lo2 \cup {s.v}
           in == w \cup {s.v}
           hi == in \cup WritesOf(s.block)
           again == Round(s, w, then)
           yes == BlockFrom(s.block, 1, in, again)
           write == Effect("write", s.v, yes)
           round == Test("any", write, then)
           start == Evaluated(s.e, w, round)
           A  == At(at, <<>>, Stmt(s, w, then), marked, lo, w)
           A0 == At(at, <<>>, start, marked, lo, w)
           A1 == At(at + 1, Push(<<>>, idx), start, marked, lo, w)
           A2 == At(at + 2, Push(Push(<<>>, idx), any), start, marked, lo, w)
           A3 == At(at + 3, <<>>, start, marked, lo1, w)
           A4 == At(at + 4, Push(<<>>, arr), start, marked, lo1, w)
           A5 == At(at + 5, Push(Push(<<>>, arr), x), round, marked, lo1, w)
           H  == At(at + 6, <<>>, round, marked, lo2, w)
           H1 == At(at + 7, Push(<<>>, any), round, marked, lo2, w)
           H2 == At(at + 8, Push(Push(<<>>, any), any), round, marked, lo2, w)
           H3 == At(at + 9, Push(Push(<<>>, any), any), round, marked, lo2, w)
           H4 == At(at + 10, Push(<<>>, any), round, marked, lo2, w)
           In == At(at + 11, <<>>, write, marked, lo2, w)
           Out == At(at + 19 + L, <<>>, then, marked, lo2, w)
           N1 == At(at + 12, Push(<<>>, r), write, marked, lo2, w)
           N2 == At(at + 13, Push(Push(<<>>, r), any), write, marked, lo2, w)
           N3 == At(at + 14, Push(Push(Push(<<>>, r), any), any), write, marked, lo2, w)
           N4 == At(at + 15, Push(Push(<<>>, r), any), write, marked, lo2, w)
           N5 == At(at + 16, <<>>, yes, marked, lo3, in)
           B0 == At(at + 16 + L, <<>>, again, marked, lo3, hi)
           B1 == At(at + 16 + L, <<>>, round, marked, lo3, hi)
           B2 == At(at + 17 + L, Push(<<>>, idx), round, marked, lo3, hi)
           B3 == At(at + 18 + L, <<>>, round, marked, lo3, hi)
<1>8. RoundMeaning(s, w, then) = round /\ StmtMeaning(s, w, then) = start
  BY DEF RoundMeaning, StmtMeaning, BeforeBlock, BeforeTest
<1>9. /\ at + 1 + 1 = at + 2 /\ at + 2 + 1 = at + 3 /\ at + 3 + 1 = at + 4 /\ at + 4 + 1 = at + 5
      /\ at + 5 + 1 = at + 6 /\ at + 6 + 1 = at + 7 /\ at + 7 + 1 = at + 8 /\ at + 8 + 1 = at + 9
      /\ at + 9 + 1 = at + 10 /\ at + 10 + 1 = at + 11 /\ at + 11 + 1 = at + 12
      /\ at + 12 + 1 = at + 13 /\ at + 13 + 1 = at + 14 /\ at + 14 + 1 = at + 15
      /\ at + 15 + 1 = at + 16 /\ at + 16 \in Nat /\ at + 4 \in Nat
  OBVIOUS
<1>10. /\ at + 10 + (L + 9) = at + 19 + L /\ at + 16 + L + 1 = at + 17 + L
       /\ at + 17 + L + 1 = at + 18 + L /\ at + 18 + L + (-(L + 12)) = at + 6
       /\ -(L + 12) \in Int /\ -(L + 12) < 0 /\ L + 9 \in Int
  OBVIOUS
<1>11. /\ lo3 \in SUBSET Names /\ in \in SUBSET Vars /\ "$idx" \in lo3 /\ w \subseteq w
       /\ Written("$idx", w) = w /\ Written("$arr", w) = w /\ Written(s.v, w) = in
       /\ Written("$idx", hi) = hi
  BY <1>3, <1>5 DEF Written
<1>12. /\ start.item \notin Parts /\ write.item \notin Parts /\ write.item # "read"
       /\ round.item \notin Parts /\ round.item # "read" /\ x \in Values
  BY <1>3, CellsAre DEF Evaluated, Effect, Test, Parts
<1>13. Steps(fun, A, A0)
  <2>1. marked \cup Once(s) = marked
    BY DEF Once, InfiniteLoop
  <2> QED BY <1>8, <2>1, UnfoldStmt
<1>14. Steps(fun, A0, A1) /\ Steps(fun, A1, A2)
  <2> HIDE DEF start
  <2>1. Steps(fun, A0, A1)
    BY <1>3, <1>4, <1>12, NoStack, PushStep
  <2>2. Steps(fun, A1, At(at + 1 + 1, Push(Push(<<>>, idx), any), start, marked, lo, w))
    BY <1>3, <1>4, <1>7, <1>12, PushStep
  <2> QED BY <1>9, <2>1, <2>2
<1>15. Steps(fun, A2, A3)
  <2> HIDE DEF start
  <2>1. Steps(fun, A2, At(at + 2 + 1, <<>>, start, marked, lo \cup {"$idx"}, Written("$idx", w)))
    BY <1>3, <1>4, <1>5, <1>6, <1>12, NoStack, StoreStep
  <2> HIDE DEF A2
  <2> QED BY <1>9, <1>11, <2>1
<1>16. Steps(fun, A3, A4)
  <2> HIDE DEF start, lo1
  <2>1. Steps(fun, A3, At(at + 3 + 1, Push(<<>>, arr), start, marked, lo1, w))
    BY <1>3, <1>4, <1>12, NoStack, PushStep
  <2> QED BY <1>9, <2>1
<1>17. Steps(fun, A4, A5)
  <2> HIDE DEF round, lo1
  <2>1. Steps(fun, A4, At(at + 4 + 1, Push(Push(<<>>, arr), x), round, marked, lo1, w))
    BY <1>3, <1>7, <1>9, <1>11, EvalStep
  <2> QED BY <1>9, <2>1
<1>18. Steps(fun, A5, H)
  <2> HIDE DEF round, lo1, x
  <2>1. Steps(fun, A5, At(at + 5 + 1, <<>>, round, marked, lo1 \cup {"$arr"}, Written("$arr", w)))
    BY <1>3, <1>4, <1>5, <1>12, NoStack, StoreStep
  <2> HIDE DEF A5
  <2> QED BY <1>9, <1>11, <2>1
<1>19. Steps(fun, H, H1) /\ Steps(fun, H1, H2)
  <2> HIDE DEF round, lo2
  <2>1. Steps(fun, H, At(at + 6 + 1, Push(<<>>, any), round, marked, lo2, w))
    BY <1>3, <1>4, <1>5, <1>12, NoStack, PushStep
  <2>2. Steps(fun, H1, At(at + 7 + 1, Push(Push(<<>>, any), any), round, marked, lo2, w))
    BY <1>3, <1>4, <1>5, <1>7, <1>12, PushStep
  <2> QED BY <1>9, <2>1, <2>2
<1>20. Steps(fun, H2, H3) /\ Steps(fun, H3, H4)
  <2> HIDE DEF round, lo2
  <2>1. Steps(fun, H2, At(at + 8 + 1, Push(Push(<<>>, any), any), round, marked, lo2, w))
    BY <1>3, <1>4, <1>6, <1>7, <1>12, StackStep
  <2>2. Steps(fun, H3, At(at + 9 + 1, Push(<<>>, any), round, marked, lo2, w))
    BY <1>3, <1>4, <1>6, <1>12, NoStack, StackStep
  <2> QED BY <1>9, <2>1, <2>2
<1>21. Steps(fun, H4, In \cup Out)
  <2> DEFINE B == In \cup Out
  <2>1. In \subseteq B /\ Out \subseteq B
    OBVIOUS
  <2> HIDE DEF write, lo2, B
  <2>2. /\ At(at + 10 + 1, <<>>, write, marked, lo2, w) \subseteq B
        /\ At(at + 10 + (L + 9), <<>>, then, marked, lo2, w) \subseteq B
    BY <1>9, <1>10, <2>1
  <2>3. Steps(fun, H4, B)
    BY <1>3, <1>6, <1>10, <1>11, <2>2, NoStack, JumpIfStep
  <2> QED BY <2>3 DEF B
<1>22. Steps(fun, In, N1) /\ Steps(fun, N1, N2) /\ Steps(fun, N2, N3)
  <2> HIDE DEF write, lo2
  <2>1. Steps(fun, In, At(at + 11 + 1, Push(<<>>, r), write, marked, lo2, w))
    BY <1>3, <1>4, <1>12, NoStack, PushStep
  <2>2. Steps(fun, N1, At(at + 12 + 1, Push(Push(<<>>, r), any), write, marked, lo2, w))
    BY <1>3, <1>4, <1>5, <1>7, <1>12, PushStep
  <2>3. Steps(fun, N2, At(at + 13 + 1, Push(Push(Push(<<>>, r), any), any), write, marked, lo2, w))
    BY <1>3, <1>4, <1>5, <1>7, <1>12, PushStep
  <2> QED BY <1>9, <2>1, <2>2, <2>3
<1>23. Steps(fun, N3, N4)
  <2> HIDE DEF write, lo2
  <2>1. Steps(fun, N3, At(at + 14 + 1, Push(Push(<<>>, r), any), write, marked, lo2, w))
    BY <1>3, <1>4, <1>6, <1>7, <1>12, StackStep
  <2> QED BY <1>9, <2>1
<1>24. Steps(fun, N4, N5)
  <2> HIDE DEF yes, lo2
  <2>1. Steps(fun, N4, At(at + 15 + 1, <<>>, yes, marked, lo2 \cup {s.v}, Written(s.v, w)))
    BY <1>3, <1>4, <1>5, <1>6, NoStack, StoreStep
  <2> HIDE DEF N4
  <2> QED BY <1>9, <1>11, <2>1
<1>25. Leads(fun, N5, Behind(fun, FlowOf(s.block), B0))
  <2>1. MayRun(fun, FlowOf(s.block), marked)
    BY <1>2, ForFlowIs DEF MayRun
  <2>2. \A j \in DOMAIN s.block : WhileHalts[s.block[j]] => Trusts(fun)
    BY <1>2
  <2> HIDE DEF lo3, in, again
  <2> QED BY <1>1, <1>3, <1>9, <1>11, <2>1, <2>2 DEF BlockRunsWell
<1>26. Steps(fun, B0, B1)
  <2>1. again.item = "round" /\ again.s = s /\ again.written = w /\ again.then = then
    BY DEF Round
  <2> HIDE DEF again, round
  <2>2. Unfolded(again) = round
    BY <1>8, <2>1 DEF Unfolded
  <2>3. marked \cup Noted(again) = marked
    BY <2>1 DEF Noted, Marked
  <2>4. again.item \in Parts /\ again.item # "block"
    BY <2>1 DEF Parts
  <2>5. FitsToUnfold(LocalRef("$idx"), <<>>, lo3)
    BY DEF FitsToUnfold, LocalRef, Starts
  <2> HIDE DEF lo3, hi
  <2> QED BY <1>3, <2>2, <2>3, <2>4, <2>5, NoStack, UnfoldStep
<1>27. Steps(fun, B1, B2)
  <2> HIDE DEF round, lo3, hi
  <2>1. Steps(fun, B1, At(at + 16 + L + 1, Push(<<>>, idx), round, marked, lo3, hi))
    BY <1>3, <1>4, <1>12, NoStack, PushStep
  <2> QED BY <1>10, <2>1
<1>28. Steps(fun, B2, B3)
  <2> HIDE DEF round, lo3, hi
  <2>1. Steps(fun, B2, At(at + 17 + L + 1, <<>>, round, marked, lo3, Written("$idx", hi)))
    BY <1>3, <1>4, <1>5, <1>11, <1>12, NoStack, IncrementStep
  <2> QED BY <1>10, <1>11, <2>1
<1>29. Steps(fun, B3, H)
  <2>1. lo2 \subseteq lo3
    OBVIOUS
  <2> HIDE DEF round, lo2, lo3, hi
  <2>2. Steps(fun, B3, At(at + 18 + L + (-(L + 12)), <<>>, round, marked, lo3, w))
    BY <1>3, <1>10, NoStack, JumpStep
  <2>3. At(at + 6, <<>>, round, marked, lo3, w) \subseteq H
    BY <1>11, <2>1, AtGrows
  <2> HIDE DEF B3, H
  <2> QED BY <1>10, <2>2, <2>3, StepsMore
<1>30. Out \subseteq X
  <2>1. X = At(at + Len(StmtCode[s]), <<>>, then, marked, lo, w \cup Writes[s])
    BY <1>2, ForFlowIs DEF Behind
  <2>2. at + 19 + L = at + Len(StmtCode[s])
    BY <1>3
  <2>3. w \subseteq w \cup Writes[s] /\ lo \subseteq lo2
    OBVIOUS
  <2> HIDE DEF X, lo2
  <2>4. Out \subseteq At(at + 19 + L, <<>>, then, marked, lo, w \cup Writes[s])
    BY <2>3, AtGrows
  <2> QED BY <2>1, <2>2, <2>4
<1>31. Behind(fun, FlowOf(s.block), B0) \subseteq B0
  BY DEF Behind
<1>32. Leads(fun, A, X)
  <2> DEFINE BB == Behind(fun, FlowOf(s.block), B0)
  <2> HIDE DEF A, A0, A1, A2, A3, A4, A5, H, H1, H2, H3, H4, In, Out, N1, N2, N3, N4, N5,
               B0, B1, B2, B3, X
  <2>1. Leads(fun, B0, H)
    <3>1. Leads(fun, B3, H)
      BY <1>29, LeadsStep
    <3> QED BY <1>26, <1>27, <1>28, <3>1, StepThen
  <2>2. Leads(fun, BB, H)
    BY <1>31, <2>1, LeadsMore
  <2>3. Leads(fun, N5, H)
    <3> HIDE DEF BB
    <3> QED BY <1>25, <2>2, LeadsThrough DEF BB
  <2>4. Leads(fun, In, H \cup X)
    <3>1. Leads(fun, In, H)
      BY <1>22, <1>23, <1>24, <2>3, StepThen
    <3> QED BY <3>1, LeadsMore
  <2>5. Leads(fun, Out, H \cup X)
    BY <1>30, LeadsThere
  <2>6. Leads(fun, In \cup Out, H \cup X)
    BY <2>4, <2>5, LeadsEither
  <2>7. Leads(fun, H1, H \cup X)
    BY <1>19, <1>20, <1>21, <2>6, StepThen
  <2>8. Leads(fun, H, X)
    BY <1>19, <2>7, LeadsLoop
  <2>9. Leads(fun, A3, X)
    BY <1>16, <1>17, <1>18, <2>8, StepThen
  <2> QED BY <1>13, <1>14, <1>15, <2>9, StepThen
<1> QED BY <1>32

(* A block of a choice.                                                    *)
IsArm(fun, s, block) ==
  /\ block \in Seq(Statements) /\ BlockRunsWell(fun, block)
  /\ Flow[s] = HALT => FlowOf(block) = HALT
  /\ FlowOf(block) # CONTINUE => Flow[s] # CONTINUE
  /\ WritesOf(block) \subseteq Writes[s]
  /\ \A j \in DOMAIN block : WhileHalts[block[j]] => WhileHalts[s]

(* A choice halts only if all its blocks do and nothing is left over.      *)
LEMMA ChoiceFlowIs ==
  ASSUME NEW s \in Statements, s.k \in Branches
  PROVE  /\ \A i \in 1..Len(Blocks(s)) :
              /\ Flow[s] = HALT => FlowOf(Blocks(s)[i]) = HALT
              /\ FlowOf(Blocks(s)[i]) # CONTINUE => Flow[s] # CONTINUE
         /\ s.other = <<>> => Flow[s] # HALT
<1> DEFINE flows == {FlowsOf(s)[i] : i \in DOMAIN FlowsOf(s)}
                      \cup IF s.other = <<>> THEN {CONTINUE} ELSE {}
<1>1. Flow[s] = Alternatives(flows)
  <2>1. Flow[s] = StmtFlow(s, FlowsOf(s))
    BY FlowIs
  <2>2. StmtFlow(s, FlowsOf(s)) = ChoiceFlow(FlowsOf(s), s.other)
    BY DEF StmtFlow, Branches
  <2> QED BY <2>1, <2>2 DEF ChoiceFlow
<1>2. \A i \in 1..Len(Blocks(s)) : FlowOf(Blocks(s)[i]) \in flows
  <2>1. DOMAIN FlowsOf(s) = 1..Len(Blocks(s))
    BY AllAreStatements, LenProperties DEF FlowsOf, FlowsBy
  <2>2. \A i \in 1..Len(Blocks(s)) : FlowsOf(s)[i] = FlowOf(Blocks(s)[i])
    BY OfBlockIs
  <2> QED BY <2>1, <2>2
<1>3. \A i \in 1..Len(Blocks(s)) : FlowOf(Blocks(s)[i]) \in Flows
  BY OfBlockIs, BlockFlowIs
<1>4. s.other = <<>> => CONTINUE \in flows
  OBVIOUS
<1> HIDE DEF flows
<1>5. \A flow \in flows \cap Flows :
        /\ Flow[s] = HALT => flow = HALT
        /\ flow # CONTINUE => Flow[s] # CONTINUE
  BY <1>1 DEF Alternatives, Flows, CONTINUE, MAYBE, HALT
<1>6. CONTINUE \in Flows /\ CONTINUE # HALT
  BY DEF Flows, CONTINUE, HALT
<1> QED BY <1>2, <1>3, <1>4, <1>5, <1>6

(* The blocks of a choice, and their code.                                 *)
LEMMA BranchIs ==
  ASSUME NEW fun, NEW s \in Statements, s.k \in Branches,
         \A i \in 1..Len(Blocks(s)) : BlockRunsWell(fun, Blocks(s)[i])
  PROVE  /\ Len(s.cases) \in Nat
         /\ \A i \in 1..Len(s.cases) :
              /\ s.cases[i].e \in Exprs /\ IsArm(fun, s, s.cases[i].block)
              /\ CodesOf(s)[i] = BlockCode(s.cases[i].block)
         /\ s.other # <<>> =>
              /\ IsArm(fun, s, s.other[1])
              /\ CodesOf(s)[Len(CodesOf(s))] = BlockCode(s.other[1])
         /\ s.other = <<>> => Flow[s] # HALT
<1>1. IsStatement(s, Seq(Statements)) /\ HasCases(s, Seq(Statements))
  BY AllAreStatements DEF IsStatement, Branches
<1>2. /\ s.cases \in Seq([e : Exprs, block : Seq(Statements)])
      /\ s.other \in Seq(Seq(Statements)) /\ Blocks(s) \in Seq(Seq(Statements))
  BY <1>1, AllAreStatements DEF HasCases
<1>3. PICK M, N, K \in Nat : M = Len(s.cases) /\ N = Len(s.other) /\ K = Len(Blocks(s))
  BY <1>2, LenProperties
<1>4. /\ K = M + N /\ DOMAIN Blocks(s) = 1..K
      /\ \A i \in 1..M : Blocks(s)[i] = s.cases[i].block
      /\ s.other # <<>> => N = 1 /\ Blocks(s)[M + 1] = s.other[1]
  <2>1. DOMAIN Blocks(s) = 1..K
    BY <1>2, <1>3, LenProperties
  <2>2. /\ Len(Blocks(s)) = Len(s.cases) + Len(s.other)
        /\ \A i \in 1..Len(s.cases) : Blocks(s)[i] = s.cases[i].block
        /\ s.other # <<>> => Len(s.other) = 1 /\ Blocks(s)[Len(s.cases) + 1] = s.other[1]
    BY <1>1, BlocksAre, Zenon
  <2> QED BY <1>3, <2>1, <2>2
<1>5. \A i \in 1..M : i \in 1..K
  BY <1>4
<1>6. \A i \in 1..K : CodesOf(s)[i] = BlockCode(Blocks(s)[i])
  BY <1>4 DEF CodesOf
<1>7. Len(CodesOf(s)) = K
  <2>1. DOMAIN CodesOf(s) = 1..K
    BY <1>4 DEF CodesOf
  <2>2. \A i \in 1..K : BlockCode(Blocks(s)[i]) \in BlockCodes
    BY <1>3, OfBlockIs, BlockCodeIs
  <2>3. CodesOf(s) \in [1..K -> BlockCodes]
    BY <1>4, <2>2 DEF CodesOf
  <2> QED BY <2>3, FunctionIsSeq
<1>8. ASSUME NEW i \in 1..K PROVE IsArm(fun, s, Blocks(s)[i])
  BY <1>3, ChoiceFlowIs, OfBlockIs DEF IsArm
<1>9. \A i \in 1..M : s.cases[i].e \in Exprs
  <2>1. ASSUME NEW i \in 1..M PROVE s.cases[i].e \in Exprs
    <3>1. s.cases[i] \in [e : Exprs, block : Seq(Statements)]
      BY <1>2, <1>3, ElementOfSeq
    <3> QED BY <3>1
  <2> QED BY <2>1
<1>10. s.other # <<>> => M + 1 \in 1..K /\ K = M + 1
  BY <1>4
<1>11. s.other = <<>> => Flow[s] # HALT
  BY ChoiceFlowIs
<1>12. \A i \in 1..M :
         IsArm(fun, s, s.cases[i].block) /\ CodesOf(s)[i] = BlockCode(s.cases[i].block)
  BY <1>4, <1>5, <1>6, <1>8
<1>13. s.other # <<>> =>
         IsArm(fun, s, s.other[1]) /\ CodesOf(s)[Len(CodesOf(s))] = BlockCode(s.other[1])
  BY <1>4, <1>6, <1>7, <1>8, <1>10
<1> QED BY <1>3, <1>9, <1>11, <1>12, <1>13

(* A block, and the jump behind it.                                        *)
LEMMA ArmRuns ==
  ASSUME NEW fun, NEW s \in Statements, NEW block, IsArm(fun, s, block),
         NEW at \in Nat, NEW L \in Nat, L = Len(BlockCode(block)), NEW n \in Nat,
         Placed(fun, at, BlockCode(block)), Has(fun, at + L, Jump(n)),
         NEW lo \in SUBSET Names, NEW w \in SUBSET Vars, NEW v \in SUBSET (w \cup Writes[s]),
         NEW then, NEW marked, MayRun(fun, Flow[s], marked), WhileHalts[s] => Trusts(fun)
  PROVE  Leads(fun, At(at, <<>>, BlockFrom(block, 1, v, then), marked, lo, v),
               Behind(fun, Flow[s], At(at + L + n, <<>>, then, marked, lo, w \cup Writes[s])))
<1> DEFINE A == At(at, <<>>, BlockFrom(block, 1, v, then), marked, lo, v)
           hi == v \cup WritesOf(block)
           W == w \cup Writes[s]
           B == At(at + L, <<>>, then, marked, lo, hi)
           C == At(at + L + n, <<>>, then, marked, lo, W)
<1>1. v \in SUBSET Vars
  BY WritesAre
<1>2. Leads(fun, A, Behind(fun, FlowOf(block), B))
  <2>1. MayRun(fun, FlowOf(block), marked)
    BY DEF MayRun, IsArm
  <2>2. BlockRunsWell(fun, block) /\ \A j \in DOMAIN block : WhileHalts[block[j]] => Trusts(fun)
    BY DEF IsArm
  <2> QED BY <1>1, <2>1, <2>2 DEF BlockRunsWell
<1>3. Steps(fun, B, C)
  <2>1. hi \subseteq W /\ n \in Int
    BY DEF IsArm
  <2> HIDE DEF hi, W
  <2> QED BY <2>1, NoStack, JumpStep
<1> HIDE DEF A, B, C
<1>4. Leads(fun, Behind(fun, FlowOf(block), B), Behind(fun, Flow[s], C))
  <2>1. CASE FlowOf(block) = HALT /\ ~Trusts(fun)
    <3>1. Behind(fun, FlowOf(block), B) = {}
      BY <2>1 DEF Behind
    <3> QED BY <3>1, LeadsThere
  <2>2. CASE ~(FlowOf(block) = HALT /\ ~Trusts(fun))
    <3>1. Behind(fun, FlowOf(block), B) = B /\ Behind(fun, Flow[s], C) = C
      BY <2>2 DEF Behind, IsArm
    <3> QED BY <1>3, <3>1, LeadsStep
  <2> QED BY <2>1, <2>2
<1>5. Leads(fun, A, Behind(fun, Flow[s], C))
  BY <1>2, <1>4, LeadsThrough
<1> QED BY <1>5 DEF A, C

(* The cases from the i-th on, on their code c.                            *)
CasesRun(fun, s, st, i, c) ==
  \A at \in Nat, lo \in SUBSET Names, w \in SUBSET Vars :
  \A v \in SUBSET (w \cup Writes[s]) : \A then, marked :
    /\ Placed(fun, at, c)
    /\ MayRun(fun, Flow[s], marked)
    /\ WhileHalts[s] => Trusts(fun)
    => Leads(fun, At(at, st, CasesFrom(s, i, v, then), marked, lo, v),
             Behind(fun, Flow[s], At(at + Len(c), <<>>, then, marked, lo, w \cup Writes[s])))

(* A case is unfolded before its code is run.                              *)
LEMMA UnfoldCase ==
  ASSUME NEW fun, NEW at, NEW op, Has(fun, at, op), NEW st \in Stacks, NEW s, NEW i,
         ~(i > Len(s.cases)), NEW v, NEW then, NEW marked, NEW lo, NEW hi,
         FitsToUnfold(op, st, lo)
  PROVE  Steps(fun, At(at, st, CasesFrom(s, i, v, then), marked, lo, hi),
                    At(at, st, Case(s, i, v, then), marked, lo, hi))
<1>1. PICK td : td = CasesFrom(s, i, v, then)
  OBVIOUS
<1>2. td.item = "cases" /\ td.s = s /\ td.i = i /\ td.written = v /\ td.then = then
  BY <1>1 DEF CasesFrom
<1>3. Unfolded(td) = Case(s, i, v, then)
  BY <1>2 DEF Unfolded
<1>4. marked \cup Noted(td) = marked
  BY <1>2 DEF Noted, Marked
<1>5. td.item \in Parts /\ td.item # "block"
  BY <1>2 DEF Parts
<1>6. Steps(fun, At(at, st, td, marked, lo, hi),
                 At(at, st, Unfolded(td), marked \cup Noted(td), lo, hi))
  BY <1>5, UnfoldStep
<1> QED BY <1>1, <1>3, <1>4, <1>6

(* The length of the code of a case of an If ...                           *)
LEMMA CondLength ==
  ASSUME NEW e \in Exprs, NEW b \in Codes, NEW r \in Codes
  PROVE  Len(CondCode(e, b, r)) = 3 + Len(b) + Len(r)
<1>1. Len(b) + 2 \in Int /\ Len(r) + 1 \in Int /\ Len(b) \in Nat /\ Len(r) \in Nat
  BY ConcatCodes
<1>2. JumpFalse(Len(b) + 2) \in Insts /\ Jump(Len(r) + 1) \in Insts
  BY <1>1, OpsAre
<1>3. PICK c, t, j \in Codes :
        c = ExprCode(e) /\ t = <<JumpFalse(Len(b) + 2)>> /\ j = <<Jump(Len(r) + 1)>>
  BY <1>2, ExprCodeIs, SmallCodes
<1>4. Len(c) = 1 /\ Len(t) = 1 /\ Len(j) = 1
  BY <1>3, ExprCodeIs
<1>5. c \o t \in Codes /\ Len(c \o t) = Len(c) + Len(t)
  BY ConcatCodes, Zenon
<1>6. (c \o t) \o b \in Codes /\ Len((c \o t) \o b) = Len(c \o t) + Len(b)
  BY <1>5, ConcatCodes, Zenon
<1>7. /\ ((c \o t) \o b) \o j \in Codes
      /\ Len(((c \o t) \o b) \o j) = Len((c \o t) \o b) + Len(j)
  BY <1>6, ConcatCodes, Zenon
<1>8. Len((((c \o t) \o b) \o j) \o r) = Len(((c \o t) \o b) \o j) + Len(r)
  BY <1>7, ConcatCodes, Zenon
<1>9. CondCode(e, b, r) = (((c \o t) \o b) \o j) \o r
  BY <1>3 DEF CondCode
<1> QED BY <1>1, <1>4, <1>5, <1>6, <1>7, <1>8, <1>9

(* ... and where its parts stand.                                          *)
LEMMA CondPlaces ==
  ASSUME NEW fun, NEW at \in Nat, NEW e \in Exprs, NEW b \in Codes, NEW r \in Codes,
         Placed(fun, at, CondCode(e, b, r))
  PROVE  /\ Placed(fun, at, ExprCode(e)) /\ Has(fun, at + 1, JumpIf(FALSE, Len(b) + 2))
         /\ Placed(fun, at + 2, b) /\ Has(fun, at + 2 + Len(b), Jump(Len(r) + 1))
         /\ Placed(fun, at + 3 + Len(b), r)
<1>0. PICK L, K \in Nat : L = Len(b) /\ K = Len(r)
  BY ConcatCodes
<1>1. JumpFalse(L + 2) \in Insts /\ Jump(K + 1) \in Insts
  BY OpsAre
<1>2. PICK c, t, j \in Codes : c = ExprCode(e) /\ t = <<JumpFalse(L + 2)>> /\ j = <<Jump(K + 1)>>
  BY <1>1, ExprCodeIs, SmallCodes
<1>3. Len(c) = 1 /\ Len(t) = 1 /\ Len(j) = 1
  BY <1>2, ExprCodeIs
<1>4. PICK top \in Codes : top = (c \o t) \o b
  BY ConcatCodes
<1>5. CondCode(e, b, r) = (top \o j) \o r
  BY <1>0, <1>2, <1>4 DEF CondCode
<1>6. /\ Placed(fun, at, top) /\ Placed(fun, at + Len(top), j)
      /\ Placed(fun, at + Len(top) + Len(j), r)
  <2>1. Placed(fun, at, (top \o j) \o r)
    BY <1>5
  <2> QED BY <2>1, ThreeParts
<1>7. /\ Placed(fun, at, c) /\ Placed(fun, at + Len(c), t) /\ Placed(fun, at + Len(c) + Len(t), b)
      /\ Len(top) = Len(c) + Len(t) + Len(b)
  <2>1. Placed(fun, at, (c \o t) \o b)
    BY <1>4, <1>6
  <2> QED BY <1>4, <2>1, ThreeParts
<1>8. /\ Len(top) = 2 + L /\ at + (2 + L) = at + 2 + L /\ at + 2 + L + 1 = at + 3 + L
      /\ at + 1 + 1 = at + 2 /\ at + 1 \in Nat /\ at + 2 + L \in Nat
  BY <1>0, <1>3, <1>7
<1>9. /\ Placed(fun, at + 1, t) /\ Placed(fun, at + 2, b) /\ Placed(fun, at + 2 + L, j)
      /\ Placed(fun, at + 3 + L, r)
  BY <1>0, <1>3, <1>5, <1>6, <1>7, <1>8
<1>10. Has(fun, at + 1, JumpFalse(L + 2)) /\ Has(fun, at + 2 + L, Jump(K + 1))
  BY <1>2, <1>8, <1>9, PlacedSmall, Zenon
<1> QED BY <1>0, <1>2, <1>7, <1>9, <1>10 DEF JumpFalse

(* A case of an If, if those behind it run well.                           *)
LEMMA CondRuns ==
  ASSUME NEW fun, NEW s \in Statements, s.k = "if", NEW i \in Int, ~(i > Len(s.cases)),
         s.cases[i].e \in Exprs, IsArm(fun, s, s.cases[i].block),
         NEW r \in Codes, CasesRun(fun, s, <<>>, i + 1, r)
  PROVE  CasesRun(fun, s, <<>>, i, CondCode(s.cases[i].e, BlockCode(s.cases[i].block), r))
<1>1. PICK e, block : e = s.cases[i].e /\ block = s.cases[i].block
  OBVIOUS
<1>2. PICK b \in Codes : b = BlockCode(block)
  BY <1>1, BlockCodeIs, SmallCodes DEF IsArm
<1>3. PICK L, K \in Nat : L = Len(b) /\ K = Len(r)
  BY ConcatCodes
<1> DEFINE c == CondCode(e, b, r)
<1> SUFFICES
      ASSUME NEW at \in Nat, NEW lo \in SUBSET Names, NEW w \in SUBSET Vars,
             NEW v \in SUBSET (w \cup Writes[s]), NEW then, NEW marked,
             Placed(fun, at, c), MayRun(fun, Flow[s], marked), WhileHalts[s] => Trusts(fun)
      PROVE  Leads(fun, At(at, <<>>, CasesFrom(s, i, v, then), marked, lo, v),
                   Behind(fun, Flow[s], At(at + Len(c), <<>>, then, marked, lo, w \cup Writes[s])))
  <2> HIDE DEF c
  <2>1. CasesRun(fun, s, <<>>, i, c)
    BY Zenon DEF CasesRun
  <2> QED BY <1>1, <1>2, <2>1 DEF c
<1>4. /\ Placed(fun, at, ExprCode(e)) /\ Has(fun, at + 1, JumpIf(FALSE, L + 2))
      /\ Placed(fun, at + 2, b) /\ Has(fun, at + 2 + L, Jump(K + 1))
      /\ Placed(fun, at + 3 + L, r) /\ Len(c) = 3 + L + K
  <2>1. e \in Exprs /\ Placed(fun, at, CondCode(e, b, r)) 
    BY <1>1
  <2> HIDE DEF c
  <2>2. /\ Placed(fun, at, ExprCode(e)) /\ Has(fun, at + 1, JumpIf(FALSE, Len(b) + 2))
        /\ Placed(fun, at + 2, b) /\ Has(fun, at + 2 + Len(b), Jump(Len(r) + 1))
        /\ Placed(fun, at + 3 + Len(b), r)
    BY <2>1, CondPlaces, Zenon
  <2>3. Len(CondCode(e, b, r)) = 3 + Len(b) + Len(r)
    BY <2>1, CondLength
  <2> QED BY <1>3, <2>2, <2>3 DEF c
<1> DEFINE X == Behind(fun, Flow[s], At(at + Len(c), <<>>, then, marked, lo, w \cup Writes[s]))
           x == Cell(e)
           v2 == v \cup WritesOf(block)
           yes == BlockFrom(block, 1, v, then)
           no == CasesFrom(s, i + 1, v2, then)
           test == Test(e.val, yes, no)
           A == At(at, <<>>, CasesFrom(s, i, v, then), marked, lo, v)
           U == At(at, <<>>, Evaluated(e, v, test), marked, lo, v)
           T == At(at + 1, Push(<<>>, x), test, marked, lo, v)
           In == At(at + 2, <<>>, yes, marked, lo, v)
           Out == At(at + 3 + L, <<>>, no, marked, lo, v2)
<1>5. Steps(fun, A, U)
  <2>1. Case(s, i, v, then) = Evaluated(e, v, test)
    BY <1>1 DEF Case
  <2>2. PICK op : op = ExprCode(e)[1]
    OBVIOUS
  <2>3. op.op \in Starts /\ Has(fun, at, op)
    <3>1. ExprCode(e) \in StmtCodes /\ Len(ExprCode(e)) = 1 /\ 1 \in 1..1 /\ at + 1 - 1 = at
      BY <1>1, ExprCodeIs
    <3> QED BY <1>4, <2>2, <3>1 DEF Placed, StmtCodes
  <2>4. FitsToUnfold(op, <<>>, lo)
    BY <2>3 DEF FitsToUnfold
  <2> HIDE DEF test
  <2>5. Steps(fun, A, At(at, <<>>, Case(s, i, v, then), marked, lo, v))
    BY <2>3, <2>4, NoStack, UnfoldCase
  <2> QED BY <2>1, <2>5
<1>6. Steps(fun, U, T)
  <2> HIDE DEF test
  <2> QED BY <1>1, <1>4, NoStack, EvalStep
<1>7. Steps(fun, T, In \cup Out)
  <2> DEFINE B == In \cup Out
  <2>1. x \in Values /\ (x.val = "any" \/ x.val = e.val)
    BY <1>1, OutcomesAre
  <2>2. at + 1 + (L + 2) = at + 3 + L /\ at + 1 + 1 = at + 2 /\ L + 2 \in Int
    OBVIOUS
  <2>3. In \subseteq B /\ Out \subseteq B /\ v \subseteq v2
    OBVIOUS
  <2> HIDE DEF yes, no, x, B, v2
  <2>4. /\ At(at + 1 + 1, <<>>, yes, marked, lo, v) \subseteq B
        /\ At(at + 1 + (L + 2), <<>>, no, marked, lo, v2) \subseteq B
    BY <2>2, <2>3
  <2>5. Steps(fun, T, B)
    BY <1>4, <2>1, <2>2, <2>3, <2>4, NoStack, JumpIfStep
  <2> QED BY <2>5 DEF B
<1>8. /\ at + 2 + L + (K + 1) = at + Len(c) /\ at + 3 + L + K = at + Len(c)
      /\ at + 2 \in Nat /\ at + 3 + L \in Nat /\ K + 1 \in Nat
  <2>1. PICK n : n = Len(c)
    OBVIOUS
  <2>2. n = 3 + L + K
    BY <1>4, <2>1
  <2> HIDE DEF c
  <2>3. /\ at + 2 + L + (K + 1) = at + n /\ at + 3 + L + K = at + n
        /\ at + 2 \in Nat /\ at + 3 + L \in Nat /\ K + 1 \in Nat
    BY <2>2
  <2> QED BY <2>1, <2>3
<1>9. Leads(fun, In, X)
  <2>1. Leads(fun, In, Behind(fun, Flow[s], At(at + 2 + L + (K + 1), <<>>, then, marked, lo,
                                               w \cup Writes[s])))
    <3>1. IsArm(fun, s, block) /\ L = Len(BlockCode(block)) /\ Placed(fun, at + 2, BlockCode(block))
      BY <1>1, <1>2, <1>3, <1>4
    <3> QED BY <1>4, <1>8, <3>1, ArmRuns
  <2> QED BY <1>8, <2>1
<1>10. Leads(fun, Out, X)
  <2>1. v2 \in SUBSET (w \cup Writes[s])
    BY <1>1 DEF IsArm
  <2> HIDE DEF v2, c
  <2>2. Leads(fun, Out, Behind(fun, Flow[s], At(at + 3 + L + Len(r), <<>>, then, marked, lo,
                                                w \cup Writes[s])))
    BY <1>4, <1>8, <2>1 DEF CasesRun
  <2> QED BY <1>3, <1>8, <2>2
<1>11. Leads(fun, A, X)
  <2> HIDE DEF A, U, T, In, Out, X
  <2> QED BY <1>5, <1>6, <1>7, <1>9, <1>10, LeadsEither, StepThen
<1> QED BY <1>11

(* The length of the code of a case of a Select ...                        *)
LEMMA CaseLength ==
  ASSUME NEW e \in Exprs, NEW b \in Codes, NEW r \in Codes
  PROVE  Len(CaseCode(e, b, r)) = 6 + Len(b) + Len(r)
<1>1. Len(b) + 3 \in Int /\ Len(r) + 1 \in Int /\ Len(b) \in Nat /\ Len(r) \in Nat
  BY ConcatCodes
<1>2. /\ JumpFalse(Len(b) + 3) \in Insts /\ Jump(Len(r) + 1) \in Insts
      /\ Op("dup") \in Insts /\ Op("binOp") \in Insts /\ Op("pop") \in Insts
  BY <1>1, OpsAre DEF OpNames
<1>3. PICK d, c, t, j \in Codes :
        /\ d = <<Op("dup")>> /\ c = ExprCode(e)
        /\ t = <<Op("binOp"), JumpFalse(Len(b) + 3), Op("pop")>> /\ j = <<Jump(Len(r) + 1)>>
  BY <1>2, ExprCodeIs, SmallCodes
<1>4. Len(d) = 1 /\ Len(c) = 1 /\ Len(t) = 3 /\ Len(j) = 1
  BY <1>3, ExprCodeIs
<1>5. d \o c \in Codes /\ Len(d \o c) = Len(d) + Len(c)
  BY ConcatCodes, Zenon
<1>6. (d \o c) \o t \in Codes /\ Len((d \o c) \o t) = Len(d \o c) + Len(t)
  BY <1>5, ConcatCodes, Zenon
<1>7. ((d \o c) \o t) \o b \in Codes /\ Len(((d \o c) \o t) \o b) = Len((d \o c) \o t) + Len(b)
  BY <1>6, ConcatCodes, Zenon
<1>8. /\ (((d \o c) \o t) \o b) \o j \in Codes
      /\ Len((((d \o c) \o t) \o b) \o j) = Len(((d \o c) \o t) \o b) + Len(j)
  BY <1>7, ConcatCodes, Zenon
<1>9. Len(((((d \o c) \o t) \o b) \o j) \o r) = Len((((d \o c) \o t) \o b) \o j) + Len(r)
  BY <1>8, ConcatCodes, Zenon
<1>10. CaseCode(e, b, r) = ((((d \o c) \o t) \o b) \o j) \o r
  BY <1>3 DEF CaseCode
<1> QED BY <1>1, <1>4, <1>5, <1>6, <1>7, <1>8, <1>9, <1>10

(* ... and where its parts stand.                                          *)
LEMMA CasePlaces ==
  ASSUME NEW fun, NEW at \in Nat, NEW e \in Exprs, NEW b \in Codes, NEW r \in Codes,
         Placed(fun, at, CaseCode(e, b, r))
  PROVE  /\ Has(fun, at, Op("dup")) /\ Placed(fun, at + 1, ExprCode(e))
         /\ Has(fun, at + 2, Op("binOp")) /\ Has(fun, at + 3, JumpIf(FALSE, Len(b) + 3))
         /\ Has(fun, at + 4, Op("pop")) /\ Placed(fun, at + 5, b)
         /\ Has(fun, at + 5 + Len(b), Jump(Len(r) + 1)) /\ Placed(fun, at + 6 + Len(b), r)
<1>0. PICK L, K \in Nat : L = Len(b) /\ K = Len(r)
  BY ConcatCodes
<1>1. L + 3 \in Int /\ K + 1 \in Int
  OBVIOUS
<1>2. /\ JumpFalse(L + 3) \in Insts /\ Jump(K + 1) \in Insts
      /\ Op("dup") \in Insts /\ Op("binOp") \in Insts /\ Op("pop") \in Insts
  BY <1>1, OpsAre DEF OpNames
<1>3. PICK d, c, t, j \in Codes :
        /\ d = <<Op("dup")>> /\ c = ExprCode(e)
        /\ t = <<Op("binOp"), JumpFalse(L + 3), Op("pop")>> /\ j = <<Jump(K + 1)>>
  BY <1>2, ExprCodeIs, SmallCodes
<1>4. Len(d) = 1 /\ Len(c) = 1 /\ Len(t) = 3 /\ Len(j) = 1
  BY <1>3, ExprCodeIs
<1>5. PICK head \in Codes : head = (d \o c) \o t
  BY ConcatCodes
<1>6. PICK top \in Codes : top = head \o b
  BY ConcatCodes
<1>7. CaseCode(e, b, r) = (top \o j) \o r
  BY <1>0, <1>3, <1>5, <1>6 DEF CaseCode
<1>8. /\ Placed(fun, at, top) /\ Placed(fun, at + Len(top), j)
      /\ Placed(fun, at + Len(top) + Len(j), r)
  <2>1. Placed(fun, at, (top \o j) \o r)
    BY <1>7
  <2> QED BY <2>1, ThreeParts
<1>9. Placed(fun, at, head) /\ Placed(fun, at + Len(head), b) /\ Len(top) = Len(head) + Len(b)
  <2>1. Placed(fun, at, head \o b)
    BY <1>6, <1>8
  <2>2. Len(top) = Len(head) + Len(b)
    BY <1>6, ConcatCodes
  <2> QED BY <2>1, <2>2, PlacedParts, Zenon
<1>10. /\ Placed(fun, at, d) /\ Placed(fun, at + Len(d), c) /\ Placed(fun, at + Len(d) + Len(c), t)
       /\ Len(head) = Len(d) + Len(c) + Len(t)
  <2>1. Placed(fun, at, (d \o c) \o t)
    BY <1>5, <1>9
  <2> QED BY <1>5, <2>1, ThreeParts
<1>11. /\ Len(head) = 5 /\ Len(top) = 5 + L /\ at + (5 + L) = at + 5 + L
       /\ at + 5 + L + 1 = at + 6 + L /\ at + 1 + 1 = at + 2 /\ at + 2 + 1 = at + 3
       /\ at + 2 + 2 = at + 4 /\ at + 2 \in Nat /\ at + 5 + L \in Nat
  BY <1>0, <1>4, <1>9, <1>10
<1>12. /\ Placed(fun, at + 1, c) /\ Placed(fun, at + 2, t) /\ Placed(fun, at + 5, b)
       /\ Placed(fun, at + 5 + L, j) /\ Placed(fun, at + 6 + L, r)
  BY <1>0, <1>4, <1>8, <1>9, <1>10, <1>11
<1>13. Has(fun, at, Op("dup")) /\ Has(fun, at + 5 + L, Jump(K + 1))
  BY <1>3, <1>10, <1>11, <1>12, PlacedSmall, Zenon
<1>14. /\ Has(fun, at + 2, Op("binOp")) /\ Has(fun, at + 3, JumpFalse(L + 3))
       /\ Has(fun, at + 4, Op("pop"))
  <2>1. /\ Has(fun, at + 2, Op("binOp")) /\ Has(fun, at + 2 + 1, JumpFalse(L + 3))
        /\ Has(fun, at + 2 + 2, Op("pop"))
    BY <1>3, <1>11, <1>12, PlacedSmall, Zenon
  <2> QED BY <1>11, <2>1
<1> QED BY <1>0, <1>3, <1>12, <1>13, <1>14 DEF JumpFalse

(* A case of a Select, with the selector on the stack.                     *)
LEMMA CaseRuns ==
  ASSUME NEW fun, NEW s \in Statements, s.k = "select", NEW i \in Int, ~(i > Len(s.cases)),
         s.cases[i].e \in Exprs, IsArm(fun, s, s.cases[i].block), NEW y \in Values,
         NEW r \in Codes, CasesRun(fun, s, Push(<<>>, y), i + 1, r)
  PROVE  CasesRun(fun, s, Push(<<>>, y), i,
                  CaseCode(s.cases[i].e, BlockCode(s.cases[i].block), r))
<1>1. PICK e, block : e = s.cases[i].e /\ block = s.cases[i].block
  OBVIOUS
<1>2. PICK b \in Codes : b = BlockCode(block)
  BY <1>1, BlockCodeIs, SmallCodes DEF IsArm
<1>3. PICK L, K \in Nat : L = Len(b) /\ K = Len(r)
  BY ConcatCodes
<1>4. PICK st \in Stacks : st = Push(<<>>, y)
  BY NoStack, PushIs
<1> DEFINE c == CaseCode(e, b, r)
<1> SUFFICES
      ASSUME NEW at \in Nat, NEW lo \in SUBSET Names, NEW w \in SUBSET Vars,
             NEW v \in SUBSET (w \cup Writes[s]), NEW then, NEW marked,
             Placed(fun, at, c), MayRun(fun, Flow[s], marked), WhileHalts[s] => Trusts(fun)
      PROVE  Leads(fun, At(at, st, CasesFrom(s, i, v, then), marked, lo, v),
                   Behind(fun, Flow[s], At(at + Len(c), <<>>, then, marked, lo, w \cup Writes[s])))
  <2> HIDE DEF c
  <2>1. CasesRun(fun, s, st, i, c)
    BY Zenon DEF CasesRun
  <2> QED BY <1>1, <1>2, <1>4, <2>1 DEF c
<1>5. /\ Has(fun, at, Op("dup")) /\ Placed(fun, at + 1, ExprCode(e))
      /\ Has(fun, at + 2, Op("binOp")) /\ Has(fun, at + 3, JumpIf(FALSE, L + 3))
      /\ Has(fun, at + 4, Op("pop")) /\ Placed(fun, at + 5, b)
      /\ Has(fun, at + 5 + L, Jump(K + 1)) /\ Placed(fun, at + 6 + L, r)
      /\ Len(c) = 6 + L + K
  <2>1. e \in Exprs /\ Placed(fun, at, CaseCode(e, b, r))
    BY <1>1
  <2> HIDE DEF c
  <2>2. /\ Has(fun, at, Op("dup")) /\ Placed(fun, at + 1, ExprCode(e))
        /\ Has(fun, at + 2, Op("binOp")) /\ Has(fun, at + 3, JumpIf(FALSE, Len(b) + 3))
        /\ Has(fun, at + 4, Op("pop")) /\ Placed(fun, at + 5, b)
        /\ Has(fun, at + 5 + Len(b), Jump(Len(r) + 1)) /\ Placed(fun, at + 6 + Len(b), r)
    BY <2>1, CasePlaces, Zenon
  <2>3. Len(CaseCode(e, b, r)) = 6 + Len(b) + Len(r)
    BY <2>1, CaseLength
  <2> QED BY <1>3, <2>2, <2>3 DEF c
<1>6. PICK any : any = Val("any")
  OBVIOUS
<1>7. any \in Values /\ any.val = "any" /\ Push(st, y) \in Stacks
  BY <1>6, CellsAre, PushIs DEF Val
<1> DEFINE X == Behind(fun, Flow[s], At(at + Len(c), <<>>, then, marked, lo, w \cup Writes[s]))
           x == Cell(e)
           v2 == v \cup WritesOf(block)
           yes == BlockFrom(block, 1, v, then)
           no == CasesFrom(s, i + 1, v2, then)
           test == Test("any", yes, no)
           td == Evaluated(e, v, test)
           A == At(at, st, CasesFrom(s, i, v, then), marked, lo, v)
           U == At(at, st, td, marked, lo, v)
           U1 == At(at + 1, Push(st, y), td, marked, lo, v)
           U2 == At(at + 2, Push(Push(st, y), x), test, marked, lo, v)
           T == At(at + 3, Push(st, any), test, marked, lo, v)
           In == At(at + 4, st, yes, marked, lo, v)
           In1 == At(at + 5, <<>>, yes, marked, lo, v)
           Out == At(at + 6 + L, st, no, marked, lo, v2)
<1>8. /\ at + 1 + 1 = at + 2 /\ at + 2 + 1 = at + 3 /\ at + 3 + 1 = at + 4 /\ at + 4 + 1 = at + 5
      /\ at + 3 + (L + 3) = at + 6 + L /\ L + 3 \in Int /\ at + 1 \in Nat /\ at + 5 \in Nat
      /\ at + 6 + L \in Nat /\ K + 1 \in Nat /\ v \subseteq v /\ v \subseteq v2
  OBVIOUS
<1>9. at + 5 + L + (K + 1) = at + Len(c) /\ at + 6 + L + K = at + Len(c)
  <2>1. PICK n : n = Len(c)
    OBVIOUS
  <2>2. n = 6 + L + K
    BY <1>5, <2>1
  <2> HIDE DEF c
  <2>3. at + 5 + L + (K + 1) = at + n /\ at + 6 + L + K = at + n
    BY <2>2
  <2> QED BY <2>1, <2>3
<1>10. td.item \notin Parts /\ test.item \notin Parts /\ x \in Values
  BY <1>1, CellsAre DEF Evaluated, Effect, Test, Parts
<1>11. Steps(fun, A, U)
  <2>1. Case(s, i, v, then) = td
    BY <1>1 DEF Case
  <2>2. FitsToUnfold(Op("dup"), st, lo)
    BY <1>4, NoStack DEF FitsToUnfold, Op
  <2> HIDE DEF td
  <2>3. Steps(fun, A, At(at, st, Case(s, i, v, then), marked, lo, v))
    BY <1>5, <2>2, UnfoldCase
  <2> QED BY <2>1, <2>3
<1>12. Steps(fun, U, U1)
  <2> HIDE DEF td
  <2>1. Steps(fun, At(at, Push(<<>>, y), td, marked, lo, v),
                   At(at + 1, Push(Push(<<>>, y), y), td, marked, lo, v))
    BY <1>5, <1>10, NoStack, StackStep
  <2> QED BY <1>4, <2>1
<1>13. Steps(fun, U1, U2)
  <2> HIDE DEF test
  <2>1. Steps(fun, U1, At(at + 1 + 1, Push(Push(st, y), x), test, marked, lo, v))
    BY <1>1, <1>5, <1>7, <1>8, EvalStep
  <2> QED BY <1>8, <2>1
<1>14. Steps(fun, U2, T)
  <2> HIDE DEF test, x
  <2>1. Steps(fun, U2, At(at + 2 + 1, Push(st, any), test, marked, lo, v))
    BY <1>5, <1>6, <1>10, StackStep
  <2> QED BY <1>8, <2>1
<1>15. Steps(fun, T, In \cup Out)
  <2> DEFINE B == In \cup Out
  <2>1. In \subseteq B /\ Out \subseteq B
    OBVIOUS
  <2> HIDE DEF yes, no, B, v2
  <2>2. /\ At(at + 3 + 1, st, yes, marked, lo, v) \subseteq B
        /\ At(at + 3 + (L + 3), st, no, marked, lo, v2) \subseteq B
    BY <1>8, <2>1
  <2>3. Steps(fun, T, B)
    BY <1>5, <1>7, <1>8, <2>2, JumpIfStep
  <2> QED BY <2>3 DEF B
<1>16. Steps(fun, In, In1)
  <2> HIDE DEF yes
  <2>1. Steps(fun, At(at + 4, Push(<<>>, y), yes, marked, lo, v),
                   At(at + 4 + 1, <<>>, yes, marked, lo, v))
    BY <1>5, NoStack, PopStep
  <2> QED BY <1>4, <1>8, <2>1
<1>17. Leads(fun, In1, X)
  <2>1. Leads(fun, In1, Behind(fun, Flow[s], At(at + 5 + L + (K + 1), <<>>, then, marked, lo,
                                                w \cup Writes[s])))
    <3>1. IsArm(fun, s, block) /\ L = Len(BlockCode(block)) /\ Placed(fun, at + 5, BlockCode(block))
      BY <1>1, <1>2, <1>3, <1>5
    <3> QED BY <1>5, <1>8, <3>1, ArmRuns
  <2> HIDE DEF c
  <2> QED BY <1>9, <2>1
<1>18. Leads(fun, Out, X)
  <2>1. v2 \in SUBSET (w \cup Writes[s])
    BY <1>1 DEF IsArm
  <2>2. CasesRun(fun, s, st, i + 1, r)
    BY <1>4
  <2> HIDE DEF v2, c
  <2>3. Leads(fun, Out, Behind(fun, Flow[s], At(at + 6 + L + Len(r), <<>>, then, marked, lo,
                                                w \cup Writes[s])))
    BY <1>5, <1>8, <2>1, <2>2 DEF CasesRun
  <2> QED BY <1>3, <1>9, <2>3
<1>19. Leads(fun, A, X)
  <2> HIDE DEF A, U, U1, U2, T, In, In1, Out, X
  <2>1. Leads(fun, In, X)
    BY <1>16, <1>17, StepThen
  <2>2. Leads(fun, In \cup Out, X)
    BY <1>18, <2>1, LeadsEither
  <2> QED BY <1>11, <1>12, <1>13, <1>14, <1>15, <2>2, StepThen
<1> QED BY <1>19

(* What is done when no case was taken.                                    *)
ElseOf(s)    == IF s.other = <<>> THEN <<>> ELSE ElseCode(BlockCode(s.other[1]))
DefaultOf(s) == IF s.other = <<>> THEN <<Op("pop")>> ELSE DefaultCode(BlockCode(s.other[1]))

(* A block and the jump of one behind it.                                  *)
LEMMA BlockAndJump ==
  ASSUME NEW fun, NEW at \in Nat, NEW b \in Codes, Placed(fun, at, b \o <<Jump(1)>>)
  PROVE  Placed(fun, at, b) /\ Has(fun, at + Len(b), Jump(1)) /\ Len(b) \in Nat
<1>1. PICK j \in Codes : j = <<Jump(1)>>
  BY OpsAre, SmallCodes
<1>2. Placed(fun, at, b \o j)
  BY <1>1
<1>3. /\ Placed(fun, at, b) /\ Placed(fun, at + Len(b), j)
      /\ at + Len(b) \in Nat /\ Len(b) \in Nat
  BY <1>2, PlacedParts, Zenon
<1> QED BY <1>1, <1>3, PlacedSmall, Zenon

(* The code of Else and of Default.                                        *)
LEMMA EndCodes ==
  ASSUME NEW b \in Codes
  PROVE  /\ ElseCode(b) \in Codes /\ Len(ElseCode(b)) = Len(b) + 1
         /\ DefaultCode(b) \in Codes /\ Len(DefaultCode(b)) = Len(b) + 2
         /\ <<Op("pop")>> \in Codes /\ Len(<<Op("pop")>>) = 1
<1>1. PICK p, j \in Codes : p = <<Op("pop")>> /\ j = <<Jump(1)>>
  <2>1. Op("pop") \in Insts /\ Jump(1) \in Insts
    BY OpsAre DEF OpNames
  <2>2. <<Op("pop")>> \in Codes /\ <<Jump(1)>> \in Codes
    BY <2>1, SmallCodes, Zenon
  <2> QED BY <2>2
<1>2. Len(p) = 1 /\ Len(j) = 1 /\ Len(b) \in Nat
  BY <1>1, ConcatCodes
<1>3. b \o j \in Codes /\ Len(b \o j) = Len(b) + Len(j)
  BY ConcatCodes, Zenon
<1>4. p \o b \in Codes /\ Len(p \o b) = Len(p) + Len(b)
  BY ConcatCodes, Zenon
<1>5. (p \o b) \o j \in Codes /\ Len((p \o b) \o j) = Len(p \o b) + Len(j)
  BY <1>4, ConcatCodes, Zenon
<1>6. ElseCode(b) = b \o j /\ DefaultCode(b) = (p \o b) \o j
  BY <1>1 DEF ElseCode, DefaultCode
<1> QED BY <1>1, <1>2, <1>3, <1>4, <1>5, <1>6

(* An If without a case taken does its Else, ...                           *)
LEMMA ElseRuns ==
  ASSUME NEW fun, NEW s \in Statements, NEW i \in Int, i > Len(s.cases),
         s.other # <<>> => IsArm(fun, s, s.other[1]), s.other = <<>> => Flow[s] # HALT
  PROVE  CasesRun(fun, s, <<>>, i, ElseOf(s))
<1> DEFINE c == ElseOf(s)
<1> SUFFICES
      ASSUME NEW at \in Nat, NEW lo \in SUBSET Names, NEW w \in SUBSET Vars,
             NEW v \in SUBSET (w \cup Writes[s]), NEW then, NEW marked,
             Placed(fun, at, c), MayRun(fun, Flow[s], marked), WhileHalts[s] => Trusts(fun)
      PROVE  Leads(fun, At(at, <<>>, CasesFrom(s, i, v, then), marked, lo, v),
                   Behind(fun, Flow[s], At(at + Len(c), <<>>, then, marked, lo, w \cup Writes[s])))
  <2> HIDE DEF c
  <2>1. CasesRun(fun, s, <<>>, i, c)
    BY Zenon DEF CasesRun
  <2> QED BY <2>1 DEF c
<1>1. CASE s.other = <<>>
  <2>1. CasesFrom(s, i, v, then) = then
    BY <1>1 DEF CasesFrom
  <2>2. at + Len(c) = at
    BY <1>1 DEF ElseOf
  <2>3. Behind(fun, Flow[s], At(at + Len(c), <<>>, then, marked, lo, w \cup Writes[s]))
          = At(at, <<>>, then, marked, lo, w \cup Writes[s])
    BY <1>1, <2>2 DEF Behind
  <2>4. At(at, <<>>, then, marked, lo, v) \subseteq At(at, <<>>, then, marked, lo, w \cup Writes[s])
    BY AtGrows
  <2> HIDE DEF c
  <2> QED BY <2>1, <2>3, <2>4, LeadsThere
<1>2. CASE s.other # <<>>
  <2>1. PICK block : block = s.other[1]
    OBVIOUS
  <2>2. IsArm(fun, s, block)
    BY <1>2, <2>1
  <2>3. PICK b \in Codes : b = BlockCode(block)
    BY <2>2, BlockCodeIs, SmallCodes DEF IsArm
  <2>4. c = b \o <<Jump(1)>> /\ c = ElseCode(b)
    BY <1>2, <2>1, <2>3 DEF ElseOf, ElseCode
  <2>5. CasesFrom(s, i, v, then) = BlockFrom(block, 1, v, then)
    BY <1>2, <2>1 DEF CasesFrom
  <2> HIDE DEF c
  <2>6. Placed(fun, at, b \o <<Jump(1)>>)
    BY <2>4
  <2>7. Placed(fun, at, b) /\ Has(fun, at + Len(b), Jump(1)) /\ Len(b) \in Nat
    BY <2>6, BlockAndJump, Zenon
  <2>8. PICK L \in Nat : L = Len(b)
    BY <2>7
  <2>9. /\ L = Len(BlockCode(block)) /\ Placed(fun, at, BlockCode(block))
        /\ Has(fun, at + L, Jump(1)) /\ 1 \in Nat
    BY <2>3, <2>7, <2>8
  <2>10. Leads(fun, At(at, <<>>, BlockFrom(block, 1, v, then), marked, lo, v),
               Behind(fun, Flow[s], At(at + L + 1, <<>>, then, marked, lo, w \cup Writes[s])))
    BY <2>2, <2>9, ArmRuns
  <2>11. at + L + 1 = at + Len(c)
    <3>1. Len(c) = L + 1
      BY <2>4, <2>8, EndCodes
    <3> QED BY <3>1
  <2> QED BY <2>5, <2>10, <2>11
<1> QED BY <1>1, <1>2

(* ... and a Select its Default, or drops its selector.                    *)
LEMMA DefaultRuns ==
  ASSUME NEW fun, NEW s \in Statements, NEW i \in Int, i > Len(s.cases), NEW y \in Values,
         s.other # <<>> => IsArm(fun, s, s.other[1]), s.other = <<>> => Flow[s] # HALT
  PROVE  CasesRun(fun, s, Push(<<>>, y), i, DefaultOf(s))
<1> DEFINE c == DefaultOf(s)
           st == Push(<<>>, y)
<1> SUFFICES
      ASSUME NEW at \in Nat, NEW lo \in SUBSET Names, NEW w \in SUBSET Vars,
             NEW v \in SUBSET (w \cup Writes[s]), NEW then, NEW marked,
             Placed(fun, at, c), MayRun(fun, Flow[s], marked), WhileHalts[s] => Trusts(fun)
      PROVE  Leads(fun, At(at, st, CasesFrom(s, i, v, then), marked, lo, v),
                   Behind(fun, Flow[s], At(at + Len(c), <<>>, then, marked, lo, w \cup Writes[s])))
  <2> HIDE DEF c, st
  <2>1. CasesRun(fun, s, st, i, c)
    BY Zenon DEF CasesRun
  <2> QED BY <2>1 DEF c, st
<1>0. ASSUME Has(fun, at, Op("pop")), NEW td
      PROVE  Steps(fun, At(at, st, td, marked, lo, v), At(at + 1, <<>>, td, marked, lo, v))
  BY <1>0, NoStack, PopStep
<1>1. CASE s.other = <<>>
  <2>1. CasesFrom(s, i, v, then) = then
    BY <1>1 DEF CasesFrom
  <2>2. at + Len(c) = at + 1 /\ Has(fun, at, Op("pop"))
    <3>1. c = <<Op("pop")>>
      BY <1>1 DEF DefaultOf
    <3>2. Len(c) = 1
      BY <3>1
    <3>3. Placed(fun, at, <<Op("pop")>>)
      BY <3>1
    <3> HIDE DEF c
    <3>4. Has(fun, at, Op("pop"))
      BY <3>3, PlacedSmall, Zenon
    <3> QED BY <3>2, <3>4
  <2>3. Behind(fun, Flow[s], At(at + Len(c), <<>>, then, marked, lo, w \cup Writes[s]))
          = At(at + 1, <<>>, then, marked, lo, w \cup Writes[s])
    BY <1>1, <2>2 DEF Behind
  <2>4. At(at + 1, <<>>, then, marked, lo, v)
          \subseteq At(at + 1, <<>>, then, marked, lo, w \cup Writes[s])
    BY AtGrows
  <2>5. Steps(fun, At(at, st, then, marked, lo, v), At(at + 1, <<>>, then, marked, lo, v))
    BY <1>0, <2>2
  <2> HIDE DEF c, st
  <2> QED BY <2>1, <2>3, <2>4, <2>5, LeadsThere, StepThen
<1>2. CASE s.other # <<>>
  <2>1. PICK block : block = s.other[1]
    OBVIOUS
  <2>2. IsArm(fun, s, block)
    BY <1>2, <2>1
  <2>3. PICK b \in Codes : b = BlockCode(block)
    BY <2>2, BlockCodeIs, SmallCodes DEF IsArm
  <2>4. PICK p, j \in Codes : p = <<Op("pop")>> /\ j = <<Jump(1)>>
    <3>1. Op("pop") \in Insts /\ Jump(1) \in Insts
      BY OpsAre DEF OpNames
    <3>2. <<Op("pop")>> \in Codes /\ <<Jump(1)>> \in Codes
      BY <3>1, SmallCodes, Zenon
    <3> QED BY <3>2
  <2>5. c = (p \o b) \o j /\ c = DefaultCode(b)
    BY <1>2, <2>1, <2>3, <2>4 DEF DefaultOf, DefaultCode
  <2>6. CasesFrom(s, i, v, then) = BlockFrom(block, 1, v, then)
    BY <1>2, <2>1 DEF CasesFrom
  <2> HIDE DEF c, st
  <2>7. PICK L \in Nat : L = Len(b)
    BY ConcatCodes
  <2>8. Placed(fun, at, p) /\ Placed(fun, at + Len(p), b) /\ Placed(fun, at + Len(p) + Len(b), j)
    <3>1. Placed(fun, at, (p \o b) \o j)
      BY <2>5
    <3> QED BY <3>1, ThreeParts
  <2>9. Placed(fun, at + 1, b) /\ Placed(fun, at + 1 + L, j) /\ at + 1 \in Nat /\ at + 1 + L \in Nat
    <3>1. Len(p) = 1
      BY <2>4
    <3> QED BY <2>7, <2>8, <3>1
  <2>10. Has(fun, at, Op("pop")) /\ Has(fun, at + 1 + L, Jump(1))
    BY <2>4, <2>8, <2>9, PlacedSmall, Zenon
  <2>11. L = Len(BlockCode(block)) /\ Placed(fun, at + 1, BlockCode(block)) /\ 1 \in Nat
    BY <2>3, <2>7, <2>9
  <2>12. Leads(fun, At(at + 1, <<>>, BlockFrom(block, 1, v, then), marked, lo, v),
               Behind(fun, Flow[s], At(at + 1 + L + 1, <<>>, then, marked, lo, w \cup Writes[s])))
    BY <2>2, <2>9, <2>10, <2>11, ArmRuns
  <2>13. at + 1 + L + 1 = at + Len(c)
    <3>1. Len(c) = L + 2
      BY <2>5, <2>7, EndCodes
    <3> QED BY <3>1
  <2>14. Steps(fun, At(at, st, BlockFrom(block, 1, v, then), marked, lo, v),
                    At(at + 1, <<>>, BlockFrom(block, 1, v, then), marked, lo, v))
    BY <1>0, <2>10
  <2> QED BY <2>6, <2>12, <2>13, <2>14, StepThen
<1> QED BY <1>1, <1>2

(* All cases, from the last to the first.                                  *)
LEMMA AllCasesRun ==
  ASSUME NEW fun, NEW s \in Statements, s.k \in Branches,
         \A i \in 1..Len(Blocks(s)) : BlockRunsWell(fun, Blocks(s)[i]), NEW y \in Values,
         NEW st, st = IF s.k = "if" THEN <<>> ELSE Push(<<>>, y),
         NEW otherwise \in Codes, otherwise = IF s.k = "if" THEN ElseOf(s) ELSE DefaultOf(s)
  PROVE  /\ CasesRun(fun, s, st, 1, CasesCode(s, CodesOf(s), otherwise))
         /\ CasesCode(s, CodesOf(s), otherwise) \in Codes
<1>1. /\ Len(s.cases) \in Nat
      /\ \A i \in 1..Len(s.cases) :
           /\ s.cases[i].e \in Exprs /\ IsArm(fun, s, s.cases[i].block)
           /\ CodesOf(s)[i] = BlockCode(s.cases[i].block)
      /\ s.other # <<>> => IsArm(fun, s, s.other[1])
      /\ s.other = <<>> => Flow[s] # HALT
  BY BranchIs
<1>2. PICK N \in Nat : N = Len(s.cases)
  BY <1>1
<1>3. \A i \in 1..N : CodesOf(s)[i] \in Codes
  BY <1>1, <1>2, BlockCodeIs, SmallCodes DEF IsArm
<1>4. HasCasesCode(s, CodesOf(s), otherwise)
  BY <1>1, <1>2, <1>3, CasesCodeIs
<1>5. PICK g \in [0..N -> Codes] :
        /\ g[0] = otherwise
        /\ \A n \in 1..N :
             g[n] = CaseOf(s, s.cases[N + 1 - n].e, CodesOf(s)[N + 1 - n], g[n - 1])
        /\ CasesCode(s, CodesOf(s), otherwise) = g[N]
  <2>1. PICK M : M = Len(s.cases)
    OBVIOUS
  <2>2. \E g \in [0..M -> Codes] :
          /\ g[0] = otherwise
          /\ \A n \in 1..M :
               g[n] = CaseOf(s, s.cases[M + 1 - n].e, CodesOf(s)[M + 1 - n], g[n - 1])
          /\ CasesCode(s, CodesOf(s), otherwise) = g[M]
    BY <1>4, <2>1, Zenon DEF HasCasesCode
  <2> QED BY <1>2, <2>1, <2>2
<1> DEFINE S == {n \in 0..N : CasesRun(fun, s, st, N + 1 - n, g[n])}
<1>6. 0 \in S
  <2>1. N + 1 - 0 = N + 1 /\ N + 1 \in Int /\ N + 1 > N /\ 0 \in 0..N
    OBVIOUS
  <2>2. CASE s.k = "if"
    <3>1. CasesRun(fun, s, <<>>, N + 1, ElseOf(s))
      BY <1>1, <1>2, <2>1, ElseRuns
    <3> QED BY <1>5, <2>1, <2>2, <3>1
  <2>3. CASE s.k # "if"
    <3>1. CasesRun(fun, s, Push(<<>>, y), N + 1, DefaultOf(s))
      BY <1>1, <1>2, <2>1, DefaultRuns
    <3> QED BY <1>5, <2>1, <2>3, <3>1
  <2> QED BY <2>2, <2>3
<1>7. ASSUME NEW n \in 0..(N - 1), n \in S PROVE n + 1 \in S
  <2>1. PICK i : i = N - n
    OBVIOUS
  <2>2. /\ i \in 1..N /\ i \in Int /\ ~(i > N) /\ N + 1 - n = i + 1 /\ N + 1 - (n + 1) = i
        /\ n + 1 \in 1..N /\ n + 1 \in 0..N /\ (n + 1) - 1 = n /\ n \in 0..N
    BY <2>1
  <2>3. PICK e, block : e = s.cases[i].e /\ block = s.cases[i].block
    OBVIOUS
  <2>4. e \in Exprs /\ IsArm(fun, s, block) /\ CodesOf(s)[i] = BlockCode(block)
    BY <1>1, <1>2, <2>2, <2>3
  <2>5. g[n] \in Codes /\ CasesRun(fun, s, st, i + 1, g[n])
    BY <1>7, <2>2
  <2>6. g[n + 1] = CaseOf(s, e, BlockCode(block), g[n])
    <3>1. g[n + 1] = CaseOf(s, s.cases[N + 1 - (n + 1)].e, CodesOf(s)[N + 1 - (n + 1)],
                            g[(n + 1) - 1])
      BY <1>5, <2>2
    <3> QED BY <2>2, <2>3, <2>4, <3>1
  <2>7. CasesRun(fun, s, st, i, g[n + 1])
    <3>1. CASE s.k = "if"
      <4>1. CasesRun(fun, s, <<>>, i + 1, g[n])
        BY <2>5, <3>1
      <4>2. CasesRun(fun, s, <<>>, i, CondCode(s.cases[i].e, BlockCode(s.cases[i].block), g[n]))
        BY <1>2, <2>2, <2>3, <2>4, <2>5, <3>1, <4>1, CondRuns
      <4> QED BY <2>3, <2>6, <3>1, <4>2 DEF CaseOf
    <3>2. CASE s.k = "select"
      <4>1. CasesRun(fun, s, Push(<<>>, y), i + 1, g[n])
        BY <2>5, <3>2
      <4>2. CasesRun(fun, s, Push(<<>>, y), i,
                     CaseCode(s.cases[i].e, BlockCode(s.cases[i].block), g[n]))
        BY <1>2, <2>2, <2>3, <2>4, <2>5, <3>2, <4>1, CaseRuns
      <4> QED BY <2>3, <2>6, <3>2, <4>2 DEF CaseOf
    <3> QED BY <3>1, <3>2 DEF Branches
  <2> QED BY <2>2, <2>7
<1>8. N \in S
  <2> HIDE DEF S
  <2>1. \A n \in 0..N : n \in S
    BY <1>6, <1>7, UpFromZero
  <2> QED BY <2>1
<1>9. N + 1 - N = 1 /\ N \in 0..N
  OBVIOUS
<1> QED BY <1>5, <1>8, <1>9

(* An If runs well if its blocks do, ...                                   *)
LEMMA IfRuns ==
  ASSUME NEW fun, NEW s \in Statements, s.k = "if",
         \A i \in 1..Len(Blocks(s)) : BlockRunsWell(fun, Blocks(s)[i])
  PROVE  RunsWell(fun, s)
<1>1. PICK c : c = CasesCode(s, CodesOf(s), ElseOf(s))
  OBVIOUS
<1>2. s.other # <<>> => /\ CodesOf(s)[Len(CodesOf(s))] = BlockCode(s.other[1])
                        /\ IsArm(fun, s, s.other[1])
  BY BranchIs DEF Branches
<1>3. ElseOf(s) \in Codes
  BY <1>2, BlockCodeIs, SmallCodes, EndCodes DEF ElseOf, IsArm
<1>4. CasesRun(fun, s, <<>>, 1, c)
  BY <1>1, <1>3, CellsAre, AllCasesRun DEF Branches
<1>5. StmtCode[s] = c
  <2>1. StmtCode[s] = IfCode(s, CodesOf(s))
    BY StmtCodeIs DEF CodeWith
  <2> QED BY <1>1, <1>2, <2>1 DEF IfCode, ElseOf
<1> SUFFICES
      ASSUME NEW at \in Nat, NEW lo \in SUBSET Names, NEW w \in SUBSET Vars,
             NEW then, NEW marked,
             Placed(fun, at, StmtCode[s]), MayRun(fun, Flow[s], marked),
             WhileHalts[s] => Trusts(fun)
      PROVE  Leads(fun, At(at, <<>>, Stmt(s, w, then), marked, lo, w),
                   Behind(fun, Flow[s], At(at + Len(StmtCode[s]), <<>>, then, marked, lo,
                                           w \cup Writes[s])))
  BY DEF RunsWell
<1>6. Steps(fun, At(at, <<>>, Stmt(s, w, then), marked, lo, w),
                 At(at, <<>>, CasesFrom(s, 1, w, then), marked, lo, w))
  <2>1. marked \cup Once(s) = marked
    BY DEF Once, InfiniteLoop
  <2>2. StmtMeaning(s, w, then) = CasesFrom(s, 1, w, then)
    BY DEF StmtMeaning
  <2> QED BY <2>1, <2>2, UnfoldStmt
<1>7. Leads(fun, At(at, <<>>, CasesFrom(s, 1, w, then), marked, lo, w),
            Behind(fun, Flow[s], At(at + Len(c), <<>>, then, marked, lo, w \cup Writes[s])))
  <2>1. w \in SUBSET (w \cup Writes[s]) /\ Placed(fun, at, c)
    BY <1>5
  <2> QED BY <1>4, <2>1 DEF CasesRun
<1> QED BY <1>5, <1>6, <1>7, StepThen

(* ... and a Select, which evaluates its selector first.                   *)
LEMMA SelectRuns ==
  ASSUME NEW fun, NEW s \in Statements, s.k = "select",
         \A i \in 1..Len(Blocks(s)) : BlockRunsWell(fun, Blocks(s)[i])
  PROVE  RunsWell(fun, s)
<1>1. PICK c : c = CasesCode(s, CodesOf(s), DefaultOf(s))
  OBVIOUS
<1>2. s.other # <<>> => /\ CodesOf(s)[Len(CodesOf(s))] = BlockCode(s.other[1])
                        /\ IsArm(fun, s, s.other[1])
  BY BranchIs DEF Branches
<1>3. DefaultOf(s) \in Codes
  <2>1. <<Op("pop")>> \in Codes
    BY SmallCodes, OpsAre DEF OpNames
  <2> QED BY <1>2, <2>1, BlockCodeIs, SmallCodes, EndCodes DEF DefaultOf, IsArm
<1>4. s.e \in Exprs
  BY AllAreStatements DEF IsStatement
<1>5. PICK x \in Values : x = Cell(s.e)
  BY <1>4, CellsAre
<1>6. CasesRun(fun, s, Push(<<>>, x), 1, c) /\ c \in Codes
  BY <1>1, <1>3, AllCasesRun DEF Branches
<1>7. StmtCode[s] = ExprCode(s.e) \o c
  <2>1. StmtCode[s] = SelectCode(s, CodesOf(s))
    BY StmtCodeIs DEF CodeWith
  <2> QED BY <1>1, <1>2, <2>1 DEF SelectCode, DefaultOf
<1>8. PICK K \in Nat : K = Len(c)
  BY <1>6, ConcatCodes
<1> SUFFICES
      ASSUME NEW at \in Nat, NEW lo \in SUBSET Names, NEW w \in SUBSET Vars,
             NEW then, NEW marked,
             Placed(fun, at, StmtCode[s]), MayRun(fun, Flow[s], marked),
             WhileHalts[s] => Trusts(fun)
      PROVE  Leads(fun, At(at, <<>>, Stmt(s, w, then), marked, lo, w),
                   Behind(fun, Flow[s], At(at + Len(StmtCode[s]), <<>>, then, marked, lo,
                                           w \cup Writes[s])))
  BY DEF RunsWell
<1>9. /\ Placed(fun, at, ExprCode(s.e)) /\ Placed(fun, at + 1, c)
      /\ at + Len(StmtCode[s]) = at + 1 + K
  <2>1. PICK e \in Codes : e = ExprCode(s.e) /\ Len(e) = 1
    BY <1>4, ExprCodeIs, SmallCodes
  <2>2. Placed(fun, at, e \o c)
    BY <1>7, <2>1
  <2>3. Placed(fun, at, e) /\ Placed(fun, at + Len(e), c)
    BY <1>6, <2>2, PlacedParts, Zenon
  <2>4. Len(e \o c) = Len(e) + Len(c)
    BY <1>6, ConcatCodes, Zenon
  <2> QED BY <1>7, <1>8, <2>1, <2>3, <2>4
<1> DEFINE A == At(at, <<>>, Stmt(s, w, then), marked, lo, w)
           B == At(at, <<>>, StmtMeaning(s, w, then), marked, lo, w)
           C == At(at + 1, Push(<<>>, x), CasesFrom(s, 1, w, then), marked, lo, w)
           X == Behind(fun, Flow[s], At(at + 1 + K, <<>>, then, marked, lo, w \cup Writes[s]))
<1>10. Steps(fun, A, B)
  <2>1. marked \cup Once(s) = marked
    BY DEF Once, InfiniteLoop
  <2> QED BY <2>1, UnfoldStmt
<1>11. Steps(fun, B, C)
  <2>1. StmtMeaning(s, w, then) = Evaluated(s.e, w, CasesFrom(s, 1, w, then))
    BY DEF StmtMeaning
  <2> QED BY <1>4, <1>5, <1>9, <2>1, NoStack, EvalStep
<1>12. Leads(fun, C, X)
  <2>1. w \in SUBSET (w \cup Writes[s]) /\ at + 1 \in Nat
    OBVIOUS
  <2> QED BY <1>6, <1>8, <1>9, <2>1 DEF CasesRun
<1>13. Leads(fun, A, X)
  <2> HIDE DEF A, B, C, X
  <2> QED BY <1>10, <1>11, <1>12, StepThen
<1> QED BY <1>9, <1>13

(***************************************************************************)
(* Every statement runs well.                                              *)
(***************************************************************************)
LEMMA AllRun ==
  ASSUME NEW fun
  PROVE  \A s \in Statements : RunsWell(fun, s)
<1> DEFINE Q == {s \in Statements : RunsWell(fun, s)}
<1>1. ASSUME NEW s \in Statements, \A i \in 1..Len(Blocks(s)) : Blocks(s)[i] \in Seq(Q)
      PROVE  s \in Q
  <2>1. ASSUME NEW i \in 1..Len(Blocks(s)) PROVE BlockRunsWell(fun, Blocks(s)[i])
    <3>1. PICK block \in Seq(Q) : block = Blocks(s)[i]
      BY <1>1
    <3>2. block \in Seq(Statements)
      BY <3>1, OfBlockIs
    <3>3. \A j \in DOMAIN block : block[j] \in Q
      <4> HIDE DEF Q
      <4> QED BY LenProperties, ElementOfSeq
    <3>4. \A j \in DOMAIN block : RunsWell(fun, block[j])
      BY <3>3
    <3> QED BY <3>1, <3>2, <3>4, BlockRuns
  <2>2. s.k \in Loops => BlockRunsWell(fun, s.block)
    <3>1. s.k \in Loops => Blocks(s) = <<s.block>>
      BY AllAreStatements, BlocksAre
    <3>2. s.k \in Loops => 1 \in 1..Len(Blocks(s)) /\ Blocks(s)[1] = s.block
      BY <3>1
    <3> QED BY <2>1, <3>2
  <2>3. RunsWell(fun, s)
    <3>1. \/ s.k \in {"display", "set", "call", "return"}
          \/ s.k = "if" \/ s.k = "select" \/ s.k = "while" \/ s.k = "do"
          \/ s.k = "for" \/ s.k = "foreach"
      BY AllAreStatements DEF IsStatement
    <3>2. CASE s.k \in {"display", "set", "call", "return"}
      BY <3>2, SimpleRuns
    <3>3. CASE s.k = "if"
      BY <2>1, <3>3, IfRuns
    <3>4. CASE s.k = "select"
      BY <2>1, <3>4, SelectRuns
    <3>5. CASE s.k = "while"
      BY <2>2, <3>5, WhileRuns DEF Loops
    <3>6. CASE s.k = "do"
      BY <2>2, <3>6, DoRuns DEF Loops
    <3>7. CASE s.k = "for"
      BY <2>2, <3>7, ForRuns DEF Loops
    <3>8. CASE s.k = "foreach"
      BY <2>2, <3>8, ForEachRuns DEF Loops
    <3> QED BY <3>1, <3>2, <3>3, <3>4, <3>5, <3>6, <3>7, <3>8
  <2> QED BY <2>3
<1>2. Statements \subseteq Q
  <2> HIDE DEF Q
  <2> QED BY <1>1, FromInside
<1> QED BY <1>2

(***************************************************************************)
(* A function, from its first instruction to its last.                     *)
(***************************************************************************)
Begins(fun) == At(1, <<>>, Effect("begin", "", BlockFrom(fun, 1, {}, Done)), {}, {}, {})

(* The code of a function: Begin, its body, End.                           *)
LEMMA FunctionCodeIs ==
  ASSUME NEW fun \in Seq(Statements)
  PROVE  /\ Has(fun, 1, Op("begin")) /\ Placed(fun, 2, BlockCode(fun))
         /\ Has(fun, 2 + Len(BlockCode(fun)), Op("end")) /\ Len(BlockCode(fun)) \in Nat
<1>1. PICK a, b, e \in Codes : a = <<Op("begin")>> /\ b = BlockCode(fun) /\ e = <<Op("end")>>
  <2>1. Op("begin") \in Insts /\ Op("end") \in Insts
    BY OpsAre DEF OpNames
  <2>2. <<Op("begin")>> \in Codes /\ <<Op("end")>> \in Codes
    BY <2>1, SmallCodes, Zenon
  <2> QED BY <2>2, BlockCodeIs, SmallCodes
<1>2. PICK L \in Nat : L = Len(b)
  BY ConcatCodes
<1>3. PICK c \in Codes : c = (a \o b) \o e
  BY ConcatCodes
<1>4. FunctionCode(fun) = c
  BY <1>1, <1>3 DEF FunctionCode
<1>5. Placed(fun, 1, c)
  <2>1. DOMAIN c = 1..Len(c) /\ Len(c) \in Nat
    BY LenProperties DEF Codes
  <2>2. \A i \in 1..Len(c) : 1 + i - 1 = i
    BY <2>1
  <2> QED BY <1>4, <2>1, <2>2 DEF Placed, Has
<1>6. /\ Placed(fun, 1, a) /\ Placed(fun, 1 + Len(a), b) /\ Placed(fun, 1 + Len(a) + Len(b), e)
  <2>1. Placed(fun, 1, (a \o b) \o e) /\ 1 \in Nat
    BY <1>3, <1>5
  <2> QED BY <2>1, ThreeParts
<1>7. Placed(fun, 2, b) /\ Placed(fun, 2 + L, e) /\ 1 \in Nat /\ 2 + L \in Nat
  <2>1. Len(a) = 1
    BY <1>1
  <2> QED BY <1>2, <1>6, <2>1
<1>8. Has(fun, 1, Op("begin")) /\ Has(fun, 2 + L, Op("end"))
  BY <1>1, <1>6, <1>7, PlacedSmall, Zenon
<1> QED BY <1>1, <1>2, <1>7, <1>8

(* Every run of a function is good, and leads nowhere outside of it.       *)
LEMMA FunctionRuns ==
  ASSUME NEW fun \in Seq(Statements)
  PROVE  Leads(fun, Begins(fun), {})
<1>1. PICK L \in Nat : L = Len(BlockCode(fun))
  BY FunctionCodeIs
<1>2. /\ Has(fun, 1, Op("begin")) /\ Placed(fun, 2, BlockCode(fun)) /\ Has(fun, 2 + L, Op("end"))
  BY <1>1, FunctionCodeIs
<1> DEFINE body == BlockFrom(fun, 1, {}, Done)
           B == At(2, <<>>, body, {}, {}, {})
           C == At(2 + L, <<>>, Done, {}, {}, {} \cup WritesOf(fun))
<1>3. Steps(fun, Begins(fun), B)
  <2>1. 1 + 1 = 2
    OBVIOUS
  <2> HIDE DEF body
  <2>2. Steps(fun, At(1, <<>>, Effect("begin", "", body), {}, {}, {}),
                   At(1 + 1, <<>>, body, {}, {}, {}))
    BY <1>2, BeginStep
  <2> QED BY <2>1, <2>2 DEF Begins, body
<1>4. Leads(fun, B, Behind(fun, FlowOf(fun), C))
  <2>1. BlockRunsWell(fun, fun)
    <3>1. \A j \in DOMAIN fun : RunsWell(fun, fun[j])
      BY AllRun, LenProperties, ElementOfSeq
    <3> QED BY <3>1, BlockRuns
  <2>2. MayRun(fun, FlowOf(fun), {}) /\ \A j \in DOMAIN fun : WhileHalts[fun[j]] => Trusts(fun)
    BY DEF MayRun, Endless, Trusts
  <2>3. 2 \in Nat /\ {} \in SUBSET Names /\ {} \in SUBSET Vars
    OBVIOUS
  <2> QED BY <1>1, <1>2, <2>1, <2>2, <2>3 DEF BlockRunsWell
<1>5. Leads(fun, Behind(fun, FlowOf(fun), C), {})
  <2>1. CASE FlowOf(fun) = HALT /\ ~Trusts(fun)
    <3>1. Behind(fun, FlowOf(fun), C) = {}
      BY <2>1 DEF Behind
    <3> QED BY <3>1, LeadsThere
  <2>2. CASE FlowOf(fun) # HALT \/ Trusts(fun)
    <3>1. Behind(fun, FlowOf(fun), C) = C
      BY <2>2 DEF Behind
    <3>2. ~Endless({})
      BY DEF Endless
    <3>3. Steps(fun, C, {})
      BY <1>2, <2>2, <3>2, EndStep
    <3> QED BY <3>1, <3>3, LeadsStep
  <2> QED BY <2>1, <2>2
<1> HIDE DEF B, C
<1> QED BY <1>3, <1>4, <1>5, StepThen, LeadsThrough

(* The points a run of the function comes to are among these.              *)
Covers(fun, P) == Begins(fun) \subseteq P /\ Steps(fun, P, P)
PointsOf(fun)  == CHOOSE P : Covers(fun, P)

(* PointsOf(fun) has the first point, and with a point all that follow it. *)
LEMMA PointsAre ==
  ASSUME NEW fun \in Seq(Statements)
  PROVE  Begins(fun) \subseteq PointsOf(fun) /\ Steps(fun, PointsOf(fun), PointsOf(fun))
<1>1. PICK P : Begins(fun) \subseteq P \cup {} /\ Steps(fun, P, P \cup {})
  BY FunctionRuns DEF Leads
<1>2. P \cup {} = P
  OBVIOUS
<1>3. Covers(fun, P)
  BY <1>1, <1>2 DEF Covers
<1>4. Covers(fun, PointsOf(fun))
  BY <1>3, Zenon DEF PointsOf
<1> QED BY <1>4 DEF Covers

(***************************************************************************)
(* The inductive invariant: a running machine is at one of the points, and *)
(* a machine that has left the function left it as the analyses said.      *)
(***************************************************************************)
Now == Point(pc, eval, locals, back, todo, marks \cap {"infinite"})

Shaped ==
  /\ fn \in Functions /\ code = FunctionCode(fn)
  /\ pc \in DOMAIN code /\ eval \in Stacks /\ locals \subseteq Names /\ back \in BOOLEAN

Left ==
  /\ status = "ended" => (FlowOf(fn) # HALT \/ Trusts(fn)) /\ "infinite" \notin marks
  /\ status = "returned" => FlowOf(fn) # CONTINUE /\ "infinite" \notin marks

IInv ==
  /\ Shaped
  /\ status \in {"running", "returned", "ended", "unassigned"}
  /\ marks \subseteq {"unreachable", "infinite"}
  /\ "unreachable" \in marks => Trusts(fn)
  /\ status = "running" => Now \in PointsOf(fn)
  /\ Left

(* The parts of the point where the machine is.                            *)
LEMMA NowIs ==
  /\ Now.pc = pc /\ Now.eval = eval /\ Now.locals = locals /\ Now.back = back
  /\ Now.todo = todo /\ Now.marked = marks \cap {"infinite"}
BY DEF Now, Point

(* There the instruction is good, and it moves to another of the points.   *)
LEMMA NowIsGood ==
  ASSUME IInv, status = "running"
  PROVE  /\ GoodAt(fn, Inst, Now) /\ \A d : Moves(Inst, Now, d) => d \in PointsOf(fn)
         /\ FitsAt(Inst, Now)
         /\ ~Waits(Inst, Now) => AgreesAt(Inst, Now) /\ LeavesAt(fn, Inst, Now)
<1>1. fn \in Seq(Statements) /\ code = FunctionCode(fn) /\ Now \in PointsOf(fn)
  BY FunctionsAssumption DEF IInv, Shaped
<1>2. GoodInto(fn, Now, PointsOf(fn))
  BY <1>1, PointsAre DEF Steps
<1>3. FunctionCode(fn)[Now.pc] = Inst
  BY <1>1, NowIs DEF Inst
<1>4. GoodAt(fn, Inst, Now) /\ \A d : Moves(Inst, Now, d) => d \in PointsOf(fn)
  BY <1>2, <1>3 DEF GoodInto
<1> QED BY <1>4, Zenon DEF GoodAt

(* What a point is like.                                                   *)
LEMMA PointShape ==
  ASSUME NEW fun \in Functions, NEW c \in PointsOf(fun)
  PROVE  /\ c.pc \in DOMAIN FunctionCode(fun) /\ c.eval \in Stacks
         /\ c.locals \subseteq Names /\ c.back \in BOOLEAN
<1>1. fun \in Seq(Statements)
  BY FunctionsAssumption
<1>2. GoodInto(fun, c, PointsOf(fun))
  BY <1>1, PointsAre DEF Steps
<1>3. GoodAt(fun, FunctionCode(fun)[c.pc], c)
  BY <1>2 DEF GoodInto
<1> QED BY <1>3, Zenon DEF GoodAt

(* When the machine waits for the source.                                  *)
LEMMA WaitsIs ==
  /\ Waits(Inst, Now) <=> ~Ready /\ ~Between
  /\ \A op : Runs(op) => status = "running" /\ Inst.op = op /\ ~Waits(Inst, Now)
<1>1. Waits(Inst, Now) <=> ~Ready /\ ~Between
  BY NowIs DEF Waits, Ready, Between, Parts
<1> QED BY <1>1 DEF Runs

(* A machine starts at the first point.                                    *)
LEMMA InitGood == Init => IInv
<1> SUFFICES ASSUME Init PROVE IInv
  OBVIOUS
<1>1. /\ fn \in Functions /\ fn \in Seq(Statements) /\ code = FunctionCode(fn)
      /\ status = "running" /\ marks = {}
  BY FunctionsAssumption DEF Init
<1>2. Now = Point(1, <<>>, {}, FALSE, Effect("begin", "", BlockFrom(fn, 1, {}, Done)), {})
  BY DEF Init, Now
<1>3. Now \in Begins(fn)
  BY <1>2, InAt DEF Begins
<1>4. Now \in PointsOf(fn)
  BY <1>1, <1>3, PointsAre
<1>5. Shaped
  BY <1>1, <1>4, NowIs, PointShape DEF Shaped
<1> QED BY <1>1, <1>4, <1>5 DEF IInv, Left

(* From a point the machine comes to another.                              *)
LEMMA MoveKeeps ==
  ASSUME IInv, status = "running", UNCHANGED <<fn, code, status>>,
         marks' \subseteq {"unreachable", "infinite"},
         "unreachable" \in marks' => Trusts(fn),
         Moves(Inst, Now, Now')
  PROVE  IInv'
<1>1. Now' \in PointsOf(fn)
  BY NowIsGood
<1>2. /\ fn \in Functions /\ code = FunctionCode(fn) /\ fn' = fn /\ code' = code
      /\ status' = "running"
  BY DEF IInv, Shaped
<1>3. /\ Now'.pc = pc' /\ Now'.eval = eval' /\ Now'.locals = locals' /\ Now'.back = back'
  BY DEF Now, Point
<1>4. /\ Now'.pc \in DOMAIN FunctionCode(fn) /\ Now'.eval \in Stacks
      /\ Now'.locals \subseteq Names /\ Now'.back \in BOOLEAN
  BY <1>1, <1>2, PointShape
<1>5. Shaped'
  BY <1>2, <1>3, <1>4 DEF Shaped
<1>6. Left'
  BY <1>2 DEF Left
<1>7. Trusts(fn') <=> Trusts(fn)
  BY <1>2
<1> QED BY <1>1, <1>2, <1>5, <1>6, <1>7 DEF IInv

(* An instruction that marks nothing keeps the invariant if it moves as it *)
(* should.                                                                 *)
LEMMA RunKeeps ==
  ASSUME IInv, NEW op, Runs(op), UNCHANGED <<fn, code, status, marks>>,
         Runs1(Inst, Now, Now'), Runs2(Inst, Now, Now')
  PROVE  IInv'
<1>1. status = "running" /\ ~Waits(Inst, Now)
  BY WaitsIs
<1>2. Moves(Inst, Now, Now')
  BY <1>1 DEF Moves
<1>3. marks' \subseteq {"unreachable", "infinite"} /\ ("unreachable" \in marks' => Trusts(fn))
  BY DEF IInv
<1> QED BY <1>1, <1>2, <1>3, MoveKeeps

(* Unfolding keeps it, and marks as unreachable what is, but for a While.  *)
LEMMA UnfoldKeeps == IInv /\ Unfold => IInv'
<1> SUFFICES ASSUME IInv, Unfold PROVE IInv'
  OBVIOUS
<1>1. status = "running" /\ Waits(Inst, Now) /\ UNCHANGED <<fn, code, status>>
  BY WaitsIs DEF Unfold
<1>2. /\ Now.todo = todo /\ Now.marked = marks \cap {"infinite"}
      /\ Now.pc = pc /\ Now.eval = eval /\ Now.locals = locals /\ Now.back = back
  BY NowIs
<1>3. Now' = Point(pc, eval, locals, back, Unfolded(todo),
                   (marks \cap {"infinite"}) \cup Noted(todo))
  <2>1. (marks \cup Marked(todo)) \cap {"infinite"} = (marks \cap {"infinite"}) \cup Noted(todo)
    BY DEF Noted
  <2> QED BY <2>1 DEF Now, Unfold
<1>4. Moves(Inst, Now, Now')
  BY <1>1, <1>2, <1>3 DEF Moves, Unfolds
<1>5. /\ Marked(todo) \subseteq {"unreachable", "infinite"}
      /\ "unreachable" \in Marked(todo) =>
           todo.item = "block" /\ Unreachable(todo.block, todo.i)
  <2>1. CASE todo.item = "block"
    BY <2>1 DEF Marked
  <2>2. CASE todo.item = "stmt"
    BY <2>2 DEF Marked
  <2>3. CASE todo.item \notin {"block", "stmt"}
    BY <2>3 DEF Marked
  <2> QED BY <2>1, <2>2, <2>3
<1>6. "unreachable" \in Marked(todo) => Trusts(fn)
  <2>1. GoodAt(fn, Inst, Now)
    BY <1>1, NowIsGood
  <2>2. Waits(Inst, Now) /\ Now.todo.item = "block" /\ Unreachable(Now.todo.block, Now.todo.i)
          => Trusts(fn)
    BY <2>1, Zenon DEF GoodAt
  <2> QED BY <1>1, <1>2, <1>5, <2>2
<1>7. marks' = marks \cup Marked(todo) /\ marks \subseteq {"unreachable", "infinite"}
      /\ ("unreachable" \in marks => Trusts(fn))
  BY DEF Unfold, IInv
<1> QED BY <1>1, <1>4, <1>5, <1>6, <1>7, MoveKeeps

(* The instructions that leave the locals as they are ...                  *)
LEMMA PlainKeeps ==
  ASSUME IInv,
         \/ PushValue \/ PushZero \/ PushRef \/ Dup \/ Pop
         \/ Deref \/ ArrayLen \/ Display \/ BinOp
  PROVE  IInv'
<1>1. /\ Now.pc = pc /\ Now.eval = eval /\ Now.locals = locals /\ Now.back = back
      /\ Now.todo = todo /\ Now.marked = marks \cap {"infinite"}
  BY NowIs
<1>2. CASE PushValue
  <2>1. Runs("value") /\ Inst.op = "value" /\ UNCHANGED <<fn, code, status, marks>>
    BY <1>2 DEF PushValue, Runs, GoOn
  <2>2. Now' = Go(Now, Push(eval, Val(Inst.val)), locals, todo.then)
    BY <1>1, <1>2 DEF PushValue, Now, Go, Advance, GoOn, Push, Less, Popped, TopOf, Top
  <2>3. Runs1(Inst, Now, Now') /\ Runs2(Inst, Now, Now')
    BY <1>1, <2>1, <2>2 DEF Runs1, Runs2
  <2> QED BY <2>1, <2>3, RunKeeps
<1>3. CASE PushZero
  <2>1. Runs("zero") /\ Inst.op = "zero" /\ UNCHANGED <<fn, code, status, marks>>
    BY <1>3 DEF PushZero, Runs, Silent
  <2>2. Now' = Go(Now, Push(eval, Val("any")), locals, todo)
    BY <1>1, <1>3 DEF PushZero, Now, Go, Advance, Silent, Push, Less, Popped, TopOf, Top
  <2>3. Runs1(Inst, Now, Now') /\ Runs2(Inst, Now, Now')
    BY <1>1, <2>1, <2>2 DEF Runs1, Runs2
  <2> QED BY <2>1, <2>3, RunKeeps
<1>4. CASE PushRef
  <2>1. Runs("localRef") /\ Inst.op = "localRef" /\ UNCHANGED <<fn, code, status, marks>>
    BY <1>4 DEF PushRef, Runs, Silent
  <2>2. Now' = Go(Now, Push(eval, Ref(Inst.v)), locals, todo)
    BY <1>1, <1>4 DEF PushRef, Now, Go, Advance, Silent, Push, Less, Popped, TopOf, Top
  <2>3. Runs1(Inst, Now, Now') /\ Runs2(Inst, Now, Now')
    BY <1>1, <2>1, <2>2 DEF Runs1, Runs2
  <2> QED BY <2>1, <2>3, RunKeeps
<1>5. CASE Dup
  <2>1. Runs("dup") /\ Inst.op = "dup" /\ UNCHANGED <<fn, code, status, marks>>
    BY <1>5 DEF Dup, Runs, Silent
  <2>2. Now' = Go(Now, Push(eval, TopOf(eval)), locals, todo)
    BY <1>1, <1>5 DEF Dup, Now, Go, Advance, Silent, Push, Less, Popped, TopOf, Top
  <2>3. Runs1(Inst, Now, Now') /\ Runs2(Inst, Now, Now')
    BY <1>1, <2>1, <2>2 DEF Runs1, Runs2
  <2> QED BY <2>1, <2>3, RunKeeps
<1>6. CASE Pop
  <2>1. Runs("pop") /\ Inst.op = "pop" /\ UNCHANGED <<fn, code, status, marks>>
    BY <1>6 DEF Pop, Runs, Silent
  <2>2. Now' = Go(Now, Less(eval, 1), locals, todo)
    BY <1>1, <1>6 DEF Pop, Now, Go, Advance, Silent, Push, Less, Popped, TopOf, Top
  <2>3. Runs1(Inst, Now, Now') /\ Runs2(Inst, Now, Now')
    BY <1>1, <2>1, <2>2 DEF Runs1, Runs2
  <2> QED BY <2>1, <2>3, RunKeeps
<1>7. CASE Deref
  <2>1. Runs("deref") /\ Inst.op = "deref" /\ UNCHANGED <<fn, code, status, marks>>
    BY <1>7 DEF Deref, Runs, GoOn
  <2>2. Now' = Go(Now, Push(Less(eval, 1), Val("any")), locals, todo.then)
    BY <1>1, <1>7 DEF Deref, Now, Go, Advance, GoOn, Push, Less, Popped, TopOf, Top
  <2>3. Runs1(Inst, Now, Now') /\ Runs2(Inst, Now, Now')
    BY <1>1, <2>1, <2>2 DEF Runs1, Runs2
  <2> QED BY <2>1, <2>3, RunKeeps
<1>8. CASE ArrayLen
  <2>1. Runs("arrayLen") /\ Inst.op = "arrayLen" /\ UNCHANGED <<fn, code, status, marks>>
    BY <1>8 DEF ArrayLen, Runs, Silent
  <2>2. Now' = Go(Now, Push(Less(eval, 1), Val("any")), locals, todo)
    BY <1>1, <1>8 DEF ArrayLen, Now, Go, Advance, Silent, Push, Less, Popped, TopOf, Top
  <2>3. Runs1(Inst, Now, Now') /\ Runs2(Inst, Now, Now')
    BY <1>1, <2>1, <2>2 DEF Runs1, Runs2
  <2> QED BY <2>1, <2>3, RunKeeps
<1>9. CASE Display
  <2>1. Runs("display") /\ Inst.op = "display" /\ UNCHANGED <<fn, code, status, marks>>
    BY <1>9 DEF Display, Runs, GoOn
  <2>2. Now' = Go(Now, Less(eval, 1), locals, todo.then)
    BY <1>1, <1>9 DEF Display, Now, Go, Advance, GoOn, Push, Less, Popped, TopOf, Top
  <2>3. Runs1(Inst, Now, Now') /\ Runs2(Inst, Now, Now')
    BY <1>1, <2>1, <2>2 DEF Runs1, Runs2
  <2> QED BY <2>1, <2>3, RunKeeps
<1>10. CASE BinOp
  <2>1. PICK op \in {"binOp", "arrayVal"} : Runs(op) /\ Inst.op = op
    BY <1>10 DEF BinOp, Runs
  <2>2. UNCHANGED <<fn, code, status, marks>>
    BY <1>10 DEF BinOp, Silent
  <2>3. Now' = Go(Now, Push(Less(eval, 2), Val("any")), locals, todo)
    BY <1>1, <1>10 DEF BinOp, Now, Go, Advance, Silent, Push, Less, Popped
  <2>4. Runs1(Inst, Now, Now') /\ Runs2(Inst, Now, Now')
    BY <1>1, <2>1, <2>3 DEF Runs1, Runs2
  <2> QED BY <2>1, <2>2, <2>4, RunKeeps
<1> QED BY <1>2, <1>3, <1>4, <1>5, <1>6, <1>7, <1>8, <1>9, <1>10

(* ... those that write one or begin with none, ...                        *)
LEMMA WriteKeeps ==
  ASSUME IInv, Begin \/ PushLocal \/ Store \/ Increment \/ CallByRef
  PROVE  IInv'
<1>1. /\ Now.pc = pc /\ Now.eval = eval /\ Now.locals = locals /\ Now.back = back
      /\ Now.todo = todo /\ Now.marked = marks \cap {"infinite"}
  BY NowIs
<1>2. CASE Begin
  <2>1. Runs("begin") /\ Inst.op = "begin" /\ UNCHANGED <<fn, code, status, marks>>
    BY <1>2 DEF Begin, Runs, GoOn
  <2>2. Now' = Go(Now, <<>>, {}, todo.then)
    BY <1>1, <1>2 DEF Begin, Now, Go, Advance, GoOn
  <2>3. Runs1(Inst, Now, Now') /\ Runs2(Inst, Now, Now')
    BY <1>1, <2>1, <2>2 DEF Runs1, Runs2
  <2> QED BY <2>1, <2>3, RunKeeps
<1>3. CASE PushLocal
  <2>1. Runs("localVal") /\ Inst.op = "localVal" /\ UNCHANGED <<fn, code, status, marks>>
    BY <1>3 DEF PushLocal, Runs, GoOn
  <2>2. Now' = Go(Now, Push(eval, Val("any")), locals, After(Now, Inst.v))
    BY <1>1, <1>3 DEF PushLocal, Now, Go, Advance, GoOn, Push, After
  <2>3. Runs1(Inst, Now, Now') /\ Runs2(Inst, Now, Now')
    BY <1>1, <2>1, <2>2 DEF Runs1, Runs2
  <2> QED BY <2>1, <2>3, RunKeeps
<1>4. CASE Store
  <2>1. Runs("store") /\ Inst.op = "store" /\ UNCHANGED <<fn, code, status, marks>>
    BY <1>4 DEF Store, Runs, Assign, GoOn
  <2>2. Now' = Go(Now, Less(eval, 2), locals \cup {UnderOf(eval).ref},
                  After(Now, UnderOf(eval).ref))
    BY <1>1, <1>4
       DEF Store, Now, Go, Advance, Assign, GoOn, Less, Popped, Under, UnderOf, After
  <2>3. Runs1(Inst, Now, Now') /\ Runs2(Inst, Now, Now')
    BY <1>1, <2>1, <2>2 DEF Runs1, Runs2
  <2> QED BY <2>1, <2>3, RunKeeps
<1>5. CASE Increment
  <2>1. Runs("incr") /\ Inst.op = "incr" /\ UNCHANGED <<fn, code, status, marks>>
    BY <1>5 DEF Increment, Runs, Assign, GoOn
  <2>2. Now' = Go(Now, Less(eval, 1), locals \cup {TopOf(eval).ref}, After(Now, TopOf(eval).ref))
    BY <1>1, <1>5 DEF Increment, Now, Go, Advance, Assign, GoOn, Less, Popped, Top, TopOf, After
  <2>3. Runs1(Inst, Now, Now') /\ Runs2(Inst, Now, Now')
    BY <1>1, <2>1, <2>2 DEF Runs1, Runs2
  <2> QED BY <2>1, <2>3, RunKeeps
<1>6. CASE CallByRef
  <2>1. Runs("call") /\ Inst.op = "call" /\ UNCHANGED <<fn, code, status, marks>>
    BY <1>6 DEF CallByRef, Runs, GoOn
  <2>2. PICK locs \in {locals, locals \cup {TopOf(eval).ref}} :
          Now' = Go(Now, Less(eval, 1), locs, todo.then)
    BY <1>1, <1>6 DEF CallByRef, Now, Go, Advance, GoOn, Less, Popped, Top, TopOf
  <2>3. Runs1(Inst, Now, Now') /\ Runs2(Inst, Now, Now')
    BY <1>1, <2>1, <2>2 DEF Runs1, Runs2
  <2> QED BY <2>1, <2>3, RunKeeps
<1> QED BY <1>2, <1>3, <1>4, <1>5, <1>6

(* ... and those that jump.                                                *)
LEMMA JumpKeeps ==
  ASSUME IInv, Jumps \/ JumpsIf
  PROVE  IInv'
<1>1. /\ Now.pc = pc /\ Now.eval = eval /\ Now.locals = locals /\ Now.back = back
      /\ Now.todo = todo /\ Now.marked = marks \cap {"infinite"}
  BY NowIs
<1>2. CASE Jumps
  <2>1. Runs("jump") /\ Inst.op = "jump" /\ UNCHANGED <<fn, code, status, marks>>
    BY <1>2 DEF Jumps, Runs
  <2>2. Now' = GoBy(Now, Inst.n, eval, todo)
    BY <1>1, <1>2 DEF Jumps, JumpBy, Now, GoBy
  <2>3. Runs1(Inst, Now, Now') /\ Runs2(Inst, Now, Now')
    BY <1>1, <2>1, <2>2 DEF Runs1, Runs2
  <2> QED BY <2>1, <2>3, RunKeeps
<1>3. CASE JumpsIf
  <2>1. Runs("jumpIf") /\ Inst.op = "jumpIf" /\ UNCHANGED <<fn, code, status, marks>>
    BY <1>3 DEF JumpsIf, Runs, GoOn
  <2>2. PICK outcome \in Outcomes(Top) :
          /\ JumpBy(IF outcome = Inst.on THEN Inst.n ELSE 1)
          /\ GoOn(IF outcome THEN todo.yes ELSE todo.no)
    BY <1>3 DEF JumpsIf
  <2>3. eval' = Popped(1) /\ locals' = locals
    BY <1>3 DEF JumpsIf
  <2>4. Now' = GoBy(Now, IF outcome = Inst.on THEN Inst.n ELSE 1, Less(eval, 1),
                    IF outcome THEN todo.yes ELSE todo.no)
    BY <1>1, <2>2, <2>3 DEF JumpBy, GoOn, Now, GoBy, Less, Popped
  <2>5. outcome \in Outcomes(TopOf(eval))
    BY <2>2 DEF Top, TopOf
  <2>6. Runs1(Inst, Now, Now') /\ Runs2(Inst, Now, Now')
    BY <1>1, <2>1, <2>4, <2>5 DEF Runs1, Runs2
  <2> QED BY <2>1, <2>6, RunKeeps
<1> QED BY <1>2, <1>3

(* A function is left as the analyses said.                                *)
LEMMA LeaveKeeps ==
  ASSUME IInv, Return \/ End \/ ReadUnassigned
  PROVE  IInv'
<1>1. /\ Now.pc = pc /\ Now.eval = eval /\ Now.locals = locals /\ Now.back = back
      /\ Now.todo = todo /\ Now.marked = marks \cap {"infinite"}
  BY NowIs
<1>2. status = "running" /\ ~Waits(Inst, Now)
  BY WaitsIs DEF Return, End, ReadUnassigned
<1>3. LeavesAt(fn, Inst, Now) /\ Now \in PointsOf(fn) /\ fn \in Functions
  BY <1>2, NowIsGood DEF IInv, Shaped
<1>4. UNCHANGED <<fn, code, pc, locals, marks, back>> /\ (eval' = eval \/ eval' = <<>>)
  BY DEF Return, End, ReadUnassigned
<1>5. Shaped'
  BY <1>4, NoStack DEF IInv, Shaped
<1>6. status' \in {"returned", "ended", "unassigned"} /\ Left'
  <2>1. CASE Return
    <3>1. Inst.op = "return" /\ status' = "returned"
      BY <2>1 DEF Return, Runs
    <3> QED BY <1>1, <1>3, <1>4, <3>1 DEF LeavesAt, Left, Endless
  <2>2. CASE End
    <3>1. Inst.op = "end" /\ status' = "ended"
      BY <2>2 DEF End, Runs
    <3>2. Trusts(fn') <=> Trusts(fn)
      BY <1>4
    <3> QED BY <1>1, <1>3, <1>4, <3>1, <3>2 DEF LeavesAt, Left, Endless
  <2>3. CASE ReadUnassigned
    BY <2>3 DEF ReadUnassigned, Left
  <2> QED BY <2>1, <2>2, <2>3
<1>7. Trusts(fn') <=> Trusts(fn)
  BY <1>4
<1> QED BY <1>4, <1>5, <1>6, <1>7 DEF IInv

(* Every step keeps the invariant.                                         *)
LEMMA IInvKept == IInv /\ [Next]_vars => IInv'
<1> SUFFICES ASSUME IInv, [Next]_vars PROVE IInv'
  OBVIOUS
<1>1. CASE UNCHANGED vars
  <2>1. UNCHANGED <<fn, code, pc, eval, locals, status, todo, marks, back>>
    BY <1>1 DEF vars
  <2> QED BY <2>1 DEF IInv, Shaped, Left, Now, Trusts
<1>2. CASE Next
  BY <1>2, UnfoldKeeps, PlainKeeps, WriteKeeps, JumpKeeps, LeaveKeeps DEF Next
<1> QED BY <1>1, <1>2

(* Every run of every function stays at the points of that function        *)
(* (asmgen.go:378-590, controlflow.go, run by asm/exec.go).                *)
THEOREM IInvInvariance == Spec => []IInv
<1>1. Init => IInv
  BY InitGood
<1>2. IInv /\ [Next]_vars => IInv'
  BY IInvKept
<1> QED BY <1>1, <1>2, PTL DEF Spec

(* The invariant implies what the run checks: the types, ...               *)
LEMMA InvType == IInv => TypeOK
<1> SUFFICES ASSUME IInv PROVE TypeOK
  OBVIOUS
<1>1. ASSUME NEW i \in DOMAIN eval
      PROVE  eval[i].val \in {"any", "true", "false", "ref"}
  <2>1. eval[i] \in Values \cup Refs
    BY LenProperties, ElementOfSeq DEF IInv, Shaped, Stacks
  <2> QED BY <2>1, CellsAre DEF Constants
<1> QED BY <1>1 DEF TypeOK, IInv, Shaped, Names

(* ... what an instruction finds on the stack, ...                         *)
LEMMA InvStack == IInv => StackSafe
<1> SUFFICES ASSUME IInv, status = "running" PROVE Fits
  BY DEF StackSafe
<1>1. FitsAt(Inst, Now) /\ Now.eval = eval /\ Now.locals = locals
  BY NowIsGood, NowIs
<1>2. \A x \in Values : ~IsRef(x)
  BY CellsAre
<1>3. \A x \in Refs : IsRef(x)
  BY CellsAre
<1>4. TopOf(eval) = Top /\ UnderOf(eval) = Under
  BY DEF TopOf, UnderOf, Top, Under
<1>5. CASE Inst.op = "store"
  BY <1>1, <1>2, <1>3, <1>4, <1>5 DEF FitsAt, Fits
<1>6. CASE Inst.op \in {"deref", "incr"}
  BY <1>1, <1>2, <1>3, <1>4, <1>6 DEF FitsAt, Fits
<1>7. CASE Inst.op = "call"
  BY <1>1, <1>2, <1>3, <1>4, <1>7 DEF FitsAt, Fits
<1>8. CASE Inst.op \in {"binOp", "arrayVal"}
  BY <1>1, <1>2, <1>3, <1>4, <1>8 DEF FitsAt, Fits
<1>9. CASE Inst.op \in {"display", "jumpIf", "arrayLen"}
  BY <1>1, <1>2, <1>3, <1>4, <1>9 DEF FitsAt, Fits
<1>10. CASE Inst.op \in {"dup", "pop", "return", "end"}
  BY <1>1, <1>2, <1>3, <1>4, <1>10 DEF FitsAt, Fits
<1>11. CASE Inst.op \notin {"store", "deref", "incr", "call", "binOp", "arrayVal", "display",
                            "jumpIf", "arrayLen", "dup", "pop", "return", "end"}
  BY <1>11 DEF Fits
<1> QED BY <1>5, <1>6, <1>7, <1>8, <1>9, <1>10, <1>11

(* ... what it does for the source to see, ...                             *)
LEMMA InvFollows == IInv => FollowsSource
<1> SUFFICES ASSUME IInv, status = "running", Ready
             PROVE  /\ Does # "" =>
                         /\ todo.item = Does
                         /\ IF Does = "test" THEN Top.val = "any" \/ Top.val = todo.val
                                             ELSE todo.v = On
                    /\ Inst.op = "end" => todo = Done
  BY DEF FollowsSource
<1>1. AgreesAt(Inst, Now) /\ Now.eval = eval /\ Now.todo = todo
  BY NowIsGood, NowIs, WaitsIs
<1>2. TopOf(eval) = Top /\ UnderOf(eval) = Under
  BY DEF TopOf, UnderOf, Top, Under
<1>3. CASE Inst.op = "localVal"
  BY <1>1, <1>2, <1>3 DEF AgreesAt, Does, On
<1>4. CASE Inst.op = "store"
  BY <1>1, <1>2, <1>4 DEF AgreesAt, Does, On
<1>5. CASE Inst.op = "incr"
  BY <1>1, <1>2, <1>5 DEF AgreesAt, Does, On
<1>6. CASE Inst.op = "jumpIf"
  BY <1>1, <1>2, <1>6 DEF AgreesAt, Does, On
<1>7. CASE Inst.op \in {"call", "deref", "value"}
  BY <1>1, <1>2, <1>7 DEF AgreesAt, Does, On
<1>8. CASE Inst.op \in {"begin", "display", "return"}
  BY <1>1, <1>2, <1>8 DEF AgreesAt, Does, On
<1>9. CASE Inst.op \notin {"localVal", "store", "incr", "jumpIf", "call", "deref", "value",
                           "begin", "display", "return"}
  BY <1>1, <1>9 DEF AgreesAt, Does
<1> QED BY <1>3, <1>4, <1>5, <1>6, <1>7, <1>8, <1>9

(* ... reads of locals without a value, ...                                *)
LEMMA InvEarly == IInv => EarlyReadFails
<1> SUFFICES ASSUME IInv, Runs("localVal"), todo.item = "read", todo.early, ~back
             PROVE  Inst.v \notin locals
  BY DEF EarlyReadFails
<1>1. status = "running" /\ Inst.op = "localVal" /\ ~Waits(Inst, Now)
  BY WaitsIs
<1>2. AgreesAt(Inst, Now)
  BY <1>1, NowIsGood
<1> QED BY <1>1, <1>2, NowIs DEF AgreesAt

(* ... and what the analyses report.                                       *)
LEMMA InvFlow == IInv => FlowTellsExits /\ UnreachableIsDead /\ InfiniteIsEndless
<1>1. TrustsWhile <=> Trusts(fn)
  BY DEF TrustsWhile, Trusts
<1>2. IInv => FlowTellsExits /\ UnreachableIsDead
  BY <1>1, Zenon DEF IInv, Left, FlowTellsExits, UnreachableIsDead
<1>3. IInv => InfiniteIsEndless
  BY DEF IInv, Left, InfiniteIsEndless
<1> QED BY <1>2, <1>3

-----------------------------------------------------------------------------
(* For every function, the machine stays in its code, and has values and   *)
(* references to locals on its stack (asm/exec.go).                        *)
THEOREM TypeInvariance == Spec => []TypeOK
<1>1. IInv => TypeOK
  BY InvType
<1> QED BY <1>1, IInvInvariance, PTL

(* For every function, whatever way its conditions come out: every         *)
(* instruction finds on the evaluation stack the values and references it  *)
(* takes, a For's variable has a value when it is read or stepped, Return  *)
(* finds one value and End none (asm/functions.go:50, asm/control.go:37).  *)
THEOREM StackSafety == Spec => []StackSafe
<1>1. IInv => StackSafe
  BY InvStack
<1> QED BY <1>1, IInvInvariance, PTL

(* For every function: the code reads, writes, tests and outputs what the  *)
(* source says, in its order, and ends when nothing is left to do          *)
(* (asmgen.go:378-590).                                                    *)
THEOREM CodeFollowsSource == Spec => []FollowsSource
<1>1. IInv => FollowsSource
  BY InvFollows
<1> QED BY <1>1, IInvInvariance, PTL

(* For every function: one whose body halts is not left at its end, but    *)
(* for a While that halts, and one whose body continues is not left by a   *)
(* Return (controlflow.go).                                                *)
THEOREM FlowToldExits == Spec => []FlowTellsExits
<1>1. IInv => FlowTellsExits
  BY InvFlow
<1> QED BY <1>1, IInvInvariance, PTL

(* For every function without a While that halts: code reported as         *)
(* unreachable is not reached (controlflow.go).                            *)
THEOREM UnreachableIsNotReached == Spec => []UnreachableIsDead
<1>1. IInv => UnreachableIsDead
  BY InvFlow
<1> QED BY <1>1, IInvInvariance, PTL

(* For every function: one that has come to a loop reported as infinite is *)
(* not left again (controlflow.go).                                        *)
THEOREM InfiniteIsNotLeft == Spec => []InfiniteIsEndless
<1>1. IInv => InfiniteIsEndless
  BY InvFlow
<1> QED BY <1>1, IInvInvariance, PTL

(* For every function: a read reported as before a write finds no value,   *)
(* if execution comes to it without having gone back                       *)
(* (assignment_visitor.go).                                                *)
THEOREM EarlyReadsFail == Spec => []EarlyReadFails
<1>1. IInv => EarlyReadFails
  BY InvEarly
<1> QED BY <1>1, IInvInvariance, PTL

=============================================================================
