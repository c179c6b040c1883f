----------------------------- MODULE ControlFlow -----------------------------
(***************************************************************************)
(* The two analyses of controlflow/ that a function's body has to pass:    *)
(* which statements continue (controlflow.go) and which locals are read    *)
(* before they are written (assignment_visitor.go).                        *)
(*                                                                         *)
(* A block is a sequence of statements; a statement is a record whose      *)
(* field k is its kind:                                                    *)
(*   display e        set v e        call v (v passed by reference)        *)
(*   return e         if cases other select e cases other                  *)
(*   while e block    do until block e                                     *)
(*   for v start stop block          foreach v e block                     *)
(* cases is a sequence of records (e, block); other is <<>>, or <<block>>  *)
(* for the block behind Else or Default.  set stands for Input, Open and   *)
(* Read too, whose value comes from a library call.                        *)
(*                                                                         *)
(* Of an expression the analyses see whether ConstEval() makes a Boolean   *)
(* of it, and which local it reads.                                        *)
(***************************************************************************)
EXTENDS Integers, Sequences

CONSTANTS
  Vars,    \* the locals the function declares, without initialisers
  Depth    \* how deep statements are nested in each other

ASSUME DepthAssumption == Depth \in Nat

(* A constant, or a value not known to the compiler; a local.              *)
Expr(val)  == [val |-> val, v |-> ""]
Local(v)   == [val |-> "local", v |-> v]
Exprs      == {Expr(val) : val \in {"any", "true", "false"}} \cup {Local(v) : v \in Vars}

(* The statements over some blocks.  An If has a condition (parse.go:199), *)
(* a Select need not have a case (parse.go:237).                           *)
StatementsOver(blocks) ==
  LET cases  == Seq([e : Exprs, block : blocks])
      others == {other \in Seq(blocks) : Len(other) <= 1}
  IN [k : {"display", "return"}, e : Exprs]
       \cup [k : {"set"}, v : Vars, e : Exprs]
       \cup [k : {"call"}, v : Vars]
       \cup [k : {"if"}, cases : cases \ {<<>>}, other : others]
       \cup [k : {"select"}, e : Exprs, cases : cases, other : others]
       \cup [k : {"while"}, e : Exprs, block : blocks]
       \cup [k : {"do"}, until : BOOLEAN, e : Exprs, block : blocks]
       \cup [k : {"for"}, v : Vars, start : Exprs, stop : Exprs, block : blocks]
       \cup [k : {"foreach"}, v : Vars, e : Exprs, block : blocks]

UpTo[depth \in 0..Depth] == IF depth = 0 THEN {} ELSE StatementsOver(Seq(UpTo[depth - 1]))
Statements == UpTo[Depth]

Loops    == {"while", "do", "for", "foreach"}
Branches == {"if", "select"}

(* The blocks directly inside a statement, in the order of the text, and   *)
(* what f says of the statements in them.                                  *)
Blocks(s) ==
  CASE s.k \in Branches -> [i \in DOMAIN s.cases |-> s.cases[i].block] \o s.other
    [] s.k \in Loops   -> <<s.block>>
    [] OTHER           -> <<>>
OfBlocks(f, s) ==
  [i \in DOMAIN Blocks(s) |-> [j \in DOMAIN Blocks(s)[i] |-> f[Blocks(s)[i][j]]]]

(***************************************************************************)
(* Flow: execution continues, may continue, does not.                      *)
(***************************************************************************)
CONTINUE == "continue"
MAYBE    == "maybe"
HALT     == "halt"

(* One of several ways is taken.                                           *)
Alternatives(flows) ==
  LET anyReturn   == flows \cap {MAYBE, HALT} # {}
      anyContinue == flows \cap {MAYBE, CONTINUE} # {}
  IN IF ~anyReturn THEN CONTINUE ELSE IF ~anyContinue THEN HALT ELSE MAYBE

(* All of them are taken, one after the other.                             *)
BlockFlow(flows) ==
  IF \E i \in DOMAIN flows : flows[i] = HALT THEN HALT
  ELSE IF \E i \in DOMAIN flows : flows[i] = MAYBE THEN MAYBE ELSE CONTINUE

(* Without Else or Default, every case could be skipped.                   *)
(* Mutant: the default is forgotten.                                       *)
CasesOnly(flows, other) == Alternatives({flows[i] : i \in DOMAIN flows})
ChoiceFlow(flows, other) ==
  Alternatives({flows[i] : i \in DOMAIN flows} \cup IF other = <<>> THEN {CONTINUE} ELSE {})

(* Do While True, Do Until False: the condition ends no round.             *)
(* Mutant: Until is read as While.                                         *)
InfiniteDoWhile(s) == s.e.val = "true"
InfiniteDo(s) == s.e.val = (IF s.until THEN "false" ELSE "true")

DoFlow(s, flow) == IF InfiniteDo(s) THEN HALT ELSE flow

WhileFlow(s, flow) ==
  CASE s.e.val = "false" -> CONTINUE
    [] s.e.val = "true"  -> HALT
    [] OTHER             -> flow

(* A For may run no round at all.                                          *)
(* Mutant: it runs at least one.                                           *)
ForRunsOnce(flow) == flow
ForFlow(flow) == Alternatives({CONTINUE, flow})

(* Of a statement, given the flows of its blocks.                          *)
StmtFlow(s, flows) ==
  CASE s.k = "return"              -> HALT
    [] s.k \in Branches             -> ChoiceFlow(flows, s.other)
    [] s.k = "do"                  -> DoFlow(s, flows[1])
    [] s.k = "while"               -> WhileFlow(s, flows[1])
    [] s.k \in {"for", "foreach"}  -> ForFlow(flows[1])
    [] OTHER                       -> CONTINUE

Flow[s \in Statements] ==
  StmtFlow(s, [i \in DOMAIN Blocks(s) |-> BlockFlow(OfBlocks(Flow, s)[i])])

FlowOf(block) == BlockFlow([i \in DOMAIN block |-> Flow[block[i]]])

(* Is the i-th statement of a block reported as "unreachable code"?  It is *)
(* the one behind the first that halts.                                    *)
Unreachable(block, i) ==
  /\ i > 1
  /\ Flow[block[i - 1]] = HALT
  /\ \A j \in 1..(i - 2) : Flow[block[j]] # HALT

(* Is the loop reported as "infinite loop"?                                *)
InfiniteLoop(s) ==
  /\ \/ s.k = "while" /\ s.e.val = "true"
     \/ s.k = "do" /\ InfiniteDo(s)
  /\ FlowOf(s.block) = CONTINUE

(* Is the function reported as "not all control paths return a value"?     *)
NotAllReturn(body) == FlowOf(body) # HALT

(***************************************************************************)
(* Assignment: a visit of the text from its first line to its last.        *)
(* written is the set of locals assigned so far.                           *)
(***************************************************************************)
StmtWrites(s, writes) ==
  (IF s.k \in {"set", "call", "for", "foreach"} THEN {s.v} ELSE {})
    \cup UNION {UNION {writes[i][j] : j \in DOMAIN writes[i]} : i \in DOMAIN writes}

Writes[s \in Statements] == StmtWrites(s, OfBlocks(Writes, s))

WritesOf(block) == UNION {Writes[block[i]] : i \in DOMAIN block}

(* Is the expression reported as "read before write" (visitor's            *)
(* PostVisitVariableExpr)?                                                 *)
Early(e, written) == e.val = "local" /\ e.v \notin written

(* What is written when the visitor comes to a loop's expression and to    *)
(* its block: the condition of a Do stands below the block, and the        *)
(* variable of a For is written when the For's own line has been visited.  *)
(* Mutant: the condition of a Do is visited first.                         *)
TestFirst(s, written) == written
BeforeTest(s, written) ==
  IF s.k = "do" THEN written \cup WritesOf(s.block) ELSE written
BeforeBlock(s, written) ==
  IF s.k \in {"for", "foreach"} THEN written \cup {s.v} ELSE written
=============================================================================
