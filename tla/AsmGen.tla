------------------------------- MODULE AsmGen --------------------------------
(***************************************************************************)
(* The code asmgen.go makes of a function's body: jumps, and what is left  *)
(* on the evaluation stack.  A jump holds its distance, not the address of *)
(* its label, so that the code of a statement does not depend on where it  *)
(* stands.  Literals, globals, parameters and calls that return a value    *)
(* are one instruction "value"; casts, which replace the top of the stack  *)
(* by a value, are left out.                                               *)
(***************************************************************************)
EXTENDS ControlFlow

(* The temporaries of a For Each, which TempVisitor adds to the locals.    *)
(* Each statement has its own in the code; here they share two, as only    *)
(* whether they are assigned is modelled, and each For Each starts by      *)
(* assigning them.                                                         *)
Temps == {"$idx", "$arr"}

ASSUME TempsAssumption == Vars \cap Temps = {}

Op(op)          == [op |-> op]
Value(val)      == [op |-> "value", val |-> val]
LocalVal(v)     == [op |-> "localVal", v |-> v]
LocalRef(v)     == [op |-> "localRef", v |-> v]
Jump(n)         == [op |-> "jump", n |-> n]
JumpIf(on, n)   == [op |-> "jumpIf", on |-> on, n |-> n]
JumpFalse(n)    == JumpIf(FALSE, n)
JumpTrue(n)     == JumpIf(TRUE, n)

ExprCode(e) == IF e.val = "local" THEN <<LocalVal(e.v)>> ELSE <<Value(e.val)>>

SetCode(v, e)  == <<LocalRef(v)>> \o ExprCode(e) \o <<Op("store")>>
DisplayCode(e) == ExprCode(e) \o <<Op("display")>>
CallCode(v)    == <<LocalRef(v), Op("call")>>
ReturnCode(e)  == ExprCode(e) \o <<Op("return")>>

(* A case of an If, before the code of the cases that follow.              *)
(* Mutant: the jump behind the block goes too far.                         *)
CondJumpsFar(e, block, rest) ==
  ExprCode(e) \o <<JumpFalse(Len(block) + 2)>>
    \o block \o <<Jump(Len(rest) + 2)>> \o rest
CondCode(e, block, rest) ==
  ExprCode(e) \o <<JumpFalse(Len(block) + 2)>>
    \o block \o <<Jump(Len(rest) + 1)>> \o rest
ElseCode(block) == block \o <<Jump(1)>>

(* A case of a Select: the selector stays on the stack while the cases are *)
(* tried.                                                                  *)
(* Mutant: a block does not remove the selector.                           *)
CaseKeepsSelector(e, block, rest) ==
  <<Op("dup")>> \o ExprCode(e) \o <<Op("binOp"), JumpFalse(Len(block) + 2)>>
    \o block \o <<Jump(Len(rest) + 1)>> \o rest
CaseCode(e, block, rest) ==
  <<Op("dup")>> \o ExprCode(e) \o <<Op("binOp"), JumpFalse(Len(block) + 3), Op("pop")>>
    \o block \o <<Jump(Len(rest) + 1)>> \o rest
DefaultCode(block) == <<Op("pop")>> \o block \o <<Jump(1)>>

(* Mutant: Until is compiled as While.                                     *)
DoWhileCode(s, block) ==
  block \o ExprCode(s.e) \o <<JumpTrue(-(Len(block) + Len(ExprCode(s.e))))>>
DoCode(s, block) ==
  block \o ExprCode(s.e) \o <<JumpIf(~s.until, -(Len(block) + Len(ExprCode(s.e))))>>

WhileCode(s, block) ==
  LET test == ExprCode(s.e) \o <<JumpFalse(Len(block) + 2)>>
      loop == test \o block
  IN loop \o <<Jump(-Len(loop))>>

ForCode(s, block) ==
  LET init == <<LocalRef(s.v), Op("dup")>> \o ExprCode(s.start) \o <<Op("store")>>
      test == <<Op("deref")>> \o ExprCode(s.stop) \o <<Op("binOp"), JumpFalse(Len(block) + 5)>>
      loop == test \o block \o <<LocalRef(s.v), Op("dup"), Op("incr")>>
  IN init \o loop \o <<Jump(-Len(loop))>>

ForEachCode(s, block) ==
  LET init == <<LocalRef("$idx"), Op("zero"), Op("store")>> \o SetCode("$arr", s.e)
      test == <<LocalVal("$idx"), LocalVal("$arr"), Op("arrayLen"), Op("binOp"),
                JumpFalse(Len(block) + 9)>>
      next == <<LocalRef(s.v), LocalVal("$arr"), LocalVal("$idx"), Op("arrayVal"), Op("store")>>
      loop == test \o next \o block \o <<LocalRef("$idx"), Op("incr")>>
  IN init \o loop \o <<Jump(-Len(loop))>>

(* One after the other.                                                    *)
Together(codes) ==
  LET upTo[n \in 0..Len(codes)] == IF n = 0 THEN <<>> ELSE upTo[n - 1] \o codes[n]
  IN upTo[Len(codes)]

(* The cases of an If or a Select, from the last to the first, before the  *)
(* code of what is done otherwise.  blocks is the code of their blocks.    *)
CasesCode(s, blocks, otherwise) ==
  LET N == Len(s.cases)
      last[n \in 0..N] ==
        IF n = 0 THEN otherwise
        ELSE IF s.k = "if" THEN CondCode(s.cases[N + 1 - n].e, blocks[N + 1 - n], last[n - 1])
                           ELSE CaseCode(s.cases[N + 1 - n].e, blocks[N + 1 - n], last[n - 1])
  IN last[N]

IfCode(s, blocks) ==
  CasesCode(s, blocks, IF s.other = <<>> THEN <<>> ELSE ElseCode(blocks[Len(blocks)]))

SelectCode(s, blocks) ==
  ExprCode(s.e) \o CasesCode(s, blocks, IF s.other = <<>> THEN <<Op("pop")>>
                                         ELSE DefaultCode(blocks[Len(blocks)]))

(* Of a statement, given the code of its blocks.                           *)
CodeWith(s, blocks) ==
  CASE s.k = "set"     -> SetCode(s.v, s.e)
    [] s.k = "display" -> DisplayCode(s.e)
    [] s.k = "call"    -> CallCode(s.v)
    [] s.k = "return"  -> ReturnCode(s.e)
    [] s.k = "if"      -> IfCode(s, blocks)
    [] s.k = "select"  -> SelectCode(s, blocks)
    [] s.k = "do"      -> DoCode(s, blocks[1])
    [] s.k = "while"   -> WhileCode(s, blocks[1])
    [] s.k = "for"     -> ForCode(s, blocks[1])
    [] s.k = "foreach" -> ForEachCode(s, blocks[1])

StmtCode[s \in Statements] ==
  CodeWith(s, [i \in DOMAIN Blocks(s) |-> Together(OfBlocks(StmtCode, s)[i])])

BlockCode(block) == Together([i \in DOMAIN block |-> StmtCode[block[i]]])

FunctionCode(body) == <<Op("begin")>> \o BlockCode(body) \o <<Op("end")>>
=============================================================================
