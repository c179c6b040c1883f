----------------------------- MODULE FunctionRun -----------------------------
(***************************************************************************)
(* One function, run by the virtual machine of asm/ on the code of         *)
(* AsmGen, next to what its source says: todo is what is left to do of the *)
(* source, as the statements of the language are understood, and shares    *)
(* nothing with the code but the order in which locals are read and        *)
(* written, conditions tested, output written, and the function left.      *)
(*                                                                         *)
(* Values are not modelled, but for the constants True and False: a        *)
(* condition that is neither may come out either way.                      *)
(***************************************************************************)
EXTENDS AsmGen

CONSTANT Functions   \* the bodies of the functions that are compiled and run

ASSUME FunctionsAssumption == Functions \subseteq Seq(Statements)

VARIABLES
  fn,       \* the function's body
  code,     \* Assembly.Code, of this function
  pc,       \* Execution.PC
  eval,     \* Frame.Eval: values, and references to locals
  locals,   \* the locals that are not nil
  status,   \* "running", "returned", "ended" (at End), or "unassigned":
            \* the panic "local ... read before assignment"
  todo,     \* what is left of the source
  marks,    \* what the run came by that the analyses reported
  back      \* has it jumped backwards?

vars == <<fn, code, pc, eval, locals, status, todo, marks, back>>

(***************************************************************************)
(* The source.  What is left to do is an effect or a test, with what is    *)
(* left then, or a part of the text that has yet to be unfolded.  Each     *)
(* part holds the locals that the visitor has seen written above it.       *)
(***************************************************************************)
Done                  == [item |-> "done"]
Effect(does, v, then) == [item |-> does, v |-> v, then |-> then]
Test(val, yes, no)    == [item |-> "test", val |-> val, yes |-> yes, no |-> no]

Evaluated(e, written, then) ==
  IF e.val = "local"
  THEN [item |-> "read", v |-> e.v, early |-> Early(e, written), then |-> then]
  ELSE Effect("value", e.val, then)

Stmt(s, written, then) ==
  [item |-> "stmt", s |-> s, written |-> written, then |-> then]

(* A further round of a For or For Each.                                   *)
Round(s, written, then) ==
  [item |-> "round", s |-> s, written |-> written, then |-> then]

(* A block from its i-th statement on, a choice from its i-th case on.     *)
BlockFrom(block, i, written, then) ==
  IF i > Len(block) THEN then
  ELSE [item |-> "block", block |-> block, i |-> i, written |-> written, then |-> then]
CasesFrom(s, i, written, then) ==
  IF i > Len(s.cases)
  THEN IF s.other = <<>> THEN then ELSE BlockFrom(s.other[1], 1, written, then)
  ELSE [item |-> "cases", s |-> s, i |-> i, written |-> written, then |-> then]

Case(s, i, written, then) ==
  LET c == s.cases[i]
  IN Evaluated(c.e, written,
       Test(IF s.k = "if" THEN c.e.val ELSE "any",
            BlockFrom(c.block, 1, written, then),
            CasesFrom(s, i + 1, written \cup WritesOf(c.block), then)))

(* A For tests its variable, For Each its array.  That the visitor reports *)
(* a For's variable in its own stop, where it has a value, is intended     *)
(* (assignment_visitor.go:74): such a read is not counted as early.        *)
RoundMeaning(s, written, then) ==
  LET inside == BeforeBlock(s, written)
      again  == Round(s, written, then)
  IN IF s.k = "for"
     THEN Effect("deref", s.v, Evaluated(s.stop, inside,
            Test("any", BlockFrom(s.block, 1, inside, Effect("write", s.v, again)), then)))
     ELSE Test("any", Effect("write", s.v, BlockFrom(s.block, 1, inside, again)), then)

StmtMeaning(s, written, then) ==
  LET again   == Stmt(s, written, then)
      While   == Test(s.e.val, BlockFrom(s.block, 1, written, again), then)
      DoUntil == IF s.until THEN Test(s.e.val, then, again) ELSE Test(s.e.val, again, then)
  IN CASE s.k = "display" -> Evaluated(s.e, written, Effect("display", "", then))
       [] s.k = "set"     -> Evaluated(s.e, written, Effect("write", s.v, then))
       [] s.k = "call"    -> Effect("pass", s.v, then)
       [] s.k = "return"  -> Evaluated(s.e, written, Effect("return", "", Done))
       [] s.k = "if"      -> CasesFrom(s, 1, written, then)
       [] s.k = "select"  -> Evaluated(s.e, written, CasesFrom(s, 1, written, then))
       [] s.k = "while"   -> Evaluated(s.e, BeforeTest(s, written), While)
       [] s.k = "do"      ->
            BlockFrom(s.block, 1, written, Evaluated(s.e, BeforeTest(s, written), DoUntil))
       [] s.k = "for"     ->
            Evaluated(s.start, written, Effect("write", s.v, RoundMeaning(s, written, then)))
       [] s.k = "foreach" ->
            Evaluated(s.e, BeforeTest(s, written), RoundMeaning(s, written, then))

Unfolded(part) ==
  CASE part.item = "stmt"  -> StmtMeaning(part.s, part.written, part.then)
    [] part.item = "round" -> RoundMeaning(part.s, part.written, part.then)
    [] part.item = "cases" -> Case(part.s, part.i, part.written, part.then)
    [] part.item = "block" ->
         Stmt(part.block[part.i], part.written,
              BlockFrom(part.block, part.i + 1,
                        part.written \cup Writes[part.block[part.i]], part.then))

(* What the analyses reported of it.                                       *)
Marked(part) ==
  CASE part.item = "block" -> IF Unreachable(part.block, part.i) THEN {"unreachable"} ELSE {}
    [] part.item = "stmt"  -> IF InfiniteLoop(part.s) THEN {"infinite"} ELSE {}
    [] OTHER               -> {}

(***************************************************************************)
(* The machine.                                                            *)
(***************************************************************************)
Val(val)   == [val |-> val, ref |-> ""]
Ref(v)     == [val |-> "ref", ref |-> v]
IsRef(x)   == x.val = "ref"

Inst       == code[pc]
Top        == eval[Len(eval)]
Under      == eval[Len(eval) - 1]
Popped(n)  == SubSeq(eval, 1, Len(eval) - n)

(* The machine waits for the source to be unfolded, but for what it does   *)
(* between two statements.                                                 *)
Ready      == todo.item \notin {"block", "stmt", "cases", "round"}
Between    == Inst.op \in {"jump", "pop"}
Runs(op)   == status = "running" /\ Inst.op = op /\ (Ready \/ Between)

Init ==
  /\ fn \in Functions
  /\ code = FunctionCode(fn)
  /\ pc = 1
  /\ eval = <<>>
  /\ locals = {}
  /\ status = "running"
  /\ todo = Effect("begin", "", BlockFrom(fn, 1, {}, Done))
  /\ marks = {}
  /\ back = FALSE

GoOn(then) == todo' = then /\ UNCHANGED marks

Advance == pc' = pc + 1 /\ UNCHANGED back
Silent  == Advance /\ UNCHANGED <<fn, code, locals, status, todo, marks>>

(* What the text says comes next.                                          *)
Unfold ==
  /\ status = "running" /\ ~Ready /\ ~Between
  /\ todo' = Unfolded(todo)
  /\ marks' = marks \cup Marked(todo)
  /\ UNCHANGED <<fn, code, pc, eval, locals, status, back>>

(* Begin.Exec: every local is nil.                                         *)
Begin ==
  /\ Runs("begin")
  /\ locals' = {}
  /\ eval' = <<>>
  /\ GoOn(todo.then)
  /\ Advance
  /\ UNCHANGED <<fn, code, status>>

PushValue ==
  /\ Runs("value")
  /\ eval' = Append(eval, Val(Inst.val))
  /\ GoOn(todo.then)
  /\ Advance
  /\ UNCHANGED <<fn, code, locals, status>>

PushZero == Runs("zero") /\ eval' = Append(eval, Val("any")) /\ Silent

PushRef == Runs("localRef") /\ eval' = Append(eval, Ref(Inst.v)) /\ Silent

(* The temporaries are no locals of the source.                            *)
PushLocal ==
  /\ Runs("localVal")
  /\ Inst.v \in locals
  /\ eval' = Append(eval, Val("any"))
  /\ IF Inst.v \in Vars THEN GoOn(todo.then) ELSE UNCHANGED <<todo, marks>>
  /\ Advance
  /\ UNCHANGED <<fn, code, locals, status>>

ReadUnassigned ==
  /\ Runs("localVal")
  /\ Inst.v \notin locals
  /\ status' = "unassigned"
  /\ UNCHANGED <<fn, code, pc, eval, locals, todo, marks, back>>

Assign(v) ==
  /\ locals' = locals \cup {v}
  /\ IF v \in Vars THEN GoOn(todo.then) ELSE UNCHANGED <<todo, marks>>

Store ==
  /\ Runs("store")
  /\ eval' = Popped(2)
  /\ Assign(Under.ref)
  /\ Advance
  /\ UNCHANGED <<fn, code, status>>

Increment ==
  /\ Runs("incr")
  /\ eval' = Popped(1)
  /\ Assign(Top.ref)
  /\ Advance
  /\ UNCHANGED <<fn, code, status>>

Dup == Runs("dup") /\ eval' = Append(eval, Top) /\ Silent

Pop == Runs("pop") /\ eval' = Popped(1) /\ Silent

Deref ==
  /\ Runs("deref")
  /\ eval' = Append(Popped(1), Val("any"))
  /\ GoOn(todo.then)
  /\ Advance
  /\ UNCHANGED <<fn, code, locals, status>>

BinOp ==
  /\ Runs("binOp") \/ Runs("arrayVal")
  /\ eval' = Append(Popped(2), Val("any"))
  /\ Silent

ArrayLen == Runs("arrayLen") /\ eval' = Append(Popped(1), Val("any")) /\ Silent

Display ==
  /\ Runs("display")
  /\ eval' = Popped(1)
  /\ GoOn(todo.then)
  /\ Advance
  /\ UNCHANGED <<fn, code, locals, status>>

(* A call with a reference to a local: the callee may assign it.           *)
CallByRef ==
  /\ Runs("call")
  /\ eval' = Popped(1)
  /\ locals' \in {locals, locals \cup {Top.ref}}
  /\ GoOn(todo.then)
  /\ Advance
  /\ UNCHANGED <<fn, code, status>>

JumpBy(n) == pc' = pc + n /\ back' = (back \/ n < 0)

Jumps ==
  /\ Runs("jump")
  /\ JumpBy(Inst.n)
  /\ UNCHANGED <<fn, code, eval, locals, status, todo, marks>>

Outcomes(x) ==
  CASE x.val = "true"  -> {TRUE}
    [] x.val = "false" -> {FALSE}
    [] OTHER           -> BOOLEAN

JumpsIf ==
  /\ Runs("jumpIf")
  /\ eval' = Popped(1)
  /\ \E outcome \in Outcomes(Top) :
       /\ JumpBy(IF outcome = Inst.on THEN Inst.n ELSE 1)
       /\ GoOn(IF outcome THEN todo.yes ELSE todo.no)
  /\ UNCHANGED <<fn, code, locals, status>>

Return ==
  /\ Runs("return")
  /\ status' = "returned"
  /\ eval' = <<>>
  /\ todo' = Done
  /\ UNCHANGED <<fn, code, pc, locals, marks, back>>

End ==
  /\ Runs("end")
  /\ status' = "ended"
  /\ UNCHANGED <<fn, code, pc, eval, locals, todo, marks, back>>

Next ==
  \/ Unfold \/ Begin \/ PushValue \/ PushZero \/ PushRef \/ PushLocal
  \/ ReadUnassigned \/ Store \/ Increment \/ Dup \/ Pop \/ Deref \/ BinOp \/ ArrayLen
  \/ Display \/ CallByRef \/ Jumps \/ JumpsIf \/ Return \/ End

Spec == Init /\ [][Next]_vars

-----------------------------------------------------------------------------
(* The machine stays in the function, and on the stack there are values    *)
(* and references to locals (asm/exec.go).                                 *)
TypeOK ==
  /\ pc \in DOMAIN code
  /\ \A i \in DOMAIN eval : eval[i].val \in {"any", "true", "false", "ref"}
  /\ locals \subseteq Vars \cup Temps
  /\ status \in {"running", "returned", "ended", "unassigned"}
  /\ marks \subseteq {"unreachable", "infinite"}
  /\ back \in BOOLEAN

(* Does the instruction find on the stack what it takes?                   *)
Fits ==
  LET Has(n) == Len(eval) >= n IN
  CASE Inst.op = "store"                    -> Has(2) /\ IsRef(Under) /\ ~IsRef(Top)
    [] Inst.op \in {"deref", "incr"}        -> Has(1) /\ IsRef(Top) /\ Top.ref \in locals
    [] Inst.op = "call"                     -> Has(1) /\ IsRef(Top)
    [] Inst.op \in {"binOp", "arrayVal"}    -> Has(2) /\ ~IsRef(Top) /\ ~IsRef(Under)
    [] Inst.op \in {"display", "jumpIf", "arrayLen"} -> Has(1) /\ ~IsRef(Top)
    [] Inst.op \in {"dup", "pop"}           -> Has(1)
    [] Inst.op = "return"                   -> Len(eval) = 1 /\ ~IsRef(Top)
    [] Inst.op = "end"                      -> eval = <<>>
    [] OTHER                                -> TRUE

(* Whatever way the conditions come out, no instruction underflows the     *)
(* evaluation stack or finds a value where it takes a reference; a loop    *)
(* variable has a value; Return finds one value and End none, which the    *)
(* instructions check themselves (asm/functions.go:50, asm/control.go:37). *)
StackSafe == status = "running" => Fits

(* What the instruction does for the source to see; "" for nothing.        *)
Does ==
  CASE Inst.op = "localVal" -> IF Inst.v \in Vars THEN "read" ELSE ""
    [] Inst.op = "store"    -> IF Under.ref \in Vars THEN "write" ELSE ""
    [] Inst.op = "incr"     -> IF Top.ref \in Vars THEN "write" ELSE ""
    [] Inst.op = "jumpIf"   -> "test"
    [] Inst.op = "call"     -> "pass"
    [] Inst.op \in {"begin", "value", "deref", "display", "return"} -> Inst.op
    [] OTHER                -> ""

On ==
  CASE Inst.op = "localVal"                  -> Inst.v
    [] Inst.op = "value"                     -> Inst.val
    [] Inst.op = "store"                     -> Under.ref
    [] Inst.op \in {"incr", "call", "deref"} -> Top.ref
    [] OTHER                                 -> ""

(* The code does what the source says, in its order: it takes the branch   *)
(* whose condition came out, tries a loop's condition when the source      *)
(* does, leaves no statement out, and ends when nothing is left to do      *)
(* (the statements of asmgen.go:378-590).                                  *)
FollowsSource ==
  (status = "running" /\ Ready /\ StackSafe) =>
    /\ Does # "" =>
         /\ todo.item = Does
         /\ IF Does = "test" THEN Top.val = "any" \/ Top.val = todo.val ELSE todo.v = On
    /\ Inst.op = "end" => todo = Done

(* A While whose condition is no constant, and whose block does not        *)
(* continue: PostVisitWhileStmt forgets that it may run no round.          *)
HaltsByWhile(s, inside) ==
  \/ s.k = "while" /\ s.e.val \notin {"true", "false"} /\ FlowOf(s.block) = HALT
  \/ \E i \in DOMAIN inside : \E j \in DOMAIN inside[i] : inside[i][j]

WhileHalts[s \in Statements] == HaltsByWhile(s, OfBlocks(WhileHalts, s))

TrustsWhile == \E i \in DOMAIN fn : WhileHalts[fn[i]]

(* The flow of the body tells how the function can be left: one that halts *)
(* is not left at its end, one that continues is not left by a Return.     *)
(* (Functions with a While that halts apart: see ReturnsAlways.)           *)
FlowTellsExits ==
  /\ status = "ended" => FlowOf(fn) # HALT \/ TrustsWhile
  /\ status = "returned" => FlowOf(fn) # CONTINUE

(* Code reported as unreachable is never reached.                          *)
UnreachableIsDead == "unreachable" \in marks => TrustsWhile

(* A loop reported as infinite is never left.                              *)
InfiniteIsEndless == "infinite" \in marks => status \notin {"returned", "ended"}

(* A read that is reported finds, if execution comes to it without having  *)
(* gone back in a loop, a local that has no value.                         *)
EarlyReadFails ==
  (Runs("localVal") /\ todo.item = "read" /\ todo.early /\ ~back)
    => Inst.v \notin locals

(* What controlflow.go:9 says the analysis finds ("no return statement"):  *)
(* a function that it accepts is not left at its end.                      *)
ReturnsAlways == status = "ended" => NotAllReturn(fn)
=============================================================================
