---------------------------- MODULE MCFunctionRun ----------------------------
(* Functions of one local: every loop and choice over every simple         *)
(* statement, with a statement before and behind, and loops and choices    *)
(* nested in each other.                                                   *)
EXTENDS FunctionRun

Any   == Expr("any")
True  == Expr("true")
False == Expr("false")
X     == Local("x")

Set(e)      == [k |-> "set", v |-> "x", e |-> e]
ShowX       == [k |-> "display", e |-> X]
PassX       == [k |-> "call", v |-> "x"]
ReturnValue == [k |-> "return", e |-> Any]

Simple == {ShowX, PassX, ReturnValue, Set(Any), Set(X)}

UpToOne(stmts) == {<<>>} \cup {<<s>> : s \in stmts}
When(e, b)     == [e |-> e, block |-> b]

(* The statements with a block, over conditions and blocks.                *)
Compound(tests, blocks, others) ==
  LET values == tests \cap {Any, X}
      stops  == IF X \in tests THEN {X, Local("i")} ELSE {Any}
  IN
  {[k |-> "while", e |-> e, block |-> b] : e \in tests, b \in blocks}
    \cup {[k |-> "do", until |-> u, e |-> e, block |-> b] :
            u \in BOOLEAN, e \in tests, b \in blocks}
    \cup {[k |-> "for", v |-> "i", start |-> e, stop |-> f, block |-> b] :
            e \in values, f \in stops, b \in blocks}
    \cup {[k |-> "foreach", v |-> "x", e |-> Any, block |-> b] : b \in blocks}
    \cup {[k |-> "if", cases |-> <<When(e, b)>>, other |-> o] :
            e \in tests, b \in blocks, o \in UpToOne(others)}
    \cup {[k |-> "select", e |-> e, cases |-> <<When(Any, b)>>, other |-> o] :
            e \in values, b \in blocks, o \in UpToOne(others)}
    \cup {[k |-> "select", e |-> e, cases |-> <<>>, other |-> o] :
            e \in values, o \in UpToOne(others)}

Flat == Compound({Any, True, False, X}, UpToOne(Simple), UpToOne(Simple))

(* Two cases, and what is left over.                                       *)
ThreeWays ==
  LET cases  == {<<When(Any, <<s>>), When(X, <<t>>)>> : s \in Simple, t \in Simple}
      others == UpToOne({<<s>> : s \in Simple})
  IN {[k |-> "if", cases |-> c, other |-> o] : c \in cases, o \in others}
       \cup {[k |-> "select", e |-> Any, cases |-> c, other |-> o] : c \in cases, o \in others}

Inner  == LET ends == {<<ReturnValue>>, <<Set(Any)>>, <<ShowX>>}
          IN Compound({Any, True}, ends, ends)
Nested == Compound({Any, True, False}, {<<s>> : s \in Inner}, {<<ReturnValue>>, <<Set(Any)>>})

Bodies ==
  {p \o <<s>> \o q : p \in UpToOne({PassX, Set(Any)}), s \in Flat,
                     q \in UpToOne({ShowX, ReturnValue, Set(X)})}
    \cup {<<s>> \o q : s \in ThreeWays \cup Nested, q \in UpToOne({ShowX, ReturnValue})}
=============================================================================
