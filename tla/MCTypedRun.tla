------------------------------ MODULE MCTypedRun ------------------------------
(* Three kinds of small programs: without classes, with references to      *)
(* objects, and with members of three classes in every arrangement.        *)
EXTENDS TypedRun

Superclass == [A |-> "", B |-> "A", C |-> "B"]

Decl(c, k, name, type, ref) == [class |-> c, k |-> k, name |-> name, type |-> type, ref |-> ref]

Global(k, name, type) == Decl("", k, name, type, FALSE)
Ref(name, type)       == Decl("", "param", name, type, TRUE)

Numbers == <<Global("variable", "i", "Integer"), Global("variable", "r", "Real"),
             Global("element", "x", "Real"), Ref("p", "Real"), Global("result", "f", "Real")>>
Text    == <<Global("variable", "s", "String"), Global("element", "c", "Character"),
             Global("element", "x", "String"), Ref("p", "String"),
             Global("result", "f", "String"), Global("constant", "k", "String")>>
Family  == <<Global("variable", "a", "A"), Global("variable", "b", "B"),
             Global("element", "x", "B"), Ref("p", "A"), Global("result", "f", "A")>>
Pair    == <<Global("variable", "a", "A"), Global("variable", "b", "B")>>

Bodies(c) ==
  {<<>>,
   <<Decl(c, "module", "m", "Real", FALSE)>>,
   <<Decl(c, "module", "n", "Real", FALSE)>>,
   <<Decl(c, "module", "n", "Real", TRUE), Decl(c, "module", "m", "Real", FALSE)>>,
   <<Decl(c, "function", "m", "Real", FALSE), Decl(c, "field", "v", "Real", FALSE)>>,
   <<Decl(c, "field", "w", "String", FALSE), Decl(c, "module", "n", "Real", TRUE)>>}

Program(globals, a, b, c) ==
  [class \in {"", "A", "B", "C"} |->
     CASE class = "" -> globals [] class = "A" -> a [] class = "B" -> b [] class = "C" -> c]

MCPrograms ==
  {Program(globals, <<>>, <<>>, <<>>) : globals \in {Numbers, Text, Family}}
    \cup {Program(Pair, a, b, c) : a \in Bodies("A"), b \in Bodies("B"), c \in Bodies("C")}
=============================================================================
