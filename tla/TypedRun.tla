------------------------------- MODULE TypedRun -------------------------------
(***************************************************************************)
(* The values of a running program, by their Go types, against the types   *)
(* that the compiler assigned.  The instructions assert the Go type of     *)
(* what they take; that the assertions hold is up to the type checker      *)
(* (typecheck/typecheck.go) and the casts of the code generator            *)
(* (asmgen.go, maybeCast).                                                 *)
(*                                                                         *)
(* There is no program: each step is a statement that the type checker     *)
(* accepts, in any order.  An expression is an operand, its type and the   *)
(* value that comes out.  A cell is a declaration: a variable, an element  *)
(* of an array, a constant, a parameter, a field, or what a function       *)
(* returned last.  The elements of an array share a cell, and so do the    *)
(* fields of the same declaration.                                         *)
(***************************************************************************)
EXTENDS ClassTables

CONSTANTS
  Programs,    \* the declarations of each program considered
  Lax          \* where the program relies on what is accepted but not compiled,
               \* a conversion, a comparison, a place to assign to, or a way to
               \* pass an argument: "return", "foreach", "constant", "element",
               \* "objects", "target", "character", "override"

VARIABLES
  members,     \* the members of each class, and the declarations of variables,
               \* parameters and results under NoClass
  tables,      \* Scope.Methods and Scope.Fields of each class
  mem,         \* what each cell holds
  fault        \* "", or "assertion": an instruction, or the code generator,
               \* was given what it does not take, and panics

(* The declarations are put where they belong, a class declares a name     *)
(* once, and only parameters are declared as references.                   *)
ASSUME ProgramAssumption ==
  \A m \in Programs :
    /\ m \in [Classes \cup {NoClass} -> Seq(Declaration)]
    /\ \A c \in Classes \cup {NoClass} : \A d \in Own(m, c) :
         /\ d.class = c
         /\ d.k \in IF c = NoClass THEN GlobalKinds ELSE MemberKinds
         /\ d.ref => d.k \in {"param", "module"}
    /\ \A c \in Classes : \A i, j \in DOMAIN m[c] : m[c][i].name = m[c][j].name => i = j

vars == <<members, tables, mem, fault>>

Variables == Own(members, NoClass)
Cells     == Variables \cup UNION {Own(members, c) : c \in Classes}

(***************************************************************************)
(* Values.                                                                 *)
(***************************************************************************)
GoType(type) ==
  CASE type = "Integer" -> "int64"
    [] type = "Real" -> "float64"
    [] type = "String" -> "string"
    [] type = "Character" -> "byte"
    [] type = "Boolean" -> "bool"
    [] OTHER -> "null"

GoTypes == {"int64", "float64", "string", "byte", "bool", "null", "nil", "*any"}

(* No class has the name of one of Go's types.                             *)
ASSUME ValueAssumption == Classes \cap GoTypes = {}

(* A value that is no reference, a reference to a cell, no value.          *)
NoCell       == [class |-> NoClass, k |-> "none", name |-> "", type |-> Unresolved, ref |-> FALSE]
Plain(go)    == [go |-> go, to |-> NoCell]
Pointer(c)   == [go |-> "*any", to |-> c]
Unset        == Plain("nil")

(* ZeroValue: that of a class is a nil object.                             *)
Zero(type)   == Plain(GoType(type))

(* The values that a place of a type may hold.                             *)
ValuesOf(type) ==
  IF type \in Classes
  THEN {Zero(type)} \cup {Plain(c) : c \in {d \in Classes : CanCoerce(type, d)}}
  ELSE {Zero(type)}

Operand(type, val) == [type |-> type, val |-> val]

(* What maybeCast leaves on the stack, and whether its instruction takes   *)
(* what it finds.                                                          *)
Cast(dst, o) ==
  CASE dst = "Real" /\ o.type = "Integer"      -> Plain("float64")
    [] dst = "Integer" /\ o.type = "Real"      -> Plain("int64")
    [] dst = "String" /\ o.type = "Character"  -> Plain("string")
    [] OTHER                                   -> o.val

Casts(dst, o) ==
  <<dst, o.type>> \in {<<"Real", "Integer">>, <<"Integer", "Real">>, <<"String", "Character">>}
    => o.val = Zero(o.type)

(***************************************************************************)
(* Expressions and places.                                                 *)
(***************************************************************************)
(* Cells that a name stands for: fields are reached through an object, and *)
(* so is what a method returned.                                           *)
Named == {d \in Cells : d.k \notin {"field", "function"}}

Known(d) == IF d.ref THEN mem[d].go = "*any" /\ mem[mem[d].to] # Unset
                     ELSE mem[d] # Unset
Read(d)  == IF d.ref THEN mem[mem[d].to] ELSE mem[d]

Basic ==
  {Operand(t, Zero(t)) : t \in Primitive}            \* literals, library functions
    \cup {Operand(c, Plain(c)) : c \in Classes}      \* New
    \cup {Operand(d.type, Read(d)) : d \in {e \in Named : Known(e)}}

Objects == {o \in Basic : o.type \in Classes /\ o.val.go \in Classes}

(* A member of an object: the declaration that its static type shows, and  *)
(* the cell its class has at that position.                                *)
Accesses(kinds) ==
  UNION {{[decl |-> m, cell |-> Found(tables, o.val.go, m)] :
            m \in {n \in Visible(members, o.type) :
                     n.k \in kinds /\ Has(tables, o.val.go, n)}} : o \in Objects}

Operands ==
  Basic \cup {Operand(a.decl.type, mem[a.cell]) :
                a \in {b \in Accesses({"field", "function"}) : mem[b.cell] # Unset}}

(* What can be assigned to, or passed by reference, by how it is written:  *)
(* a name, an element of an array, or a character of the string in a cell. *)
Place(type, cell, how) == [type |-> type, cell |-> cell, how |-> how]

(* What a parameter that is a reference stands for.                        *)
(* Mutant: its own place, so that passing it on makes a reference to it.   *)
ItsOwnPlace(d) == d
Referred(d) == mem[d].to

Whole ==
  {Place(d.type, d, IF d.k = "element" THEN "element" ELSE "name") :
     d \in {e \in Named : ~e.ref /\ e.k \notin {"constant", "result"}}}
    \cup {Place(d.type, Referred(d), "name") : d \in {e \in Named : e.ref /\ mem[e].go = "*any"}}
    \cup {Place(a.decl.type, a.cell, "name") : a \in Accesses({"field"})}

Characters ==
  {Place("Character", p.cell, "character") :
     p \in {q \in Whole : q.type = "String" /\ mem[q.cell] # Unset}}

Places == Whole \cup Characters

(***************************************************************************)
(* Init.                                                                   *)
(***************************************************************************)
(* Programs use what Lax names.                                            *)
Promotes(dst, src) == dst # src /\ ~IsSubclass(dst, src)
Exact(dst, src, use) == Promotes(dst, src) => use \in Lax

(* A constant keeps the value of its expression, but for a Real.           *)
ConstantValues(type) ==
  {Zero(IF type = "Real" THEN "Real" ELSE src) :
     src \in {t \in Primitive : /\ CanCoerce(type, t)
                                /\ type # "Real" => Exact(type, t, "constant")}}

(* Does every override take its argument the way the overridden does, by   *)
(* value or by reference?  A call is compiled for one of the two.          *)
PassesAlike(m) ==
  \A c \in Classes : \A d \in Chain[c] : \A sub \in Own(m, c), super \in Own(m, d) :
    Method(sub) /\ Method(super) /\ sub.name = super.name => sub.ref = super.ref

Constants == {d \in Variables : d.k = "constant"}

InitialValue(d) == IF d.k \in {"element", "field"} THEN Zero(d.type) ELSE Unset

Init ==
  /\ members \in Programs
  /\ "override" \in Lax \/ PassesAlike(members)
  /\ tables = Tables(members)
  /\ \A c \in Classes : tables[c].ok
  /\ \E value \in [Constants -> UNION {ConstantValues(d.type) : d \in Constants}] :
       /\ \A d \in Constants : value[d] \in ConstantValues(d.type)
       /\ mem = [d \in Cells |-> IF d \in Constants THEN value[d] ELSE InitialValue(d)]
  /\ fault = ""

(***************************************************************************)
(* Statements.                                                             *)
(***************************************************************************)
(* An instruction takes what it finds, or its assertion fails.             *)
Put(cell, ok, val) ==
  /\ fault = ""
  /\ IF ok THEN mem' = [mem EXCEPT ![cell] = val] /\ UNCHANGED fault
           ELSE fault' = "assertion" /\ UNCHANGED mem
  /\ UNCHANGED <<members, tables>>

Take(ok) ==
  /\ fault = ""
  /\ fault' = IF ok THEN "" ELSE "assertion"
  /\ UNCHANGED <<members, tables, mem>>

(* Set, the initialisers of variables, fields and arrays, the start of a   *)
(* For.                                                                    *)
Assign ==
  \E p \in Whole, o \in Operands :
    /\ CanCoerce(p.type, o.type)
    /\ Put(p.cell, Casts(p.type, o), Cast(p.type, o))

(* Input: a library function for each type.                                *)
Input ==
  \E p \in Whole : p.type \in Primitive /\ Put(p.cell, TRUE, Zero(p.type))

(* Set s[i] = c, and Input s[i]: the string is replaced.  The library      *)
(* function takes a string and a byte.                                     *)
UpdateCharacter ==
  \E p \in Characters, o \in Operands :
    /\ CanCoerce(p.type, o.type)
    /\ Put(p.cell, mem[p.cell].go = "string" /\ o.val.go = "byte", Plain("string"))

(* Read: it stores through a reference, and there is none to a character,  *)
(* of this string or of one that is no place: ArrayRef panics.             *)
ReadRecord ==
  \E p \in Places :
    /\ p.type \in Primitive
    /\ p.how = "character" => "character" \in Lax
    /\ Put(p.cell, p.how # "character", Zero(p.type))

(* A round of a For: the variable is incremented and compared.             *)
ForNext ==
  \E p \in Whole, o \in Operands :
    /\ p.type \in Numeric /\ CanCoerce(p.type, o.type)
    /\ mem[p.cell] # Unset
    /\ Take(/\ mem[p.cell].go = GoType(p.type)
            /\ Casts(p.type, o)
            /\ Cast(p.type, o).go \in IF p.type = "Real" THEN {"int64", "float64"} ELSE {"int64"})

(* A round of a For Each: the element is stored as it is.  The visitor     *)
(* that makes the loop's temporaries takes a name for the variable.        *)
ForEach ==
  \E p \in Places, d \in {e \in Named : e.k = "element"} :
    /\ CanCoerce(p.type, d.type) /\ Exact(p.type, d.type, "foreach")
    /\ p.how # "name" => "target" \in Lax
    /\ Put(p.cell, p.how = "name", mem[d])

(* Return: the value stays as it is.                                       *)
Return ==
  \E d \in {e \in Cells : e.k \in {"result", "function"}}, o \in Operands :
    /\ CanCoerce(d.type, o.type) /\ Exact(d.type, o.type, "return")
    /\ Put(d, TRUE, o.val)

(* Can a place be passed for a parameter that is a reference?              *)
(* Mutant: whenever its value can be passed.                               *)
AnyThatCoerces(param, p) == CanCoerce(param.type, p.type)
MayRefer(param, p) ==
  /\ CanCoerce(param.type, p.type)
  /\ p.how # "character"
  /\ param.type # p.type => p.how = "element" /\ "element" \in Lax

(* The argument for a parameter, as the declaration has it that the call   *)
(* was compiled for; cell is the parameter of the module that runs.        *)
Pass(param, cell) ==
  \/ /\ ~param.ref
     /\ \E o \in Operands :
          /\ CanCoerce(param.type, o.type)
          /\ Put(cell, Casts(param.type, o), Cast(param.type, o))
  \/ /\ param.ref
     /\ \E p \in Places : MayRefer(param, p) /\ Put(cell, TRUE, Pointer(p.cell))

Call == \E d \in Variables : d.k = "param" /\ Pass(d, d)

(* The module is found in the table of the object's class.                 *)
VirtualCall == \E a \in Accesses({"module"}) : Pass(a.decl, a.cell)

(* insert() and delete() replace the string that they are given, which is  *)
(* checked as an argument by reference.  The others are an Integer and a   *)
(* String, or two Integers.                                                *)
EditString ==
  \E p \in Places, t \in {"Integer", "String"}, o \in Operands :
    /\ MayRefer([type |-> "String"], p) /\ mem[p.cell] # Unset
    /\ CanCoerce(t, o.type)
    /\ Put(p.cell, mem[p.cell].go = "string" /\ Casts(t, o) /\ Cast(t, o) = Zero(t),
           Plain("string"))

(* A parameter that was declared as a reference is followed.               *)
FollowReference ==
  \E d \in {e \in Named : e.ref} :
    /\ mem[d] # Unset
    /\ Take(mem[d].go = "*any")

(* A binary operation, in the type in which its operands are compared.     *)
ArgType(op, a, b) == IF op = "logic" THEN "Boolean" ELSE AreComparableTypes(a, b)

Accepts(op, a, b) ==
  CASE op = "arithmetic" -> {a, b} \subseteq Numeric
    [] op = "equality"   -> AreComparableTypes(a, b) # Unresolved
    [] op = "order"      -> IsOrderedType(AreComparableTypes(a, b))
    [] op = "logic"      -> a = "Boolean" /\ b = "Boolean"

(* makeBinaryOp: the operations an instruction of a type has (IntegerOp and *)
(* so on, for two operands).                                               *)
Defined(op, type) ==
  CASE op = "arithmetic" -> type \in Numeric
    [] op = "equality"   -> type \in Primitive
    [] op = "order"      -> type \in Primitive \ {"Boolean"}
    [] op = "logic"      -> type = "Boolean"

Takes(type, val) == val.go \in IF type = "Real" THEN {"int64", "float64"} ELSE {GoType(type)}

Operate ==
  \E op \in {"arithmetic", "equality", "order", "logic"}, a \in Operands, b \in Operands :
    LET type == ArgType(op, a.type, b.type) IN
    /\ Accepts(op, a.type, b.type)
    /\ type \in Classes => "objects" \in Lax
    /\ Take(/\ Defined(op, type)
            /\ Casts(type, a) /\ Casts(type, b)
            /\ Takes(type, Cast(type, a)) /\ Takes(type, Cast(type, b)))

(* Select with two cases, compared in the type that all three have.        *)
Select ==
  \E o \in Operands, c \in Operands, d \in Operands :
    LET first == AreComparableTypes(o.type, c.type)
        type  == AreComparableTypes(first, d.type)
        all   == {o, c, d}
    IN /\ first # Unresolved /\ type # Unresolved
       /\ type \in Classes => "objects" \in Lax
       /\ Take(/\ Defined("equality", type)
               /\ \A x \in all : Casts(type, x) /\ Takes(type, Cast(type, x)))

(* A condition, an index, the operand of NOT or of a sign, a string whose  *)
(* character is read.                                                      *)
TakeOne ==
  \E o \in Operands :
    o.type \in Numeric \cup {"Boolean", "String"} /\ Take(Takes(o.type, o.val))

(* A library function is called through reflection, which takes no other   *)
(* type than that of the parameter.  A character of a string that is no    *)
(* place is assigned so, and the result dropped.                           *)
LibCall ==
  \E t \in Primitive, o \in Operands :
    /\ CanCoerce(t, o.type)
    /\ Take(Casts(t, o) /\ Cast(t, o) = Zero(t))

Next ==
  \/ Assign \/ Input \/ UpdateCharacter \/ ReadRecord \/ ForNext \/ ForEach \/ Return
  \/ Call \/ VirtualCall \/ EditString \/ FollowReference
  \/ Operate \/ Select \/ TakeOne \/ LibCall

Spec == Init /\ [][Next]_vars

-----------------------------------------------------------------------------
TypeOK ==
  /\ members \in Programs
  /\ DOMAIN tables = Classes
  /\ mem \in [Cells -> [go : GoTypes \cup Classes, to : {c \in Cells : ~c.ref} \cup {NoCell}]]
  /\ fault \in {"", "assertion"}

(* Every place holds a value of its type, or none yet; a parameter that is *)
(* a reference refers to a place of just its type, although the statement  *)
(* that assigns to it, and the one that reads the place, see different     *)
(* declarations.                                                           *)
WellTyped ==
  \A d \in Cells :
    \/ mem[d] = Unset
    \/ ~d.ref /\ mem[d] \in ValuesOf(d.type)
    \/ d.ref /\ \E c \in Cells : /\ mem[d] = Pointer(c)
                                 /\ ~c.ref /\ c.type = d.type

(* No instruction is given a value whose Go type it does not take, or a    *)
(* place that it cannot refer to, in a program that uses only the          *)
(* constructs that Lax allows.                                             *)
NoAssertionFails == fault = ""

(* A call finds in an object's table the method that is nearest to its     *)
(* class, which takes and returns what the call expects, and an access     *)
(* finds the field that was declared, whichever of its superclasses the    *)
(* expression shows.                                                       *)
DispatchesToNearest ==
  \A c \in Classes : \A d \in Chain[c] : \A m \in Visible(members, d) :
    LET found == Found(tables, c, m)
        named == {x \in Chain[c] : \E n \in Own(members, x) : n.name = m.name /\ Method(n)}
    IN /\ Has(tables, c, m)
       /\ \E x \in Chain[c] : /\ found \in Own(members, x)
                              /\ Method(m) => \A y \in named : y \in Chain[x]
       /\ m = IF Method(m) THEN [found EXCEPT !.class = m.class] ELSE found
=============================================================================
