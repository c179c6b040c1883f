----------------------------- MODULE ClassTables -----------------------------
(***************************************************************************)
(* What SuperCheck makes of the members of classes: the table of methods   *)
(* and the layout of fields of each class, on which calls and accesses are *)
(* compiled to positions (typecheck/supercheck.go).                        *)
(*                                                                         *)
(* A declaration is a record.  That of a member of a class is a field, a   *)
(* Module with one parameter, of the given type, by reference if ref, or a *)
(* Function without, that returns the given type.                          *)
(***************************************************************************)
EXTENDS Types, Sequences, Integers

MemberKinds == {"field", "module", "function"}
GlobalKinds == {"variable", "element", "constant", "param", "result"}

Declaration ==
  [class : Classes \cup {NoClass}, k : MemberKinds \cup GlobalKinds, name : STRING,
   type : Type, ref : BOOLEAN]

Method(m) == m.k \in {"module", "function"}

(* checkReturnType, checkParams: the kind and the types.  That one         *)
(* parameter is a reference and the other is not is no error.              *)
MayOverride(sub, super) == sub.k = super.k /\ sub.type = super.type

(* A class's table after one more of its members.                          *)
(* Mutant: a method that overrides gets a place of its own.                *)
AppendMember(super, table, m) ==
  IF Method(m) THEN [table EXCEPT !.methods = Append(@, m)]
               ELSE [table EXCEPT !.fields = Append(@, m)]
AddMember(super, table, m) ==
  LET overridden == {i \in DOMAIN super.methods : super.methods[i].name = m.name}
  IN CASE ~Method(m)        -> [table EXCEPT !.fields = Append(@, m)]
       [] Method(m) /\ overridden = {} -> [table EXCEPT !.methods = Append(@, m)]
       [] OTHER -> LET id == CHOOSE i \in overridden : TRUE
                   IN IF MayOverride(m, super.methods[id])
                      THEN [table EXCEPT !.methods[id] = m]
                      ELSE [table EXCEPT !.ok = FALSE]

Object == [methods |-> <<>>, fields |-> <<>>, ok |-> TRUE]

(* A class's table: its superclass's, with its members one by one.         *)
WithMembers(super, list) ==
  LET upTo[n \in 0..Len(list)] ==
        IF n = 0 THEN super ELSE AddMember(super, upTo[n - 1], list[n])
  IN upTo[Len(list)]

(* The tables of all classes, the superclass's before the class's own.     *)
Tables(members) ==
  LET table[c \in Classes] ==
        WithMembers(IF Extends[c] = NoClass THEN Object ELSE table[Extends[c]], members[c])
  IN table

(***************************************************************************)
(* Lookup of a name in a class and its superclasses (qualifiedLookup).     *)
(***************************************************************************)
Own(members, class) == {members[class][i] : i \in DOMAIN members[class]}

(* Of some of the ancestors of a class, the nearest.                       *)
Nearest(classes) == CHOOSE c \in classes : \A d \in classes : d \in Chain[c]

Visible(members, class) ==
  LET names == UNION {{m.name : m \in Own(members, c)} : c \in Chain[class]}
      Declaring(name) == {c \in Chain[class] : \E m \in Own(members, c) : m.name = name}
  IN {CHOOSE m \in Own(members, Nearest(Declaring(name))) : m.name = name : name \in names}

(* The position that a declaration got in its class: its Id.               *)
Position(seq, decl) == CHOOSE i \in DOMAIN seq : seq[i] = decl

Id(tables, m) ==
  Position(IF Method(m) THEN tables[m.class].methods ELSE tables[m.class].fields, m)

(* The method or field that an object of a class has at the place of a     *)
(* declaration; Has tells if there is one.                                 *)
Slots(tables, class, m) ==
  IF Method(m) THEN tables[class].methods ELSE tables[class].fields
Has(tables, class, m) == Id(tables, m) \in DOMAIN Slots(tables, class, m)
Found(tables, class, m) == Slots(tables, class, m)[Id(tables, m)]
=============================================================================
