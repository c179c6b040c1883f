-------------------------------- MODULE Types --------------------------------
(***************************************************************************)
(* The types of a program and the relations between them (ast/types.go).   *)
(* Arrays and files are left out: neither converts to anything, nor        *)
(* compares with anything but itself.                                      *)
(***************************************************************************)
EXTENDS FiniteSets

CONSTANTS
  Classes,    \* the classes the program declares
  Extends,    \* the superclass of each, or NoClass
  NoClass

Primitive  == {"Integer", "Real", "String", "Character", "Boolean"}
Numeric    == {"Integer", "Real"}
Stringlike == {"String", "Character"}
Unresolved == "INVALID"

Type == Primitive \cup Classes

(* What the loop p = p.Extends comes by, from a class on: the smallest set *)
(* that holds the class and with each class its superclass.                *)
Chain ==
  [class \in Classes |->
     {c \in Classes :
        \A S \in SUBSET Classes :
          (class \in S /\ \A x \in S : Extends[x] \in S \cup {NoClass}) => c \in S}]

(* A class is not its own ancestor: collect.Collect() follows superclasses *)
(* to their end before it builds a class's scope.                          *)
ASSUME ClassAssumption ==
  /\ IsFiniteSet(Classes)
  /\ Extends \in [Classes -> Classes \cup {NoClass}]
  /\ NoClass \notin Classes
  /\ Classes \cap (Primitive \cup {Unresolved}) = {}
  /\ \A c \in Classes : Extends[c] # NoClass => c \notin Chain[Extends[c]]

IsSubclass(maybeSuper, maybeSub) ==
  /\ maybeSuper # maybeSub
  /\ {maybeSuper, maybeSub} \subseteq Classes
  /\ maybeSuper \in Chain[maybeSub]

(* Can a value of type src be assigned to a place of type dst?             *)
CanCoerce(dst, src) ==
  \/ dst = src
  \/ dst = "Real" /\ src = "Integer"
  \/ dst = "String" /\ src = "Character"
  \/ IsSubclass(dst, src)

(* The type in which values of types a and b are compared.                 *)
(* Mutant: that of the left one.                                           *)
LeftType(a, b) ==
  CASE a = b                                          -> a
    [] a # b /\ {a, b} \subseteq Numeric              -> a
    [] a # b /\ {a, b} \subseteq Stringlike           -> a
    [] IsSubclass(a, b)                               -> a
    [] IsSubclass(b, a)                               -> b
    [] OTHER                                          -> Unresolved
AreComparableTypes(a, b) ==
  CASE a = b                                          -> a
    [] a # b /\ {a, b} \subseteq Numeric              -> "Real"
    [] a # b /\ {a, b} \subseteq Stringlike           -> "String"
    [] IsSubclass(a, b)                               -> a
    [] IsSubclass(b, a)                               -> b
    [] OTHER                                          -> Unresolved

IsOrderedType(t) == t \in Primitive \ {"Boolean"}
=============================================================================
