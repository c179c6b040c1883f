---------------------------- MODULE TypedRunProofs ----------------------------
(***************************************************************************)
(* SuperCheck ends, and the tables it makes dispatch every call to the     *)
(* nearest method.  If a program relies on nothing that is accepted but    *)
(* not compiled, no type assertion of the virtual machine fails.           *)
(***************************************************************************)
EXTENDS TypedRun, Loops, FiniteSetTheorems, SequenceTheorems, TLAPS

-----------------------------------------------------------------------------
(* A class is among its own superclasses.                                  *)
LEMMA ChainReflexive ==
  ASSUME NEW c \in Classes PROVE c \in Chain[c]
  BY DEF Chain

(* A superclass of a superclass is a superclass.                           *)
LEMMA ChainTransitive ==
  ASSUME NEW a \in Classes, NEW b \in Classes, NEW c \in Classes,
         a \in Chain[b], b \in Chain[c]
  PROVE  a \in Chain[c]
<1> SUFFICES ASSUME NEW S \in SUBSET Classes, c \in S,
                    \A x \in S : Extends[x] \in S \cup {NoClass}
             PROVE  a \in S
  BY DEF Chain
<1>1. b \in S
  BY DEF Chain
<1> QED
  BY <1>1 DEF Chain

(* A class's superclasses are its own superclass and those of that.        *)
LEMMA ChainStep ==
  ASSUME NEW c \in Classes
  PROVE  /\ Chain[c] \subseteq Classes
         /\ Extends[c] = NoClass \/ Extends[c] \in Classes
         /\ Extends[c] = NoClass => Chain[c] = {c}
         /\ Extends[c] # NoClass => Chain[c] = {c} \cup Chain[Extends[c]]
         /\ Extends[c] # NoClass => c \notin Chain[Extends[c]]
         /\ \A x \in Chain[c] : Extends[x] \in Chain[c] \cup {NoClass}
<1>1. /\ Chain[c] \subseteq Classes
      /\ Extends[c] = NoClass \/ Extends[c] \in Classes
      /\ Extends[c] # NoClass => c \notin Chain[Extends[c]]
  BY ClassAssumption DEF Chain
<1>2. ASSUME NEW d \in Classes, Extends[d] # NoClass
      PROVE  Extends[d] \in Classes /\ Extends[d] \in Chain[d]
  BY <1>2, ClassAssumption DEF Chain
<1>3. ASSUME NEW d \in Classes, NEW x \in Chain[d]
      PROVE  Extends[x] \in Chain[d] \cup {NoClass}
  <2>1. x \in Classes
    BY DEF Chain
  <2> QED
    BY <1>2, <2>1, ChainTransitive
<1>4. CASE Extends[c] = NoClass
  <2>1. \A x \in {c} : Extends[x] \in {c} \cup {NoClass}
    BY <1>4
  <2>2. Chain[c] \subseteq {c}
    BY <2>1 DEF Chain
  <2> QED
    BY <1>1, <1>3, <1>4, <2>2, ChainReflexive
<1>5. CASE Extends[c] # NoClass
  <2> DEFINE S == {c} \cup Chain[Extends[c]]
  <2>1. S \in SUBSET Classes /\ c \in S
    BY <1>1, <1>5 DEF Chain
  <2>2. \A x \in S : Extends[x] \in S \cup {NoClass}
    BY <1>1, <1>3, <1>5, ChainReflexive
  <2>3. Chain[c] \subseteq S
    BY <2>1, <2>2 DEF Chain
  <2>4. \A x \in Chain[Extends[c]] : x \in Chain[c]
    <3>1. Extends[c] \in Classes /\ Extends[c] \in Chain[c]
      BY <1>2, <1>5
    <3>2. Chain[Extends[c]] \subseteq Classes
      BY <3>1 DEF Chain
    <3> QED
      BY <3>1, <3>2, ChainTransitive
  <2> QED
    BY <1>1, <1>3, <1>5, <2>3, <2>4, ChainReflexive
<1> QED
  BY <1>4, <1>5

(* What holds of a class if it holds of its superclass, holds of all: the  *)
(* superclass has fewer superclasses.                                      *)
LEMMA Inherited ==
  ASSUME NEW P,
         \A c \in Classes : Extends[c] = NoClass \/ Extends[c] \in P => c \in P
  PROVE  Classes \subseteq P
<1> SUFFICES ASSUME Classes \ P # {} PROVE FALSE
  OBVIOUS
<1> DEFINE Height(c) == Cardinality(Chain[c])
           T == {Height(c) : c \in Classes \ P}
<1>1. ASSUME NEW c \in Classes
      PROVE  IsFiniteSet(Chain[c]) /\ Height(c) \in Nat
  <2>1. IsFiniteSet(Classes) /\ Chain[c] \in SUBSET Classes
    BY ClassAssumption, ChainStep
  <2>2. IsFiniteSet(Chain[c])
    BY <2>1, FS_Subset
  <2> QED
    BY <2>2, FS_CardinalityType
<1>2. T \subseteq Nat /\ T # {}
  BY <1>1
<1>3. PICK h \in T : \A y \in T : h <= y
  <2> HIDE DEF T
  <2> QED
    BY <1>2, Least
<1>4. PICK c \in Classes \ P : h = Height(c)
  BY <1>3
<1> DEFINE d == Extends[c]
<1>5. d \in Classes \ P
  BY <1>4, ChainStep
<1>6. Chain[d] \in SUBSET Chain[c] /\ c \in Chain[c] /\ c \notin Chain[d]
  BY <1>4, <1>5, ChainStep, ChainReflexive
<1>7. Height(d) <= Height(c) /\ Height(d) # Height(c)
  BY <1>1, <1>4, <1>6, FS_Subset
<1>8. Height(d) \in T /\ Height(d) \in Nat /\ Height(c) \in Nat
  BY <1>1, <1>4, <1>5
<1> QED
  BY <1>3, <1>4, <1>7, <1>8

-----------------------------------------------------------------------------
(* Tables, and the loop that makes a class's (SuperCheck).                 *)
Table == [methods : Seq(Declaration), fields : Seq(Declaration), ok : BOOLEAN]

(* A round of the loop makes a table of a table.                           *)
LEMMA AddMemberMakes ==
  ASSUME NEW super \in Table, NEW table \in Table, NEW m \in Declaration
  PROVE  AddMember(super, table, m) \in Table
<1>1. /\ table.methods \in Seq(Declaration) /\ table.fields \in Seq(Declaration)
      /\ table.ok \in BOOLEAN
      /\ table = [methods |-> table.methods, fields |-> table.fields, ok |-> table.ok]
  BY DEF Table
<1>2. Append(table.methods, m) \in Seq(Declaration) /\ Append(table.fields, m) \in Seq(Declaration)
  BY <1>1
<1>3. ASSUME NEW i
      PROVE  [table.methods EXCEPT ![i] = m] \in Seq(Declaration)
  <2>1. PICK seq \in Seq(Declaration) : seq = table.methods
    BY <1>1
  <2>2. CASE i \in 1..Len(seq)
    BY <2>1, <2>2, ExceptSeq
  <2>3. CASE i \notin 1..Len(seq)
    <3>1. [seq EXCEPT ![i] = m] = seq
      BY <2>3
    <3> QED
      BY <2>1, <3>1
  <2> QED
    BY <2>2, <2>3
<1> DEFINE overridden == {i \in DOMAIN super.methods : super.methods[i].name = m.name}
           id == CHOOSE i \in overridden : TRUE
<1>4. CASE ~Method(m)
  BY <1>1, <1>2, <1>4 DEF AddMember, Table
<1>5. CASE Method(m) /\ overridden = {}
  BY <1>1, <1>2, <1>5 DEF AddMember, Table
<1>6. CASE Method(m) /\ overridden # {}
  <2>1. AddMember(super, table, m) = IF MayOverride(m, super.methods[id])
                                     THEN [table EXCEPT !.methods[id] = m]
                                     ELSE [table EXCEPT !.ok = FALSE]
    BY <1>6 DEF AddMember
  <2> HIDE DEF id
  <2> QED
    BY <1>1, <1>3, <2>1 DEF Table
<1> QED
  BY <1>4, <1>5, <1>6

(* Does f have the table after each of the members of list?                *)
Adds(f, super, list) ==
  /\ f[0] = super
  /\ \A n \in 1..Len(list) : f[n] = AddMember(super, f[n - 1], list[n])

(* Some function has them, and WithMembers is the last.                    *)
LEMMA MembersAreAdded ==
  ASSUME NEW super \in Table, NEW list \in Seq(Declaration)
  PROVE  \E f \in [0..Len(list) -> Table] :
           Adds(f, super, list) /\ WithMembers(super, list) = f[Len(list)]
<1> DEFINE N == Len(list)
           F == [n \in 1..N |-> [t \in Table |-> AddMember(super, t, list[n])]]
           Loop(g) == g = [n \in 0..N |-> IF n = 0 THEN super
                                                   ELSE AddMember(super, g[n - 1], list[n])]
<1>1. N \in Nat /\ \A n \in 1..N : list[n] \in Declaration
  OBVIOUS
<1>2. F \in [1..N -> [Table -> Table]]
  BY <1>1, AddMemberMakes
<1>3. PICK g \in [0..N -> Table] : g[0] = super /\ \A n \in 1..N : g[n] = F[n][g[n - 1]]
  <2> HIDE DEF F, N
  <2>1. HasValues(N, Table, super, F)
    BY <1>1, <1>2, LoopHasValues
  <2> QED
    BY <2>1 DEF HasValues
<1>4. \A n \in 1..N : n - 1 \in 0..N /\ n \in 0..N /\ n # 0
  BY <1>1
<1>5. \A n \in 0..N : n # 0 => n \in 1..N
  BY <1>1
<1>6. \A n \in 1..N : g[n] = AddMember(super, g[n - 1], list[n])
  BY <1>3, <1>4
<1>7. Loop(g)
  <2> HIDE DEF F, N
  <2> QED
    BY <1>3, <1>5, <1>6
<1> DEFINE upTo == CHOOSE f : Loop(f)
<1>8. Loop(upTo)
  <2> HIDE DEF Loop
  <2> QED
    BY <1>7
<1>9. WithMembers(super, list) = upTo[N]
  BY DEF WithMembers
<1> HIDE DEF upTo, F, N
<1>10. \A n \in 0..N : upTo[n] = IF n = 0 THEN super ELSE AddMember(super, upTo[n - 1], list[n])
  BY <1>8
<1>11. upTo = [n \in 0..N |-> upTo[n]]
  BY <1>8
<1> DEFINE S == {n \in 0..N : upTo[n] \in Table}
<1>12. \A n \in 0..N : n \in S
  <2>1. 0 \in S
    BY <1>1, <1>10
  <2>2. ASSUME NEW n \in 0..(N - 1), n \in S PROVE n + 1 \in S
    <3>1. n + 1 \in 1..N /\ (n + 1) - 1 = n
      BY <1>1
    <3>2. upTo[n + 1] = AddMember(super, upTo[n], list[n + 1])
      BY <1>4, <1>10, <3>1
    <3>3. upTo[n] \in Table /\ list[n + 1] \in Declaration
      BY <1>1, <2>2, <3>1
    <3> QED
      BY <1>4, <3>1, <3>2, <3>3, AddMemberMakes
  <2> HIDE DEF S
  <2> QED
    BY <1>1, <2>1, <2>2, UpFromZero
<1>13. upTo \in [0..N -> Table]
  BY <1>11, <1>12
<1>14. upTo[0] = super /\ \A n \in 1..N : upTo[n] = AddMember(super, upTo[n - 1], list[n])
  BY <1>1, <1>4, <1>10
<1> QED
  BY <1>9, <1>13, <1>14 DEF Adds, N

(* The tables of a class and its superclasses: each from that of its own   *)
(* superclass.                                                             *)
Super(f, c) == IF Extends[c] = NoClass THEN Object ELSE f[Extends[c]]

IsTables(f, D, ms) == f = [c \in D |-> WithMembers(Super(f, c), ms[c])]

(* There is one way to make them ...                                       *)
LEMMA TablesAgree ==
  ASSUME NEW ms, NEW f, NEW g, NEW a \in Classes, NEW b \in Classes,
         IsTables(f, Chain[a], ms), IsTables(g, Chain[b], ms),
         NEW c \in Chain[a] \cap Chain[b]
  PROVE  f[c] = g[c]
<1> DEFINE P == {x \in Classes : x \in Chain[a] \cap Chain[b] => f[x] = g[x]}
<1>1. ASSUME NEW x \in Classes, Extends[x] = NoClass \/ Extends[x] \in P
      PROVE  x \in P
  <2>1. SUFFICES ASSUME x \in Chain[a], x \in Chain[b] PROVE f[x] = g[x]
    OBVIOUS
  <2>2. f[x] = WithMembers(Super(f, x), ms[x]) /\ g[x] = WithMembers(Super(g, x), ms[x])
    BY <2>1 DEF IsTables
  <2>3. Extends[x] \in (Chain[a] \cap Chain[b]) \cup {NoClass}
    BY <2>1, ChainStep
  <2>4. Super(f, x) = Super(g, x)
    BY <1>1, <2>3 DEF Super
  <2> QED
    BY <2>2, <2>4
<1>2. Classes \subseteq P
  <2> HIDE DEF P
  <2> QED
    BY <1>1, Inherited
<1> QED
  BY <1>2, ChainStep

(* ... and Tables makes them that way: SuperCheck ends on every program.   *)
LEMMA TablesAre ==
  ASSUME NEW ms
  PROVE  IsTables(Tables(ms), Classes, ms)
<1> DEFINE P == {c \in Classes : \E f : IsTables(f, Chain[c], ms)}
<1>1. ASSUME NEW c \in Classes, Extends[c] = NoClass \/ Extends[c] \in P
      PROVE  c \in P
  <2>1. CASE Extends[c] = NoClass
    <3> DEFINE f == [x \in {c} |-> WithMembers(Object, ms[x])]
    <3>1. IsTables(f, {c}, ms)
      BY <2>1 DEF IsTables, Super
    <3>2. Chain[c] = {c}
      BY <2>1, ChainStep
    <3> HIDE DEF f
    <3> QED
      BY <3>1, <3>2
  <2>2. CASE Extends[c] # NoClass
    <3> DEFINE d == Extends[c]
    <3>1. d \in Classes /\ c \notin Chain[d] /\ Chain[c] = {c} \cup Chain[d]
      BY <2>2, ChainStep
    <3>2. PICK g : IsTables(g, Chain[d], ms)
      BY <1>1, <2>2
    <3> DEFINE f == [x \in Chain[c] |-> IF x = c THEN WithMembers(g[d], ms[c]) ELSE g[x]]
    <3>3. ASSUME NEW x \in Chain[c]
          PROVE  f[x] = WithMembers(Super(f, x), ms[x])
      <4>1. CASE x = c
        <5>1. f[d] = g[d]
          BY <3>1, ChainReflexive
        <5> QED
          BY <2>2, <4>1, <5>1 DEF Super
      <4>2. CASE x # c
        <5>1. x \in Chain[d] /\ Extends[x] \in Chain[d] \cup {NoClass}
          BY <3>1, <4>2, ChainStep
        <5>2. f[x] = g[x] /\ g[x] = WithMembers(Super(g, x), ms[x])
          BY <3>2, <4>2, <5>1 DEF IsTables
        <5>3. Super(f, x) = Super(g, x)
          BY <3>1, <5>1 DEF Super
        <5> QED
          BY <5>2, <5>3
      <4> QED
        BY <4>1, <4>2
    <3>4. IsTables(f, Chain[c], ms)
      BY <3>3 DEF IsTables
    <3> HIDE DEF f
    <3> QED
      BY <3>4
  <2> QED
    BY <2>1, <2>2
<1>2. Classes \subseteq P
  <2> HIDE DEF P
  <2> QED
    BY <1>1, Inherited
<1> DEFINE T(c) == CHOOSE f : IsTables(f, Chain[c], ms)
           table == [c \in Classes |-> T(c)[c]]
<1>3. ASSUME NEW c \in Classes
      PROVE  IsTables(T(c), Chain[c], ms)
  BY <1>2
<1>4. ASSUME NEW c \in Classes
      PROVE  table[c] = WithMembers(Super(table, c), ms[c])
  <2>1. T(c)[c] = WithMembers(Super(T(c), c), ms[c])
    BY <1>3, ChainReflexive DEF IsTables
  <2>2. ASSUME Extends[c] # NoClass
        PROVE  T(c)[Extends[c]] = T(Extends[c])[Extends[c]] /\ Extends[c] \in Classes
    <3>1. PICK d \in Classes : d = Extends[c] /\ d \in Chain[d] /\ d \in Chain[c]
      BY <2>2, ChainStep, ChainReflexive
    <3>2. PICK f, g : f = T(c) /\ g = T(d)
      OBVIOUS
    <3>3. IsTables(f, Chain[c], ms) /\ IsTables(g, Chain[d], ms)
      BY <1>3, <3>2
    <3> HIDE DEF P, T, table
    <3>4. f[d] = g[d]
      BY <3>1, <3>3, TablesAgree
    <3> QED
      BY <3>1, <3>2, <3>4
  <2>3. Super(T(c), c) = Super(table, c)
    BY <2>2 DEF Super
  <2> QED
    BY <2>1, <2>3
<1>5. IsTables(table, Classes, ms)
  BY <1>4 DEF IsTables
<1> HIDE DEF table
<1>6. Tables(ms) = CHOOSE f : IsTables(f, Classes, ms)
  BY DEF Tables, IsTables, Super
<1> QED
  BY <1>5, <1>6

-----------------------------------------------------------------------------
(* What the loop keeps.  A table has the places of the superclass's, with  *)
(* a declaration like it at each; a name has one place; and there is at    *)
(* every place what the superclass has there, or a member, and a place for *)
(* every member so far.                                                    *)
Alike(a, b) == a.name = b.name /\ a.k = b.k /\ a.type = b.type

OneByName(seq) == \A i, j \in DOMAIN seq : seq[i].name = seq[j].name => i = j

Keeps(super, table) ==
  /\ Len(super.methods) <= Len(table.methods)
  /\ \A i \in DOMAIN super.methods : Alike(table.methods[i], super.methods[i])
  /\ Len(super.fields) <= Len(table.fields)
  /\ \A i \in DOMAIN super.fields : table.fields[i] = super.fields[i]

Among(seq, old, list, n, K) ==
  /\ \A i \in DOMAIN seq :
       \/ i \in DOMAIN old /\ seq[i] = old[i]
       \/ \E j \in 1..n : list[j] \in K /\ seq[i] = list[j]
  /\ \A j \in 1..n : list[j] \in K => \E i \in DOMAIN seq : seq[i] = list[j]

Methods == {m \in Declaration : Method(m)}
Fields  == Declaration \ Methods

Made(super, table, list, n) ==
  /\ Keeps(super, table)
  /\ OneByName(table.methods)
  /\ Among(table.methods, super.methods, list, n, Methods)
  /\ Among(table.fields, super.fields, list, n, Fields)

(* One more declaration at the end ...                                     *)
LEMMA AmongAppended ==
  ASSUME NEW seq \in Seq(Declaration), NEW old \in Seq(Declaration),
         NEW list \in Seq(Declaration), NEW n \in 1..Len(list), NEW K,
         Among(seq, old, list, n - 1, K), list[n] \in K
  PROVE  Among(Append(seq, list[n]), old, list, n, K)
<1> DEFINE s == Append(seq, list[n])
<1>1. /\ DOMAIN s = 1..(Len(seq) + 1) /\ DOMAIN seq = 1..Len(seq) /\ Len(seq) \in Nat
      /\ s[Len(seq) + 1] = list[n]
      /\ \A i \in 1..Len(seq) : s[i] = seq[i]
      /\ n \in Nat /\ n >= 1
  OBVIOUS
<1> HIDE DEF s
<1>2. ASSUME NEW i \in DOMAIN s
      PROVE  \/ i \in DOMAIN old /\ s[i] = old[i]
             \/ \E j \in 1..n : list[j] \in K /\ s[i] = list[j]
  <2>1. CASE i = Len(seq) + 1
    BY <1>1, <2>1
  <2>2. CASE i # Len(seq) + 1
    <3>1. i \in DOMAIN seq /\ s[i] = seq[i]
      BY <1>1, <2>2
    <3>2. \A j \in 1..(n - 1) : j \in 1..n
      BY <1>1
    <3> QED
      BY <3>1, <3>2 DEF Among
  <2> QED
    BY <2>1, <2>2
<1>3. ASSUME NEW j \in 1..n, list[j] \in K
      PROVE  \E i \in DOMAIN s : s[i] = list[j]
  <2>1. CASE j = n
    BY <1>1, <2>1
  <2>2. CASE j # n
    <3>1. j \in 1..(n - 1)
      BY <1>1, <2>2
    <3>2. PICK i \in DOMAIN seq : seq[i] = list[j]
      BY <1>3, <3>1 DEF Among
    <3> QED
      BY <1>1, <3>2
  <2> QED
    BY <2>1, <2>2
<1> QED
  BY <1>2, <1>3 DEF Among, s

(* ... or in the place of another that is no member ...                    *)
LEMMA AmongReplaced ==
  ASSUME NEW seq \in Seq(Declaration), NEW old \in Seq(Declaration),
         NEW list \in Seq(Declaration), NEW n \in 1..Len(list), NEW K,
         Among(seq, old, list, n - 1, K), list[n] \in K,
         NEW id \in DOMAIN seq, \A j \in 1..(n - 1) : seq[id] # list[j]
  PROVE  Among([seq EXCEPT ![id] = list[n]], old, list, n, K)
<1> DEFINE s == [seq EXCEPT ![id] = list[n]]
<1>1. /\ DOMAIN s = DOMAIN seq
      /\ s[id] = list[n]
      /\ \A i \in DOMAIN seq : i # id => s[i] = seq[i]
      /\ n \in Nat /\ n >= 1
  OBVIOUS
<1> HIDE DEF s
<1>2. ASSUME NEW i \in DOMAIN s
      PROVE  \/ i \in DOMAIN old /\ s[i] = old[i]
             \/ \E j \in 1..n : list[j] \in K /\ s[i] = list[j]
  <2>1. CASE i = id
    BY <1>1, <2>1
  <2>2. CASE i # id
    <3>1. i \in DOMAIN seq /\ s[i] = seq[i]
      BY <1>1, <2>2
    <3>2. \A j \in 1..(n - 1) : j \in 1..n
      BY <1>1
    <3> QED
      BY <3>1, <3>2 DEF Among
  <2> QED
    BY <2>1, <2>2
<1>3. ASSUME NEW j \in 1..n, list[j] \in K
      PROVE  \E i \in DOMAIN s : s[i] = list[j]
  <2>1. CASE j = n
    BY <1>1, <2>1
  <2>2. CASE j # n
    <3>1. j \in 1..(n - 1)
      BY <1>1, <2>2
    <3>2. PICK i \in DOMAIN seq : seq[i] = list[j]
      BY <1>3, <3>1 DEF Among
    <3>3. i # id
      BY <3>1, <3>2
    <3> QED
      BY <1>1, <3>2, <3>3
  <2> QED
    BY <2>1, <2>2
<1> QED
  BY <1>2, <1>3 DEF Among, s

(* ... or none, if it is of the other kind.                                *)
LEMMA AmongSkipped ==
  ASSUME NEW seq, NEW old, NEW list \in Seq(Declaration), NEW n \in 1..Len(list), NEW K,
         Among(seq, old, list, n - 1, K), list[n] \notin K
  PROVE  Among(seq, old, list, n, K)
<1>1. \A j \in 1..n : j = n \/ j \in 1..(n - 1)
  OBVIOUS
<1>2. \A j \in 1..(n - 1) : j \in 1..n
  OBVIOUS
<1> QED
  BY <1>1, <1>2 DEF Among

(* An error is not forgotten.                                              *)
LEMMA ErrorStays ==
  ASSUME NEW super, NEW table \in Table, NEW m, AddMember(super, table, m).ok
  PROVE  table.ok
<1> DEFINE overridden == {i \in DOMAIN super.methods : super.methods[i].name = m.name}
           id == CHOOSE i \in overridden : TRUE
<1>1. table = [methods |-> table.methods, fields |-> table.fields, ok |-> table.ok]
  BY DEF Table
<1>2. CASE ~Method(m)
  BY <1>1, <1>2 DEF AddMember
<1>3. CASE Method(m) /\ overridden = {}
  BY <1>1, <1>3 DEF AddMember
<1>4. CASE Method(m) /\ overridden # {}
  <2>1. AddMember(super, table, m) = IF MayOverride(m, super.methods[id])
                                     THEN [table EXCEPT !.methods[id] = m]
                                     ELSE [table EXCEPT !.ok = FALSE]
    BY <1>4 DEF AddMember
  <2> HIDE DEF id
  <2> QED
    BY <1>1, <2>1
<1> QED
  BY <1>2, <1>3, <1>4

(* Each round of the loop keeps it, if SuperCheck has no error to report.  *)
LEMMA MemberAdded ==
  ASSUME NEW super \in Table, NEW table \in Table, NEW list \in Seq(Declaration),
         OneByName(super.methods), OneByName(list), NEW n \in 1..Len(list),
         Made(super, table, list, n - 1), AddMember(super, table, list[n]).ok
  PROVE  Made(super, AddMember(super, table, list[n]), list, n)
<1> DEFINE m == list[n]
           overridden == {i \in DOMAIN super.methods : super.methods[i].name = m.name}
<1>1. PICK mt, ft, ms, fs : /\ mt = table.methods /\ ft = table.fields
                            /\ ms = super.methods /\ fs = super.fields
  OBVIOUS
<1>2. /\ mt \in Seq(Declaration) /\ ft \in Seq(Declaration)
      /\ ms \in Seq(Declaration) /\ fs \in Seq(Declaration)
      /\ m \in Declaration /\ table.ok \in BOOLEAN
      /\ table = [methods |-> mt, fields |-> ft, ok |-> table.ok]
  BY <1>1 DEF Table
<1>3. /\ Len(ms) <= Len(mt) /\ \A i \in DOMAIN ms : Alike(mt[i], ms[i])
      /\ Len(fs) <= Len(ft) /\ \A i \in DOMAIN fs : ft[i] = fs[i]
      /\ OneByName(mt)
      /\ Among(mt, ms, list, n - 1, Methods) /\ Among(ft, fs, list, n - 1, Fields)
  BY <1>1 DEF Made, Keeps
<1>4. \A j \in 1..(n - 1) : list[j].name # m.name
  BY DEF OneByName
<1>5. CASE ~Method(m)
  <2>1. m \in Fields /\ m \notin Methods
    BY <1>2, <1>5 DEF Fields, Methods
  <2>2. AddMember(super, table, m) = [methods |-> mt, fields |-> Append(ft, m), ok |-> table.ok]
    BY <1>1, <1>2, <1>5 DEF AddMember
  <2>3. Among(mt, ms, list, n, Methods)
    BY <1>3, <2>1, AmongSkipped
  <2>4. Among(Append(ft, m), fs, list, n, Fields)
    BY <1>2, <1>3, <2>1, AmongAppended
  <2>5. Len(fs) <= Len(Append(ft, m)) /\ \A i \in DOMAIN fs : Append(ft, m)[i] = fs[i]
    BY <1>2, <1>3
  <2>6. Made(super, [methods |-> mt, fields |-> Append(ft, m), ok |-> table.ok], list, n)
    BY <1>1, <1>3, <2>3, <2>4, <2>5 DEF Made, Keeps
  <2> QED
    BY <2>2, <2>6
<1>6. CASE Method(m) /\ overridden = {}
  <2>1. m \in Methods /\ m \notin Fields
    BY <1>2, <1>6 DEF Fields, Methods
  <2>2. AddMember(super, table, m) = [methods |-> Append(mt, m), fields |-> ft, ok |-> table.ok]
    BY <1>1, <1>2, <1>6 DEF AddMember
  <2>3. Among(ft, fs, list, n, Fields)
    BY <1>3, <2>1, AmongSkipped
  <2>4. Among(Append(mt, m), ms, list, n, Methods)
    BY <1>2, <1>3, <2>1, AmongAppended
  <2>5. Len(ms) <= Len(Append(mt, m)) /\ \A i \in DOMAIN ms : Alike(Append(mt, m)[i], ms[i])
    BY <1>2, <1>3
  <2>6. ASSUME NEW i \in DOMAIN mt
        PROVE  mt[i].name # m.name
    <3>1. \A k \in DOMAIN ms : ms[k].name # m.name
      BY <1>1, <1>6
    <3>2. CASE i \in DOMAIN ms
      BY <1>3, <3>1, <3>2 DEF Alike
    <3>3. CASE i \notin DOMAIN ms
      <4>1. PICK j \in 1..(n - 1) : mt[i] = list[j]
        BY <1>3, <3>3 DEF Among
      <4> QED
        BY <1>4, <4>1
    <3> QED
      BY <3>2, <3>3
  <2>7. OneByName(Append(mt, m))
    BY <1>2, <1>3, <2>6 DEF OneByName
  <2>8. Made(super, [methods |-> Append(mt, m), fields |-> ft, ok |-> table.ok], list, n)
    BY <1>1, <1>3, <2>3, <2>4, <2>5, <2>7 DEF Made, Keeps
  <2> QED
    BY <2>2, <2>8
<1>7. CASE Method(m) /\ overridden # {}
  <2>1. m \in Methods /\ m \notin Fields
    BY <1>2, <1>7 DEF Fields, Methods
  <2>2. PICK id \in overridden :
          AddMember(super, table, m) = IF MayOverride(m, super.methods[id])
                                       THEN [table EXCEPT !.methods[id] = m]
                                       ELSE [table EXCEPT !.ok = FALSE]
    BY <1>7 DEF AddMember
  <2>3. MayOverride(m, super.methods[id])
    BY <1>2, <2>2
  <2> DEFINE new == [mt EXCEPT ![id] = m]
  <2>4. AddMember(super, table, m) = [methods |-> new, fields |-> ft, ok |-> table.ok]
    BY <1>1, <1>2, <2>2, <2>3
  <2>5. id \in DOMAIN ms /\ id \in DOMAIN mt /\ Alike(mt[id], ms[id]) /\ Alike(m, ms[id])
    BY <1>1, <1>2, <1>3, <2>2, <2>3 DEF Alike, MayOverride
  <2>6. mt[id].name = m.name
    BY <2>5 DEF Alike
  <2>7. \A j \in 1..(n - 1) : mt[id] # list[j]
    BY <1>4, <2>6
  <2>8. Among(new, ms, list, n, Methods)
    BY <1>2, <1>3, <2>1, <2>5, <2>7, AmongReplaced
  <2>9. Among(ft, fs, list, n, Fields)
    BY <1>3, <2>1, AmongSkipped
  <2>10. Len(ms) <= Len(new) /\ \A i \in DOMAIN ms : Alike(new[i], ms[i])
    BY <1>2, <1>3, <2>5
  <2>11. OneByName(new)
    BY <1>2, <1>3, <2>5, <2>6 DEF OneByName
  <2>12. Made(super, [methods |-> new, fields |-> ft, ok |-> table.ok], list, n)
    BY <1>1, <1>3, <2>8, <2>9, <2>10, <2>11 DEF Made, Keeps
  <2> QED
    BY <2>4, <2>12
<1> QED
  BY <1>5, <1>6, <1>7

(* So a class whose members are added without an error got the right table.*)
LEMMA MembersMake ==
  ASSUME NEW super \in Table, NEW list \in Seq(Declaration),
         OneByName(super.methods), OneByName(list), WithMembers(super, list).ok
  PROVE  /\ WithMembers(super, list) \in Table
         /\ Made(super, WithMembers(super, list), list, Len(list))
         /\ super.ok
<1> DEFINE N == Len(list)
<1>1. PICK f \in [0..N -> Table] : Adds(f, super, list) /\ WithMembers(super, list) = f[N]
  BY MembersAreAdded
<1>2. N \in Nat /\ N \in 0..N
  OBVIOUS
<1> HIDE DEF N
<1> DEFINE S == {n \in 0..N : f[n].ok => Made(super, f[n], list, n) /\ super.ok}
<1>3. 0 \in S
  <2>1. Made(super, super, list, 0)
    <3>1. super.methods \in Seq(Declaration) /\ super.fields \in Seq(Declaration)
      BY DEF Table
    <3>2. Among(super.methods, super.methods, list, 0, Methods)
      BY DEF Among
    <3>3. Among(super.fields, super.fields, list, 0, Fields)
      BY DEF Among
    <3>4. Keeps(super, super)
      BY <3>1 DEF Keeps, Alike
    <3> QED
      BY <3>2, <3>3, <3>4 DEF Made
  <2> QED
    BY <1>1, <1>2, <2>1 DEF Adds
<1>4. ASSUME NEW n \in 0..(N - 1), n \in S
      PROVE  n + 1 \in S
  <2>1. n + 1 \in 0..N /\ n + 1 \in 1..N /\ (n + 1) - 1 = n /\ n \in 0..N
    BY <1>2
  <2>2. SUFFICES ASSUME f[n + 1].ok
                 PROVE  Made(super, f[n + 1], list, n + 1) /\ super.ok
    BY <2>1
  <2>3. f[n] \in Table /\ f[n + 1] = AddMember(super, f[n], list[n + 1])
    BY <1>1, <2>1 DEF Adds, N
  <2>4. f[n].ok
    BY <2>2, <2>3, ErrorStays
  <2>5. Made(super, f[n], list, n) /\ super.ok
    BY <1>4, <2>4
  <2> QED
    BY <2>1, <2>2, <2>3, <2>5, MemberAdded DEF N
<1>5. N \in S
  <2> HIDE DEF S
  <2>1. \A n \in 0..N : n \in S
    BY <1>2, <1>3, <1>4, UpFromZero
  <2> QED
    BY <1>2, <2>1
<1> QED
  BY <1>1, <1>2, <1>5 DEF N

-----------------------------------------------------------------------------
(* The tables of a program that SuperCheck has no error to report for.     *)
Compiled ==
  /\ members \in Programs
  /\ tables = Tables(members)
  /\ \A c \in Classes : tables[c].ok

(* What is known of the members of a class (Collect).                      *)
LEMMA MembersAre ==
  ASSUME members \in Programs, NEW c \in Classes
  PROVE  /\ members[c] \in Seq(Declaration)
         /\ OneByName(members[c])
         /\ \A m \in Own(members, c) : m \in Declaration /\ m.class = c
<1>1. members[c] \in Seq(Declaration)
  BY ProgramAssumption
<1>2. OneByName(members[c])
  BY ProgramAssumption DEF OneByName
<1>3. \A m \in Own(members, c) : m \in Declaration
  BY <1>1 DEF Own
<1>4. \A m \in Own(members, c) : m.class = c
  BY ProgramAssumption
<1> QED
  BY <1>1, <1>2, <1>3, <1>4

(* A class's table is made of its superclass's and its members ...         *)
LEMMA TablesAreMade ==
  ASSUME Compiled, NEW c \in Classes
  PROVE  /\ tables[c] \in Table
         /\ Super(tables, c) \in Table
         /\ Made(Super(tables, c), tables[c], members[c], Len(members[c]))
<1> DEFINE P == {x \in Classes : /\ tables[x] \in Table
                                 /\ Super(tables, x) \in Table
                                 /\ Made(Super(tables, x), tables[x], members[x], Len(members[x]))}
<1>1. ASSUME NEW x \in Classes, Extends[x] = NoClass \/ Extends[x] \in P
      PROVE  x \in P
  <2>1. Super(tables, x) \in Table /\ OneByName(Super(tables, x).methods)
    <3>1. CASE Extends[x] = NoClass
      BY <3>1 DEF Super, Object, Table, OneByName
    <3>2. CASE Extends[x] # NoClass
      BY <1>1, <3>2 DEF Super, Made
    <3> QED
      BY <3>1, <3>2
  <2>2. tables[x] = WithMembers(Super(tables, x), members[x])
    BY TablesAre DEF Compiled, IsTables
  <2>3. tables[x].ok
    BY DEF Compiled
  <2>4. members[x] \in Seq(Declaration) /\ OneByName(members[x])
    BY MembersAre DEF Compiled
  <2> QED
    BY <2>1, <2>2, <2>3, <2>4, MembersMake
<1>2. Classes \subseteq P
  <2> HIDE DEF P
  <2> QED
    BY <1>1, Inherited
<1> QED
  BY <1>2

(* Keeping places is transitive ...                                        *)
LEMMA KeepsTransitive ==
  ASSUME NEW t \in Table, NEW s \in Table, NEW u \in Table, Keeps(u, s), Keeps(s, t)
  PROVE  Keeps(u, t)
<1>1. /\ Len(u.methods) \in Nat /\ Len(s.methods) \in Nat /\ Len(t.methods) \in Nat
      /\ DOMAIN u.methods = 1..Len(u.methods) /\ DOMAIN s.methods = 1..Len(s.methods)
  BY DEF Table
<1>2. /\ Len(u.fields) \in Nat /\ Len(s.fields) \in Nat /\ Len(t.fields) \in Nat
      /\ DOMAIN u.fields = 1..Len(u.fields) /\ DOMAIN s.fields = 1..Len(s.fields)
  BY DEF Table
<1>3. ASSUME NEW i \in DOMAIN u.methods
      PROVE  Alike(t.methods[i], u.methods[i])
  <2>1. i \in DOMAIN s.methods
    BY <1>1 DEF Keeps
  <2>2. Alike(s.methods[i], u.methods[i]) /\ Alike(t.methods[i], s.methods[i])
    BY <2>1 DEF Keeps
  <2> QED
    BY <2>2 DEF Alike
<1>4. ASSUME NEW i \in DOMAIN u.fields
      PROVE  t.fields[i] = u.fields[i]
  <2>1. i \in DOMAIN s.fields
    BY <1>2 DEF Keeps
  <2> QED
    BY <2>1 DEF Keeps
<1> QED
  BY <1>1, <1>2, <1>3, <1>4 DEF Keeps

(* ... so a table keeps the places of those of all its superclasses.       *)
LEMMA PlacesAreKept ==
  ASSUME Compiled, NEW c \in Classes, NEW d \in Chain[c]
  PROVE  Keeps(tables[d], tables[c])
<1> DEFINE P == {x \in Classes : \A y \in Chain[x] : Keeps(tables[y], tables[x])}
<1>1. ASSUME NEW x \in Classes, Extends[x] = NoClass \/ Extends[x] \in P
      PROVE  x \in P
  <2>1. SUFFICES ASSUME NEW y \in Chain[x] PROVE Keeps(tables[y], tables[x])
    OBVIOUS
  <2>2. CASE y = x
    BY <2>2, TablesAreMade DEF Keeps, Alike, Table
  <2>3. CASE y # x
    <3>1. Extends[x] \in Classes /\ Extends[x] # NoClass /\ y \in Chain[Extends[x]] /\ y \in Classes
      BY <2>3, ChainStep
    <3>2. PICK t, s, u : t = tables[x] /\ s = tables[Extends[x]] /\ u = tables[y]
      OBVIOUS
    <3>3. Keeps(u, s)
      BY <1>1, <3>1, <3>2
    <3>4. Keeps(s, t)
      BY <3>1, <3>2, TablesAreMade DEF Made, Super
    <3>5. t \in Table /\ s \in Table /\ u \in Table
      BY <3>1, <3>2, TablesAreMade
    <3> QED
      BY <3>2, <3>3, <3>4, <3>5, KeepsTransitive
  <2> QED
    BY <2>2, <2>3
<1>2. Classes \subseteq P
  <2> HIDE DEF P
  <2> QED
    BY <1>1, Inherited
<1> QED
  BY <1>2

(* ... has a place for each member ...                                     *)
LEMMA MembersArePlaced ==
  ASSUME Compiled, NEW c \in Classes, NEW m \in Own(members, c)
  PROVE  /\ Method(m) => \E i \in DOMAIN tables[c].methods : tables[c].methods[i] = m
         /\ ~Method(m) => \E i \in DOMAIN tables[c].fields : tables[c].fields[i] = m
<1>1. PICK j \in 1..Len(members[c]) : m = members[c][j]
  BY MembersAre DEF Own, Compiled
<1>2. m \in Declaration
  BY MembersAre DEF Compiled
<1>3. Made(Super(tables, c), tables[c], members[c], Len(members[c]))
  BY TablesAreMade
<1>4. CASE Method(m)
  <2>1. members[c][j] \in Methods
    BY <1>1, <1>2, <1>4 DEF Methods
  <2> QED
    BY <1>1, <1>3, <1>4, <2>1 DEF Made, Among
<1>5. CASE ~Method(m)
  <2>1. members[c][j] \in Fields
    BY <1>1, <1>2, <1>5 DEF Methods, Fields
  <2> QED
    BY <1>1, <1>3, <1>5, <2>1 DEF Made, Among
<1> QED
  BY <1>4, <1>5

(* Is a method of x the nearest of its name for objects of class c?        *)
IsNearest(m, x, c) ==
  \A y \in Chain[c] : (\E n \in Own(members, y) : n.name = m.name /\ Method(n)) => y \in Chain[x]

(* ... and at each place a member of the class or of a superclass, for a   *)
(* method the nearest one of its name ...                                  *)
LEMMA MethodsAreNearest ==
  ASSUME Compiled, NEW c \in Classes, NEW i \in DOMAIN tables[c].methods
  PROVE  \E x \in Chain[c] : /\ tables[c].methods[i] \in Own(members, x)
                             /\ tables[c].methods[i] \in Methods
                             /\ IsNearest(tables[c].methods[i], x, c)
<1> DEFINE Comes(m, y) ==
             \E x \in Chain[y] : m \in Own(members, x) /\ m \in Methods /\ IsNearest(m, x, y)
           P == {y \in Classes :
                   \A k \in DOMAIN tables[y].methods : Comes(tables[y].methods[k], y)}
<1>1. ASSUME NEW y \in Classes, Extends[y] = NoClass \/ Extends[y] \in P
      PROVE  y \in P
  <2>1. SUFFICES ASSUME NEW k \in DOMAIN tables[y].methods
                 PROVE  Comes(tables[y].methods[k], y)
    OBVIOUS
  <2>2. PICK m : m = tables[y].methods[k]
    OBVIOUS
  <2>3. Made(Super(tables, y), tables[y], members[y], Len(members[y]))
    BY TablesAreMade
  <2>4. members[y] \in Seq(Declaration)
    BY MembersAre DEF Compiled
  <2>5. CASE \E j \in 1..Len(members[y]) : members[y][j] \in Methods /\ m = members[y][j]
    <3>1. m \in Own(members, y) /\ m \in Methods
      BY <2>4, <2>5 DEF Own
    <3>2. y \in Chain[y] /\ IsNearest(m, y, y)
      BY ChainReflexive DEF IsNearest
    <3> QED
      BY <2>2, <3>1, <3>2
  <2>6. CASE ~\E j \in 1..Len(members[y]) : members[y][j] \in Methods /\ m = members[y][j]
    <3>1. k \in DOMAIN Super(tables, y).methods /\ m = Super(tables, y).methods[k]
      BY <2>2, <2>3, <2>6 DEF Made, Among
    <3>2. Extends[y] # NoClass
      BY <3>1 DEF Super, Object
    <3>3. PICK z \in Classes : z = Extends[y]
      BY <3>2, ChainStep
    <3>4. k \in DOMAIN tables[z].methods /\ m = tables[z].methods[k] /\ z \in P
      BY <1>1, <3>1, <3>2, <3>3 DEF Super
    <3>5. PICK x \in Chain[z] : m \in Own(members, x) /\ m \in Methods /\ IsNearest(m, x, z)
      BY <3>4
    <3>6. ASSUME NEW n \in Own(members, y), n.name = m.name, Method(n)
          PROVE  FALSE
      <4>1. PICK l \in DOMAIN tables[y].methods : tables[y].methods[l] = n
        BY <3>6, MembersArePlaced
      <4>2. l = k
        BY <2>2, <2>3, <3>6, <4>1 DEF Made, OneByName
      <4>3. n \in Declaration
        BY MembersAre DEF Compiled
      <4> QED
        BY <2>2, <2>4, <2>6, <3>6, <4>1, <4>2, <4>3 DEF Own, Methods
    <3>7. Chain[y] = {y} \cup Chain[z]
      BY <3>2, <3>3, ChainStep
    <3>8. IsNearest(m, x, y) /\ x \in Chain[y]
      BY <3>5, <3>6, <3>7 DEF IsNearest
    <3> QED
      BY <2>2, <3>5, <3>8
  <2> QED
    BY <2>5, <2>6
<1>2. Classes \subseteq P
  <2> HIDE DEF P
  <2> QED
    BY <1>1, Inherited
<1> QED
  BY <1>2

(* ... and for a field, a field.                                           *)
LEMMA FieldsAreMembers ==
  ASSUME Compiled, NEW c \in Classes, NEW i \in DOMAIN tables[c].fields
  PROVE  \E x \in Chain[c] : tables[c].fields[i] \in Own(members, x) \cap Fields
<1> DEFINE Comes(m, y) == \E x \in Chain[y] : m \in Own(members, x) \cap Fields
           P == {y \in Classes :
                   \A k \in DOMAIN tables[y].fields : Comes(tables[y].fields[k], y)}
<1>1. ASSUME NEW y \in Classes, Extends[y] = NoClass \/ Extends[y] \in P
      PROVE  y \in P
  <2>1. SUFFICES ASSUME NEW k \in DOMAIN tables[y].fields
                 PROVE  Comes(tables[y].fields[k], y)
    OBVIOUS
  <2>2. PICK m : m = tables[y].fields[k]
    OBVIOUS
  <2>3. Made(Super(tables, y), tables[y], members[y], Len(members[y]))
    BY TablesAreMade
  <2>4. members[y] \in Seq(Declaration)
    BY MembersAre DEF Compiled
  <2>5. CASE \E j \in 1..Len(members[y]) : members[y][j] \in Fields /\ m = members[y][j]
    <3>1. m \in Own(members, y) \cap Fields
      BY <2>4, <2>5 DEF Own
    <3> QED
      BY <2>2, <3>1, ChainReflexive
  <2>6. CASE ~\E j \in 1..Len(members[y]) : members[y][j] \in Fields /\ m = members[y][j]
    <3>1. k \in DOMAIN Super(tables, y).fields /\ m = Super(tables, y).fields[k]
      BY <2>2, <2>3, <2>6 DEF Made, Among
    <3>2. Extends[y] # NoClass
      BY <3>1 DEF Super, Object
    <3>3. k \in DOMAIN tables[Extends[y]].fields /\ m = tables[Extends[y]].fields[k]
      BY <3>1, <3>2 DEF Super
    <3>4. Comes(m, Extends[y])
      BY <1>1, <3>2, <3>3
    <3> QED
      BY <2>2, <3>2, <3>4, ChainStep
  <2> QED
    BY <2>5, <2>6
<1>2. Classes \subseteq P
  <2> HIDE DEF P
  <2> QED
    BY <1>1, Inherited
<1> QED
  BY <1>2

(* Of some superclasses of a class, one is the nearest.                    *)
LEMMA OneIsNearest ==
  ASSUME NEW c \in Classes, NEW C \in SUBSET Chain[c], C # {}
  PROVE  Nearest(C) \in C
<1> DEFINE P == {x \in Classes : \A S \in SUBSET Chain[x] :
                   S # {} => \E y \in S : \A z \in S : z \in Chain[y]}
<1>1. ASSUME NEW x \in Classes, Extends[x] = NoClass \/ Extends[x] \in P
      PROVE  x \in P
  <2>1. SUFFICES ASSUME NEW S \in SUBSET Chain[x], S # {}
                 PROVE  \E y \in S : \A z \in S : z \in Chain[y]
    OBVIOUS
  <2>2. CASE x \in S
    BY <2>2
  <2>3. CASE x \notin S
    <3>1. Extends[x] # NoClass /\ S \in SUBSET Chain[Extends[x]]
      BY <2>1, <2>3, ChainStep
    <3> QED
      BY <1>1, <2>1, <3>1
  <2> QED
    BY <2>2, <2>3
<1>2. Classes \subseteq P
  <2> HIDE DEF P
  <2> QED
    BY <1>1, Inherited
<1>3. \E y \in C : \A z \in C : z \in Chain[y]
  BY <1>2
<1> QED
  BY <1>3 DEF Nearest

(* A name that is visible in a class is a member of it or a superclass.    *)
LEMMA VisibleIsMember ==
  ASSUME NEW c \in Classes, NEW m \in Visible(members, c)
  PROVE  \E x \in Chain[c] : m \in Own(members, x)
<1> DEFINE Declaring(name) == {x \in Chain[c] : \E n \in Own(members, x) : n.name = name}
<1>1. PICK name \in UNION {{n.name : n \in Own(members, x)} : x \in Chain[c]} :
        m = CHOOSE n \in Own(members, Nearest(Declaring(name))) : n.name = name
  BY DEF Visible
<1>2. PICK D : D = Declaring(name)
  OBVIOUS
<1>3. D \in SUBSET Chain[c] /\ D # {}
  BY <1>1, <1>2
<1>4. Nearest(D) \in D
  BY <1>3, OneIsNearest
<1>5. \E n \in Own(members, Nearest(D)) : n.name = name
  BY <1>2, <1>4
<1> QED
  BY <1>1, <1>2, <1>3, <1>4, <1>5

(* What SuperCheck makes dispatches to the nearest method, and finds the   *)
(* field that was declared.                                                *)
LEMMA TablesDispatch ==
  ASSUME Compiled, PassesAlike(members)
  PROVE  DispatchesToNearest
<1> SUFFICES ASSUME NEW c \in Classes, NEW d \in Chain[c], NEW m \in Visible(members, d)
             PROVE  LET found == Found(tables, c, m)
                        named == {x \in Chain[c] :
                                    \E n \in Own(members, x) : n.name = m.name /\ Method(n)}
                    IN /\ Has(tables, c, m)
                       /\ \E x \in Chain[c] : /\ found \in Own(members, x)
                                              /\ Method(m) => \A y \in named : y \in Chain[x]
                       /\ m = IF Method(m) THEN [found EXCEPT !.class = m.class] ELSE found
  BY DEF DispatchesToNearest
<1>1. d \in Classes
  BY ChainStep
<1>2. PICK z \in Chain[d] : m \in Own(members, z)
  BY <1>1, VisibleIsMember
<1>3. z \in Classes /\ z \in Chain[c]
  BY <1>1, <1>2, ChainStep, ChainTransitive
<1>4. m \in Declaration /\ m.class = z
  BY <1>2, <1>3, MembersAre DEF Compiled
<1>5. Keeps(tables[z], tables[c])
  BY <1>3, PlacesAreKept
<1>6. tables[z] \in Table /\ tables[c] \in Table
  BY <1>3, TablesAreMade
<1>7. /\ tables[z].methods \in Seq(Declaration) /\ tables[z].fields \in Seq(Declaration)
      /\ tables[c].methods \in Seq(Declaration) /\ tables[c].fields \in Seq(Declaration)
  BY <1>6 DEF Table
<1>8. CASE Method(m)
  <2>1. PICK i : i = Id(tables, m)
    OBVIOUS
  <2>2. i \in DOMAIN tables[z].methods /\ tables[z].methods[i] = m
    BY <1>2, <1>3, <1>4, <1>8, <2>1, MembersArePlaced DEF Id, Position
  <2>3. i \in DOMAIN tables[c].methods /\ Alike(tables[c].methods[i], m)
    BY <1>5, <1>7, <2>2 DEF Keeps
  <2>4. PICK found : found = tables[c].methods[i]
    OBVIOUS
  <2>5. Has(tables, c, m) /\ Found(tables, c, m) = found
    BY <1>8, <2>1, <2>3, <2>4 DEF Has, Found, Slots
  <2>6. PICK x \in Chain[c] : /\ found \in Own(members, x) /\ found \in Methods
                              /\ IsNearest(found, x, c)
    BY <2>3, <2>4, MethodsAreNearest
  <2>7. found.name = m.name /\ found.k = m.k /\ found.type = m.type /\ found \in Declaration
    BY <2>3, <2>4, <2>6 DEF Alike, Methods
  <2>8. found.ref = m.ref
    <3>1. z \in Chain[x]
      BY <1>2, <1>3, <1>8, <2>6, <2>7 DEF IsNearest
    <3>2. x \in Classes
      BY ChainStep
    <3> QED
      BY <1>2, <1>8, <2>6, <2>7, <3>1, <3>2 DEF PassesAlike, Methods
  <2>9. m = [found EXCEPT !.class = m.class]
    BY <1>4, <2>7, <2>8 DEF Declaration
  <2> QED
    BY <1>8, <2>5, <2>6, <2>7, <2>9 DEF IsNearest
<1>9. CASE ~Method(m)
  <2>1. PICK i : i = Id(tables, m)
    OBVIOUS
  <2>2. i \in DOMAIN tables[z].fields /\ tables[z].fields[i] = m
    BY <1>2, <1>3, <1>4, <1>9, <2>1, MembersArePlaced DEF Id, Position
  <2>3. i \in DOMAIN tables[c].fields /\ tables[c].fields[i] = m
    BY <1>5, <1>7, <2>2 DEF Keeps
  <2>4. Has(tables, c, m) /\ Found(tables, c, m) = m
    BY <1>9, <2>1, <2>3 DEF Has, Found, Slots
  <2> QED
    BY <1>2, <1>3, <1>9, <2>4
<1> QED
  BY <1>8, <1>9

(* The program and its tables do not change.                               *)
LEMMA ProgramStays ==
  ASSUME members' = members, tables' = tables
  PROVE  Cells' = Cells /\ DispatchesToNearest' = DispatchesToNearest
  BY DEF Cells, Variables, Own, DispatchesToNearest, Visible, Has, Found, Id, Slots, Position

-----------------------------------------------------------------------------
(* No statement changes the program or its tables.                         *)
LEMMA ProgramIsFixed ==
  ASSUME [Next]_vars
  PROVE  members' = members /\ tables' = tables
<1>1. ASSUME NEW cell, NEW ok, NEW val, Put(cell, ok, val)
      PROVE  members' = members /\ tables' = tables
  BY <1>1 DEF Put
<1>2. ASSUME NEW ok, Take(ok)
      PROVE  members' = members /\ tables' = tables
  BY <1>2 DEF Take
<1>3. CASE Assign \/ Input \/ UpdateCharacter \/ ReadRecord \/ ForEach \/ Return \/ EditString
  BY <1>1, <1>3 DEF Assign, Input, UpdateCharacter, ReadRecord, ForEach, Return, EditString
<1>4. CASE Call \/ VirtualCall
  BY <1>1, <1>4 DEF Call, VirtualCall, Pass
<1>5. CASE ForNext \/ FollowReference \/ TakeOne \/ LibCall
  BY <1>2, <1>5 DEF ForNext, FollowReference, TakeOne, LibCall
<1>6. CASE Operate
  BY <1>2, <1>6 DEF Operate
<1>7. CASE Select
  BY <1>2, <1>7 DEF Select
<1>8. CASE UNCHANGED vars
  BY <1>8 DEF vars
<1> QED
  BY <1>3, <1>4, <1>5, <1>6, <1>7, <1>8 DEF Next

(* If every override takes its argument by value or by reference as the    *)
(* method it overrides does, every call runs the nearest method, and every *)
(* access finds its field (SuperCheck).  checkParams does not ask for it:  *)
(* a call to an override that does not is compiled for the other way.      *)
THEOREM CallsDispatch ==
  ASSUME "override" \notin Lax
  PROVE  Spec => []DispatchesToNearest
<1>1. Init => DispatchesToNearest
  BY TablesDispatch DEF Init, Compiled
<1>2. DispatchesToNearest /\ [Next]_vars => DispatchesToNearest'
  BY ProgramIsFixed, ProgramStays
<1> QED
  BY <1>1, <1>2, PTL DEF Spec

-----------------------------------------------------------------------------
(* The invariant of TypeOK, whatever the program relies on.  A reference   *)
(* refers to a cell that is none itself.                                   *)
Targets == {c \in Cells : ~c.ref}

Value(val) ==
  /\ val \in [go : GoTypes \cup Classes, to : Targets \cup {NoCell}]
  /\ val.go = "*any" => val.to \in Targets

ShapeInv ==
  /\ Compiled
  /\ mem = [d \in Cells |-> mem[d]]
  /\ \A d \in Cells : Value(mem[d])
  /\ fault \in {"", "assertion"}

(* Zero values, objects, and what casts leave are values.                  *)
LEMMA PlainIsValue ==
  /\ \A type : Value(Zero(type))
  /\ \A c \in Classes : Value(Plain(c))
  /\ Value(Unset)
  /\ \A go \in {"float64", "int64", "string"} : Value(Plain(go))
<1>1. ASSUME NEW type
      PROVE  GoType(type) \in GoTypes /\ GoType(type) # "*any"
  BY DEF GoType, GoTypes
<1>2. \A c \in Classes : c # "*any"
  BY ValueAssumption DEF GoTypes
<1>3. ASSUME NEW go \in GoTypes \cup Classes, go # "*any"
      PROVE  Value(Plain(go))
  <2>1. Plain(go).go = go /\ Plain(go) \in [go : GoTypes \cup Classes, to : Targets \cup {NoCell}]
    BY DEF Plain
  <2> QED
    BY <1>3, <2>1 DEF Value
<1>4. {"float64", "int64", "string", "nil"} \subseteq GoTypes \ {"*any"}
  BY DEF GoTypes
<1> QED
  BY <1>1, <1>2, <1>3, <1>4 DEF Zero, Unset

(* What is found at the place of a member is a member; a field is no       *)
(* reference.                                                              *)
LEMMA AccessIsCell ==
  ASSUME Compiled, NEW kinds, NEW a \in Accesses(kinds)
  PROVE  a.cell \in Cells /\ (kinds = {"field"} => ~a.cell.ref)
<1>1. PICK o \in Objects : \E m \in Visible(members, o.type) :
        /\ m.k \in kinds /\ Has(tables, o.val.go, m)
        /\ a = [decl |-> m, cell |-> Found(tables, o.val.go, m)]
  BY DEF Accesses
<1>2. PICK m \in Visible(members, o.type) :
        /\ m.k \in kinds /\ Has(tables, o.val.go, m)
        /\ a = [decl |-> m, cell |-> Found(tables, o.val.go, m)]
  BY <1>1
<1>3. PICK c \in Classes : c = o.val.go
  BY DEF Objects
<1>4. PICK i : i = Id(tables, m)
  OBVIOUS
<1>5. CASE Method(m)
  <2>1. i \in DOMAIN tables[c].methods /\ a.cell = tables[c].methods[i]
    BY <1>2, <1>3, <1>4, <1>5 DEF Has, Found, Slots
  <2>2. PICK x \in Chain[c] : a.cell \in Own(members, x)
    BY <2>1, MethodsAreNearest
  <2>3. x \in Classes
    BY ChainStep
  <2> QED
    BY <1>2, <1>5, <2>2, <2>3 DEF Cells, Method
<1>6. CASE ~Method(m)
  <2>1. i \in DOMAIN tables[c].fields /\ a.cell = tables[c].fields[i]
    BY <1>2, <1>3, <1>4, <1>6 DEF Has, Found, Slots
  <2>2. PICK x \in Chain[c] : a.cell \in Own(members, x) \cap Fields
    BY <2>1, FieldsAreMembers
  <2>3. x \in Classes
    BY ChainStep
  <2>4. /\ a.cell.k \in MemberKinds
        /\ a.cell.ref => a.cell.k \in {"param", "module"}
    BY <2>2, <2>3, ClassAssumption, ProgramAssumption DEF Compiled
  <2>5. a.cell.k = "field"
    BY <2>2, <2>4 DEF MemberKinds, Fields, Methods, Method
  <2> QED
    BY <2>2, <2>3, <2>4, <2>5 DEF Cells
<1> QED
  BY <1>5, <1>6

(* What an expression leaves is a value ...                                *)
LEMMA OperandsAreValues ==
  ASSUME ShapeInv, NEW o \in Operands
  PROVE  Value(o.val)
<1>1. ASSUME NEW d \in Named, Known(d)
      PROVE  Value(Read(d))
  <2>1. d \in Cells /\ Value(mem[d])
    BY DEF Named, ShapeInv
  <2>2. d.ref => mem[d].to \in Cells
    BY <1>1, <2>1 DEF Known, Value, Targets
  <2> QED
    BY <2>1, <2>2 DEF Read, ShapeInv
<1>2. CASE o \in Basic
  <2>1. \/ \E t \in Primitive : o = Operand(t, Zero(t))
        \/ \E c \in Classes : o = Operand(c, Plain(c))
        \/ \E d \in Named : Known(d) /\ o = Operand(d.type, Read(d))
    BY <1>2 DEF Basic
  <2> QED
    BY <1>1, <2>1, PlainIsValue DEF Operand
<1>3. CASE o \notin Basic
  <2>1. PICK a \in Accesses({"field", "function"}) : o = Operand(a.decl.type, mem[a.cell])
    BY <1>3 DEF Operands
  <2>2. a.cell \in Cells
    BY AccessIsCell DEF ShapeInv
  <2> QED
    BY <2>1, <2>2 DEF Operand, ShapeInv
<1> QED
  BY <1>2, <1>3

(* ... what is assigned to is a cell that is no reference ...              *)
LEMMA WholeAreTargets ==
  ASSUME ShapeInv, NEW p \in Whole
  PROVE  p.cell \in Targets
<1>1. ASSUME NEW d \in Named, ~d.ref,
             p = Place(d.type, d, IF d.k = "element" THEN "element" ELSE "name")
      PROVE  p.cell \in Targets
  BY <1>1 DEF Named, Place, Targets
<1>2. ASSUME NEW d \in Named, mem[d].go = "*any", p = Place(d.type, Referred(d), "name")
      PROVE  p.cell \in Targets
  <2>1. Value(mem[d])
    BY DEF Named, ShapeInv
  <2> QED
    BY <1>2, <2>1 DEF Value, Place, Referred
<1>3. ASSUME NEW a \in Accesses({"field"}), p = Place(a.decl.type, a.cell, "name")
      PROVE  p.cell \in Targets
  BY <1>3, AccessIsCell DEF ShapeInv, Place, Targets
<1> QED
  BY <1>1, <1>2, <1>3 DEF Whole

(* ... also if it is a character of the string there ...                   *)
LEMMA PlacesAreTargets ==
  ASSUME ShapeInv, NEW p \in Places
  PROVE  p.cell \in Targets
  BY WholeAreTargets DEF Places, Characters, Place

(* ... and so is what is cast for it a value.                              *)
LEMMA CastIsValue ==
  ASSUME NEW dst, NEW o, Value(o.val)
  PROVE  Value(Cast(dst, o))
  BY PlainIsValue DEF Cast

(* A statement that leaves a value keeps the invariant ...                 *)
LEMMA PutKeepsShape ==
  ASSUME ShapeInv, NEW cell \in Cells, NEW ok, NEW val, Put(cell, ok, val), Value(val)
  PROVE  ShapeInv'
<1>1. /\ members' = members /\ tables' = tables /\ fault' \in {"", "assertion"}
      /\ mem' = [mem EXCEPT ![cell] = val] \/ mem' = mem
  BY DEF Put
<1>2. Cells' = Cells
  BY <1>1, ProgramStays
<1>3. Targets' = Targets
  BY <1>2 DEF Targets
<1>4. Compiled'
  BY <1>1 DEF Compiled, ShapeInv
<1>5. mem' = [d \in Cells |-> mem'[d]]
  BY <1>1 DEF ShapeInv
<1>6. \A d \in Cells : Value(mem'[d])
  BY <1>1 DEF ShapeInv
<1>7. \A d \in Cells' : Value(mem[d])'
  BY <1>2, <1>6, <1>3 DEF Value
<1> QED
  BY <1>1, <1>2, <1>4, <1>5, <1>7 DEF ShapeInv

(* ... and one that leaves none.                                           *)
LEMMA TakeKeepsShape ==
  ASSUME ShapeInv, fault' \in {"", "assertion"}, members' = members, tables' = tables, mem' = mem
  PROVE  ShapeInv'
<1>1. Cells' = Cells
  BY ProgramStays
<1>2. Targets' = Targets
  BY <1>1 DEF Targets
<1>3. Compiled'
  BY DEF Compiled, ShapeInv
<1> QED
  BY <1>1, <1>3, <1>2 DEF ShapeInv, Value

(* A call keeps it as well, by value and by reference.                     *)
LEMMA PassKeepsShape ==
  ASSUME ShapeInv, NEW param, NEW cell \in Cells, Pass(param, cell)
  PROVE  ShapeInv'
<1>1. CASE \E o \in Operands : Put(cell, Casts(param.type, o), Cast(param.type, o))
  BY <1>1, OperandsAreValues, CastIsValue, PutKeepsShape
<1>2. CASE \E p \in Places : Put(cell, TRUE, Pointer(p.cell))
  <2>1. PICK p \in Places : Put(cell, TRUE, Pointer(p.cell))
    BY <1>2
  <2>2. p.cell \in Targets
    BY PlacesAreTargets
  <2>3. PICK val : val = [go |-> "*any", to |-> p.cell]
    OBVIOUS
  <2>4. /\ val.go = "*any" /\ val.to = p.cell
        /\ val \in [go : GoTypes \cup Classes, to : Targets \cup {NoCell}]
    BY <2>2, <2>3 DEF GoTypes
  <2>5. Value(Pointer(p.cell))
    BY <2>2, <2>3, <2>4 DEF Value, Pointer
  <2> QED
    BY <2>1, <2>5, PutKeepsShape
<1> QED
  BY <1>1, <1>2 DEF Pass

(* It holds at the start: places have their zero value, or none.           *)
LEMMA ShapeInit ==
  ASSUME Init PROVE ShapeInv
<1>1. PICK value \in [Constants -> UNION {ConstantValues(d.type) : d \in Constants}] :
        /\ \A d \in Constants : value[d] \in ConstantValues(d.type)
        /\ mem = [d \in Cells |-> IF d \in Constants THEN value[d] ELSE InitialValue(d)]
  BY DEF Init
<1>2. ASSUME NEW d \in Cells
      PROVE  Value(mem[d])
  <2>1. CASE d \in Constants
    BY <1>1, <2>1, PlainIsValue DEF ConstantValues
  <2>2. CASE d \notin Constants
    BY <1>1, <2>2, PlainIsValue DEF InitialValue
  <2> QED
    BY <2>1, <2>2
<1>3. Compiled /\ fault = ""
  BY DEF Init, Compiled
<1> QED
  BY <1>1, <1>2, <1>3 DEF ShapeInv

(* Every statement keeps it.                                               *)
LEMMA ShapeStep ==
  ASSUME ShapeInv, [Next]_vars PROVE ShapeInv'
<1>1. \A p \in Places : p.cell \in Cells
  BY PlacesAreTargets DEF Targets
<1>2. CASE Assign
  BY <1>1, <1>2, OperandsAreValues, CastIsValue, PutKeepsShape DEF Assign, Places
<1>3. CASE Input \/ ReadRecord
  BY <1>1, <1>3, PlainIsValue, PutKeepsShape DEF Input, ReadRecord, Places
<1>4. CASE UpdateCharacter \/ EditString
  <2>1. PICK p \in Places : \E ok : Put(p.cell, ok, Plain("string"))
    BY <1>4 DEF UpdateCharacter, EditString, Places
  <2> QED
    BY <1>1, <2>1, PlainIsValue, PutKeepsShape
<1>5. CASE ForEach
  <2>1. PICK p \in Places, d \in Cells : Put(p.cell, p.how = "name", mem[d])
    BY <1>5 DEF ForEach, Named
  <2>2. Value(mem[d])
    BY DEF ShapeInv
  <2> QED
    BY <1>1, <2>1, <2>2, PutKeepsShape
<1>6. CASE Return
  BY <1>6, OperandsAreValues, PutKeepsShape DEF Return
<1>7. CASE Call
  BY <1>7, PassKeepsShape DEF Call, Cells
<1>8. CASE VirtualCall
  BY <1>8, AccessIsCell, PassKeepsShape DEF VirtualCall, ShapeInv
<1>9. ASSUME NEW ok, Take(ok) PROVE ShapeInv'
  BY <1>9, TakeKeepsShape DEF Take
<1>10. CASE ForNext \/ FollowReference \/ TakeOne \/ LibCall
  BY <1>9, <1>10 DEF ForNext, FollowReference, TakeOne, LibCall
<1>11. CASE Operate
  BY <1>9, <1>11 DEF Operate
<1>12. CASE Select
  BY <1>9, <1>12 DEF Select
<1>13. CASE UNCHANGED vars
  BY <1>13, TakeKeepsShape DEF vars, ShapeInv
<1> QED
  BY <1>2, <1>3, <1>4, <1>5, <1>6, <1>7, <1>8, <1>10, <1>11, <1>12, <1>13 DEF Next

(* Tables, cells and values keep their shape, whatever the program relies  *)
(* on: the members of a class are found where SuperCheck has put members,  *)
(* and no reference refers to a reference.                                 *)
THEOREM ShapesAreKept == Spec => []TypeOK
<1>1. Init => ShapeInv
  BY ShapeInit
<1>2. ShapeInv /\ [Next]_vars => ShapeInv'
  BY ShapeStep
<1>3. ShapeInv => TypeOK
  <2> SUFFICES ASSUME ShapeInv PROVE TypeOK
    OBVIOUS
  <2>1. tables = [c \in Classes |-> tables[c]]
    BY TablesAre DEF ShapeInv, Compiled, IsTables
  <2>2. mem \in [Cells -> [go : GoTypes \cup Classes, to : Targets \cup {NoCell}]]
    BY DEF ShapeInv, Value
  <2> QED
    BY <2>1, <2>2 DEF TypeOK, ShapeInv, Compiled, Targets
<1> QED
  BY <1>1, <1>2, <1>3, PTL DEF Spec

-----------------------------------------------------------------------------
(* What can be assigned to a place of a class is of that class or of one   *)
(* that it is a superclass of.                                             *)
LEMMA CoerceToClass ==
  ASSUME NEW dst \in Classes, NEW src
  PROVE  CanCoerce(dst, src) <=> src \in Classes /\ dst \in Chain[src]
  BY ClassAssumption, ChainReflexive DEF CanCoerce, IsSubclass, Primitive

(* What can be assigned to a place of a primitive type.                    *)
LEMMA CoerceToPrimitive ==
  ASSUME NEW dst \in Primitive, NEW src
  PROVE  CanCoerce(dst, src) <=>
           src = dst \/ <<dst, src>> \in {<<"Real", "Integer">>, <<"String", "Character">>}
  BY ClassAssumption DEF CanCoerce, IsSubclass, Primitive

(* Coercion is transitive (CanCoerce), as it has to be for a Select, which *)
(* compares its cases one by one but casts them to one type.               *)
LEMMA CoerceTransitive ==
  ASSUME NEW a \in Type, NEW b \in Type, NEW c \in Type,
         CanCoerce(a, b), CanCoerce(b, c)
  PROVE  CanCoerce(a, c)
<1>1. CASE a \in Classes
  BY <1>1, CoerceToClass, ChainTransitive
<1>2. CASE a \in Primitive
  <2>1. b \in Primitive
    BY <1>2, CoerceToPrimitive DEF Primitive
  <2> QED
    BY <1>2, <2>1, CoerceToPrimitive
<1> QED
  BY <1>1, <1>2 DEF Type

(* The type in which two values are compared is one both can be cast to    *)
(* (AreComparableTypes).                                                   *)
LEMMA CommonType ==
  ASSUME NEW a \in Type, NEW b \in Type, AreComparableTypes(a, b) # Unresolved
  PROVE  /\ AreComparableTypes(a, b) \in Type
         /\ CanCoerce(AreComparableTypes(a, b), a)
         /\ CanCoerce(AreComparableTypes(a, b), b)
<1>1. CASE a = b
  BY <1>1 DEF AreComparableTypes, CanCoerce
<1>2. CASE a # b /\ {a, b} \subseteq Numeric
  <2>1. AreComparableTypes(a, b) = "Real"
    <3>1. ~({a, b} \subseteq Stringlike) /\ a \notin Classes
      BY <1>2, ClassAssumption DEF Numeric, Stringlike, Primitive
    <3> QED
      BY <1>2, <3>1 DEF AreComparableTypes, IsSubclass
  <2> QED
    BY <1>2, <2>1 DEF Numeric, CanCoerce, Type, Primitive
<1>3. CASE a # b /\ {a, b} \subseteq Stringlike
  <2>1. AreComparableTypes(a, b) = "String"
    <3>1. ~({a, b} \subseteq Numeric) /\ a \notin Classes
      BY <1>3, ClassAssumption DEF Numeric, Stringlike, Primitive
    <3> QED
      BY <1>3, <3>1 DEF AreComparableTypes, IsSubclass
  <2> QED
    BY <1>3, <2>1 DEF Stringlike, CanCoerce, Type, Primitive
<1>4. CASE /\ a # b /\ ~({a, b} \subseteq Numeric) /\ ~({a, b} \subseteq Stringlike)
           /\ IsSubclass(a, b) \/ IsSubclass(b, a)
  <2>1. AreComparableTypes(a, b) \in {a, b}
    BY <1>4 DEF AreComparableTypes
  <2>2. AreComparableTypes(a, b) = a => IsSubclass(a, b)
    BY <1>4 DEF AreComparableTypes
  <2>3. AreComparableTypes(a, b) = b => IsSubclass(b, a)
    BY <1>4 DEF AreComparableTypes
  <2> QED
    BY <2>1, <2>2, <2>3 DEF CanCoerce
<1> QED
  BY <1>1, <1>2, <1>3, <1>4 DEF AreComparableTypes

-----------------------------------------------------------------------------
(* The invariant: WellTyped by cells, and what it rests on.                *)
Fits(d, val) ==
  \/ val = Unset
  \/ ~d.ref /\ val \in ValuesOf(d.type)
  \/ d.ref /\ \E c \in Cells : val = Pointer(c) /\ ~c.ref /\ c.type = d.type

TypedInv ==
  /\ members \in Programs
  /\ mem = [d \in Cells |-> mem[d]]
  /\ \A d \in Cells : Fits(d, mem[d])
  /\ NoAssertionFails
  /\ DispatchesToNearest

(* A cell is a declaration, with a type and a place.                       *)
LEMMA CellsAreDeclarations ==
  ASSUME members \in Programs, NEW d \in Cells
  PROVE  /\ d \in Declaration
         /\ d.type \in Type
         /\ d.ref \in BOOLEAN
         /\ d.ref => d.k \in {"param", "module"}
<1>1. PICK c \in Classes \cup {NoClass} : d \in Own(members, c)
  BY DEF Cells, Variables
<1>2. members[c] \in Seq(Declaration)
  BY ProgramAssumption
<1>3. d \in Declaration
  BY <1>1, <1>2 DEF Own
<1> QED
  BY <1>1, <1>3, ProgramAssumption DEF Declaration

(* A place holds what a place of a type that can be assigned to it holds.  *)
LEMMA ValuesAreInherited ==
  ASSUME NEW dst \in Type, NEW src \in Type, CanCoerce(dst, src), ~Promotes(dst, src)
  PROVE  ValuesOf(src) \subseteq ValuesOf(dst)
<1>1. CASE dst = src
  BY <1>1
<1>2. CASE dst # src
  <2>1. dst \in Classes /\ src \in Classes
    BY <1>2 DEF Promotes, IsSubclass
  <2>2. GoType(dst) = "null" /\ GoType(src) = "null"
    BY <2>1, ClassAssumption DEF GoType, Primitive
  <2>3. ASSUME NEW c \in Classes, CanCoerce(src, c)
        PROVE  CanCoerce(dst, c)
    BY <2>3, CoerceTransitive DEF Type
  <2> QED
    BY <2>1, <2>2, <2>3 DEF ValuesOf, Zero
<1> QED
  BY <1>1, <1>2

(* The instruction that maybeCast emits takes what it finds, and leaves    *)
(* what the place it is for can hold.                                      *)
LEMMA CastFits ==
  ASSUME NEW dst \in Type, NEW o, o.type \in Type, o.val \in ValuesOf(o.type),
         CanCoerce(dst, o.type)
  PROVE  Casts(dst, o) /\ Cast(dst, o) \in ValuesOf(dst)
<1>1. CASE <<dst, o.type>> \in {<<"Real", "Integer">>, <<"String", "Character">>}
  <2>1. dst \notin Classes /\ o.type \notin Classes
    BY <1>1, ClassAssumption DEF Primitive
  <2>2. ValuesOf(o.type) = {Zero(o.type)} /\ ValuesOf(dst) = {Zero(dst)}
    BY <2>1 DEF ValuesOf
  <2>3. Cast(dst, o) = Zero(dst)
    BY <1>1 DEF Cast, Zero, GoType
  <2> QED
    BY <2>2, <2>3 DEF Casts
<1>2. CASE <<dst, o.type>> \notin {<<"Real", "Integer">>, <<"String", "Character">>}
  <2>1. ~Promotes(dst, o.type)
    BY <1>2 DEF Promotes, CanCoerce
  <2>2. <<dst, o.type>> # <<"Integer", "Real">>
    BY ClassAssumption DEF CanCoerce, IsSubclass, Primitive
  <2>3. Cast(dst, o) = o.val /\ Casts(dst, o)
    BY <1>2, <2>2 DEF Cast, Casts
  <2> QED
    BY <2>1, <2>3, ValuesAreInherited
<1> QED
  BY <1>1, <1>2

(* What a member of an object stands for is a cell of the same type.       *)
LEMMA AccessFinds ==
  ASSUME TypedInv, NEW kinds, NEW a \in Accesses(kinds),
         \A o \in Objects : o.type \in Classes /\ o.val \in ValuesOf(o.type)
  PROVE  /\ a.cell \in Cells
         /\ a.decl.type = a.cell.type
         /\ a.decl.ref = a.cell.ref
         /\ a.decl.k = a.cell.k
         /\ a.cell.k \in kinds
<1>1. PICK o \in Objects :
        \E m \in Visible(members, o.type) :
           /\ m.k \in kinds
           /\ a = [decl |-> m, cell |-> Found(tables, o.val.go, m)]
  BY DEF Accesses
<1>2. PICK m \in Visible(members, o.type) :
        m.k \in kinds /\ a = [decl |-> m, cell |-> Found(tables, o.val.go, m)]
  BY <1>1
<1> DEFINE class == o.val.go
<1>3. class \in Classes /\ o.type \in Chain[class]
  <2>1. class \in Classes
    BY DEF Objects
  <2>2. o.val # Zero(o.type)
    <3>1. GoType(o.type) = "null"
      BY ClassAssumption DEF GoType, Primitive
    <3> QED
      BY <2>1, <3>1, ValueAssumption DEF Zero, Plain, GoTypes
  <2>3. PICK d \in Classes : CanCoerce(o.type, d) /\ o.val = Plain(d)
    BY <2>2 DEF ValuesOf
  <2> QED
    BY <2>1, <2>3, CoerceToClass DEF Plain
<1> DEFINE found == Found(tables, class, m)
<1>4. /\ \E x \in Chain[class] : found \in Own(members, x)
      /\ m = IF Method(m) THEN [found EXCEPT !.class = m.class] ELSE found
  BY <1>3 DEF TypedInv, DispatchesToNearest
<1>5. found \in Cells
  BY <1>3, <1>4 DEF Cells, Chain
<1>6. found \in Declaration
  BY <1>5, CellsAreDeclarations DEF TypedInv
<1>7. m.type = found.type /\ m.ref = found.ref /\ m.k = found.k
  BY <1>4, <1>6 DEF Declaration
<1> QED
  BY <1>2, <1>5, <1>7

(* Whatever an expression is compiled to, its value is one of its type.    *)
LEMMA OperandsAreTyped ==
  ASSUME TypedInv, NEW o \in Operands
  PROVE  o.type \in Type /\ o.val \in ValuesOf(o.type)
<1>1. ASSUME NEW d \in Named, Known(d)
      PROVE  d.type \in Type /\ Read(d) \in ValuesOf(d.type)
  <2>0. d \in Cells
    BY DEF Named
  <2>1. d.type \in Type /\ Fits(d, mem[d])
    BY <2>0, CellsAreDeclarations DEF TypedInv
  <2>2. CASE ~d.ref
    BY <1>1, <2>1, <2>2 DEF Known, Read, Fits
  <2>3. CASE d.ref
    <3>1. mem[d] # Unset
      BY <1>1, <2>3 DEF Known, Unset, Plain
    <3>2. PICK c \in Cells : mem[d] = Pointer(c) /\ ~c.ref /\ c.type = d.type
      BY <2>1, <2>3, <3>1 DEF Fits
    <3>3. mem[d].to = c /\ Fits(c, mem[c])
      BY <3>2 DEF Pointer, TypedInv
    <3> QED
      BY <1>1, <2>1, <2>3, <3>2, <3>3 DEF Known, Read, Fits
  <2> QED
    BY <2>2, <2>3
<1>2. ASSUME NEW b \in Basic
      PROVE  b.type \in Type /\ b.val \in ValuesOf(b.type)
  <2>1. ASSUME NEW t \in Primitive, b = Operand(t, Zero(t))
        PROVE  b.type \in Type /\ b.val \in ValuesOf(b.type)
    BY <2>1, ClassAssumption DEF Operand, ValuesOf, Type
  <2>2. ASSUME NEW c \in Classes, b = Operand(c, Plain(c))
        PROVE  b.type \in Type /\ b.val \in ValuesOf(b.type)
    BY <2>2 DEF Operand, ValuesOf, Type, CanCoerce
  <2>3. ASSUME NEW d \in Named, Known(d), b = Operand(d.type, Read(d))
        PROVE  b.type \in Type /\ b.val \in ValuesOf(b.type)
    BY <1>1, <2>3 DEF Operand
  <2> QED
    BY <2>1, <2>2, <2>3 DEF Basic
<1>3. CASE o \in Basic
  BY <1>2, <1>3
<1>4. CASE o \notin Basic
  <2>1. PICK a \in Accesses({"field", "function"}) :
          mem[a.cell] # Unset /\ o = Operand(a.decl.type, mem[a.cell])
    BY <1>4 DEF Operands
  <2>2. \A b \in Objects : b.type \in Classes /\ b.val \in ValuesOf(b.type)
    BY <1>2 DEF Objects
  <2>3. /\ a.cell \in Cells /\ a.decl.type = a.cell.type
        /\ a.cell.k \in {"field", "function"}
    BY <2>2, AccessFinds
  <2>4. a.cell.type \in Type /\ ~a.cell.ref /\ Fits(a.cell, mem[a.cell])
    BY <2>3, CellsAreDeclarations DEF TypedInv
  <2> QED
    BY <2>1, <2>3, <2>4 DEF Operand, Fits
<1> QED
  BY <1>3, <1>4

(* Whatever is assigned to, or passed by reference, is a cell of its type  *)
(* ...                                                                     *)
LEMMA WholeAreTyped ==
  ASSUME TypedInv, NEW p \in Whole
  PROVE  /\ p.cell \in Cells /\ ~p.cell.ref
         /\ p.cell.type = p.type /\ p.type \in Type
         /\ p.how # "character"
<1>1. ASSUME NEW d \in Named, ~d.ref,
             p = Place(d.type, d, IF d.k = "element" THEN "element" ELSE "name")
      PROVE  p.cell \in Cells /\ ~p.cell.ref /\ p.cell.type = p.type
  BY <1>1 DEF Named, Place
<1>2. ASSUME NEW d \in Named, d.ref, mem[d].go = "*any", p = Place(d.type, Referred(d), "name")
      PROVE  p.cell \in Cells /\ ~p.cell.ref /\ p.cell.type = p.type
  <2>1. Fits(d, mem[d]) /\ mem[d] # Unset
    BY <1>2 DEF Named, TypedInv, Unset, Plain
  <2>2. PICK c \in Cells : mem[d] = Pointer(c) /\ ~c.ref /\ c.type = d.type
    BY <1>2, <2>1 DEF Fits
  <2> QED
    BY <1>2, <2>2 DEF Place, Referred, Pointer
<1>3. ASSUME NEW a \in Accesses({"field"}), p = Place(a.decl.type, a.cell, "name")
      PROVE  p.cell \in Cells /\ ~p.cell.ref /\ p.cell.type = p.type
  <2>1. \A b \in Objects : b.type \in Classes /\ b.val \in ValuesOf(b.type)
    BY OperandsAreTyped DEF Objects, Operands
  <2>2. a.cell \in Cells /\ a.decl.type = a.cell.type /\ a.cell.k \in {"field"}
    BY <2>1, AccessFinds
  <2>3. ~a.cell.ref
    BY <2>2, CellsAreDeclarations DEF TypedInv
  <2> QED
    BY <1>3, <2>2, <2>3 DEF Place
<1>4. p.cell \in Cells /\ ~p.cell.ref /\ p.cell.type = p.type
  BY <1>1, <1>2, <1>3 DEF Whole
<1>5. p.how # "character"
  BY DEF Whole, Place
<1> QED
  BY <1>4, <1>5, CellsAreDeclarations DEF TypedInv

(* ... or a character of a string that is there.                           *)
LEMMA CharactersAreTyped ==
  ASSUME TypedInv, NEW p \in Characters
  PROVE  /\ p.how = "character" /\ p.type = "Character"
         /\ p.cell \in Cells /\ ~p.cell.ref /\ p.cell.type = "String"
         /\ mem[p.cell] = Plain("string")
<1>1. PICK q \in Whole : /\ q.type = "String" /\ mem[q.cell] # Unset
                         /\ p = Place("Character", q.cell, "character")
  BY DEF Characters
<1>2. q.cell \in Cells /\ ~q.cell.ref /\ q.cell.type = "String"
  BY <1>1, WholeAreTyped
<1>3. ValuesOf("String") = {Plain("string")}
  BY ClassAssumption DEF ValuesOf, Zero, GoType, Primitive
<1>4. mem[q.cell] = Plain("string")
  BY <1>1, <1>2, <1>3 DEF TypedInv, Fits
<1> QED
  BY <1>1, <1>2, <1>4 DEF Place

-----------------------------------------------------------------------------
(* An instruction that takes what it finds, and that leaves what fits.     *)
LEMMA PutFits ==
  ASSUME TypedInv, NEW cell \in Cells, NEW ok, NEW val, Put(cell, ok, val),
         ok, Fits(cell, val)
  PROVE  TypedInv'
<1>1. /\ members' = members /\ tables' = tables /\ fault' = fault
      /\ mem' = [mem EXCEPT ![cell] = val]
  BY DEF Put
<1>2. Cells' = Cells /\ DispatchesToNearest' = DispatchesToNearest
  BY <1>1, ProgramStays
<1>3. mem' = [d \in Cells |-> mem'[d]]
  BY <1>1 DEF TypedInv
<1>4. ASSUME NEW d \in Cells
      PROVE  Fits(d, mem'[d])
  BY <1>1 DEF TypedInv
<1>5. \A d \in Cells' : Fits(d, mem[d])'
  BY <1>2, <1>4 DEF Fits
<1> QED
  BY <1>1, <1>2, <1>3, <1>5 DEF TypedInv, NoAssertionFails

(* An instruction that takes what it finds, and leaves nothing.            *)
LEMMA TakeKeeps ==
  ASSUME TypedInv, NEW ok, Take(ok), ok
  PROVE  TypedInv'
<1>1. /\ members' = members /\ tables' = tables /\ mem' = mem /\ fault' = ""
  BY DEF Take
<1>2. Cells' = Cells /\ DispatchesToNearest' = DispatchesToNearest
  BY <1>1, ProgramStays
<1> QED
  BY <1>1, <1>2 DEF TypedInv, Fits, NoAssertionFails

(* What a binary instruction takes: its type's values, after the casts.    *)
LEMMA OperandTaken ==
  ASSUME NEW type \in Type \ Classes, NEW o, o.type \in Type, o.val \in ValuesOf(o.type),
         CanCoerce(type, o.type)
  PROVE  Casts(type, o) /\ Takes(type, Cast(type, o))
<1>1. Casts(type, o) /\ Cast(type, o) = Zero(type)
  BY CastFits DEF ValuesOf
<1> QED
  BY <1>1 DEF Takes, Zero, Plain, GoType

(* The argument of a call fits the parameter of the module that runs, if   *)
(* the declaration that the call was compiled for agrees with it.          *)
LEMMA PassFits ==
  ASSUME Lax = {}, TypedInv, NEW param, NEW cell \in Cells,
         param.type = cell.type, param.ref = cell.ref, Pass(param, cell)
  PROVE  TypedInv'
<1>1. cell.type \in Type /\ cell.ref \in BOOLEAN
  BY CellsAreDeclarations DEF TypedInv
<1>2. CASE ~param.ref
  <2>1. PICK o \in Operands : /\ CanCoerce(param.type, o.type)
                              /\ Put(cell, Casts(param.type, o), Cast(param.type, o))
    BY <1>2 DEF Pass
  <2>2. Casts(param.type, o) /\ Cast(param.type, o) \in ValuesOf(param.type)
    BY <1>1, <2>1, OperandsAreTyped, CastFits
  <2>3. Fits(cell, Cast(param.type, o))
    BY <1>2, <2>2 DEF Fits
  <2> QED
    BY <2>1, <2>2, <2>3, PutFits
<1>3. CASE param.ref
  <2>1. PICK p \in Places : MayRefer(param, p) /\ Put(cell, TRUE, Pointer(p.cell))
    BY <1>3 DEF Pass
  <2>2. param.type = p.type /\ p \in Whole
    BY <2>1, CharactersAreTyped DEF MayRefer, Places
  <2>3. Fits(cell, Pointer(p.cell))
    BY <1>3, <2>2, WholeAreTyped DEF Fits
  <2> QED
    BY <2>1, <2>3, PutFits
<1> QED
  BY <1>2, <1>3

-----------------------------------------------------------------------------
(* At the start, places hold nothing, or the zero value of their type; a   *)
(* constant holds one of its type.                                         *)
LEMMA TypedInit ==
  ASSUME Lax = {}, Init
  PROVE  TypedInv
<1>1. PICK value \in [Constants -> UNION {ConstantValues(d.type) : d \in Constants}] :
        /\ \A d \in Constants : value[d] \in ConstantValues(d.type)
        /\ mem = [d \in Cells |-> IF d \in Constants THEN value[d] ELSE InitialValue(d)]
  BY DEF Init
<1>2. members \in Programs /\ fault = "" /\ DispatchesToNearest
  BY TablesDispatch DEF Init, Compiled
<1>3. ASSUME NEW d \in Cells
      PROVE  Fits(d, mem[d])
  <2>1. d.type \in Type /\ (d.ref => d.k \in {"param", "module"}) /\ d.ref \in BOOLEAN
    BY <1>2, CellsAreDeclarations
  <2>2. CASE d \in Constants
    <3>1. ~d.ref /\ mem[d] \in ConstantValues(d.type)
      BY <1>1, <2>1, <2>2 DEF Constants
    <3>2. PICK t \in Primitive :
            /\ CanCoerce(d.type, t)
            /\ d.type # "Real" => Exact(d.type, t, "constant")
            /\ mem[d] = Zero(IF d.type = "Real" THEN "Real" ELSE t)
      BY <3>1 DEF ConstantValues
    <3>3. d.type \notin Classes
      BY <3>2, CoerceToClass, ClassAssumption
    <3>4. d.type # "Real" => d.type = t
      BY <3>2, <3>3 DEF Exact, Promotes, IsSubclass
    <3> QED
      BY <3>1, <3>2, <3>3, <3>4 DEF Fits, ValuesOf
  <2>3. CASE d \notin Constants
    BY <1>1, <2>1, <2>3 DEF InitialValue, Fits, ValuesOf
  <2> QED
    BY <2>2, <2>3
<1> QED
  BY <1>1, <1>2, <1>3 DEF TypedInv, NoAssertionFails

(* Every statement that the type checker accepts, and that relies on no    *)
(* conversion that is not compiled, keeps the invariant.                   *)
LEMMA TypedStep ==
  ASSUME Lax = {}, TypedInv, [Next]_vars
  PROVE  TypedInv'
<1>1. CASE Assign
  <2>1. PICK p \in Whole, o \in Operands :
          CanCoerce(p.type, o.type) /\ Put(p.cell, Casts(p.type, o), Cast(p.type, o))
    BY <1>1 DEF Assign
  <2>2. Casts(p.type, o) /\ Cast(p.type, o) \in ValuesOf(p.type)
    BY <2>1, WholeAreTyped, OperandsAreTyped, CastFits
  <2> QED
    BY <2>1, <2>2, WholeAreTyped, PutFits DEF Fits
<1>2. CASE Input \/ ReadRecord
  <2>1. PICK p \in Whole : p.type \in Primitive /\ Put(p.cell, TRUE, Zero(p.type))
    <3>1. CASE Input
      BY <3>1 DEF Input
    <3>2. CASE ReadRecord
      <4>1. PICK p \in Places : /\ p.type \in Primitive /\ p.how # "character"
                                /\ Put(p.cell, p.how # "character", Zero(p.type))
        BY <3>2 DEF ReadRecord
      <4>2. p \in Whole
        BY <4>1, CharactersAreTyped DEF Places
      <4> QED
        BY <4>1, <4>2 DEF Put
    <3> QED
      BY <1>2, <3>1, <3>2
  <2>2. Fits(p.cell, Zero(p.type))
    BY <2>1, WholeAreTyped, ClassAssumption DEF Fits, ValuesOf
  <2> QED
    BY <2>1, <2>2, WholeAreTyped, PutFits
<1>3. CASE UpdateCharacter
  <2>1. PICK p \in Characters, o \in Operands :
          /\ CanCoerce(p.type, o.type)
          /\ Put(p.cell, mem[p.cell].go = "string" /\ o.val.go = "byte", Plain("string"))
    BY <1>3 DEF UpdateCharacter
  <2>2. "String" \notin Classes /\ "Character" \notin Classes
    BY ClassAssumption DEF Primitive
  <2>3. ValuesOf("String") = {Plain("string")} /\ ValuesOf("Character") = {Plain("byte")}
    BY <2>2 DEF ValuesOf, Zero, GoType
  <2>4. o.type = "Character"
    BY <2>1, <2>2, CharactersAreTyped DEF CanCoerce, IsSubclass
  <2>5. mem[p.cell].go = "string" /\ o.val.go = "byte"
    BY <2>3, <2>4, CharactersAreTyped, OperandsAreTyped DEF Plain
  <2>6. Fits(p.cell, Plain("string"))
    BY <2>3, CharactersAreTyped DEF Fits
  <2> QED
    BY <2>1, <2>5, <2>6, CharactersAreTyped, PutFits
<1>4. CASE ForNext
  <2>1. PICK p \in Whole, o \in Operands :
          /\ p.type \in Numeric /\ CanCoerce(p.type, o.type)
          /\ mem[p.cell] # Unset
          /\ Take(/\ mem[p.cell].go = GoType(p.type)
                  /\ Casts(p.type, o)
                  /\ Cast(p.type, o).go \in IF p.type = "Real" THEN {"int64", "float64"}
                                                               ELSE {"int64"})
    BY <1>4 DEF ForNext
  <2>2. p.type \in Type \ Classes
    BY <2>1, ClassAssumption DEF Numeric, Primitive, Type
  <2>3. mem[p.cell] = Zero(p.type)
    BY <2>1, <2>2, WholeAreTyped DEF TypedInv, Fits, ValuesOf
  <2>4. Casts(p.type, o) /\ Takes(p.type, Cast(p.type, o))
    BY <2>1, <2>2, OperandsAreTyped, OperandTaken
  <2> QED
    <3>1. /\ mem[p.cell].go = GoType(p.type)
          /\ Cast(p.type, o).go \in IF p.type = "Real" THEN {"int64", "float64"} ELSE {"int64"}
      BY <2>1, <2>3, <2>4 DEF Takes, Zero, Plain, GoType, Numeric
    <3> QED
      BY <2>1, <2>4, <3>1, TakeKeeps
<1>5. CASE ForEach
  <2>1. PICK p \in Places, d \in Named :
          /\ d.k = "element" /\ CanCoerce(p.type, d.type) /\ Exact(p.type, d.type, "foreach")
          /\ p.how = "name" /\ Put(p.cell, p.how = "name", mem[d])
    BY <1>5 DEF ForEach
  <2>0. p \in Whole
    BY <2>1, CharactersAreTyped DEF Places
  <2>2. d \in Cells /\ d.type \in Type /\ ~d.ref
    BY <2>1, CellsAreDeclarations DEF Named, TypedInv
  <2>3. ValuesOf(d.type) \subseteq ValuesOf(p.type)
    BY <2>0, <2>1, <2>2, WholeAreTyped, ValuesAreInherited DEF Exact
  <2>4. Fits(p.cell, mem[d])
    BY <2>0, <2>2, <2>3, WholeAreTyped DEF TypedInv, Fits
  <2> QED
    BY <2>0, <2>1, <2>4, WholeAreTyped, PutFits
<1>6. CASE Return
  <2>1. PICK d \in Cells, o \in Operands :
          /\ d.k \in {"result", "function"}
          /\ CanCoerce(d.type, o.type) /\ Exact(d.type, o.type, "return")
          /\ Put(d, TRUE, o.val)
    BY <1>6 DEF Return
  <2>2. d.type \in Type /\ ~d.ref
    BY <2>1, CellsAreDeclarations DEF TypedInv
  <2>3. Fits(d, o.val)
    BY <2>1, <2>2, OperandsAreTyped, ValuesAreInherited DEF Exact, Fits
  <2> QED
    BY <2>1, <2>3, PutFits
<1>7. CASE Call
  BY <1>7, PassFits DEF Call, Cells
<1>8. CASE VirtualCall
  <2>1. PICK a \in Accesses({"module"}) : Pass(a.decl, a.cell)
    BY <1>8 DEF VirtualCall
  <2>2. \A b \in Objects : b.type \in Classes /\ b.val \in ValuesOf(b.type)
    BY OperandsAreTyped DEF Objects, Operands
  <2> QED
    BY <2>1, <2>2, AccessFinds, PassFits
<1>9. CASE FollowReference
  <2>1. PICK d \in Named : d.ref /\ mem[d] # Unset /\ Take(mem[d].go = "*any")
    BY <1>9 DEF FollowReference
  <2>2. mem[d].go = "*any"
    BY <2>1 DEF Named, TypedInv, Fits, Pointer
  <2> QED
    BY <2>1, <2>2, TakeKeeps
<1>10. CASE Operate
  <2>1. PICK op \in {"arithmetic", "equality", "order", "logic"}, a \in Operands, b \in Operands :
          LET type == ArgType(op, a.type, b.type) IN
          /\ Accepts(op, a.type, b.type)
          /\ type \in Classes => "objects" \in Lax
          /\ Take(/\ Defined(op, type)
                  /\ Casts(type, a) /\ Casts(type, b)
                  /\ Takes(type, Cast(type, a)) /\ Takes(type, Cast(type, b)))
    BY <1>10 DEF Operate
  <2> DEFINE type == ArgType(op, a.type, b.type)
  <2>2. /\ a.type \in Type /\ a.val \in ValuesOf(a.type)
        /\ b.type \in Type /\ b.val \in ValuesOf(b.type)
    BY OperandsAreTyped
  <2>3. type \notin Classes
    BY <2>1
  <2>4. /\ type \in Type /\ CanCoerce(type, a.type) /\ CanCoerce(type, b.type)
        /\ Defined(op, type)
    <3>1. CASE op = "logic"
      BY <2>1, <2>2, <3>1 DEF ArgType, Accepts, Defined, CanCoerce
    <3>2. CASE op = "arithmetic"
      <4>1. {a.type, b.type} \subseteq Numeric /\ type = AreComparableTypes(a.type, b.type)
        BY <2>1, <3>2 DEF Accepts, ArgType
      <4>2. type \in Numeric
        <5>1. ~({a.type, b.type} \subseteq Stringlike) /\ a.type \notin Classes
          BY <4>1, ClassAssumption DEF Numeric, Stringlike, Primitive
        <5> QED
          BY <4>1, <5>1 DEF AreComparableTypes, Numeric, IsSubclass
      <4> QED
        BY <2>2, <3>2, <4>1, <4>2, CommonType DEF Defined, Numeric, Unresolved
    <3>3. CASE op \in {"equality", "order"}
      <4>1. type = AreComparableTypes(a.type, b.type) /\ type # Unresolved
        BY <2>1, <3>3 DEF Accepts, ArgType, IsOrderedType, Primitive, Unresolved
      <4>2. type \in Primitive /\ (op = "order" => type # "Boolean")
        BY <2>1, <2>2, <2>3, <3>3, <4>1, CommonType DEF Type, Accepts, IsOrderedType
      <4> QED
        BY <2>2, <3>3, <4>1, <4>2, CommonType DEF Defined
    <3> QED
      BY <3>1, <3>2, <3>3
  <2>5. /\ Casts(type, a) /\ Takes(type, Cast(type, a))
        /\ Casts(type, b) /\ Takes(type, Cast(type, b))
    BY <2>2, <2>3, <2>4, OperandTaken
  <2> QED
    BY <2>1, <2>4, <2>5, TakeKeeps
<1>11. CASE Select
  <2>1. PICK o \in Operands, c \in Operands, d \in Operands :
          LET first == AreComparableTypes(o.type, c.type)
              type  == AreComparableTypes(first, d.type)
              all   == {o, c, d}
          IN /\ first # Unresolved /\ type # Unresolved
             /\ type \in Classes => "objects" \in Lax
             /\ Take(/\ Defined("equality", type)
                     /\ \A x \in all : Casts(type, x) /\ Takes(type, Cast(type, x)))
    BY <1>11 DEF Select
  <2> DEFINE first == AreComparableTypes(o.type, c.type)
             type  == AreComparableTypes(first, d.type)
  <2>2. \A x \in {o, c, d} : x.type \in Type /\ x.val \in ValuesOf(x.type)
    BY OperandsAreTyped
  <2>3. first # Unresolved /\ type # Unresolved /\ type \notin Classes
    BY <2>1
  <2>4. first \in Type /\ CanCoerce(first, o.type) /\ CanCoerce(first, c.type)
    BY <2>2, <2>3, CommonType
  <2>5. type \in Type /\ CanCoerce(type, first) /\ CanCoerce(type, d.type)
    BY <2>2, <2>3, <2>4, CommonType
  <2>6. \A x \in {o, c, d} : CanCoerce(type, x.type)
    BY <2>2, <2>4, <2>5, CoerceTransitive
  <2>7. \A x \in {o, c, d} : Casts(type, x) /\ Takes(type, Cast(type, x))
    BY <2>2, <2>3, <2>5, <2>6, OperandTaken
  <2>8. Defined("equality", type)
    BY <2>3, <2>5 DEF Defined, Type
  <2> QED
    BY <2>1, <2>7, <2>8, TakeKeeps
<1>12. CASE TakeOne
  <2>1. PICK o \in Operands :
          o.type \in Numeric \cup {"Boolean", "String"} /\ Take(Takes(o.type, o.val))
    BY <1>12 DEF TakeOne
  <2>2. o.type \notin Classes
    BY <2>1, ClassAssumption DEF Numeric, Primitive
  <2>3. o.val = Zero(o.type)
    BY <2>2, OperandsAreTyped DEF ValuesOf
  <2> QED
    <3>1. Takes(o.type, o.val)
      BY <2>1, <2>3 DEF Takes, Zero, Plain, GoType
    <3> QED
      BY <2>1, <3>1, TakeKeeps
<1>13. CASE LibCall
  <2>1. PICK t \in Primitive, o \in Operands :
          CanCoerce(t, o.type) /\ Take(Casts(t, o) /\ Cast(t, o) = Zero(t))
    BY <1>13 DEF LibCall
  <2>2. Casts(t, o) /\ Cast(t, o) \in ValuesOf(t)
    BY <2>1, OperandsAreTyped, CastFits DEF Type
  <2>3. ValuesOf(t) = {Zero(t)}
    BY ClassAssumption DEF ValuesOf
  <2> QED
    <3>1. Casts(t, o) /\ Cast(t, o) = Zero(t)
      BY <2>2, <2>3
    <3> QED
      BY <2>1, <3>1, TakeKeeps
<1>14. CASE EditString
  <2>1. PICK p \in Places, t \in {"Integer", "String"}, o \in Operands :
          /\ MayRefer([type |-> "String"], p) /\ mem[p.cell] # Unset
          /\ CanCoerce(t, o.type)
          /\ Put(p.cell, mem[p.cell].go = "string" /\ Casts(t, o) /\ Cast(t, o) = Zero(t),
                 Plain("string"))
    BY <1>14 DEF EditString
  <2>2. t \in Primitive /\ "String" \in Primitive
    BY DEF Primitive
  <2>3. p \in Whole /\ p.type = "String"
    BY <2>1, CharactersAreTyped DEF MayRefer, Places
  <2>4. ValuesOf("String") = {Plain("string")} /\ ValuesOf(t) = {Zero(t)}
    BY <2>2, ClassAssumption DEF ValuesOf, Zero, GoType
  <2>5. mem[p.cell].go = "string"
    BY <2>1, <2>3, <2>4, WholeAreTyped DEF TypedInv, Fits, Plain
  <2>6. Casts(t, o) /\ Cast(t, o) = Zero(t)
    BY <2>1, <2>2, <2>4, OperandsAreTyped, CastFits DEF Type
  <2>7. Fits(p.cell, Plain("string"))
    BY <2>3, <2>4, WholeAreTyped DEF Fits
  <2> QED
    BY <2>1, <2>3, <2>5, <2>6, <2>7, WholeAreTyped, PutFits
<1>15. CASE UNCHANGED vars
  <2>1. Cells' = Cells /\ DispatchesToNearest' = DispatchesToNearest
    BY <1>15, ProgramStays DEF vars
  <2> QED
    BY <1>15, <2>1 DEF vars, TypedInv, Fits, NoAssertionFails
<1> QED
  BY <1>1, <1>2, <1>3, <1>4, <1>5, <1>6, <1>7, <1>8, <1>9, <1>10, <1>11, <1>12, <1>13, <1>14,
     <1>15
  DEF Next

(* Lax = {}: the program has no Return, For Each, constant or argument by  *)
(* reference that would need a conversion, compares no objects, has no For *)
(* Each into an index expression and no Read into a character of a string, *)
(* and its overrides take arguments as the overridden do.  All of these    *)
(* are accepted, and are not compiled or fail.  In any other program the   *)
(* invariant holds always ...                                              *)
THEOREM TypedInvariance ==
  ASSUME Lax = {}
  PROVE  Spec => []TypedInv
<1>1. Init => TypedInv
  BY TypedInit
<1>2. TypedInv /\ [Next]_vars => TypedInv'
  BY TypedStep
<1> QED
  BY <1>1, <1>2, PTL DEF Spec

(* ... so every place holds a value of its type, or none yet (CanCoerce,   *)
(* maybeCast, SuperCheck) ...                                              *)
THEOREM PlacesKeepTypes ==
  ASSUME Lax = {}
  PROVE  Spec => []WellTyped
<1>1. TypedInv => WellTyped
  BY DEF TypedInv, Fits, WellTyped
<1> QED
  BY <1>1, TypedInvariance, PTL

(* ... and no instruction is given what it does not take: neither a value  *)
(* of another Go type, nor a string to make a reference into.              *)
THEOREM TypesAreSound ==
  ASSUME Lax = {}
  PROVE  Spec => []NoAssertionFails
<1>1. TypedInv => NoAssertionFails
  BY DEF TypedInv
<1> QED
  BY <1>1, TypedInvariance, PTL
=============================================================================
