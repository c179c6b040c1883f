---------------------------- MODULE FileIoProofs -----------------------------
(***************************************************************************)
(* For every program, and any number of files, variables and records: what *)
(* is written to a file is read back, record by record.                    *)
(*                                                                         *)
(* The first half is about sequences: what FlattenSeq() and SubSeq() make  *)
(* of the lines of records, and what a Read statement, which takes a field *)
(* at a time, does to them.  The second half is the invariant, FileInv:    *)
(* what each change of the disk, of a handle or of the variables leaves of *)
(* it, and from these each statement.                                      *)
(***************************************************************************)
EXTENDS FileIo, Loops, SequenceTheorems

(* What is behind a place in a sequence.                                   *)
LEMMA BehindIs ==
  ASSUME NEW S, NEW s \in Seq(S), NEW n \in 0..Len(s)
  PROVE  /\ Behind(s, n) \in Seq(S)
         /\ Len(Behind(s, n)) = Len(s) - n
         /\ \A i \in 1..(Len(s) - n) : Behind(s, n)[i] = s[n + i]
<1>1. Len(s) \in Nat /\ n + 1 \in Int /\ \A i \in (n + 1)..Len(s) : s[i] \in S
  BY LenProperties, ElementOfSeq
<1> QED BY <1>1, SubSeqProperties DEF Behind

(* Behind nothing is all, behind all nothing.                              *)
LEMMA BehindNone ==
  ASSUME NEW S, NEW s \in Seq(S)
  PROVE  Behind(s, 0) = s /\ Behind(s, Len(s)) = <<>>
<1>1. Len(s) \in Nat
  BY LenProperties
<1>2. Behind(s, 0) = s
  BY <1>1, SubSeqFull DEF Behind
<1>3. Behind(s, Len(s)) = <<>>
  BY <1>1, SubSeqEmpty DEF Behind
<1> QED BY <1>2, <1>3

(* What is put at the end is behind the same place.                        *)
LEMMA BehindOver ==
  ASSUME NEW S, NEW s \in Seq(S), NEW t \in Seq(S), NEW n \in 0..Len(s)
  PROVE  Behind(s \o t, n) = Behind(s, n) \o t
<1>1. /\ s \o t \in Seq(S) /\ Len(s \o t) = Len(s) + Len(t)
      /\ \A i \in 1..(Len(s) + Len(t)) : (s \o t)[i] = IF i <= Len(s) THEN s[i] ELSE t[i - Len(s)]
      /\ Len(s) \in Nat /\ Len(t) \in Nat
  BY ConcatProperties, LenProperties
<1> DEFINE u == s \o t
           a == Behind(u, n)
           b == Behind(s, n)
           c == b \o t
<1>2. /\ a \in Seq(S) /\ Len(a) = Len(s) + Len(t) - n
      /\ \A i \in 1..(Len(s) + Len(t) - n) : a[i] = u[n + i]
  <2>1. u \in Seq(S) /\ Len(u) = Len(s) + Len(t) /\ n \in 0..Len(u)
    BY <1>1
  <2> HIDE DEF u
  <2>2. a \in Seq(S) /\ Len(a) = Len(u) - n /\ \A i \in 1..(Len(u) - n) : a[i] = u[n + i]
    BY <2>1, BehindIs
  <2> QED BY <2>1, <2>2
<1>3. b \in Seq(S) /\ Len(b) = Len(s) - n /\ \A i \in 1..(Len(s) - n) : b[i] = s[n + i]
  BY BehindIs
<1>4. /\ c \in Seq(S) /\ Len(c) = Len(s) - n + Len(t)
      /\ \A i \in 1..(Len(s) - n + Len(t)) :
           c[i] = IF i <= Len(s) - n THEN b[i] ELSE t[i - (Len(s) - n)]
  <2> HIDE DEF b
  <2>1. /\ c \in Seq(S) /\ Len(c) = Len(b) + Len(t)
        /\ \A i \in 1..(Len(b) + Len(t)) : c[i] = IF i <= Len(b) THEN b[i] ELSE t[i - Len(b)]
    BY <1>3, ConcatProperties
  <2> QED BY <1>3, <2>1
<1>5. ASSUME NEW i \in 1..(Len(s) + Len(t) - n) PROVE a[i] = c[i]
  <2>1. a[i] = u[n + i] /\ n + i \in 1..(Len(s) + Len(t))
    BY <1>1, <1>2
  <2>2. u[n + i] = IF n + i <= Len(s) THEN s[n + i] ELSE t[n + i - Len(s)]
    BY <1>1, <2>1
  <2>3. CASE i <= Len(s) - n
    BY <1>1, <1>3, <1>4, <2>1, <2>2, <2>3
  <2>4. CASE ~(i <= Len(s) - n)
    <3>1. n + i - Len(s) = i - (Len(s) - n)
      BY <1>1
    <3>2. c[i] = t[i - (Len(s) - n)] /\ a[i] = t[n + i - Len(s)]
      <4> HIDE DEF a, b, c, u
      <4> QED BY <1>1, <1>4, <2>1, <2>2, <2>4
    <3> QED BY <3>1, <3>2
  <2> QED BY <2>3, <2>4
<1> HIDE DEF a, c
<1>6. Len(a) = Len(c) /\ \A i \in 1..Len(a) : a[i] = c[i]
  BY <1>1, <1>2, <1>4, <1>5
<1>7. a = c
  BY <1>2, <1>4, <1>6, SeqEqual
<1> QED BY <1>7 DEF a, b, c, u

(* Behind one is the tail.                                                 *)
LEMMA BehindOne ==
  ASSUME NEW S, NEW s \in Seq(S), NEW n \in 0..Len(s), n < Len(s)
  PROVE  /\ Behind(s, n) # <<>>
         /\ Head(Behind(s, n)) = s[n + 1]
         /\ Tail(Behind(s, n)) = Behind(s, n + 1)
<1>1. Len(s) \in Nat /\ n + 1 \in 1..Len(s) /\ Len(s) \in (n + 1)..Len(s)
  BY LenProperties
<1>2. Head(Behind(s, n)) = s[n + 1] /\ Tail(Behind(s, n)) = Behind(s, n + 1)
  BY <1>1, HeadTailOfSubSeq DEF Behind
<1>3. Len(Behind(s, n)) # 0
  BY <1>1, BehindIs
<1> QED BY <1>2, <1>3, EmptySeq

(* The sequences of S; a name of their own keeps the provers from looking  *)
(* for sequences of sequences of sequences.                                *)
SeqsOf(S, T) == T = Seq(S)

LEMMA ConcatSeqs ==
  ASSUME NEW S, NEW T, SeqsOf(S, T)
  PROVE  /\ \A a, b \in T : a \o b \in T
         /\ \A a, b, c \in T : (a \o b) \o c = a \o (b \o c)
         /\ <<>> \in T /\ \A a \in T : <<>> \o a = a /\ a \o <<>> = a
<1>1. \A a, b \in Seq(S) : a \o b \in Seq(S)
  BY ConcatProperties
<1>2. \A a, b, c \in Seq(S) : (a \o b) \o c = a \o (b \o c)
  BY ConcatAssociative
<1>3. <<>> \in Seq(S) /\ \A a \in Seq(S) : <<>> \o a = a /\ a \o <<>> = a
  BY EmptySeq, ConcatEmptySeq
<1> QED BY <1>1, <1>2, <1>3 DEF SeqsOf

(* FlattenSeq() puts the sequences together, one after the other.          *)
LEMMA FlatIs ==
  ASSUME NEW S, NEW T, SeqsOf(S, T), NEW N \in Nat,
         NEW seqs \in [1..(N + 1) -> T], Len(seqs) = N + 1
  PROVE  \E g \in [1..(N + 1) -> T] :
           /\ g[1] = seqs[1]
           /\ \A n \in 2..(N + 1) : g[n] = g[n - 1] \o seqs[n]
           /\ FlattenSeq(seqs) = g[N + 1]
<1> DEFINE F == [n \in 1..N |-> [s \in T |-> s \o seqs[n + 1]]]
           Flat(g) == g = [i \in 1..(N + 1) |-> IF i = 1 THEN seqs[i] ELSE g[i - 1] \o seqs[i]]
<1>1. seqs[1] \in T
  OBVIOUS
<1>2. F \in [1..N -> [T -> T]]
  <2>1. ASSUME NEW n \in 1..N, NEW s \in T PROVE s \o seqs[n + 1] \in T
    BY ConcatSeqs
  <2> QED BY <2>1
<1>3. HasValues(N, T, seqs[1], F)
  <2> HIDE DEF F
  <2> QED BY <1>1, <1>2, LoopHasValues
<1>4. PICK v \in [0..N -> T] : v[0] = seqs[1] /\ \A n \in 1..N : v[n] = F[n][v[n - 1]]
  BY <1>3 DEF HasValues
<1> DEFINE h == [i \in 1..(N + 1) |-> v[i - 1]]
<1>5. h \in [1..(N + 1) -> T]
  BY <1>4
<1>6. ASSUME NEW i \in 1..(N + 1) PROVE h[i] = IF i = 1 THEN seqs[i] ELSE h[i - 1] \o seqs[i]
  <2>1. CASE i = 1
    BY <1>4, <2>1
  <2>2. CASE i # 1
    <3>1. i - 1 \in 1..N /\ i - 1 \in 1..(N + 1) /\ h[i] = v[i - 1] /\ h[i - 1] = v[(i - 1) - 1]
      BY <2>2
    <3>2. (i - 1) + 1 = i /\ (i - 1) - 1 \in 0..N
      BY <3>1
    <3>4. v[i - 1] = F[i - 1][v[(i - 1) - 1]]
      <4> HIDE DEF F, h
      <4> QED BY <1>4, <3>1
    <3>3. F[i - 1][v[(i - 1) - 1]] = v[(i - 1) - 1] \o seqs[i]
      BY <1>4, <3>1, <3>2
    <3> QED BY <2>2, <3>1, <3>3, <3>4
  <2> QED BY <2>1, <2>2
<1>7. Flat(h)
  BY <1>5, <1>6
<1> DEFINE flatten == CHOOSE g : Flat(g)
<1>8. Flat(flatten)
  <2>1. \E g : Flat(g)
    BY <1>7
  <2> HIDE DEF Flat
  <2> QED BY <2>1
<1> HIDE DEF flatten
<1>9. ASSUME NEW i \in 1..(N + 1)
      PROVE  flatten[i] = IF i = 1 THEN seqs[i] ELSE flatten[i - 1] \o seqs[i]
  BY <1>8
<1>10. ASSUME NEW n \in 0..N PROVE flatten[n + 1] \in T
  <2> DEFINE R == {n_1 \in 0..N : flatten[n_1 + 1] \in T}
  <2>1. 0 \in R
    BY <1>1, <1>9
  <2>2. ASSUME NEW k \in 0..(N - 1), k \in R PROVE k + 1 \in R
    <3>1. /\ k + 2 \in 1..(N + 1) /\ k + 2 # 1 /\ k + 1 \in 0..N
          /\ (k + 2) - 1 = k + 1 /\ (k + 1) + 1 = k + 2
      OBVIOUS
    <3>2. flatten[k + 2] = flatten[k + 1] \o seqs[k + 2]
      BY <1>9, <3>1
    <3>3. flatten[k + 1] \o seqs[k + 2] \in T
      BY <2>2, <3>1, ConcatSeqs
    <3> QED BY <3>1, <3>2, <3>3
  <2> HIDE DEF R
  <2>3. \A k \in 0..N : k \in R
    BY <2>1, <2>2, UpFromZero
  <2> QED BY <2>3 DEF R
<1>11. flatten \in [1..(N + 1) -> T]
  <2>1. ASSUME NEW i \in 1..(N + 1) PROVE flatten[i] \in T
    <3>1. i - 1 \in 0..N /\ (i - 1) + 1 = i
      OBVIOUS
    <3> QED BY <1>10, <3>1
  <2>2. flatten = [i \in 1..(N + 1) |-> flatten[i]]
    BY <1>8
  <2> QED BY <2>1, <2>2
<1>12. FlattenSeq(seqs) = flatten[N + 1]
  BY DEF FlattenSeq, flatten
<1>13. flatten[1] = seqs[1] /\ \A n \in 2..(N + 1) : flatten[n] = flatten[n - 1] \o seqs[n]
  <2>1. 1 \in 1..(N + 1) /\ \A n \in 2..(N + 1) : n \in 1..(N + 1) /\ n # 1
    OBVIOUS
  <2> QED BY <1>9, <2>1
<1> QED BY <1>11, <1>12, <1>13

(* A sequence more at the end is at the end of the flat one, too ...       *)
LEMMA FlatAppend ==
  ASSUME NEW S, NEW T, SeqsOf(S, T), NEW seqs \in Seq(T), NEW x \in T
  PROVE  /\ FlattenSeq(seqs) \in T
         /\ FlattenSeq(Append(seqs, x)) = FlattenSeq(seqs) \o x
<1> DEFINE more == Append(seqs, x)
<1>1. /\ more \in Seq(T) /\ Len(more) = Len(seqs) + 1 /\ more[Len(seqs) + 1] = x
      /\ \A i \in 1..Len(seqs) : more[i] = seqs[i]
      /\ Len(seqs) \in Nat /\ more \in [1..(Len(seqs) + 1) -> T]
      /\ seqs \in [1..Len(seqs) -> T]
  <2>1. /\ more \in Seq(T) /\ Len(more) = Len(seqs) + 1 /\ more[Len(seqs) + 1] = x
        /\ \A i \in 1..Len(seqs) : more[i] = seqs[i]
    BY AppendProperties
  <2> HIDE DEF more
  <2>2. Len(seqs) \in Nat /\ seqs \in [1..Len(seqs) -> T] /\ more \in [1..Len(more) -> T]
    BY <2>1, LenProperties
  <2> QED BY <2>1, <2>2
<1>2. PICK h \in [1..(Len(seqs) + 1) -> T] :
        /\ h[1] = more[1]
        /\ \A n \in 2..(Len(seqs) + 1) : h[n] = h[n - 1] \o more[n]
        /\ FlattenSeq(more) = h[Len(seqs) + 1]
  <2> DEFINE K == Len(seqs)
  <2>1. K \in Nat /\ more \in [1..(K + 1) -> T] /\ Len(more) = K + 1
    BY <1>1
  <2> HIDE DEF more, K
  <2>2. \E h \in [1..(K + 1) -> T] :
          /\ h[1] = more[1]
          /\ \A n \in 2..(K + 1) : h[n] = h[n - 1] \o more[n]
          /\ FlattenSeq(more) = h[K + 1]
    BY <2>1, FlatIs
  <2> QED BY <2>2 DEF K
<1>3. CASE seqs = <<>>
  <2>1. Len(seqs) = 0
    BY <1>3, EmptySeq
  <2>2. FlattenSeq(seqs) = <<>>
    BY <1>3, <2>1 DEF FlattenSeq
  <2>3. FlattenSeq(more) = x
    BY <1>1, <1>2, <2>1
  <2>4. <<>> \o x = x /\ <<>> \in T
    BY ConcatSeqs
  <2> QED BY <2>2, <2>3, <2>4
<1>4. CASE seqs # <<>>
  <2>1. PICK N \in Nat : Len(seqs) = N + 1
    <3>1. Len(seqs) # 0
      BY <1>4, EmptySeq
    <3>2. Len(seqs) - 1 \in Nat /\ Len(seqs) = (Len(seqs) - 1) + 1
      BY <1>1, <3>1
    <3> QED BY <3>2
  <2>2. PICK g \in [1..(N + 1) -> T] :
          /\ g[1] = seqs[1]
          /\ \A n \in 2..(N + 1) : g[n] = g[n - 1] \o seqs[n]
          /\ FlattenSeq(seqs) = g[N + 1]
    <3>1. seqs \in [1..(N + 1) -> T]
      BY <1>1, <2>1
    <3> QED BY <2>1, <3>1, FlatIs
  <2> DEFINE R == {n \in 0..N : h[n + 1] = g[n + 1]}
  <2> HIDE DEF more
  <2>3. 0 \in R
    BY <1>1, <1>2, <2>1, <2>2
  <2>4. ASSUME NEW k \in 0..(N - 1), k \in R PROVE k + 1 \in R
    <3>1. /\ k + 2 \in 2..(N + 1) /\ k + 2 \in 1..(N + 1) /\ k + 2 \in 2..(N + 2)
          /\ (k + 2) - 1 = k + 1 /\ (k + 1) + 1 = k + 2 /\ k + 1 \in 0..N /\ (N + 1) + 1 = N + 2
      BY <2>1
    <3>2. g[k + 2] = g[k + 1] \o seqs[k + 2]
      BY <2>2, <3>1
    <3>3. h[k + 2] = h[k + 1] \o more[k + 2]
      BY <1>2, <2>1, <3>1
    <3>4. more[k + 2] = seqs[k + 2]
      BY <1>1, <2>1, <3>1
    <3> QED BY <2>4, <3>1, <3>2, <3>3, <3>4
  <2>5. h[N + 1] = g[N + 1]
    <3> HIDE DEF R
    <3>1. \A k \in 0..N : k \in R
      BY <2>3, <2>4, UpFromZero
    <3>2. N \in R
      BY <3>1
    <3> QED BY <3>2 DEF R
  <2>6. FlattenSeq(more) = h[N + 1] \o x
    <3>1. N + 2 \in 2..(N + 2) /\ (N + 2) - 1 = N + 1 /\ Len(seqs) + 1 = N + 2
      BY <2>1
    <3> QED BY <1>1, <1>2, <3>1
  <2>7. FlattenSeq(seqs) \in T
    BY <2>2, N + 1 \in 1..(N + 1)
  <2> QED BY <2>2, <2>5, <2>6, <2>7 DEF more
<1> QED BY <1>3, <1>4

(* ... whatever the sequences are sequences of.                            *)
LEMMA FlatAppends ==
  ASSUME NEW S, NEW T, SeqsOf(S, T)
  PROVE  \A s \in Seq(T), x \in T :
           FlattenSeq(s) \in T /\ FlattenSeq(Append(s, x)) = FlattenSeq(s) \o x
BY FlatAppend

(* ... and at its beginning.                                               *)
LEMMA FlatFirst ==
  ASSUME NEW S, NEW T, SeqsOf(S, T), NEW seqs \in Seq(T), seqs # <<>>
  PROVE  FlattenSeq(seqs) = Head(seqs) \o FlattenSeq(Tail(seqs))
<1> DEFINE FirstOf(s) == FlattenSeq(s) = Head(s) \o FlattenSeq(Tail(s))
           R == {n \in Nat : \A s \in Seq(T) : Len(s) = n + 1 => FirstOf(s)}
<1>0. /\ \A s \in Seq(T), x \in T : FlattenSeq(s) \in T
      /\ \A s \in Seq(T), x \in T : FlattenSeq(Append(s, x)) = FlattenSeq(s) \o x
      /\ \A a, b, c \in T : (a \o b) \o c = a \o (b \o c)
  <2>1. \A s \in Seq(T), x \in T :
          FlattenSeq(s) \in T /\ FlattenSeq(Append(s, x)) = FlattenSeq(s) \o x
    BY FlatAppends
  <2>2. \A a, b, c \in T : (a \o b) \o c = a \o (b \o c)
    BY ConcatSeqs
  <2>3. \A s \in Seq(T), x \in T : FlattenSeq(s) \in T
    BY <2>1, Zenon
  <2>4. \A s \in Seq(T), x \in T : FlattenSeq(Append(s, x)) = FlattenSeq(s) \o x
    BY <2>1, Zenon
  <2> QED BY <2>2, <2>3, <2>4, Zenon
<1>1. ASSUME NEW t \in Seq(T), NEW x \in T, t # <<>> => FirstOf(t)
      PROVE  FirstOf(Append(t, x))
  <2>1. FlattenSeq(t) \in T /\ FlattenSeq(Append(t, x)) = FlattenSeq(t) \o x
    BY <1>0, Zenon
  <2>2. /\ Head(Append(t, x)) = IF t = <<>> THEN x ELSE Head(t)
        /\ Tail(Append(t, x)) = IF t = <<>> THEN <<>> ELSE Append(Tail(t), x)
    BY HeadTailAppend
  <2>3. CASE t = <<>>
    <3>1. FlattenSeq(<<>>) = <<>>
      BY EmptySeq DEF FlattenSeq
    <3>2. <<>> \o x = x /\ x \o <<>> = x
      BY ConcatSeqs
    <3> QED BY <2>1, <2>2, <2>3, <3>1, <3>2
  <2>4. CASE t # <<>>
    <3>1. Head(t) \in T /\ Tail(t) \in Seq(T)
      BY <2>4, HeadTailProperties
    <3>2. /\ FlattenSeq(Tail(t)) \in T
          /\ FlattenSeq(Append(Tail(t), x)) = FlattenSeq(Tail(t)) \o x
      BY <1>0, <3>1, Zenon
    <3>3. (Head(t) \o FlattenSeq(Tail(t))) \o x = Head(t) \o (FlattenSeq(Tail(t)) \o x)
      BY <1>0, <3>1, <3>2, Zenon
    <3> QED BY <1>1, <2>1, <2>2, <2>4, <3>2, <3>3
  <2> QED BY <2>3, <2>4
<1> HIDE DEF FirstOf
<1>2. \A s \in Seq(T) : s # <<>> => \E t \in Seq(T), x \in T : s = Append(t, x)
  BY SequenceEmptyOrAppend
<1>3. \A t \in Seq(T), x \in T : Len(Append(t, x)) = Len(t) + 1 /\ Len(t) \in Nat
  BY AppendProperties, LenProperties
<1>4. \A t \in Seq(T) : t = <<>> <=> Len(t) = 0
  BY EmptySeq
<1>5. 0 \in R
  <2>1. ASSUME NEW s \in Seq(T), Len(s) = 0 + 1 PROVE FirstOf(s)
    <3>1. PICK t \in Seq(T), x \in T : s = Append(t, x)
      <4>1. s # <<>>
        BY <1>4, <2>1
      <4> QED BY <1>2, <4>1, Zenon
    <3>2. t = <<>>
      BY <1>3, <1>4, <2>1, <3>1
    <3> QED BY <1>1, <3>1, <3>2
  <2> QED BY <2>1
<1>6. ASSUME NEW n \in Nat, n \in R PROVE n + 1 \in R
  <2>1. ASSUME NEW s \in Seq(T), Len(s) = (n + 1) + 1 PROVE FirstOf(s)
    <3>1. PICK t \in Seq(T), x \in T : s = Append(t, x)
      <4>1. s # <<>>
        BY <1>4, <2>1
      <4> QED BY <1>2, <4>1, Zenon
    <3>2. Len(t) = n + 1
      BY <1>3, <2>1, <3>1
    <3> QED BY <1>1, <1>6, <3>1, <3>2
  <2> QED BY <2>1
<1>7. Len(seqs) - 1 \in Nat /\ Len(seqs) = (Len(seqs) - 1) + 1
  BY <1>4, LenProperties
<1>8. Len(seqs) - 1 \in R
  <2> HIDE DEF R
  <2>1. \A n \in 0..(Len(seqs) - 1) : n \in R
    BY <1>5, <1>6, <1>7, UpFromZero
  <2> QED BY <1>7, <2>1
<1>9. FirstOf(seqs)
  BY <1>7, <1>8
<1> QED BY <1>9 DEF FirstOf

(* The line of a record: a field for each value, and the new line behind   *)
(* the last of them.                                                       *)
LEMMA LineIs ==
  ASSUME NEW rec \in Records
  PROVE  /\ rec \in Seq(Values) /\ Len(rec) \in Nat \ {0}
         /\ Line(rec) \in Seq(Fields) /\ Len(Line(rec)) = Len(rec)
         /\ \A i \in 1..Len(rec) :
              Line(rec)[i] = [text |-> Text(rec[i]), sep |-> Separator(i, Len(rec))]
<1>1. rec \in Seq(Values) /\ rec # <<>>
  BY FileAssumption
<1>2. Len(rec) \in Nat \ {0} /\ DOMAIN rec = 1..Len(rec) /\ \A i \in 1..Len(rec) : rec[i] \in Values
  <2> HIDE DEF Values
  <2>1. Len(rec) \in Nat /\ DOMAIN rec = 1..Len(rec) /\ Len(rec) # 0
    BY <1>1, LenProperties, EmptySeq
  <2> QED BY <1>1, <2>1, ElementOfSeq
<1>3. ASSUME NEW i \in 1..Len(rec)
      PROVE  [text |-> Text(rec[i]), sep |-> Separator(i, Len(rec))] \in Fields
  BY <1>2 DEF Fields, Separator
<1>4. Line(rec) = [i \in 1..Len(rec) |-> [text |-> Text(rec[i]), sep |-> Separator(i, Len(rec))]]
  BY <1>2 DEF Line
<1> QED BY <1>1, <1>2, <1>3, <1>4

(* The lines of the records: one is put at their end ...                   *)
LEMMA LinesAppend ==
  ASSUME NEW recs \in Seq(Records), NEW rec \in Records
  PROVE  /\ Lines(recs) \in Seq(Fields)
         /\ Lines(Append(recs, rec)) = Lines(recs) \o Line(rec)
<1> DEFINE LinesOf(s) == [n \in DOMAIN s |-> Line(s[n])]
           T == Seq(Fields)
<1>1. Line(rec) \in T /\ SeqsOf(Fields, T)
  BY LineIs DEF SeqsOf
<1>2. ASSUME NEW s \in Seq(Records)
      PROVE  /\ LinesOf(s) \in Seq(T) /\ Len(LinesOf(s)) = Len(s)
             /\ \A i \in 1..Len(s) : LinesOf(s)[i] = Line(s[i])
  <2>1. Len(s) \in Nat /\ DOMAIN s = 1..Len(s) /\ \A i \in 1..Len(s) : s[i] \in Records
    BY LenProperties, ElementOfSeq
  <2>2. \A i \in 1..Len(s) : Line(s[i]) \in T
    BY <2>1, LineIs
  <2>3. LinesOf(s) = [i \in 1..Len(s) |-> Line(s[i])]
    BY <2>1
  <2> HIDE DEF T
  <2> QED BY <2>1, <2>2, <2>3
<1> DEFINE more == Append(recs, rec)
<1>3. /\ more \in Seq(Records) /\ Len(more) = Len(recs) + 1 /\ more[Len(recs) + 1] = rec
      /\ \A i \in 1..Len(recs) : more[i] = recs[i]
      /\ Len(recs) \in Nat
  BY AppendProperties, LenProperties
<1> HIDE DEF T
<1>4. LinesOf(more) = Append(LinesOf(recs), Line(rec))
  <2> DEFINE a == LinesOf(more)
             b == Append(LinesOf(recs), Line(rec))
             c == LinesOf(recs)
  <2> HIDE DEF more, LinesOf
  <2>1. a \in Seq(T) /\ Len(a) = Len(recs) + 1 /\ \A i \in 1..(Len(recs) + 1) : a[i] = Line(more[i])
    BY <1>2, <1>3
  <2>2. c \in Seq(T) /\ Len(c) = Len(recs) /\ \A i \in 1..Len(recs) : c[i] = Line(recs[i])
    BY <1>2
  <2>3. /\ b \in Seq(T) /\ Len(b) = Len(c) + 1 /\ \A i \in 1..Len(c) : b[i] = c[i]
        /\ b[Len(c) + 1] = Line(rec)
    <3> HIDE DEF c
    <3> QED BY <1>1, <2>2, AppendProperties DEF c
  <2> HIDE DEF a, b, c
  <2>4. Len(a) = Len(b) /\ \A i \in 1..Len(a) : a[i] = b[i]
    BY <1>3, <2>1, <2>2, <2>3
  <2>5. a = b
    BY <2>1, <2>3, <2>4, SeqEqual
  <2> QED BY <2>5 DEF a, b
<1>5. Lines(recs) = FlattenSeq(LinesOf(recs)) /\ Lines(more) = FlattenSeq(LinesOf(more))
  BY DEF Lines
<1> HIDE DEF LinesOf, more
<1>6. /\ FlattenSeq(LinesOf(recs)) \in T
      /\ FlattenSeq(Append(LinesOf(recs), Line(rec))) = FlattenSeq(LinesOf(recs)) \o Line(rec)
  <2>1. LinesOf(recs) \in Seq(T)
    BY <1>2
  <2> QED BY <1>1, <2>1, FlatAppend
<1> QED BY <1>4, <1>5, <1>6 DEF T, more

(* ... and taken from their beginning.                                     *)
LEMMA LinesFirst ==
  ASSUME NEW recs \in Seq(Records)
  PROVE  /\ Lines(<<>>) = <<>>
         /\ recs # <<>> =>
              /\ Head(recs) \in Records /\ Tail(recs) \in Seq(Records)
              /\ Lines(Tail(recs)) \in Seq(Fields)
              /\ Lines(recs) = Line(Head(recs)) \o Lines(Tail(recs))
<1> DEFINE LinesOf(s) == [n \in DOMAIN s |-> Line(s[n])]
           T == Seq(Fields)
<1>1. Lines(<<>>) = <<>>
  <2>1. LinesOf(<<>>) = <<>>
    OBVIOUS
  <2> QED BY <2>1, EmptySeq DEF Lines, FlattenSeq
<1> SUFFICES ASSUME recs # <<>>
             PROVE  /\ Head(recs) \in Records /\ Tail(recs) \in Seq(Records)
                    /\ Lines(Tail(recs)) \in Seq(Fields)
                    /\ Lines(recs) = Line(Head(recs)) \o Lines(Tail(recs))
  BY <1>1
<1>2. /\ Head(recs) \in Records /\ Tail(recs) \in Seq(Records) /\ Len(Tail(recs)) = Len(recs) - 1
      /\ Head(recs) = recs[1] /\ \A i \in 1..Len(Tail(recs)) : Tail(recs)[i] = recs[i + 1]
      /\ Len(recs) \in Nat \ {0} /\ DOMAIN recs = 1..Len(recs)
      /\ \A i \in 1..Len(recs) : recs[i] \in Records
  BY HeadTailProperties, LenProperties, EmptySeq, ElementOfSeq
<1>3. Lines(Tail(recs)) \in Seq(Fields)
  <2>1. \A s \in Seq(Records), r \in Records : Lines(s) \in Seq(Fields)
    BY LinesAppend
  <2> QED BY <1>2, <2>1, Zenon
<1>4. ASSUME NEW s \in Seq(Records)
      PROVE  /\ LinesOf(s) \in Seq(T) /\ Len(LinesOf(s)) = Len(s)
             /\ \A i \in 1..Len(s) : LinesOf(s)[i] = Line(s[i])
  <2>1. Len(s) \in Nat /\ DOMAIN s = 1..Len(s) /\ \A i \in 1..Len(s) : s[i] \in Records
    BY LenProperties, ElementOfSeq
  <2>2. \A i \in 1..Len(s) : Line(s[i]) \in T
    BY <2>1, LineIs
  <2>3. LinesOf(s) = [i \in 1..Len(s) |-> Line(s[i])]
    BY <2>1
  <2> HIDE DEF T
  <2> QED BY <2>1, <2>2, <2>3
<1>5. SeqsOf(Fields, T)
  BY DEF SeqsOf
<1> HIDE DEF T, LinesOf
<1> DEFINE a == LinesOf(recs)
           b == LinesOf(Tail(recs))
<1>6. a \in Seq(T) /\ Len(a) = Len(recs) /\ \A i \in 1..Len(recs) : a[i] = Line(recs[i])
  BY <1>4
<1>7. /\ b \in Seq(T) /\ Len(b) = Len(recs) - 1
      /\ \A i \in 1..(Len(recs) - 1) : b[i] = Line(recs[i + 1])
  <2>1. PICK s \in Seq(Records) : s = Tail(recs)
    BY <1>2
  <2>2. Len(s) = Len(recs) - 1 /\ \A i \in 1..Len(s) : s[i] = recs[i + 1]
    BY <1>2, <2>1, Zenon
  <2>3. b = LinesOf(s)
    BY <2>1, Zenon
  <2>4. /\ LinesOf(s) \in Seq(T) /\ Len(LinesOf(s)) = Len(s)
        /\ \A i \in 1..Len(s) : LinesOf(s)[i] = Line(s[i])
    BY <1>4
  <2> HIDE DEF b
  <2> QED BY <2>2, <2>3, <2>4
<1> HIDE DEF a, b
<1>8. a # <<>> /\ Head(a) = Line(Head(recs)) /\ Tail(a) = b
  <2>1. a # <<>>
    BY <1>2, <1>6, EmptySeq
  <2>2. Head(a) = a[1] /\ Tail(a) \in Seq(T) /\ Len(Tail(a)) = Len(a) - 1
    BY <1>6, <2>1, HeadTailProperties
  <2>3. \A i \in 1..Len(Tail(a)) : Tail(a)[i] = a[i + 1]
    BY <1>6, <2>1, HeadTailProperties
  <2>4. a[1] = Line(recs[1])
    BY <1>2, <1>6
  <2>5. PICK r \in Seq(T) : r = Tail(a)
    BY <2>2
  <2>6. Len(r) = Len(a) - 1 /\ \A i \in 1..Len(r) : r[i] = a[i + 1]
    BY <2>2, <2>3, <2>5, Zenon
  <2>7. Len(r) = Len(b) /\ \A i \in 1..Len(r) : r[i] = b[i]
    BY <1>2, <1>6, <1>7, <2>6
  <2>8. r = b
    BY <1>7, <2>7, SeqEqual
  <2> QED BY <1>2, <2>1, <2>2, <2>4, <2>5, <2>8, Zenon
<1>9. FlattenSeq(a) = Head(a) \o FlattenSeq(Tail(a))
  BY <1>5, <1>6, <1>8, FlatFirst
<1>10. FlattenSeq(a) = Lines(recs) /\ FlattenSeq(b) = Lines(Tail(recs))
  BY DEF a, b, LinesOf, Lines
<1> QED BY <1>2, <1>3, <1>8, <1>9, <1>10, Zenon

(* What is behind the first of two sequences.                              *)
LEMMA BehindFirst ==
  ASSUME NEW S, NEW s \in Seq(S), s # <<>>
  PROVE  /\ Len(s) \in Nat \ {0} /\ s[1] \in S
         /\ Tail(s) = Behind(s, 1) /\ Behind(s, 1) \in Seq(S)
<1>1. Len(s) \in Nat \ {0}
  BY LenProperties, EmptySeq
<1>2. s[1] \in S
  BY <1>1, ElementOfSeq
<1>3. Tail(s) = Behind(s, 1)
  <2>1. Tail(Behind(s, 0)) = Behind(s, 0 + 1)
    BY <1>1, BehindOne
  <2>2. Behind(s, 0) = s
    BY BehindNone
  <2> QED BY <2>1, <2>2
<1>4. Behind(s, 1) \in Seq(S)
  BY <1>1, BehindIs
<1> QED BY <1>1, <1>2, <1>3, <1>4

(* The first behind a place, and what is behind that.                      *)
LEMMA BehindNext ==
  ASSUME NEW S, NEW s \in Seq(S), NEW n \in 0..Len(s), Behind(s, n) # <<>>
  PROVE  /\ n < Len(s) /\ Behind(s, n)[1] = s[n + 1]
         /\ Behind(Behind(s, n), 1) = Behind(s, n + 1)
<1>1. Behind(s, n) \in Seq(S) /\ Len(Behind(s, n)) = Len(s) - n
      /\ \A i \in 1..(Len(s) - n) : Behind(s, n)[i] = s[n + i]
  BY BehindIs
<1>2. n < Len(s)
  <2>1. Len(Behind(s, n)) \in Nat \ {0} /\ Len(s) \in Nat
    BY <1>1, BehindFirst, LenProperties
  <2> QED BY <1>1, <2>1
<1>3. Tail(Behind(s, n)) = Behind(s, n + 1)
  BY <1>2, BehindOne
<1>4. Tail(Behind(s, n)) = Behind(Behind(s, n), 1)
  <2> DEFINE b == Behind(s, n)
  <2>1. b \in Seq(S) /\ b # <<>>
    BY <1>1
  <2> HIDE DEF b
  <2>2. Tail(b) = Behind(b, 1)
    BY <2>1, BehindFirst
  <2> QED BY <2>2 DEF b
<1>5. Behind(s, n)[1] = s[n + 1]
  BY <1>1, <1>2, LenProperties
<1> QED BY <1>2, <1>3, <1>4, <1>5, Zenon

(* What an open handle has before it.                                      *)
Ahead(h) == h.buf \o Behind(files[h.file].text, h.pos)

(* What a Read statement can have made of a handle.                        *)
Readings(h) ==
  {r \in [h : HandleType, vals : Seq(Values), ok : BOOLEAN] :
     /\ r.h.file = h.file /\ r.h.open = h.open /\ r.h.got = h.got
     /\ h.open => r.h.pos <= Len(files[h.file].text)}

(* Reading ahead changes nothing of it.                                    *)
LEMMA FillIs ==
  ASSUME NEW h \in HandleType, h.open => files[h.file].text \in Seq(Fields),
         h.open => h.pos <= Len(files[h.file].text)
  PROVE  /\ Fill(h) \in HandleType
         /\ Fill(h).file = h.file /\ Fill(h).open = h.open /\ Fill(h).got = h.got
         /\ ~h.open => Fill(h) = h
         /\ h.open => /\ Fill(h).pos <= Len(files[h.file].text)
                      /\ Fill(h).buf = Ahead(h) /\ Ahead(Fill(h)) = Ahead(h)
                      /\ Ahead(h) \in Seq(Fields)
<1>1. CASE ~h.open
  BY <1>1 DEF Fill
<1>2. CASE h.open
  <2> DEFINE text == files[h.file].text
  <2>1. /\ text \in Seq(Fields) /\ Len(text) \in Nat /\ h.pos \in 0..Len(text)
        /\ h.buf \in Seq(Fields)
    BY <1>2, LenProperties DEF HandleType
  <2>2. Behind(text, h.pos) \in Seq(Fields) /\ Behind(text, Len(text)) = <<>>
    BY <2>1, BehindIs, BehindNone
  <2>3. h.buf \o Behind(text, h.pos) \in Seq(Fields)
    BY <2>1, <2>2, ConcatProperties
  <2>4. Fill(h) = [h EXCEPT !.buf = Ahead(h), !.pos = Len(text)]
    BY <1>2 DEF Fill, Ahead, HandleType
  <2>5. Ahead(h) \in Seq(Fields) /\ Ahead(h) \o <<>> = Ahead(h)
    BY <2>3, ConcatEmptySeq DEF Ahead
  <2> HIDE DEF text
  <2>6. /\ Fill(h) \in HandleType /\ Fill(h).file = h.file /\ Fill(h).open = h.open
        /\ Fill(h).got = h.got /\ Fill(h).pos = Len(text) /\ Fill(h).buf = Ahead(h)
    BY <2>1, <2>4, <2>5 DEF HandleType
  <2>7. Ahead(Fill(h)) = Ahead(h)
    BY <2>2, <2>5, <2>6 DEF Ahead, text
  <2> QED BY <1>2, <2>1, <2>5, <2>6, <2>7 DEF text
<1> QED BY <1>1, <1>2

(* A field is the first that is before the reader.                         *)
LEMMA ScanFieldIs ==
  ASSUME NEW h \in HandleType, h.open => files[h.file].text \in Seq(Fields),
         NEW r \in Readings(h), NEW type \in Types, NEW sep
  PROVE  LET s == ScanField(r, type, sep)
         IN  /\ s \in Readings(h)
             /\ s.ok => r.ok
             /\ s.ok /\ h.open =>
                  /\ Ahead(r.h) \in Seq(Fields) /\ Ahead(r.h) # <<>>
                  /\ Ahead(r.h)[1].sep = sep /\ Scans(type, Ahead(r.h)[1].text)
                  /\ s.vals = Append(r.vals, Scanned(type, Ahead(r.h)[1].text))
                  /\ Ahead(s.h) = Behind(Ahead(r.h), 1)
<1> DEFINE f    == IF Has(r.h, sep) THEN r.h ELSE Fill(r.h)
           I    == {i \in 1..Len(f.buf) : Ends(f.buf[i], sep)}
           at   == IF I # {} THEN Min(I) ELSE 0
           good == r.ok /\ at = 1 /\ Scans(type, f.buf[1].text)
           s    == ScanField(r, type, sep)
<1>1. /\ r.h \in HandleType /\ r.vals \in Seq(Values) /\ r.ok \in BOOLEAN
      /\ r.h.file = h.file /\ r.h.open = h.open /\ r.h.got = h.got
      /\ h.open => r.h.pos <= Len(files[h.file].text)
  BY DEF Readings
<1>2. /\ f \in HandleType /\ f.file = h.file /\ f.open = h.open /\ f.got = h.got
      /\ f.buf \in Seq(Fields)
      /\ h.open => /\ f.pos <= Len(files[h.file].text)
                   /\ Ahead(f) = Ahead(r.h) /\ Ahead(r.h) \in Seq(Fields)
  <2>1. /\ Fill(r.h) \in HandleType
        /\ Fill(r.h).file = h.file /\ Fill(r.h).open = h.open /\ Fill(r.h).got = h.got
        /\ h.open => /\ Fill(r.h).pos <= Len(files[h.file].text)
                     /\ Ahead(Fill(r.h)) = Ahead(r.h) /\ Ahead(r.h) \in Seq(Fields)
    BY <1>1, FillIs
  <2>2. f \in HandleType => f.buf \in Seq(Fields)
    BY DEF HandleType
  <2> QED BY <1>1, <2>1, <2>2
<1>3. s = IF good
            THEN [h    |-> [f EXCEPT !.buf = Tail(@)],
                  vals |-> Append(r.vals, Scanned(type, f.buf[1].text)), ok |-> TRUE]
            ELSE [r EXCEPT !.ok = FALSE]
  BY DEF ScanField, SelectInSeq
<1> HIDE DEF s, f
<1>4. CASE ~good
  <2>1. s = [r EXCEPT !.ok = FALSE]
    BY <1>3, <1>4
  <2>2. s \in Readings(h) /\ ~s.ok
    BY <1>1, <2>1 DEF Readings
  <2> QED BY <2>2 DEF s
<1>5. CASE good
  <2>1. I # {} /\ Min(I) = 1
    BY <1>5
  <2>2. 1 \in I
    <3>1. I \subseteq Nat
      OBVIOUS
    <3> HIDE DEF I
    <3>2. \E x \in I : \A y \in I : x <= y
      BY <2>1, <3>1, Least
    <3> QED BY <2>1, <3>2 DEF Min
  <2>3. f.buf # <<>> /\ Ends(f.buf[1], sep)
    <3>1. 1 \in 1..Len(f.buf)
      BY <2>2
    <3>2. Len(<<>>) = 0
      BY EmptySeq
    <3> QED BY <2>2, <3>1, <3>2
  <2>4. /\ Len(f.buf) \in Nat \ {0} /\ f.buf[1] \in Fields
        /\ Tail(f.buf) = Behind(f.buf, 1) /\ Behind(f.buf, 1) \in Seq(Fields)
    BY <1>2, <2>3, BehindFirst
  <2>5. /\ s.h = [f EXCEPT !.buf = Behind(f.buf, 1)] /\ s.ok
        /\ s.vals = Append(r.vals, Scanned(type, f.buf[1].text))
    <3>1. s = [h    |-> [f EXCEPT !.buf = Tail(f.buf)],
               vals |-> Append(r.vals, Scanned(type, f.buf[1].text)), ok |-> TRUE]
      BY <1>2, <1>3, <1>5 DEF HandleType
    <3> QED BY <2>4, <3>1
  <2>6. Scanned(type, f.buf[1].text) \in Values
    <3>1. PICK v \in Values : f.buf[1].text = Text(v)
      BY <2>4 DEF Fields
    <3>2. Scans(type, Text(v))
      BY <1>5, <3>1
    <3>3. Scanned(type, Text(v)) \in Values
      BY <3>2 DEF Values, Text, Scans, Scanned, Whole
    <3> QED BY <3>1, <3>3
  <2>7. s \in Readings(h)
    <3>1. Append(r.vals, Scanned(type, f.buf[1].text)) \in Seq(Values)
      BY <1>1, <2>6, AppendProperties
    <3>2. s.h \in HandleType
      BY <1>2, <2>4, <2>5 DEF HandleType
    <3>3. /\ s.h.file = h.file /\ s.h.open = h.open /\ s.h.got = h.got
          /\ h.open => s.h.pos <= Len(files[h.file].text)
      BY <1>2, <2>5 DEF HandleType
    <3>4. s = [h |-> s.h, vals |-> s.vals, ok |-> s.ok]
      BY <1>3, <1>5
    <3>5. s \in [h : HandleType, vals : Seq(Values), ok : BOOLEAN]
      BY <2>5, <3>1, <3>2, <3>4
    <3> QED BY <3>3, <3>5 DEF Readings
  <2>8. ASSUME h.open
        PROVE  /\ Ahead(r.h) # <<>> /\ Ahead(r.h)[1] = f.buf[1]
               /\ Ahead(s.h) = Behind(Ahead(r.h), 1)
    <3> DEFINE b == Behind(files[h.file].text, f.pos)
    <3>1. b \in Seq(Fields)
      <4>1. f.pos \in 0..Len(files[h.file].text)
        BY <1>2, <2>8, LenProperties DEF HandleType
      <4> QED BY <2>8, <4>1, BehindIs
    <3>2. Ahead(r.h) = f.buf \o b /\ Ahead(s.h) = Behind(f.buf, 1) \o b
      BY <1>2, <2>5, <2>8 DEF Ahead, HandleType
    <3> HIDE DEF b
    <3>3. Behind(f.buf \o b, 1) = Behind(f.buf, 1) \o b
      BY <1>2, <2>4, <3>1, BehindOver
    <3>4. Len(f.buf \o b) = Len(f.buf) + Len(b) /\ (f.buf \o b)[1] = f.buf[1] /\ Len(b) \in Nat
      BY <1>2, <2>4, <3>1, ConcatProperties, LenProperties
    <3>5. f.buf \o b # <<>>
      <4>1. Len(f.buf \o b) # 0
        BY <2>4, <3>4
      <4> QED BY <4>1, EmptySeq
    <3> QED BY <3>2, <3>3, <3>4, <3>5, Zenon
  <2>9. f.buf[1].sep = sep /\ Scans(type, f.buf[1].text) /\ r.ok
    BY <1>5, <2>3 DEF Ends
  <2> QED BY <1>2, <2>5, <2>7, <2>8, <2>9 DEF s
<1> QED BY <1>4, <1>5

(* Of what was before a reader, n fields were taken, and rest is left.     *)
TookFields(all, types, n, vals, rest) ==
  /\ n <= Len(all) /\ rest = Behind(all, n) /\ Len(vals) = n
  /\ \A i \in 1..n : /\ all[i].sep = Separator(i, Len(types))
                     /\ Scans(types[i], all[i].text)
                     /\ vals[i] = Scanned(types[i], all[i].text)
Took(h, types, n, r) ==
  r.ok /\ h.open => TookFields(Ahead(h), types, n, r.vals, Ahead(r.h))

(* A Read statement takes the fields that are before the reader.           *)
LEMMA ReadRecordIs ==
  ASSUME NEW h \in HandleType, h.open => files[h.file].text \in Seq(Fields),
         h.open => h.pos <= Len(files[h.file].text), NEW types \in Shapes
  PROVE  /\ ReadRecord(h, types) \in Readings(h)
         /\ Took(h, types, Len(types), ReadRecord(h, types))
<1> DEFINE m     == Len(types)
           T     == Readings(h)
           start == [h |-> h, vals |-> <<>>, ok |-> TRUE]
           F     == [n \in 1..m |-> [r \in T |-> ScanField(r, types[n], Separator(n, m))]]
           Loop(g) == g = [n \in 0..m |-> IF n = 0 THEN start
                             ELSE ScanField(g[n - 1], types[n], Separator(n, m))]
<1>1. m \in Nat /\ \A n \in 1..m : types[n] \in Types
  BY FileAssumption, LenProperties, ElementOfSeq
<1>2. start \in T
  <2>1. <<>> \in Seq(Values)
    BY EmptySeq
  <2> QED BY <2>1 DEF Readings
<1>3. ASSUME NEW r \in T, NEW n \in 1..m PROVE ScanField(r, types[n], Separator(n, m)) \in T
  BY <1>1, ScanFieldIs
<1>4. F \in [1..m -> [T -> T]]
  BY <1>3
<1>5. PICK v \in [0..m -> T] : v[0] = start /\ \A n \in 1..m : v[n] = F[n][v[n - 1]]
  <2> HIDE DEF m, T, start, F
  <2>1. HasValues(m, T, start, F)
    BY <1>1, <1>2, <1>4, LoopHasValues
  <2> QED BY <2>1 DEF HasValues
<1>6. Loop(v)
  <2>1. ASSUME NEW n \in 0..m, n # 0
        PROVE  v[n] = ScanField(v[n - 1], types[n], Separator(n, m))
    <3>1. n \in 1..m /\ n - 1 \in 0..m
      BY <1>1, <2>1
    <3>2. v[n - 1] \in T
      BY <1>5, <3>1
    <3>3. F[n][v[n - 1]] = ScanField(v[n - 1], types[n], Separator(n, m))
      BY <3>1, <3>2
    <3> QED BY <1>5, <3>1, <3>3
  <2> HIDE DEF T, F, start
  <2>2. v = [n \in 0..m |-> v[n]]
    BY <1>5
  <2> QED BY <1>5, <2>1, <2>2
<1> DEFINE upTo == CHOOSE g : Loop(g)
<1>7. Loop(upTo)
  <2>1. \E g : Loop(g)
    BY <1>6
  <2> HIDE DEF Loop
  <2> QED BY <2>1
<1>8. ReadRecord(h, types) = upTo[m]
  BY DEF ReadRecord
<1> HIDE DEF upTo
<1>9. /\ upTo[0] = start
      /\ \A n \in 1..m : upTo[n] = ScanField(upTo[n - 1], types[n], Separator(n, m))
  <2> HIDE DEF start
  <2>1. \A n \in 0..m : upTo[n] = IF n = 0 THEN start
                                  ELSE ScanField(upTo[n - 1], types[n], Separator(n, m))
    BY <1>7
  <2>2. 0 \in 0..m /\ \A n \in 1..m : n \in 0..m /\ n # 0
    BY <1>1
  <2> QED BY <2>1, <2>2
<1> DEFINE R == {n \in 0..m : upTo[n] \in T /\ Took(h, types, n, upTo[n])}
<1>10. 0 \in R
  <2>1. ASSUME h.open PROVE 0 <= Len(Ahead(h)) /\ Ahead(h) = Behind(Ahead(h), 0)
    <3>1. Ahead(h) \in Seq(Fields)
      BY <2>1, FillIs
    <3> QED BY <3>1, BehindNone, LenProperties
  <2>2. Took(h, types, 0, start)
    BY <2>1, EmptySeq DEF Took, TookFields
  <2> QED BY <1>1, <1>2, <1>9, <2>2
<1>11. ASSUME NEW k \in 0..(m - 1), k \in R PROVE k + 1 \in R
  <2> DEFINE n == k + 1
             r == upTo[k]
             s == upTo[n]
             all == Ahead(h)
  <2>1. n \in 1..m /\ n \in 0..m /\ n - 1 = k /\ k \in Nat
    BY <1>1
  <2>2. r \in T /\ Took(h, types, k, r)
    BY <1>11
  <2>3. s = ScanField(r, types[n], Separator(n, m)) /\ types[n] \in Types
    BY <1>1, <1>9, <2>1
  <2> HIDE DEF r, s, n
  <2>4. /\ s \in T
        /\ s.ok => r.ok
        /\ s.ok /\ h.open =>
             /\ Ahead(r.h) \in Seq(Fields) /\ Ahead(r.h) # <<>>
             /\ Ahead(r.h)[1].sep = Separator(n, m) /\ Scans(types[n], Ahead(r.h)[1].text)
             /\ s.vals = Append(r.vals, Scanned(types[n], Ahead(r.h)[1].text))
             /\ Ahead(s.h) = Behind(Ahead(r.h), 1)
    BY <2>2, <2>3, ScanFieldIs
  <2>5. Took(h, types, n, s)
    <3> SUFFICES ASSUME s.ok, h.open
                 PROVE  /\ n <= Len(all) /\ Ahead(s.h) = Behind(all, n) /\ Len(s.vals) = n
                        /\ \A i \in 1..n : /\ all[i].sep = Separator(i, m)
                                           /\ Scans(types[i], all[i].text)
                                           /\ s.vals[i] = Scanned(types[i], all[i].text)
      BY DEF Took, TookFields
    <3>1. all \in Seq(Fields)
      BY FillIs
    <3> HIDE DEF all
    <3>2. /\ k <= Len(all) /\ Ahead(r.h) = Behind(all, k) /\ Len(r.vals) = k
          /\ \A i \in 1..k : /\ all[i].sep = Separator(i, m)
                             /\ Scans(types[i], all[i].text)
                             /\ r.vals[i] = Scanned(types[i], all[i].text)
      BY <2>2, <2>4 DEF Took, TookFields, all
    <3>3. k < Len(all) /\ Ahead(r.h)[1] = all[n] /\ Ahead(s.h) = Behind(all, n)
      <4>1. k \in 0..Len(all) /\ Behind(all, k) # <<>>
        BY <2>1, <2>4, <3>1, <3>2, LenProperties
      <4>2. /\ k < Len(all) /\ Behind(all, k)[1] = all[k + 1]
            /\ Behind(Behind(all, k), 1) = Behind(all, k + 1)
        BY <3>1, <4>1, BehindNext
      <4> QED BY <2>4, <3>2, <4>2, Zenon DEF n
    <3>4. /\ Len(s.vals) = n /\ s.vals[n] = Scanned(types[n], all[n].text)
          /\ \A i \in 1..k : s.vals[i] = r.vals[i]
      <4>1. r.vals \in Seq(Values) /\ s.vals \in Seq(Values)
        BY <2>2, <2>4 DEF Readings
      <4>2. s.vals = Append(r.vals, Scanned(types[n], all[n].text))
        BY <2>4, <3>3
      <4>3. PICK x : x = Scanned(types[n], all[n].text)
        OBVIOUS
      <4>4. s.vals = Append(r.vals, x)
        BY <4>2, <4>3
      <4>5. Len(Append(r.vals, x)) = k + 1 /\ Append(r.vals, x)[k + 1] = x
            /\ \A i \in 1..k : Append(r.vals, x)[i] = r.vals[i]
        BY <3>2, <4>1
      <4> QED BY <4>3, <4>4, <4>5 DEF n
    <3>5. \A i \in 1..n : i = n \/ i \in 1..k
      BY <2>1
    <3>6. all[n].sep = Separator(n, m) /\ Scans(types[n], all[n].text)
      BY <2>4, <3>3
    <3>7. n <= Len(all)
      BY <2>1, <3>1, <3>3, LenProperties
    <3> HIDE DEF m
    <3> QED BY <3>2, <3>3, <3>4, <3>5, <3>6, <3>7
  <2> QED BY <2>1, <2>4, <2>5 DEF n, s
<1>12. m \in R
  <2> HIDE DEF R, m
  <2>1. \A k \in 0..m : k \in R
    BY <1>1, <1>10, <1>11, UpFromZero
  <2> QED BY <1>1, <2>1
<1> QED BY <1>8, <1>12

(* A value that is read as it was written, or with a type that takes it.   *)
LEMMA ScannedBack ==
  ASSUME NEW type \in Types, NEW v \in Values, Scans(type, Text(v)), Takes(type, v.type)
  PROVE  Scanned(type, Text(v)).val = v.val
BY DEF Types, Values, Text, Scans, Scanned, Takes, Whole

(* Where the lines of some records are before a reader, a Read statement   *)
(* that succeeds takes one line, which is the first.                       *)
LEMMA ReadsOneRecord ==
  ASSUME NEW recs \in Seq(Records), NEW types \in Shapes, NEW vals \in Seq(Values), NEW rest,
         TookFields(Lines(recs), types, Len(types), vals, rest)
  PROVE  recs # <<>> /\ IsRead(vals, Head(recs)) /\ rest = Lines(Tail(recs))
<1> DEFINE m     == Len(types)
           all   == Lines(recs)
           rec   == Head(recs)
           line  == Line(rec)
           other == Lines(Tail(recs))
<1>1. m \in Nat \ {0} /\ \A i \in 1..m : types[i] \in Types
  <2>1. types \in Seq(Types) /\ types # <<>>
    BY FileAssumption
  <2> QED BY <2>1, LenProperties, EmptySeq, ElementOfSeq
<1>2. recs # <<>>
  <2>1. ASSUME recs = <<>> PROVE FALSE
    <3>1. Len(Lines(recs)) = 0
      BY <2>1, LinesFirst, EmptySeq
    <3> QED BY <1>1, <3>1 DEF TookFields
  <2> QED BY <2>1
<1>3. /\ rec \in Records /\ Tail(recs) \in Seq(Records)
      /\ other \in Seq(Fields) /\ all = line \o other
  BY <1>2, LinesFirst
<1>4. /\ rec \in Seq(Values) /\ Len(rec) \in Nat \ {0}
      /\ line \in Seq(Fields) /\ Len(line) = Len(rec)
      /\ \A i \in 1..Len(rec) :
           line[i] = [text |-> Text(rec[i]), sep |-> Separator(i, Len(rec))]
  BY <1>3, LineIs
<1> HIDE DEF m, all, line, other, rec
<1>5. Len(all) = Len(line) + Len(other) /\ Len(other) \in Nat
      /\ \A i \in 1..Len(line) : all[i] = line[i]
  <2>1. line \in Seq(Fields) /\ other \in Seq(Fields) /\ all = line \o other
    BY <1>3, <1>4
  <2>2. /\ Len(line \o other) = Len(line) + Len(other)
        /\ \A i \in 1..(Len(line) + Len(other)) :
             (line \o other)[i] = IF i <= Len(line) THEN line[i] ELSE other[i - Len(line)]
        /\ Len(other) \in Nat /\ Len(line) \in Nat
    BY <2>1, ConcatProperties, LenProperties
  <2>3. \A i \in 1..Len(line) : i \in 1..(Len(line) + Len(other)) /\ i <= Len(line)
    BY <2>2
  <2> QED BY <2>1, <2>2, <2>3, Zenon
<1>6. /\ m <= Len(all) /\ rest = Behind(all, m) /\ Len(vals) = m
      /\ \A i \in 1..m : /\ all[i].sep = Separator(i, m)
                         /\ Scans(types[i], all[i].text)
                         /\ vals[i] = Scanned(types[i], all[i].text)
  BY DEF m, all, TookFields
<1>7. m = Len(line)
  <2> DEFINE n == Len(line)
  <2> HIDE DEF n
  <2>1. n \in Nat \ {0}
    BY <1>4 DEF n
  <2>2. ASSUME NEW i \in 1..n PROVE all[i].sep = Separator(i, n)
    <3>1. line[i] = [text |-> Text(rec[i]), sep |-> Separator(i, n)] /\ all[i] = line[i]
      BY <1>4, <1>5, Zenon DEF n
    <3> QED BY <3>1
  <2>3. ASSUME m < n PROVE FALSE
    <3>1. m \in 1..m /\ m \in 1..n
      BY <1>1, <2>1, <2>3
    <3> QED BY <1>6, <2>2, <2>3, <3>1 DEF Separator
  <2>4. ASSUME n < m PROVE FALSE
    <3>1. n \in 1..m /\ n \in 1..n
      BY <1>1, <2>1, <2>4
    <3> QED BY <1>6, <2>2, <2>4, <3>1 DEF Separator
  <2>5. m = n
    BY <1>1, <2>1, <2>3, <2>4
  <2> QED BY <2>5 DEF n
<1>8. rest = other
  <2>1. Behind(line \o other, Len(line)) = Behind(line, Len(line)) \o other
    <3>1. line \in Seq(Fields) /\ other \in Seq(Fields) /\ Len(line) \in 0..Len(line)
      BY <1>3, <1>4
    <3> QED BY <3>1, BehindOver
  <2>2. Behind(line, Len(line)) = <<>> /\ <<>> \o other = other
    BY <1>3, <1>4, BehindNone, ConcatEmptySeq
  <2> QED BY <1>3, <1>6, <1>7, <2>1, <2>2, Zenon
<1>9. IsRead(vals, rec)
  <2>1. ASSUME NEW i \in 1..m, Takes(vals[i].type, rec[i].type) PROVE vals[i].val = rec[i].val
    <3>1. rec[i] \in Values
      BY <1>4, <1>7, ElementOfSeq
    <3>2. all[i].text = Text(rec[i])
      <4>1. i \in 1..Len(rec) /\ i \in 1..Len(line)
        BY <1>4, <1>7
      <4>2. line[i] = [text |-> Text(rec[i]), sep |-> Separator(i, Len(rec))] /\ all[i] = line[i]
        BY <1>4, <1>5, <4>1, Zenon
      <4> QED BY <4>2
    <3>3. Scans(types[i], Text(rec[i])) /\ vals[i] = Scanned(types[i], Text(rec[i]))
      BY <1>6, <3>2
    <3>4. vals[i].type = types[i]
      BY <3>3 DEF Scanned
    <3> QED BY <1>1, <2>1, <3>1, <3>3, <3>4, ScannedBack
  <2>2. DOMAIN vals = 1..m /\ Len(vals) = Len(rec)
    BY <1>4, <1>6, <1>7, LenProperties
  <2> QED BY <2>1, <2>2 DEF IsRead
<1> QED BY <1>2, <1>8, <1>9 DEF rec, other

(* A reader follows a file of which it has read everything, or nothing.    *)
LEMMA LeftIs ==
  ASSUME NEW h \in HandleType, NEW recs \in Seq(Records), Len(h.got) <= Len(recs)
  PROVE  /\ Left(h, recs) \in Seq(Records)
         /\ Left(h, recs) = <<>> <=> Len(h.got) = Len(recs)
         /\ Lines(Left(h, recs)) \in Seq(Fields)
         /\ Lines(Left(h, recs)) = <<>> <=> Left(h, recs) = <<>>
<1>1. Len(h.got) \in 0..Len(recs) /\ Len(recs) \in Nat
  BY LenProperties DEF HandleType
<1>2. Left(h, recs) \in Seq(Records) /\ Len(Left(h, recs)) = Len(recs) - Len(h.got)
  BY <1>1, BehindIs DEF Left
<1>3. Left(h, recs) = <<>> <=> Len(h.got) = Len(recs)
  BY <1>1, <1>2, EmptySeq
<1>4. ASSUME NEW s \in Seq(Records)
      PROVE  Lines(s) \in Seq(Fields) /\ (Lines(s) = <<>> <=> s = <<>>)
  <2>1. CASE s = <<>>
    BY <2>1, LinesFirst, EmptySeq
  <2>2. CASE s # <<>>
    <3> DEFINE line  == Line(Head(s))
               other == Lines(Tail(s))
    <3>1. Head(s) \in Records /\ other \in Seq(Fields) /\ Lines(s) = line \o other
      BY <2>2, LinesFirst
    <3>2. line \in Seq(Fields) /\ Len(line) \in Nat \ {0}
      BY <3>1, LineIs
    <3> HIDE DEF line, other
    <3>3. line \o other \in Seq(Fields) /\ Len(line \o other) # 0
      BY <3>1, <3>2, ConcatProperties, LenProperties
    <3>4. line \o other # <<>>
      BY <3>3, EmptySeq
    <3> QED BY <2>2, <3>1, <3>3, <3>4, Zenon
  <2> QED BY <2>1, <2>2
<1> QED BY <1>2, <1>3, <1>4

(* A file that was just opened is followed from its beginning.             *)
LEMMA NewFollows ==
  ASSUME NEW file \in FileType, HasLines(file), NEW h \in HandleType,
         h.pos = 0, h.buf = <<>>, h.got = <<>>
  PROVE  Follows(h, file)
<1>1. file.text \in Seq(Fields) /\ file.records \in Seq(Records) /\ Len(<<>>) = 0
  BY EmptySeq DEF FileType
<1>2. /\ Len(file.text) \in Nat /\ Len(file.records) \in Nat
      /\ Behind(file.text, 0) = file.text /\ Behind(file.records, 0) = file.records
      /\ <<>> \o file.text = file.text
  BY <1>1, LenProperties, BehindNone, ConcatEmptySeq
<1>3. Left(h, file.records) = file.records
  BY <1>1, <1>2 DEF Left
<1>4. h.buf \o Behind(file.text, h.pos) = Lines(Left(h, file.records))
  BY <1>2, <1>3, Zenon DEF HasLines
<1> QED BY <1>1, <1>2, <1>4 DEF Follows

(* A reader that follows its file does so when it reads ahead, ...         *)
LEMMA PeekFollows ==
  ASSUME NEW h \in HandleType, h.open => files[h.file] \in FileType,
         h.open => Follows(h, files[h.file])
  PROVE  /\ Peek(h) \in HandleType
         /\ Peek(h).file = h.file /\ Peek(h).open = h.open
         /\ h.open => Follows(Peek(h), files[h.file])
<1>1. h.open => files[h.file].text \in Seq(Fields) /\ h.pos <= Len(files[h.file].text)
  BY DEF FileType, Follows
<1>2. /\ Fill(h) \in HandleType
      /\ Fill(h).file = h.file /\ Fill(h).open = h.open /\ Fill(h).got = h.got
      /\ h.open => /\ Fill(h).pos <= Len(files[h.file].text)
                   /\ Ahead(Fill(h)) = Ahead(h)
  BY <1>1, FillIs
<1>3. h.open => Follows(Fill(h), files[h.file])
  <2> SUFFICES ASSUME h.open PROVE Follows(Fill(h), files[h.file])
    OBVIOUS
  <2> DEFINE file == files[h.file]
             g == Fill(h)
  <2>1. g.buf \o Behind(file.text, g.pos) = h.buf \o Behind(file.text, h.pos)
    BY <1>2, Zenon DEF Ahead
  <2>2. Left(g, file.records) = Left(h, file.records)
    BY <1>2 DEF Left
  <2>3. Follows(h, file)
    OBVIOUS
  <2> HIDE DEF file
  <2> QED BY <1>2, <2>1, <2>2, <2>3 DEF Follows, file
<1> QED BY <1>2, <1>3 DEF Peek

(* ... when a Read statement takes a record, ...                           *)
LEMMA ReadFollows ==
  ASSUME NEW h \in HandleType, h.open => files[h.file] \in FileType,
         h.open => Follows(h, files[h.file]),
         NEW types \in Shapes, ReadRecord(h, types).ok
  PROVE  LET r   == ReadRecord(h, types)
             new == [r.h EXCEPT !.got = Append(@, r.vals)]
         IN  /\ new \in HandleType /\ new.file = h.file /\ new.open = h.open
             /\ h.open => Follows(new, files[h.file])
<1> DEFINE r    == ReadRecord(h, types)
           new  == [r.h EXCEPT !.got = Append(@, r.vals)]
           file == files[h.file]
           left == Left(h, file.records)
<1>1. h.open => file.text \in Seq(Fields) /\ file.records \in Seq(Records)
                  /\ h.pos <= Len(file.text) /\ Len(h.got) <= Len(file.records)
  BY DEF FileType, Follows
<1>2. r \in Readings(h) /\ Took(h, types, Len(types), r)
  BY <1>1, ReadRecordIs
<1> HIDE DEF r
<1>3. /\ r.h \in HandleType /\ r.vals \in Seq(Values)
      /\ r.h.file = h.file /\ r.h.open = h.open /\ r.h.got = h.got
      /\ h.open => r.h.pos <= Len(file.text)
  BY <1>2 DEF Readings
<1>4. h.got \in Seq(Seq(Values)) /\ Len(h.got) \in Nat
  BY LenProperties DEF HandleType
<1>5. PICK all : all = Append(h.got, r.vals)
  OBVIOUS
<1>6. /\ all \in Seq(Seq(Values)) /\ Len(all) = Len(h.got) + 1 /\ all[Len(h.got) + 1] = r.vals
      /\ \A i \in 1..Len(h.got) : all[i] = h.got[i]
  <2>1. \A s \in Seq(Seq(Values)), x \in Seq(Values) :
          /\ Append(s, x) \in Seq(Seq(Values)) /\ Len(Append(s, x)) = Len(s) + 1
          /\ Append(s, x)[Len(s) + 1] = x /\ \A i \in 1..Len(s) : Append(s, x)[i] = s[i]
    BY AppendProperties
  <2> QED BY <1>3, <1>4, <1>5, <2>1, Zenon
<1>7. new = [r.h EXCEPT !.got = all]
  BY <1>3, <1>5 DEF HandleType
<1>8. /\ new \in HandleType /\ new.file = h.file /\ new.open = h.open
      /\ new.pos = r.h.pos /\ new.buf = r.h.buf /\ new.got = all
  BY <1>3, <1>6, <1>7 DEF HandleType
<1> HIDE DEF new
<1>9. ASSUME h.open PROVE Follows(new, file)
  <2> HIDE DEF file
  <2>1. /\ left \in Seq(Records) /\ (left = <<>> <=> Len(h.got) = Len(file.records))
    BY <1>1, <1>9, LeftIs
  <2>2. TookFields(Ahead(h), types, Len(types), r.vals, Ahead(r.h))
    BY <1>2, <1>9 DEF Took, r
  <2>3. Ahead(h) = Lines(left)
    BY <1>9 DEF Follows, Ahead, file
  <2> HIDE DEF left
  <2>4. left # <<>> /\ IsRead(r.vals, Head(left)) /\ Ahead(r.h) = Lines(Tail(left))
    BY <1>3, <2>1, <2>2, <2>3, ReadsOneRecord
  <2>5. Len(h.got) \in 0..Len(file.records) /\ Len(h.got) < Len(file.records)
    BY <1>1, <1>4, <1>9, <2>1, <2>4, LenProperties
  <2>6. /\ Head(left) = file.records[Len(h.got) + 1]
        /\ Tail(left) = Behind(file.records, Len(h.got) + 1)
    BY <1>1, <1>9, <2>5, BehindOne DEF left, Left
  <2>7. Left(new, file.records) = Tail(left)
    BY <1>6, <1>8, <2>6 DEF Left
  <2>8. new.buf \o Behind(file.text, new.pos) = Lines(Left(new, file.records))
    <3>1. Ahead(r.h) = new.buf \o Behind(file.text, new.pos)
      BY <1>3, <1>8 DEF Ahead, file
    <3> QED BY <2>4, <2>7, <3>1, Zenon
  <2>9. \A n \in 1..Len(h.got) : IsRead(h.got[n], file.records[n])
    BY <1>9 DEF Follows, file
  <2>10. \A n \in 1..Len(all) : IsRead(all[n], file.records[n])
    <3>1. \A n \in 1..Len(all) : n = Len(h.got) + 1 \/ n \in 1..Len(h.got)
      BY <1>4, <1>6
    <3>2. IsRead(all[Len(h.got) + 1], file.records[Len(h.got) + 1])
      BY <1>6, <2>4, <2>6, Zenon
    <3>3. \A n \in 1..Len(h.got) : IsRead(all[n], file.records[n])
      BY <1>6, <2>9
    <3> QED BY <3>1, <3>2, <3>3, Zenon
  <2>11. Len(all) <= Len(file.records)
    BY <1>1, <1>4, <1>6, <1>9, <2>5, LenProperties
  <2>12. new.pos <= Len(file.text)
    BY <1>3, <1>8, <1>9
  <2> QED BY <1>8, <2>8, <2>10, <2>11, <2>12 DEF Follows
<1> QED BY <1>8, <1>9 DEF new, r

(* What a file is with a record more.                                      *)
Written(file, rec) ==
  [text |-> file.text \o Line(rec), records |-> Append(file.records, rec)]

(* ... and when somebody writes one.                                       *)
LEMMA WriteFollows ==
  ASSUME NEW file \in FileType, HasLines(file), NEW rec \in Records
  PROVE  /\ Written(file, rec) \in FileType /\ HasLines(Written(file, rec))
         /\ Len(Written(file, rec).text) = Len(file.text) + Len(Line(rec))
         /\ Len(Line(rec)) \in Nat /\ Len(file.text) \in Nat
         /\ \A h \in HandleType : Follows(h, file) => Follows(h, Written(file, rec))
<1> DEFINE text == file.text
           recs == file.records
           line == Line(rec)
<1>1. text \in Seq(Fields) /\ recs \in Seq(Records) /\ line \in Seq(Fields)
      /\ Len(text) \in Nat /\ Len(recs) \in Nat /\ Len(line) \in Nat
  BY LineIs, LenProperties DEF FileType
<1>2. text \o line \in Seq(Fields) /\ Len(text \o line) = Len(text) + Len(line)
  <2> HIDE DEF text, line
  <2> QED BY <1>1, ConcatProperties
<1>3. /\ Append(recs, rec) \in Seq(Records) /\ Len(Append(recs, rec)) = Len(recs) + 1
      /\ Append(recs, rec) = recs \o <<rec>>
      /\ \A i \in 1..Len(recs) : Append(recs, rec)[i] = recs[i]
  <2> HIDE DEF recs
  <2> QED BY <1>1, AppendProperties, AppendIsConcat
<1>4. PICK all, more : all = text \o line /\ more = Append(recs, rec)
  OBVIOUS
<1>5. Written(file, rec) = [text |-> all, records |-> more]
  BY <1>4 DEF Written
<1>6. Written(file, rec) \in FileType /\ Len(Written(file, rec).text) = Len(text) + Len(line)
  <2> HIDE DEF text, line, recs
  <2> QED BY <1>2, <1>3, <1>4, <1>5 DEF FileType
<1>7. text = Lines(recs)
  BY DEF HasLines
<1> HIDE DEF text, line, recs
<1>8. Lines(more) = Lines(recs) \o line
  BY <1>1, <1>4, LinesAppend, Zenon DEF line
<1>9. HasLines(Written(file, rec))
  BY <1>4, <1>5, <1>7, <1>8 DEF HasLines
<1>10. ASSUME NEW h \in HandleType, Follows(h, file) PROVE Follows(h, Written(file, rec))
  <2>1. /\ h.pos \in 0..Len(text) /\ Len(h.got) \in 0..Len(recs) /\ h.buf \in Seq(Fields)
        /\ h.buf \o Behind(text, h.pos) = Lines(Left(h, recs))
        /\ \A n \in 1..Len(h.got) : IsRead(h.got[n], recs[n])
    BY <1>1, <1>10, LenProperties DEF Follows, HandleType, text, recs
  <2>2. Behind(all, h.pos) = Behind(text, h.pos) \o line /\ Behind(text, h.pos) \in Seq(Fields)
    BY <1>1, <1>4, <2>1, BehindOver, BehindIs
  <2>3. h.buf \o Behind(all, h.pos) = Lines(Left(h, recs)) \o line
    <3>1. PICK ahead : ahead = Behind(text, h.pos)
      OBVIOUS
    <3>2. h.buf \o (ahead \o line) = (h.buf \o ahead) \o line
      <4>1. h.buf \in Seq(Fields) /\ ahead \in Seq(Fields) /\ line \in Seq(Fields)
        BY <1>1, <2>1, <2>2, <3>1
      <4>2. \A a, b, c \in Seq(Fields) : (a \o b) \o c = a \o (b \o c)
        <5> SUFFICES ASSUME NEW a \in Seq(Fields), NEW b \in Seq(Fields), NEW c \in Seq(Fields)
                     PROVE  (a \o b) \o c = a \o (b \o c)
          OBVIOUS
        <5> QED BY ConcatAssociative
      <4> QED BY <4>1, <4>2, Zenon
    <3> QED BY <2>1, <2>2, <3>1, <3>2, Zenon
  <2>4. Left(h, recs) \in Seq(Records)
    BY <1>1, <2>1, LeftIs
  <2>5. Left(h, more) = Append(Left(h, recs), rec)
    <3>1. <<rec>> \in Seq(Records)
      OBVIOUS
    <3>2. Behind(recs \o <<rec>>, Len(h.got)) = Behind(recs, Len(h.got)) \o <<rec>>
      BY <1>1, <2>1, <3>1, BehindOver
    <3>3. Append(Left(h, recs), rec) = Left(h, recs) \o <<rec>>
      BY <2>4, AppendIsConcat
    <3> QED BY <1>3, <1>4, <3>2, <3>3, Zenon DEF Left
  <2>6. Lines(Append(Left(h, recs), rec)) = Lines(Left(h, recs)) \o line
    BY <2>4, LinesAppend, Zenon DEF line
  <2>7. h.buf \o Behind(all, h.pos) = Lines(Left(h, more))
    BY <2>3, <2>5, <2>6, Zenon
  <2>8. \A n \in 1..Len(h.got) : IsRead(h.got[n], more[n])
    <3>1. \A n \in 1..Len(h.got) : n \in 1..Len(recs)
      BY <1>1, <2>1
    <3>2. \A n \in 1..Len(h.got) : more[n] = recs[n]
      BY <1>3, <1>4, <3>1
    <3> QED BY <2>1, <3>2
  <2>9. h.pos <= Len(all) /\ Len(h.got) <= Len(more)
    BY <1>1, <1>2, <1>3, <1>4, <2>1
  <2>10. Written(file, rec).text = all /\ Written(file, rec).records = more
    BY <1>5
  <2> QED BY <2>7, <2>8, <2>9, <2>10 DEF Follows
<1> QED BY <1>1, <1>6, <1>9, <1>10 DEF text, line
-----------------------------------------------------------------------------
(* What is forgotten: files and handles that nothing refers to.            *)
LEMMA Blank ==
  /\ NoFile \in FileType /\ HasLines(NoFile) /\ NoHandle \in HandleType
  /\ NoFile.text = <<>> /\ NoHandle.file = 0
<1>1. \A S : <<>> \in Seq(S)
  BY EmptySeq
<1>2. MaxFiles \in Nat
  BY FileAssumption
<1>3. NoFile \in FileType
  BY <1>1 DEF NoFile, FileType
<1>4. NoHandle \in HandleType
  <2>1. <<>> \in Seq(Fields) /\ <<>> \in Seq(Seq(Values))
    BY <1>1
  <2> QED BY <1>2, <2>1 DEF NoHandle, HandleType
<1>5. Lines(<<>>) = <<>>
  <2>1. <<>> \in Seq(Records) /\ NoHandle.got = <<>>
    BY <1>1 DEF NoHandle
  <2>2. Len(NoHandle.got) = Len(<<>>) /\ Len(NoHandle.got) <= Len(<<>>)
    BY <2>1
  <2>3. PICK none : none = <<>>
    OBVIOUS
  <2>4. Left(NoHandle, none) = <<>> /\ Lines(Left(NoHandle, none)) = <<>>
    BY <1>4, <2>1, <2>2, <2>3, LeftIs
  <2> QED BY <2>3, <2>4
<1> QED BY <1>3, <1>4, <1>5 DEF HasLines, NoFile, NoHandle

(* What a variable holds is typed: a handle, and its file.                 *)
LEMMA Held ==
  ASSUME NEW d, NEW fs, NEW hs, NEW v, FileTypes(d, fs, hs, v), NEW f \in Vars, v[f] # 0
  PROVE  /\ v[f] \in Handles /\ hs[v[f]] \in HandleType
         /\ hs[v[f]].file \in Files /\ fs[hs[v[f]].file] \in FileType
  BY FileAssumption DEF FileTypes, Handles

(* Settle() forgets nothing that a variable or a name refers to.           *)
LEMMA SettleKeeps ==
  ASSUME NEW d, NEW fs, NEW hs, NEW v, Fine(d, fs, hs, v), Settle(d, fs, hs, v)
  PROVE  FileInv'
<1> DEFINE live == {v[f] : f \in Vars}
           used == {d[name] : name \in Names} \cup {hs[h].file : h \in live \ {0}}
<1>1. /\ dir' = d /\ var' = v
      /\ handles' = [h \in Handles |-> IF h \in live THEN hs[h] ELSE NoHandle]
      /\ files' = [n \in Files |-> IF n \in used THEN fs[n] ELSE NoFile]
  BY DEF Settle
<1>2. FileTypes(d, fs, hs, v)
  BY DEF Fine
<1>3. ASSUME NEW f \in Vars, v[f] # 0
      PROVE  /\ v[f] \in Handles /\ handles'[v[f]] = hs[v[f]] /\ hs[v[f]].file \in Files
             /\ files'[hs[v[f]].file] = fs[hs[v[f]].file]
  <2>1. v[f] \in Handles /\ hs[v[f]].file \in Files
    BY <1>2, <1>3, Held
  <2>2. v[f] \in live /\ v[f] \in live \ {0}
    BY <1>3
  <2>3. hs[v[f]].file \in used
    BY <2>2
  <2> HIDE DEF live, used
  <2> QED BY <1>1, <2>1, <2>2, <2>3
<1>4. FileTypes(d, files', handles', v)
  <2>1. handles' \in [Handles -> HandleType]
    <3> HIDE DEF live
    <3> QED BY <1>1, <1>2, Blank DEF FileTypes
  <2>2. files' \in [Files -> FileType]
    <3> HIDE DEF used
    <3> QED BY <1>1, <1>2, Blank DEF FileTypes
  <2> QED BY <1>2, <1>3, <2>1, <2>2 DEF FileTypes
<1>5. \A n \in Files : HasLines(files'[n])
  <2>1. \A n \in Files : HasLines(fs[n])
    BY DEF Fine
  <2> HIDE DEF used
  <2> QED BY <1>1, <2>1, Blank
<1>6. Reading(handles', v) = Reading(hs, v) /\ Writing(handles', v) = Writing(hs, v)
  <2>1. \A f \in Vars : v[f] # 0 => handles'[v[f]] = hs[v[f]]
    BY <1>3
  <2> QED BY <2>1 DEF Reading, Writing, Vars
<1>7. \A f \in Reading(handles', v) : Follows(handles'[v[f]], files'[handles'[v[f]].file])
  <2> SUFFICES ASSUME NEW f \in Reading(handles', v)
               PROVE  Follows(handles'[v[f]], files'[handles'[v[f]].file])
    OBVIOUS
  <2>1. f \in Vars /\ v[f] # 0
    BY DEF Reading, Vars
  <2>2. Follows(hs[v[f]], fs[hs[v[f]].file])
    BY <1>6 DEF Fine
  <2> QED BY <1>3, <2>1, <2>2
<1>8. WritersApart(files', handles', v)
  <2>1. WritersApart(fs, hs, v)
    BY DEF Fine
  <2>2. \A f \in Writing(handles', v) : f \in Vars /\ v[f] # 0 /\ f \in Writing(hs, v)
    BY <1>6 DEF Writing
  <2> QED BY <1>3, <2>1, <2>2 DEF WritersApart
<1>9. ASSUME NEW n \in Files, \A name \in Names : d[name] # n,
             \A h \in Handles : handles'[h].file # n
      PROVE  files'[n] = NoFile
  <2>1. n \notin used
    <3>1. ASSUME NEW h \in live \ {0}, hs[h].file = n PROVE FALSE
      <4>1. PICK f \in Vars : h = v[f] /\ v[f] # 0
        OBVIOUS
      <4> QED BY <1>3, <1>9, <3>1, <4>1
    <3> QED BY <1>9, <3>1
  <2> HIDE DEF used
  <2> QED BY <1>1, <2>1
<1>10. Fine(d, files', handles', v)
  BY <1>4, <1>5, <1>7, <1>8 DEF Fine
<1> QED BY <1>1, <1>9, <1>10 DEF FileInv

(* Other names, fewer handles, or copies of them, do no harm.              *)
LEMMA Fewer ==
  ASSUME NEW d, NEW fs, NEW hs, NEW v, Fine(d, fs, hs, v),
         NEW dd \in [Names -> 0..MaxFiles], NEW vv \in [Vars -> 0..MaxHandles],
         \A f \in Vars :
           vv[f] = 0 \/ \E g \in Vars : vv[f] = v[g] /\ (f \in InVars <=> g \in InVars)
  PROVE  Fine(dd, fs, hs, vv)
<1>1. FileTypes(d, fs, hs, v) /\ WritersApart(fs, hs, v)
  BY DEF Fine
<1>2. FileTypes(dd, fs, hs, vv)
  <2>1. \A f \in Vars : vv[f] # 0 => hs[vv[f]].file \in Files
    BY <1>1 DEF FileTypes
  <2> QED BY <1>1, <2>1 DEF FileTypes
<1>3. ASSUME NEW f \in Reading(hs, vv) PROVE Follows(hs[vv[f]], fs[hs[vv[f]].file])
  <2>1. PICK g \in Reading(hs, v) : vv[f] = v[g]
    BY DEF Reading, Vars
  <2> QED BY <2>1 DEF Fine
<1>4. \A f \in Writing(hs, vv) : \E g \in Writing(hs, v) : vv[f] = v[g]
  BY DEF Writing
<1>5. ASSUME NEW f \in InVars, NEW g \in Vars \ InVars, vv[f] # 0 PROVE vv[f] # vv[g]
  <2>1. PICK a \in InVars : vv[f] = v[a]
    BY <1>5 DEF Vars
  <2>2. CASE vv[g] = 0
    BY <1>5, <2>2
  <2>3. CASE vv[g] # 0
    <3>1. PICK b \in Vars \ InVars : vv[g] = v[b]
      BY <2>3
    <3> QED BY <1>1, <1>5, <2>1, <3>1 DEF WritersApart
  <2> QED BY <2>2, <2>3
<1>6. WritersApart(fs, hs, vv)
  BY <1>1, <1>4, <1>5 DEF WritersApart
<1> QED BY <1>2, <1>3, <1>6 DEF Fine
(* A handle goes on in the same file, and if it stays open it is still     *)
(* where its variables want it.                                            *)
LEMMA Changed ==
  ASSUME NEW d, NEW fs, NEW hs, NEW v, Fine(d, fs, hs, v),
         NEW k \in Handles, NEW new \in HandleType,
         new.file = hs[k].file, new.open => hs[k].open,
         \A f \in InVars : v[f] = k /\ new.open => Follows(new, fs[new.file]),
         \A f \in Vars \ InVars : v[f] = k /\ new.open => new.pos = Len(fs[new.file].text)
  PROVE  Fine(d, fs, [hs EXCEPT ![k] = new], v)
<1>1. FileTypes(d, fs, hs, v) /\ WritersApart(fs, hs, v)
  BY DEF Fine
<1>2. PICK now : now = [hs EXCEPT ![k] = new]
  OBVIOUS
<1>3. now \in [Handles -> HandleType] /\ now[k] = new
      /\ \A h \in Handles : h # k => now[h] = hs[h]
  BY <1>1, <1>2 DEF FileTypes
<1>4. \A f \in Vars : v[f] # 0 => v[f] \in Handles
  BY <1>1, Held
<1>5. \A f \in Vars : v[f] # 0 =>
        now[v[f]].file = hs[v[f]].file /\ (now[v[f]].open => hs[v[f]].open)
  BY <1>3, <1>4
<1>6. FileTypes(d, fs, now, v)
  BY <1>1, <1>3, <1>5 DEF FileTypes
<1>7. ASSUME NEW f \in Reading(now, v) PROVE Follows(now[v[f]], fs[now[v[f]].file])
  <2>1. f \in InVars /\ f \in Vars /\ v[f] # 0 /\ now[v[f]].open
    BY DEF Reading, Vars
  <2>2. CASE v[f] = k
    BY <1>3, <2>1, <2>2
  <2>3. CASE v[f] # k
    <3>1. now[v[f]] = hs[v[f]] /\ f \in Reading(hs, v)
      BY <1>3, <1>4, <2>1, <2>3 DEF Reading
    <3> QED BY <3>1 DEF Fine
  <2> QED BY <2>2, <2>3
<1>8. ASSUME NEW f \in Writing(now, v) PROVE now[v[f]].pos = Len(fs[now[v[f]].file].text)
  <2>1. f \in Vars \ InVars /\ v[f] # 0 /\ now[v[f]].open
    BY DEF Writing
  <2>2. CASE v[f] = k
    BY <1>3, <2>1, <2>2
  <2>3. CASE v[f] # k
    <3>1. now[v[f]] = hs[v[f]] /\ f \in Writing(hs, v)
      BY <1>3, <1>4, <2>1, <2>3 DEF Writing
    <3> QED BY <1>1, <3>1 DEF WritersApart
  <2> QED BY <2>2, <2>3
<1>9. WritersApart(fs, now, v)
  <2>1. \A f \in Writing(now, v) : f \in Writing(hs, v) /\ now[v[f]].file = hs[v[f]].file
    BY <1>5 DEF Writing
  <2> QED BY <1>1, <1>8, <2>1 DEF WritersApart
<1>10. Fine(d, fs, now, v)
  BY <1>6, <1>7, <1>9 DEF Fine
<1> QED BY <1>2, <1>10

(* Nobody has a handle that is free.                                       *)
LEMMA FreeHandle ==
  ASSUME NEW d, NEW fs, NEW hs, NEW v, FileTypes(d, fs, hs, v),
         NEW h \in Handles, hs[h] = NoHandle, NEW f \in Vars
  PROVE  v[f] # h
<1>1. h # 0 /\ NoHandle.file \notin Files
  BY Blank, FileAssumption DEF Handles, Files
<1> QED BY <1>1, Held

(* A variable gets a handle of its own.                                    *)
LEMMA OpenedFine ==
  ASSUME Fine(dir, files, handles, var),
         NEW d \in [Names -> 0..MaxFiles], NEW f \in Vars, NEW n \in Files,
         NEW h \in Handles, handles[h] = NoHandle,
         NEW fs \in [Files -> FileType], HasLines(fs[n]), \A m \in Files \ {n} : fs[m] = files[m],
         fs[n] = files[n] \/ ~InUse(n, FALSE),
         NEW new \in HandleType, new.file = n,
         f \in InVars => new.pos = 0 /\ new.buf = <<>> /\ new.got = <<>>,
         f \notin InVars => new.pos = Len(fs[n].text) /\ ~InUse(n, TRUE)
  PROVE  Fine(d, fs, [handles EXCEPT ![h] = new], Store(f, h))
<1>1. FileTypes(dir, files, handles, var) /\ WritersApart(files, handles, var)
  BY DEF Fine
<1>2. PICK hs, v : hs = [handles EXCEPT ![h] = new] /\ v = Store(f, h)
  OBVIOUS
<1>3. /\ hs \in [Handles -> HandleType] /\ hs[h] = new
      /\ v \in [Vars -> 0..MaxHandles] /\ v[f] = h
      /\ \A g \in Vars : g # f => v[g] = var[g]
  <2>1. h \in 0..MaxHandles
    BY FileAssumption DEF Handles
  <2> QED BY <1>1, <1>2, <2>1 DEF FileTypes, Store
<1>4. ASSUME NEW g \in Vars, g # f, v[g] # 0
      PROVE  /\ v[g] = var[g] /\ v[g] \in Handles /\ v[g] # h /\ hs[v[g]] = handles[v[g]]
             /\ handles[v[g]].file \in Files
  <2>1. v[g] = var[g] /\ v[g] \in Handles /\ handles[v[g]].file \in Files
    BY <1>1, <1>3, <1>4, Held
  <2>2. v[g] # h
    BY <1>1, <2>1, FreeHandle
  <2> QED BY <1>1, <1>2, <2>1, <2>2 DEF FileTypes
<1>5. FileTypes(d, fs, hs, v)
  <2>1. \A g \in Vars : v[g] # 0 => hs[v[g]].file \in Files
    BY <1>3, <1>4
  <2> QED BY <1>3, <2>1 DEF FileTypes
<1>6. ASSUME NEW m \in Files PROVE HasLines(fs[m])
  BY DEF Fine
<1>7. ASSUME NEW g \in Reading(hs, v) PROVE Follows(hs[v[g]], fs[hs[v[g]].file])
  <2>1. g \in InVars /\ g \in Vars /\ v[g] # 0 /\ hs[v[g]].open
    BY DEF Reading, Vars
  <2>2. CASE g = f
    <3>1. fs[n] \in FileType /\ v[g] = h /\ new.pos = 0 /\ new.buf = <<>> /\ new.got = <<>>
      BY <1>3, <2>1, <2>2
    <3>2. Follows(new, fs[n])
      BY <3>1, NewFollows
    <3> QED BY <1>3, <3>1, <3>2
  <2>3. CASE g # f
    <3>1. g \in Reading(handles, var) /\ hs[v[g]] = handles[var[g]] /\ v[g] = var[g]
      BY <1>4, <2>1, <2>3 DEF Reading
    <3>2. Follows(handles[var[g]], files[handles[var[g]].file])
      BY <3>1 DEF Fine
    <3>3. handles[var[g]].file = n => fs[n] = files[n]
      BY <2>1, <3>1 DEF InUse, IsOpen, Handle
    <3>4. fs[handles[var[g]].file] = files[handles[var[g]].file]
      BY <1>4, <2>1, <2>3, <3>1, <3>3
    <3> QED BY <3>1, <3>2, <3>4
  <2> QED BY <2>2, <2>3
<1>8. ASSUME NEW g \in Writing(hs, v), g # f
      PROVE  /\ g \in Writing(handles, var) /\ v[g] = var[g] /\ hs[v[g]] = handles[var[g]]
             /\ fs[handles[var[g]].file] = files[handles[var[g]].file]
             /\ f \notin InVars => handles[var[g]].file # n
  <2>1. g \in Vars \ InVars /\ v[g] # 0 /\ hs[v[g]].open
    BY DEF Writing
  <2>2. v[g] = var[g] /\ hs[v[g]] = handles[var[g]] /\ handles[var[g]].file \in Files
    BY <1>4, <1>8, <2>1
  <2>3. handles[var[g]].file = n => InUse(n, TRUE) /\ InUse(n, FALSE)
    BY <2>1, <2>2 DEF InUse, IsOpen, Handle
  <2> QED BY <2>1, <2>2, <2>3 DEF Writing
<1>9. WritersApart(fs, hs, v)
  <2>1. ASSUME NEW g \in Writing(hs, v) PROVE hs[v[g]].pos = Len(fs[hs[v[g]].file].text)
    <3>1. CASE g = f
      BY <1>3, <3>1 DEF Writing
    <3>2. CASE g # f
      BY <1>1, <1>8, <3>2 DEF WritersApart
    <3> QED BY <3>1, <3>2
  <2>2. ASSUME NEW a \in Writing(hs, v), NEW b \in Writing(hs, v), hs[v[a]].file = hs[v[b]].file
        PROVE  v[a] = v[b]
    <3>1. CASE a # f /\ b # f
      BY <1>1, <1>8, <2>2, <3>1 DEF WritersApart
    <3>2. CASE a = f \/ b = f
      BY <1>3, <1>8, <2>2, <3>2 DEF Writing
    <3> QED BY <3>1, <3>2
  <2>3. ASSUME NEW a \in InVars, NEW b \in Vars \ InVars, v[a] # 0 PROVE v[a] # v[b]
    <3>1. a \in Vars /\ a # b
      BY DEF Vars
    <3>2. CASE a # f /\ b # f
      BY <1>1, <1>3, <2>3, <3>1, <3>2 DEF WritersApart
    <3>3. CASE a = f
      BY <1>3, <1>4, <2>3, <3>1, <3>3
    <3>4. CASE b = f
      BY <1>3, <1>4, <2>3, <3>1, <3>4
    <3> QED BY <3>2, <3>3, <3>4
  <2> QED BY <2>1, <2>2, <2>3 DEF WritersApart
<1>10. Fine(d, fs, hs, v)
  BY <1>5, <1>6, <1>7, <1>9 DEF Fine
<1> QED BY <1>2, <1>10
-----------------------------------------------------------------------------
(* The steps.  A statement that only takes variables away, or that ends    *)
(* the program.                                                            *)
LEMMA FailKeeps ==
  ASSUME FileInv, NEW msg, NEW isOpen, Panics(msg, isOpen)
  PROVE  FileInv'
<1> DEFINE none == [f \in Vars |-> 0]
<1>1. Fine(dir, files, handles, var) /\ FileTypes(dir, files, handles, var)
  BY DEF FileInv, Fine
<1>2. dir \in [Names -> 0..MaxFiles] /\ none \in [Vars -> 0..MaxHandles]
      /\ \A f \in Vars : none[f] = 0
  BY <1>1, FileAssumption DEF FileTypes
<1>3. Settle(dir, files, handles, none)
  BY DEF Panics
<1> HIDE DEF none
<1>4. Fine(dir, files, handles, none)
  BY <1>1, <1>2, Fewer
<1> QED BY <1>3, <1>4, SettleKeeps

(* An Open statement, of a file that is made, emptied, or left as it is.   *)
LEMMA OpenKeeps ==
  ASSUME FileInv, NEW d \in [Names -> 0..MaxFiles], NEW f \in Vars, NEW n \in Files,
         NEW fs \in [Files -> FileType], HasLines(fs[n]), \A m \in Files \ {n} : fs[m] = files[m],
         fs[n] = files[n] \/ ~InUse(n, FALSE),
         NEW pos \in Nat, f \in InVars => pos = 0,
         f \notin InVars => pos = Len(fs[n].text) /\ ~InUse(n, TRUE),
         Opened(f, d, fs, n, pos)
  PROVE  FileInv'
<1> DEFINE new == [NoHandle EXCEPT !.file = n, !.open = TRUE, !.pos = pos]
<1>1. PICK h \in Handles :
        /\ handles[h] = NoHandle
        /\ Settle(d, fs, [handles EXCEPT ![h] = new], Store(f, h))
  BY DEF Opened
<1>2. /\ new \in HandleType /\ new.file = n /\ new.pos = pos
      /\ new.buf = <<>> /\ new.got = <<>>
  <2>1. NoHandle \in HandleType /\ n \in 0..MaxFiles
    BY Blank, FileAssumption DEF Files
  <2> QED BY <2>1 DEF NoHandle, HandleType
<1> HIDE DEF new
<1>3. Fine(dir, files, handles, var)
  BY DEF FileInv
<1>4. Fine(d, fs, [handles EXCEPT ![h] = new], Store(f, h))
  BY <1>1, <1>2, <1>3, OpenedFine
<1> QED BY <1>1, <1>4, SettleKeeps

(* A new file is empty, and nobody has it open.                            *)
LEMMA CreateKeeps ==
  ASSUME FileInv, NEW f \in Vars, NEW name \in Names, Created(f, name)
  PROVE  FileInv'
<1>1. PICK n \in Files :
        /\ \A other \in Names : dir[other] # n
        /\ \A h \in Handles : handles[h].file # n
        /\ Opened(f, [dir EXCEPT ![name] = n], files, n, 0)
  BY DEF Created
<1>2. FileTypes(dir, files, handles, var)
  BY DEF FileInv, Fine
<1>3. [dir EXCEPT ![name] = n] \in [Names -> 0..MaxFiles] /\ files \in [Files -> FileType]
  <2>1. n \in 0..MaxFiles
    BY FileAssumption DEF Files
  <2> QED BY <1>2, <2>1 DEF FileTypes
<1>4. files[n] = NoFile /\ HasLines(files[n]) /\ Len(files[n].text) = 0
  <2>1. files[n] = NoFile
    BY <1>1 DEF FileInv
  <2> QED BY <2>1, Blank, EmptySeq
<1>5. ~InUse(n, FALSE) /\ ~InUse(n, TRUE)
  <2>1. \A g \in Vars : var[g] # 0 => var[g] \in Handles
    BY <1>2, Held
  <2> QED BY <1>1, <2>1 DEF InUse, IsOpen, Handle
<1> DEFINE d == [dir EXCEPT ![name] = n]
<1>6. d \in [Names -> 0..MaxFiles] /\ Opened(f, d, files, n, 0)
  BY <1>1, <1>3
<1>7. PICK start \in Nat : start = 0
  OBVIOUS
<1> HIDE DEF d
<1> QED BY <1>3, <1>4, <1>5, <1>6, <1>7, OpenKeeps

(* The file that a name stands for.                                        *)
LEMMA Named ==
  ASSUME FileInv, NEW name \in Names, dir[name] # 0
  PROVE  /\ dir \in [Names -> 0..MaxFiles] /\ dir[name] \in Files
         /\ files \in [Files -> FileType] /\ HasLines(files[dir[name]])
         /\ Len(files[dir[name]].text) \in Nat
<1>1. FileTypes(dir, files, handles, var)
  BY DEF FileInv, Fine
<1>2. dir \in [Names -> 0..MaxFiles] /\ dir[name] \in Files /\ files \in [Files -> FileType]
  BY <1>1, FileAssumption DEF FileTypes, Files
<1>3. HasLines(files[dir[name]])
  BY <1>2 DEF FileInv, Fine
<1>4. Len(files[dir[name]].text) \in Nat
  <2>1. files[dir[name]].text \in Seq(Fields)
    BY <1>2 DEF FileType
  <2> QED BY <2>1, LenProperties
<1> QED BY <1>2, <1>3, <1>4

(* OpenOutputFile() makes or empties a file ...                            *)
LEMMA OpenOutputKeeps ==
  ASSUME FileInv, NEW f \in Vars, NEW name \in Names, OpenOutputFile(f, name)
  PROVE  FileInv'
<1>1. f \in OutVars /\ f \notin InVars
  BY FileAssumption DEF OpenOutputFile
<1>2. CASE dir[name] = 0
  BY <1>2, CreateKeeps DEF OpenOutputFile
<1>3. CASE dir[name] # 0
  <2> DEFINE n  == dir[name]
             fs == [files EXCEPT ![n] = NoFile]
  <2>1. ~InUse(n, FALSE) /\ Opened(f, dir, fs, n, 0)
    BY <1>3 DEF OpenOutputFile
  <2>2. ~InUse(n, TRUE)
    BY <2>1 DEF InUse
  <2>3. dir \in [Names -> 0..MaxFiles] /\ n \in Files /\ files \in [Files -> FileType]
    BY <1>3, Named
  <2>4. /\ fs \in [Files -> FileType] /\ fs[n] = NoFile /\ HasLines(fs[n])
        /\ \A m \in Files \ {n} : fs[m] = files[m]
    <3> HIDE DEF n
    <3> QED BY <2>3, Blank
  <2>5. Len(fs[n].text) = 0
    BY <2>4, Blank, EmptySeq
  <2>6. PICK start \in Nat : start = 0
    OBVIOUS
  <2> HIDE DEF n, fs
  <2> QED BY <1>1, <2>1, <2>2, <2>3, <2>4, <2>5, <2>6, OpenKeeps
<1> QED BY <1>2, <1>3

(* ... OpenAppendFile() makes one, or goes to its end ...                  *)
LEMMA OpenAppendKeeps ==
  ASSUME FileInv, NEW f \in Vars, NEW name \in Names, OpenAppendFile(f, name)
  PROVE  FileInv'
<1>1. f \in AppVars /\ f \notin InVars
  BY FileAssumption DEF OpenAppendFile
<1>2. CASE dir[name] = 0
  BY <1>2, CreateKeeps DEF OpenAppendFile
<1>3. CASE dir[name] # 0
  <2> DEFINE n   == dir[name]
             pos == Len(files[n].text)
  <2>1. ~InUse(n, TRUE) /\ Opened(f, dir, files, n, pos)
    BY <1>3 DEF OpenAppendFile
  <2>2. dir \in [Names -> 0..MaxFiles] /\ n \in Files /\ files \in [Files -> FileType]
        /\ HasLines(files[n]) /\ pos \in Nat /\ pos = Len(files[n].text)
    BY <1>3, Named
  <2> HIDE DEF n, pos
  <2> QED BY <1>1, <2>1, <2>2, OpenKeeps
<1> QED BY <1>2, <1>3

(* ... and OpenInputFile() starts at its beginning.                        *)
LEMMA OpenInputKeeps ==
  ASSUME FileInv, NEW f \in Vars, NEW name \in Names, OpenInputFile(f, name)
  PROVE  FileInv'
<1>1. f \in InVars
  BY DEF OpenInputFile
<1>2. CASE dir[name] = 0
  BY <1>2, FailKeeps DEF OpenInputFile, Fails
<1>3. CASE dir[name] # 0
  <2> DEFINE n == dir[name]
  <2>1. Opened(f, dir, files, n, 0)
    BY <1>3 DEF OpenInputFile
  <2>2. dir \in [Names -> 0..MaxFiles] /\ n \in Files /\ files \in [Files -> FileType]
        /\ HasLines(files[n])
    BY <1>3, Named
  <2>3. PICK start \in Nat : start = 0
    OBVIOUS
  <2> HIDE DEF n
  <2> QED BY <1>1, <2>1, <2>2, <2>3, OpenKeeps
<1> QED BY <1>2, <1>3
(* A statement that only changes a handle.                                 *)
LEMMA ChangeKeeps ==
  ASSUME FileInv, NEW f \in Vars, var[f] # 0, NEW new \in HandleType,
         new.file = Handle(f).file, new.open => Handle(f).open,
         f \in InVars /\ new.open => Follows(new, files[new.file]),
         f \notin InVars => ~new.open
  PROVE  Fine(dir, files, [handles EXCEPT ![var[f]] = new], var)
<1>1. Fine(dir, files, handles, var) /\ FileTypes(dir, files, handles, var)
      /\ WritersApart(files, handles, var)
  BY DEF FileInv, Fine
<1>2. var[f] \in Handles
  BY <1>1, Held
<1>3. \A g \in InVars : var[g] = var[f] /\ new.open => Follows(new, files[new.file])
  BY DEF Handle
<1>4. \A g \in Vars \ InVars : ~(var[g] = var[f] /\ new.open)
  BY <1>1 DEF WritersApart
<1> QED BY <1>1, <1>2, <1>3, <1>4, Changed DEF Handle

(* A closed handle neither reads nor writes.                               *)
LEMMA CloseKeeps ==
  ASSUME FileInv, NEW f \in Vars, Close(f)
  PROVE  FileInv'
<1>1. CASE ~IsOpen(f) \/ ~Handle(f).open
  <2>1. \E msg : Fails(f, msg)
    BY <1>1 DEF Close
  <2> QED BY <2>1, FailKeeps DEF Fails
<1>2. CASE IsOpen(f) /\ Handle(f).open
  <2> DEFINE new == [Handle(f) EXCEPT !.open = FALSE]
  <2>1. var[f] # 0
    BY <1>2 DEF IsOpen
  <2>2. Settle(dir, files, [handles EXCEPT ![var[f]] = new], var)
    BY <1>2 DEF Close, Handle
  <2>3. Handle(f) \in HandleType
    BY <2>1, Held DEF FileInv, Fine, Handle
  <2>4. new \in HandleType /\ new.file = Handle(f).file /\ ~new.open
    BY <2>3 DEF HandleType
  <2> HIDE DEF new
  <2>5. Fine(dir, files, [handles EXCEPT ![var[f]] = new], var)
    BY <2>1, <2>4, ChangeKeeps
  <2> QED BY <2>2, <2>5, SettleKeeps
<1> QED BY <1>1, <1>2

(* What a reader has.                                                      *)
LEMMA Reader ==
  ASSUME FileInv, NEW f \in InVars, var[f] # 0
  PROVE  /\ f \in Vars /\ var[f] \in Handles /\ Handle(f) \in HandleType
         /\ files[Handle(f).file] \in FileType /\ HasLines(files[Handle(f).file])
         /\ Handle(f).open => Follows(Handle(f), files[Handle(f).file])
<1>1. f \in Vars /\ FileTypes(dir, files, handles, var)
  BY DEF FileInv, Fine, Vars
<1>2. var[f] \in Handles /\ Handle(f) \in HandleType /\ Handle(f).file \in Files
      /\ files[Handle(f).file] \in FileType
  BY <1>1, Held DEF Handle
<1>3. HasLines(files[Handle(f).file])
  BY <1>2 DEF FileInv, Fine
<1>4. Handle(f).open => f \in Reading(handles, var)
  BY DEF Reading, Handle
<1>5. Handle(f).open => Follows(Handle(f), files[Handle(f).file])
  BY <1>4 DEF FileInv, Fine, Handle
<1> QED BY <1>1, <1>2, <1>3, <1>5

(* A Read statement takes a record off what is before the reader.          *)
LEMMA ReadKeeps ==
  ASSUME FileInv, NEW f \in Vars, NEW types \in Shapes, Read(f, types)
  PROVE  FileInv'
<1> DEFINE r   == ReadRecord(Handle(f), types)
           new == [r.h EXCEPT !.got = Append(@, r.vals)]
<1>1. f \in InVars /\ var[f] # 0
  BY DEF Read, IsOpen
<1>2. CASE ~r.ok
  BY <1>2, FailKeeps DEF Read, Fails
<1>3. CASE r.ok
  <2>1. Settle(dir, files, [handles EXCEPT ![var[f]] = new], var)
    BY <1>3 DEF Read
  <2>2. /\ new \in HandleType /\ new.file = Handle(f).file /\ new.open = Handle(f).open
        /\ Handle(f).open => Follows(new, files[Handle(f).file])
    BY <1>1, <1>3, Reader, ReadFollows
  <2> HIDE DEF new
  <2>3. Fine(dir, files, [handles EXCEPT ![var[f]] = new], var)
    BY <1>1, <2>2, ChangeKeeps
  <2> QED BY <2>1, <2>3, SettleKeeps
<1> QED BY <1>2, <1>3

(* eof() moves what is before the reader into its buffer.                  *)
LEMMA EofKeeps ==
  ASSUME FileInv, NEW f \in Vars, Eof(f)
  PROVE  FileInv'
<1>1. f \in InVars
  BY DEF Eof
<1>2. CASE ~IsOpen(f)
  BY <1>2, FailKeeps DEF Eof, Fails
<1>3. CASE IsOpen(f)
  <2>1. var[f] # 0
    BY <1>3 DEF IsOpen
  <2>2. PICK new : new = Peek(Handle(f))
    OBVIOUS
  <2>3. /\ handles' = [handles EXCEPT ![var[f]] = new]
        /\ dir' = dir /\ files' = files /\ var' = var
    BY <1>3, <2>2 DEF Eof, Handle
  <2>4. /\ var[f] \in Handles
        /\ new \in HandleType /\ new.file = Handle(f).file /\ new.open = Handle(f).open
        /\ Handle(f).open => Follows(new, files[Handle(f).file])
    BY <1>1, <2>1, <2>2, Reader, PeekFollows
  <2>5. Fine(dir, files, handles', var)
    BY <1>1, <2>1, <2>3, <2>4, ChangeKeeps
  <2>6. handles \in [Handles -> HandleType]
    BY DEF FileInv, Fine, FileTypes
  <2>7. \A h \in Handles : handles'[h].file = handles[h].file
    BY <2>3, <2>4, <2>6 DEF Handle
  <2>8. \A n \in Files :
          (\A name \in Names : dir[name] # n) /\ (\A h \in Handles : handles[h].file # n)
            => files[n] = NoFile
    BY DEF FileInv
  <2> QED BY <2>3, <2>5, <2>7, <2>8 DEF FileInv
<1> QED BY <1>2, <1>3

(* A record goes behind all others: the writer is at the end of its file,  *)
(* and nobody else writes it.                                              *)
LEMMA WriteKeeps ==
  ASSUME FileInv, NEW f \in Vars, NEW rec \in Records, Write(f, rec)
  PROVE  FileInv'
<1> DEFINE k   == var[f]
           n   == handles[k].file
           fs  == [files EXCEPT ![n] = Written(files[n], rec)]
           new == [handles[k] EXCEPT !.pos = @ + Len(Line(rec))]
           hs  == [handles EXCEPT ![k] = new]
<1>1. f \in Vars \ InVars /\ var[f] # 0 /\ handles[k].open
  BY DEF Write, IsOpen, Handle
<1>2. Settle(dir, fs, hs, var)
  BY DEF Write, Handle, Written
<1>3. FileTypes(dir, files, handles, var) /\ WritersApart(files, handles, var)
      /\ \A m \in Files : HasLines(files[m])
  BY DEF FileInv, Fine
<1>4. k \in Handles /\ handles[k] \in HandleType /\ n \in Files /\ files[n] \in FileType
      /\ HasLines(files[n])
  BY <1>1, <1>3, Held
<1>5. f \in Writing(handles, var) /\ handles[k].pos = Len(files[n].text)
  BY <1>1, <1>3 DEF Writing, WritersApart
<1>6. /\ Written(files[n], rec) \in FileType /\ HasLines(Written(files[n], rec))
      /\ Len(Written(files[n], rec).text) = Len(files[n].text) + Len(Line(rec))
      /\ Len(Line(rec)) \in Nat /\ Len(files[n].text) \in Nat
      /\ \A h \in HandleType : Follows(h, files[n]) => Follows(h, Written(files[n], rec))
  BY <1>4, WriteFollows
<1>7. /\ new \in HandleType /\ new.file = n /\ new.open
      /\ new.pos = Len(Written(files[n], rec).text)
  <2>1. PICK old : old = handles[k]
    OBVIOUS
  <2>2. PICK more \in Nat : more = Len(Line(rec))
    BY <1>6
  <2>3. new = [old EXCEPT !.pos = old.pos + more] /\ old \in HandleType /\ old.pos \in Nat
    BY <1>4, <2>1, <2>2 DEF HandleType
  <2>4. new.file = old.file /\ new.open = old.open /\ new.pos = old.pos + more
        /\ new \in HandleType
    <3> HIDE DEF new
    <3> QED BY <2>3 DEF HandleType
  <2>5. new.file = n /\ new.open /\ old.pos = Len(files[n].text)
    BY <1>1, <1>5, <2>1, <2>4
  <2> HIDE DEF new, n
  <2> QED BY <1>6, <2>2, <2>4, <2>5
<1>8. fs \in [Files -> FileType] /\ fs[n] = Written(files[n], rec)
      /\ \A m \in Files : m # n => fs[m] = files[m]
  <2>1. files \in [Files -> FileType]
    BY <1>3 DEF FileTypes
  <2> HIDE DEF n
  <2> QED BY <1>4, <1>6, <2>1
<1>9. /\ hs \in [Handles -> HandleType] /\ hs[k] = new
      /\ \A h \in Handles : h # k => hs[h] = handles[h]
  <2>1. handles \in [Handles -> HandleType]
    BY <1>3 DEF FileTypes
  <2> HIDE DEF k, new
  <2> QED BY <1>4, <1>7, <2>1
<1> HIDE DEF fs, hs, new
<1>10. \A g \in Vars : var[g] # 0 =>
         /\ var[g] \in Handles /\ hs[var[g]].file = handles[var[g]].file
         /\ (hs[var[g]].open <=> handles[var[g]].open) /\ handles[var[g]].file \in Files
         /\ handles[var[g]] \in HandleType
  BY <1>1, <1>3, <1>7, <1>9, Held
<1> HIDE DEF k, n
<1>11. FileTypes(dir, fs, hs, var)
  BY <1>3, <1>8, <1>9, <1>10 DEF FileTypes
<1>12. \A m \in Files : HasLines(fs[m])
  BY <1>3, <1>6, <1>8
<1>13. ASSUME NEW g \in Reading(hs, var) PROVE Follows(hs[var[g]], fs[hs[var[g]].file])
  <2>1. g \in InVars /\ g \in Vars /\ var[g] # 0
    BY DEF Reading, Vars
  <2>2. var[g] # k
    BY <1>1, <1>3, <2>1 DEF WritersApart, k
  <2>3. hs[var[g]] = handles[var[g]] /\ g \in Reading(handles, var)
    BY <1>9, <1>10, <2>1, <2>2 DEF Reading
  <2>4. Follows(handles[var[g]], files[handles[var[g]].file])
    BY <2>3 DEF FileInv, Fine
  <2> QED BY <1>6, <1>8, <1>10, <2>1, <2>3, <2>4
<1>14. Writing(hs, var) = Writing(handles, var)
  BY <1>10 DEF Writing
<1>15. ASSUME NEW g \in Writing(hs, var) PROVE hs[var[g]].pos = Len(fs[hs[var[g]].file].text)
  <2>1. g \in Writing(handles, var) /\ g \in Vars /\ var[g] # 0
    BY <1>14 DEF Writing
  <2>2. CASE var[g] = k
    BY <1>7, <1>8, <1>9, <2>2
  <2>3. CASE var[g] # k
    <3>1. handles[var[g]].file # n
      BY <1>3, <1>5, <2>1, <2>3 DEF WritersApart, k, n
    <3>2. hs[var[g]] = handles[var[g]] /\ fs[handles[var[g]].file] = files[handles[var[g]].file]
      BY <1>8, <1>9, <1>10, <2>1, <2>3, <3>1
    <3> QED BY <1>3, <2>1, <3>2 DEF WritersApart
  <2> QED BY <2>2, <2>3
<1>16. WritersApart(fs, hs, var)
  <2>1. \A g \in Writing(hs, var) : hs[var[g]].file = handles[var[g]].file
    BY <1>10 DEF Writing
  <2> QED BY <1>3, <1>14, <1>15, <2>1 DEF WritersApart
<1>17. Fine(dir, fs, hs, var)
  BY <1>11, <1>12, <1>13, <1>16 DEF Fine
<1> QED BY <1>2, <1>17, SettleKeeps
(* Names come and go ...                                                   *)
LEMMA NamesKeep ==
  ASSUME FileInv, NEW d \in [Names -> 0..MaxFiles], Settle(d, files, handles, var)
  PROVE  FileInv'
<1>1. Fine(dir, files, handles, var) /\ var \in [Vars -> 0..MaxHandles]
  BY DEF FileInv, Fine, FileTypes
<1>2. Fine(d, files, handles, var)
  BY <1>1, Fewer
<1> QED BY <1>2, SettleKeeps

(* A name goes.                                                            *)
LEMMA DeleteKeeps ==
  ASSUME FileInv, NEW name \in Names, DeleteFile(name)
  PROVE  FileInv'
<1>1. CASE dir[name] = 0
  BY <1>1, FailKeeps DEF DeleteFile
<1>2. CASE dir[name] # 0
  <2>1. PICK d : d = [dir EXCEPT ![name] = 0]
    OBVIOUS
  <2>2. d \in [Names -> 0..MaxFiles]
    BY <2>1, FileAssumption DEF FileInv, Fine, FileTypes
  <2>3. Settle(d, files, handles, var)
    BY <1>2, <2>1 DEF DeleteFile
  <2> QED BY <2>2, <2>3, NamesKeep
<1> QED BY <1>1, <1>2

(* A name stands for the file of another.                                  *)
LEMMA RenameKeeps ==
  ASSUME FileInv, NEW old \in Names, NEW new \in Names, RenameFile(old, new)
  PROVE  FileInv'
<1>1. CASE dir[old] = 0
  BY <1>1, FailKeeps DEF RenameFile
<1>2. CASE dir[old] # 0
  <2>1. PICK d : d = [dir EXCEPT ![new] = dir[old], ![old] = 0]
    OBVIOUS
  <2>2. d \in [Names -> 0..MaxFiles]
    BY <2>1, FileAssumption DEF FileInv, Fine, FileTypes
  <2>3. Settle(d, files, handles, var)
    BY <1>2, <2>1 DEF RenameFile
  <2> QED BY <2>2, <2>3, NamesKeep
<1> QED BY <1>1, <1>2

(* ... and so do the handles of the variables.                             *)
LEMMA AssignKeeps ==
  ASSUME FileInv, NEW f \in Vars, NEW g \in Vars, Assign(f, g)
  PROVE  FileInv'
<1>1. f \in InVars <=> g \in InVars
  BY FileAssumption DEF Assign
<1>2. Fine(dir, files, handles, var) /\ var \in [Vars -> 0..MaxHandles]
      /\ dir \in [Names -> 0..MaxFiles]
  BY DEF FileInv, Fine, FileTypes
<1>3. PICK v : v = [var EXCEPT ![f] = var[g]]
  OBVIOUS
<1>4. v \in [Vars -> 0..MaxHandles] /\ v[f] = var[g] /\ \A k \in Vars : k # f => v[k] = var[k]
  BY <1>2, <1>3
<1>5. \A k \in Vars : \E l \in Vars : v[k] = var[l] /\ (k \in InVars <=> l \in InVars)
  BY <1>1, <1>4
<1>6. Settle(dir, files, handles, v)
  BY <1>3 DEF Assign
<1>7. Fine(dir, files, handles, v)
  BY <1>2, <1>4, <1>5, Fewer
<1> QED BY <1>6, <1>7, SettleKeeps

(* A variable that is declared anew holds nothing.                         *)
LEMMA DeclareKeeps ==
  ASSUME FileInv, NEW f \in Vars, Declare(f)
  PROVE  FileInv'
<1>1. Fine(dir, files, handles, var) /\ var \in [Vars -> 0..MaxHandles]
      /\ dir \in [Names -> 0..MaxFiles]
  BY DEF FileInv, Fine, FileTypes
<1>2. PICK v : v = [var EXCEPT ![f] = 0]
  OBVIOUS
<1>3. v \in [Vars -> 0..MaxHandles] /\ v[f] = 0 /\ \A k \in Vars : k # f => v[k] = var[k]
  BY <1>1, <1>2, FileAssumption
<1>4. Settle(dir, files, handles, v)
  BY <1>2 DEF Declare
<1>5. Fine(dir, files, handles, v)
  BY <1>1, <1>3, Fewer
<1> QED BY <1>4, <1>5, SettleKeeps

(* A disk without files, and a program that has opened none.               *)
LEMMA InitKeeps == Init => FileInv
<1> SUFFICES ASSUME Init PROVE FileInv
  OBVIOUS
<1>1. /\ dir = [name \in Names |-> 0] /\ files = [n \in Files |-> NoFile]
      /\ handles = [h \in Handles |-> NoHandle] /\ var = [f \in Vars |-> 0]
  BY DEF Init
<1>2. FileTypes(dir, files, handles, var)
  BY <1>1, Blank, FileAssumption DEF FileTypes
<1>3. Reading(handles, var) = {} /\ Writing(handles, var) = {}
  BY <1>1 DEF Reading, Writing, Vars
<1>4. WritersApart(files, handles, var)
  BY <1>1, <1>3 DEF WritersApart, Vars
<1> QED BY <1>1, <1>2, <1>3, <1>4, Blank DEF FileInv, Fine

(* Every statement keeps the invariant.                                    *)
LEMMA NextKeeps == FileInv /\ [Next]_vars => FileInv'
<1> SUFFICES ASSUME FileInv, [Next]_vars PROVE FileInv'
  OBVIOUS
<1>1. ASSUME NEW f \in Vars, NEW name \in Names,
             OpenOutputFile(f, name) \/ OpenAppendFile(f, name) \/ OpenInputFile(f, name)
      PROVE  FileInv'
  BY <1>1, OpenOutputKeeps, OpenAppendKeeps, OpenInputKeeps
<1>2. ASSUME NEW f \in Vars, OpenAgain(f) \/ WriteFails(f) \/ ReadFails(f)
      PROVE  FileInv'
  <2>1. \E msg : Fails(f, msg)
    BY <1>2 DEF OpenAgain, WriteFails, ReadFails
  <2> QED BY <2>1, FailKeeps DEF Fails
<1>3. ASSUME NEW f \in Vars, Close(f) \/ Eof(f) \/ Declare(f)
      PROVE  FileInv'
  BY <1>3, CloseKeeps, EofKeeps, DeclareKeeps
<1>4. ASSUME NEW f \in Vars, NEW rec \in Records, Write(f, rec)
      PROVE  FileInv'
  BY <1>4, WriteKeeps
<1>5. ASSUME NEW f \in Vars, NEW types \in Shapes, Read(f, types)
      PROVE  FileInv'
  BY <1>5, ReadKeeps
<1>6. ASSUME NEW name \in Names, DeleteFile(name)
      PROVE  FileInv'
  BY <1>6, DeleteKeeps
<1>7. ASSUME NEW old \in Names, NEW new \in Names, RenameFile(old, new)
      PROVE  FileInv'
  BY <1>7, RenameKeeps
<1>8. ASSUME NEW f \in Vars, NEW g \in Vars, Assign(f, g)
      PROVE  FileInv'
  BY <1>8, AssignKeeps
<1>9. ASSUME RunAgain
      PROVE  FileInv'
  BY <1>9, SettleKeeps DEF RunAgain, FileInv
<1>10. ASSUME UNCHANGED vars
       PROVE  FileInv'
  BY <1>10 DEF vars, FileInv
<1> QED BY <1>1, <1>2, <1>3, <1>4, <1>5, <1>6, <1>7, <1>8, <1>9, <1>10 DEF Next

(* Whatever a program does with its files, however many files, variables   *)
(* and records there are: files hold the lines of the records written to   *)
(* them, readers are between two records, writers at the end.              *)
THEOREM FilesInvariant == Spec => []FileInv
<1> QED BY InitKeeps, NextKeeps, PTL DEF Spec

(* What a Read statement gets is what was written there (README.md:190).   *)
THEOREM ReadersReadBack == Spec => []ReadsBack
<1>1. FileInv => ReadsBack
  <2> SUFFICES ASSUME FileInv, NEW f \in InVars, var[f] # 0, Handle(f).open,
                      NEW n \in DOMAIN Handle(f).got
               PROVE  IsRead(Handle(f).got[n], files[Handle(f).file].records[n])
    BY DEF ReadsBack, IsOpen
  <2>1. Handle(f) \in HandleType /\ Follows(Handle(f), files[Handle(f).file])
    BY Reader
  <2>2. DOMAIN Handle(f).got = 1..Len(Handle(f).got)
    <3>1. Handle(f).got \in Seq(Seq(Values))
      BY <2>1 DEF HandleType
    <3> QED BY <3>1, LenProperties
  <2> QED BY <2>1, <2>2 DEF Follows
<1> QED BY <1>1, FilesInvariant, PTL

(* What a reader has before it.                                            *)
LEMMA BeforeReader ==
  ASSUME FileInv, NEW f \in InVars, var[f] # 0, Handle(f).open
  PROVE  LET h    == Handle(f)
             recs == files[h.file].records
         IN  /\ h \in HandleType /\ recs \in Seq(Records) /\ Len(h.got) <= Len(recs)
             /\ files[h.file].text \in Seq(Fields) /\ h.pos <= Len(files[h.file].text)
             /\ Ahead(h) = Lines(Left(h, recs)) /\ Fill(h).buf = Lines(Left(h, recs))
<1>1. /\ Handle(f) \in HandleType /\ files[Handle(f).file] \in FileType
      /\ Follows(Handle(f), files[Handle(f).file])
  BY Reader
<1>2. /\ files[Handle(f).file].text \in Seq(Fields)
      /\ files[Handle(f).file].records \in Seq(Records)
  BY <1>1 DEF FileType
<1>3. /\ Handle(f).pos <= Len(files[Handle(f).file].text)
      /\ Len(Handle(f).got) <= Len(files[Handle(f).file].records)
      /\ Ahead(Handle(f)) = Lines(Left(Handle(f), files[Handle(f).file].records))
  BY <1>1 DEF Follows, Ahead
<1>4. Fill(Handle(f)).buf = Ahead(Handle(f))
  BY <1>1, <1>2, <1>3, FillIs
<1> QED BY <1>1, <1>2, <1>3, <1>4

(* A reader is never in the middle of a record.                            *)
THEOREM ReadersAtRecord == Spec => []AtRecord
<1>1. FileInv => AtRecord
  BY BeforeReader DEF AtRecord, IsOpen
<1> QED BY <1>1, FilesInvariant, PTL

(* eof() tells whether all records have been read.                         *)
THEOREM EofTellsTheEnd == Spec => []EofIsTheEnd
<1>1. ASSUME FileInv, NEW f \in InVars, var[f] # 0
      PROVE  LET h   == Handle(f)
                 end == Len(h.got) = Len(files[h.file].records)
             IN  (IsEof(h) => end) /\ (end /\ h.open => IsEof(h))
  <2> DEFINE h    == Handle(f)
             recs == files[h.file].records
  <2>1. CASE ~h.open
    BY <2>1 DEF IsEof
  <2>2. CASE h.open
    <3>1. /\ h \in HandleType /\ recs \in Seq(Records) /\ Len(h.got) <= Len(recs)
          /\ Ahead(h) = Lines(Left(h, recs)) /\ Fill(h).buf = Lines(Left(h, recs))
          /\ files[h.file].text \in Seq(Fields) /\ h.pos <= Len(files[h.file].text)
      BY <1>1, <2>2, BeforeReader
    <3>2. Fill(h).buf = <<>> <=> Len(h.got) = Len(recs)
      BY <3>1, LeftIs
    <3>3. ASSUME Fill(h).buf = <<>> PROVE h.buf = <<>>
      <4>1. h.buf \in Seq(Fields) /\ h.pos \in Nat
        BY <3>1 DEF HandleType
      <4>2. Len(files[h.file].text) \in Nat /\ h.pos \in 0..Len(files[h.file].text)
        BY <3>1, <4>1, LenProperties
      <4>3. PICK b \in Seq(Fields) : b = Behind(files[h.file].text, h.pos)
        BY <3>1, <4>2, BehindIs
      <4>4. h.buf \o b = <<>>
        BY <3>1, <3>3, <4>3 DEF Ahead
      <4>5. Len(h.buf \o b) = Len(h.buf) + Len(b) /\ Len(h.buf) \in Nat /\ Len(b) \in Nat
        <5> HIDE DEF h
        <5> QED BY <4>1, ConcatProperties, LenProperties
      <4>6. Len(h.buf) = 0
        BY <4>4, <4>5
      <4> QED BY <4>1, <4>6, EmptySeq
    <3> QED BY <2>2, <3>2, <3>3 DEF IsEof, Peek
  <2> QED BY <2>1, <2>2
<1>2. FileInv => EofIsTheEnd
  BY <1>1 DEF EofIsTheEnd, IsOpen
<1> QED BY <1>2, FilesInvariant, PTL
=============================================================================
