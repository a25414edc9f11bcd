------------------------ MODULE ResponseParser_proofs ------------------------
(***************************************************************************)
(* Lemmas about the parser, for documents of any width and depth.          *)
(*                                                                         *)
(* Its loops and its recursion are recursive functions; what they compute  *)
(* is shown by looking at the least turn, or depth, that goes wrong.       *)
(***************************************************************************)
EXTENDS ResponseParser, FiniteSetTheorems, WellFoundedInduction, TLAPS

-----------------------------------------------------------------------------
(* Induction up to a bound, over a set of numbers.                         *)

LessThan == {p \in Nat \X Nat : p[1] < p[2]}

LEMMA LessThanWellFounded == IsWellFoundedOn(LessThan, Nat)
<1>1. OpToRel(<, Nat) = LessThan
  BY DEF OpToRel, LessThan
<1>2. QED
  BY <1>1, NatLessThanWellFounded

LEMMA UpTo ==
    ASSUME NEW n \in Nat, NEW T, 0 \in T, \A i \in 1 .. n : i - 1 \in T => i \in T
    PROVE  \A i \in 0 .. n : i \in T
<1> DEFINE Bad == {i \in 0 .. n : i \notin T}
<1> SUFFICES ASSUME Bad # {} PROVE FALSE
  OBVIOUS
<1>1. PICK i \in Bad : \A j \in Bad : <<j, i>> \notin LessThan
  <2>1. Bad \subseteq Nat
    OBVIOUS
  <2> HIDE DEF Bad
  <2>2. QED
    BY <2>1, LessThanWellFounded, WFMin
<1>2. i \in 1 .. n /\ i - 1 \in 0 .. n /\ i - 1 \in Nat /\ i \in Nat /\ i - 1 < i
  BY <1>1
<1>3. i - 1 \in T
  BY <1>1, <1>2 DEF LessThan
<1>4. QED
  BY <1>1, <1>2, <1>3

-----------------------------------------------------------------------------
(* A loop.                                                                 *)

LEMMA ForEachDefined ==
    ASSUME NEW turns, NEW catalog, Len(turns) \in Nat
    PROVE  \E after :
              /\ after = [i \in 0 .. Len(turns) |->
                             IF i = 0 THEN catalog ELSE turns[i][after[i - 1]]]
              /\ ForEach(turns, catalog) = after[Len(turns)]
<1> DEFINE n == Len(turns)
           Prefix(f, k) ==
               f = [i \in 0 .. k |-> IF i = 0 THEN catalog ELSE turns[i][f[i - 1]]]
           T == {k \in 0 .. n : \E f : Prefix(f, k)}
<1>1. 0 \in T
  <2>1. Prefix([i \in 0 .. 0 |-> catalog], 0)
    OBVIOUS
  <2> HIDE DEF Prefix
  <2>2. QED
    BY <2>1
<1>2. ASSUME NEW k \in 1 .. n, k - 1 \in T PROVE k \in T
  <2>1. PICK f : Prefix(f, k - 1)
    BY <1>2
  <2> DEFINE g == [i \in 0 .. k |-> IF i = k THEN turns[k][f[k - 1]] ELSE f[i]]
  <2>2. \A i \in 0 .. k - 1 : g[i] = f[i] /\ f[i] = IF i = 0 THEN catalog ELSE turns[i][f[i - 1]]
    <3>1. \A i \in 0 .. k - 1 : i \in 0 .. k /\ i # k
      OBVIOUS
    <3>2. \A i \in 0 .. k - 1 : g[i] = f[i]
      <4> HIDE DEF Prefix
      <4>1. QED
        BY <3>1
    <3>3. \A i \in 0 .. k - 1 : f[i] = IF i = 0 THEN catalog ELSE turns[i][f[i - 1]]
      <4> HIDE DEF g
      <4>1. QED
        BY <2>1
    <3> HIDE DEF Prefix, g
    <3>4. QED
      BY <3>2, <3>3
  <2>3. \A i \in 0 .. k : g[i] = IF i = 0 THEN catalog ELSE turns[i][g[i - 1]]
    <3>1. g[k] = turns[k][g[k - 1]] /\ k # 0
      BY <2>2
    <3>2. g[0] = catalog
      <4>1. 0 \in 0 .. k - 1
        OBVIOUS
      <4> HIDE DEF g
      <4>2. QED
        BY <2>2, <4>1
    <3>3. ASSUME NEW i \in 1 .. k - 1 PROVE g[i] = turns[i][g[i - 1]]
      <4>1. i \in 0 .. k - 1 /\ i - 1 \in 0 .. k - 1 /\ i # 0
        BY <3>3
      <4> HIDE DEF g
      <4>2. QED
        BY <2>2, <4>1
    <3>4. \A i \in 0 .. k : i = 0 \/ i = k \/ i \in 1 .. k - 1
      OBVIOUS
    <3>5. \A i \in 1 .. k - 1 : i # 0
      OBVIOUS
    <3> HIDE DEF g
    <3>6. QED
      BY <3>1, <3>2, <3>3, <3>4, <3>5
  <2>4. Prefix(g, k)
    BY <2>3
  <2> HIDE DEF Prefix, g
  <2>5. QED
    BY <2>4
<1>3. \E f : Prefix(f, n)
  <2> HIDE DEF T
  <2>1. \A i \in 0 .. n : i \in T
    <3> HIDE DEF n
    <3>1. n \in Nat
      BY DEF n
    <3>2. QED
      BY <1>1, <1>2, <3>1, UpTo
  <2>2. QED
    BY <2>1 DEF T
<1>4. QED
  BY <1>3 DEF ForEach

(***************************************************************************)
(* What holds before the first turn, and what each turn makes of what      *)
(* holds before it, holds after the last.                                  *)
(***************************************************************************)
LEMMA ForEachInduction ==
    ASSUME NEW turns, NEW catalog, Len(turns) \in Nat,
           NEW Held, catalog \in Held[0],
           \A i \in 1 .. Len(turns) : \A c \in Held[i - 1] : turns[i][c] \in Held[i]
    PROVE  ForEach(turns, catalog) \in Held[Len(turns)]
<1> DEFINE n == Len(turns)
<1>1. PICK after :
         /\ after = [i \in 0 .. n |-> IF i = 0 THEN catalog ELSE turns[i][after[i - 1]]]
         /\ ForEach(turns, catalog) = after[n]
  BY ForEachDefined
<1> DEFINE T == {i \in 0 .. n : after[i] \in Held[i]}
<1>2. 0 \in T
  BY <1>1
<1>3. \A i \in 1 .. n : i - 1 \in T => i \in T
  BY <1>1
<1> HIDE DEF T
<1>4. n \in T
  <2>1. n \in Nat /\ n \in 0 .. n
    OBVIOUS
  <2> HIDE DEF n
  <2>2. QED
    BY <1>2, <1>3, <2>1, UpTo
<1>5. QED
  BY <1>1, <1>4 DEF T

-----------------------------------------------------------------------------
(* Lists put together.                                                     *)

LEMMA ListTyped ==
    ASSUME NEW S, NEW n \in Nat, NEW f, f = [i \in 1 .. n |-> f[i]],
           \A i \in 1 .. n : f[i] \in S
    PROVE  f \in Seq(S) /\ Len(f) = n
OBVIOUS

LEMMA Concat ==
    ASSUME NEW S, NEW s \in Seq(S), NEW t \in Seq(S)
    PROVE  /\ s \o t \in Seq(S) /\ Len(s \o t) = Len(s) + Len(t)
           /\ Len(s) \in Nat /\ Len(t) \in Nat
           /\ \A i \in 1 .. Len(s) : (s \o t)[i] = s[i]
           /\ \A j \in 1 .. Len(t) : (s \o t)[Len(s) + j] = t[j]
OBVIOUS

LEMMA ConcatThrice ==
    ASSUME NEW S, NEW s \in Seq(S), NEW t \in Seq(S), NEW u \in Seq(S)
    PROVE  (s \o t) \o u = s \o (t \o u)
OBVIOUS

(* The same for a prover that is not to look into the lists.              *)
Cat(s, t) == s \o t

LEMMA CatThrice ==
    ASSUME NEW S, NEW s \in Seq(S), NEW t \in Seq(S), NEW u \in Seq(S)
    PROVE  Cat(Cat(s, t), u) = Cat(s, Cat(t, u)) /\ Cat(s, t) \in Seq(S)
BY ConcatThrice, Concat DEF Cat

LEMMA ConcatNothing ==
    ASSUME NEW S, NEW s \in Seq(S) PROVE s \o <<>> = s /\ <<>> \o s = s
OBVIOUS

LEMMA FlattenDefined ==
    ASSUME NEW seqs, Len(seqs) \in Nat \ {0}
    PROVE  \E flatten :
              /\ flatten = [i \in 1 .. Len(seqs) |->
                               IF i = 1 THEN seqs[i] ELSE flatten[i - 1] \o seqs[i]]
              /\ FlattenSeq(seqs) = flatten[Len(seqs)]
<1> DEFINE n == Len(seqs)
           Upto(i, before) == IF i = 1 THEN seqs[i] ELSE before \o seqs[i]
           Prefix(f, k) == f = [i \in 1 .. k |-> Upto(i, f[i - 1])]
           T == {k \in 0 .. n : \E f : Prefix(f, k)}
<1>1. 0 \in T
  <2> DEFINE g == [i \in 1 .. 0 |-> {}]
  <2>1. \A f : [i \in 1 .. 0 |-> Upto(i, f[i - 1])] = g
    OBVIOUS
  <2>2. Prefix(g, 0)
    BY <2>1
  <2> HIDE DEF Prefix, g
  <2>3. QED
    BY <2>2
<1>2. ASSUME NEW k \in 1 .. n, k - 1 \in T PROVE k \in T
  <2>1. PICK f : Prefix(f, k - 1)
    BY <1>2
  <2> DEFINE g == [i \in 1 .. k |-> IF i = k THEN Upto(k, f[k - 1]) ELSE f[i]]
  <2>2. \A i \in 1 .. k - 1 : g[i] = f[i] /\ f[i] = Upto(i, f[i - 1])
    <3> HIDE DEF Upto
    <3>1. QED
      BY <2>1
  <2>3. g[k] = Upto(k, f[k - 1])
    OBVIOUS
  <2>4. \A i \in 1 .. k : g[i] = Upto(i, g[i - 1])
    <3> HIDE DEF Prefix, g
    <3>1. \A x, y : Upto(1, x) = Upto(1, y)
      OBVIOUS
    <3> HIDE DEF Upto
    <3>2. k # 1 => g[k] = Upto(k, g[k - 1])
      <4>1. k # 1 => k - 1 \in 1 .. k - 1
        OBVIOUS
      <4>2. QED
        BY <2>2, <2>3, <4>1
    <3>3. g[1] = Upto(1, g[0])
      <4>1. k = 1 \/ 1 \in 1 .. k - 1
        OBVIOUS
      <4>2. QED
        BY <2>2, <2>3, <3>1, <4>1
    <3>4. \A i \in 2 .. k - 1 : g[i] = Upto(i, g[i - 1])
      BY <2>2
    <3>5. \A i \in 1 .. k : (i = 1 /\ i - 1 = 0) \/ (i = k /\ k # 1) \/ i \in 2 .. k - 1
      OBVIOUS
    <3>6. QED
      BY <3>2, <3>3, <3>4, <3>5
  <2>5. Prefix(g, k)
    <3> HIDE DEF Upto
    <3>1. QED
      BY <2>4
  <2> HIDE DEF Prefix, g
  <2>6. QED
    BY <2>5
<1>3. n \in Nat /\ n \in 0 .. n /\ n # 0
  OBVIOUS
<1>4. \E f : Prefix(f, n)
  <2>1. \A k \in 0 .. n : k \in T
    <3> HIDE DEF T, n
    <3>1. QED
      BY <1>1, <1>2, <1>3, UpTo
  <2> HIDE DEF Prefix
  <2>2. QED
    BY <1>3, <2>1
<1>5. QED
  BY <1>3, <1>4 DEF FlattenSeq

(* Lists of members of S put together one by one.                          *)
Joins(f, seqs) ==
    /\ f[0] = <<>>
    /\ \A i \in 1 .. Len(seqs) : f[i] = f[i - 1] \o seqs[i]

ListsOf(f, n, S) == \A i \in 0 .. n : f[i] \in Seq(S)

LEMMA FlattenSteps ==
    ASSUME NEW S, NEW seqs \in Seq(Seq(S))
    PROVE  /\ FlattenSeq(seqs) \in Seq(S)
           /\ \E f : /\ Joins(f, seqs) /\ ListsOf(f, Len(seqs), S)
                     /\ FlattenSeq(seqs) = f[Len(seqs)]
<1> DEFINE n == Len(seqs)
<1>1. n \in Nat /\ \A i \in 1 .. n : seqs[i] \in Seq(S)
  OBVIOUS
<1>2. <<>> \in Seq(S)
  OBVIOUS
<1>3. \E f : Joins(f, seqs) /\ FlattenSeq(seqs) = f[n]
  <2>1. CASE n = 0
    <3> DEFINE f == [i \in 0 .. n |-> <<>>]
    <3>1. FlattenSeq(seqs) = <<>>
      BY <2>1 DEF FlattenSeq
    <3>2. f[0] = <<>> /\ f[n] = <<>> /\ 1 .. n = {}
      BY <2>1
    <3> HIDE DEF f
    <3>3. Joins(f, seqs)
      BY <3>2 DEF Joins
    <3>4. QED
      BY <3>1, <3>2, <3>3
  <2>2. CASE n # 0
    <3>1. PICK flatten :
             /\ flatten = [i \in 1 .. n |-> IF i = 1 THEN seqs[i] ELSE flatten[i - 1] \o seqs[i]]
             /\ FlattenSeq(seqs) = flatten[n]
      BY <1>1, <2>2, FlattenDefined
    <3> DEFINE f == [i \in 0 .. n |-> IF i = 0 THEN <<>> ELSE flatten[i]]
    <3>2. f[0] = <<>> /\ \A i \in 1 .. n : f[i] = flatten[i]
      BY <1>1
    <3>3. ASSUME NEW i \in 1 .. n PROVE f[i] = f[i - 1] \o seqs[i]
      <4>1. CASE i = 1
        <5>1. flatten[i] = seqs[i]
          BY <3>1, <4>1
        <5>2. <<>> \o seqs[i] = seqs[i]
          BY <1>1, ConcatNothing
        <5>3. f[i - 1] = <<>>
          BY <3>2, <4>1
        <5> HIDE DEF f
        <5>4. QED
          BY <3>2, <5>1, <5>2, <5>3
      <4>2. CASE i # 1
        <5>1. flatten[i] = flatten[i - 1] \o seqs[i]
          BY <3>1, <4>2
        <5>2. i - 1 \in 1 .. n
          BY <1>1, <4>2
        <5> HIDE DEF f
        <5>3. QED
          BY <3>2, <5>1, <5>2
      <4>3. QED
        BY <4>1, <4>2
    <3>4. n \in 1 .. n
      BY <1>1, <2>2
    <3> HIDE DEF f
    <3>5. Joins(f, seqs)
      BY <3>2, <3>3 DEF Joins
    <3>6. QED
      BY <3>1, <3>2, <3>4, <3>5
  <2>3. QED
    BY <2>1, <2>2
<1>4. PICK f : Joins(f, seqs) /\ FlattenSeq(seqs) = f[n]
  BY <1>3
<1> DEFINE T == {i \in 0 .. n : f[i] \in Seq(S)}
<1>5. 0 \in T
  <2>1. 0 \in 0 .. n
    BY <1>1
  <2>2. QED
    BY <1>2, <1>4, <2>1 DEF Joins
<1>6. ASSUME NEW i \in 1 .. n, i - 1 \in T PROVE i \in T
  <2>1. f[i - 1] \in Seq(S) /\ seqs[i] \in Seq(S) /\ i \in 0 .. n
    BY <1>1, <1>6
  <2>2. f[i - 1] \o seqs[i] \in Seq(S)
    BY <2>1, Concat
  <2>3. f[i] = f[i - 1] \o seqs[i]
    BY <1>4 DEF Joins
  <2>4. QED
    BY <2>1, <2>2, <2>3
<1>7. \A i \in 0 .. n : i \in T
  <2> HIDE DEF T, n
  <2>1. QED
    BY <1>1, <1>5, <1>6, UpTo
<1>8. ListsOf(f, n, S) /\ f[n] \in Seq(S)
  BY <1>1, <1>7 DEF ListsOf
<1>9. QED
  BY <1>4, <1>8

LEMMA FlattenIs ==
    ASSUME NEW S, NEW seqs \in Seq(Seq(S)), NEW g, Joins(g, seqs)
    PROVE  FlattenSeq(seqs) = g[Len(seqs)]
<1> DEFINE n == Len(seqs)
<1>1. PICK f : Joins(f, seqs) /\ FlattenSeq(seqs) = f[n]
  BY FlattenSteps
<1> DEFINE T == {i \in 0 .. n : f[i] = g[i]}
<1>2. n \in Nat
  OBVIOUS
<1>3. 0 \in T
  BY <1>1, <1>2 DEF Joins
<1>4. ASSUME NEW i \in 1 .. n, i - 1 \in T PROVE i \in T
  <2>1. f[i] = f[i - 1] \o seqs[i] /\ g[i] = g[i - 1] \o seqs[i]
    BY <1>1 DEF Joins
  <2>2. f[i - 1] = g[i - 1] /\ i \in 0 .. n
    BY <1>4
  <2>3. QED
    BY <2>1, <2>2
<1>5. \A i \in 0 .. n : i \in T
  <2> HIDE DEF T, n
  <2>1. QED
    BY <1>2, <1>3, <1>4, UpTo
<1>6. QED
  BY <1>1, <1>2, <1>5

LEMMA FlattenNothing ==
    ASSUME NEW S, NEW seqs \in Seq(Seq(S)), \A i \in 1 .. Len(seqs) : seqs[i] = <<>>
    PROVE  FlattenSeq(seqs) = <<>>
<1> DEFINE n == Len(seqs)
           g == [i \in 0 .. n |-> <<>>]
<1>1. n \in Nat
  OBVIOUS
<1>2. \A i \in 0 .. n : g[i] = <<>>
  OBVIOUS
<1>3. <<>> \o <<>> = <<>> /\ \A i \in 1 .. n : i \in 0 .. n /\ i - 1 \in 0 .. n
  BY ConcatNothing
<1> HIDE DEF g
<1>4. ASSUME NEW i \in 1 .. n PROVE g[i] = g[i - 1] \o seqs[i]
  <2>1. g[i] = <<>> /\ g[i - 1] = <<>> /\ seqs[i] = <<>>
    BY <1>2, <1>3
  <2>2. QED
    BY <1>3, <2>1
<1>5. 0 \in 0 .. n /\ n \in 0 .. n
  BY <1>1
<1>6. Joins(g, seqs)
  <2>1. g[0] = <<>>
    BY <1>2, <1>5
  <2>2. QED
    BY <1>4, <2>1 DEF Joins
<1>7. FlattenSeq(seqs) = g[n]
  BY <1>6, FlattenIs
<1>8. QED
  BY <1>2, <1>5, <1>7

(* The lists that F gives for the entries of s, put together.              *)
ListFor(E, S) == [E -> Seq(S)]
Mapped(F, s) == [i \in DOMAIN s |-> F[s[i]]]
Joined(F, s) == FlattenSeq(Mapped(F, s))

LEMMA MappedTyped ==
    ASSUME NEW S, NEW E, NEW F, F \in ListFor(E, S), NEW s \in Seq(E)
    PROVE  /\ Mapped(F, s) \in Seq(Seq(S)) /\ Len(Mapped(F, s)) = Len(s) /\ Len(s) \in Nat
           /\ \A i \in 1 .. Len(s) : Mapped(F, s)[i] = F[s[i]] /\ F[s[i]] \in Seq(S)
           /\ Joined(F, s) \in Seq(S)
<1>1. DOMAIN s = 1 .. Len(s) /\ Len(s) \in Nat /\ \A i \in 1 .. Len(s) : F[s[i]] \in Seq(S)
  BY DEF ListFor
<1>2. /\ Mapped(F, s) \in Seq(Seq(S)) /\ Len(Mapped(F, s)) = Len(s)
      /\ \A i \in 1 .. Len(s) : Mapped(F, s)[i] = F[s[i]]
  BY <1>1 DEF Mapped
<1>3. FlattenSeq(Mapped(F, s)) \in Seq(S)
  BY <1>2, FlattenSteps
<1>4. QED
  BY <1>1, <1>2, <1>3 DEF Joined

LEMMA JoinedConcat ==
    ASSUME NEW S, NEW E, NEW F, F \in ListFor(E, S), NEW s \in Seq(E), NEW t \in Seq(E)
    PROVE  Joined(F, s \o t) = Joined(F, s) \o Joined(F, t)
<1> DEFINE u == s \o t
           m == Len(s)
           n == Len(t)
<1>1. /\ u \in Seq(E) /\ Len(u) = m + n
      /\ \A i \in 1 .. m : u[i] = s[i]
      /\ \A j \in 1 .. n : u[m + j] = t[j]
  BY Concat
<1> HIDE DEF u
<1>2. /\ Mapped(F, s) \in Seq(Seq(S)) /\ Len(Mapped(F, s)) = m /\ m \in Nat
      /\ \A i \in 1 .. m : Mapped(F, s)[i] = F[s[i]] /\ F[s[i]] \in Seq(S)
  BY MappedTyped
<1>3. /\ Mapped(F, t) \in Seq(Seq(S)) /\ Len(Mapped(F, t)) = n /\ n \in Nat
      /\ \A i \in 1 .. n : Mapped(F, t)[i] = F[t[i]] /\ F[t[i]] \in Seq(S)
  BY MappedTyped
<1>4. /\ Mapped(F, u) \in Seq(Seq(S)) /\ Len(Mapped(F, u)) = Len(u)
      /\ \A i \in 1 .. Len(u) : Mapped(F, u)[i] = F[u[i]]
  BY <1>1, MappedTyped
<1>5. PICK f : /\ Joins(f, Mapped(F, s)) /\ ListsOf(f, Len(Mapped(F, s)), S)
               /\ FlattenSeq(Mapped(F, s)) = f[Len(Mapped(F, s))]
  BY <1>2, FlattenSteps
<1>6. PICK g : /\ Joins(g, Mapped(F, t)) /\ ListsOf(g, Len(Mapped(F, t)), S)
               /\ FlattenSeq(Mapped(F, t)) = g[Len(Mapped(F, t))]
  BY <1>3, FlattenSteps
<1> DEFINE h == [i \in 0 .. m + n |-> IF i <= m THEN f[i] ELSE f[m] \o g[i - m]]
<1> HIDE DEF m, n
<1>7. /\ f[0] = <<>> /\ f[m] \in Seq(S)
      /\ \A i \in 1 .. m : f[i] = f[i - 1] \o F[s[i]]
  <2>1. f[0] = <<>> /\ \A i \in 1 .. m : f[i] = f[i - 1] \o Mapped(F, s)[i]
    BY <1>2, <1>5 DEF Joins
  <2>2. m \in 0 .. m
    BY <1>2
  <2>3. f[m] \in Seq(S)
    BY <1>2, <1>5, <2>2 DEF ListsOf
  <2>4. QED
    BY <1>2, <2>1, <2>3
<1>8. /\ g[0] = <<>> /\ \A i \in 0 .. n : g[i] \in Seq(S)
      /\ \A i \in 1 .. n : g[i] = g[i - 1] \o F[t[i]]
  <2>1. g[0] = <<>> /\ \A i \in 1 .. n : g[i] = g[i - 1] \o Mapped(F, t)[i]
    BY <1>3, <1>6 DEF Joins
  <2>2. \A i \in 0 .. n : g[i] \in Seq(S)
    BY <1>3, <1>6 DEF ListsOf
  <2>3. QED
    BY <1>3, <2>1, <2>2
<1>9. \A i \in 0 .. m : h[i] = f[i]
  BY <1>2, <1>3
<1>10. \A j \in 0 .. n : h[m + j] = f[m] \o g[j]
  <2>1. h[m] = f[m] \o g[0]
    <3>1. h[m] = f[m]
      BY <1>2, <1>3
    <3>2. f[m] \o <<>> = f[m]
      BY <1>7, ConcatNothing
    <3>3. QED
      BY <1>8, <3>1, <3>2
  <2>2. \A j \in 1 .. n : h[m + j] = f[m] \o g[j]
    <3>1. \A j \in 1 .. n : m + j \in 0 .. m + n /\ ~(m + j <= m) /\ (m + j) - m = j
      BY <1>2, <1>3
    <3>2. QED
      BY <3>1
  <2>3. \A j \in 0 .. n : j = 0 \/ j \in 1 .. n
    BY <1>3
  <2>4. m + 0 = m
    BY <1>2
  <2> HIDE DEF h
  <2>5. QED
    BY <2>1, <2>2, <2>3, <2>4
<1> HIDE DEF h
<1>11. ASSUME NEW i \in 1 .. m PROVE h[i] = h[i - 1] \o F[u[i]]
  <2>1. i \in 0 .. m /\ i - 1 \in 0 .. m
    BY <1>2
  <2>2. f[i] = f[i - 1] \o F[s[i]] /\ u[i] = s[i]
    BY <1>1, <1>7
  <2>3. h[i] = f[i] /\ h[i - 1] = f[i - 1]
    BY <1>9, <2>1
  <2>4. QED
    BY <2>2, <2>3
<1>12. ASSUME NEW j \in 1 .. n PROVE h[m + j] = h[m + (j - 1)] \o F[u[m + j]]
  <2>1. j \in 0 .. n /\ j - 1 \in 0 .. n
    BY <1>3
  <2>2. g[j] = g[j - 1] \o F[t[j]] /\ u[m + j] = t[j]
    BY <1>1, <1>8
  <2> DEFINE a == f[m]
             b == g[j - 1]
             c == F[t[j]]
  <2>3. a \in Seq(S) /\ b \in Seq(S) /\ c \in Seq(S)
    BY <1>3, <1>7, <1>8, <2>1
  <2>4. h[m + j] = a \o g[j] /\ h[m + (j - 1)] = a \o b
    BY <1>10, <2>1
  <2>5. g[j] = b \o c
    BY <2>2
  <2> HIDE DEF a, b, c
  <2>6. (a \o b) \o c = a \o (b \o c)
    BY ONLY <2>3
  <2>7. QED
    BY <2>2, <2>4, <2>5, <2>6 DEF c
<1>13. ASSUME NEW i \in 1 .. m + n PROVE h[i] = h[i - 1] \o F[u[i]]
  <2>1. CASE i \in 1 .. m
    BY <1>11, <2>1
  <2>2. CASE i \notin 1 .. m
    <3> DEFINE j == i - m
    <3>1. j \in 1 .. n /\ m + j = i /\ m + (j - 1) = i - 1
      BY <1>2, <1>3, <2>2
    <3> HIDE DEF j
    <3>2. h[m + j] = h[m + (j - 1)] \o F[u[m + j]]
      BY <1>12, <3>1
    <3>3. QED
      BY <3>1, <3>2
  <2>3. QED
    BY <2>1, <2>2
<1>14. Joins(h, Mapped(F, u))
  <2>1. h[0] = <<>>
    BY <1>2, <1>7, <1>9
  <2>2. \A i \in 1 .. Len(Mapped(F, u)) : h[i] = h[i - 1] \o Mapped(F, u)[i]
    BY <1>1, <1>4, <1>13
  <2>3. QED
    BY <2>1, <2>2 DEF Joins
<1>15. Joined(F, u) = h[m + n]
  <2>1. FlattenSeq(Mapped(F, u)) = h[Len(Mapped(F, u))]
    BY <1>4, <1>14, FlattenIs
  <2>2. QED
    BY <1>1, <1>4, <2>1 DEF Joined
<1>16. h[m + n] = f[m] \o g[n]
  <2>1. n \in 0 .. n
    BY <1>3
  <2>2. QED
    BY <1>10, <2>1
<1>17. Joined(F, s) = f[m] /\ Joined(F, t) = g[n]
  BY <1>2, <1>3, <1>5, <1>6 DEF Joined
<1>18. QED
  BY <1>15, <1>16, <1>17 DEF u

LEMMA JoinedCat ==
    ASSUME NEW S, NEW E, NEW F, F \in ListFor(E, S), NEW s \in Seq(E), NEW t \in Seq(E)
    PROVE  Joined(F, Cat(s, t)) = Cat(Joined(F, s), Joined(F, t))
BY JoinedConcat DEF Cat

LEMMA JoinedOne ==
    ASSUME NEW S, NEW E, NEW F, F \in ListFor(E, S), NEW e \in E
    PROVE  Joined(F, <<e>>) = F[e]
<1> DEFINE one == <<e>>
           seqs == Mapped(F, one)
<1>1. one \in Seq(E) /\ Len(one) = 1 /\ one[1] = e
  OBVIOUS
<1>2. 1 \in 1 .. 1
  OBVIOUS
<1> HIDE DEF one
<1>3. seqs \in Seq(Seq(S)) /\ Len(seqs) = Len(one) /\ \A i \in 1 .. Len(one) : seqs[i] = F[one[i]]
  BY <1>1, MappedTyped
<1> HIDE DEF seqs
<1>4. Len(seqs) = 1 /\ seqs[1] = F[e]
  BY <1>1, <1>2, <1>3
<1>5. PICK f : Joins(f, seqs) /\ FlattenSeq(seqs) = f[Len(seqs)]
  BY <1>3, FlattenSteps
<1>6. f[0] = <<>> /\ \A i \in 1 .. 1 : f[i] = Cat(f[i - 1], seqs[i])
  BY <1>4, <1>5 DEF Joins, Cat
<1>7. f[1] = Cat(<<>>, F[e])
  BY <1>2, <1>4, <1>6
<1>8. F[e] \in Seq(S)
  BY DEF ListFor
<1>9. Cat(<<>>, F[e]) = F[e]
  BY <1>8, ConcatNothing DEF Cat
<1>10. QED
  BY <1>4, <1>5, <1>7, <1>9 DEF Joined, seqs, one

LEMMA JoinedFlatten ==
    ASSUME NEW S, NEW E, NEW F, F \in ListFor(E, S), NEW seqs \in Seq(Seq(E)),
           NEW parts \in Seq(Seq(S)), Len(parts) = Len(seqs),
           \A i \in 1 .. Len(seqs) : parts[i] = Joined(F, seqs[i])
    PROVE  Joined(F, FlattenSeq(seqs)) = FlattenSeq(parts)
<1> DEFINE n == Len(seqs)
<1>1. n \in Nat /\ \A i \in 1 .. n : seqs[i] \in Seq(E)
  OBVIOUS
<1>2. PICK f : /\ Joins(f, seqs) /\ ListsOf(f, Len(seqs), E)
               /\ FlattenSeq(seqs) = f[Len(seqs)]
  BY FlattenSteps
<1> DEFINE g == [i \in 0 .. n |-> Joined(F, f[i])]
<1>3. \A i \in 0 .. n : g[i] = Joined(F, f[i])
  OBVIOUS
<1> HIDE DEF g
<1>4. g[0] = <<>>
  <2>1. f[0] = <<>> /\ 0 \in 0 .. n
    BY <1>1, <1>2 DEF Joins
  <2>2. Mapped(F, <<>>) = <<>>
    BY DEF Mapped
  <2>3. FlattenSeq(<<>>) = <<>>
    BY DEF FlattenSeq
  <2>4. QED
    BY <1>3, <2>1, <2>2, <2>3 DEF Joined
<1>5. ASSUME NEW i \in 1 .. n PROVE g[i] = g[i - 1] \o parts[i]
  <2>1. i \in 0 .. n /\ i - 1 \in 0 .. n
    BY <1>1
  <2>2. f[i] = f[i - 1] \o seqs[i]
    BY <1>2 DEF Joins
  <2>3. f[i - 1] \in Seq(E) /\ seqs[i] \in Seq(E)
    BY <1>1, <1>2, <2>1 DEF ListsOf
  <2>4. Joined(F, f[i - 1] \o seqs[i]) = Joined(F, f[i - 1]) \o Joined(F, seqs[i])
    <3>1. Joined(F, Cat(f[i - 1], seqs[i])) = Cat(Joined(F, f[i - 1]), Joined(F, seqs[i]))
      BY <2>3, JoinedCat
    <3>2. QED
      BY <3>1 DEF Cat
  <2>5. g[i] = Joined(F, f[i]) /\ g[i - 1] = Joined(F, f[i - 1])
    BY <1>3, <2>1
  <2>6. parts[i] = Joined(F, seqs[i])
    OBVIOUS
  <2>7. QED
    BY <2>2, <2>4, <2>5, <2>6
<1>6. Joins(g, parts)
  BY <1>4, <1>5 DEF Joins
<1>7. FlattenSeq(parts) = g[n]
  <2>1. FlattenSeq(parts) = g[Len(parts)]
    BY <1>6, FlattenIs
  <2>2. QED
    BY <2>1
<1>8. n \in 0 .. n
  BY <1>1
<1>9. QED
  BY <1>2, <1>3, <1>7, <1>8

-----------------------------------------------------------------------------
(* The same as sets.                                                       *)

LEMMA ConcatSet ==
    ASSUME NEW S, NEW s \in Seq(S), NEW t \in Seq(S)
    PROVE  s \o t \in Seq(S) /\ ToSet(s \o t) = ToSet(s) \union ToSet(t)
<1> DEFINE m == Len(s)
           n == Len(t)
<1>1. /\ s \o t \in Seq(S) /\ m \in Nat /\ n \in Nat
      /\ DOMAIN s = 1 .. m /\ DOMAIN t = 1 .. n /\ DOMAIN (s \o t) = 1 .. m + n
  OBVIOUS
<1>2. \A i \in 1 .. m : i \in 1 .. m + n /\ (s \o t)[i] = s[i]
  OBVIOUS
<1>3. \A j \in 1 .. n : j + m \in 1 .. m + n /\ (s \o t)[j + m] = t[j]
  OBVIOUS
<1>4. \A i \in 1 .. m + n : i \in 1 .. m \/ \E j \in 1 .. n : i = j + m
  <2>1. \A i \in 1 .. m + n : i \in 1 .. m \/ (i - m \in 1 .. n /\ i = (i - m) + m)
    BY <1>1
  <2>2. QED
    BY <2>1
<1> HIDE DEF m, n
<1>5. /\ \A i \in 1 .. m : s[i] \in ToSet(s \o t)
      /\ \A j \in 1 .. n : t[j] \in ToSet(s \o t)
      /\ \A i \in 1 .. m + n : (s \o t)[i] \in ToSet(s) \union ToSet(t)
  BY <1>1, <1>2, <1>3, <1>4 DEF ToSet
<1>6. ToSet(s \o t) = ToSet(s) \union ToSet(t)
  BY <1>1, <1>5 DEF ToSet
<1>7. QED
  BY <1>1, <1>6

LEMMA FlattenMembers ==
    ASSUME NEW S, NEW seqs \in Seq(Seq(S))
    PROVE  ToSet(FlattenSeq(seqs)) = UNION {ToSet(seqs[i]) : i \in 1 .. Len(seqs)}
<1> DEFINE n == Len(seqs)
           Upto(k) == UNION {ToSet(seqs[i]) : i \in 1 .. k}
<1>1. n \in Nat /\ \A i \in 1 .. n : seqs[i] \in Seq(S)
  OBVIOUS
<1>2. PICK f : Joins(f, seqs) /\ ListsOf(f, n, S) /\ FlattenSeq(seqs) = f[n]
  BY FlattenSteps
<1> DEFINE T == {k \in 0 .. n : ToSet(f[k]) = Upto(k)}
<1>3. 0 \in T
  <2>1. f[0] = <<>> /\ 0 \in 0 .. n
    BY <1>1, <1>2 DEF Joins
  <2>2. ToSet(<<>>) = {} /\ Upto(0) = {}
    BY DEF ToSet
  <2> HIDE DEF Upto
  <2>3. QED
    BY <2>1, <2>2
<1>4. ASSUME NEW k \in 1 .. n, k - 1 \in T PROVE k \in T
  <2>1. Upto(k) = Upto(k - 1) \union ToSet(seqs[k])
    <3>1. \A i : i \in 1 .. k <=> i \in 1 .. k - 1 \/ i = k
      OBVIOUS
    <3>2. QED
      BY <3>1
  <2> HIDE DEF Upto
  <2>2. k \in 0 .. n /\ k - 1 \in 0 .. n /\ ToSet(f[k - 1]) = Upto(k - 1)
    BY <1>1, <1>4
  <2>3. f[k - 1] \in Seq(S) /\ seqs[k] \in Seq(S)
    BY <1>1, <1>2, <2>2 DEF ListsOf
  <2>4. f[k] = Cat(f[k - 1], seqs[k])
    BY <1>2 DEF Joins, Cat
  <2>5. ToSet(Cat(f[k - 1], seqs[k])) = ToSet(f[k - 1]) \union ToSet(seqs[k])
    BY <2>3, ConcatSet DEF Cat
  <2>6. QED
    BY <2>1, <2>2, <2>4, <2>5
<1>5. n \in T
  <2>1. n \in 0 .. n
    BY <1>1
  <2> HIDE DEF T, n
  <2>2. QED
    BY <1>1, <1>3, <1>4, <2>1, UpTo
<1>6. QED
  BY <1>2, <1>5

LEMMA JoinedSet ==
    ASSUME NEW S, NEW E, NEW F, F \in ListFor(E, S), NEW s \in Seq(E)
    PROVE  ToSet(Joined(F, s)) = UNION {ToSet(F[e]) : e \in ToSet(s)}
<1> DEFINE seqs == Mapped(F, s)
<1>1. /\ seqs \in Seq(Seq(S)) /\ Len(seqs) = Len(s)
      /\ \A i \in 1 .. Len(s) : seqs[i] = F[s[i]]
  BY MappedTyped
<1> HIDE DEF seqs
<1>2. ToSet(FlattenSeq(seqs)) = UNION {ToSet(seqs[i]) : i \in 1 .. Len(s)}
  BY <1>1, FlattenMembers
<1>3. UNION {ToSet(seqs[i]) : i \in 1 .. Len(s)} = UNION {ToSet(F[s[i]]) : i \in 1 .. Len(s)}
  BY <1>1
<1>4. ToSet(s) = {s[i] : i \in 1 .. Len(s)}
  BY DEF ToSet
<1>5. UNION {ToSet(F[s[i]]) : i \in 1 .. Len(s)} = UNION {ToSet(F[e]) : e \in ToSet(s)}
  BY <1>4
<1>6. QED
  BY <1>2, <1>3, <1>5 DEF Joined, seqs

-----------------------------------------------------------------------------
(* What becomes of the parts of a document.                                *)

LEMMA CatalogFields ==
    ASSUME NEW c \in ParsedCatalog
    PROVE  /\ c.datasets \in Seq(Dataset) /\ c.data_services \in Seq(DataService)
           /\ \A list \in Seq(Dataset) :
                 /\ [c EXCEPT !.datasets = list] \in ParsedCatalog
                 /\ [c EXCEPT !.datasets = list].datasets = list
                 /\ [c EXCEPT !.datasets = list].data_services = c.data_services
           /\ \A list \in Seq(DataService) :
                 /\ [c EXCEPT !.data_services = list] \in ParsedCatalog
                 /\ [c EXCEPT !.data_services = list].datasets = c.datasets
                 /\ [c EXCEPT !.data_services = list].data_services = list
BY DEF ParsedCatalog

LEMMA IdTyped ==
    ASSUME NEW value, HasId(value) PROVE IdOf(value) \in Id
BY FieldAssumption DEF HasId, IdOf

LEMMA DataServiceTyped ==
    ASSUME NEW value \in ServiceValue, HasId(value)
    PROVE  DataServiceOf(value) \in DataService /\ DataServiceOf(value).id = IdOf(value)
BY IdTyped DEF DataServiceOf, DataService, ServiceValue

LEMMA DatasetTyped ==
    ASSUME NEW value \in DatasetValue, HasId(value)
    PROVE  DatasetOf(value) \in Dataset
<1>1. value.distribution \in Seq(AccessValue)
  BY DEF DatasetValue
<1>2. ASSUME NEW access \in AccessValue PROVE AccessServiceOf(access) \in Id
  <2>1. CASE access.kind = "string"
    BY <2>1, <1>2 DEF AccessValue, AccessServiceOf
  <2>2. CASE access.kind = "object"
    BY <2>2, IdTyped, NoTextAssumption DEF AccessServiceOf
  <2>3. CASE access.kind = "other"
    BY <2>3, NoTextAssumption DEF AccessServiceOf
  <2>4. QED
    BY <2>1, <2>2, <2>3, <1>2 DEF AccessValue
<1> DEFINE list == [i \in DOMAIN value.distribution |-> AccessServiceOf(value.distribution[i])]
<1>3. list \in Seq(Id)
  <2>1. \A i \in DOMAIN value.distribution : value.distribution[i] \in AccessValue
    BY <1>1
  <2>2. \A i \in DOMAIN value.distribution : AccessServiceOf(value.distribution[i]) \in Id
    BY <1>2, <2>1
  <2>3. QED
    BY <1>1, <2>2
<1> HIDE DEF list
<1>4. DatasetOf(value) = [id |-> IdOf(value), distributions |-> list]
  BY DEF DatasetOf, list
<1>5. QED
  BY <1>3, <1>4, IdTyped DEF Dataset

-----------------------------------------------------------------------------
(* Catalogs that hold what has been said so far: the datasets of the list  *)
(* D, and the first service of each id among the list L.                   *)
Said(D, L) ==
    {c \in ParsedCatalog : c.datasets = D /\ KeepsFirst(c.data_services, L)}

LEMMA SaidTyped ==
    ASSUME NEW D, NEW L, NEW c \in Said(D, L)
    PROVE  /\ c \in ParsedCatalog /\ c.datasets = D /\ KeepsFirst(c.data_services, L)
           /\ c.datasets \in Seq(Dataset) /\ c.data_services \in Seq(DataService)
BY CatalogFields DEF Said

LEMMA SaidNothing == NothingCollected \in Said(<<>>, <<>>)
BY DEF NothingCollected, ParsedCatalog, Said, KeepsFirst

(* One more service is said.                                               *)
LEMMA KeepsKnown ==
    ASSUME NEW kept \in Seq(DataService), NEW L \in Seq(DataService), NEW s \in DataService,
           KeepsFirst(kept, L), \E k \in DOMAIN kept : kept[k].id = s.id
    PROVE  KeepsFirst(kept, L \o <<s>>)
<1> DEFINE M == L \o <<s>>
           n == Len(L)
<1>1. /\ n \in Nat /\ DOMAIN L = 1 .. n /\ DOMAIN M = 1 .. n + 1
      /\ \A i \in 1 .. n : M[i] = L[i]
      /\ M[n + 1] = s
  OBVIOUS
<1> HIDE DEF M, n
<1>2. \A i \in DOMAIN M : \E k \in DOMAIN kept : kept[k].id = M[i].id
  <2>1. \A i \in 1 .. n + 1 : i \in 1 .. n \/ i = n + 1
    BY <1>1
  <2>2. ASSUME NEW i \in 1 .. n PROVE \E k \in DOMAIN kept : kept[k].id = M[i].id
    <3>1. \E k \in DOMAIN kept : kept[k].id = L[i].id
      BY <1>1 DEF KeepsFirst
    <3>2. QED
      BY <1>1, <3>1
  <2>3. \E k \in DOMAIN kept : kept[k].id = M[n + 1].id
    BY <1>1
  <2>4. QED
    BY <1>1, <2>1, <2>2, <2>3
<1>3. ASSUME NEW k \in DOMAIN kept
      PROVE  \E i \in DOMAIN M : kept[k] = M[i] /\ \A j \in 1 .. i - 1 : M[j].id # kept[k].id
  <2>1. PICK i \in DOMAIN L : kept[k] = L[i] /\ \A j \in 1 .. i - 1 : L[j].id # kept[k].id
    BY DEF KeepsFirst
  <2>2. i \in DOMAIN M /\ \A j \in 1 .. i - 1 : j \in 1 .. n
    BY <1>1
  <2>3. QED
    BY <1>1, <2>1, <2>2
<1>4. QED
  BY <1>2, <1>3 DEF KeepsFirst, M

LEMMA KeepsNew ==
    ASSUME NEW kept \in Seq(DataService), NEW L \in Seq(DataService), NEW s \in DataService,
           KeepsFirst(kept, L), \A k \in DOMAIN kept : kept[k].id # s.id
    PROVE  KeepsFirst(Append(kept, s), L \o <<s>>)
<1> DEFINE M == L \o <<s>>
           n == Len(L)
           now == Append(kept, s)
           m == Len(kept)
<1>1. /\ n \in Nat /\ DOMAIN L = 1 .. n /\ DOMAIN M = 1 .. n + 1
      /\ \A i \in 1 .. n : M[i] = L[i]
      /\ M[n + 1] = s
  OBVIOUS
<1>2. /\ m \in Nat /\ DOMAIN kept = 1 .. m /\ DOMAIN now = 1 .. m + 1
      /\ \A k \in 1 .. m : now[k] = kept[k]
      /\ now[m + 1] = s
  OBVIOUS
<1> HIDE DEF M, n, now, m
<1>3. /\ \A i \in 1 .. n + 1 : i \in 1 .. n \/ i = n + 1
      /\ \A k \in 1 .. m + 1 : k \in 1 .. m \/ k = m + 1
      /\ n + 1 \in 1 .. n + 1 /\ m + 1 \in 1 .. m + 1
      /\ \A i \in 1 .. n : i \in 1 .. n + 1
      /\ \A k \in 1 .. m : k \in 1 .. m + 1
  BY <1>1, <1>2
<1>4. \A i, j \in DOMAIN now : now[i].id = now[j].id => i = j
  <2>1. \A k \in 1 .. m : now[k].id # now[m + 1].id
    BY <1>2
  <2>2. \A i, j \in 1 .. m : now[i].id = now[j].id => i = j
    <3>1. \A i, j \in 1 .. m : kept[i].id = kept[j].id => i = j
      BY <1>2 DEF KeepsFirst
    <3>2. \A k \in 1 .. m : now[k].id = kept[k].id
      BY <1>2
    <3>3. QED
      BY ONLY <3>1, <3>2
  <2>3. QED
    BY <1>2, <1>3, <2>1, <2>2
<1>5. \A i \in DOMAIN M : \E k \in DOMAIN now : now[k].id = M[i].id
  <2>1. ASSUME NEW i \in 1 .. n PROVE \E k \in DOMAIN now : now[k].id = M[i].id
    <3>1. PICK k \in DOMAIN kept : kept[k].id = L[i].id
      BY <1>1 DEF KeepsFirst
    <3>2. k \in DOMAIN now /\ now[k].id = M[i].id
      BY <1>1, <1>2, <1>3, <3>1
    <3>3. QED
      BY <3>2
  <2>2. now[m + 1].id = M[n + 1].id /\ m + 1 \in DOMAIN now
    BY <1>1, <1>2, <1>3
  <2>3. QED
    BY <1>1, <1>3, <2>1, <2>2
<1>6. ASSUME NEW k \in DOMAIN now
      PROVE  \E i \in DOMAIN M : now[k] = M[i] /\ \A j \in 1 .. i - 1 : M[j].id # now[k].id
  <2>1. CASE k \in 1 .. m
    <3>1. PICK i \in DOMAIN L : kept[k] = L[i] /\ \A j \in 1 .. i - 1 : L[j].id # kept[k].id
      BY <1>2, <2>1 DEF KeepsFirst
    <3>2. i \in DOMAIN M /\ \A j \in 1 .. i - 1 : j \in 1 .. n
      BY <1>1, <1>3
    <3>3. now[k] = kept[k] /\ M[i] = L[i]
      BY <1>1, <1>2, <2>1
    <3>4. QED
      BY <1>1, <3>1, <3>2, <3>3
  <2>2. CASE k = m + 1
    <3>1. \A j \in 1 .. n : M[j].id # s.id
      BY <1>1 DEF KeepsFirst
    <3>2. n + 1 \in DOMAIN M /\ (n + 1) - 1 = n /\ now[k] = s
      BY <1>1, <1>2, <1>3, <2>2
    <3>3. QED
      BY <1>1, <3>1, <3>2
  <2>3. QED
    BY <1>2, <1>3, <2>1, <2>2
<1>7. QED
  BY <1>4, <1>5, <1>6 DEF KeepsFirst, M, now

-----------------------------------------------------------------------------
(* A loop says what its turns say.                                         *)

(* A turn that says the datasets Ds and the services Ls.                   *)
Says(turn, Ds, Ls) ==
    \A D \in Seq(Dataset), L \in Seq(DataService) :
        \A c \in Said(D, L) : turn[c] \in Said(Cat(D, Ds), Cat(L, Ls))

LEMMA JoinsTurn ==
    ASSUME NEW S, NEW D \in Seq(S), NEW seqs \in Seq(Seq(S)), NEW f,
           Joins(f, seqs), ListsOf(f, Len(seqs), S), NEW i \in 1 .. Len(seqs)
    PROVE  Cat(D, f[i - 1]) \in Seq(S) /\ Cat(Cat(D, f[i - 1]), seqs[i]) = Cat(D, f[i])
<1> DEFINE a == f[i - 1]
           b == seqs[i]
<1>1. a \in Seq(S) /\ b \in Seq(S)
  <2>1. i - 1 \in 0 .. Len(seqs)
    OBVIOUS
  <2>2. QED
    BY <2>1 DEF ListsOf
<1>2. f[i] = Cat(a, b)
  BY DEF Joins, Cat
<1> HIDE DEF a, b
<1>3. Cat(D, a) \in Seq(S) /\ Cat(Cat(D, a), b) = Cat(D, Cat(a, b))
  BY <1>1, CatThrice
<1>4. QED
  BY <1>2, <1>3 DEF a, b

LEMMA ForEachSaid ==
    ASSUME NEW turns, Len(turns) \in Nat,
           NEW Ds \in Seq(Seq(Dataset)), Len(Ds) = Len(turns),
           NEW Ls \in Seq(Seq(DataService)), Len(Ls) = Len(turns),
           NEW D \in Seq(Dataset), NEW L \in Seq(DataService), NEW catalog \in Said(D, L),
           \A i \in 1 .. Len(turns) : Says(turns[i], Ds[i], Ls[i])
    PROVE  ForEach(turns, catalog) \in Said(Cat(D, FlattenSeq(Ds)), Cat(L, FlattenSeq(Ls)))
<1> DEFINE n == Len(turns)
<1>1. PICK f : Joins(f, Ds) /\ ListsOf(f, Len(Ds), Dataset) /\ FlattenSeq(Ds) = f[Len(Ds)]
  BY FlattenSteps
<1>2. PICK g : Joins(g, Ls) /\ ListsOf(g, Len(Ls), DataService) /\ FlattenSeq(Ls) = g[Len(Ls)]
  BY FlattenSteps
<1> DEFINE Now == [i \in 0 .. n |-> Said(Cat(D, f[i]), Cat(L, g[i]))]
<1>3. catalog \in Now[0]
  <2>1. f[0] = <<>> /\ g[0] = <<>> /\ 0 \in 0 .. n
    BY <1>1, <1>2 DEF Joins
  <2>2. Cat(D, <<>>) = D /\ Cat(L, <<>>) = L
    BY ConcatNothing DEF Cat
  <2>3. QED
    BY <2>1, <2>2
<1>4. ASSUME NEW i \in 1 .. n, NEW c \in Now[i - 1] PROVE turns[i][c] \in Now[i]
  <2>1. i - 1 \in 0 .. n /\ i \in 0 .. n
    OBVIOUS
  <2> DEFINE Di == Cat(D, f[i - 1])
             Li == Cat(L, g[i - 1])
  <2>2. c \in Said(Di, Li)
    BY <2>1
  <2>3. Di \in Seq(Dataset) /\ Cat(Di, Ds[i]) = Cat(D, f[i])
    BY <1>1, JoinsTurn
  <2>4. Li \in Seq(DataService) /\ Cat(Li, Ls[i]) = Cat(L, g[i])
    BY <1>2, JoinsTurn
  <2> HIDE DEF Di, Li
  <2>5. turns[i][c] \in Said(Cat(Di, Ds[i]), Cat(Li, Ls[i]))
    BY <2>2, <2>3, <2>4 DEF Says
  <2>6. QED
    BY <2>1, <2>3, <2>4, <2>5
<1>5. ForEach(turns, catalog) \in Now[n]
  <2> HIDE DEF Now
  <2>1. QED
    BY <1>3, <1>4, ForEachInduction
<1>6. n \in 0 .. n
  OBVIOUS
<1>7. QED
  BY <1>1, <1>2, <1>5, <1>6

(* A loop whose turns say services only.                                   *)
LEMMA ForEachServices ==
    ASSUME NEW turns, Len(turns) \in Nat,
           NEW Ls \in Seq(Seq(DataService)), Len(Ls) = Len(turns),
           NEW D \in Seq(Dataset), NEW L \in Seq(DataService), NEW catalog \in Said(D, L),
           \A i \in 1 .. Len(turns) : Says(turns[i], <<>>, Ls[i])
    PROVE  ForEach(turns, catalog) \in Said(D, Cat(L, FlattenSeq(Ls)))
<1> DEFINE n == Len(turns)
           Ds == [i \in 1 .. n |-> <<>>]
<1>1. Ds \in Seq(Seq(Dataset)) /\ Len(Ds) = n /\ \A i \in 1 .. n : Ds[i] = <<>>
  OBVIOUS
<1> HIDE DEF Ds
<1>2. FlattenSeq(Ds) = <<>>
  BY <1>1, FlattenNothing
<1>3. \A i \in 1 .. n : Says(turns[i], Ds[i], Ls[i])
  BY <1>1
<1>4. ForEach(turns, catalog) \in Said(Cat(D, FlattenSeq(Ds)), Cat(L, FlattenSeq(Ls)))
  BY <1>1, <1>3, ForEachSaid
<1>5. Cat(D, <<>>) = D
  BY ConcatNothing DEF Cat
<1>6. QED
  BY <1>2, <1>4, <1>5

-----------------------------------------------------------------------------
(* What the statements of the loops say.                                   *)

LEMMA ServiceInTyped ==
    ASSUME NEW value \in ServiceValue PROVE ServiceIn(value) \in Seq(DataService)
BY DataServiceTyped DEF ServiceIn

LEMMA AddServiceSaid ==
    ASSUME NEW D \in Seq(Dataset), NEW L \in Seq(DataService), NEW c \in Said(D, L),
           NEW value \in ServiceValue
    PROVE  AddService(c, value) \in Said(Cat(D, <<>>), Cat(L, ServiceIn(value)))
<1> DEFINE kept == c.data_services
           s == DataServiceOf(value)
<1>1. c \in ParsedCatalog /\ c.datasets = D /\ KeepsFirst(kept, L) /\ kept \in Seq(DataService)
  BY SaidTyped
<1>2. Cat(D, <<>>) = D /\ Cat(L, <<>>) = L
  BY ConcatNothing DEF Cat
<1>3. CASE ~HasId(value)
  <2>1. AddService(c, value) = c /\ ServiceIn(value) = <<>>
    BY <1>3 DEF AddService, ServiceIn
  <2>2. QED
    BY <1>2, <2>1
<1>4. CASE HasId(value)
  <2>1. s \in DataService /\ s.id = IdOf(value) /\ ServiceIn(value) = <<s>>
    BY <1>4, DataServiceTyped DEF ServiceIn
  <2>2. CASE Known(c, IdOf(value))
    <3>1. AddService(c, value) = c
      BY <2>2 DEF AddService
    <3>2. \E k \in DOMAIN kept : kept[k].id = s.id
      BY <2>1, <2>2 DEF Known
    <3> HIDE DEF kept, s
    <3>3. KeepsFirst(kept, L \o <<s>>)
      BY <1>1, <2>1, <3>2, KeepsKnown
    <3>4. c \in Said(D, Cat(L, <<s>>))
      BY <1>1, <3>3 DEF Said, Cat, kept
    <3>5. QED
      BY <1>2, <2>1, <3>1, <3>4
  <2>3. CASE ~Known(c, IdOf(value))
    <3> DEFINE now == Append(kept, s)
    <3>1. AddService(c, value) = [c EXCEPT !.data_services = now]
      BY <1>4, <2>3 DEF AddService
    <3>2. \A k \in DOMAIN kept : kept[k].id # s.id
      BY <2>1, <2>3 DEF Known
    <3>3. now \in Seq(DataService)
      BY <1>1, <2>1
    <3> HIDE DEF kept, s
    <3>4. KeepsFirst(now, L \o <<s>>)
      BY <1>1, <2>1, <3>2, KeepsNew
    <3> HIDE DEF now
    <3> DEFINE new == [c EXCEPT !.data_services = now]
    <3>5. new \in ParsedCatalog /\ new.datasets = c.datasets /\ new.data_services = now
      BY <1>1, <3>3, CatalogFields
    <3> HIDE DEF new
    <3>6. new \in Said(D, Cat(L, <<s>>))
      BY <1>1, <3>4, <3>5 DEF Said, Cat
    <3>7. QED
      BY <1>2, <2>1, <3>1, <3>6 DEF new
  <2>4. QED
    BY <2>2, <2>3
<1>5. QED
  BY <1>3, <1>4

LEMMA AddServicesSaid ==
    ASSUME NEW D \in Seq(Dataset), NEW L \in Seq(DataService), NEW catalog \in Said(D, L),
           NEW values \in Seq(ServiceValue)
    PROVE  LET Ls == [i \in DOMAIN values |-> ServiceIn(values[i])]
           IN  /\ Ls \in Seq(Seq(DataService))
               /\ AddServices(catalog, values) \in Said(D, Cat(L, FlattenSeq(Ls)))
<1> DEFINE turns == [i \in DOMAIN values |->
                        [c \in ParsedCatalog |-> AddService(c, values[i])]]
           Ls == [i \in DOMAIN values |-> ServiceIn(values[i])]
<1>1. /\ DOMAIN values = 1 .. Len(values) /\ Len(values) \in Nat /\ Len(turns) = Len(values)
      /\ \A i \in 1 .. Len(values) : values[i] \in ServiceValue
  OBVIOUS
<1>2. \A i \in 1 .. Len(values) : ServiceIn(values[i]) \in Seq(DataService)
  BY <1>1, ServiceInTyped
<1>3. Ls \in Seq(Seq(DataService)) /\ Len(Ls) = Len(turns) /\ Len(turns) \in Nat
  BY <1>1, <1>2
<1>4. ASSUME NEW i \in 1 .. Len(turns) PROVE Says(turns[i], <<>>, Ls[i])
  <2>1. i \in DOMAIN values /\ values[i] \in ServiceValue
    BY <1>1
  <2>2. \A c \in ParsedCatalog : turns[i][c] = AddService(c, values[i])
    BY <2>1
  <2>3. Ls[i] = ServiceIn(values[i])
    BY <2>1
  <2> HIDE DEF turns, Ls
  <2> SUFFICES ASSUME NEW Di \in Seq(Dataset), NEW Li \in Seq(DataService), NEW c \in Said(Di, Li)
               PROVE  turns[i][c] \in Said(Cat(Di, <<>>), Cat(Li, Ls[i]))
    BY DEF Says
  <2>4. c \in ParsedCatalog
    BY SaidTyped
  <2>5. AddService(c, values[i]) \in Said(Cat(Di, <<>>), Cat(Li, ServiceIn(values[i])))
    BY <2>1, AddServiceSaid
  <2>6. QED
    BY <2>2, <2>3, <2>4, <2>5
<1>5. AddServices(catalog, values) = ForEach(turns, catalog)
  BY DEF AddServices
<1> HIDE DEF turns, Ls
<1>6. ForEach(turns, catalog) \in Said(D, Cat(L, FlattenSeq(Ls)))
  BY <1>3, <1>4, ForEachServices
<1>7. QED
  BY <1>3, <1>5, <1>6 DEF Ls

LEMMA InlinedTyped ==
    ASSUME NEW value \in DatasetValue PROVE Inlined(value) \in Seq(DataService)
<1> DEFINE list == value.distribution
           Ls == [i \in DOMAIN list |->
                     IF list[i].kind = "object" THEN ServiceIn(list[i].value) ELSE <<>>]
<1>1. list \in Seq(AccessValue)
  BY DEF DatasetValue
<1>2. /\ DOMAIN list = 1 .. Len(list) /\ Len(list) \in Nat
      /\ \A i \in 1 .. Len(list) : list[i] \in AccessValue
  BY <1>1
<1>3. ASSUME NEW access \in AccessValue, access.kind = "object"
      PROVE  ServiceIn(access.value) \in Seq(DataService)
  <2>1. access.value \in ServiceValue
    BY <1>3 DEF AccessValue
  <2>2. QED
    BY <2>1, ServiceInTyped
<1>4. \A i \in 1 .. Len(list) : Ls[i] \in Seq(DataService)
  BY <1>2, <1>3
<1>5. Ls \in Seq(Seq(DataService))
  <2>1. Ls = [i \in 1 .. Len(list) |-> Ls[i]]
    BY <1>2
  <2> HIDE DEF Ls
  <2>2. QED
    BY <1>2, <1>4, <2>1
<1> HIDE DEF Ls
<1>6. FlattenSeq(Ls) \in Seq(DataService)
  BY <1>5, FlattenSteps
<1>7. QED
  BY <1>6 DEF Inlined, Ls

(* What a dataset value says.                                              *)
DatasetIn(value) == IF HasId(value) THEN <<DatasetOf(value)>> ELSE <<>>
InlinedServices(value) == IF HasId(value) THEN Inlined(value) ELSE <<>>

LEMMA InlinedSaid ==
    ASSUME NEW D \in Seq(Dataset), NEW L \in Seq(DataService), NEW catalog \in Said(D, L),
           NEW value \in DatasetValue
    PROVE  ForEach([i \in DOMAIN value.distribution |->
                       [c \in ParsedCatalog |-> AddInlined(c, value.distribution[i])]], catalog)
              \in Said(D, Cat(L, Inlined(value)))
<1> DEFINE list == value.distribution
           turns == [i \in DOMAIN list |-> [c \in ParsedCatalog |-> AddInlined(c, list[i])]]
           Ls == [i \in DOMAIN list |->
                     IF list[i].kind = "object" THEN ServiceIn(list[i].value) ELSE <<>>]
<1>1. list \in Seq(AccessValue)
  BY DEF DatasetValue
<1>2. /\ DOMAIN list = 1 .. Len(list) /\ Len(list) \in Nat /\ Len(turns) = Len(list)
      /\ \A i \in 1 .. Len(list) : list[i] \in AccessValue
  BY <1>1
<1>3. ASSUME NEW access \in AccessValue, access.kind = "object"
      PROVE  access.value \in ServiceValue
  BY <1>3 DEF AccessValue
<1>4. /\ \A i \in 1 .. Len(list) : Ls[i] \in Seq(DataService)
      /\ Ls \in Seq(Seq(DataService)) /\ Len(Ls) = Len(list)
  <2>1. \A i \in 1 .. Len(list) : Ls[i] \in Seq(DataService)
    BY <1>2, <1>3, ServiceInTyped
  <2>2. Ls = [i \in 1 .. Len(list) |-> Ls[i]] /\ Len(Ls) = Len(list)
    BY <1>2
  <2> HIDE DEF Ls
  <2>3. Ls \in Seq(Seq(DataService))
    <3> DEFINE n == Len(list)
    <3>1. n \in Nat /\ Ls = [i \in 1 .. n |-> Ls[i]]
      BY <1>2, <2>2
    <3> HIDE DEF n
    <3>2. QED
      BY <2>1, <3>1, ListTyped DEF n
  <2>4. QED
    BY <2>1, <2>2, <2>3
<1>5. ASSUME NEW i \in 1 .. Len(list) PROVE Says(turns[i], <<>>, Ls[i])
  <2> DEFINE access == list[i]
  <2>1. i \in DOMAIN list /\ access \in AccessValue
    BY <1>2
  <2>2. \A c \in ParsedCatalog : turns[i][c] = AddInlined(c, access)
    BY <2>1
  <2>3. Ls[i] = IF access.kind = "object" THEN ServiceIn(access.value) ELSE <<>>
    BY <2>1
  <2> HIDE DEF turns, Ls, access
  <2> SUFFICES ASSUME NEW Di \in Seq(Dataset), NEW Li \in Seq(DataService), NEW c \in Said(Di, Li)
               PROVE  turns[i][c] \in Said(Cat(Di, <<>>), Cat(Li, Ls[i]))
    BY DEF Says
  <2>4. turns[i][c] = AddInlined(c, access)
    BY <2>2, SaidTyped
  <2>5. CASE access.kind = "object"
    <3>1. AddService(c, access.value) \in Said(Cat(Di, <<>>), Cat(Li, ServiceIn(access.value)))
      BY <1>3, <2>1, <2>5, AddServiceSaid
    <3>2. AddInlined(c, access) = AddService(c, access.value)
      BY <2>5 DEF AddInlined
    <3>3. Ls[i] = ServiceIn(access.value)
      BY <2>3, <2>5
    <3>4. QED
      BY <2>4, <3>1, <3>2, <3>3
  <2>6. CASE access.kind # "object"
    <3>1. Cat(Di, <<>>) = Di /\ Cat(Li, <<>>) = Li
      BY ConcatNothing DEF Cat
    <3>2. AddInlined(c, access) = c
      BY <2>6 DEF AddInlined
    <3>3. Ls[i] = <<>>
      BY <2>3, <2>6
    <3>4. QED
      BY <2>4, <3>1, <3>2, <3>3
  <2>7. QED
    BY <2>5, <2>6
<1>6. Inlined(value) = FlattenSeq(Ls)
  BY DEF Inlined
<1> HIDE DEF turns, Ls, list
<1>7. ForEach(turns, catalog) \in Said(D, Cat(L, FlattenSeq(Ls)))
  BY <1>2, <1>4, <1>5, ForEachServices
<1>8. QED
  BY <1>6, <1>7 DEF turns, list

LEMMA AddDatasetSaid ==
    ASSUME NEW D \in Seq(Dataset), NEW L \in Seq(DataService), NEW c \in Said(D, L),
           NEW value \in DatasetValue
    PROVE  AddDataset(c, value) \in Said(Cat(D, DatasetIn(value)), Cat(L, InlinedServices(value)))
<1>1. CASE ~HasId(value)
  <2>1. AddDataset(c, value) = c /\ DatasetIn(value) = <<>> /\ InlinedServices(value) = <<>>
    BY <1>1 DEF AddDataset, DatasetIn, InlinedServices
  <2>2. Cat(D, <<>>) = D /\ Cat(L, <<>>) = L
    BY ConcatNothing DEF Cat
  <2>3. QED
    BY <2>1, <2>2
<1>2. CASE HasId(value)
  <2> DEFINE turns == [i \in DOMAIN value.distribution |->
                          [k \in ParsedCatalog |-> AddInlined(k, value.distribution[i])]]
             After == ForEach(turns, c)
             x == DatasetOf(value)
             now == Append(After.datasets, x)
             new == [After EXCEPT !.datasets = now]
             M == Cat(L, Inlined(value))
  <2>1. AddDataset(c, value) = new
    BY <1>2 DEF AddDataset
  <2>2. After \in Said(D, M)
    BY InlinedSaid
  <2>3. x \in Dataset
    BY <1>2, DatasetTyped
  <2> HIDE DEF After, x, M, new
  <2>4. After \in ParsedCatalog /\ After.datasets = D /\ KeepsFirst(After.data_services, M)
    BY <2>2, SaidTyped
  <2>5. Append(D, x) = Cat(D, <<x>>) /\ Append(D, x) \in Seq(Dataset)
    BY <2>3 DEF Cat
  <2>6. now \in Seq(Dataset) /\ now = Cat(D, <<x>>)
    BY <2>4, <2>5
  <2> HIDE DEF now
  <2>7. new \in ParsedCatalog /\ new.datasets = now /\ new.data_services = After.data_services
    BY <2>4, <2>6, CatalogFields DEF new
  <2>8. new \in Said(Cat(D, <<x>>), M)
    BY <2>4, <2>6, <2>7 DEF Said
  <2>9. DatasetIn(value) = <<x>> /\ InlinedServices(value) = Inlined(value)
    BY <1>2 DEF DatasetIn, InlinedServices, x
  <2>10. QED
    BY <2>1, <2>8, <2>9 DEF M
<1>3. QED
  BY <1>1, <1>2

LEMMA AddDatasetsSaid ==
    ASSUME NEW D \in Seq(Dataset), NEW L \in Seq(DataService), NEW catalog \in Said(D, L),
           NEW values \in Seq(DatasetValue)
    PROVE  LET Ds == [i \in DOMAIN values |-> DatasetIn(values[i])]
               Ls == [i \in DOMAIN values |-> InlinedServices(values[i])]
           IN  /\ Ds \in Seq(Seq(Dataset)) /\ Ls \in Seq(Seq(DataService))
               /\ AddDatasets(catalog, values)
                     \in Said(Cat(D, FlattenSeq(Ds)), Cat(L, FlattenSeq(Ls)))
<1> DEFINE turns == [i \in DOMAIN values |->
                        [c \in ParsedCatalog |-> AddDataset(c, values[i])]]
           Ds == [i \in DOMAIN values |-> DatasetIn(values[i])]
           Ls == [i \in DOMAIN values |-> InlinedServices(values[i])]
<1>1. /\ DOMAIN values = 1 .. Len(values) /\ Len(values) \in Nat /\ Len(turns) = Len(values)
      /\ \A i \in 1 .. Len(values) : values[i] \in DatasetValue
  OBVIOUS
<1>2. ASSUME NEW value \in DatasetValue
      PROVE  DatasetIn(value) \in Seq(Dataset) /\ InlinedServices(value) \in Seq(DataService)
  BY DatasetTyped, InlinedTyped DEF DatasetIn, InlinedServices
<1>3. /\ Ds \in Seq(Seq(Dataset)) /\ Len(Ds) = Len(turns)
      /\ Ls \in Seq(Seq(DataService)) /\ Len(Ls) = Len(turns)
      /\ Len(turns) \in Nat
  BY <1>1, <1>2
<1>4. ASSUME NEW i \in 1 .. Len(turns) PROVE Says(turns[i], Ds[i], Ls[i])
  <2>1. i \in DOMAIN values /\ values[i] \in DatasetValue
    BY <1>1
  <2>2. \A c \in ParsedCatalog : turns[i][c] = AddDataset(c, values[i])
    BY <2>1
  <2>3. Ds[i] = DatasetIn(values[i]) /\ Ls[i] = InlinedServices(values[i])
    BY <2>1
  <2> HIDE DEF turns, Ds, Ls
  <2> SUFFICES ASSUME NEW Di \in Seq(Dataset), NEW Li \in Seq(DataService), NEW c \in Said(Di, Li)
               PROVE  turns[i][c] \in Said(Cat(Di, Ds[i]), Cat(Li, Ls[i]))
    BY DEF Says
  <2>4. c \in ParsedCatalog
    BY SaidTyped
  <2>5. AddDataset(c, values[i])
           \in Said(Cat(Di, DatasetIn(values[i])), Cat(Li, InlinedServices(values[i])))
    BY <2>1, AddDatasetSaid
  <2>6. QED
    BY <2>2, <2>3, <2>4, <2>5
<1>5. AddDatasets(catalog, values) = ForEach(turns, catalog)
  BY DEF AddDatasets
<1> HIDE DEF turns, Ds, Ls
<1>6. ForEach(turns, catalog) \in Said(Cat(D, FlattenSeq(Ds)), Cat(L, FlattenSeq(Ls)))
  BY <1>3, <1>4, ForEachSaid
<1>7. QED
  BY <1>3, <1>5, <1>6 DEF Ds, Ls

(* What an entry says itself.                                              *)
LEMMA CollectOwnSaid ==
    ASSUME NEW D \in Seq(Dataset), NEW L \in Seq(DataService), NEW catalog \in Said(D, L),
           NEW value, value.service \in Seq(ServiceValue), value.dataset \in Seq(DatasetValue)
    PROVE  /\ DatasetsListed(value) \in Seq(Dataset)
           /\ ServicesListed(value) \in Seq(DataService)
           /\ CollectOwn(catalog, value)
                 \in Said(Cat(D, DatasetsListed(value)), Cat(L, ServicesListed(value)))
<1> DEFINE listed == [i \in DOMAIN value.service |-> ServiceIn(value.service[i])]
           Ds == [i \in DOMAIN value.dataset |-> DatasetIn(value.dataset[i])]
           Ls == [i \in DOMAIN value.dataset |-> InlinedServices(value.dataset[i])]
           first == AddServices(catalog, value.service)
           M == Cat(L, FlattenSeq(listed))
<1>1. DatasetsListed(value) = FlattenSeq(Ds)
  BY DEF DatasetsListed, DatasetIn
<1>2. ServicesListed(value) = Cat(FlattenSeq(listed), FlattenSeq(Ls))
  BY DEF ServicesListed, InlinedServices, Cat
<1>3. listed \in Seq(Seq(DataService)) /\ first \in Said(D, M)
  BY AddServicesSaid
<1>4. CollectOwn(catalog, value) = AddDatasets(first, value.dataset)
  BY DEF CollectOwn
<1> HIDE DEF listed, first
<1>5. FlattenSeq(listed) \in Seq(DataService)
  BY <1>3, FlattenSteps
<1>6. M \in Seq(DataService)
  BY <1>5, CatThrice
<1> HIDE DEF M
<1>7. /\ Ds \in Seq(Seq(Dataset)) /\ Ls \in Seq(Seq(DataService))
      /\ AddDatasets(first, value.dataset) \in Said(Cat(D, FlattenSeq(Ds)), Cat(M, FlattenSeq(Ls)))
  BY <1>3, <1>6, AddDatasetsSaid
<1> HIDE DEF Ds, Ls
<1>8. FlattenSeq(Ds) \in Seq(Dataset) /\ FlattenSeq(Ls) \in Seq(DataService)
  BY <1>7, FlattenSteps
<1>9. /\ Cat(M, FlattenSeq(Ls)) = Cat(L, Cat(FlattenSeq(listed), FlattenSeq(Ls)))
      /\ Cat(FlattenSeq(listed), FlattenSeq(Ls)) \in Seq(DataService)
  BY <1>5, <1>8, CatThrice DEF M
<1>10. QED
  BY <1>1, <1>2, <1>4, <1>7, <1>8, <1>9

-----------------------------------------------------------------------------
(* The recursion.  The level of depth k is made from the one below it,     *)
(* which depth 0 has no use for.                                           *)
DocumentsOver(k, nested) ==
    [service : Seq(ServiceValue),
     dataset : Seq(DatasetValue),
     catalog : IF k = 0 THEN {<<>>} ELSE Seq(nested)]

LEMMA DocumentsDefined == DocumentOf = [k \in 0 .. MaxDepth |-> DocumentsOver(k, DocumentOf[k - 1])]
<1> DEFINE Prefix(f, k) == f = [j \in 0 .. k |-> DocumentsOver(j, f[j - 1])]
           T == {k \in 0 .. MaxDepth : \E f : Prefix(f, k)}
<1>1. \A x, y : DocumentsOver(0, x) = DocumentsOver(0, y)
  BY DEF DocumentsOver
<1>2. 0 \in T
  <2> DEFINE g == [j \in 0 .. 0 |-> DocumentsOver(0, {})]
  <2>1. \A j \in 0 .. 0 : j = 0 /\ g[j] = DocumentsOver(0, {}) /\ DocumentsOver(0, {}) = DocumentsOver(0, g[j - 1])
    BY <1>1
  <2>2. Prefix(g, 0)
    BY <2>1
  <2> HIDE DEF Prefix, g
  <2>3. QED
    BY <2>2, DepthAssumption
<1>3. ASSUME NEW k \in 1 .. MaxDepth, k - 1 \in T PROVE k \in T
  <2>1. PICK f : Prefix(f, k - 1)
    BY <1>3
  <2> DEFINE g == [j \in 0 .. k |-> IF j = k THEN DocumentsOver(k, f[k - 1]) ELSE f[j]]
  <2>2. \A j \in 0 .. k - 1 : g[j] = f[j] /\ f[j] = DocumentsOver(j, f[j - 1])
    BY <2>1
  <2>3. g[k] = DocumentsOver(k, f[k - 1])
    OBVIOUS
  <2>4. \A j \in 0 .. k : g[j] = DocumentsOver(j, g[j - 1])
    <3> HIDE DEF Prefix, g
    <3>1. g[k] = DocumentsOver(k, g[k - 1])
      BY <2>2, <2>3
    <3>2. g[0] = DocumentsOver(0, g[0 - 1])
      BY <1>1, <2>2
    <3>3. \A j \in 1 .. k - 1 : g[j] = DocumentsOver(j, g[j - 1])
      BY <2>2
    <3>4. \A j \in 0 .. k : j = 0 \/ j = k \/ j \in 1 .. k - 1
      OBVIOUS
    <3>5. QED
      BY <3>1, <3>2, <3>3, <3>4
  <2>5. Prefix(g, k)
    BY <2>4
  <2> HIDE DEF Prefix, g
  <2>6. QED
    BY <2>5
<1>4. \A k \in 0 .. MaxDepth : k \in T
  <2> HIDE DEF T
  <2>1. QED
    BY <1>2, <1>3, DepthAssumption, UpTo
<1>5. \E f : Prefix(f, MaxDepth)
  <2> HIDE DEF Prefix
  <2>1. QED
    BY <1>4, DepthAssumption
<1>6. QED
  BY <1>5 DEF DocumentOf, DocumentsOver

LEMMA DocumentFields ==
    ASSUME NEW k \in 0 .. MaxDepth, NEW value \in DocumentOf[k]
    PROVE  /\ value.service \in Seq(ServiceValue)
           /\ value.dataset \in Seq(DatasetValue)
           /\ DOMAIN value.catalog = 1 .. Len(value.catalog)
           /\ Len(value.catalog) \in Nat
           /\ k = 0 => value.catalog = <<>>
           /\ \A i \in DOMAIN value.catalog :
                 k # 0 /\ k - 1 \in 0 .. MaxDepth /\ value.catalog[i] \in DocumentOf[k - 1]
<1>1. value \in DocumentsOver(k, DocumentOf[k - 1])
  BY DocumentsDefined
<1>2. CASE k = 0
  <2>1. value.catalog = <<>>
    BY <1>1, <1>2 DEF DocumentsOver
  <2>2. DOMAIN value.catalog = 1 .. Len(value.catalog) /\ Len(value.catalog) = 0
    BY <2>1
  <2>3. QED
    BY <1>1, <1>2, <2>1, <2>2 DEF DocumentsOver
<1>3. CASE k # 0
  <2>1. value.catalog \in Seq(DocumentOf[k - 1])
    BY <1>1, <1>3 DEF DocumentsOver
  <2>2. k - 1 \in 0 .. MaxDepth
    BY <1>3, DepthAssumption
  <2>3. QED
    BY <1>1, <1>3, <2>1, <2>2 DEF DocumentsOver
<1>4. QED
  BY <1>2, <1>3

(* No documents are left for the level below depth 0.                      *)
LEMMA BottomEmpty == 0 \in 0 .. MaxDepth /\ \A value \in DocumentOf[0] : DOMAIN value.catalog = {}
<1>1. 0 \in 0 .. MaxDepth
  BY DepthAssumption
<1>2. ASSUME NEW value \in DocumentOf[0] PROVE DOMAIN value.catalog = {}
  <2>1. value.catalog = <<>>
    BY <1>1, DocumentFields
  <2>2. QED
    BY <2>1
<1>3. QED
  BY <1>1, <1>2

NestedTurns(value, lower) == [i \in DOMAIN value.catalog |-> lower[value.catalog[i]]]

CollectLevel(k, lower) ==
    [value \in DocumentOf[k] |-> [catalog \in ParsedCatalog |->
        ForEach(NestedTurns(value, lower), CollectOwn(catalog, value))]]

LEMMA CollectDefined == CollectTo = [k \in 0 .. MaxDepth |-> CollectLevel(k, CollectTo[k - 1])]
<1> DEFINE Prefix(f, k) == f = [j \in 0 .. k |-> CollectLevel(j, f[j - 1])]
           T == {k \in 0 .. MaxDepth : \E f : Prefix(f, k)}
<1>1. \A x, y : CollectLevel(0, x) = CollectLevel(0, y)
  <2>1. \A x, y : \A value \in DocumentOf[0] : NestedTurns(value, x) = NestedTurns(value, y)
    BY BottomEmpty DEF NestedTurns
  <2>2. QED
    BY <2>1 DEF CollectLevel
<1>2. 0 \in T
  <2> DEFINE g == [j \in 0 .. 0 |-> CollectLevel(0, {})]
  <2>1. \A j \in 0 .. 0 : j = 0 /\ g[j] = CollectLevel(0, {}) /\ CollectLevel(0, {}) = CollectLevel(0, g[j - 1])
    BY <1>1
  <2>2. Prefix(g, 0)
    BY <2>1
  <2> HIDE DEF Prefix, g
  <2>3. QED
    BY <2>2, DepthAssumption
<1>3. ASSUME NEW k \in 1 .. MaxDepth, k - 1 \in T PROVE k \in T
  <2>1. PICK f : Prefix(f, k - 1)
    BY <1>3
  <2> DEFINE g == [j \in 0 .. k |-> IF j = k THEN CollectLevel(k, f[k - 1]) ELSE f[j]]
  <2>2. \A j \in 0 .. k - 1 : g[j] = f[j] /\ f[j] = CollectLevel(j, f[j - 1])
    BY <2>1
  <2>3. g[k] = CollectLevel(k, f[k - 1])
    OBVIOUS
  <2>4. \A j \in 0 .. k : g[j] = CollectLevel(j, g[j - 1])
    <3> HIDE DEF Prefix, g
    <3>1. g[k] = CollectLevel(k, g[k - 1])
      BY <2>2, <2>3
    <3>2. g[0] = CollectLevel(0, g[0 - 1])
      BY <1>1, <2>2
    <3>3. \A j \in 1 .. k - 1 : g[j] = CollectLevel(j, g[j - 1])
      BY <2>2
    <3>4. \A j \in 0 .. k : j = 0 \/ j = k \/ j \in 1 .. k - 1
      OBVIOUS
    <3>5. QED
      BY <3>1, <3>2, <3>3, <3>4
  <2>5. Prefix(g, k)
    BY <2>4
  <2> HIDE DEF Prefix, g
  <2>6. QED
    BY <2>5
<1>4. \A k \in 0 .. MaxDepth : k \in T
  <2> HIDE DEF T
  <2>1. QED
    BY <1>2, <1>3, DepthAssumption, UpTo
<1>5. \E f : Prefix(f, MaxDepth)
  <2> HIDE DEF Prefix
  <2>1. QED
    BY <1>4, DepthAssumption
<1>6. QED
  BY <1>5 DEF CollectTo, CollectLevel, NestedTurns

EntriesLevel(k, lower) ==
    [document \in DocumentOf[k] |-> <<document>> \o FlattenSeq(NestedTurns(document, lower))]

LEMMA EntriesDefined == EntriesTo = [k \in 0 .. MaxDepth |-> EntriesLevel(k, EntriesTo[k - 1])]
<1> DEFINE Prefix(f, k) == f = [j \in 0 .. k |-> EntriesLevel(j, f[j - 1])]
           T == {k \in 0 .. MaxDepth : \E f : Prefix(f, k)}
<1>1. \A x, y : EntriesLevel(0, x) = EntriesLevel(0, y)
  <2>1. \A x, y : \A value \in DocumentOf[0] : NestedTurns(value, x) = NestedTurns(value, y)
    BY BottomEmpty DEF NestedTurns
  <2>2. QED
    BY <2>1 DEF EntriesLevel
<1>2. 0 \in T
  <2> DEFINE g == [j \in 0 .. 0 |-> EntriesLevel(0, {})]
  <2>1. \A j \in 0 .. 0 : j = 0 /\ g[j] = EntriesLevel(0, {}) /\ EntriesLevel(0, {}) = EntriesLevel(0, g[j - 1])
    BY <1>1
  <2>2. Prefix(g, 0)
    BY <2>1
  <2> HIDE DEF Prefix, g
  <2>3. QED
    BY <2>2, DepthAssumption
<1>3. ASSUME NEW k \in 1 .. MaxDepth, k - 1 \in T PROVE k \in T
  <2>1. PICK f : Prefix(f, k - 1)
    BY <1>3
  <2> DEFINE g == [j \in 0 .. k |-> IF j = k THEN EntriesLevel(k, f[k - 1]) ELSE f[j]]
  <2>2. \A j \in 0 .. k - 1 : g[j] = f[j] /\ f[j] = EntriesLevel(j, f[j - 1])
    BY <2>1
  <2>3. g[k] = EntriesLevel(k, f[k - 1])
    OBVIOUS
  <2>4. \A j \in 0 .. k : g[j] = EntriesLevel(j, g[j - 1])
    <3> HIDE DEF Prefix, g
    <3>1. g[k] = EntriesLevel(k, g[k - 1])
      BY <2>2, <2>3
    <3>2. g[0] = EntriesLevel(0, g[0 - 1])
      BY <1>1, <2>2
    <3>3. \A j \in 1 .. k - 1 : g[j] = EntriesLevel(j, g[j - 1])
      BY <2>2
    <3>4. \A j \in 0 .. k : j = 0 \/ j = k \/ j \in 1 .. k - 1
      OBVIOUS
    <3>5. QED
      BY <3>1, <3>2, <3>3, <3>4
  <2>5. Prefix(g, k)
    BY <2>4
  <2> HIDE DEF Prefix, g
  <2>6. QED
    BY <2>5
<1>4. \A k \in 0 .. MaxDepth : k \in T
  <2> HIDE DEF T
  <2>1. QED
    BY <1>2, <1>3, DepthAssumption, UpTo
<1>5. \E f : Prefix(f, MaxDepth)
  <2> HIDE DEF Prefix
  <2>1. QED
    BY <1>4, DepthAssumption
<1>6. QED
  BY <1>5 DEF EntriesTo, EntriesLevel, NestedTurns

-----------------------------------------------------------------------------
(* What a document says at whatever depth.                                 *)

Entry == UNION {DocumentOf[k] : k \in 0 .. MaxDepth}

LEMMA EntriesTyped ==
    \A k \in 0 .. MaxDepth : \A value \in DocumentOf[k] : EntriesTo[k][value] \in Seq(Entry)
<1> DEFINE Typed(k) == \A value \in DocumentOf[k] : EntriesTo[k][value] \in Seq(Entry)
           T == {k \in 0 .. MaxDepth : Typed(k)}
<1>1. ASSUME NEW k \in 0 .. MaxDepth, k # 0 => Typed(k - 1) PROVE Typed(k)
  <2> SUFFICES ASSUME NEW value \in DocumentOf[k] PROVE EntriesTo[k][value] \in Seq(Entry)
    OBVIOUS
  <2> DEFINE nested == NestedTurns(value, EntriesTo[k - 1])
  <2>1. EntriesTo[k][value] = <<value>> \o FlattenSeq(nested)
    <3>1. EntriesTo[k] = EntriesLevel(k, EntriesTo[k - 1])
      BY EntriesDefined
    <3>2. QED
      BY <3>1 DEF EntriesLevel
  <2>2. /\ DOMAIN nested = 1 .. Len(value.catalog) /\ Len(value.catalog) \in Nat
        /\ \A i \in DOMAIN nested : nested[i] \in Seq(Entry)
    BY <1>1, DocumentFields DEF NestedTurns
  <2>3. nested \in Seq(Seq(Entry))
    <3> HIDE DEF nested
    <3>1. nested = [i \in 1 .. Len(value.catalog) |-> nested[i]]
      <4>1. nested = [i \in DOMAIN nested |-> nested[i]]
        BY DEF nested, NestedTurns
      <4>2. QED
        BY <2>2, <4>1
    <3>2. QED
      BY <2>2, <3>1
  <2>4. FlattenSeq(nested) \in Seq(Entry)
    <3> HIDE DEF nested
    <3>1. QED
      BY <2>3, FlattenSteps
  <2>5. <<value>> \in Seq(Entry)
    BY DEF Entry
  <2> HIDE DEF nested
  <2>6. QED
    BY <2>1, <2>4, <2>5
<1>2. \A k \in 0 .. MaxDepth : k \in T
  <2> HIDE DEF Typed
  <2>1. 0 \in T
    BY <1>1, BottomEmpty
  <2>2. ASSUME NEW k \in 1 .. MaxDepth, k - 1 \in T PROVE k \in T
    BY <1>1, <2>2
  <2> HIDE DEF T
  <2>3. QED
    BY <2>1, <2>2, DepthAssumption, UpTo
<1>3. QED
  BY <1>2

LEMMA EntriesSet ==
    ASSUME NEW k \in 0 .. MaxDepth, NEW value \in DocumentOf[k]
    PROVE  ToSet(EntriesTo[k][value]) =
              {value} \union UNION {ToSet(EntriesTo[k - 1][value.catalog[i]])
                                       : i \in DOMAIN value.catalog}
<1> DEFINE nested == NestedTurns(value, EntriesTo[k - 1])
<1>1. EntriesTo[k][value] = <<value>> \o FlattenSeq(nested)
  <2>1. EntriesTo[k] = EntriesLevel(k, EntriesTo[k - 1])
    BY EntriesDefined
  <2>2. QED
    BY <2>1 DEF EntriesLevel
<1>2. /\ nested = [i \in 1 .. Len(value.catalog) |-> EntriesTo[k - 1][value.catalog[i]]]
      /\ DOMAIN value.catalog = 1 .. Len(value.catalog) /\ Len(value.catalog) \in Nat
  BY DocumentFields DEF NestedTurns
<1>3. \A i \in 1 .. Len(value.catalog) : EntriesTo[k - 1][value.catalog[i]] \in Seq(Entry)
  BY DocumentFields, EntriesTyped
<1> HIDE DEF nested
<1>4. nested \in Seq(Seq(Entry)) /\ Len(nested) = Len(value.catalog)
  BY <1>2, <1>3
<1>5. /\ FlattenSeq(nested) \in Seq(Entry)
      /\ ToSet(FlattenSeq(nested)) = UNION {ToSet(nested[i]) : i \in 1 .. Len(nested)}
  BY <1>4, FlattenSteps, FlattenMembers
<1>6. <<value>> \in Seq(Entry) /\ ToSet(<<value>>) = {value}
  BY DEF Entry, ToSet
<1>7. ToSet(EntriesTo[k][value]) = {value} \union ToSet(FlattenSeq(nested))
  <2>1. ToSet(<<value>> \o FlattenSeq(nested)) = ToSet(<<value>>) \union ToSet(FlattenSeq(nested))
    BY <1>5, <1>6, ConcatSet
  <2>2. QED
    BY <1>1, <1>6, <2>1
<1>8. UNION {ToSet(nested[i]) : i \in 1 .. Len(nested)}
         = UNION {ToSet(EntriesTo[k - 1][value.catalog[i]]) : i \in DOMAIN value.catalog}
  BY <1>2, <1>4
<1>9. QED
  BY <1>5, <1>7, <1>8

-----------------------------------------------------------------------------
(* The lists of all entries, and what is collected.                        *)

DatasetsFor == [entry \in Entry |-> DatasetsListed(entry)]
ServicesFor == [entry \in Entry |-> ServicesListed(entry)]

LEMMA ListedTyped ==
    /\ DatasetsFor \in ListFor(Entry, Dataset)
    /\ ServicesFor \in ListFor(Entry, DataService)
<1>1. ASSUME NEW entry \in Entry
      PROVE  DatasetsListed(entry) \in Seq(Dataset) /\ ServicesListed(entry) \in Seq(DataService)
  <2>1. PICK k \in 0 .. MaxDepth : entry \in DocumentOf[k]
    BY DEF Entry
  <2>2. entry.service \in Seq(ServiceValue) /\ entry.dataset \in Seq(DatasetValue)
    BY <2>1, DocumentFields
  <2>3. <<>> \in Seq(Dataset) /\ <<>> \in Seq(DataService)
    OBVIOUS
  <2>4. QED
    BY <2>2, <2>3, SaidNothing, CollectOwnSaid
<1>2. QED
  BY <1>1 DEF DatasetsFor, ServicesFor, ListFor

(* The lists for an entry, then those for its nested catalogs.             *)
NestedLists(F, k, value) ==
    [i \in 1 .. Len(value.catalog) |-> Joined(F, EntriesTo[k - 1][value.catalog[i]])]

LEMMA JoinedEntries ==
    ASSUME NEW k \in 0 .. MaxDepth, NEW value \in DocumentOf[k],
           NEW S, NEW F, F \in ListFor(Entry, S)
    PROVE  LET parts == NestedLists(F, k, value)
           IN  /\ parts \in Seq(Seq(S)) /\ Len(parts) = Len(value.catalog)
               /\ Joined(F, EntriesTo[k][value]) = Cat(F[value], FlattenSeq(parts))
               /\ F[value] \in Seq(S) /\ FlattenSeq(parts) \in Seq(S)
<1> DEFINE nested == NestedTurns(value, EntriesTo[k - 1])
           n == Len(value.catalog)
           parts == NestedLists(F, k, value)
<1>1. EntriesTo[k][value] = Cat(<<value>>, FlattenSeq(nested))
  <2>1. EntriesTo[k] = EntriesLevel(k, EntriesTo[k - 1])
    BY EntriesDefined
  <2>2. QED
    BY <2>1 DEF EntriesLevel, Cat
<1>2. /\ nested = [i \in 1 .. n |-> EntriesTo[k - 1][value.catalog[i]]]
      /\ DOMAIN value.catalog = 1 .. n /\ n \in Nat
  BY DocumentFields DEF NestedTurns
<1>3. \A i \in 1 .. n : EntriesTo[k - 1][value.catalog[i]] \in Seq(Entry)
  BY DocumentFields, EntriesTyped
<1>4. /\ parts = [i \in 1 .. n |-> parts[i]]
      /\ \A i \in 1 .. n : parts[i] = Joined(F, EntriesTo[k - 1][value.catalog[i]])
  BY DEF NestedLists
<1> HIDE DEF nested, n, parts
<1>5. /\ \A i \in 1 .. n : nested[i] = EntriesTo[k - 1][value.catalog[i]]
      /\ nested \in Seq(Seq(Entry)) /\ Len(nested) = n
  BY <1>2, <1>3
<1>6. \A i \in 1 .. n : parts[i] = Joined(F, nested[i])
  BY <1>5, <1>4
<1>7. \A i \in 1 .. n : parts[i] \in Seq(S)
  <2>1. \A i \in 1 .. n : nested[i] \in Seq(Entry)
    BY <1>3, <1>5
  <2>2. QED
    BY <1>6, <2>1, MappedTyped
<1>8. parts \in Seq(Seq(S)) /\ Len(parts) = n
  BY <1>2, <1>7, <1>4, ListTyped
<1>9. Joined(F, FlattenSeq(nested)) = FlattenSeq(parts)
  BY <1>5, <1>6, <1>8, JoinedFlatten
<1>10. FlattenSeq(nested) \in Seq(Entry) /\ FlattenSeq(parts) \in Seq(S)
  BY <1>5, <1>8, FlattenSteps
<1>11. value \in Entry /\ <<value>> \in Seq(Entry)
  BY DEF Entry
<1>12. Joined(F, Cat(<<value>>, FlattenSeq(nested)))
          = Cat(Joined(F, <<value>>), Joined(F, FlattenSeq(nested)))
  <2> DEFINE one == <<value>>
  <2>1. one \in Seq(Entry)
    BY <1>11
  <2> HIDE DEF one
  <2>2. Joined(F, Cat(one, FlattenSeq(nested))) = Cat(Joined(F, one), Joined(F, FlattenSeq(nested)))
    BY <1>10, <2>1, JoinedCat
  <2>3. QED
    BY <2>2 DEF one
<1>13. Joined(F, <<value>>) = F[value] /\ F[value] \in Seq(S)
  BY <1>11, JoinedOne DEF ListFor
<1>14. Joined(F, EntriesTo[k][value]) = Cat(F[value], FlattenSeq(parts))
  BY <1>1, <1>9, <1>12, <1>13
<1>15. QED
  BY <1>8, <1>10, <1>13, <1>14 DEF parts, n

LEMMA CollectToSaid ==
    \A k \in 0 .. MaxDepth : \A value \in DocumentOf[k] :
        Says(CollectTo[k][value], Joined(DatasetsFor, EntriesTo[k][value]),
                                  Joined(ServicesFor, EntriesTo[k][value]))
<1> DEFINE Right(k) ==
              \A value \in DocumentOf[k] :
                 Says(CollectTo[k][value], Joined(DatasetsFor, EntriesTo[k][value]),
                                           Joined(ServicesFor, EntriesTo[k][value]))
           T == {k \in 0 .. MaxDepth : Right(k)}
<1>1. ASSUME NEW k \in 0 .. MaxDepth, k # 0 => Right(k - 1) PROVE Right(k)
  <2> SUFFICES ASSUME NEW value \in DocumentOf[k],
                      NEW D \in Seq(Dataset), NEW L \in Seq(DataService), NEW c \in Said(D, L)
               PROVE  CollectTo[k][value][c]
                         \in Said(Cat(D, Joined(DatasetsFor, EntriesTo[k][value])),
                                  Cat(L, Joined(ServicesFor, EntriesTo[k][value])))
    BY DEF Says
  <2> DEFINE turns == NestedTurns(value, CollectTo[k - 1])
             n == Len(value.catalog)
             own == CollectOwn(c, value)
             Ds == NestedLists(DatasetsFor, k, value)
             Ls == NestedLists(ServicesFor, k, value)
             D2 == Cat(D, DatasetsListed(value))
             L2 == Cat(L, ServicesListed(value))
  <2>1. CollectTo[k][value][c] = ForEach(turns, own)
    <3>1. CollectTo[k] = CollectLevel(k, CollectTo[k - 1])
      BY CollectDefined
    <3>2. c \in ParsedCatalog
      BY SaidTyped
    <3>3. QED
      BY <3>1, <3>2 DEF CollectLevel
  <2>2. value.service \in Seq(ServiceValue) /\ value.dataset \in Seq(DatasetValue)
    BY DocumentFields
  <2>3. /\ DatasetsListed(value) \in Seq(Dataset) /\ ServicesListed(value) \in Seq(DataService)
        /\ own \in Said(D2, L2)
    BY <2>2, CollectOwnSaid
  <2>4. D2 \in Seq(Dataset) /\ L2 \in Seq(DataService)
    BY <2>3, CatThrice
  <2>5. n \in Nat /\ DOMAIN value.catalog = 1 .. n
    BY DocumentFields
  <2>6. Len(turns) = n /\ \A i \in 1 .. n : turns[i] = CollectTo[k - 1][value.catalog[i]]
    BY <2>5 DEF NestedTurns
  <2>7. value \in Entry /\ DatasetsFor[value] = DatasetsListed(value)
        /\ ServicesFor[value] = ServicesListed(value)
    BY DEF Entry, DatasetsFor, ServicesFor
  <2>8. /\ Ds \in Seq(Seq(Dataset)) /\ Len(Ds) = n /\ FlattenSeq(Ds) \in Seq(Dataset)
        /\ Joined(DatasetsFor, EntriesTo[k][value]) = Cat(DatasetsListed(value), FlattenSeq(Ds))
    BY <2>7, ListedTyped, JoinedEntries
  <2>9. /\ Ls \in Seq(Seq(DataService)) /\ Len(Ls) = n /\ FlattenSeq(Ls) \in Seq(DataService)
        /\ Joined(ServicesFor, EntriesTo[k][value]) = Cat(ServicesListed(value), FlattenSeq(Ls))
    BY <2>7, ListedTyped, JoinedEntries
  <2>10. ASSUME NEW i \in 1 .. n PROVE Says(turns[i], Ds[i], Ls[i])
    <3>1. k # 0 /\ value.catalog[i] \in DocumentOf[k - 1]
      BY <2>5, DocumentFields
    <3>2. Says(CollectTo[k - 1][value.catalog[i]],
               Joined(DatasetsFor, EntriesTo[k - 1][value.catalog[i]]),
               Joined(ServicesFor, EntriesTo[k - 1][value.catalog[i]]))
      BY <1>1, <3>1
    <3>3. /\ Ds[i] = Joined(DatasetsFor, EntriesTo[k - 1][value.catalog[i]])
          /\ Ls[i] = Joined(ServicesFor, EntriesTo[k - 1][value.catalog[i]])
      BY DEF NestedLists
    <3> HIDE DEF Ds, Ls, turns
    <3>4. QED
      BY <2>6, <3>2, <3>3
  <2> HIDE DEF turns, n, own, Ds, Ls, D2, L2
  <2>11. ForEach(turns, own) \in Said(Cat(D2, FlattenSeq(Ds)), Cat(L2, FlattenSeq(Ls)))
    <3>1. Len(turns) \in Nat /\ Len(Ds) = Len(turns) /\ Len(Ls) = Len(turns)
      BY <2>5, <2>6, <2>8, <2>9
    <3>2. \A i \in 1 .. Len(turns) : Says(turns[i], Ds[i], Ls[i])
      BY <2>6, <2>10
    <3>3. QED
      BY <2>3, <2>4, <2>8, <2>9, <3>1, <3>2, ForEachSaid
  <2>12. Cat(D2, FlattenSeq(Ds)) = Cat(D, Cat(DatasetsListed(value), FlattenSeq(Ds)))
    BY <2>3, <2>8, CatThrice DEF D2
  <2>13. Cat(L2, FlattenSeq(Ls)) = Cat(L, Cat(ServicesListed(value), FlattenSeq(Ls)))
    BY <2>3, <2>9, CatThrice DEF L2
  <2>14. QED
    BY <2>1, <2>8, <2>9, <2>11, <2>12, <2>13
<1>2. \A k \in 0 .. MaxDepth : k \in T
  <2> HIDE DEF Right
  <2>1. 0 \in T
    BY <1>1, BottomEmpty
  <2>2. ASSUME NEW k \in 1 .. MaxDepth, k - 1 \in T PROVE k \in T
    BY <1>1, <2>2
  <2> HIDE DEF T
  <2>3. QED
    BY <2>1, <2>2, DepthAssumption, UpTo
<1>3. QED
  BY <1>2

(* What parse_catalog_response collects, entry by entry.                   *)
LEMMA ParserKeepsLists ==
    ASSUME NEW document \in Document
    PROVE  LET parsed  == ParseCatalogResponse(document)
               entries == Entries(document)
           IN  /\ parsed \in ParsedCatalog
               /\ parsed.datasets = Joined(DatasetsFor, entries)
               /\ KeepsFirst(parsed.data_services, Joined(ServicesFor, entries))
<1> DEFINE parsed  == ParseCatalogResponse(document)
           entries == Entries(document)
           D == Joined(DatasetsFor, entries)
           L == Joined(ServicesFor, entries)
<1>1. MaxDepth \in 0 .. MaxDepth /\ document \in DocumentOf[MaxDepth]
  BY DepthAssumption DEF Document
<1>2. entries \in Seq(Entry)
  BY <1>1, EntriesTyped DEF Entries
<1>3. D \in Seq(Dataset) /\ L \in Seq(DataService)
  <2> HIDE DEF entries
  <2>1. QED
    BY <1>2, ListedTyped, MappedTyped
<1>4. parsed \in Said(Cat(<<>>, D), Cat(<<>>, L))
  <2>1. Says(CollectTo[MaxDepth][document], D, L)
    BY <1>1, CollectToSaid DEF Entries
  <2>2. parsed = CollectTo[MaxDepth][document][NothingCollected]
    BY DEF ParseCatalogResponse, Collect
  <2>3. <<>> \in Seq(Dataset) /\ <<>> \in Seq(DataService)
    OBVIOUS
  <2> HIDE DEF parsed, D, L
  <2>4. QED
    BY <2>1, <2>2, <2>3, SaidNothing DEF Says
<1>5. Cat(<<>>, D) = D /\ Cat(<<>>, L) = L
  <2> HIDE DEF D, L
  <2>1. QED
    BY <1>3, ConcatNothing DEF Cat
<1> HIDE DEF parsed, D, L
<1>6. parsed \in ParsedCatalog /\ parsed.datasets = D /\ KeepsFirst(parsed.data_services, L)
  BY <1>4, <1>5, SaidTyped
<1>7. QED
  BY <1>6 DEF parsed, D, L

(***************************************************************************)
(* parse_catalog_response, of a document of any width and depth: its       *)
(* datasets are those the document and the catalogs nested in it list,     *)
(* each once for each time it is listed and in that order; of each service *)
(* id it holds one service, the one the document says first.               *)
(***************************************************************************)
THEOREM ParserKeepsOrder ==
    ASSUME NEW document \in Document
    PROVE  LET parsed == ParseCatalogResponse(document)
           IN  HoldsEveryDataset(parsed, document) /\ HoldsFirstServices(parsed, document)
<1> DEFINE entries == Entries(document)
<1>1. \A i \in DOMAIN entries : entries[i] \in Entry
  BY DepthAssumption, EntriesTyped DEF Document, Entries
<1> HIDE DEF entries
<1>2. /\ Mapped(DatasetsFor, entries) = [i \in DOMAIN entries |-> DatasetsListed(entries[i])]
      /\ Mapped(ServicesFor, entries) = [i \in DOMAIN entries |-> ServicesListed(entries[i])]
  BY <1>1 DEF Mapped, DatasetsFor, ServicesFor
<1>3. /\ DatasetsIn(document) = Joined(DatasetsFor, entries)
      /\ ServicesIn(document) = Joined(ServicesFor, entries)
  BY <1>2 DEF DatasetsIn, ServicesIn, Joined, entries
<1>4. QED
  BY <1>3, ParserKeepsLists DEF HoldsEveryDataset, HoldsFirstServices, entries

-----------------------------------------------------------------------------
(* What an entry lists, as sets.                                           *)

LEMMA DatasetsListedSet ==
    ASSUME NEW entry, entry.dataset \in Seq(DatasetValue)
    PROVE  ToSet(DatasetsListed(entry)) = DatasetsSaid(entry)
<1> DEFINE values == entry.dataset
           n == Len(values)
           Ds == [i \in DOMAIN values |-> DatasetIn(values[i])]
<1>1. /\ n \in Nat /\ DOMAIN values = 1 .. n
      /\ \A i \in 1 .. n : values[i] \in DatasetValue
  OBVIOUS
<1>2. /\ \A i \in 1 .. n : Ds[i] = DatasetIn(values[i])
      /\ Ds = [i \in 1 .. n |-> Ds[i]]
  BY <1>1
<1>3. DatasetsListed(entry) = FlattenSeq(Ds)
  BY DEF DatasetsListed, DatasetIn
<1> HIDE DEF Ds, n, values
<1>4. Ds \in Seq(Seq(Dataset)) /\ Len(Ds) = n
  <2>1. ASSUME NEW v \in DatasetValue PROVE DatasetIn(v) \in Seq(Dataset)
    BY DatasetTyped DEF DatasetIn
  <2>2. \A i \in 1 .. n : Ds[i] \in Seq(Dataset)
    BY <1>1, <1>2, <2>1
  <2>3. QED
    BY <1>1, <1>2, <2>2, ListTyped
<1>5. ToSet(FlattenSeq(Ds)) = UNION {ToSet(Ds[i]) : i \in 1 .. n}
  BY <1>4, FlattenMembers
<1>6. \A v : ToSet(DatasetIn(v)) = IF HasId(v) THEN {DatasetOf(v)} ELSE {}
  BY DEF DatasetIn, ToSet
<1> DEFINE named == {j \in 1 .. n : HasId(values[j])}
<1>7. UNION {ToSet(Ds[i]) : i \in 1 .. n} = {DatasetOf(values[i]) : i \in named}
  BY <1>2, <1>6
<1>8. DatasetsSaid(entry) = {DatasetOf(values[i]) : i \in named}
  <2>1. Named(values) = {values[i] : i \in named}
    BY <1>1 DEF Named, ToSet
  <2> HIDE DEF named
  <2>2. QED
    BY <2>1 DEF DatasetsSaid, values
<1>9. QED
  BY <1>3, <1>5, <1>7, <1>8

LEMMA ServiceInSet == \A v : ToSet(ServiceIn(v)) = IF HasId(v) THEN {DataServiceOf(v)} ELSE {}
BY DEF ServiceIn, ToSet

(* The services given in place by a dataset.                               *)
InPlace(value) == {DataServiceOf(a.value) : a \in {x \in ObjectsOf(value) : HasId(x.value)}}

LEMMA InlinedSet ==
    ASSUME NEW value \in DatasetValue
    PROVE  ToSet(Inlined(value)) = InPlace(value)
<1> DEFINE list == value.distribution
           n == Len(list)
           InOf(a) == IF a.kind = "object" THEN ServiceIn(a.value) ELSE <<>>
           Ls == [i \in DOMAIN list |-> InOf(list[i])]
<1>1. list \in Seq(AccessValue)
  BY DEF DatasetValue
<1>2. /\ n \in Nat /\ DOMAIN list = 1 .. n /\ \A i \in 1 .. n : list[i] \in AccessValue
  BY <1>1
<1>3. \A i \in 1 .. n : InOf(list[i]) \in Seq(DataService)
  <2>1. ASSUME NEW a \in AccessValue PROVE InOf(a) \in Seq(DataService)
    <3>1. a.kind = "object" => a.value \in ServiceValue
      BY DEF AccessValue
    <3>2. QED
      BY <3>1, ServiceInTyped
  <2> HIDE DEF InOf
  <2>2. QED
    BY <1>2, <2>1
<1>4. Inlined(value) = FlattenSeq(Ls)
  BY DEF Inlined
<1> HIDE DEF InOf
<1>5. \A i \in 1 .. n : Ls[i] = InOf(list[i])
  BY <1>2
<1>6. Ls = [i \in 1 .. n |-> Ls[i]]
  BY <1>2
<1> HIDE DEF Ls, list, n
<1>7. Ls \in Seq(Seq(DataService)) /\ Len(Ls) = n
  BY <1>2, <1>3, <1>5, <1>6, ListTyped
<1>8. ToSet(FlattenSeq(Ls)) = UNION {ToSet(Ls[i]) : i \in 1 .. n}
  BY <1>7, FlattenMembers
<1>9. \A a : ToSet(InOf(a)) = IF a.kind = "object" /\ HasId(a.value)
                              THEN {DataServiceOf(a.value)} ELSE {}
  <2>1. ToSet(<<>>) = {}
    BY DEF ToSet
  <2>2. QED
    BY <2>1, ServiceInSet DEF InOf
<1> DEFINE objects == {j \in 1 .. n : list[j].kind = "object" /\ HasId(list[j].value)}
<1>10. UNION {ToSet(Ls[i]) : i \in 1 .. n} = {DataServiceOf(list[i].value) : i \in objects}
  BY <1>5, <1>9
<1>11. InPlace(value) = {DataServiceOf(list[i].value) : i \in objects}
  <2>1. {x \in ObjectsOf(value) : HasId(x.value)} = {list[i] : i \in objects}
    BY <1>2 DEF ObjectsOf, ToSet, list
  <2> HIDE DEF objects
  <2>2. QED
    BY <2>1 DEF InPlace
<1>12. QED
  BY <1>4, <1>8, <1>10, <1>11

LEMMA ServicesListedSet ==
    ASSUME NEW entry, entry.service \in Seq(ServiceValue), entry.dataset \in Seq(DatasetValue)
    PROVE  ToSet(ServicesListed(entry)) = ServicesSaid(entry)
<1> DEFINE values == entry.service
           m == Len(values)
           listed == [i \in DOMAIN values |-> ServiceIn(values[i])]
           given == entry.dataset
           n == Len(given)
           Ls == [i \in DOMAIN given |-> InlinedServices(given[i])]
<1>1. /\ m \in Nat /\ DOMAIN values = 1 .. m /\ \A i \in 1 .. m : values[i] \in ServiceValue
      /\ n \in Nat /\ DOMAIN given = 1 .. n /\ \A i \in 1 .. n : given[i] \in DatasetValue
  OBVIOUS
<1>2. ServicesListed(entry) = Cat(FlattenSeq(listed), FlattenSeq(Ls))
  BY DEF ServicesListed, InlinedServices, Cat
<1>3. /\ \A i \in 1 .. m : listed[i] = ServiceIn(values[i])
      /\ listed = [i \in 1 .. m |-> listed[i]]
  BY <1>1
<1>4. /\ \A i \in 1 .. n : Ls[i] = InlinedServices(given[i])
      /\ Ls = [i \in 1 .. n |-> Ls[i]]
  BY <1>1
<1> HIDE DEF listed, Ls
<1>5. \A i \in 1 .. m : listed[i] \in Seq(DataService)
  BY <1>1, <1>3, ServiceInTyped
<1>6. \A i \in 1 .. n : Ls[i] \in Seq(DataService)
  <2>1. ASSUME NEW i \in 1 .. n PROVE InlinedServices(given[i]) \in Seq(DataService)
    BY <1>1, InlinedTyped DEF InlinedServices
  <2>2. QED
    BY <1>4, <2>1
<1> HIDE DEF values, given, m, n
<1>7. /\ listed \in Seq(Seq(DataService)) /\ Len(listed) = m
      /\ Ls \in Seq(Seq(DataService)) /\ Len(Ls) = n
  BY <1>1, <1>3, <1>4, <1>5, <1>6, ListTyped
<1>8. FlattenSeq(listed) \in Seq(DataService) /\ FlattenSeq(Ls) \in Seq(DataService)
  BY <1>7, FlattenSteps
<1>9. ToSet(ServicesListed(entry)) = ToSet(FlattenSeq(listed)) \union ToSet(FlattenSeq(Ls))
  BY <1>2, <1>8, ConcatSet DEF Cat
<1>10. ToSet(FlattenSeq(listed)) = {DataServiceOf(v) : v \in Named(values)}
  <2>1. ToSet(FlattenSeq(listed)) = UNION {ToSet(ServiceIn(values[i])) : i \in 1 .. m}
    <3>1. ToSet(FlattenSeq(listed)) = UNION {ToSet(listed[i]) : i \in 1 .. m}
      BY <1>7, FlattenMembers
    <3>2. QED
      BY <1>3, <3>1
  <2>2. Named(values) = {values[i] : i \in {j \in 1 .. m : HasId(values[j])}}
    BY <1>1 DEF Named, ToSet
  <2>3. QED
    BY <2>1, <2>2, ServiceInSet
<1>11. ToSet(FlattenSeq(Ls)) = UNION {InPlace(v) : v \in Named(given)}
  <2>1. ToSet(FlattenSeq(Ls)) = UNION {ToSet(InlinedServices(given[i])) : i \in 1 .. n}
    <3>1. ToSet(FlattenSeq(Ls)) = UNION {ToSet(Ls[i]) : i \in 1 .. n}
      BY <1>7, FlattenMembers
    <3>2. QED
      BY <1>4, <3>1
  <2>2. Named(given) = {given[i] : i \in {j \in 1 .. n : HasId(given[j])}}
    BY <1>1 DEF Named, ToSet
  <2>3. ASSUME NEW i \in 1 .. n
        PROVE  ToSet(InlinedServices(given[i])) = IF HasId(given[i]) THEN InPlace(given[i]) ELSE {}
    <3>1. ToSet(<<>>) = {}
      BY DEF ToSet
    <3>2. QED
      BY <1>1, <3>1, InlinedSet DEF InlinedServices
  <2>4. QED
    BY <2>1, <2>2, <2>3
<1>12. UNION {InPlace(v) : v \in Named(given)}
          = {DataServiceOf(a.value) :
                a \in {x \in UNION {ObjectsOf(v) : v \in Named(given)} : HasId(x.value)}}
  BY DEF InPlace
<1>13. QED
  BY <1>9, <1>10, <1>11, <1>12 DEF ServicesSaid, values, given

-----------------------------------------------------------------------------
AllDatasets(entries) == UNION {DatasetsSaid(entry) : entry \in entries}
AllServices(entries) == UNION {ServicesSaid(entry) : entry \in entries}

LEMMA AllListed ==
    ASSUME NEW entries \in Seq(Entry)
    PROVE  /\ ToSet(Joined(DatasetsFor, entries)) = AllDatasets(ToSet(entries))
           /\ ToSet(Joined(ServicesFor, entries)) = AllServices(ToSet(entries))
<1>1. ASSUME NEW entry \in ToSet(entries)
      PROVE  /\ ToSet(DatasetsFor[entry]) = DatasetsSaid(entry)
             /\ ToSet(ServicesFor[entry]) = ServicesSaid(entry)
  <2>1. entry \in Entry
    BY DEF ToSet
  <2>2. PICK k \in 0 .. MaxDepth : entry \in DocumentOf[k]
    BY <2>1 DEF Entry
  <2>3. entry.service \in Seq(ServiceValue) /\ entry.dataset \in Seq(DatasetValue)
    BY <2>2, DocumentFields
  <2>4. DatasetsFor[entry] = DatasetsListed(entry) /\ ServicesFor[entry] = ServicesListed(entry)
    BY <2>1 DEF DatasetsFor, ServicesFor
  <2>5. QED
    BY <2>3, <2>4, DatasetsListedSet, ServicesListedSet
<1>2. /\ ToSet(Joined(DatasetsFor, entries)) = UNION {ToSet(DatasetsFor[e]) : e \in ToSet(entries)}
      /\ ToSet(Joined(ServicesFor, entries)) = UNION {ToSet(ServicesFor[e]) : e \in ToSet(entries)}
  BY ListedTyped, JoinedSet
<1>3. QED
  BY <1>1, <1>2 DEF AllDatasets, AllServices

(***************************************************************************)
(* The same without order: it keeps the datasets with an id that the       *)
(* document or a catalog nested in it lists, and no others; and of each    *)
(* service id that is mentioned a service, as it is mentioned somewhere.   *)
(***************************************************************************)
THEOREM ParserKeepsWhatIsSaid ==
    ASSUME NEW document \in Document
    PROVE  LET parsed  == ParseCatalogResponse(document)
               entries == ToSet(Entries(document))
           IN  /\ parsed \in ParsedCatalog
               /\ ToSet(parsed.datasets) = AllDatasets(entries)
               /\ ToSet(parsed.data_services) \subseteq AllServices(entries)
               /\ \A s \in AllServices(entries) :
                      \E t \in ToSet(parsed.data_services) : t.id = s.id
<1> DEFINE parsed  == ParseCatalogResponse(document)
           entries == Entries(document)
           kept    == parsed.data_services
           said    == Joined(ServicesFor, entries)
<1>1. entries \in Seq(Entry)
  BY DepthAssumption, EntriesTyped DEF Document, Entries
<1>2. /\ parsed \in ParsedCatalog /\ parsed.datasets = Joined(DatasetsFor, entries)
      /\ KeepsFirst(kept, said)
  BY ParserKeepsLists
<1> HIDE DEF parsed, entries
<1>3. /\ ToSet(parsed.datasets) = AllDatasets(ToSet(entries))
      /\ ToSet(said) = AllServices(ToSet(entries))
  BY <1>1, <1>2, AllListed
<1> HIDE DEF kept, said
<1>4. ToSet(kept) \subseteq ToSet(said)
  BY <1>2 DEF KeepsFirst, ToSet
<1>5. \A s \in ToSet(said) : \E t \in ToSet(kept) : t.id = s.id
  BY <1>2 DEF KeepsFirst, ToSet
<1>6. QED
  BY <1>2, <1>3, <1>4, <1>5 DEF parsed, entries, kept
=============================================================================
