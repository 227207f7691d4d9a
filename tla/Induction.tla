------------------------------- MODULE Induction -------------------------------
(***************************************************************************)
(* Induction and recursion in a form that needs no operator as a           *)
(* parameter: a property is given by the set of the numbers that have it,  *)
(* a step of a recursion by a function.  Both follow from the theorem that *)
(* a well-founded relation has minimal elements.                           *)
(***************************************************************************)
EXTENDS Integers, SequencesExt, SequenceTheorems, WellFoundedInduction, TLAPS

(* A set of natural numbers that is not empty has a smallest element.      *)
LEMMA SmallestElement ==
    ASSUME NEW T, T \subseteq Nat, T # {}
    PROVE  \E x \in T : \A y \in T : x <= y
<1> DEFINE R == OpToRel(<, Nat)
<1>1. IsWellFoundedOn(R, Nat)
    BY NatLessThanWellFounded
<1>2. \A x, y \in Nat : x < y => <<x, y>> \in R
    BY DEF OpToRel
<1> HIDE DEF R
<1>3. PICK x \in T : \A y \in T : ~(<<y, x>> \in R)
    BY <1>1, WFMin
<1>4. ASSUME NEW y \in T PROVE x <= y
    <2>1. x \in Nat /\ y \in Nat /\ ~(y < x)
        BY <1>2, <1>3
    <2> QED BY <2>1
<1> QED BY <1>3, <1>4

(* A set with 0 and the successors of its members holds every number.      *)
LEMMA SetInduction ==
    ASSUME NEW S, 0 \in S, \A n \in Nat : n \in S => n + 1 \in S
    PROVE  \A n \in Nat : n \in S
<1> DEFINE T == {n \in Nat : n \notin S}
<1>1. SUFFICES ASSUME T # {} PROVE FALSE
    OBVIOUS
<1>2. PICK x \in T : \A y \in T : x <= y
    BY <1>1, SmallestElement
<1>3. x # 0 /\ x \in Nat /\ x - 1 \in Nat /\ x - 1 < x /\ (x - 1) + 1 = x
    BY <1>2
<1>4. x - 1 \in S
    BY <1>2, <1>3
<1> QED BY <1>2, <1>3, <1>4

(* f follows from its value e at 0 by the steps G, up to N.                *)
Solves(f, S, e, G, N) ==
    /\ f \in [0 .. N -> S]
    /\ f[0] = e
    /\ \A i \in 1 .. N : f[i] = G[i][f[i - 1]]

(* A value at 0 and a step from each value to the next define a function.  *)
LEMMA FiniteRecursion ==
    ASSUME NEW S, NEW e \in S, NEW G \in [Nat -> [S -> S]], NEW N \in Nat
    PROVE  \E f : Solves(f, S, e, G, N)
<1> DEFINE T == {n \in Nat : \E f : Solves(f, S, e, G, n)}
<1>1. 0 \in T
    <2>1. Solves([i \in 0 .. 0 |-> e], S, e, G, 0)
        BY DEF Solves
    <2> QED BY <2>1
<1>2. ASSUME NEW n \in Nat, n \in T PROVE n + 1 \in T
    <2>1. PICK f : Solves(f, S, e, G, n)
        BY <1>2
    <2> DEFINE g == [i \in 0 .. n + 1 |-> IF i <= n THEN f[i] ELSE G[n + 1][f[n]]]
    <2>2. f[n] \in S /\ G[n + 1] \in [S -> S] /\ G[n + 1][f[n]] \in S
        BY <2>1 DEF Solves
    <2>3. g \in [0 .. n + 1 -> S]
        BY <2>1, <2>2 DEF Solves
    <2>4. g[0] = e
        BY <2>1 DEF Solves
    <2>5. ASSUME NEW i \in 1 .. n + 1 PROVE g[i] = G[i][g[i - 1]]
        <3>1. i - 1 \in 0 .. n /\ g[i - 1] = f[i - 1]
            BY <2>5
        <3>2. CASE i <= n
            <4>1. i \in 1 .. n /\ g[i] = f[i]
                BY <2>5, <3>2
            <4> QED BY <2>1, <3>1, <4>1 DEF Solves
        <3>3. CASE i = n + 1
            <4>1. g[i] = G[n + 1][f[n]] /\ i - 1 = n
                BY <3>3
            <4> QED BY <3>1, <3>3, <4>1
        <3> QED BY <2>5, <3>2, <3>3
    <2> HIDE DEF g
    <2>6. Solves(g, S, e, G, n + 1)
        BY <2>3, <2>4, <2>5 DEF Solves
    <2> QED BY <2>6
<1> HIDE DEF T
<1>3. N \in T
    BY <1>1, <1>2, SetInduction
<1> QED BY <1>3 DEF T

-----------------------------------------------------------------------------
(* Sequences *)

(* A set with the empty sequence and, with a sequence, every longer one by *)
(* an element holds every sequence.                                        *)
LEMMA SequenceInduction ==
    ASSUME NEW S, NEW T, <<>> \in T,
           \A s \in Seq(S) : \A x \in S : s \in T => Append(s, x) \in T
    PROVE  \A s \in Seq(S) : s \in T
<1> DEFINE L == {n \in Nat : \A s \in Seq(S) : Len(s) = n => s \in T}
<1>1. 0 \in L
    <2>1. \A s \in Seq(S) : Len(s) = 0 => s = <<>>
        OBVIOUS
    <2> QED BY <2>1
<1>2. ASSUME NEW n \in Nat, n \in L PROVE n + 1 \in L
    <2> SUFFICES ASSUME NEW s \in Seq(S), Len(s) = n + 1 PROVE s \in T
        OBVIOUS
    <2>1. s # <<>>
        OBVIOUS
    <2>2. PICK t \in Seq(S), x \in S : s = Append(t, x)
        BY <2>1, SequenceEmptyOrAppend
    <2>3. Len(t) = n
        BY <2>2
    <2>4. t \in T
        BY <1>2, <2>3
    <2> QED BY <2>2, <2>4
<1> HIDE DEF L
<1>3. \A n \in Nat : n \in L
    BY <1>1, <1>2, SetInduction
<1> SUFFICES ASSUME NEW s \in Seq(S) PROVE s \in T
    OBVIOUS
<1>4. Len(s) \in L
    BY <1>3
<1> QED BY <1>4 DEF L

(* Appending to a concatenation appends to its right part.                 *)
LEMMA AppendConcat ==
    ASSUME NEW S, NEW x \in Seq(S), NEW y \in Seq(S), NEW d \in S
    PROVE  x \o Append(y, d) = Append(x \o y, d)
<1>1. x \o y \in Seq(S) /\ <<d>> \in Seq(S)
    OBVIOUS
<1>2. Append(x \o y, d) = (x \o y) \o <<d>> /\ Append(y, d) = y \o <<d>>
    BY <1>1, AppendIsConcat
<1>3. (x \o y) \o <<d>> = x \o (y \o <<d>>)
    BY <1>1, ConcatAssociative
<1> QED BY <1>2, <1>3

(* A sequence is its beginning and its rest.                               *)
LEMMA SplitAt ==
    ASSUME NEW S, NEW s \in Seq(S), NEW k \in 0 .. Len(s)
    PROVE  /\ SubSeq(s, 1, k) \in Seq(S) /\ Len(SubSeq(s, 1, k)) = k
           /\ SubSeq(s, k + 1, Len(s)) \in Seq(S)
           /\ SubSeq(s, 1, k) \o SubSeq(s, k + 1, Len(s)) = s
<1>1. Len(s) \in Nat
    OBVIOUS
<1>2. SubSeq(s, 1, k) \o SubSeq(s, k + 1, Len(s)) = SubSeq(s, 1, Len(s))
    <2>1. 1 \in 1 .. Len(s) + 1 /\ k \in 1 - 1 .. Len(s) /\ Len(s) \in k .. Len(s)
        BY <1>1
    <2> QED BY <2>1, ConcatAdjacentSubSeq
<1>3. SubSeq(s, 1, Len(s)) = s
    BY SubSeqFull
<1>4. SubSeq(s, 1, k) \in Seq(S) /\ Len(SubSeq(s, 1, k)) = k
    BY <1>1
<1>5. SubSeq(s, k + 1, Len(s)) \in Seq(S)
    BY <1>1
<1> QED BY <1>2, <1>3, <1>4, <1>5

(* h[i] is what the first i sequences of ss amount to.                     *)
Flattens(h, ss, S) ==
    /\ h \in [0 .. Len(ss) -> Seq(S)]
    /\ h[0] = <<>>
    /\ \A i \in 1 .. Len(ss) : h[i] = h[i - 1] \o ss[i]

(* The recursion of FlattenSeq has a solution.                             *)
LEMMA FlattensExist ==
    ASSUME NEW S, NEW ss \in Seq(Seq(S))
    PROVE  \E h : Flattens(h, ss, S)
<1> DEFINE V == Seq(S)
           G == [i \in Nat |-> [v \in V |-> IF i \in 1 .. Len(ss) THEN v \o ss[i] ELSE v]]
<1>1. G \in [Nat -> [V -> V]]
    <2>1. ASSUME NEW i \in 1 .. Len(ss), NEW v \in V PROVE v \o ss[i] \in V
        <3>1. ss[i] \in Seq(S)
            OBVIOUS
        <3> QED BY <3>1
    <2> HIDE DEF V
    <2> QED BY <2>1
<1>2. <<>> \in V /\ Len(ss) \in Nat
    OBVIOUS
<1>3. PICK h : Solves(h, V, <<>>, G, Len(ss))
    <2> HIDE DEF V, G
    <2> QED BY <1>1, <1>2, FiniteRecursion
<1> HIDE DEF V, G
<1>4. ASSUME NEW i \in 1 .. Len(ss) PROVE h[i] = h[i - 1] \o ss[i]
    <2>1. i \in Nat /\ i - 1 \in 0 .. Len(ss)
        BY <1>2
    <2>2. h[i - 1] \in V
        BY <1>3, <2>1 DEF Solves
    <2>3. h[i] = G[i][h[i - 1]]
        BY <1>3 DEF Solves
    <2> QED BY <2>1, <2>2, <2>3 DEF G
<1> QED BY <1>3, <1>4 DEF Flattens, Solves, V

(* Equal beginnings amount to the same.                                    *)
LEMMA FlattensAgree ==
    ASSUME NEW S, NEW ss \in Seq(Seq(S)), NEW tt \in Seq(Seq(S)),
           NEW g, Flattens(g, ss, S), NEW h, Flattens(h, tt, S),
           NEW m \in Nat, m <= Len(ss), m <= Len(tt),
           \A i \in 1 .. m : ss[i] = tt[i]
    PROVE  g[m] = h[m]
<1> DEFINE T == {n \in Nat : n <= m => g[n] = h[n]}
<1>1. 0 \in T
    BY DEF Flattens
<1>2. ASSUME NEW n \in Nat, n \in T PROVE n + 1 \in T
    <2> SUFFICES ASSUME n + 1 <= m PROVE g[n + 1] = h[n + 1]
        OBVIOUS
    <2>1. n + 1 \in 1 .. m /\ n + 1 \in 1 .. Len(ss) /\ n + 1 \in 1 .. Len(tt) /\ (n + 1) - 1 = n
        OBVIOUS
    <2>2. g[n] = h[n] /\ ss[n + 1] = tt[n + 1]
        BY <1>2, <2>1
    <2>3. g[n + 1] = g[n] \o ss[n + 1] /\ h[n + 1] = h[n] \o tt[n + 1]
        BY <2>1 DEF Flattens
    <2> QED BY <2>2, <2>3
<1> HIDE DEF T
<1>3. m \in T
    BY <1>1, <1>2, SetInduction
<1> QED BY <1>3 DEF T

(* So FlattenSeq is the last of its values.                                *)
LEMMA FlattenIsLast ==
    ASSUME NEW S, NEW ss \in Seq(Seq(S))
    PROVE  \E h : Flattens(h, ss, S) /\ FlattenSeq(ss) = h[Len(ss)]
<1> DEFINE N == Len(ss)
           Turn(f) == [i \in 1 .. Len(ss) |-> IF i = 1 THEN ss[i] ELSE f[i - 1] \o ss[i]]
           q == CHOOSE f : f = Turn(f)
<1>1. PICK h : Flattens(h, ss, S)
    BY FlattensExist
<1>2. N \in Nat /\ \A i \in 1 .. N : ss[i] \in Seq(S)
    OBVIOUS
<1>3. CASE N = 0
    <2>1. ss = <<>>
        BY <1>3
    <2>2. FlattenSeq(ss) = <<>>
        BY <2>1 DEF FlattenSeq
    <2> QED BY <1>1, <1>3, <2>2 DEF Flattens
<1>4. CASE N # 0
    <2>1. FlattenSeq(ss) = q[N]
        BY <1>4 DEF FlattenSeq
    <2>2. \A f : /\ Turn(f) = [i \in 1 .. N |-> Turn(f)[i]]
                 /\ \A i \in 1 .. N : Turn(f)[i] = IF i = 1 THEN ss[i] ELSE f[i - 1] \o ss[i]
        OBVIOUS
    <2> DEFINE g == [i \in 1 .. N |-> h[i]]
    <2> HIDE DEF Turn
    <2>3. h[1] = ss[1]
        <3>1. h[1] = <<>> \o ss[1] /\ ss[1] \in Seq(S)
            <4>1. 1 \in 1 .. Len(ss) /\ 1 - 1 = 0
                BY <1>2, <1>4
            <4> QED BY <1>1, <1>2, <4>1 DEF Flattens
        <3> QED BY <3>1, ConcatEmptySeq
    <2>4. ASSUME NEW i \in 1 .. N PROVE g[i] = Turn(g)[i]
        <3>1. Turn(g)[i] = IF i = 1 THEN ss[i] ELSE g[i - 1] \o ss[i]
            BY <2>2
        <3>2. CASE i = 1
            BY <2>3, <3>1, <3>2
        <3>3. CASE i # 1
            <4>1. i - 1 \in 1 .. N
                BY <1>2, <3>3
            <4>2. h[i] = h[i - 1] \o ss[i]
                BY <1>1 DEF Flattens
            <4> QED BY <3>1, <3>3, <4>1, <4>2
        <3> QED BY <3>2, <3>3
    <2>5. g = Turn(g)
        <3>1. g = [i \in 1 .. N |-> g[i]]
            OBVIOUS
        <3> HIDE DEF g
        <3> QED BY <2>2, <2>4, <3>1
    <2>6. q = Turn(q)
        <3> HIDE DEF g
        <3> QED BY <2>5
    <2> HIDE DEF q
    <2>7. ASSUME NEW i \in 1 .. N PROVE q[i] = IF i = 1 THEN ss[i] ELSE q[i - 1] \o ss[i]
        BY <2>2, <2>6
    <2> DEFINE T == {n \in Nat : n + 1 <= N => q[n + 1] = h[n + 1]}
    <2>8. 0 \in T
        BY <1>2, <1>4, <2>3, <2>7
    <2>9. ASSUME NEW n \in Nat, n \in T PROVE n + 1 \in T
        <3> SUFFICES ASSUME (n + 1) + 1 <= N PROVE q[(n + 1) + 1] = h[(n + 1) + 1]
            OBVIOUS
        <3>1. /\ (n + 1) + 1 \in 1 .. N /\ (n + 1) + 1 # 1
              /\ ((n + 1) + 1) - 1 = n + 1 /\ n + 1 <= N
            BY <1>2
        <3>2. q[(n + 1) + 1] = q[n + 1] \o ss[(n + 1) + 1]
            BY <2>7, <3>1
        <3>3. h[(n + 1) + 1] = h[n + 1] \o ss[(n + 1) + 1]
            BY <1>1, <3>1 DEF Flattens
        <3>4. q[n + 1] = h[n + 1]
            BY <2>9, <3>1
        <3> QED BY <3>2, <3>3, <3>4
    <2> HIDE DEF T
    <2>10. N - 1 \in T
        <3>1. \A n \in Nat : n \in T
            BY <2>8, <2>9, SetInduction
        <3> QED BY <1>2, <1>4, <3>1
    <2>11. q[N] = h[N]
        BY <1>2, <1>4, <2>10 DEF T
    <2> QED BY <1>1, <2>1, <2>11
<1> QED BY <1>3, <1>4

(* Flattening sequences over S yields one.                                 *)
LEMMA FlattenType ==
    ASSUME NEW S, NEW ss \in Seq(Seq(S))
    PROVE  FlattenSeq(ss) \in Seq(S)
<1>1. Len(ss) \in Nat
    OBVIOUS
<1>2. PICK h : Flattens(h, ss, S) /\ FlattenSeq(ss) = h[Len(ss)]
    BY FlattenIsLast
<1>3. h \in [0 .. Len(ss) -> Seq(S)] /\ Len(ss) \in 0 .. Len(ss)
    BY <1>1, <1>2 DEF Flattens
<1> QED BY <1>2, <1>3

(* Nothing amounts to nothing.                                             *)
LEMMA FlattenEmpty == FlattenSeq(<<>>) = <<>>
BY DEF FlattenSeq

(* One more sequence goes to the end.                                      *)
LEMMA FlattenAppend ==
    ASSUME NEW S, NEW ss \in Seq(Seq(S)), NEW s \in Seq(S)
    PROVE  FlattenSeq(Append(ss, s)) = FlattenSeq(ss) \o s
<1> DEFINE tt == Append(ss, s)
<1>1. /\ tt \in Seq(Seq(S)) /\ Len(ss) \in Nat /\ Len(tt) = Len(ss) + 1
      /\ tt[Len(ss) + 1] = s /\ \A i \in 1 .. Len(ss) : ss[i] = tt[i]
    OBVIOUS
<1> HIDE DEF tt
<1>2. PICK g : Flattens(g, ss, S) /\ FlattenSeq(ss) = g[Len(ss)]
    BY FlattenIsLast
<1>3. PICK h : Flattens(h, tt, S) /\ FlattenSeq(tt) = h[Len(tt)]
    BY <1>1, FlattenIsLast
<1>4. g[Len(ss)] = h[Len(ss)]
    <2> DEFINE m == Len(ss)
    <2>1. /\ m \in Nat /\ m <= Len(ss) /\ m <= Len(tt)
          /\ \A i \in 1 .. m : ss[i] = tt[i]
        BY <1>1
    <2> HIDE DEF m
    <2>2. g[m] = h[m]
        BY <1>1, <1>2, <1>3, <2>1, FlattensAgree
    <2> QED BY <2>2 DEF m
<1>5. Len(ss) + 1 \in 1 .. Len(tt) /\ (Len(ss) + 1) - 1 = Len(ss)
    BY <1>1
<1>6. h[Len(tt)] = h[Len(ss)] \o s
    BY <1>1, <1>3, <1>5 DEF Flattens
<1> QED BY <1>2, <1>3, <1>4, <1>6 DEF tt
=============================================================================
