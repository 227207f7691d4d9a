----------------------------- MODULE FileIOProofs -----------------------------
(***************************************************************************)
(* What tftp_read_file, tftp_write_file and the two netascii conversions   *)
(* of utils guarantee for every file, every block size and every pattern   *)
(* of failing writes.                                                      *)
(***************************************************************************)
EXTENDS FileIO, Induction

-----------------------------------------------------------------------------
(* native_to_netascii *)

(* Sequences of bytes, concatenated.                                       *)
LEMMA ConcatBytes ==
    \A x, y, z \in Seq(Bytes) : (x \o y) \o z = x \o (y \o z)
BY ConcatAssociative

(* A byte becomes one or two.                                              *)
LEMMA NetasciiOfByte ==
    ASSUME NEW c \in Bytes
    PROVE  NetasciiOf(c) \in Seq(Bytes) /\ Len(NetasciiOf(c)) \in 1 .. 2
<1>1. CASE c = "LF"
    <2>1. NetasciiOf(c) = <<"CR", "LF">>
        BY <1>1 DEF NetasciiOf
    <2> QED BY <2>1 DEF Bytes
<1>2. CASE c = "CR"
    <2>1. NetasciiOf(c) = <<"CR", "NUL">>
        BY <1>2 DEF NetasciiOf
    <2> QED BY <2>1 DEF Bytes
<1>3. CASE c \notin {"CR", "LF"}
    <2>1. NetasciiOf(c) = <<c>>
        BY <1>3 DEF NetasciiOf
    <2> QED BY <2>1
<1> QED BY <1>1, <1>2, <1>3

(* The converted bytes, one by one.                                        *)
LEMMA BytewiseType ==
    ASSUME NEW s \in Seq(Bytes)
    PROVE  [i \in DOMAIN s |-> NetasciiOf(s[i])] \in Seq(Seq(Bytes))
<1>1. \A i \in DOMAIN s : NetasciiOf(s[i]) \in Seq(Bytes)
    BY NetasciiOfByte
<1>2. DOMAIN s = 1 .. Len(s) /\ Len(s) \in Nat
    OBVIOUS
<1> QED BY <1>1, <1>2

(* Nothing becomes nothing.                                                *)
LEMMA NativeEmpty == native_to_netascii(<<>>) = <<>>
<1>1. [i \in DOMAIN <<>> |-> NetasciiOf(<<>>[i])] = <<>>
    OBVIOUS
<1> QED BY <1>1, FlattenEmpty DEF native_to_netascii

(* One more byte is converted at the end.                                  *)
LEMMA NativeAppend ==
    ASSUME NEW s \in Seq(Bytes), NEW c \in Bytes
    PROVE  native_to_netascii(Append(s, c)) = native_to_netascii(s) \o NetasciiOf(c)
<1> DEFINE B(t) == [i \in DOMAIN t |-> NetasciiOf(t[i])]
           t == Append(s, c)
<1>1. B(s) \in Seq(Seq(Bytes)) /\ NetasciiOf(c) \in Seq(Bytes)
    BY BytewiseType, NetasciiOfByte
<1>2. /\ DOMAIN s = 1 .. Len(s) /\ Len(s) \in Nat /\ DOMAIN t = 1 .. Len(s) + 1
      /\ t[Len(s) + 1] = c /\ \A i \in 1 .. Len(s) : t[i] = s[i]
    OBVIOUS
<1>3. B(t) = Append(B(s), NetasciiOf(c))
    <2>1. /\ B(t) = [i \in 1 .. Len(s) + 1 |-> NetasciiOf(t[i])]
          /\ B(s) = [i \in 1 .. Len(s) |-> NetasciiOf(s[i])] /\ Len(B(s)) = Len(s)
        BY <1>2
    <2>2. Append(B(s), NetasciiOf(c))
            = [i \in 1 .. Len(s) + 1 |-> IF i <= Len(s) THEN NetasciiOf(s[i]) ELSE NetasciiOf(c)]
        BY <1>1, <1>2, <2>1
    <2>3. ASSUME NEW i \in 1 .. Len(s) + 1
          PROVE  NetasciiOf(t[i]) = IF i <= Len(s) THEN NetasciiOf(s[i]) ELSE NetasciiOf(c)
        <3>1. i <= Len(s) \/ i = Len(s) + 1
            BY <1>2
        <3> QED BY <1>2, <3>1
    <2> HIDE DEF t
    <2> QED BY <2>1, <2>2, <2>3
<1> HIDE DEF t
<1>4. FlattenSeq(Append(B(s), NetasciiOf(c))) = FlattenSeq(B(s)) \o NetasciiOf(c)
    <2> HIDE DEF B
    <2> QED BY <1>1, FlattenAppend
<1> QED BY <1>3, <1>4 DEF native_to_netascii, t

(* The conversion yields bytes, at least as many as it takes and at most   *)
(* twice as many.                                                          *)
LEMMA NativeLength ==
    \A s \in Seq(Bytes) : /\ native_to_netascii(s) \in Seq(Bytes)
                          /\ Len(s) <= Len(native_to_netascii(s))
                          /\ Len(native_to_netascii(s)) <= 2 * Len(s)
<1> DEFINE T == {s \in Seq(Bytes) : /\ native_to_netascii(s) \in Seq(Bytes)
                                    /\ Len(s) <= Len(native_to_netascii(s))
                                    /\ Len(native_to_netascii(s)) <= 2 * Len(s)}
<1>1. <<>> \in T
    <2>1. <<>> \in Seq(Bytes) /\ Len(<<>>) <= Len(<<>>) /\ Len(<<>>) <= 2 * Len(<<>>)
        OBVIOUS
    <2> QED BY <2>1, NativeEmpty, Zenon
<1>2. ASSUME NEW s \in Seq(Bytes), NEW c \in Bytes, s \in T PROVE Append(s, c) \in T
    <2>1. NetasciiOf(c) \in Seq(Bytes) /\ Len(NetasciiOf(c)) \in 1 .. 2
        BY NetasciiOfByte
    <2>2. native_to_netascii(s) \in Seq(Bytes)
        BY <1>2
    <2>3. /\ native_to_netascii(Append(s, c)) \in Seq(Bytes)
          /\ Len(native_to_netascii(Append(s, c)))
                = Len(native_to_netascii(s)) + Len(NetasciiOf(c))
        BY <2>1, <2>2, NativeAppend, ConcatProperties
    <2>4. Append(s, c) \in Seq(Bytes) /\ Len(Append(s, c)) = Len(s) + 1
        OBVIOUS
    <2>5. Len(s) \in Nat /\ Len(native_to_netascii(s)) \in Nat
        BY <2>2
    <2>6. Len(s) <= Len(native_to_netascii(s)) /\ Len(native_to_netascii(s)) <= 2 * Len(s)
        BY <1>2
    <2>7. \A k, m \in Nat, j \in 1 .. 2 :
            k <= m /\ m <= 2 * k => k + 1 <= m + j /\ m + j <= 2 * (k + 1)
        OBVIOUS
    <2>8. /\ Len(s) + 1 <= Len(native_to_netascii(s)) + Len(NetasciiOf(c))
          /\ Len(native_to_netascii(s)) + Len(NetasciiOf(c)) <= 2 * (Len(s) + 1)
        BY <2>1, <2>5, <2>6, <2>7, Zenon
    <2> QED BY <2>3, <2>4, <2>8
<1> HIDE DEF T
<1>3. \A s \in Seq(Bytes) : s \in T
    BY <1>1, <1>2, SequenceInduction
<1> QED BY <1>3 DEF T

(* Two parts of a file are converted as the whole is.                      *)
LEMMA NativeConcat ==
    ASSUME NEW s \in Seq(Bytes), NEW t \in Seq(Bytes)
    PROVE  native_to_netascii(s \o t) = native_to_netascii(s) \o native_to_netascii(t)
<1> DEFINE T == {u \in Seq(Bytes) :
                    native_to_netascii(s \o u) = native_to_netascii(s) \o native_to_netascii(u)}
<1>1. <<>> \in T
    <2>1. s \o <<>> = s /\ native_to_netascii(s) \o <<>> = native_to_netascii(s)
        BY NativeLength, ConcatEmptySeq
    <2>2. <<>> \in Seq(Bytes)
        OBVIOUS
    <2> QED BY <2>1, <2>2, NativeEmpty
<1>2. ASSUME NEW u \in Seq(Bytes), NEW c \in Bytes, u \in T PROVE Append(u, c) \in T
    <2>1. s \o Append(u, c) = Append(s \o u, c) /\ s \o u \in Seq(Bytes)
        OBVIOUS
    <2>2. native_to_netascii(s \o Append(u, c)) = native_to_netascii(s \o u) \o NetasciiOf(c)
        BY <2>1, NativeAppend
    <2>3. native_to_netascii(s \o u) = native_to_netascii(s) \o native_to_netascii(u)
        BY <1>2
    <2>4. /\ native_to_netascii(s) \in Seq(Bytes) /\ native_to_netascii(u) \in Seq(Bytes)
          /\ NetasciiOf(c) \in Seq(Bytes)
        BY NativeLength, NetasciiOfByte
    <2>5. (native_to_netascii(s) \o native_to_netascii(u)) \o NetasciiOf(c)
            = native_to_netascii(s) \o (native_to_netascii(u) \o NetasciiOf(c))
        BY <2>4, ConcatBytes, SMT
    <2>6. native_to_netascii(Append(u, c)) = native_to_netascii(u) \o NetasciiOf(c)
        BY NativeAppend
    <2>7. Append(u, c) \in Seq(Bytes)
        OBVIOUS
    <2> QED BY <2>2, <2>3, <2>5, <2>6, <2>7
<1> HIDE DEF T
<1>3. t \in T
    BY <1>1, <1>2, SequenceInduction
<1> QED BY <1>3 DEF T

(* Two pieces of netascii make one.                                        *)
LEMMA NetasciiConcat ==
    ASSUME NEW x \in Seq(Bytes), IsNetascii(x), NEW y \in Seq(Bytes), IsNetascii(y)
    PROVE  IsNetascii(x \o y)
<1> DEFINE s == x \o y
<1>1. /\ s \in Seq(Bytes) /\ Len(x) \in Nat /\ Len(y) \in Nat /\ Len(s) = Len(x) + Len(y)
      /\ DOMAIN x = 1 .. Len(x) /\ DOMAIN y = 1 .. Len(y) /\ DOMAIN s = 1 .. Len(s)
      /\ \A i \in 1 .. Len(s) : s[i] = IF i <= Len(x) THEN x[i] ELSE y[i - Len(x)]
    BY ConcatProperties
<1> HIDE DEF s
<1>2. ASSUME NEW i \in DOMAIN s, s[i] = "CR"
      PROVE  i < Len(s) /\ s[i + 1] \in {"LF", "NUL"}
    <2>1. CASE i <= Len(x)
        <3>1. i < Len(x) /\ x[i + 1] \in {"LF", "NUL"}
            BY <1>1, <1>2, <2>1 DEF IsNetascii
        <3> QED BY <1>1, <3>1
    <2>2. CASE i > Len(x)
        <3>1. i - Len(x) \in DOMAIN y /\ y[i - Len(x)] = "CR"
            BY <1>1, <1>2, <2>2
        <3>2. i - Len(x) < Len(y) /\ y[(i - Len(x)) + 1] \in {"LF", "NUL"}
            BY <3>1 DEF IsNetascii
        <3>3. i + 1 \in 1 .. Len(s) /\ (i + 1) - Len(x) = (i - Len(x)) + 1
            BY <1>1, <2>2, <3>2
        <3> QED BY <1>1, <2>2, <3>2, <3>3
    <2> QED BY <1>1, <2>1, <2>2
<1> QED BY <1>2 DEF IsNetascii, s

(* The conversion of any byte is netascii.                                 *)
LEMMA NetasciiOfIsNetascii ==
    ASSUME NEW c \in Bytes
    PROVE  IsNetascii(NetasciiOf(c))
BY DEF NetasciiOf, IsNetascii, Bytes

(* So is that of any file.                                                 *)
LEMMA NativeIsNetascii ==
    \A s \in Seq(Bytes) : IsNetascii(native_to_netascii(s))
<1> DEFINE T == {s \in Seq(Bytes) : IsNetascii(native_to_netascii(s))}
<1>1. <<>> \in T
    BY NativeEmpty DEF IsNetascii
<1>2. ASSUME NEW s \in Seq(Bytes), NEW c \in Bytes, s \in T PROVE Append(s, c) \in T
    <2>1. native_to_netascii(s) \in Seq(Bytes) /\ NetasciiOf(c) \in Seq(Bytes)
        BY NativeLength, NetasciiOfByte
    <2>2. IsNetascii(native_to_netascii(s)) /\ IsNetascii(NetasciiOf(c))
        BY <1>2, NetasciiOfIsNetascii
    <2>3. IsNetascii(native_to_netascii(s) \o NetasciiOf(c))
        BY <2>1, <2>2, NetasciiConcat
    <2>4. Append(s, c) \in Seq(Bytes)
        OBVIOUS
    <2> QED BY <2>3, <2>4, NativeAppend
<1> HIDE DEF T
<1>3. \A s \in Seq(Bytes) : s \in T
    BY <1>1, <1>2, SequenceInduction
<1> QED BY <1>3 DEF T

-----------------------------------------------------------------------------
(* netascii_to_native *)

(* Induction downwards, over the two next positions.                       *)
LEMMA DownwardInduction ==
    ASSUME NEW N \in Nat, NEW T, N + 1 \in T, N + 2 \in T,
           \A i \in 1 .. N : i + 1 \in T /\ i + 2 \in T => i \in T
    PROVE  \A i \in 1 .. N + 2 : i \in T
<1> DEFINE U == {n \in Nat : n <= N => (N + 1) - n \in T /\ (N + 2) - n \in T}
<1>1. 0 \in U
    <2>1. (N + 1) - 0 = N + 1 /\ (N + 2) - 0 = N + 2
        OBVIOUS
    <2> QED BY <2>1
<1>2. ASSUME NEW n \in Nat, n \in U PROVE n + 1 \in U
    <2> SUFFICES ASSUME n + 1 <= N PROVE (N + 1) - (n + 1) \in T /\ (N + 2) - (n + 1) \in T
        OBVIOUS
    <2> DEFINE i == N - n
    <2>1. /\ i \in 1 .. N /\ i + 1 = (N + 1) - n /\ i + 2 = (N + 2) - n
          /\ (N + 1) - (n + 1) = i /\ (N + 2) - (n + 1) = i + 1 /\ n <= N
        OBVIOUS
    <2>2. (N + 1) - n \in T /\ (N + 2) - n \in T
        BY <1>2, <2>1
    <2> HIDE DEF i
    <2>3. i + 1 \in T /\ i + 2 \in T
        BY <2>1, <2>2
    <2> QED BY <2>1, <2>3
<1> HIDE DEF U
<1>3. \A n \in Nat : n \in U
    BY <1>1, <1>2, SetInduction
<1> SUFFICES ASSUME NEW i \in 1 .. N PROVE i \in T
    <2>1. \A i \in 1 .. N + 2 : i \in 1 .. N \/ i = N + 1 \/ i = N + 2
        OBVIOUS
    <2> QED BY <2>1
<1> DEFINE n == N - i
<1>4. n \in Nat /\ n <= N /\ (N + 1) - n = i + 1 /\ (N + 2) - n = i + 2
    OBVIOUS
<1> HIDE DEF n
<1>5. (N + 1) - n \in T /\ (N + 2) - n \in T
    BY <1>3, <1>4 DEF U
<1>6. i + 1 \in T /\ i + 2 \in T
    BY <1>4, <1>5
<1> QED BY <1>6

(* One turn of the loop at position i of s: a and b are what the bytes     *)
(* from the next position and from the one after it become.                *)
Turn(s, i, a, b) ==
    IF s[i] # "CR" THEN <<s[i]>> \o a
    ELSE IF s[i + 1] = "NUL" THEN <<"CR">> \o b
    ELSE a

(* f[i] is what the bytes of s from position i on become.                  *)
Converts(f, s) ==
    /\ f \in [1 .. Len(s) + 2 -> Seq(Bytes)]
    /\ f[Len(s) + 1] = <<>> /\ f[Len(s) + 2] = <<>>
    /\ \A i \in 1 .. Len(s) : f[i] = Turn(s, i, f[i + 1], f[i + 2])

(* A turn yields bytes.                                                    *)
LEMMA TurnType ==
    ASSUME NEW s \in Seq(Bytes), NEW i \in 1 .. Len(s),
           NEW a \in Seq(Bytes), NEW b \in Seq(Bytes)
    PROVE  Turn(s, i, a, b) \in Seq(Bytes)
<1>1. s[i] \in Bytes /\ "CR" \in Bytes
    BY DEF Bytes
<1>2. <<s[i]>> \o a \in Seq(Bytes) /\ <<"CR">> \o b \in Seq(Bytes)
    BY <1>1
<1> QED BY <1>2 DEF Turn

(* The recursion of netascii_to_native has a solution.                     *)
LEMMA ConvertsExist ==
    ASSUME NEW s \in Seq(Bytes)
    PROVE  \E f : Converts(f, s)
<1> DEFINE N == Len(s)
           W == Seq(Bytes)
           V == W \X W
           G == [j \in Nat |-> [v \in V |->
                    IF j \in 1 .. N THEN <<Turn(s, (N + 1) - j, v[1], v[2]), v[1]>> ELSE v]]
<1>1. N \in Nat
    OBVIOUS
<1>2. G \in [Nat -> [V -> V]]
    <2>1. ASSUME NEW j \in 1 .. N, NEW v \in V
          PROVE  <<Turn(s, (N + 1) - j, v[1], v[2]), v[1]>> \in V
        <3>1. (N + 1) - j \in 1 .. Len(s) /\ v[1] \in Seq(Bytes) /\ v[2] \in Seq(Bytes)
            BY <1>1
        <3> QED BY <3>1, TurnType
    <2> HIDE DEF V
    <2> QED BY <2>1
<1>3. <<<<>>, <<>>>> \in V
    <2>1. <<>> \in W
        OBVIOUS
    <2> HIDE DEF W
    <2> QED BY <2>1
<1>4. PICK h : Solves(h, V, <<<<>>, <<>>>>, G, N)
    <2> HIDE DEF V, G, N
    <2> QED BY <1>1, <1>2, <1>3, FiniteRecursion
<1>5. /\ h \in [0 .. N -> V] /\ h[0] = <<<<>>, <<>>>>
      /\ \A j \in 1 .. N : h[j] = <<Turn(s, (N + 1) - j, h[j - 1][1], h[j - 1][2]), h[j - 1][1]>>
    <2>1. h \in [0 .. N -> V] /\ h[0] = <<<<>>, <<>>>> /\ \A j \in 1 .. N : h[j] = G[j][h[j - 1]]
        BY <1>4 DEF Solves
    <2>2. ASSUME NEW j \in 1 .. N
          PROVE  h[j] = <<Turn(s, (N + 1) - j, h[j - 1][1], h[j - 1][2]), h[j - 1][1]>>
        <3>1. j \in Nat /\ j - 1 \in 0 .. N
            BY <1>1
        <3>2. h[j - 1] \in V
            BY <2>1, <3>1
        <3> HIDE DEF V
        <3> QED BY <2>1, <3>1, <3>2
    <2> QED BY <2>1, <2>2
<1> HIDE DEF G
<1> DEFINE f == [i \in 1 .. N + 2 |-> IF i <= N + 1 THEN h[(N + 1) - i][1] ELSE <<>>]
<1>6. f \in [1 .. N + 2 -> Seq(Bytes)]
    <2>1. ASSUME NEW i \in 1 .. N + 2, i <= N + 1 PROVE h[(N + 1) - i][1] \in Seq(Bytes)
        <3>1. (N + 1) - i \in 0 .. N
            BY <1>1, <2>1
        <3>2. h[(N + 1) - i] \in V
            BY <1>5, <3>1
        <3> QED BY <3>2
    <2>2. <<>> \in Seq(Bytes)
        OBVIOUS
    <2> QED BY <2>1, <2>2
<1>7. f[N + 1] = <<>> /\ f[N + 2] = <<>>
    <2>1. N + 1 \in 1 .. N + 2 /\ N + 2 \in 1 .. N + 2 /\ (N + 1) - (N + 1) = 0 /\ ~(N + 2 <= N + 1)
        BY <1>1
    <2> QED BY <1>5, <2>1
<1>8. ASSUME NEW i \in 1 .. N PROVE f[i] = Turn(s, i, f[i + 1], f[i + 2])
    <2> DEFINE j == (N + 1) - i
    <2>1. /\ j \in 1 .. N /\ (N + 1) - j = i /\ j - 1 = (N + 1) - (i + 1)
          /\ i \in 1 .. N + 2 /\ i <= N + 1 /\ i + 1 \in 1 .. N + 2 /\ i + 1 <= N + 1
          /\ i + 2 \in 1 .. N + 2
        BY <1>1
    <2>2. f[i] = h[j][1] /\ f[i + 1] = h[j - 1][1]
        BY <2>1
    <2>3. f[i + 2] = h[j - 1][2]
        <3>1. CASE j = 1
            <4>1. i + 2 = N + 2 /\ j - 1 = 0
                BY <1>1, <3>1
            <4> QED BY <1>5, <1>7, <4>1
        <3>2. CASE j # 1
            <4>1. j - 1 \in 1 .. N /\ i + 2 <= N + 1 /\ (N + 1) - (i + 2) = (j - 1) - 1
                BY <1>1, <2>1, <3>2
            <4>2. f[i + 2] = h[(j - 1) - 1][1]
                BY <2>1, <4>1
            <4>3. h[j - 1][2] = h[(j - 1) - 1][1]
                BY <1>5, <4>1
            <4> QED BY <4>2, <4>3
        <3> QED BY <3>1, <3>2
    <2>4. h[j][1] = Turn(s, i, h[j - 1][1], h[j - 1][2])
        BY <1>5, <2>1
    <2> QED BY <2>2, <2>3, <2>4
<1> HIDE DEF f
<1>9. Converts(f, s)
    BY <1>6, <1>7, <1>8 DEF Converts
<1> QED BY <1>9

(* So netascii_to_native is the first of its values.                       *)
LEMMA ConversionIsFirst ==
    ASSUME NEW s \in Seq(Bytes)
    PROVE  \E f : Converts(f, s) /\ netascii_to_native(s) = f[1]
<1> DEFINE N == Len(s)
           Round(f) == [i \in 1 .. Len(s) + 2 |->
                           IF i > Len(s) THEN <<>>
                           ELSE IF s[i] # "CR" THEN <<s[i]>> \o f[i + 1]
                           ELSE IF s[i + 1] = "NUL" THEN <<"CR">> \o f[i + 2]
                           ELSE f[i + 1]]
           q == CHOOSE f : f = Round(f)
<1>1. PICK g : Converts(g, s)
    BY ConvertsExist
<1>2. N \in Nat
    OBVIOUS
<1>3. netascii_to_native(s) = q[1]
    BY DEF netascii_to_native
<1>4. \A f : /\ Round(f) = [i \in 1 .. N + 2 |-> Round(f)[i]]
             /\ DOMAIN Round(f) = 1 .. N + 2
             /\ \A i \in 1 .. N + 2 :
                    Round(f)[i] = IF i > N THEN <<>> ELSE Turn(s, i, f[i + 1], f[i + 2])
    BY DEF Turn
<1> HIDE DEF Round
<1>5. g = Round(g)
    <2>1. ASSUME NEW i \in 1 .. N + 2 PROVE g[i] = Round(g)[i]
        <3>1. CASE i > N
            <4>1. i = N + 1 \/ i = N + 2
                BY <1>2, <3>1
            <4> QED BY <1>1, <1>4, <3>1, <4>1 DEF Converts
        <3>2. CASE ~(i > N)
            <4>1. i \in 1 .. N
                BY <1>2, <3>2
            <4> QED BY <1>1, <1>4, <3>2, <4>1 DEF Converts
        <3> QED BY <3>1, <3>2
    <2>2. g = [i \in 1 .. N + 2 |-> g[i]]
        BY <1>1 DEF Converts
    <2> QED BY <1>4, <2>1, <2>2
<1>6. q = Round(q)
    BY <1>5
<1> HIDE DEF q
<1>7. ASSUME NEW i \in 1 .. N + 2
      PROVE  q[i] = IF i > N THEN <<>> ELSE Turn(s, i, q[i + 1], q[i + 2])
    BY <1>4, <1>6
<1>8. DOMAIN q = 1 .. N + 2 /\ q = [i \in 1 .. N + 2 |-> q[i]]
    BY <1>4, <1>6
<1>9. q[N + 1] = <<>> /\ q[N + 2] = <<>>
    <2>1. /\ N + 1 \in 1 .. N + 2 /\ N + 1 > N
          /\ N + 2 \in 1 .. N + 2 /\ N + 2 > N
        BY <1>2
    <2> QED BY <1>7, <2>1
<1>10. ASSUME NEW i \in 1 .. N PROVE q[i] = Turn(s, i, q[i + 1], q[i + 2])
    <2>1. i \in 1 .. N + 2 /\ ~(i > N)
        BY <1>2
    <2> QED BY <1>7, <2>1
<1>11. q \in [1 .. N + 2 -> Seq(Bytes)]
    <2> DEFINE T == {i \in 1 .. N + 2 : q[i] \in Seq(Bytes)}
    <2>1. N + 1 \in T /\ N + 2 \in T
        <3>1. N + 1 \in 1 .. N + 2 /\ N + 2 \in 1 .. N + 2
            BY <1>2
        <3>2. <<>> \in Seq(Bytes)
            OBVIOUS
        <3> HIDE DEF N
        <3> QED BY <1>9, <3>1, <3>2
    <2>2. ASSUME NEW i \in 1 .. N, i + 1 \in T, i + 2 \in T PROVE i \in T
        <3>1. i \in 1 .. N + 2
            BY <1>2
        <3>2. Turn(s, i, q[i + 1], q[i + 2]) \in Seq(Bytes)
            BY <2>2, TurnType
        <3> QED BY <1>10, <3>1, <3>2
    <2> HIDE DEF T, N
    <2>3. \A i \in 1 .. N + 2 : i \in T
        BY <1>2, <2>1, <2>2, DownwardInduction
    <2>4. \A i \in 1 .. N + 2 : q[i] \in Seq(Bytes)
        BY <2>3 DEF T
    <2> QED BY <1>8, <2>4
<1>12. Converts(q, s)
    BY <1>9, <1>10, <1>11 DEF Converts
<1> QED BY <1>3, <1>12

(* The conversion yields bytes.                                            *)
LEMMA ConversionType ==
    ASSUME NEW s \in Seq(Bytes)
    PROVE  netascii_to_native(s) \in Seq(Bytes)
<1>1. PICK f : Converts(f, s) /\ netascii_to_native(s) = f[1]
    BY ConversionIsFirst
<1>2. 1 \in 1 .. Len(s) + 2
    OBVIOUS
<1> QED BY <1>1, <1>2 DEF Converts

(* Two pieces of netascii are converted as the whole is.                   *)
LEMMA ConversionConcat ==
    ASSUME NEW x \in Seq(Bytes), IsNetascii(x), NEW y \in Seq(Bytes), IsNetascii(y)
    PROVE  netascii_to_native(x \o y) = netascii_to_native(x) \o netascii_to_native(y)
<1> DEFINE s == x \o y
           M == Len(x)
           N == Len(y)
<1>1. /\ s \in Seq(Bytes) /\ M \in Nat /\ N \in Nat /\ Len(s) = M + N
      /\ DOMAIN x = 1 .. M /\ DOMAIN y = 1 .. N
      /\ \A i \in 1 .. M : s[i] = x[i]
      /\ \A i \in 1 .. N : s[M + i] = y[i]
    <2>1. /\ s \in Seq(Bytes) /\ M \in Nat /\ N \in Nat /\ Len(s) = M + N
          /\ DOMAIN x = 1 .. M /\ DOMAIN y = 1 .. N
          /\ \A i \in 1 .. M + N : s[i] = IF i <= M THEN x[i] ELSE y[i - M]
        BY ConcatProperties
    <2> HIDE DEF s, M, N
    <2>2. ASSUME NEW i \in 1 .. M PROVE s[i] = x[i]
        BY <2>1
    <2>3. ASSUME NEW i \in 1 .. N PROVE s[M + i] = y[i]
        <3>1. M + i \in 1 .. M + N /\ ~(M + i <= M) /\ (M + i) - M = i
            BY <2>1
        <3> QED BY <2>1, <3>1
    <2> QED BY <2>1, <2>2, <2>3
<1>2. PICK f : Converts(f, s) /\ netascii_to_native(s) = f[1]
    BY <1>1, ConversionIsFirst
<1>3. PICK g : Converts(g, x) /\ netascii_to_native(x) = g[1]
    BY ConversionIsFirst
<1>4. PICK h : Converts(h, y) /\ netascii_to_native(y) = h[1]
    BY ConversionIsFirst
<1>5. /\ f \in [1 .. (M + N) + 2 -> Seq(Bytes)]
      /\ f[(M + N) + 1] = <<>> /\ f[(M + N) + 2] = <<>>
      /\ \A i \in 1 .. M + N : f[i] = Turn(s, i, f[i + 1], f[i + 2])
    BY <1>1, <1>2 DEF Converts
<1>6. /\ g \in [1 .. M + 2 -> Seq(Bytes)] /\ g[M + 1] = <<>> /\ g[M + 2] = <<>>
      /\ \A i \in 1 .. M : g[i] = Turn(x, i, g[i + 1], g[i + 2])
    BY <1>3 DEF Converts
<1>7. /\ h \in [1 .. N + 2 -> Seq(Bytes)] /\ h[N + 1] = <<>> /\ h[N + 2] = <<>>
      /\ \A i \in 1 .. N : h[i] = Turn(y, i, h[i + 1], h[i + 2])
    BY <1>4 DEF Converts
<1>8. /\ \A i \in 1 .. M : x[i] = "CR" => i + 1 \in 1 .. M
      /\ \A i \in 1 .. N : y[i] = "CR" => i + 1 \in 1 .. N
    <2> HIDE DEF s
    <2>1. ASSUME NEW i \in 1 .. M, x[i] = "CR" PROVE i + 1 \in 1 .. M
        <3>1. i < M
            BY <1>1, <2>1 DEF IsNetascii
        <3> QED BY <1>1, <3>1
    <2>2. ASSUME NEW i \in 1 .. N, y[i] = "CR" PROVE i + 1 \in 1 .. N
        <3>1. i < N
            BY <1>1, <2>2 DEF IsNetascii
        <3> QED BY <1>1, <3>1
    <2> QED BY <2>1, <2>2
<1> HIDE DEF s, M, N
<1>9. \A i \in 1 .. N + 2 : f[M + i] = h[i]
    <2> DEFINE T == {i \in 1 .. N + 2 : f[M + i] = h[i]}
    <2>1. N + 1 \in T /\ N + 2 \in T
        <3>1. /\ N + 1 \in 1 .. N + 2 /\ N + 2 \in 1 .. N + 2
              /\ M + (N + 1) = (M + N) + 1 /\ M + (N + 2) = (M + N) + 2
            BY <1>1
        <3> QED BY <1>5, <1>7, <3>1
    <2>2. ASSUME NEW i \in 1 .. N, i + 1 \in T, i + 2 \in T PROVE i \in T
        <3>1. /\ M + i \in 1 .. M + N /\ i \in 1 .. N + 2
              /\ (M + i) + 1 = M + (i + 1) /\ (M + i) + 2 = M + (i + 2)
            BY <1>1
        <3>2. f[(M + i) + 1] = h[i + 1] /\ f[(M + i) + 2] = h[i + 2]
            BY <2>2, <3>1
        <3>3. f[M + i] = Turn(s, M + i, h[i + 1], h[i + 2]) /\ h[i] = Turn(y, i, h[i + 1], h[i + 2])
            BY <1>5, <1>7, <3>1, <3>2
        <3>4. s[M + i] = y[i] /\ (y[i] = "CR" => s[(M + i) + 1] = y[i + 1])
            BY <1>1, <1>8, <3>1
        <3>5. f[M + i] = h[i]
            BY <3>3, <3>4 DEF Turn
        <3> QED BY <3>1, <3>5
    <2> HIDE DEF T
    <2>3. \A i \in 1 .. N + 2 : i \in T
        BY <1>1, <2>1, <2>2, DownwardInduction
    <2> QED BY <2>3 DEF T
<1>10. h[1] \in Seq(Bytes) /\ f[M + 1] = h[1]
    <2>1. 1 \in 1 .. N + 2
        BY <1>1
    <2> QED BY <1>7, <1>9, <2>1
<1>11. \A i \in 1 .. M + 2 : i <= M + 1 => f[i] = g[i] \o h[1]
    <2> DEFINE T == {i \in 1 .. M + 2 : i <= M + 1 => f[i] = g[i] \o h[1]}
    <2>1. M + 1 \in T /\ M + 2 \in T
        <3>1. M + 1 \in 1 .. M + 2 /\ M + 2 \in 1 .. M + 2 /\ ~(M + 2 <= M + 1)
            BY <1>1
        <3>2. <<>> \o h[1] = h[1]
            BY <1>10, ConcatEmptySeq
        <3> QED BY <1>6, <1>10, <3>1, <3>2
    <2>2. ASSUME NEW i \in 1 .. M, i + 1 \in T, i + 2 \in T PROVE i \in T
        <3>1. /\ i \in 1 .. M + N /\ i \in 1 .. M + 2 /\ i + 1 <= M + 1 /\ i + 1 \in 1 .. M + 2
              /\ i + 2 \in 1 .. M + 2 /\ (i + 1 \in 1 .. M => i + 2 <= M + 1)
            BY <1>1
        <3>2. f[i] = Turn(s, i, f[i + 1], f[i + 2]) /\ g[i] = Turn(x, i, g[i + 1], g[i + 2])
            BY <1>5, <1>6, <3>1
        <3>3. f[i + 1] = g[i + 1] \o h[1]
            BY <2>2, <3>1
        <3>4. /\ g[i + 1] \in Seq(Bytes) /\ g[i + 2] \in Seq(Bytes) /\ s[i] = x[i]
              /\ <<x[i]>> \in Seq(Bytes) /\ <<"CR">> \in Seq(Bytes)
            BY <1>1, <1>6, <3>1 DEF Bytes
        <3>5. CASE x[i] # "CR"
            <4>1. f[i] = <<x[i]>> \o (g[i + 1] \o h[1]) /\ g[i] = <<x[i]>> \o g[i + 1]
                BY <3>2, <3>3, <3>4, <3>5 DEF Turn
            <4>2. (<<x[i]>> \o g[i + 1]) \o h[1] = <<x[i]>> \o (g[i + 1] \o h[1])
                <5> DEFINE a == <<x[i]>>
                           b == g[i + 1]
                           c == h[1]
                <5>1. a \in Seq(Bytes) /\ b \in Seq(Bytes) /\ c \in Seq(Bytes)
                    BY <1>10, <3>4
                <5> HIDE DEF a, b, c
                <5>2. (a \o b) \o c = a \o (b \o c)
                    BY <5>1, ConcatBytes
                <5> QED BY <5>2 DEF a, b, c
            <4> QED BY <3>1, <4>1, <4>2
        <3>6. CASE x[i] = "CR"
            <4>1. i + 1 \in 1 .. M /\ s[i + 1] = x[i + 1]
                BY <1>1, <1>8, <3>6
            <4>2. f[i + 2] = g[i + 2] \o h[1]
                BY <2>2, <3>1, <4>1
            <4>3. CASE x[i + 1] = "NUL"
                <5>1. f[i] = <<"CR">> \o (g[i + 2] \o h[1]) /\ g[i] = <<"CR">> \o g[i + 2]
                    BY <3>2, <3>4, <3>6, <4>1, <4>2, <4>3 DEF Turn
                <5>2. (<<"CR">> \o g[i + 2]) \o h[1] = <<"CR">> \o (g[i + 2] \o h[1])
                    <6> DEFINE a == <<"CR">>
                               b == g[i + 2]
                               c == h[1]
                    <6>1. a \in Seq(Bytes) /\ b \in Seq(Bytes) /\ c \in Seq(Bytes)
                        BY <1>10, <3>4
                    <6> HIDE DEF a, b, c
                    <6>2. (a \o b) \o c = a \o (b \o c)
                        BY <6>1, ConcatBytes
                    <6> QED BY <6>2 DEF a, b, c
                <5> QED BY <3>1, <5>1, <5>2
            <4>4. CASE x[i + 1] # "NUL"
                <5>1. f[i] = g[i + 1] \o h[1] /\ g[i] = g[i + 1]
                    BY <3>2, <3>3, <3>4, <3>6, <4>1, <4>4 DEF Turn
                <5> QED BY <3>1, <5>1
            <4> QED BY <4>3, <4>4
        <3> QED BY <3>5, <3>6
    <2> HIDE DEF T
    <2>3. \A i \in 1 .. M + 2 : i \in T
        BY <1>1, <2>1, <2>2, DownwardInduction
    <2> QED BY <2>3 DEF T
<1>12. f[1] = g[1] \o h[1]
    <2>1. 1 \in 1 .. M + 2 /\ 1 <= M + 1
        BY <1>1
    <2> QED BY <1>11, <2>1
<1> QED BY <1>2, <1>3, <1>4, <1>12 DEF s

(* A converted byte is converted back.                                     *)
LEMMA ConversionOfByte ==
    ASSUME NEW c \in Bytes
    PROVE  netascii_to_native(NetasciiOf(c)) = <<c>>
<1> DEFINE s == NetasciiOf(c)
<1>1. s \in Seq(Bytes)
    BY NetasciiOfByte
<1>2. PICK f : Converts(f, s) /\ netascii_to_native(s) = f[1]
    BY <1>1, ConversionIsFirst
<1>3. f[Len(s) + 1] = <<>> /\ f[Len(s) + 2] = <<>>
    BY <1>2 DEF Converts
<1>4. \A i \in 1 .. Len(s) : f[i] = Turn(s, i, f[i + 1], f[i + 2])
    BY <1>2 DEF Converts
<1>5. \A b \in Bytes : <<b>> \o <<>> = <<b>>
    BY ConcatEmptySeq
<1> HIDE DEF s
<1>6. CASE c = "LF"
    <2>1. s = <<"CR", "LF">>
        BY <1>6 DEF s, NetasciiOf
    <2>2. Len(s) = 2 /\ s[1] = "CR" /\ s[2] = "LF"
        BY <2>1
    <2>3. f[3] = <<>> /\ f[1] = Turn(s, 1, f[2], f[3]) /\ f[2] = Turn(s, 2, f[3], f[4])
        BY <1>3, <1>4, <2>2
    <2>4. f[2] = <<"LF">> \o <<>> /\ f[1] = f[2]
        BY <2>2, <2>3 DEF Turn
    <2> QED BY <1>2, <1>5, <1>6, <2>4 DEF s
<1>7. CASE c = "CR"
    <2>1. s = <<"CR", "NUL">>
        BY <1>7 DEF s, NetasciiOf
    <2>2. Len(s) = 2 /\ s[1] = "CR" /\ s[2] = "NUL"
        BY <2>1
    <2>3. f[3] = <<>> /\ f[1] = Turn(s, 1, f[2], f[3])
        BY <1>3, <1>4, <2>2
    <2>4. f[1] = <<"CR">> \o <<>>
        BY <2>2, <2>3 DEF Turn
    <2> QED BY <1>2, <1>5, <1>7, <2>4 DEF s
<1>8. CASE c \notin {"CR", "LF"}
    <2>1. s = <<c>>
        BY <1>8 DEF s, NetasciiOf
    <2>2. Len(s) = 1 /\ s[1] = c
        BY <2>1
    <2>3. f[2] = <<>> /\ f[1] = Turn(s, 1, f[2], f[3])
        BY <1>3, <1>4, <2>2
    <2>4. f[1] = <<c>> \o <<>>
        BY <1>8, <2>2, <2>3 DEF Turn
    <2> QED BY <1>2, <1>5, <2>4 DEF s
<1> QED BY <1>6, <1>7, <1>8

(* Nothing is converted to nothing.                                        *)
LEMMA ConversionEmpty == netascii_to_native(<<>>) = <<>>
<1>1. <<>> \in Seq(Bytes) /\ Len(<<>>) + 1 = 1
    OBVIOUS
<1> QED BY <1>1, ConversionIsFirst DEF Converts

(* A file in netascii is converted back to the file.                       *)
LEMMA ThereAndBack ==
    \A s \in Seq(Bytes) : netascii_to_native(native_to_netascii(s)) = s
<1> DEFINE T == {s \in Seq(Bytes) : netascii_to_native(native_to_netascii(s)) = s}
<1>1. <<>> \in T
    <2>1. <<>> \in Seq(Bytes)
        OBVIOUS
    <2> QED BY <2>1, NativeEmpty, ConversionEmpty
<1>2. ASSUME NEW s \in Seq(Bytes), NEW c \in Bytes, s \in T PROVE Append(s, c) \in T
    <2>1. native_to_netascii(s) \in Seq(Bytes) /\ NetasciiOf(c) \in Seq(Bytes)
        BY NativeLength, NetasciiOfByte
    <2>2. IsNetascii(native_to_netascii(s)) /\ IsNetascii(NetasciiOf(c))
        BY NativeIsNetascii, NetasciiOfIsNetascii
    <2>3. netascii_to_native(native_to_netascii(s) \o NetasciiOf(c))
            = netascii_to_native(native_to_netascii(s)) \o netascii_to_native(NetasciiOf(c))
        BY <2>1, <2>2, ConversionConcat
    <2>4. netascii_to_native(native_to_netascii(Append(s, c))) = s \o <<c>>
        BY <1>2, <2>3, NativeAppend, ConversionOfByte
    <2>5. Append(s, c) = s \o <<c>> /\ Append(s, c) \in Seq(Bytes)
        BY AppendIsConcat
    <2> QED BY <2>4, <2>5
<1> HIDE DEF T
<1>3. \A s \in Seq(Bytes) : s \in T
    BY <1>1, <1>2, SequenceInduction
<1> QED BY <1>3 DEF T

-----------------------------------------------------------------------------
(* The inductive invariant.                                                *)

(* The end-of-file indicator is set only at the end of the file.           *)
EofInv == feof => pos = Len(source)

(* Where a session goes on, nothing failed; a block is in the receiver's   *)
(* hands, or was the last one, only after it was read; only get_file       *)
(* stores without the loop of tftp_write_file.                             *)
CallerInv ==
    /\ blocks \in Seq(Seq(Bytes))
    /\ pc \in {"read", "end"} /\ peer # "get_file" => ~ferror
    /\ pc \in {"store", "write", "end"} => blocks # <<>>
    /\ pc = "end" => Len(Last(blocks)) < BlockSize
    /\ pc = "store" => peer = "get_file" /\ bytes_written = 0
    /\ pc = "write" => peer = "session"

(* The part of a block that has not been stored yet.                       *)
Pending == IF pc \in {"store", "write"} /\ bytes_written = 0 THEN data ELSE <<>>

(* As long as no write failed, what is stored and what is pending is what  *)
(* the blocks amount to, and no block ends within a pair of bytes.         *)
StoredInv ==
    peer # "foreign" /\ ~ferror /\ pc \in {"read", "store", "write", "end"} =>
        /\ mode = "NETASCII" => IsNetascii(FlattenSeq(blocks))
        /\ bytes_written \in {0, Len(data)}
        /\ Decoded(FlattenSeq(blocks)) = stored \o Pending

FileInv ==
    /\ TypeOK /\ EofInv /\ CallerInv /\ BlocksExact /\ ShortMeansEnd
    /\ StoredInv /\ OnlySplitPairThrows

-----------------------------------------------------------------------------
(* Reading a block *)

(* What is read of the file, converted if need be.                         *)
LEMMA EncodedFacts ==
    ASSUME NEW s \in Seq(Bytes)
    PROVE  /\ Encoded(s) \in Seq(Bytes)
           /\ Len(s) <= Len(Encoded(s)) /\ Len(Encoded(s)) <= 2 * Len(s)
<1>1. Len(s) \in Nat /\ Len(s) <= Len(s) /\ Len(s) <= 2 * Len(s)
    OBVIOUS
<1>2. CASE mode = "OCTET"
    BY <1>1, <1>2 DEF Encoded
<1>3. CASE mode # "OCTET"
    BY <1>3, NativeLength DEF Encoded
<1> QED BY <1>2, <1>3

(* Two parts are converted as the whole is.                                *)
LEMMA EncodedConcat ==
    ASSUME NEW s \in Seq(Bytes), NEW t \in Seq(Bytes)
    PROVE  Encoded(s \o t) = Encoded(s) \o Encoded(t)
BY NativeConcat DEF Encoded

(* The block and the new overflow are what was to be returned.             *)
LEMMA FirstAndRest ==
    ASSUME NEW ret \in Seq(Bytes), NEW size \in Nat
    PROVE  /\ FirstBytes(ret, size) \in Seq(Bytes) /\ Rest(ret, size) \in Seq(Bytes)
           /\ FirstBytes(ret, size) \o Rest(ret, size) = ret
           /\ Len(FirstBytes(ret, size)) = IF Len(ret) <= size THEN Len(ret) ELSE size
           /\ Len(Rest(ret, size)) = IF Len(ret) <= size THEN 0 ELSE Len(ret) - size
           /\ Len(ret) <= size => Rest(ret, size) = <<>>
<1>1. Len(ret) \in Nat
    OBVIOUS
<1>2. CASE Len(ret) <= size
    <2>1. Rest(ret, size) = <<>>
        BY <1>1, <1>2 DEF Rest
    <2>2. FirstBytes(ret, size) = ret
        BY <1>2, SubSeqFull DEF FirstBytes
    <2>3. ret \o <<>> = ret /\ <<>> \in Seq(Bytes) /\ Len(<<>>) = 0
        BY ConcatEmptySeq
    <2> QED BY <1>2, <2>1, <2>2, <2>3
<1>3. CASE ~(Len(ret) <= size)
    <2>1. size \in 0 .. Len(ret)
        BY <1>1, <1>3
    <2>2. FirstBytes(ret, size) = SubSeq(ret, 1, size)
        BY <1>3 DEF FirstBytes
    <2>3. /\ FirstBytes(ret, size) \in Seq(Bytes) /\ Len(FirstBytes(ret, size)) = size
          /\ Rest(ret, size) \in Seq(Bytes)
          /\ FirstBytes(ret, size) \o Rest(ret, size) = ret
        BY <2>1, <2>2, SplitAt DEF Rest
    <2>4. Len(Rest(ret, size)) = Len(ret) - size
        BY <1>1, <2>1 DEF Rest
    <2> QED BY <1>3, <2>3, <2>4
<1> QED BY <1>2, <1>3

(* One call of read_in_to: the bytes that are left over fit into the next  *)
(* block, the blocks and the overflow are the bytes read, and a short      *)
(* block is the last one.                                                  *)
LEMMA ReadFacts ==
    ASSUME TypeOK, EofInv, CallerInv, BlocksExact, peer # "session", read_in_to(BlockSize)
    PROVE  \E F \in Seq(Bytes) :
                /\ blocks' = Append(blocks, F) /\ Len(F) <= BlockSize
                /\ pos' \in 0 .. Len(source) /\ feof' \in BOOLEAN
                /\ feof' => pos' = Len(source)
                /\ overflow' \in Seq(Bytes) /\ Len(overflow') <= BlockSize
                /\ FlattenSeq(blocks) \o (F \o overflow') = Encoded(SubSeq(source, 1, pos'))
                /\ Len(F) < BlockSize => pos' = Len(source) /\ overflow' = <<>>
<1> DEFINE want == BytesFromFile(BlockSize)
           n == IF feof THEN 0
                ELSE IF want <= Len(source) - pos THEN want ELSE Len(source) - pos
           e == Encoded(SubSeq(source, pos + 1, pos + n))
           ret == overflow \o e
           F == FirstBytes(ret, BlockSize)
           P == FlattenSeq(blocks)
<1>1. /\ pos' = pos + n /\ feof' = (feof \/ n < want)
      /\ overflow' = Rest(ret, BlockSize) /\ blocks' = Append(blocks, F)
    BY DEF read_in_to
<1>2. /\ BlockSize \in Nat \ {0} /\ Len(source) \in Nat /\ pos \in Nat /\ pos <= Len(source)
      /\ source \in Seq(Bytes) /\ feof \in BOOLEAN
      /\ overflow \in Seq(Bytes) /\ Len(overflow) \in Nat /\ Len(overflow) <= BlockSize
    BY FileAssumption DEF TypeOK
<1>3. want \in Nat /\ want = BlockSize - Len(overflow)
    BY <1>2 DEF BytesFromFile
<1>4. /\ n \in Nat /\ n <= want /\ pos + n <= Len(source)
      /\ (feof \/ n < want) => pos + n = Len(source)
    <2> HIDE DEF want
    <2>1. CASE feof
        <3>1. n = 0 /\ pos = Len(source)
            BY <2>1 DEF EofInv
        <3> HIDE DEF n
        <3> QED BY <1>2, <1>3, <3>1
    <2>2. CASE ~feof
        <3>1. n = IF want <= Len(source) - pos THEN want ELSE Len(source) - pos
            BY <2>2
        <3> HIDE DEF n
        <3> QED BY <1>2, <1>3, <2>2, <3>1
    <2> QED BY <1>2, <2>1, <2>2
<1> HIDE DEF want, n
<1>5. SubSeq(source, pos + 1, pos + n) \in Seq(Bytes) /\ Len(SubSeq(source, pos + 1, pos + n)) = n
    BY <1>2, <1>4
<1>6. e \in Seq(Bytes) /\ n <= Len(e) /\ Len(e) <= 2 * n /\ Len(e) \in Nat
    <2>1. e \in Seq(Bytes) /\ n <= Len(e) /\ Len(e) <= 2 * n
        BY <1>5, EncodedFacts
    <2> HIDE DEF e
    <2> QED BY <2>1
<1>7. SubSeq(source, 1, pos) \o SubSeq(source, pos + 1, pos + n) = SubSeq(source, 1, pos + n)
    <2>1. 1 \in 1 .. Len(source) + 1 /\ pos \in 1 - 1 .. Len(source) /\ pos + n \in pos .. Len(source)
        BY <1>2, <1>4
    <2> QED BY <1>2, <2>1, ConcatAdjacentSubSeq
<1>8. Encoded(SubSeq(source, 1, pos)) \o e = Encoded(SubSeq(source, 1, pos + n))
    <2>1. SubSeq(source, 1, pos) \in Seq(Bytes)
        BY <1>2
    <2> QED BY <1>5, <1>7, <2>1, EncodedConcat
<1> HIDE DEF e
<1>9. ret \in Seq(Bytes) /\ Len(ret) = Len(overflow) + Len(e) /\ Len(ret) \in Nat
    <2>1. ret \in Seq(Bytes) /\ Len(ret) = Len(overflow) + Len(e)
        BY <1>2, <1>6, ConcatProperties
    <2> HIDE DEF ret
    <2> QED BY <2>1
<1>10. P \in Seq(Bytes) /\ P \o overflow = Encoded(SubSeq(source, 1, pos))
    BY FlattenType DEF CallerInv, BlocksExact
<1>11. P \o ret = Encoded(SubSeq(source, 1, pos'))
    <2> HIDE DEF P
    <2>1. (P \o overflow) \o e = P \o (overflow \o e)
        BY <1>2, <1>6, <1>10, ConcatBytes
    <2> QED BY <1>1, <1>8, <1>10, <2>1
<1> HIDE DEF ret, P
<1>12. /\ F \in Seq(Bytes) /\ overflow' \in Seq(Bytes) /\ F \o overflow' = ret
       /\ Len(F) = IF Len(ret) <= BlockSize THEN Len(ret) ELSE BlockSize
       /\ Len(overflow') = IF Len(ret) <= BlockSize THEN 0 ELSE Len(ret) - BlockSize
       /\ Len(ret) <= BlockSize => overflow' = <<>>
    BY <1>1, <1>2, <1>9, FirstAndRest
<1> HIDE DEF F
<1>13. Len(F) <= BlockSize /\ Len(overflow') <= BlockSize
    BY <1>2, <1>3, <1>4, <1>6, <1>9, <1>12
<1>14. Len(F) < BlockSize => pos' = Len(source) /\ overflow' = <<>>
    <2> SUFFICES ASSUME Len(F) < BlockSize PROVE pos' = Len(source) /\ overflow' = <<>>
        OBVIOUS
    <2>1. Len(ret) < BlockSize
        BY <1>2, <1>9, <1>12
    <2>2. n < want
        BY <1>2, <1>3, <1>4, <1>6, <1>9, <2>1
    <2> QED BY <1>1, <1>2, <1>4, <1>9, <1>12, <2>1, <2>2
<1>15. pos' \in 0 .. Len(source)
    BY <1>1, <1>2, <1>4
<1>16. feof' \in BOOLEAN
    BY <1>1
<1>17. feof' => pos' = Len(source)
    BY <1>1, <1>4
<1>18. P \o (F \o overflow') = Encoded(SubSeq(source, 1, pos'))
    BY <1>11, <1>12
<1> QED BY <1>1, <1>12, <1>13, <1>14, <1>15, <1>16, <1>17, <1>18 DEF P

(* A block of netascii that is not netascii ends within a pair of bytes.   *)
LEMMA SplitPair ==
    ASSUME NEW P \in Seq(Bytes), NEW F \in Seq(Bytes), NEW R \in Seq(Bytes),
           IsNetascii(P \o (F \o R)), ~IsNetascii(F)
    PROVE  F[Len(F)] = "CR" /\ R # <<>> /\ Head(R) \in {"LF", "NUL"}
<1> DEFINE v == F \o R
           w == P \o v
<1>1. /\ v \in Seq(Bytes) /\ Len(F) \in Nat /\ Len(R) \in Nat /\ Len(v) = Len(F) + Len(R)
      /\ \A i \in 1 .. Len(F) + Len(R) : v[i] = IF i <= Len(F) THEN F[i] ELSE R[i - Len(F)]
      /\ DOMAIN F = 1 .. Len(F)
    BY ConcatProperties
<1> HIDE DEF v
<1>2. /\ w \in Seq(Bytes) /\ Len(P) \in Nat /\ Len(w) = Len(P) + Len(v)
      /\ DOMAIN w = 1 .. Len(w)
      /\ \A i \in 1 .. Len(P) + Len(v) : w[i] = IF i <= Len(P) THEN P[i] ELSE v[i - Len(P)]
    <2>1. /\ w \in Seq(Bytes) /\ Len(w) = Len(P) + Len(v)
          /\ \A i \in 1 .. Len(P) + Len(v) : w[i] = IF i <= Len(P) THEN P[i] ELSE v[i - Len(P)]
        <3>1. v \in Seq(Bytes)
            BY <1>1
        <3> QED BY <3>1, ConcatProperties
    <2> HIDE DEF w
    <2> QED BY <2>1
<1>3. IsNetascii(w)
    BY DEF v
<1> HIDE DEF w
<1>4. PICK i \in 1 .. Len(F) : F[i] = "CR" /\ ~(i < Len(F) /\ F[i + 1] \in {"LF", "NUL"})
    BY <1>1 DEF IsNetascii
<1>5. Len(P) + i \in 1 .. Len(w) /\ w[Len(P) + i] = "CR"
    <2>1. /\ Len(P) + i \in 1 .. Len(P) + Len(v) /\ ~(Len(P) + i <= Len(P)) /\ (Len(P) + i) - Len(P) = i
          /\ i \in 1 .. Len(F) + Len(R) /\ i <= Len(F)
        BY <1>1, <1>2
    <2>2. w[Len(P) + i] = v[i] /\ v[i] = F[i]
        BY <1>1, <1>2, <2>1
    <2> QED BY <1>2, <1>4, <2>1, <2>2
<1>6. Len(P) + i < Len(w) /\ w[(Len(P) + i) + 1] \in {"LF", "NUL"}
    BY <1>2, <1>3, <1>5 DEF IsNetascii
<1>7. i + 1 \in 1 .. Len(F) + Len(R) /\ v[i + 1] \in {"LF", "NUL"}
    <2>1. /\ (Len(P) + i) + 1 \in 1 .. Len(P) + Len(v) /\ ~((Len(P) + i) + 1 <= Len(P))
          /\ ((Len(P) + i) + 1) - Len(P) = i + 1 /\ i + 1 \in 1 .. Len(F) + Len(R)
        BY <1>1, <1>2, <1>6
    <2> QED BY <1>2, <1>6, <2>1
<1>8. i = Len(F)
    <2> SUFFICES ASSUME i # Len(F) PROVE FALSE
        OBVIOUS
    <2>1. i < Len(F) /\ i + 1 <= Len(F)
        <3>1. Len(F) \in Nat /\ i \in 1 .. Len(F) /\ i # Len(F)
            OBVIOUS
        <3> QED BY <3>1
    <2> QED BY <1>1, <1>4, <1>7, <2>1
<1>9. Len(R) >= 1 /\ R[1] \in {"LF", "NUL"}
    <2>1. ~(i + 1 <= Len(F)) /\ (i + 1) - Len(F) = 1 /\ Len(R) >= 1
        BY <1>1, <1>7, <1>8
    <2> QED BY <1>1, <1>7, <2>1
<1>10. R # <<>> /\ Head(R) = R[1]
    BY <1>9
<1> QED BY <1>4, <1>8, <1>9, <1>10

-----------------------------------------------------------------------------
(* The steps *)

(* At the start nothing is read and nothing is stored.                     *)
LEMMA InitFile == Init => FileInv
<1> SUFFICES ASSUME Init PROVE FileInv
    OBVIOUS
<1>1. source \in Seq(Bytes)
    <2>1. PICK m \in 0 .. MaxLength : source \in [1 .. m -> Bytes]
        BY DEF Init, BoundedSeq, SeqOf
    <2>2. m \in Nat
        BY FileAssumption
    <2> QED BY <2>1, <2>2
<1>2. <<>> \in Seq(Bytes) /\ <<>> \in Seq(Seq(Bytes)) /\ Len(<<>>) = 0 /\ DOMAIN <<>> = {}
    OBVIOUS
<1>3. BlockSize \in Nat /\ 0 \in 0 .. 0 /\ 0 \in 0 .. MaxFaults /\ 0 <= BlockSize
    BY FileAssumption
<1>4. 0 \in 0 .. Len(source)
    BY <1>1
<1>5. TypeOK
    BY <1>1, <1>2, <1>3, <1>4, Zenon DEF Init, TypeOK
<1>6. EofInv /\ CallerInv /\ ShortMeansEnd /\ OnlySplitPairThrows
    BY <1>2 DEF Init, EofInv, CallerInv, ShortMeansEnd, OnlySplitPairThrows
<1>7. <<>> \o <<>> = <<>>
    BY <1>2, ConcatEmptySeq
<1>8. BlocksExact
    <2>1. SubSeq(source, 1, 0) = <<>>
        BY <1>1
    <2>2. Encoded(<<>>) = <<>>
        BY NativeEmpty DEF Encoded
    <2> QED BY <1>7, <2>1, <2>2, FlattenEmpty DEF Init, BlocksExact
<1>9. StoredInv
    <2>1. Decoded(<<>>) = <<>> /\ IsNetascii(<<>>)
        BY ConversionEmpty DEF Decoded, IsNetascii
    <2> QED BY <1>2, <1>7, <2>1, FlattenEmpty DEF Init, StoredInv, Pending
<1> QED BY <1>5, <1>6, <1>8, <1>9 DEF FileInv

(* The block appended last.                                                *)
LEMMA LastOfAppend ==
    ASSUME NEW bs \in Seq(Seq(Bytes)), NEW F \in Seq(Bytes)
    PROVE  Last(Append(bs, F)) = F
<1>1. Len(Append(bs, F)) = Len(bs) + 1 /\ Append(bs, F)[Len(bs) + 1] = F
    BY AppendProperties
<1> QED BY <1>1 DEF Last

(* A block is taken by a client of another make, refused by the converter, *)
(* or converted and handed on.                                             *)
Taken(F) ==
    /\ pc = "read" /\ blocks' = Append(blocks, F) /\ bytes_written' = 0
    /\ \/ peer = "foreign" /\ pc' = AfterBlock(F) /\ data' = data
       \/ /\ peer # "foreign" /\ mode = "NETASCII" /\ ~IsNetascii(F)
          /\ pc' = "exception" /\ data' = data
       \/ /\ peer # "foreign" /\ (mode = "NETASCII" => IsNetascii(F))
          /\ pc' = (IF peer = "get_file" THEN "store" ELSE "write")
          /\ data' = Decoded(F)
    /\ UNCHANGED <<stored, ferror, faults, full, mode, peer, source>>

(* What holds of the receiver after a block was taken.                     *)
LEMMA TakenFacts ==
    ASSUME FileInv, NEW F \in Seq(Bytes), Len(F) <= BlockSize, Taken(F)
    PROVE  /\ Last(blocks') = F /\ blocks' # <<>>
           /\ FlattenSeq(blocks) \in Seq(Bytes)
           /\ FlattenSeq(blocks') = FlattenSeq(blocks) \o F
           /\ \A i \in DOMAIN blocks' : blocks'[i] \in Seq(Bytes) /\ Len(blocks'[i]) <= BlockSize
           /\ data' \in Seq(Bytes) /\ bytes_written' \in 0 .. Len(data')
           /\ pc' \in {"read", "store", "write", "end", "failed", "exception"}
           /\ CallerInv' /\ StoredInv'
<1>1. /\ pc = "read" /\ bytes_written' = 0 /\ blocks' = Append(blocks, F)
      /\ UNCHANGED <<stored, ferror, mode, peer>>
    BY DEF Taken
<1>2. TypeOK /\ CallerInv /\ StoredInv
    BY DEF FileInv
<1>3. /\ blocks \in Seq(Seq(Bytes)) /\ blocks' \in Seq(Seq(Bytes)) /\ blocks' # <<>>
      /\ Last(blocks') = F /\ DOMAIN blocks' = 1 .. Len(blocks) + 1 /\ Len(blocks) \in Nat
      /\ DOMAIN blocks = 1 .. Len(blocks)
      /\ \A i \in 1 .. Len(blocks) : blocks'[i] = blocks[i]
      /\ blocks'[Len(blocks) + 1] = F
    <2>1. blocks \in Seq(Seq(Bytes))
        BY <1>2 DEF CallerInv
    <2>2. /\ blocks' \in Seq(Seq(Bytes)) /\ Len(blocks') = Len(blocks) + 1
          /\ \A i \in 1 .. Len(blocks) : blocks'[i] = blocks[i]
          /\ blocks'[Len(blocks) + 1] = F
        BY <1>1, <2>1, AppendProperties
    <2>3. Len(blocks) \in Nat /\ DOMAIN blocks = 1 .. Len(blocks) /\ DOMAIN blocks' = 1 .. Len(blocks')
        BY <2>1, <2>2, LenProperties
    <2>4. Last(blocks') = F
        BY <2>2 DEF Last
    <2>5. blocks' # <<>>
        <3>1. Len(<<>>) = 0 /\ Len(blocks) + 1 # 0
            BY <2>3
        <3> QED BY <2>2, <3>1
    <2> QED BY <2>1, <2>2, <2>3, <2>4, <2>5
<1>4. FlattenSeq(blocks) \in Seq(Bytes)
    BY <1>3, FlattenType
<1>5. FlattenSeq(blocks') = FlattenSeq(blocks) \o F
    BY <1>1, <1>3, FlattenAppend
<1>6. ASSUME NEW i \in DOMAIN blocks'
      PROVE  blocks'[i] \in Seq(Bytes) /\ Len(blocks'[i]) <= BlockSize
    <2>1. i \in 1 .. Len(blocks) \/ i = Len(blocks) + 1
        BY <1>3
    <2>2. \A j \in DOMAIN blocks : blocks[j] \in Seq(Bytes) /\ Len(blocks[j]) <= BlockSize
        BY <1>2 DEF TypeOK
    <2>3. CASE i \in 1 .. Len(blocks)
        BY <1>3, <2>2, <2>3
    <2>4. CASE i = Len(blocks) + 1
        BY <1>3, <2>4
    <2> QED BY <2>1, <2>3, <2>4
<1>7. data' \in Seq(Bytes)
    BY <1>2, ConversionType DEF Taken, TypeOK, Decoded
<1>8. bytes_written' \in 0 .. Len(data')
    BY <1>1, <1>7
<1>9. /\ pc' \in {"read", "store", "write", "end", "exception"}
      /\ pc' = "end" => Len(F) < BlockSize
      /\ pc' \in {"read", "end"} => peer = "foreign"
      /\ pc' = "store" => peer = "get_file"
      /\ pc' = "write" => peer \notin {"foreign", "get_file"}
    BY DEF Taken, AfterBlock
<1>10. CallerInv'
    <2>1. pc' = "write" => peer = "session"
        BY <1>2, <1>9 DEF TypeOK
    <2> QED BY <1>1, <1>2, <1>3, <1>9, <2>1 DEF CallerInv
<1>11. StoredInv'
    <2> SUFFICES ASSUME peer # "foreign", ~ferror, pc' \in {"read", "store", "write", "end"}
                 PROVE  /\ mode = "NETASCII" => IsNetascii(FlattenSeq(blocks'))
                        /\ bytes_written' \in {0, Len(data')}
                        /\ Decoded(FlattenSeq(blocks')) = stored \o Pending'
        BY <1>1 DEF StoredInv, Decoded
    <2>1. /\ pc' \in {"store", "write"} /\ data' = Decoded(F)
          /\ mode = "NETASCII" => IsNetascii(F)
        BY DEF Taken
    <2>2. /\ mode = "NETASCII" => IsNetascii(FlattenSeq(blocks))
          /\ Decoded(FlattenSeq(blocks)) = stored \o <<>>
        BY <1>1, <1>2 DEF StoredInv, Pending
    <2>3. stored \o <<>> = stored
        BY <1>2, ConcatEmptySeq DEF TypeOK
    <2>4. mode = "NETASCII" => IsNetascii(FlattenSeq(blocks'))
        BY <1>4, <1>5, <2>1, <2>2, NetasciiConcat
    <2>5. Decoded(FlattenSeq(blocks) \o F) = Decoded(FlattenSeq(blocks)) \o Decoded(F)
        <3>1. CASE mode = "OCTET"
            BY <3>1 DEF Decoded
        <3>2. CASE mode = "NETASCII"
            BY <1>4, <2>1, <2>2, <3>2, ConversionConcat DEF Decoded
        <3> QED BY <1>2, <3>1, <3>2 DEF TypeOK
    <2>6. Pending' = data'
        BY <1>1, <2>1 DEF Pending
    <2> QED BY <1>1, <1>5, <2>1, <2>2, <2>3, <2>4, <2>5, <2>6
<1> QED BY <1>3, <1>4, <1>5, <1>6, <1>7, <1>8, <1>9, <1>10, <1>11

(* A block is read and taken by a client.                                  *)
LEMMA ReadStep ==
    ASSUME FileInv, Read
    PROVE  FileInv'
<1>1. /\ pc = "read" /\ peer # "session" /\ read_in_to(BlockSize) /\ bytes_written' = 0
      /\ UNCHANGED <<stored, ferror, faults, full, mode, peer, source>>
    BY DEF Read, read_in_to
<1>2. TypeOK /\ EofInv /\ CallerInv /\ BlocksExact
    BY DEF FileInv
<1>3. PICK F \in Seq(Bytes) :
            /\ blocks' = Append(blocks, F) /\ Len(F) <= BlockSize
            /\ pos' \in 0 .. Len(source) /\ feof' \in BOOLEAN
            /\ feof' => pos' = Len(source)
            /\ overflow' \in Seq(Bytes) /\ Len(overflow') <= BlockSize
            /\ FlattenSeq(blocks) \o (F \o overflow') = Encoded(SubSeq(source, 1, pos'))
            /\ Len(F) < BlockSize => pos' = Len(source) /\ overflow' = <<>>
    BY <1>1, <1>2, ReadFacts
<1>4. Last(blocks') = F
    BY <1>2, <1>3, LastOfAppend DEF CallerInv
<1>5. Taken(F)
    BY <1>1, <1>2, <1>3, <1>4 DEF Read, Convert, Taken, TypeOK
<1>6. /\ Last(blocks') = F /\ blocks' # <<>>
      /\ FlattenSeq(blocks) \in Seq(Bytes)
      /\ FlattenSeq(blocks') = FlattenSeq(blocks) \o F
      /\ \A i \in DOMAIN blocks' : blocks'[i] \in Seq(Bytes) /\ Len(blocks'[i]) <= BlockSize
      /\ data' \in Seq(Bytes) /\ bytes_written' \in 0 .. Len(data')
      /\ pc' \in {"read", "store", "write", "end", "failed", "exception"}
      /\ CallerInv' /\ StoredInv'
    BY <1>3, <1>5, TakenFacts
<1>7. TypeOK'
    BY <1>1, <1>2, <1>3, <1>6 DEF TypeOK
<1>8. EofInv'
    BY <1>1, <1>3 DEF EofInv
<1>9. BlocksExact'
    <2>1. (FlattenSeq(blocks) \o F) \o overflow' = FlattenSeq(blocks) \o (F \o overflow')
        <3> DEFINE P == FlattenSeq(blocks)
        <3>1. P \in Seq(Bytes)
            BY <1>6
        <3>2. overflow' \in Seq(Bytes)
            BY <1>3
        <3> HIDE DEF P
        <3>3. (P \o F) \o overflow' = P \o (F \o overflow')
            BY <3>1, <3>2, ConcatBytes
        <3> QED BY <3>3 DEF P
    <2> QED BY <1>1, <1>3, <1>6, <2>1 DEF BlocksExact, Encoded
<1>10. ShortMeansEnd'
    BY <1>1, <1>3, <1>4 DEF ShortMeansEnd
<1>11. OnlySplitPairThrows'
    <2> SUFFICES ASSUME pc' = "exception"
                 PROVE  F[Len(F)] = "CR" /\ overflow' # <<>> /\ Head(overflow') \in {"LF", "NUL"}
        BY <1>4 DEF OnlySplitPairThrows, Last
    <2>1. mode = "NETASCII" /\ ~IsNetascii(F)
        BY <1>5 DEF Taken, AfterBlock
    <2>2. SubSeq(source, 1, pos') \in Seq(Bytes)
        BY <1>2, <1>3 DEF TypeOK
    <2>3. IsNetascii(FlattenSeq(blocks) \o (F \o overflow'))
        BY <1>3, <2>1, <2>2, NativeIsNetascii DEF Encoded
    <2> QED BY <1>3, <1>6, <2>1, <2>3, SplitPair
<1> QED BY <1>6, <1>7, <1>8, <1>9, <1>10, <1>11 DEF FileInv

(* A session receives a block of a WRITE, cut by recv.                     *)
LEMMA ReceiveStep ==
    ASSUME FileInv, Receive
    PROVE  FileInv'
<1> DEFINE rest == SubSeq(source, pos + 1, Len(source))
           payload == FirstBytes(rest, BlockSize)
           F == FirstBytes(payload, RecvData)
<1>1. /\ pc = "read" /\ peer = "session" /\ pos' = pos + Len(payload)
      /\ blocks' = Append(blocks, F) /\ bytes_written' = 0
      /\ UNCHANGED <<mode, peer, source, feof, overflow, stored, ferror, faults, full>>
    BY DEF Receive
<1>2. TypeOK /\ EofInv /\ CallerInv
    BY DEF FileInv
<1>3. /\ source \in Seq(Bytes) /\ Len(source) \in Nat /\ pos \in Nat /\ pos <= Len(source)
      /\ BlockSize \in Nat /\ RecvData \in Nat /\ RecvData <= BlockSize
    BY <1>2, FileAssumption DEF TypeOK, RecvData
<1>4. rest \in Seq(Bytes) /\ Len(rest) = Len(source) - pos
    BY <1>3
<1> HIDE DEF rest
<1>5. payload \in Seq(Bytes) /\ Len(payload) = IF Len(rest) <= BlockSize THEN Len(rest) ELSE BlockSize
    BY <1>3, <1>4, FirstAndRest
<1> HIDE DEF payload
<1>6. F \in Seq(Bytes) /\ Len(F) = IF Len(payload) <= RecvData THEN Len(payload) ELSE RecvData
    BY <1>3, <1>5, FirstAndRest
<1> HIDE DEF F
<1>7. Len(F) <= BlockSize /\ pos' \in 0 .. Len(source) /\ (pos = Len(source) => pos' = Len(source))
    BY <1>1, <1>3, <1>4, <1>5, <1>6
<1>8. Last(blocks') = F
    BY <1>1, <1>2, <1>6, LastOfAppend DEF CallerInv
<1>9. Taken(F)
    BY <1>1, <1>8 DEF Receive, Convert, Taken
<1>10. /\ \A i \in DOMAIN blocks' : blocks'[i] \in Seq(Bytes) /\ Len(blocks'[i]) <= BlockSize
       /\ data' \in Seq(Bytes) /\ bytes_written' \in 0 .. Len(data')
       /\ pc' \in {"read", "store", "write", "end", "failed", "exception"}
       /\ CallerInv' /\ StoredInv'
    BY <1>6, <1>7, <1>9, TakenFacts
<1>11. TypeOK'
    BY <1>1, <1>2, <1>7, <1>10 DEF TypeOK
<1>12. EofInv'
    BY <1>1, <1>2, <1>7 DEF EofInv
<1>13. BlocksExact' /\ ShortMeansEnd' /\ OnlySplitPairThrows'
    BY <1>1 DEF BlocksExact, ShortMeansEnd, OnlySplitPairThrows
<1> QED BY <1>10, <1>11, <1>12, <1>13 DEF FileInv

(* One call of fwrite takes at most what is left of the block.             *)
LEMMA FwriteFacts ==
    ASSUME TypeOK, NEW k \in Nat, k <= Len(data) - bytes_written, fwrite(k)
    PROVE  /\ stored' \in Seq(Bytes) /\ bytes_written' \in 0 .. Len(data) /\ ferror' \in BOOLEAN
           /\ ~ferror' => ~ferror /\ k = Len(data) - bytes_written
<1>1. data \in Seq(Bytes) /\ stored \in Seq(Bytes) /\ Len(data) \in Nat /\ bytes_written \in 0 .. Len(data)
    BY DEF TypeOK
<1>2. SubSeq(data, 1, k) \in Seq(Bytes)
    BY <1>1
<1>3. stored' \in Seq(Bytes)
    BY <1>1, <1>2 DEF fwrite
<1>4. bytes_written' \in 0 .. Len(data)
    BY <1>1 DEF fwrite
<1>5. ferror' \in BOOLEAN
    BY DEF fwrite
<1>6. ~ferror' => ~ferror /\ ~(k < Len(data) - bytes_written)
    BY DEF fwrite
<1> QED BY <1>1, <1>3, <1>4, <1>5, <1>6

(* What a step of the writer leaves alone.                                 *)
LEMMA WriterKeeps ==
    ASSUME FileInv, UNCHANGED readerVars,
           pc' \in {"read", "write", "end", "failed"}
    PROVE  EofInv' /\ BlocksExact' /\ ShortMeansEnd' /\ OnlySplitPairThrows'
BY DEF FileInv, readerVars, EofInv, BlocksExact, Encoded, ShortMeansEnd, OnlySplitPairThrows

(* A call of fwrite that takes the rest, or nothing on a full disk.        *)
LEMMA WriteStep ==
    ASSUME FileInv, Write
    PROVE  FileInv'
<1> DEFINE k == IF full THEN 0 ELSE Len(data) - bytes_written
<1>1. /\ pc = "write" /\ pc' = "write" /\ ~LoopEnds /\ fwrite(k)
      /\ UNCHANGED readerVars /\ UNCHANGED <<data, faults, full>>
    BY DEF Write
<1>2. /\ TypeOK /\ CallerInv /\ StoredInv
      /\ data \in Seq(Bytes) /\ stored \in Seq(Bytes)
      /\ Len(data) \in Nat /\ bytes_written \in 0 .. Len(data)
    BY DEF FileInv, TypeOK
<1>3. bytes_written < Len(data)
    BY <1>1, <1>2 DEF LoopEnds
<1>4. k \in Nat /\ k <= Len(data) - bytes_written
    BY <1>2
<1> HIDE DEF k
<1>5. /\ stored' \in Seq(Bytes) /\ bytes_written' \in 0 .. Len(data) /\ ferror' \in BOOLEAN
      /\ ~ferror' => ~ferror /\ k = Len(data) - bytes_written
    BY <1>1, <1>2, <1>4, FwriteFacts
<1>6. TypeOK'
    BY <1>1, <1>2, <1>5 DEF TypeOK, readerVars
<1>7. EofInv' /\ BlocksExact' /\ ShortMeansEnd' /\ OnlySplitPairThrows'
    BY <1>1, WriterKeeps
<1>8. CallerInv'
    BY <1>1, <1>2 DEF CallerInv, readerVars
<1>9. StoredInv'
    <2> SUFFICES ASSUME peer # "foreign", ~ferror'
                 PROVE  /\ mode = "NETASCII" => IsNetascii(FlattenSeq(blocks))
                        /\ bytes_written' \in {0, Len(data)}
                        /\ Decoded(FlattenSeq(blocks)) = stored' \o Pending'
        BY <1>1 DEF StoredInv, Decoded, readerVars
    <2>1. /\ mode = "NETASCII" => IsNetascii(FlattenSeq(blocks))
          /\ bytes_written \in {0, Len(data)}
          /\ Decoded(FlattenSeq(blocks)) = stored \o Pending
        BY <1>1, <1>2, <1>5 DEF StoredInv
    <2>2. bytes_written = 0 /\ k = Len(data) /\ Len(data) # 0
        BY <1>2, <1>3, <1>5, <2>1
    <2>3. bytes_written' = Len(data) /\ stored' = stored \o SubSeq(data, 1, Len(data))
        BY <1>1, <1>2, <2>2 DEF fwrite
    <2>4. stored' = stored \o data
        BY <1>2, <2>3, SubSeqFull
    <2>5. Pending = data /\ Pending' = <<>>
        BY <1>1, <2>2, <2>3 DEF Pending
    <2>6. stored' \o <<>> = stored'
        BY <1>5, ConcatEmptySeq
    <2> QED BY <2>1, <2>3, <2>4, <2>5, <2>6
<1> QED BY <1>6, <1>7, <1>8, <1>9 DEF FileInv

(* A call of fwrite that fails sets the error indicator, for good.         *)
LEMMA WriteFailsStep ==
    ASSUME FileInv, NEW k \in 0 .. BlockSize, WriteFails(k)
    PROVE  FileInv'
<1>1. /\ pc = "write" /\ pc' = "write" /\ fwrite(k) /\ k < Len(data) - bytes_written
      /\ UNCHANGED readerVars /\ data' = data
      /\ faults < MaxFaults /\ faults' = faults + 1 /\ full' \in BOOLEAN
    BY DEF WriteFails
<1>2. /\ TypeOK /\ CallerInv /\ Len(data) \in Nat /\ bytes_written \in 0 .. Len(data)
      /\ faults \in 0 .. MaxFaults /\ MaxFaults \in Nat /\ BlockSize \in Nat
    BY FileAssumption DEF FileInv, TypeOK
<1>3. k \in Nat /\ k <= Len(data) - bytes_written /\ k # Len(data) - bytes_written
    BY <1>1, <1>2
<1>4. /\ stored' \in Seq(Bytes) /\ bytes_written' \in 0 .. Len(data) /\ ferror' \in BOOLEAN
      /\ ferror'
    BY <1>1, <1>2, <1>3, FwriteFacts
<1>5. faults' \in 0 .. MaxFaults
    BY <1>1, <1>2
<1>6. TypeOK'
    BY <1>1, <1>2, <1>4, <1>5 DEF TypeOK, readerVars
<1>7. EofInv' /\ BlocksExact' /\ ShortMeansEnd' /\ OnlySplitPairThrows'
    BY <1>1, WriterKeeps
<1>8. CallerInv' /\ StoredInv'
    BY <1>1, <1>2, <1>4 DEF CallerInv, StoredInv, readerVars
<1> QED BY <1>6, <1>7, <1>8 DEF FileInv

(* write returns, and the caller goes on or gives up.                      *)
LEMMA WriteReturnsStep ==
    ASSUME FileInv, WriteReturns
    PROVE  FileInv'
<1>1. /\ pc = "write" /\ LoopEnds /\ UNCHANGED <<readerVars, writerVars>>
      /\ pc' = IF ferror THEN "failed" ELSE AfterBlock(Last(blocks))
    BY DEF WriteReturns, WriteError
<1>2. /\ UNCHANGED readerVars
      /\ UNCHANGED <<mode, peer, source, pos, feof, overflow, blocks, data, bytes_written, stored,
                     ferror, faults, full>>
    BY <1>1 DEF readerVars, writerVars
<1>3. /\ pc' \in {"read", "end", "failed"} /\ (pc' \in {"read", "end"} => ~ferror)
      /\ pc' = "end" => Len(Last(blocks)) < BlockSize
    BY <1>1 DEF AfterBlock
<1>4. /\ TypeOK /\ CallerInv /\ StoredInv
      /\ data \in Seq(Bytes) /\ Len(data) \in Nat /\ bytes_written \in 0 .. Len(data)
    BY DEF FileInv, TypeOK
<1>5. TypeOK'
    BY <1>2, <1>3, <1>4 DEF TypeOK
<1>6. EofInv' /\ BlocksExact' /\ ShortMeansEnd' /\ OnlySplitPairThrows'
    BY <1>2, <1>3, WriterKeeps
<1>7. CallerInv'
    BY <1>1, <1>2, <1>3, <1>4 DEF CallerInv
<1>8. StoredInv'
    <2> SUFFICES ASSUME peer # "foreign", ~ferror, pc' \in {"read", "end"}
                 PROVE  /\ mode = "NETASCII" => IsNetascii(FlattenSeq(blocks))
                        /\ bytes_written \in {0, Len(data)}
                        /\ Decoded(FlattenSeq(blocks)) = stored \o Pending'
        BY <1>2, <1>3 DEF StoredInv, Decoded
    <2>1. /\ mode = "NETASCII" => IsNetascii(FlattenSeq(blocks))
          /\ bytes_written \in {0, Len(data)}
          /\ Decoded(FlattenSeq(blocks)) = stored \o Pending
        BY <1>1, <1>4 DEF StoredInv
    <2>2. bytes_written = Len(data)
        BY <1>1, <1>4 DEF LoopEnds
    <2>3. Pending = <<>>
        <3>1. Len(data) = 0 => data = <<>>
            BY <1>4
        <3> QED BY <2>2, <3>1 DEF Pending
    <2>4. Pending' = <<>>
        BY <1>3 DEF Pending
    <2> QED BY <2>1, <2>3, <2>4
<1> QED BY <1>5, <1>6, <1>7, <1>8 DEF FileInv

(* get_file writes a block, or as much of it as the disk takes.            *)
LEMMA StoreStep ==
    ASSUME FileInv, Store \/ \E k \in 0 .. BlockSize : StoreFails(k)
    PROVE  FileInv'
<1>1. /\ pc = "store" /\ pc' = AfterBlock(Last(blocks)) /\ UNCHANGED readerVars
      /\ UNCHANGED <<data, bytes_written, full>>
    BY DEF Store, StoreFails
<1>2. /\ pc' \in {"read", "end"}
      /\ pc' = "end" => Len(Last(blocks)) < BlockSize
    BY <1>1 DEF AfterBlock
<1>3. /\ TypeOK /\ CallerInv /\ StoredInv /\ peer = "get_file" /\ bytes_written = 0
      /\ data \in Seq(Bytes) /\ stored \in Seq(Bytes) /\ ferror \in BOOLEAN
      /\ Len(data) \in Nat /\ faults \in 0 .. MaxFaults /\ MaxFaults \in Nat /\ BlockSize \in Nat
    BY <1>1, FileAssumption DEF FileInv, TypeOK, CallerInv
<1>4. /\ stored' \in Seq(Bytes) /\ ferror' \in BOOLEAN /\ faults' \in 0 .. MaxFaults
      /\ ~ferror' => ~ferror /\ stored' = stored \o data
    <2>1. CASE Store
        BY <1>3, <2>1 DEF Store
    <2>2. CASE \E k \in 0 .. BlockSize : StoreFails(k)
        <3>1. PICK k \in 0 .. BlockSize : StoreFails(k)
            BY <2>2
        <3>2. /\ k < Len(data) /\ faults < MaxFaults /\ faults' = faults + 1 /\ ferror' = TRUE
              /\ stored' = stored \o SubSeq(data, 1, k)
            BY <3>1 DEF StoreFails
        <3>3. SubSeq(data, 1, k) \in Seq(Bytes)
            BY <1>3, <3>2
        <3>4. faults' \in 0 .. MaxFaults
            BY <1>3, <3>2
        <3>5. stored' \in Seq(Bytes)
            BY <1>3, <3>2, <3>3
        <3> QED BY <3>2, <3>4, <3>5
    <2> QED BY <2>1, <2>2
<1>5. TypeOK'
    BY <1>1, <1>2, <1>3, <1>4 DEF TypeOK, readerVars
<1>6. EofInv' /\ BlocksExact' /\ ShortMeansEnd' /\ OnlySplitPairThrows'
    BY <1>1, <1>2, WriterKeeps
<1>7. CallerInv'
    BY <1>1, <1>2, <1>3 DEF CallerInv, readerVars
<1>8. StoredInv'
    <2> SUFFICES ASSUME ~ferror'
                 PROVE  /\ mode = "NETASCII" => IsNetascii(FlattenSeq(blocks))
                        /\ bytes_written \in {0, Len(data)}
                        /\ Decoded(FlattenSeq(blocks)) = stored' \o Pending'
        BY <1>1 DEF StoredInv, Decoded, readerVars
    <2>1. /\ mode = "NETASCII" => IsNetascii(FlattenSeq(blocks))
          /\ bytes_written \in {0, Len(data)}
          /\ Decoded(FlattenSeq(blocks)) = stored \o Pending
        BY <1>1, <1>3, <1>4 DEF StoredInv
    <2>2. Pending = data /\ Pending' = <<>>
        BY <1>1, <1>2, <1>3 DEF Pending
    <2>3. stored' \o <<>> = stored'
        BY <1>4, ConcatEmptySeq
    <2> QED BY <1>4, <2>1, <2>2, <2>3
<1> QED BY <1>5, <1>6, <1>7, <1>8 DEF FileInv

(* Reading fails, or everything is over.                                   *)
LEMMA OtherFileStep ==
    ASSUME FileInv, ReadFails \/ UNCHANGED vars
    PROVE  FileInv'
<1>1. /\ UNCHANGED <<mode, peer, source, pos, feof, overflow, blocks, data, bytes_written, stored,
                     ferror, faults, full>>
      /\ pc' = pc \/ pc' = "failed"
    BY DEF ReadFails, vars, readerVars, writerVars
<1>2. TypeOK'
    BY <1>1 DEF FileInv, TypeOK
<1>3. EofInv' /\ BlocksExact' /\ ShortMeansEnd'
    BY <1>1 DEF FileInv, EofInv, BlocksExact, Encoded, ShortMeansEnd
<1>4. CallerInv' /\ OnlySplitPairThrows'
    BY <1>1 DEF FileInv, CallerInv, OnlySplitPairThrows
<1>5. StoredInv'
    BY <1>1 DEF FileInv, StoredInv, Decoded, Pending
<1> QED BY <1>2, <1>3, <1>4, <1>5 DEF FileInv

(* Every step of the sender and of the receiver keeps the invariant.       *)
LEMMA NextKeepsFileInv == FileInv /\ [Next]_vars => FileInv'
<1> SUFFICES ASSUME FileInv, [Next]_vars PROVE FileInv'
    OBVIOUS
<1> QED BY ReadStep, ReceiveStep, StoreStep, WriteStep, WriteFailsStep, WriteReturnsStep,
          OtherFileStep DEF Next, Ended

(* The invariant holds for ever.                                           *)
LEMMA FileInvariant == Spec => []FileInv
BY InitFile, NextKeepsFileInv, PTL DEF Spec

-----------------------------------------------------------------------------
(* The variables keep their types, and what read_in_to keeps in the        *)
(* overflow buffer always fits into the next block: the subtraction of     *)
(* its size from the unsigned size_bytes never wraps.                      *)
THEOREM FileTypeCorrect == Spec => []TypeOK
<1>1. FileInv => TypeOK
    BY DEF FileInv
<1> QED BY <1>1, FileInvariant, PTL

(* The blocks and the overflow buffer are the converted bytes read so far. *)
THEOREM NoByteLost == Spec => []BlocksExact
<1>1. FileInv => BlocksExact
    BY DEF FileInv
<1> QED BY <1>1, FileInvariant, PTL

(* read_in_to returns a short block only at the end of the file, with      *)
(* nothing left in the overflow buffer.                                    *)
THEOREM ShortBlockIsLast == Spec => []ShortMeansEnd
<1>1. FileInv => ShortMeansEnd
    BY DEF FileInv
<1> QED BY <1>1, FileInvariant, PTL

(* netascii_to_native throws only on a CR at the end of a block whose LF   *)
(* or NUL is in the reader's overflow buffer.                              *)
THEOREM ThrowsOnSplitPair == Spec => []OnlySplitPairThrows
<1>1. FileInv => OnlySplitPairThrows
    BY DEF FileInv
<1> QED BY <1>1, FileInvariant, PTL

(* A file that a session read and get_file stored without a failing write  *)
(* has arrived byte for byte, in either mode.                              *)
THEOREM FileArrives == Spec => []ArrivesWhole
<1>1. ASSUME FileInv PROVE ArrivesWhole
    <2> SUFFICES ASSUME pc = "end", peer = "get_file", ~ferror PROVE stored = source
        BY DEF ArrivesWhole
    <2>1. /\ TypeOK /\ CallerInv /\ BlocksExact /\ ShortMeansEnd /\ StoredInv
          /\ source \in Seq(Bytes) /\ stored \in Seq(Bytes) /\ blocks \in Seq(Seq(Bytes))
        BY <1>1 DEF FileInv, TypeOK, CallerInv
    <2>2. pos = Len(source) /\ overflow = <<>>
        BY <2>1 DEF CallerInv, ShortMeansEnd
    <2>3. FlattenSeq(blocks) \in Seq(Bytes)
        BY <2>1, FlattenType
    <2>4. FlattenSeq(blocks) \o <<>> = FlattenSeq(blocks) /\ stored \o <<>> = stored
        BY <2>1, <2>3, ConcatEmptySeq
    <2>5. SubSeq(source, 1, Len(source)) = source
        BY <2>1, SubSeqFull
    <2>6. FlattenSeq(blocks) = Encoded(source)
        BY <2>1, <2>2, <2>4, <2>5 DEF BlocksExact
    <2>7. Decoded(FlattenSeq(blocks)) = stored
        BY <2>1, <2>4 DEF StoredInv, Pending
    <2>8. Decoded(Encoded(source)) = source
        BY <2>1, ThereAndBack DEF Decoded, Encoded
    <2> QED BY <2>6, <2>7, <2>8
<1> QED BY <1>1, FileInvariant, PTL

(* A session goes on, or ends, only with what it received stored byte for  *)
(* byte, whatever fwrite stores of it and in whatever pieces.              *)
THEOREM BlockStoredExactly == Spec => []StoredExact
<1>1. ASSUME FileInv PROVE StoredExact
    <2> SUFFICES ASSUME peer = "session", pc \in {"read", "end"}
                 PROVE  stored = Decoded(FlattenSeq(blocks))
        BY DEF StoredExact
    <2>1. StoredInv /\ ~ferror /\ stored \in Seq(Bytes)
        BY <1>1 DEF FileInv, CallerInv, TypeOK
    <2>2. Pending = <<>> /\ stored \o <<>> = stored
        BY <2>1, ConcatEmptySeq DEF Pending
    <2> QED BY <2>1, <2>2 DEF StoredInv
<1> QED BY <1>1, FileInvariant, PTL
=============================================================================
