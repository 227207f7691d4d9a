------------------------------ MODULE CodecProofs ------------------------------
(***************************************************************************)
(* What the serialisers and deserialisers guarantee for every packet, for  *)
(* strings and option lists of any length, and wherever a datagram is cut. *)
(***************************************************************************)
EXTENDS Codec, Induction

Letters == Bytes \ {0}

(* Sequences of bytes, concatenated.                                       *)
LEMMA ConcatBytes ==
    \A x, y, z \in Seq(Bytes) : (x \o y) \o z = x \o (y \o z)
BY ConcatAssociative

(* An element at the end of a concatenation.                               *)
LEMMA AppendLetter ==
    \A x, y \in Seq(Letters) : \A c \in Letters : x \o Append(y, c) = Append(x \o y, c)
BY AppendConcat

(* A string at the end of a concatenation.                                 *)
LEMMA AppendString ==
    \A x, y \in Seq(Seq(Letters)) : \A s \in Seq(Letters) :
        x \o Append(y, s) = Append(x \o y, s)
BY AppendConcat

-----------------------------------------------------------------------------
(* Scanning a buffer *)

Scans == [strings : Seq(Seq(Letters)), rest : Seq(Letters)]

Start == [strings |-> <<>>, rest |-> <<>>]

(* What one more byte makes of what was found.                             *)
Found(v, c) ==
    IF c = 0 THEN [strings |-> Append(v.strings, v.rest), rest |-> <<>>]
             ELSE [strings |-> v.strings, rest |-> Append(v.rest, c)]

(* The scan finds strings without zeros.                                   *)
LEMMA FoundType ==
    ASSUME NEW v \in Scans, NEW c \in Bytes
    PROVE  Found(v, c) \in Scans
<1>1. v.strings \in Seq(Seq(Letters)) /\ v.rest \in Seq(Letters) /\ <<>> \in Seq(Letters)
    BY DEF Scans
<1>2. CASE c = 0
    <2>1. Append(v.strings, v.rest) \in Seq(Seq(Letters))
        BY <1>1
    <2> QED BY <1>1, <1>2, <2>1 DEF Found, Scans
<1>3. CASE c # 0
    <2>1. Append(v.rest, c) \in Seq(Letters)
        BY <1>1, <1>3 DEF Letters
    <2> QED BY <1>1, <1>3, <2>1 DEF Found, Scans
<1> QED BY <1>2, <1>3

(* Nothing is found at the start.                                          *)
LEMMA StartType == Start \in Scans
<1>1. <<>> \in Seq(Letters) /\ <<>> \in Seq(Seq(Letters))
    OBVIOUS
<1> QED BY <1>1 DEF Start, Scans

(* q[i] is what the first i bytes hold.                                    *)
ScansOf(q, body) ==
    /\ q \in [0 .. Len(body) -> Scans]
    /\ q[0] = Start
    /\ \A i \in 1 .. Len(body) : q[i] = Found(q[i - 1], body[i])

(* The recursion of Scanned has a solution.                                *)
LEMMA ScansExist ==
    ASSUME NEW body \in Seq(Bytes)
    PROVE  \E q : ScansOf(q, body)
<1> DEFINE G == [i \in Nat |-> [v \in Scans |->
                    IF i \in 1 .. Len(body) THEN Found(v, body[i]) ELSE v]]
<1>1. G \in [Nat -> [Scans -> Scans]]
    <2>1. ASSUME NEW i \in 1 .. Len(body), NEW v \in Scans PROVE Found(v, body[i]) \in Scans
        BY FoundType
    <2> QED BY <2>1
<1>2. Len(body) \in Nat
    OBVIOUS
<1>3. PICK q : Solves(q, Scans, Start, G, Len(body))
    <2> HIDE DEF G
    <2> QED BY <1>1, <1>2, StartType, FiniteRecursion
<1> HIDE DEF G
<1>4. ASSUME NEW i \in 1 .. Len(body) PROVE q[i] = Found(q[i - 1], body[i])
    <2>1. i \in Nat /\ i - 1 \in 0 .. Len(body)
        BY <1>2
    <2>2. q[i - 1] \in Scans
        BY <1>3, <2>1 DEF Solves
    <2>3. q[i] = G[i][q[i - 1]]
        BY <1>3 DEF Solves
    <2> QED BY <2>1, <2>2, <2>3 DEF G
<1> QED BY <1>3, <1>4 DEF ScansOf, Solves

(* So Scanned is the last of its values.                                   *)
LEMMA ScannedIsLast ==
    ASSUME NEW body \in Seq(Bytes)
    PROVE  \E q : ScansOf(q, body) /\ Scanned(body) = q[Len(body)]
<1> DEFINE N == Len(body)
           Round(f) == [i \in 0 .. Len(body) |->
                           IF i = 0 THEN [strings |-> <<>>, rest |-> <<>>]
                           ELSE IF body[i] = 0
                           THEN [strings |-> Append(f[i - 1].strings, f[i - 1].rest), rest |-> <<>>]
                           ELSE [strings |-> f[i - 1].strings,
                                 rest |-> Append(f[i - 1].rest, body[i])]]
           q == CHOOSE f : f = Round(f)
<1>1. PICK g : ScansOf(g, body)
    BY ScansExist
<1>2. N \in Nat
    OBVIOUS
<1>3. Scanned(body) = q[N]
    BY DEF Scanned
<1>4. \A f : /\ Round(f) = [i \in 0 .. N |-> Round(f)[i]] /\ DOMAIN Round(f) = 0 .. N
             /\ Round(f)[0] = Start
             /\ \A i \in 1 .. N : Round(f)[i] = Found(f[i - 1], body[i])
    BY <1>2 DEF Start, Found
<1> HIDE DEF Round
<1>5. g = Round(g)
    <2>1. ASSUME NEW i \in 0 .. N PROVE g[i] = Round(g)[i]
        <3>1. CASE i = 0
            BY <1>1, <1>4, <3>1 DEF ScansOf
        <3>2. CASE i # 0
            <4>1. i \in 1 .. N
                BY <1>2, <3>2
            <4> QED BY <1>1, <1>4, <4>1 DEF ScansOf
        <3> QED BY <3>1, <3>2
    <2>2. g = [i \in 0 .. N |-> g[i]]
        BY <1>1 DEF ScansOf
    <2> QED BY <1>4, <2>1, <2>2
<1>6. q = Round(q)
    BY <1>5
<1> HIDE DEF q
<1>7. /\ q = [i \in 0 .. N |-> q[i]] /\ q[0] = Start
      /\ \A i \in 1 .. N : q[i] = Found(q[i - 1], body[i])
    BY <1>4, <1>6
<1>8. q \in [0 .. N -> Scans]
    <2> DEFINE T == {n \in Nat : n <= N => q[n] \in Scans}
    <2>1. 0 \in T
        BY <1>7, StartType
    <2>2. ASSUME NEW n \in Nat, n \in T PROVE n + 1 \in T
        <3> SUFFICES ASSUME n + 1 <= N PROVE q[n + 1] \in Scans
            OBVIOUS
        <3>1. n + 1 \in 1 .. N /\ (n + 1) - 1 = n /\ n <= N
            BY <1>2
        <3>2. q[n] \in Scans /\ body[n + 1] \in Bytes
            BY <2>2, <3>1
        <3>3. q[n + 1] = Found(q[n], body[n + 1])
            BY <1>7, <3>1
        <3> QED BY <3>2, <3>3, FoundType
    <2> HIDE DEF T
    <2>3. \A n \in Nat : n \in T
        BY <2>1, <2>2, SetInduction
    <2>4. \A n \in 0 .. N : q[n] \in Scans
        BY <1>2, <2>3 DEF T
    <2> QED BY <1>7, <2>4
<1>9. ScansOf(q, body)
    BY <1>7, <1>8 DEF ScansOf
<1> QED BY <1>3, <1>9

(* Equal beginnings hold the same strings.                                 *)
LEMMA ScansAgree ==
    ASSUME NEW a \in Seq(Bytes), NEW b \in Seq(Bytes),
           NEW q, ScansOf(q, a), NEW r, ScansOf(r, b),
           NEW m \in Nat, m <= Len(a), m <= Len(b),
           \A i \in 1 .. m : a[i] = b[i]
    PROVE  q[m] = r[m]
<1> DEFINE T == {n \in Nat : n <= m => q[n] = r[n]}
<1>1. 0 \in T
    BY DEF ScansOf
<1>2. ASSUME NEW n \in Nat, n \in T PROVE n + 1 \in T
    <2> SUFFICES ASSUME n + 1 <= m PROVE q[n + 1] = r[n + 1]
        OBVIOUS
    <2>1. n + 1 \in 1 .. m /\ n + 1 \in 1 .. Len(a) /\ n + 1 \in 1 .. Len(b) /\ (n + 1) - 1 = n
        OBVIOUS
    <2>2. q[n] = r[n] /\ a[n + 1] = b[n + 1]
        BY <1>2, <2>1
    <2> QED BY <2>1, <2>2 DEF ScansOf
<1> HIDE DEF T
<1>3. m \in T
    BY <1>1, <1>2, SetInduction
<1> QED BY <1>3 DEF T

(* The strings found and the rest hold no zero.                            *)
LEMMA ScannedType ==
    ASSUME NEW body \in Seq(Bytes)
    PROVE  /\ Scanned(body) \in Scans
           /\ Scanned(body).strings \in Seq(Seq(Letters)) /\ Scanned(body).rest \in Seq(Letters)
<1>1. PICK q : ScansOf(q, body) /\ Scanned(body) = q[Len(body)]
    BY ScannedIsLast
<1>2. Len(body) \in 0 .. Len(body)
    OBVIOUS
<1>3. Scanned(body) \in Scans
    BY <1>1, <1>2 DEF ScansOf
<1> QED BY <1>3 DEF Scans

(* An empty buffer holds nothing.                                          *)
LEMMA ScannedEmpty == Scanned(<<>>) = Start
<1>1. <<>> \in Seq(Bytes) /\ Len(<<>>) = 0
    OBVIOUS
<1> QED BY <1>1, ScannedIsLast DEF ScansOf

(* One more byte.                                                          *)
LEMMA ScannedAppend ==
    ASSUME NEW body \in Seq(Bytes), NEW c \in Bytes
    PROVE  Scanned(Append(body, c)) = Found(Scanned(body), c)
<1> DEFINE b == Append(body, c)
           m == Len(body)
<1>1. /\ b \in Seq(Bytes) /\ m \in Nat /\ Len(b) = m + 1
      /\ b[m + 1] = c /\ \A i \in 1 .. m : body[i] = b[i]
      /\ m <= Len(body) /\ m <= Len(b)
    OBVIOUS
<1> HIDE DEF b
<1>2. PICK q : ScansOf(q, body) /\ Scanned(body) = q[m]
    BY ScannedIsLast
<1>3. PICK r : ScansOf(r, b) /\ Scanned(b) = r[Len(b)]
    BY <1>1, ScannedIsLast
<1> HIDE DEF m
<1>4. q[m] = r[m]
    BY <1>1, <1>2, <1>3, ScansAgree
<1>5. m + 1 \in 1 .. Len(b) /\ (m + 1) - 1 = m
    BY <1>1
<1>6. r[m + 1] = Found(r[m], c)
    BY <1>1, <1>3, <1>5 DEF ScansOf
<1> QED BY <1>1, <1>2, <1>3, <1>4, <1>6 DEF b

-----------------------------------------------------------------------------
(* What the pieces of a packet leave in a scan *)

(* Bytes without a zero add to the rest.                                   *)
LEMMA ScannedLetters ==
    ASSUME NEW b \in Seq(Bytes), NEW s \in Seq(Letters)
    PROVE  /\ b \o s \in Seq(Bytes)
           /\ Scanned(b \o s) = [strings |-> Scanned(b).strings, rest |-> Scanned(b).rest \o s]
<1> DEFINE T == {t \in Seq(Letters) :
                    /\ b \o t \in Seq(Bytes)
                    /\ Scanned(b \o t) = [strings |-> Scanned(b).strings,
                                          rest |-> Scanned(b).rest \o t]}
<1>1. Scanned(b) \in Scans /\ Scanned(b).rest \in Seq(Letters)
    BY ScannedType
<1>2. <<>> \in T
    <2>1. b \o <<>> = b /\ Scanned(b).rest \o <<>> = Scanned(b).rest /\ <<>> \in Seq(Letters)
        BY <1>1, ConcatEmptySeq
    <2>2. Scanned(b) = [strings |-> Scanned(b).strings, rest |-> Scanned(b).rest]
        BY <1>1 DEF Scans
    <2> QED BY <2>1, <2>2
<1>3. ASSUME NEW t \in Seq(Letters), NEW c \in Letters, t \in T PROVE Append(t, c) \in T
    <2>1. /\ b \o t \in Seq(Bytes)
          /\ Scanned(b \o t) = [strings |-> Scanned(b).strings, rest |-> Scanned(b).rest \o t]
        BY <1>3
    <2>2. c \in Bytes /\ c # 0 /\ t \in Seq(Bytes)
        BY DEF Letters
    <2>3. b \o Append(t, c) = Append(b \o t, c)
        BY <2>2, AppendConcat
    <2>4. Scanned(b \o Append(t, c)) = Found(Scanned(b \o t), c)
        BY <2>1, <2>2, <2>3, ScannedAppend
    <2>5. Scanned(b).rest \o Append(t, c) = Append(Scanned(b).rest \o t, c)
        BY <1>1, AppendLetter
    <2>6. b \o Append(t, c) \in Seq(Bytes) /\ Append(t, c) \in Seq(Letters)
        BY <2>1, <2>2, <2>3
    <2>7. Found(Scanned(b \o t), c) = [strings |-> Scanned(b).strings,
                                       rest |-> Append(Scanned(b).rest \o t, c)]
        BY <2>1, <2>2 DEF Found
    <2> QED BY <2>4, <2>5, <2>6, <2>7
<1> HIDE DEF T
<1>4. s \in T
    BY <1>2, <1>3, SequenceInduction
<1> QED BY <1>4 DEF T

(* A string with its zero, where a string may begin, is found.             *)
LEMMA ScannedCString ==
    ASSUME NEW b \in Seq(Bytes), Scanned(b).rest = <<>>, NEW s \in Seq(Letters)
    PROVE  /\ CString(s) \in Seq(Bytes) /\ b \o CString(s) \in Seq(Bytes)
           /\ Scanned(b \o CString(s)).strings = Append(Scanned(b).strings, s)
           /\ Scanned(b \o CString(s)).rest = <<>>
<1>1. 0 \in Bytes /\ s \in Seq(Bytes)
    BY CodecAssumption DEF Bytes, Letters
<1>2. CString(s) = Append(s, 0) /\ CString(s) \in Seq(Bytes)
    BY <1>1, AppendIsConcat DEF CString
<1>3. b \o CString(s) = Append(b \o s, 0)
    BY <1>1, <1>2, AppendConcat
<1>4. /\ b \o s \in Seq(Bytes)
      /\ Scanned(b \o s) = [strings |-> Scanned(b).strings, rest |-> <<>> \o s]
    BY ScannedLetters
<1>5. <<>> \o s = s
    BY ConcatEmptySeq
<1>6. Scanned(b \o CString(s)) = Found([strings |-> Scanned(b).strings, rest |-> s], 0)
    BY <1>1, <1>3, <1>4, <1>5, ScannedAppend
<1>7. b \o CString(s) \in Seq(Bytes)
    BY <1>1, <1>3, <1>4
<1> QED BY <1>2, <1>6, <1>7 DEF Found

(* Two strings more.                                                       *)
LEMMA AppendTwo ==
    ASSUME NEW u \in Seq(Seq(Letters)), NEW c \in Seq(Letters), NEW d \in Seq(Letters)
    PROVE  LET w == Append(Append(u, c), d) IN
           /\ w \in Seq(Seq(Letters)) /\ Len(w) = Len(u) + 2
           /\ \A i \in 1 .. Len(u) : w[i] = u[i]
           /\ w[Len(u) + 1] = c /\ w[Len(u) + 2] = d
<1> DEFINE v == Append(u, c)
           w == Append(v, d)
<1>1. /\ v \in Seq(Seq(Letters)) /\ Len(v) = Len(u) + 1 /\ Len(u) \in Nat
      /\ \A i \in 1 .. Len(u) : v[i] = u[i]
      /\ v[Len(u) + 1] = c
    OBVIOUS
<1> HIDE DEF v
<1>2. /\ w \in Seq(Seq(Letters)) /\ Len(w) = Len(v) + 1
      /\ \A i \in 1 .. Len(v) : w[i] = v[i]
      /\ w[Len(v) + 1] = d
    BY <1>1
<1> HIDE DEF w
<1>3. (Len(u) + 1) + 1 = Len(u) + 2 /\ Len(u) + 1 \in 1 .. Len(u) + 1
    BY <1>1
<1>4. \A i \in 1 .. Len(u) : i \in 1 .. Len(u) + 1
    BY <1>1
<1> QED BY <1>1, <1>2, <1>3, <1>4 DEF v, w

Pairs == Seq(Letters) \X Seq(Letters)

(* u holds the names and values of the options, one after the other.       *)
Unpaired(u, options) ==
    /\ u \in Seq(Seq(Letters))
    /\ Len(u) = 2 * Len(options)
    /\ \A i \in 1 .. Len(options) : u[2 * i - 1] = options[i][1] /\ u[2 * i] = options[i][2]

(* Every option is two strings.                                            *)
LEMMA OptionBytes ==
    ASSUME NEW x \in Pairs
    PROVE  CString(x[1]) \o CString(x[2]) \in Seq(Bytes)
<1>1. x[1] \in Seq(Bytes) /\ x[2] \in Seq(Bytes) /\ <<0>> \in Seq(Bytes)
    BY CodecAssumption DEF Pairs, Letters, Bytes
<1> QED BY <1>1 DEF CString

(* No options take no bytes.                                               *)
LEMMA NoOptions == CStrings(<<>>) = <<>>
<1>1. [i \in DOMAIN <<>> |-> CString(<<>>[i][1]) \o CString(<<>>[i][2])] = <<>>
    OBVIOUS
<1> QED BY <1>1, FlattenEmpty DEF CStrings

(* One more option goes to the end.                                        *)
LEMMA OneMoreOption ==
    ASSUME NEW o \in Seq(Pairs), NEW x \in Pairs
    PROVE  CStrings(Append(o, x)) = CStrings(o) \o (CString(x[1]) \o CString(x[2]))
<1> DEFINE B(t) == [i \in DOMAIN t |-> CString(t[i][1]) \o CString(t[i][2])]
           e == CString(x[1]) \o CString(x[2])
           t == Append(o, x)
<1>1. e \in Seq(Bytes)
    BY OptionBytes
<1>2. /\ DOMAIN o = 1 .. Len(o) /\ Len(o) \in Nat /\ DOMAIN t = 1 .. Len(o) + 1
      /\ t[Len(o) + 1] = x /\ \A i \in 1 .. Len(o) : t[i] = o[i] /\ o[i] \in Pairs
    OBVIOUS
<1>3. B(o) \in Seq(Seq(Bytes)) /\ Len(B(o)) = Len(o)
    <2>1. \A i \in 1 .. Len(o) : CString(o[i][1]) \o CString(o[i][2]) \in Seq(Bytes)
        BY <1>2, OptionBytes
    <2> QED BY <1>2, <2>1
<1>4. B(t) = Append(B(o), e)
    <2>1. /\ B(t) = [i \in 1 .. Len(o) + 1 |-> CString(t[i][1]) \o CString(t[i][2])]
          /\ B(o) = [i \in 1 .. Len(o) |-> CString(o[i][1]) \o CString(o[i][2])]
        BY <1>2
    <2> HIDE DEF e
    <2>2. Append(B(o), e) = [i \in 1 .. Len(o) + 1 |->
                                IF i <= Len(o) THEN CString(o[i][1]) \o CString(o[i][2]) ELSE e]
        BY <1>1, <1>2, <1>3, <2>1
    <2>3. ASSUME NEW i \in 1 .. Len(o) + 1
          PROVE  CString(t[i][1]) \o CString(t[i][2])
                    = IF i <= Len(o) THEN CString(o[i][1]) \o CString(o[i][2]) ELSE e
        <3>1. CASE i <= Len(o)
            <4>1. i \in 1 .. Len(o)
                BY <1>2, <3>1
            <4> QED BY <1>2, <3>1, <4>1
        <3>2. CASE ~(i <= Len(o))
            <4>1. i = Len(o) + 1
                BY <1>2, <3>2
            <4> QED BY <1>2, <3>2, <4>1 DEF e
        <3> QED BY <3>1, <3>2
    <2> HIDE DEF t
    <2> QED BY <2>1, <2>2, <2>3
<1> HIDE DEF t
<1>5. FlattenSeq(Append(B(o), e)) = FlattenSeq(B(o)) \o e
    <2> HIDE DEF B, e
    <2> QED BY <1>1, <1>3, FlattenAppend
<1> QED BY <1>4, <1>5 DEF CStrings, t

(* Options, where a string may begin, are found name by name and value by  *)
(* value.                                                                  *)
LEMMA ScannedOptions ==
    ASSUME NEW b \in Seq(Bytes), Scanned(b).rest = <<>>, NEW options \in Seq(Pairs)
    PROVE  /\ CStrings(options) \in Seq(Bytes) /\ b \o CStrings(options) \in Seq(Bytes)
           /\ Scanned(b \o CStrings(options)).rest = <<>>
           /\ \E u : /\ Unpaired(u, options)
                     /\ Scanned(b \o CStrings(options)).strings = Scanned(b).strings \o u
<1> DEFINE S == Scanned(b).strings
           Good(o) == /\ CStrings(o) \in Seq(Bytes) /\ b \o CStrings(o) \in Seq(Bytes)
                      /\ Scanned(b \o CStrings(o)).rest = <<>>
                      /\ \E u : Unpaired(u, o) /\ Scanned(b \o CStrings(o)).strings = S \o u
           T == {o \in Seq(Pairs) : Good(o)}
<1>1. S \in Seq(Seq(Letters))
    BY ScannedType
<1>2. <<>> \in T
    <2>1. /\ b \o <<>> = b /\ S \o <<>> = S /\ <<>> \in Seq(Pairs) /\ <<>> \in Seq(Bytes)
          /\ <<>> \in Seq(Seq(Letters)) /\ Len(<<>>) = 0
        BY <1>1, ConcatEmptySeq
    <2>2. Unpaired(<<>>, <<>>)
        BY <2>1 DEF Unpaired
    <2>3. Good(<<>>)
        BY <2>1, <2>2, NoOptions
    <2> QED BY <2>1, <2>3
<1>3. ASSUME NEW o \in Seq(Pairs), NEW x \in Pairs, o \in T PROVE Append(o, x) \in T
    <2> DEFINE b0 == b \o CStrings(o)
               b1 == b0 \o CString(x[1])
               b2 == b1 \o CString(x[2])
    <2>1. /\ CStrings(o) \in Seq(Bytes) /\ b0 \in Seq(Bytes) /\ Scanned(b0).rest = <<>>
        BY <1>3
    <2>2. PICK u : Unpaired(u, o) /\ Scanned(b0).strings = S \o u
        BY <1>3
    <2>3. x[1] \in Seq(Letters) /\ x[2] \in Seq(Letters)
        BY DEF Pairs
    <2> HIDE DEF b0
    <2>4. /\ CString(x[1]) \in Seq(Bytes) /\ b1 \in Seq(Bytes)
          /\ Scanned(b1).strings = Append(Scanned(b0).strings, x[1]) /\ Scanned(b1).rest = <<>>
        BY <2>1, <2>3, ScannedCString
    <2> HIDE DEF b1
    <2>5. /\ CString(x[2]) \in Seq(Bytes) /\ b2 \in Seq(Bytes)
          /\ Scanned(b2).strings = Append(Scanned(b1).strings, x[2]) /\ Scanned(b2).rest = <<>>
        BY <2>3, <2>4, ScannedCString
    <2> HIDE DEF b2
    <2>6. b2 = b \o CStrings(Append(o, x)) /\ CStrings(Append(o, x)) \in Seq(Bytes)
        <3> DEFINE c0 == CStrings(o)
                   c1 == CString(x[1])
                   c2 == CString(x[2])
        <3>1. c0 \in Seq(Bytes) /\ c1 \in Seq(Bytes) /\ c2 \in Seq(Bytes) /\ c1 \o c2 \in Seq(Bytes)
            BY <2>1, <2>4, <2>5, OptionBytes
        <3>2. CStrings(Append(o, x)) = c0 \o (c1 \o c2) /\ b2 = ((b \o c0) \o c1) \o c2
            BY OneMoreOption DEF b0, b1, b2
        <3> HIDE DEF c0, c1, c2
        <3>3. b \o c0 \in Seq(Bytes) /\ c0 \o (c1 \o c2) \in Seq(Bytes)
            BY <3>1
        <3>4. ((b \o c0) \o c1) \o c2 = (b \o c0) \o (c1 \o c2)
            <4> DEFINE d == b \o c0
            <4>1. d \in Seq(Bytes)
                BY <3>3
            <4> HIDE DEF d
            <4>2. (d \o c1) \o c2 = d \o (c1 \o c2)
                BY <3>1, <4>1, ConcatBytes
            <4> QED BY <4>2 DEF d
        <3>5. (b \o c0) \o (c1 \o c2) = b \o (c0 \o (c1 \o c2))
            BY <3>1, ConcatBytes
        <3> QED BY <3>2, <3>3, <3>4, <3>5
    <2> DEFINE w == Append(Append(u, x[1]), x[2])
    <2>7. u \in Seq(Seq(Letters)) /\ Len(u) = 2 * Len(o) /\ Len(o) \in Nat
        BY <2>2 DEF Unpaired
    <2>8. Scanned(b2).strings = S \o w
        <3> HIDE DEF S
        <3>1. S \o Append(u, x[1]) = Append(S \o u, x[1])
            BY <1>1, <2>3, <2>7, AppendString
        <3>3. Append(u, x[1]) \in Seq(Seq(Letters))
            BY <2>3, <2>7
        <3>2. S \o w = Append(S \o Append(u, x[1]), x[2])
            BY <1>1, <2>3, <3>3, AppendString
        <3> QED BY <2>2, <2>4, <2>5, <3>1, <3>2
    <2>9. /\ w \in Seq(Seq(Letters)) /\ Len(w) = Len(u) + 2
          /\ \A i \in 1 .. Len(u) : w[i] = u[i]
          /\ w[Len(u) + 1] = x[1] /\ w[Len(u) + 2] = x[2]
        BY <2>3, <2>7, AppendTwo
    <2>10. Unpaired(w, Append(o, x))
        <3>1. Len(Append(o, x)) = Len(o) + 1 /\ Append(o, x)[Len(o) + 1] = x
            OBVIOUS
        <3>2. ASSUME NEW i \in 1 .. Len(o) + 1
              PROVE  w[2 * i - 1] = Append(o, x)[i][1] /\ w[2 * i] = Append(o, x)[i][2]
            <4>1. CASE i \in 1 .. Len(o)
                <5>1. Append(o, x)[i] = o[i]
                    BY <4>1
                <5>2. 2 * i - 1 \in 1 .. Len(u) /\ 2 * i \in 1 .. Len(u)
                    BY <2>7, <4>1
                <5> QED BY <2>2, <2>9, <4>1, <5>1, <5>2 DEF Unpaired
            <4>2. CASE i = Len(o) + 1
                <5>1. 2 * i - 1 = Len(u) + 1 /\ 2 * i = Len(u) + 2
                    BY <2>7, <4>2
                <5> QED BY <2>9, <3>1, <4>2, <5>1
            <4>3. i \in 1 .. Len(o) \/ i = Len(o) + 1
                <5>1. \A n \in Nat : \A k \in 1 .. n + 1 : k \in 1 .. n \/ k = n + 1
                    OBVIOUS
                <5> QED BY <2>7, <5>1
            <4> QED BY <4>1, <4>2, <4>3
        <3>3. Len(w) = 2 * Len(Append(o, x))
            BY <2>7, <2>9, <3>1
        <3> HIDE DEF w
        <3> QED BY <2>9, <3>1, <3>2, <3>3 DEF Unpaired
    <2> HIDE DEF w
    <2>11. Good(Append(o, x))
        BY <2>5, <2>6, <2>8, <2>10
    <2>12. Append(o, x) \in Seq(Pairs)
        OBVIOUS
    <2> QED BY <2>11, <2>12
<1> HIDE DEF T
<1>4. options \in T
    BY <1>2, <1>3, SequenceInduction
<1> QED BY <1>4 DEF T

-----------------------------------------------------------------------------
(* Cutting a buffer *)

Begins(s, t) == Len(s) <= Len(t) /\ \A i \in 1 .. Len(s) : s[i] = t[i]

(* A beginning is a prefix.                                                *)
LEMMA BeginsIsPrefix ==
    ASSUME NEW S, NEW s \in Seq(S), NEW t \in Seq(S), Begins(s, t)
    PROVE  IsPrefix(s, t)
<1>1. Len(s) \in Nat /\ Len(t) \in Nat /\ Len(s) \in 0 .. Len(t)
    BY DEF Begins
<1>2. SubSeq(s, 1, Len(s)) = s
    BY SubSeqFull
<1>3. /\ SubSeq(t, 1, Len(s)) \in Seq(S) /\ Len(SubSeq(t, 1, Len(s))) = Len(s)
      /\ \A i \in 1 .. Len(s) : SubSeq(t, 1, Len(s))[i] = t[i]
    BY <1>1
<1>4. s = SubSeq(t, 1, Len(s))
    <2> DEFINE v == SubSeq(t, 1, Len(s))
    <2>1. v \in Seq(S) /\ Len(v) = Len(s) /\ \A i \in 1 .. Len(s) : s[i] = v[i]
        BY <1>3 DEF Begins
    <2> HIDE DEF v
    <2>2. s = v
        BY <2>1, SeqEqual
    <2> QED BY <2>2 DEF v
<1> QED BY <1>1, <1>2, <1>4 DEF IsPrefix

(* One more byte leaves the strings that were found.                       *)
LEMMA FoundBegins ==
    ASSUME NEW v \in Scans, NEW c \in Bytes
    PROVE  Begins(v.strings, Found(v, c).strings)
<1>1. v.strings \in Seq(Seq(Letters)) /\ v.rest \in Seq(Letters)
    BY DEF Scans
<1> DEFINE s == v.strings
           r == v.rest
<1>2. Begins(s, s) /\ Begins(s, Append(s, r))
    <2> HIDE DEF s, r
    <2>1. s \in Seq(Seq(Letters)) /\ r \in Seq(Letters)
        BY <1>1 DEF s, r
    <2> QED BY <2>1 DEF Begins
<1>3. Found(v, c).strings \in {s, Append(s, r)}
    BY DEF Found
<1> QED BY <1>2, <1>3

(* A beginning of a beginning.                                             *)
LEMMA BeginsBegins ==
    ASSUME NEW S, NEW x \in Seq(S), NEW y \in Seq(S), NEW z \in Seq(S),
           Begins(x, y), Begins(y, z)
    PROVE  Begins(x, z)
<1>1. Len(x) \in Nat /\ Len(y) \in Nat /\ Len(z) \in Nat
    OBVIOUS
<1>2. Len(x) <= Len(z) /\ \A i \in 1 .. Len(x) : i \in 1 .. Len(y)
    BY <1>1 DEF Begins
<1> QED BY <1>2 DEF Begins

(* Nor do all the bytes that follow change them.                           *)
LEMMA ScannedConcat ==
    ASSUME NEW b \in Seq(Bytes), NEW t \in Seq(Bytes)
    PROVE  Begins(Scanned(b).strings, Scanned(b \o t).strings)
<1> DEFINE s == Scanned(b).strings
           T == {x \in Seq(Bytes) : Begins(s, Scanned(b \o x).strings)}
<1>1. s \in Seq(Seq(Letters))
    BY ScannedType
<1>2. <<>> \in T
    <2>1. b \o <<>> = b /\ <<>> \in Seq(Bytes)
        BY ConcatEmptySeq
    <2>2. Begins(s, s)
        <3> HIDE DEF s
        <3> QED BY <1>1 DEF Begins
    <2> QED BY <2>1, <2>2
<1>3. ASSUME NEW x \in Seq(Bytes), NEW c \in Bytes, x \in T PROVE Append(x, c) \in T
    <2> DEFINE d == b \o x
    <2>1. d \in Seq(Bytes) /\ b \o Append(x, c) = Append(d, c) /\ Append(x, c) \in Seq(Bytes)
        BY AppendConcat
    <2>2. Begins(s, Scanned(d).strings)
        BY <1>3
    <2> HIDE DEF d, s
    <2>3. Append(d, c) \in Seq(Bytes)
        BY <2>1
    <2> DEFINE y == Scanned(d).strings
               z == Scanned(Append(d, c)).strings
    <2>4. Scanned(d) \in Scans /\ y \in Seq(Seq(Letters)) /\ z \in Seq(Seq(Letters))
        BY <2>1, <2>3, ScannedType
    <2>5. Begins(y, z)
        BY <2>1, <2>4, ScannedAppend, FoundBegins
    <2> HIDE DEF y, z
    <2>6. Begins(s, z)
        BY <1>1, <2>2, <2>4, <2>5, BeginsBegins DEF y
    <2> QED BY <2>1, <2>6 DEF z
<1> HIDE DEF T
<1>4. t \in T
    BY <1>2, <1>3, SequenceInduction
<1> QED BY <1>4 DEF T

(* So the strings of a cut buffer are the first ones of the whole.         *)
LEMMA ScannedCut ==
    ASSUME NEW b \in Seq(Bytes), NEW k \in 0 .. Len(b)
    PROVE  /\ SubSeq(b, 1, k) \in Seq(Bytes)
           /\ Scanned(SubSeq(b, 1, k)).strings \in Seq(Seq(Letters))
           /\ Begins(Scanned(SubSeq(b, 1, k)).strings, Scanned(b).strings)
<1> DEFINE x == SubSeq(b, 1, k)
           y == SubSeq(b, k + 1, Len(b))
<1>1. x \in Seq(Bytes) /\ y \in Seq(Bytes) /\ x \o y = b
    BY SplitAt
<1> HIDE DEF x, y
<1>2. Begins(Scanned(x).strings, Scanned(x \o y).strings)
    BY <1>1, ScannedConcat
<1> QED BY <1>1, <1>2, ScannedType DEF x

(* Where no string was found there was no zero.                            *)
LEMMA ZeroFound ==
    ASSUME NEW b \in Seq(Bytes), 0 \in Range(b)
    PROVE  Scanned(b).strings # <<>>
<1> DEFINE T == {x \in Seq(Bytes) : Scanned(x).strings = <<>> => 0 \notin Range(x)}
<1>1. <<>> \in T
    BY DEF Range
<1>2. ASSUME NEW x \in Seq(Bytes), NEW c \in Bytes, x \in T PROVE Append(x, c) \in T
    <2> DEFINE y == Append(x, c)
    <2>1. /\ y \in Seq(Bytes) /\ DOMAIN y = 1 .. Len(x) + 1 /\ Len(x) \in Nat
          /\ DOMAIN x = 1 .. Len(x)
          /\ y[Len(x) + 1] = c /\ \A i \in 1 .. Len(x) : y[i] = x[i]
        OBVIOUS
    <2> HIDE DEF y
    <2> SUFFICES ASSUME Scanned(y).strings = <<>>, 0 \in Range(y) PROVE FALSE
        BY <2>1 DEF y
    <2>2. PICK i \in 1 .. Len(x) + 1 : y[i] = 0
        BY <2>1 DEF Range
    <2>3. Scanned(y) = Found(Scanned(x), c)
        BY ScannedAppend DEF y
    <2>4. Scanned(x).strings \in Seq(Seq(Letters)) /\ Scanned(x).rest \in Seq(Letters)
        BY ScannedType
    <2>5. c # 0
        <3> DEFINE s == Scanned(x).strings
                   r == Scanned(x).rest
        <3>1. c = 0 => Scanned(y).strings = Append(s, r)
            BY <2>3 DEF Found
        <3>2. s \in Seq(Seq(Letters)) /\ r \in Seq(Letters)
            BY <2>4
        <3> HIDE DEF s, r
        <3>3. Append(s, r) # <<>>
            <4>1. Len(Append(s, r)) = Len(s) + 1 /\ Len(s) \in Nat
                BY <3>2
            <4>2. Len(Append(s, r)) # 0 /\ Len(<<>>) = 0
                BY <4>1
            <4> QED BY <4>2
        <3> QED BY <3>1, <3>3
    <2>6. Scanned(x).strings = <<>>
        BY <2>3, <2>5 DEF Found
    <2>7. i # Len(x) + 1
        BY <2>1, <2>2, <2>5
    <2>8. i \in 1 .. Len(x)
        BY <2>1, <2>7
    <2> QED BY <1>2, <2>1, <2>2, <2>6, <2>8 DEF Range
<1> HIDE DEF T
<1>3. b \in T
    BY <1>1, <1>2, SequenceInduction
<1> QED BY <1>3 DEF T

-----------------------------------------------------------------------------
(* Options *)

(* Pairing the strings of options gives the options.                       *)
LEMMA PairedOptions ==
    ASSUME NEW o \in Seq(Pairs), NEW u, Unpaired(u, o)
    PROVE  Paired(u) = o
<1>1. Len(o) \in Nat /\ Len(u) = 2 * Len(o)
    BY DEF Unpaired
<1>2. \A n \in Nat : (2 * n) % 2 = 0 /\ (2 * n) \div 2 = n
    OBVIOUS
<1>3. Len(u) % 2 = 0 /\ Len(u) \div 2 = Len(o)
    BY <1>1, <1>2
<1>4. Paired(u) = [i \in 1 .. Len(o) |-> <<u[2 * i - 1], u[2 * i]>>]
    BY <1>3 DEF Paired
<1>5. ASSUME NEW i \in 1 .. Len(o) PROVE <<u[2 * i - 1], u[2 * i]>> = o[i]
    <2>1. o[i] \in Pairs
        OBVIOUS
    <2>2. o[i] = <<o[i][1], o[i][2]>>
        BY <2>1 DEF Pairs
    <2> QED BY <2>2 DEF Unpaired
<1>6. o = [i \in 1 .. Len(o) |-> o[i]]
    OBVIOUS
<1> QED BY <1>4, <1>5, <1>6

(* Pairing a beginning of the strings gives the first options or none.     *)
LEMMA PairedBeginning ==
    ASSUME NEW o \in Seq(Pairs), NEW u, Unpaired(u, o),
           NEW v \in Seq(Seq(Letters)), Begins(v, u)
    PROVE  Paired(v) \in Seq(Pairs) /\ Begins(Paired(v), o)
<1>1. Len(o) \in Nat /\ Len(u) = 2 * Len(o) /\ Len(v) \in Nat /\ Len(v) <= Len(u)
    BY DEF Unpaired, Begins
<1>2. CASE Len(v) % 2 # 0
    <2>1. Paired(v) = <<>> /\ <<>> \in Seq(Pairs) /\ Len(<<>>) = 0
        BY <1>2 DEF Paired
    <2> QED BY <1>1, <2>1 DEF Begins
<1>3. CASE Len(v) % 2 = 0
    <2> DEFINE h == Len(v) \div 2
               p == Paired(v)
    <2>1. \A n, m \in Nat : n % 2 = 0 /\ n <= 2 * m => /\ n \div 2 \in Nat
                                                       /\ 2 * (n \div 2) = n /\ n \div 2 <= m
        OBVIOUS
    <2>2. h \in Nat /\ 2 * h = Len(v) /\ h <= Len(o)
        BY <1>1, <1>3, <2>1
    <2>3. p = [i \in 1 .. h |-> <<v[2 * i - 1], v[2 * i]>>]
        BY <1>3 DEF Paired
    <2> HIDE DEF h
    <2>4. ASSUME NEW i \in 1 .. h
          PROVE  /\ i \in 1 .. Len(o) /\ o[i] \in Pairs
                 /\ <<v[2 * i - 1], v[2 * i]>> = o[i]
        <3>1. /\ i \in 1 .. Len(o)
              /\ 2 * i - 1 \in 1 .. Len(v) /\ 2 * i \in 1 .. Len(v)
            BY <1>1, <2>2
        <3>2. v[2 * i - 1] = u[2 * i - 1] /\ v[2 * i] = u[2 * i]
            BY <3>1 DEF Begins
        <3>3. o[i] \in Pairs
            BY <3>1
        <3>4. o[i] = <<o[i][1], o[i][2]>>
            BY <3>3 DEF Pairs
        <3> QED BY <3>1, <3>2, <3>3, <3>4 DEF Unpaired
    <2> HIDE DEF p
    <2>5. p \in Seq(Pairs) /\ Len(p) = h /\ \A i \in 1 .. h : p[i] = <<v[2 * i - 1], v[2 * i]>>
        <3>1. \A i \in 1 .. h : <<v[2 * i - 1], v[2 * i]>> \in Pairs
            BY <2>4
        <3>2. p \in [1 .. h -> Pairs] /\ \A i \in 1 .. h : p[i] = <<v[2 * i - 1], v[2 * i]>>
            BY <2>3, <3>1
        <3> QED BY <2>2, <3>2
    <2>6. Begins(p, o)
        BY <2>2, <2>4, <2>5 DEF Begins
    <2> QED BY <2>5, <2>6 DEF p
<1> QED BY <1>2, <1>3

(* Changing the case of options changes none of their number and order.    *)
LEMMA UpperCaseType ==
    ASSUME NEW o \in Seq(Pairs)
    PROVE  UpperCase(o) \in Seq(Pairs) /\ Len(UpperCase(o)) = Len(o)
<1>1. ASSUME NEW s \in Seq(Letters) PROVE toupper(s) \in Seq(Letters)
    <2>1. Len(s) \in Nat /\ DOMAIN s = 1 .. Len(s)
        OBVIOUS
    <2>2. ASSUME NEW i \in 1 .. Len(s)
          PROVE  (IF s[i] \in {3, 4} THEN s[i] - 2 ELSE s[i]) \in Letters
        <3>1. s[i] \in Letters
            OBVIOUS
        <3> QED BY <3>1, CodecAssumption DEF Letters, Bytes
    <2> QED BY <2>1, <2>2 DEF toupper
<1>2. DOMAIN o = 1 .. Len(o) /\ Len(o) \in Nat
    OBVIOUS
<1>3. ASSUME NEW i \in 1 .. Len(o) PROVE <<toupper(o[i][1]), toupper(o[i][2])>> \in Pairs
    <2>1. o[i] \in Pairs
        OBVIOUS
    <2>2. o[i][1] \in Seq(Letters) /\ o[i][2] \in Seq(Letters)
        BY <2>1 DEF Pairs
    <2> QED BY <1>1, <2>2 DEF Pairs
<1> QED BY <1>2, <1>3 DEF UpperCase

(* The first options keep being the first ones.                            *)
LEMMA UpperCaseBegins ==
    ASSUME NEW p \in Seq(Pairs), NEW o \in Seq(Pairs), Begins(p, o)
    PROVE  Begins(UpperCase(p), UpperCase(o))
<1>1. /\ DOMAIN o = 1 .. Len(o) /\ Len(o) \in Nat /\ DOMAIN p = 1 .. Len(p) /\ Len(p) \in Nat
      /\ \A i \in 1 .. Len(p) : i \in 1 .. Len(o)
    BY DEF Begins
<1>2. Len(UpperCase(p)) = Len(p) /\ Len(UpperCase(o)) = Len(o)
    BY UpperCaseType
<1>3. ASSUME NEW i \in 1 .. Len(p) PROVE UpperCase(p)[i] = UpperCase(o)[i]
    BY <1>1 DEF UpperCase, Begins
<1> QED BY <1>2, <1>3 DEF Begins

(* What a packet may have as options.                                      *)
LEMMA OptionsType ==
    ASSUME NEW o \in Options
    PROVE  o \in Seq(Pairs)
<1>1. PICK m \in 0 .. MaxOptions : o \in [1 .. m -> Strings \X Strings]
    BY CodecAssumption DEF Options, BoundedSeq, SeqOf
<1>2. m \in Nat
    BY CodecAssumption
<1>3. \A s \in Strings : s \in Seq(Letters)
    BY CodecAssumption DEF Letters
<1>4. \A x \in Strings \X Strings : x \in Pairs
    BY <1>3 DEF Pairs
<1>5. o \in [1 .. m -> Pairs]
    BY <1>1, <1>4
<1> QED BY <1>2, <1>5

-----------------------------------------------------------------------------
(* Headers and numbers *)

(* What follows a header.                                                  *)
LEMMA AfterHeader ==
    ASSUME NEW h \in Seq(Bytes), NEW x \in Seq(Bytes)
    PROVE  /\ h \o x \in Seq(Bytes) /\ Len(h \o x) = Len(h) + Len(x)
           /\ \A i \in 1 .. Len(h) : (h \o x)[i] = h[i]
           /\ SubSeq(h \o x, Len(h) + 1, Len(h \o x)) = x
<1> DEFINE w == h \o x
<1>1. /\ w \in Seq(Bytes) /\ Len(w) = Len(h) + Len(x) /\ Len(h) \in Nat /\ Len(x) \in Nat
      /\ \A i \in 1 .. Len(h) : w[i] = h[i]
      /\ \A i \in 1 .. Len(x) : w[Len(h) + i] = x[i]
    OBVIOUS
<1> HIDE DEF w
<1> DEFINE y == SubSeq(w, Len(h) + 1, Len(w))
<1>2. /\ y \in Seq(Bytes) /\ Len(y) = Len(x)
      /\ \A i \in 1 .. Len(x) : y[i] = w[Len(h) + i]
    BY <1>1
<1> HIDE DEF y
<1>3. y = x
    BY <1>1, <1>2, SeqEqual
<1> QED BY <1>1, <1>3 DEF w, y

(* What follows a header in a cut buffer.                                  *)
LEMMA CutAfterHeader ==
    ASSUME NEW w \in Seq(Bytes), NEW o \in Nat, NEW size \in o .. Len(w)
    PROVE  LET data == SubSeq(w, 1, size)
               body == SubSeq(w, o + 1, Len(w))
           IN /\ data \in Seq(Bytes) /\ Len(data) = size
              /\ \A i \in 1 .. size : data[i] = w[i]
              /\ body \in Seq(Bytes) /\ Len(body) = Len(w) - o
              /\ size - o \in 0 .. Len(body)
              /\ SubSeq(data, o + 1, Len(data)) = SubSeq(body, 1, size - o)
<1> DEFINE data == SubSeq(w, 1, size)
           body == SubSeq(w, o + 1, Len(w))
<1>0. Len(w) \in Nat /\ size \in Nat /\ o <= size /\ size <= Len(w)
    OBVIOUS
<1>1. /\ data \in Seq(Bytes) /\ Len(data) = size
      /\ \A i \in 1 .. size : data[i] = w[i]
    BY <1>0
<1>2. /\ body \in Seq(Bytes) /\ Len(body) = Len(w) - o
      /\ \A i \in 1 .. Len(w) - o : body[i] = w[o + i]
    BY <1>0
<1> HIDE DEF data, body
<1>3. size - o \in 0 .. Len(body) /\ size - o \in Nat
    BY <1>0, <1>2
<1> DEFINE x == SubSeq(data, o + 1, Len(data))
           y == SubSeq(body, 1, size - o)
<1>4. /\ x \in Seq(Bytes) /\ Len(x) = size - o
      /\ \A i \in 1 .. size - o : x[i] = data[o + i]
    BY <1>0, <1>1
<1>5. /\ y \in Seq(Bytes) /\ Len(y) = size - o
      /\ \A i \in 1 .. size - o : y[i] = body[i]
    BY <1>2, <1>3
<1> HIDE DEF x, y
<1>6. ASSUME NEW i \in 1 .. size - o PROVE x[i] = y[i]
    <2>1. o + i \in 1 .. size /\ i \in 1 .. Len(w) - o
        BY <1>0
    <2> QED BY <1>1, <1>2, <1>4, <1>5, <2>1
<1>7. x = y
    BY <1>4, <1>5, <1>6, SeqEqual
<1> QED BY <1>1, <1>2, <1>3, <1>7 DEF x, y, data, body

(* The opcodes are different bytes.                                        *)
LEMMA Opcodes ==
    /\ DOMAIN packet_t = {"READ", "WRITE", "DATA", "ACK", "ERROR", "OACK"}
    /\ \A op \in DOMAIN packet_t : packet_t[op] \in Bytes
    /\ \A op, other \in DOMAIN packet_t : packet_t[op] = packet_t[other] => op = other
<1>1. /\ DOMAIN packet_t = {"READ", "WRITE", "DATA", "ACK", "ERROR", "OACK"}
      /\ packet_t["READ"] = 1 /\ packet_t["WRITE"] = 2 /\ packet_t["DATA"] = 3
      /\ packet_t["ACK"] = 4 /\ packet_t["ERROR"] = 5 /\ packet_t["OACK"] = 6
    BY DEF packet_t
<1>2. {1, 2, 3, 4, 5, 6} \subseteq Bytes
    BY CodecAssumption DEF Bytes
<1> QED BY <1>1, <1>2

(* A number is taken apart into two bytes and put together again.          *)
LEMMA NumberBytes ==
    ASSUME NEW n \in 0 .. Base * Base - 1
    PROVE  /\ n \div Base \in Bytes /\ n % Base \in Bytes
           /\ (n \div Base) * Base + (n % Base) = n
<1> DEFINE q == n \div Base
           r == n % Base
<1>1. Base \in Nat /\ Base > 6 /\ n \in Nat /\ Base * Base \in Nat /\ n < Base * Base
    BY CodecAssumption
<1>2. q \in Nat /\ r \in 0 .. Base - 1
    BY <1>1
<1>3. n = Base * q + r
    BY <1>1
<1> HIDE DEF q, r
<1>4. q < Base
    <2>1. ASSUME q >= Base PROVE FALSE
        <3>1. Base * q >= Base * Base
            BY <1>1, <1>2, <2>1
        <3>2. Base * q \in Nat
            BY <1>1, <1>2
        <3> QED BY <1>1, <1>2, <1>3, <3>1, <3>2
    <2> QED BY <1>1, <1>2, <2>1
<1>5. q * Base = Base * q /\ q * Base \in Nat
    BY <1>1, <1>2
<1>6. q \in Bytes /\ r \in Bytes /\ q * Base + r = n
    BY <1>1, <1>2, <1>3, <1>4, <1>5 DEF Bytes
<1> QED BY <1>6 DEF q, r

(* Two bytes make a number.                                                *)
LEMMA BytesNumber ==
    ASSUME NEW a \in Bytes, NEW b \in Bytes
    PROVE  a * Base + b \in 0 .. Base * Base - 1
<1>1. Base \in Nat /\ Base > 6 /\ a \in Nat /\ b \in Nat /\ a <= Base - 1 /\ b <= Base - 1
    BY CodecAssumption DEF Bytes
<1>2. a * Base <= (Base - 1) * Base /\ a * Base \in Nat
    BY <1>1
<1>3. (Base - 1) * Base = Base * Base - Base /\ Base * Base \in Nat
    BY <1>1
<1> QED BY <1>1, <1>2, <1>3

(* The opcode that begins every packet.                                    *)
LEMMA PrefixBytes ==
    ASSUME NEW op \in DOMAIN packet_t
    PROVE  /\ Prefix(op) \in Seq(Bytes) /\ Len(Prefix(op)) = 2
           /\ Prefix(op)[2] = packet_t[op]
<1>1. packet_t[op] \in Bytes /\ 0 \in Bytes
    BY Opcodes, CodecAssumption DEF Bytes
<1> QED BY <1>1 DEF Prefix

(* The opcode and the number that begin some.                              *)
LEMMA NumberHeader ==
    ASSUME NEW op \in DOMAIN packet_t, NEW n \in 0 .. Base * Base - 1
    PROVE  LET h == Prefix(op) \o BigEndian(n) IN
           /\ h \in Seq(Bytes) /\ Len(h) = 4
           /\ h[2] = packet_t[op] /\ h[3] = n \div Base /\ h[4] = n % Base
<1> DEFINE q == n \div Base
           r == n % Base
           c == packet_t[op]
<1>1. q \in Bytes /\ r \in Bytes
    BY NumberBytes
<1>2. c \in Bytes /\ 0 \in Bytes
    BY Opcodes, CodecAssumption DEF Bytes
<1>3. Prefix(op) \o BigEndian(n) = <<0, c>> \o <<q, r>>
    BY DEF Prefix, BigEndian
<1> HIDE DEF q, r, c
<1> DEFINE x == <<0, c>>
           y == <<q, r>>
<1>4. /\ x \in Seq(Bytes) /\ Len(x) = 2 /\ x[2] = c
      /\ y \in Seq(Bytes) /\ Len(y) = 2 /\ y[1] = q /\ y[2] = r
    BY <1>1, <1>2
<1> HIDE DEF x, y
<1>5. /\ x \o y \in Seq(Bytes) /\ Len(x \o y) = 4
      /\ (x \o y)[2] = c /\ (x \o y)[3] = q /\ (x \o y)[4] = r
    <2>1. /\ x \o y \in Seq(Bytes) /\ Len(x \o y) = Len(x) + Len(y)
          /\ \A i \in 1 .. Len(x) + Len(y) :
                (x \o y)[i] = IF i <= Len(x) THEN x[i] ELSE y[i - Len(x)]
        BY <1>4, ConcatProperties
    <2> DEFINE z == x \o y
    <2>2. z \in Seq(Bytes) /\ Len(z) = 4
        BY <1>4, <2>1
    <2>3. \A i \in 1 .. 4 : z[i] = IF i <= 2 THEN x[i] ELSE y[i - 2]
        BY <1>4, <2>1
    <2> HIDE DEF z
    <2>4. z[2] = x[2] /\ z[3] = y[3 - 2] /\ z[4] = y[4 - 2]
        BY <2>3
    <2>5. 3 - 2 = 1 /\ 4 - 2 = 2
        OBVIOUS
    <2> QED BY <1>4, <2>2, <2>4, <2>5 DEF z
<1> QED BY <1>3, <1>5 DEF q, r, c, x, y

-----------------------------------------------------------------------------
(* What the serialisers put into a datagram *)

Body(w)    == SubSeq(w, 3, Len(w))
Content(w) == SubSeq(w, 5, Len(w))

(* A request holds the name of the file, that of the mode, and options.    *)
RequestWire(p, w) ==
    /\ p.num = 0 /\ p.mode \in {"OCTET", "NETASCII", "MAIL"}
    /\ p.options \in Seq(Pairs) /\ (p.op = "READ" => p.options = <<>>)
    /\ p.str \in Seq(Letters) /\ Len(w) >= 4
    /\ \E m \in Seq(Letters) : \E u :
        /\ string_to_mode_t(m) = IF p.mode = "MAIL" THEN {} ELSE {p.mode}
        /\ Unpaired(u, p.options)
        /\ Scanned(Body(w)).strings = <<p.str, m>> \o u

(* Other packets hold a number.                                            *)
NumberWire(p, w) ==
    /\ p.num \in 0 .. Base * Base - 1 /\ p.mode = "none" /\ p.options = <<>>
    /\ Len(w) >= 4 /\ w[3] = p.num \div Base /\ w[4] = p.num % Base

ErrorWire(p, w) ==
    /\ p.str \in Seq(Letters) /\ Len(w) >= 5 /\ 0 \in Range(Content(w))
    /\ Scanned(Content(w)).strings = <<p.str>>

OackWire(p, w) ==
    /\ p.num = 0 /\ p.str = <<>> /\ p.mode = "none" /\ p.options \in Seq(Pairs)
    /\ Unpaired(Scanned(Body(w)).strings, p.options)

(* The datagram w is the packet p.                                         *)
WireOf(p, w) ==
    /\ p = Packet(p.op, p.num, p.str, p.mode, p.options)
    /\ p.op \in DOMAIN packet_t
    /\ w \in Seq(Bytes) /\ Len(w) >= 2 /\ w[2] = packet_t[p.op]
    /\ p.op \in {"READ", "WRITE"} => RequestWire(p, w)
    /\ p.op \in {"DATA", "ACK", "ERROR"} => NumberWire(p, w)
    /\ p.op = "DATA" => Content(w) = p.str
    /\ p.op = "ACK" => p.str = <<>>
    /\ p.op = "ERROR" => ErrorWire(p, w)
    /\ p.op = "OACK" => OackWire(p, w)

(* The parts of a pair.                                                    *)
LEMMA PairParts == \A a, b : <<a, b>>[1] = a /\ <<a, b>>[2] = b
OBVIOUS

(* Two strings, one after the other.                                       *)
LEMMA TwoStrings ==
    ASSUME NEW a \in Seq(Letters), NEW b \in Seq(Letters)
    PROVE  Append(<<a>>, b) = <<a, b>>
<1> DEFINE x == <<a, b>>
           y == Append(Append(<<>>, a), b)
<1>1. <<>> \in Seq(Seq(Letters)) /\ Len(<<>>) = 0 /\ 0 + 1 = 1 /\ 0 + 2 = 2
    OBVIOUS
<1>2. y \in Seq(Seq(Letters)) /\ Len(y) = 2 /\ y[1] = a /\ y[2] = b
    BY <1>1, AppendTwo
<1>3. x \in Seq(Seq(Letters)) /\ Len(x) = 2 /\ x[1] = a /\ x[2] = b
    OBVIOUS
<1> HIDE DEF x, y
<1>4. \A i \in 1 .. 2 : i = 1 \/ i = 2
    OBVIOUS
<1>5. x = y
    <2>1. Len(x) = Len(y) /\ \A i \in 1 .. Len(x) : x[i] = y[i]
        BY <1>2, <1>3, <1>4
    <2> QED BY <1>2, <1>3, <2>1, SeqEqual
<1>6. Append(<<>>, a) = <<a>>
    OBVIOUS
<1> QED BY <1>5, <1>6 DEF x, y

(* The length of a concatenation.                                          *)
LEMMA ConcatLength == \A x, y \in Seq(Bytes) : Len(x \o y) = Len(x) + Len(y)
OBVIOUS

(* Strings and their zeros.                                                *)
LEMMA StringsType ==
    \A s \in Strings : s \in Seq(Letters) /\ s \in Seq(Bytes) /\ CString(s) \in Seq(Bytes)
<1>1. \A s \in Strings : s \in Seq(Letters)
    BY CodecAssumption DEF Letters
<1>2. <<>> \in Seq(Bytes) /\ Scanned(<<>>).rest = <<>>
    BY ScannedEmpty DEF Start
<1>3. \A s \in Strings : CString(s) \in Seq(Bytes)
    BY <1>1, <1>2, ScannedCString
<1>4. ASSUME NEW s \in Seq(Letters) PROVE s \in Seq(Bytes)
    BY DEF Letters
<1> QED BY <1>1, <1>3, <1>4

(* A buffer that holds one string.                                         *)
LEMMA OneString ==
    ASSUME NEW s \in Seq(Letters)
    PROVE  /\ CString(s) \in Seq(Bytes) /\ Len(CString(s)) = Len(s) + 1
           /\ 0 \in Range(CString(s))
           /\ Scanned(CString(s)).strings = <<s>> /\ Scanned(CString(s)).rest = <<>>
<1>1. /\ <<>> \in Seq(Bytes) /\ Scanned(<<>>).rest = <<>> /\ Scanned(<<>>).strings = <<>>
    BY ScannedEmpty DEF Start
<1>2. /\ CString(s) \in Seq(Bytes)
      /\ Scanned(<<>> \o CString(s)).strings = Append(<<>>, s)
      /\ Scanned(<<>> \o CString(s)).rest = <<>>
    BY <1>1, ScannedCString
<1>3. <<>> \o CString(s) = CString(s) /\ Append(<<>>, s) = <<s>>
    BY <1>2, ConcatEmptySeq
<1>4. s \in Seq(Bytes) /\ 0 \in Bytes
    BY CodecAssumption DEF Letters, Bytes
<1>5. CString(s) = Append(s, 0)
    BY <1>4, AppendIsConcat DEF CString
<1>6. /\ Len(CString(s)) = Len(s) + 1 /\ Len(s) + 1 \in DOMAIN CString(s)
      /\ CString(s)[Len(s) + 1] = 0
    BY <1>4, <1>5
<1> QED BY <1>2, <1>3, <1>6 DEF Range

(* The names of the modes are recognised in either case, and no other is.  *)
LEMMA ModeNames ==
    /\ mode_t_to_string("OCTET") \in Seq(Letters) /\ mode_t_to_string("NETASCII") \in Seq(Letters)
    /\ string_to_mode_t(mode_t_to_string("OCTET")) = {"OCTET"}
    /\ string_to_mode_t(mode_t_to_string("NETASCII")) = {"NETASCII"}
    /\ \A m \in Spellings : /\ m[1] \in {"OCTET", "NETASCII", "MAIL"} /\ m[2] \in Seq(Letters)
                            /\ string_to_mode_t(m[2]) = IF m[1] = "MAIL" THEN {} ELSE {m[1]}
<1>1. {1, 2, 3, 4} \subseteq Letters
    BY CodecAssumption DEF Letters, Bytes
<1>2. <<1, 1>> \in Seq(Letters) /\ <<3, 1>> \in Seq(Letters) /\ <<4>> \in Seq(Letters)
      /\ <<1>> \in Seq(Letters) /\ <<2>> \in Seq(Letters)
    BY <1>1
<1>3. toupper(<<1, 1>>) = <<1, 1>> /\ toupper(<<3, 1>>) = <<1, 1>> /\ toupper(<<4>>) = <<2>>
      /\ toupper(<<1>>) = <<1>> /\ toupper(<<2>>) = <<2>>
    BY DEF toupper
<1>4. <<1, 1>> # <<2>> /\ <<1>> # <<1, 1>> /\ <<1>> # <<2>>
    OBVIOUS
<1>5. /\ string_to_mode_t(<<1, 1>>) = {"OCTET"} /\ string_to_mode_t(<<3, 1>>) = {"OCTET"}
      /\ string_to_mode_t(<<2>>) = {"NETASCII"} /\ string_to_mode_t(<<4>>) = {"NETASCII"}
      /\ string_to_mode_t(<<1>>) = {}
    BY <1>3, <1>4 DEF string_to_mode_t, OCTET_MODE_STR, NETASCII_MODE_STR
<1>6. mode_t_to_string("OCTET") = <<1, 1>> /\ mode_t_to_string("NETASCII") = <<2>>
    BY DEF mode_t_to_string, OCTET_MODE_STR, NETASCII_MODE_STR
<1>7. ASSUME NEW m \in Spellings
      PROVE  /\ m[1] \in {"OCTET", "NETASCII", "MAIL"} /\ m[2] \in Seq(Letters)
             /\ string_to_mode_t(m[2]) = IF m[1] = "MAIL" THEN {} ELSE {m[1]}
    <2>1. \/ m[1] = "OCTET" /\ m[2] = <<1, 1>>
          \/ m[1] = "OCTET" /\ m[2] = <<3, 1>>
          \/ m[1] = "NETASCII" /\ m[2] = <<4>>
          \/ m[1] = "MAIL" /\ m[2] = <<1>>
        <3>1. CASE m = <<"OCTET", <<1, 1>>>>
            <4>1. m[1] = "OCTET" /\ m[2] = <<1, 1>>
                BY <3>1, PairParts
            <4> QED BY <4>1
        <3>2. CASE m = <<"OCTET", <<3, 1>>>>
            <4>1. m[1] = "OCTET" /\ m[2] = <<3, 1>>
                BY <3>2, PairParts
            <4> QED BY <4>1
        <3>3. CASE m = <<"NETASCII", <<4>>>>
            <4>1. m[1] = "NETASCII" /\ m[2] = <<4>>
                BY <3>3, PairParts
            <4> QED BY <4>1
        <3>4. CASE m = <<"MAIL", <<1>>>>
            <4>1. m[1] = "MAIL" /\ m[2] = <<1>>
                BY <3>4, PairParts
            <4> QED BY <4>1
        <3> QED BY <3>1, <3>2, <3>3, <3>4 DEF Spellings
    <2> QED BY <1>2, <1>5, <2>1
<1> QED BY <1>2, <1>5, <1>6, <1>7

(* A request, with the mode spelled m and any options.                     *)
LEMMA RequestSerialised ==
    ASSUME NEW s \in Strings, NEW op \in {"READ", "WRITE"},
           NEW mode \in {"OCTET", "NETASCII", "MAIL"}, NEW m \in Seq(Letters),
           string_to_mode_t(m) = IF mode = "MAIL" THEN {} ELSE {mode},
           NEW o \in Seq(Pairs), op = "READ" => o = <<>>
    PROVE  LET p == Packet(op, 0, s, mode, o) IN WireOf(p, foreign_request(p, m))
<1> DEFINE p == Packet(op, 0, s, mode, o)
           w == foreign_request(p, m)
           h == Prefix(op)
           b1 == CString(s)
           c2 == CString(m)
           c3 == CStrings(o)
           b2 == b1 \o c2
           b3 == b2 \o c3
<1>1. p.op = op /\ p.num = 0 /\ p.str = s /\ p.mode = mode /\ p.options = o
    BY DEF Packet
<1>2. s \in Seq(Letters)
    BY StringsType
<1>3. /\ b1 \in Seq(Bytes) /\ Len(b1) = Len(s) + 1
      /\ Scanned(b1).strings = <<s>> /\ Scanned(b1).rest = <<>>
    BY <1>2, OneString
<1> HIDE DEF b1
<1>4. /\ c2 \in Seq(Bytes) /\ b2 \in Seq(Bytes) /\ Scanned(b2).rest = <<>>
      /\ Scanned(b2).strings = Append(<<s>>, m)
    BY <1>3, ScannedCString
<1>5. Len(c2) = Len(m) + 1
    BY OneString
<1> HIDE DEF c2, b2
<1>7. c3 \in Seq(Bytes) /\ b3 \in Seq(Bytes)
    BY <1>4, ScannedOptions
<1>8. PICK u : Unpaired(u, o) /\ Scanned(b3).strings = Append(<<s>>, m) \o u
    BY <1>4, ScannedOptions
<1> HIDE DEF c3, b3
<1>9. h \in Seq(Bytes) /\ Len(h) = 2 /\ h[2] = packet_t[op] /\ op \in DOMAIN packet_t
    BY PrefixBytes, Opcodes
<1>10. w = ((h \o b1) \o c2) \o c3
    BY <1>1 DEF foreign_request, b1, c2, c3
<1> HIDE DEF h, w, p
<1>11. w = h \o b3
    <2> DEFINE x == h \o b1
    <2>1. x \in Seq(Bytes)
        BY <1>3, <1>9
    <2> HIDE DEF x
    <2>2. w = x \o (c2 \o c3)
        BY <1>4, <1>7, <1>10, <2>1, ConcatBytes DEF x
    <2> DEFINE y == c2 \o c3
    <2>3. y \in Seq(Bytes)
        BY <1>4, <1>7
    <2> HIDE DEF y
    <2>4. x \o y = h \o (b1 \o y)
        BY <1>3, <1>9, <2>3, ConcatBytes DEF x
    <2>5. b1 \o y = b3
        BY <1>3, <1>4, <1>7, ConcatBytes DEF y, b3, b2
    <2> QED BY <2>2, <2>4, <2>5 DEF y
<1>12. w \in Seq(Bytes) /\ Len(w) = 2 + Len(b3) /\ w[2] = packet_t[op] /\ Body(w) = b3
    <2>1. 2 \in 1 .. Len(h) /\ Len(h) + 1 = 3
        BY <1>9
    <2>2. /\ h \o b3 \in Seq(Bytes) /\ Len(h \o b3) = Len(h) + Len(b3)
          /\ \A i \in 1 .. Len(h) : (h \o b3)[i] = h[i]
          /\ SubSeq(h \o b3, Len(h) + 1, Len(h \o b3)) = b3
        BY <1>7, <1>9, AfterHeader
    <2>3. SubSeq(h \o b3, 3, Len(h \o b3)) = b3 /\ (h \o b3)[2] = h[2]
        BY <2>1, <2>2
    <2> QED BY <1>9, <1>11, <2>2, <2>3 DEF Body
<1>13. Len(w) >= 4
    <2>1. Len(b3) = Len(b2) + Len(c3)
        BY <1>4, <1>7, ConcatLength DEF b3
    <2>3. Len(b2) = Len(b1) + Len(c2)
        BY <1>3, <1>4, ConcatLength DEF b2
    <2>2. Len(c3) \in Nat /\ Len(s) \in Nat /\ Len(m) \in Nat
        BY <1>2, <1>7
    <2> QED BY <1>3, <1>5, <1>12, <2>1, <2>2, <2>3
<1>14. Append(<<s>>, m) = <<s, m>>
    BY <1>2, TwoStrings
<1>15. RequestWire(p, w)
    BY <1>1, <1>2, <1>8, <1>12, <1>13, <1>14 DEF RequestWire
<1>16. p = Packet(p.op, p.num, p.str, p.mode, p.options)
    BY <1>1 DEF p
<1>17. op \notin {"DATA", "ACK", "ERROR", "OACK"}
    OBVIOUS
<1>18. Len(w) >= 2
    BY <1>12, <1>13
<1> QED BY <1>1, <1>9, <1>12, <1>15, <1>16, <1>17, <1>18 DEF WireOf, p, w

(* A number, and what follows it.                                          *)
LEMMA NumberSerialised ==
    ASSUME NEW op \in DOMAIN packet_t, NEW n \in 0 .. Base * Base - 1, NEW x \in Seq(Bytes)
    PROVE  LET w == (Prefix(op) \o BigEndian(n)) \o x IN
           /\ w \in Seq(Bytes) /\ Len(w) = 4 + Len(x) /\ w[2] = packet_t[op]
           /\ w[3] = n \div Base /\ w[4] = n % Base /\ Content(w) = x
<1> DEFINE h == Prefix(op) \o BigEndian(n)
           w == h \o x
<1>1. /\ h \in Seq(Bytes) /\ Len(h) = 4
      /\ h[2] = packet_t[op] /\ h[3] = n \div Base /\ h[4] = n % Base
    BY NumberHeader
<1> HIDE DEF h
<1>2. /\ w \in Seq(Bytes) /\ Len(w) = Len(h) + Len(x)
      /\ \A i \in 1 .. Len(h) : w[i] = h[i]
      /\ SubSeq(w, Len(h) + 1, Len(w)) = x
    BY <1>1, AfterHeader
<1> HIDE DEF w
<1>3. 2 \in 1 .. 4 /\ 3 \in 1 .. 4 /\ 4 \in 1 .. 4 /\ 4 + 1 = 5
    OBVIOUS
<1>4. Content(w) = x
    BY <1>1, <1>2, <1>3 DEF Content
<1>5. w[2] = h[2] /\ w[3] = h[3] /\ w[4] = h[4]
    BY <1>1, <1>2, <1>3
<1> QED BY <1>1, <1>2, <1>4, <1>5 DEF w, h

(* Every kind of packet is what its datagram holds.                        *)
LEMMA DataSerialised ==
    ASSUME NEW n \in 0 .. Base * Base - 1, NEW s \in Contents
    PROVE  LET p == Packet("DATA", n, s, "none", <<>>) IN WireOf(p, serialise(p))
<1> DEFINE p == Packet("DATA", n, s, "none", <<>>)
           w == serialise(p)
<1>1. p.op = "DATA" /\ p.num = n /\ p.str = s /\ p.mode = "none" /\ p.options = <<>>
    BY DEF Packet
<1>2. s \in Seq(Bytes)
    <2>1. <<0>> \in Seq(Bytes)
        BY CodecAssumption DEF Bytes
    <2>2. \A t \in Strings : t \in Seq(Bytes) /\ <<0>> \o t \in Seq(Bytes)
        BY <2>1, StringsType
    <2> QED BY <2>2 DEF Contents
<1>3. "DATA" \in DOMAIN packet_t
    BY Opcodes
<1>4. w = (Prefix("DATA") \o BigEndian(n)) \o s
    BY <1>1 DEF serialise, serialise_data_packet
<1> HIDE DEF w, p
<1>5. /\ w \in Seq(Bytes) /\ Len(w) = 4 + Len(s) /\ w[2] = packet_t["DATA"]
      /\ w[3] = n \div Base /\ w[4] = n % Base /\ Content(w) = s
    BY <1>2, <1>3, <1>4, NumberSerialised
<1>6. Len(w) >= 4 /\ Len(w) >= 2
    BY <1>2, <1>5
<1>7. NumberWire(p, w)
    BY <1>1, <1>5, <1>6 DEF NumberWire
<1>8. p = Packet(p.op, p.num, p.str, p.mode, p.options)
    BY <1>1 DEF p
<1> QED BY <1>1, <1>3, <1>5, <1>6, <1>7, <1>8 DEF WireOf, p, w

(* An ACK ends with its number.                                            *)
LEMMA AckSerialised ==
    ASSUME NEW n \in 0 .. Base * Base - 1
    PROVE  LET p == Packet("ACK", n, <<>>, "none", <<>>) IN WireOf(p, serialise(p))
<1> DEFINE p == Packet("ACK", n, <<>>, "none", <<>>)
           w == serialise(p)
<1>1. p.op = "ACK" /\ p.num = n /\ p.str = <<>> /\ p.mode = "none" /\ p.options = <<>>
    BY DEF Packet
<1>3. "ACK" \in DOMAIN packet_t
    BY Opcodes
<1>4. w = Prefix("ACK") \o BigEndian(n)
    BY <1>1 DEF serialise, serialise_ack_packet
<1> HIDE DEF w, p
<1>5. /\ w \in Seq(Bytes) /\ Len(w) = 4 /\ w[2] = packet_t["ACK"]
      /\ w[3] = n \div Base /\ w[4] = n % Base
    BY <1>3, <1>4, NumberHeader
<1>6. Len(w) >= 4 /\ Len(w) >= 2
    BY <1>5
<1>7. NumberWire(p, w)
    BY <1>1, <1>5, <1>6 DEF NumberWire
<1>8. p = Packet(p.op, p.num, p.str, p.mode, p.options)
    BY <1>1 DEF p
<1> QED BY <1>1, <1>3, <1>5, <1>6, <1>7, <1>8 DEF WireOf, p, w

(* An ERROR ends with its message.                                         *)
LEMMA ErrorSerialised ==
    ASSUME NEW n \in 0 .. Base * Base - 1, NEW s \in Strings
    PROVE  LET p == Packet("ERROR", n, s, "none", <<>>) IN WireOf(p, serialise(p))
<1> DEFINE p == Packet("ERROR", n, s, "none", <<>>)
           w == serialise(p)
           c == CString(s)
<1>1. p.op = "ERROR" /\ p.num = n /\ p.str = s /\ p.mode = "none" /\ p.options = <<>>
    BY DEF Packet
<1>2. s \in Seq(Letters)
    BY StringsType
<1>3. "ERROR" \in DOMAIN packet_t
    BY Opcodes
<1>4. w = (Prefix("ERROR") \o BigEndian(n)) \o c
    BY <1>1 DEF serialise, serialise_error_packet
<1>5. /\ c \in Seq(Bytes) /\ Len(c) = Len(s) + 1 /\ 0 \in Range(c) /\ Scanned(c).strings = <<s>>
    BY <1>2, OneString
<1> HIDE DEF w, p, c
<1>6. /\ w \in Seq(Bytes) /\ Len(w) = 4 + Len(c) /\ w[2] = packet_t["ERROR"]
      /\ w[3] = n \div Base /\ w[4] = n % Base /\ Content(w) = c
    BY <1>3, <1>4, <1>5, NumberSerialised
<1>7. Len(w) >= 4 /\ Len(w) >= 2 /\ Len(w) >= 5
    BY <1>2, <1>5, <1>6
<1>8. NumberWire(p, w) /\ ErrorWire(p, w)
    BY <1>1, <1>2, <1>5, <1>6, <1>7 DEF NumberWire, ErrorWire
<1>9. p = Packet(p.op, p.num, p.str, p.mode, p.options)
    BY <1>1 DEF p
<1> QED BY <1>1, <1>3, <1>6, <1>7, <1>8, <1>9 DEF WireOf, p, w

(* An OACK holds options only.                                             *)
LEMMA OackSerialised ==
    ASSUME NEW o \in Options
    PROVE  LET p == Packet("OACK", 0, <<>>, "none", o) IN WireOf(p, serialise(p))
<1> DEFINE p == Packet("OACK", 0, <<>>, "none", o)
           w == serialise(p)
           h == Prefix("OACK")
           c == CStrings(o)
           none == <<>>
<1>1. p.op = "OACK" /\ p.num = 0 /\ p.str = <<>> /\ p.mode = "none" /\ p.options = o
    BY DEF Packet
<1>2. o \in Seq(Pairs)
    BY OptionsType
<1>3. "OACK" \in DOMAIN packet_t
    BY Opcodes
<1>4. w = h \o c
    BY <1>1 DEF serialise, serialise_oack_packet
<1>5. none \in Seq(Bytes) /\ Scanned(none).rest = <<>> /\ Scanned(none).strings = <<>>
    BY ScannedEmpty DEF Start
<1>6. /\ c \in Seq(Bytes)
      /\ \E u : Unpaired(u, o) /\ Scanned(none \o c).strings = Scanned(none).strings \o u
    <2> HIDE DEF none
    <2> QED BY <1>2, <1>5, ScannedOptions
<1>7. Unpaired(Scanned(c).strings, o)
    <2>1. PICK u : Unpaired(u, o) /\ Scanned(none \o c).strings = <<>> \o u
        BY <1>5, <1>6
    <2>2. <<>> \o u = u
        BY <2>1, ConcatEmptySeq DEF Unpaired
    <2>3. none \o c = c
        BY <1>6, ConcatEmptySeq
    <2> QED BY <2>1, <2>2, <2>3
<1>8. h \in Seq(Bytes) /\ Len(h) = 2 /\ h[2] = packet_t["OACK"]
    BY <1>3, PrefixBytes
<1> HIDE DEF w, p, c, h
<1>9. w \in Seq(Bytes) /\ Len(w) = 2 + Len(c) /\ w[2] = packet_t["OACK"] /\ Body(w) = c
    <2>1. 2 \in 1 .. Len(h) /\ Len(h) + 1 = 3
        BY <1>8
    <2>2. /\ w \in Seq(Bytes) /\ Len(w) = Len(h) + Len(c)
          /\ \A i \in 1 .. Len(h) : w[i] = h[i]
          /\ SubSeq(w, Len(h) + 1, Len(w)) = c
        BY <1>4, <1>6, <1>8, AfterHeader
    <2>3. SubSeq(w, 3, Len(w)) = c /\ w[2] = h[2]
        BY <2>1, <2>2
    <2> QED BY <1>8, <2>2, <2>3 DEF Body
<1>10. Len(w) >= 2
    BY <1>6, <1>9
<1>11. OackWire(p, w)
    BY <1>1, <1>2, <1>7, <1>9 DEF OackWire
<1>12. p = Packet(p.op, p.num, p.str, p.mode, p.options)
    BY <1>1 DEF p
<1> QED BY <1>1, <1>3, <1>9, <1>10, <1>11, <1>12 DEF WireOf, p, w

(* This code's requests spell the mode in capitals and have no options.    *)
LEMMA OwnRequestSerialised ==
    ASSUME NEW op \in {"READ", "WRITE"}, NEW s \in Strings, NEW m \in {"OCTET", "NETASCII"}
    PROVE  LET p == Packet(op, 0, s, m, <<>>) IN WireOf(p, serialise(p))
<1> DEFINE p == Packet(op, 0, s, m, <<>>)
           str == mode_t_to_string(m)
           w == (Prefix(op) \o CString(s)) \o CString(str)
<1>1. p.op = op /\ p.num = 0 /\ p.str = s /\ p.mode = m /\ p.options = <<>>
    BY DEF Packet
<1>2. str \in Seq(Letters) /\ string_to_mode_t(str) = IF m = "MAIL" THEN {} ELSE {m}
    BY ModeNames
<1>3. serialise(p) = w
    BY <1>1 DEF serialise, serialise_rw_packet
<1>4. foreign_request(p, str) = w \o <<>>
    BY <1>1, NoOptions DEF foreign_request
<1>5. w \in Seq(Bytes)
    <2>1. Prefix(op) \in Seq(Bytes) /\ CString(s) \in Seq(Bytes) /\ CString(str) \in Seq(Bytes)
        BY <1>2, PrefixBytes, Opcodes, StringsType, OneString
    <2> QED BY <2>1
<1>6. w \o <<>> = w
    BY <1>5, ConcatEmptySeq
<1>7. <<>> \in Seq(Pairs)
    OBVIOUS
<1>8. WireOf(p, foreign_request(p, str))
    <2> HIDE DEF str
    <2> QED BY <1>2, <1>7, RequestSerialised
<1> QED BY <1>3, <1>4, <1>6, <1>8

(* The sender's packet is what is on the wire.                             *)
LEMMA InitWire == Init => WireOf(packet, wire)
<1> SUFFICES ASSUME Init PROVE WireOf(packet, wire)
    OBVIOUS
<1>1. CASE packet \in OwnPackets /\ wire = serialise(packet)
    <2> DEFINE N == 0 .. Base * Base - 1
               R == {Packet(op, 0, s, m, <<>>) : op \in {"READ", "WRITE"}, s \in Strings,
                                                 m \in {"OCTET", "NETASCII"}}
               D == {Packet("DATA", n, s, "none", <<>>) : n \in N, s \in Contents}
               E == {Packet("ERROR", n, s, "none", <<>>) : n \in N, s \in Strings}
               A == {Packet("ACK", n, <<>>, "none", <<>>) : n \in N}
               O == {Packet("OACK", 0, <<>>, "none", o) : o \in Options}
    <2>1. CASE packet \in R
        <3>1. PICK op \in {"READ", "WRITE"}, s \in Strings, m \in {"OCTET", "NETASCII"} :
                    packet = Packet(op, 0, s, m, <<>>)
            BY <2>1
        <3> QED BY <1>1, <3>1, OwnRequestSerialised
    <2>2. CASE packet \in D
        <3>1. PICK n \in N, s \in Contents : packet = Packet("DATA", n, s, "none", <<>>)
            <4> HIDE DEF N
            <4> QED BY <2>2
        <3> QED BY <1>1, <3>1, DataSerialised
    <2>3. CASE packet \in E
        <3>1. PICK n \in N, s \in Strings : packet = Packet("ERROR", n, s, "none", <<>>)
            <4> HIDE DEF N
            <4> QED BY <2>3
        <3> QED BY <1>1, <3>1, ErrorSerialised
    <2>4. CASE packet \in A
        BY <1>1, <2>4, AckSerialised
    <2>5. CASE packet \in O
        BY <1>1, <2>5, OackSerialised
    <2>6. OwnPackets = R \cup D \cup E \cup A \cup O
        BY DEF OwnPackets
    <2> HIDE DEF R, D, E, A, O
    <2>7. \/ packet \in R \/ packet \in D \/ packet \in E \/ packet \in A \/ packet \in O
        BY <1>1, <2>6
    <2> QED BY <2>1, <2>2, <2>3, <2>4, <2>5, <2>7
<1>2. ASSUME NEW s \in Strings, NEW m \in Spellings, NEW o \in Options,
             packet = Packet("WRITE", 0, s, m[1], o), wire = foreign_request(packet, m[2])
      PROVE  WireOf(packet, wire)
    <2>1. /\ m[1] \in {"OCTET", "NETASCII", "MAIL"} /\ m[2] \in Seq(Letters)
          /\ string_to_mode_t(m[2]) = IF m[1] = "MAIL" THEN {} ELSE {m[1]}
        BY ModeNames
    <2>2. o \in Seq(Pairs)
        BY OptionsType
    <2> QED BY <1>2, <2>1, <2>2, RequestSerialised
<1> QED BY <1>1, <1>2 DEF Init

-----------------------------------------------------------------------------
(* What the deserialisers make of a datagram, cut or whole *)

(* Every deserialiser looks at the opcode, which tells the kinds apart.    *)
LEMMA CutOp ==
    ASSUME NEW p, NEW w, WireOf(p, w), NEW size \in 1 .. Len(w),
           NEW op \in DOMAIN packet_t, NEW n \in {2, 4, 5}
    PROVE  IsOp(SubSeq(w, 1, size), n, op) <=> size >= n /\ op = p.op
<1> DEFINE data == SubSeq(w, 1, size)
<1>1. /\ w \in Seq(Bytes) /\ Len(w) \in Nat /\ size \in Nat /\ size \in 0 .. Len(w)
      /\ w[2] = packet_t[p.op] /\ p.op \in DOMAIN packet_t
    BY DEF WireOf
<1>2. Len(data) = size /\ \A i \in 1 .. size : data[i] = w[i]
    BY <1>1, CutAfterHeader
<1> HIDE DEF data
<1>3. size >= n => data[2] = packet_t[p.op]
    <2>1. size >= n => 2 \in 1 .. size
        BY <1>1
    <2> QED BY <1>1, <1>2, <2>1
<1>4. packet_t[op] = packet_t[p.op] <=> op = p.op
    BY <1>1, Opcodes
<1>5. IsOp(data, n, op) <=> size >= n /\ data[2] = packet_t[op]
    BY <1>2 DEF IsOp
<1> QED BY <1>3, <1>4, <1>5 DEF data

(* q is what may be made of p: as CutIsSafe has it.                        *)
Reads(q, p) ==
    /\ q = Packet(q.op, q.num, q.str, q.mode, q.options)
    /\ q.op = p.op /\ q.mode = p.mode /\ p.mode # "MAIL"
    /\ q.num \in 0 .. Base * Base - 1
    /\ q.num = p.num \/ (p.op = "ERROR" /\ p.num % Base >= Base \div 2)
    /\ IF p.op = "DATA" THEN IsPrefix(q.str, p.str)
                        ELSE q.str = p.str /\ p.str \in Seq(Letters)
    /\ IF p.op \in {"READ", "WRITE"} THEN IsPrefix(q.options, UpperCase(p.options))
                                     ELSE IsPrefix(q.options, p.options)

Upper(p) == Packet(p.op, p.num, p.str, p.mode, UpperCase(p.options))

(* The number of a packet, when its four bytes were received.              *)
LEMMA CutNumber ==
    ASSUME NEW p, NEW w, WireOf(p, w), p.op \in {"DATA", "ACK", "ERROR"},
           NEW size \in 4 .. Len(w)
    PROVE  LET data == SubSeq(w, 1, size) IN
           /\ Number(data) = p.num
           /\ SignExtendedNumber(data) \in 0 .. Base * Base - 1
           /\ SignExtendedNumber(data) = p.num \/ p.num % Base >= Base \div 2
<1> DEFINE data == SubSeq(w, 1, size)
<1>1. /\ w \in Seq(Bytes) /\ Len(w) \in Nat /\ size \in Nat /\ size \in 0 .. Len(w)
      /\ p.num \in 0 .. Base * Base - 1
      /\ w[3] = p.num \div Base /\ w[4] = p.num % Base
    BY DEF WireOf, NumberWire
<1>2. \A i \in 1 .. size : data[i] = w[i]
    BY <1>1, CutAfterHeader
<1> HIDE DEF data
<1> DEFINE q == p.num \div Base
           r == p.num % Base
<1>3. data[3] = q /\ data[4] = r
    <2>1. 3 \in 1 .. size /\ 4 \in 1 .. size
        BY <1>1
    <2> QED BY <1>1, <1>2, <2>1
<1>4. q \in Bytes /\ r \in Bytes /\ q * Base + r = p.num
    BY <1>1, NumberBytes
<1> HIDE DEF q, r
<1>5. Number(data) = p.num
    BY <1>3, <1>4 DEF Number
<1>6. Base - 1 \in Bytes
    BY CodecAssumption DEF Bytes
<1>7. (Base - 1) * Base + r \in 0 .. Base * Base - 1 /\ q * Base + r \in 0 .. Base * Base - 1
    BY <1>4, <1>6, BytesNumber
<1>8. \/ SignExtendedNumber(data) = (Base - 1) * Base + r /\ r >= Base \div 2
      \/ SignExtendedNumber(data) = q * Base + r
    BY <1>3 DEF SignExtendedNumber
<1> QED BY <1>4, <1>5, <1>7, <1>8 DEF data, r

(* A block of data may be cut, and is then a beginning of the block.       *)
LEMMA CutData ==
    ASSUME NEW p, NEW w, WireOf(p, w), p.op = "DATA", NEW size \in 1 .. Len(w)
    PROVE  LET data == SubSeq(w, 1, size) IN
           /\ \A q \in deserialise_data_packet(data) : Reads(q, p)
           /\ size = Len(w) => deserialise_data_packet(data) = {p}
<1> DEFINE data == SubSeq(w, 1, size)
           x == SubSeq(data, 5, Len(data))
           q == Packet("DATA", p.num, x, "none", <<>>)
<1>1. /\ w \in Seq(Bytes) /\ Len(w) \in Nat /\ Len(w) >= 4 /\ Content(w) = p.str
      /\ p = Packet("DATA", p.num, p.str, "none", <<>>)
      /\ p.num \in 0 .. Base * Base - 1 /\ p.mode = "none" /\ p.options = <<>>
    BY DEF WireOf, NumberWire
<1>2. "DATA" \in DOMAIN packet_t
    BY Opcodes
<1>3. IsOp(data, 4, "DATA") <=> size >= 4
    BY <1>2, CutOp
<1>4. CASE size < 4
    <2>1. ~IsOp(data, 4, "DATA") /\ size # Len(w)
        BY <1>1, <1>3, <1>4
    <2>2. deserialise_data_packet(data) = {}
        BY <2>1 DEF deserialise_data_packet
    <2> QED BY <2>1, <2>2
<1>5. CASE size >= 4
    <2>1. size \in 4 .. Len(w) /\ 4 \in Nat /\ 4 + 1 = 5
        BY <1>1, <1>5
    <2>2. deserialise_data_packet(data) = {q}
        BY <1>3, <1>5, <2>1, CutNumber DEF deserialise_data_packet
    <2> DEFINE body == SubSeq(w, 5, Len(w))
    <2>3. /\ body \in Seq(Bytes) /\ Len(body) = Len(w) - 4 /\ size - 4 \in 0 .. Len(body)
          /\ x = SubSeq(body, 1, size - 4)
        <3>1. /\ SubSeq(w, 4 + 1, Len(w)) \in Seq(Bytes)
              /\ Len(SubSeq(w, 4 + 1, Len(w))) = Len(w) - 4
              /\ size - 4 \in 0 .. Len(SubSeq(w, 4 + 1, Len(w)))
              /\ SubSeq(data, 4 + 1, Len(data)) = SubSeq(SubSeq(w, 4 + 1, Len(w)), 1, size - 4)
            BY <1>1, <2>1, CutAfterHeader
        <3> QED BY <2>1, <3>1
    <2>4. body = p.str
        BY <1>1 DEF Content
    <2> HIDE DEF data, x, body
    <2>5. x \in Seq(Bytes) /\ Begins(x, body)
        <3>1. /\ x \in Seq(Bytes) /\ Len(x) = size - 4
              /\ \A i \in 1 .. size - 4 : x[i] = body[i]
            BY <2>3
        <3> QED BY <2>3, <3>1 DEF Begins
    <2>6. IsPrefix(x, p.str)
        BY <2>3, <2>4, <2>5, BeginsIsPrefix
    <2>7. q.op = "DATA" /\ q.num = p.num /\ q.str = x /\ q.mode = "none" /\ q.options = <<>>
        BY DEF Packet
    <2>8. IsPrefix(<<>>, <<>>)
        BY DEF IsPrefix
    <2>9. Reads(q, p)
        BY <1>1, <2>6, <2>7, <2>8 DEF Reads
    <2>10. ASSUME size = Len(w) PROVE x = p.str
        BY <1>1, <2>3, <2>4, <2>10, SubSeqFull
    <2> QED BY <1>1, <2>2, <2>9, <2>10 DEF data
<1> QED BY <1>1, <1>4, <1>5

(* An ACK is understood or refused.                                        *)
LEMMA CutAck ==
    ASSUME NEW p, NEW w, WireOf(p, w), p.op = "ACK", NEW size \in 1 .. Len(w)
    PROVE  LET data == SubSeq(w, 1, size) IN
           /\ \A q \in deserialise_ack_packet(data) : Reads(q, p)
           /\ size = Len(w) => deserialise_ack_packet(data) = {p}
<1> DEFINE data == SubSeq(w, 1, size)
<1>1. /\ Len(w) \in Nat /\ Len(w) >= 4 /\ p = Packet("ACK", p.num, <<>>, "none", <<>>)
      /\ p.num \in 0 .. Base * Base - 1 /\ p.mode = "none" /\ p.options = <<>> /\ p.str = <<>>
    BY DEF WireOf, NumberWire
<1>2. "ACK" \in DOMAIN packet_t
    BY Opcodes
<1>3. IsOp(data, 4, "ACK") <=> size >= 4
    BY <1>2, CutOp
<1>4. CASE size < 4
    <2>1. ~IsOp(data, 4, "ACK") /\ size # Len(w)
        BY <1>1, <1>3, <1>4
    <2>2. deserialise_ack_packet(data) = {}
        BY <2>1 DEF deserialise_ack_packet
    <2> QED BY <2>1, <2>2
<1>5. CASE size >= 4
    <2>1. size \in 4 .. Len(w)
        BY <1>1, <1>5
    <2>2. deserialise_ack_packet(data) = {p}
        BY <1>1, <1>3, <1>5, <2>1, CutNumber DEF deserialise_ack_packet
    <2>3. IsPrefix(<<>>, <<>>) /\ <<>> \in Seq(Letters)
        BY DEF IsPrefix
    <2>4. Reads(p, p)
        BY <1>1, <2>3 DEF Reads, WireOf
    <2> QED BY <2>2, <2>4
<1> QED BY <1>1, <1>4, <1>5

(* The strings found behind a header of a cut datagram are the first ones  *)
(* of the whole.                                                           *)
LEMMA CutStrings ==
    ASSUME NEW w \in Seq(Bytes), NEW o \in Nat, NEW size \in o .. Len(w)
    PROVE  LET data  == SubSeq(w, 1, size)
               found == extract_c_strings_from_buffer(data, o)
               all   == Scanned(SubSeq(w, o + 1, Len(w))).strings
           IN /\ found \in Seq(Seq(Letters)) /\ all \in Seq(Seq(Letters))
              /\ Begins(found, all)
              /\ size = Len(w) => found = all
<1> DEFINE data  == SubSeq(w, 1, size)
           found == extract_c_strings_from_buffer(data, o)
           body  == SubSeq(w, o + 1, Len(w))
           all   == Scanned(body).strings
<1>1. /\ body \in Seq(Bytes) /\ Len(body) = Len(w) - o /\ size - o \in 0 .. Len(body)
      /\ SubSeq(data, o + 1, Len(data)) = SubSeq(body, 1, size - o)
    BY CutAfterHeader
<1> HIDE DEF data, body
<1>2. found = Scanned(SubSeq(body, 1, size - o)).strings
    BY <1>1 DEF extract_c_strings_from_buffer
<1>3. /\ Scanned(SubSeq(body, 1, size - o)).strings \in Seq(Seq(Letters))
      /\ Begins(Scanned(SubSeq(body, 1, size - o)).strings, Scanned(body).strings)
    BY <1>1, ScannedCut
<1>4. all \in Seq(Seq(Letters))
    BY <1>1, ScannedType
<1>5. ASSUME size = Len(w) PROVE found = all
    <2>1. SubSeq(body, 1, size - o) = body
        BY <1>1, <1>5, SubSeqFull
    <2> QED BY <1>2, <2>1
<1> QED BY <1>2, <1>3, <1>4, <1>5 DEF data, body

(* An ERROR is understood when its message ends within the buffer.         *)
LEMMA CutError ==
    ASSUME NEW p, NEW w, WireOf(p, w), p.op = "ERROR", NEW size \in 1 .. Len(w)
    PROVE  LET data == SubSeq(w, 1, size) IN
           /\ \A q \in deserialise_error_packet(data) : Reads(q, p)
           /\ size = Len(w) =>
                deserialise_error_packet(data)
                    = {Packet("ERROR", SignExtendedNumber(data), p.str, "none", <<>>)}
<1> DEFINE data  == SubSeq(w, 1, size)
           D     == deserialise_error_packet(data)
           found == extract_c_strings_from_buffer(data, 4)
           q     == Packet("ERROR", SignExtendedNumber(data), p.str, "none", <<>>)
           zero  == 0 \in Range(SubSeq(data, 5, Len(data)))
<1>1. /\ w \in Seq(Bytes) /\ Len(w) \in Nat /\ Len(w) >= 5
      /\ p = Packet("ERROR", p.num, p.str, "none", <<>>)
      /\ p.num \in 0 .. Base * Base - 1 /\ p.mode = "none" /\ p.options = <<>>
      /\ p.str \in Seq(Letters) /\ 0 \in Range(Content(w))
      /\ Scanned(Content(w)).strings = <<p.str>>
    BY DEF WireOf, NumberWire, ErrorWire
<1>2. "ERROR" \in DOMAIN packet_t
    BY Opcodes
<1>3. IsOp(data, 5, "ERROR") <=> size >= 5
    BY <1>2, CutOp
<1>4. CASE size < 5
    <2>1. ~IsOp(data, 5, "ERROR") /\ size # Len(w)
        BY <1>1, <1>3, <1>4
    <2>2. D = {}
        BY <2>1 DEF deserialise_error_packet
    <2> QED BY <2>1, <2>2
<1>5. CASE size >= 5
    <2>1. size \in 4 .. Len(w) /\ 4 \in Nat /\ 4 + 1 = 5
        BY <1>1, <1>5
    <2>2. /\ found \in Seq(Seq(Letters)) /\ Begins(found, <<p.str>>)
          /\ size = Len(w) => found = <<p.str>>
        <3>1. Content(w) = SubSeq(w, 4 + 1, Len(w))
            BY <2>1 DEF Content
        <3> QED BY <1>1, <2>1, <3>1, CutStrings
    <2>3. zero => found # <<>>
        <3>1. SubSeq(data, 4 + 1, Len(data)) \in Seq(Bytes)
            <4>1. data \in Seq(Bytes)
                BY <1>1, <2>1, CutAfterHeader
            <4> HIDE DEF data
            <4> QED BY <4>1
        <3>2. SubSeq(data, 4 + 1, Len(data)) = SubSeq(data, 5, Len(data))
            BY <2>1
        <3> QED BY <3>1, <3>2, ZeroFound DEF extract_c_strings_from_buffer
    <2>4. found # <<>> => Head(found) = p.str
        <3> HIDE DEF found
        <3>1. found # <<>> => 1 \in 1 .. Len(found) /\ Head(found) = found[1]
            BY <2>2
        <3>2. <<p.str>>[1] = p.str
            OBVIOUS
        <3> QED BY <2>2, <3>1, <3>2 DEF Begins
    <2>5. D = IF zero THEN {Packet("ERROR", SignExtendedNumber(data), Head(found), "none", <<>>)}
                      ELSE {}
        BY <1>3, <1>5 DEF deserialise_error_packet
    <2> HIDE DEF found
    <2>6. D = IF zero THEN {q} ELSE {}
        BY <2>3, <2>4, <2>5
    <2>7. Reads(q, p)
        <3>1. /\ SignExtendedNumber(data) \in 0 .. Base * Base - 1
              /\ SignExtendedNumber(data) = p.num \/ p.num % Base >= Base \div 2
            BY <2>1, CutNumber
        <3> HIDE DEF data
        <3>2. /\ q.op = "ERROR" /\ q.num = SignExtendedNumber(data) /\ q.str = p.str
              /\ q.mode = "none" /\ q.options = <<>>
            BY DEF Packet
        <3>3. IsPrefix(<<>>, <<>>)
            BY DEF IsPrefix
        <3> QED BY <1>1, <3>1, <3>2, <3>3 DEF Reads
    <2>8. size = Len(w) => zero
        BY <1>1, SubSeqFull DEF Content
    <2> HIDE DEF zero, q, D
    <2>9. /\ \A r \in D : Reads(r, p)
          /\ size = Len(w) => D = {q}
        BY <2>6, <2>7, <2>8
    <2> QED BY <2>9 DEF D, q
<1> QED BY <1>1, <1>4, <1>5

(* Of a cut OACK the first options are understood, or none.                *)
LEMMA CutOack ==
    ASSUME NEW p, NEW w, WireOf(p, w), p.op = "OACK", NEW size \in 1 .. Len(w)
    PROVE  LET data == SubSeq(w, 1, size) IN
           /\ \A q \in deserialise_oack_packet(data) : Reads(q, p)
           /\ size = Len(w) => deserialise_oack_packet(data) = {p}
<1> DEFINE data  == SubSeq(w, 1, size)
           D     == deserialise_oack_packet(data)
           found == extract_c_strings_from_buffer(data, 2)
           all   == Scanned(Body(w)).strings
           q     == Packet("OACK", 0, <<>>, "none", Paired(found))
<1>1. /\ w \in Seq(Bytes) /\ Len(w) \in Nat /\ Len(w) >= 2
      /\ p = Packet("OACK", 0, <<>>, "none", p.options)
      /\ p.num = 0 /\ p.mode = "none" /\ p.str = <<>> /\ p.options \in Seq(Pairs)
      /\ Unpaired(all, p.options)
    BY DEF WireOf, OackWire
<1>2. "OACK" \in DOMAIN packet_t
    BY Opcodes
<1>3. IsOp(data, 2, "OACK") <=> size >= 2
    BY <1>2, CutOp
<1>4. CASE size < 2
    <2>1. ~IsOp(data, 2, "OACK") /\ size # Len(w)
        BY <1>1, <1>3, <1>4
    <2>2. D = {}
        BY <2>1 DEF deserialise_oack_packet
    <2> QED BY <2>1, <2>2
<1>5. CASE size >= 2
    <2>1. size \in 2 .. Len(w) /\ 2 \in Nat /\ 2 + 1 = 3
        BY <1>1, <1>5
    <2>2. /\ found \in Seq(Seq(Letters)) /\ Begins(found, all)
          /\ size = Len(w) => found = all
        <3>1. Body(w) = SubSeq(w, 2 + 1, Len(w))
            BY <2>1 DEF Body
        <3> QED BY <1>1, <2>1, <3>1, CutStrings
    <2>3. D = {q}
        BY <1>3, <1>5 DEF deserialise_oack_packet
    <2> HIDE DEF found, all, D
    <2>4. Paired(found) \in Seq(Pairs) /\ Begins(Paired(found), p.options)
        BY <1>1, <2>2, PairedBeginning
    <2>5. IsPrefix(Paired(found), p.options)
        BY <1>1, <2>4, BeginsIsPrefix
    <2>6. q.op = "OACK" /\ q.num = 0 /\ q.str = <<>> /\ q.mode = "none" /\ q.options = Paired(found)
        BY DEF Packet
    <2>7. 0 \in 0 .. Base * Base - 1 /\ <<>> \in Seq(Letters)
        <3>1. Base * Base \in Nat /\ Base * Base > 1
            BY CodecAssumption
        <3> QED BY <3>1
    <2>8. Reads(q, p)
        BY <1>1, <2>5, <2>6, <2>7 DEF Reads
    <2>9. ASSUME size = Len(w) PROVE q = p
        BY <1>1, <2>2, <2>9, PairedOptions
    <2> HIDE DEF q
    <2>10. /\ \A r \in D : Reads(r, p)
           /\ size = Len(w) => D = {p}
        BY <2>3, <2>8, <2>9
    <2> QED BY <2>10 DEF D
<1> QED BY <1>1, <1>4, <1>5

(* The parameters of a request: its first two strings, and options.        *)
LEMMA Parameters ==
    ASSUME NEW a \in Seq(Letters), NEW b \in Seq(Letters), NEW u \in Seq(Seq(Letters)),
           NEW v \in Seq(Seq(Letters)), Begins(v, <<a, b>> \o u), Len(v) >= 2
    PROVE  /\ v[1] = a /\ v[2] = b
           /\ SubSeq(v, 3, Len(v)) \in Seq(Seq(Letters))
           /\ Begins(SubSeq(v, 3, Len(v)), u)
           /\ v = <<a, b>> \o u => SubSeq(v, 3, Len(v)) = u
<1> DEFINE h == <<a, b>>
           w == h \o u
           t == SubSeq(v, 3, Len(v))
<1>1. h \in Seq(Seq(Letters)) /\ Len(h) = 2 /\ h[1] = a /\ h[2] = b /\ Begins(v, w)
    OBVIOUS
<1> HIDE DEF h
<1>2. /\ w \in Seq(Seq(Letters)) /\ Len(w) = Len(h) + Len(u)
      /\ \A i \in 1 .. Len(h) + Len(u) : w[i] = IF i <= Len(h) THEN h[i] ELSE u[i - Len(h)]
    BY <1>1, ConcatProperties
<1>3. Len(u) \in Nat /\ Len(v) \in Nat /\ Len(w) = 2 + Len(u) /\ Len(v) <= 2 + Len(u)
    BY <1>1, <1>2 DEF Begins
<1>4. \A i \in 1 .. Len(v) : v[i] = IF i <= 2 THEN h[i] ELSE u[i - 2]
    <2> HIDE DEF w
    <2>1. \A i \in 1 .. Len(v) : v[i] = w[i] /\ i \in 1 .. 2 + Len(u)
        BY <1>1, <1>3 DEF Begins
    <2> QED BY <1>1, <1>2, <2>1
<1>5. v[1] = a /\ v[2] = b
    <2>1. 1 \in 1 .. Len(v) /\ 2 \in 1 .. Len(v) /\ 1 <= 2 /\ 2 <= 2
        BY <1>3
    <2> QED BY <1>1, <1>4, <2>1
<1>6. /\ t \in Seq(Seq(Letters)) /\ Len(t) = Len(v) - 2
      /\ \A i \in 1 .. Len(v) - 2 : t[i] = v[i + 2]
    <2>1. \A i \in 3 .. Len(v) : v[i] \in Seq(Letters)
        BY <1>3
    <2>2. /\ t \in Seq(Seq(Letters)) /\ Len(t) = IF 3 <= Len(v) THEN Len(v) - 3 + 1 ELSE 0
          /\ \A i \in 1 .. Len(v) - 3 + 1 : t[i] = v[3 + i - 1]
        BY <1>3, <2>1, SubSeqProperties
    <2> HIDE DEF t
    <2>3. Len(v) - 3 + 1 = Len(v) - 2 /\ Len(t) = Len(v) - 2
        <3>1. \A n \in Nat : n >= 2 => /\ n - 3 + 1 = n - 2
                                      /\ (IF 3 <= n THEN n - 3 + 1 ELSE 0) = n - 2
            OBVIOUS
        <3> QED BY <1>3, <2>2, <3>1
    <2>4. \A i \in 1 .. Len(v) - 2 : 3 + i - 1 = i + 2
        BY <1>3
    <2> QED BY <2>2, <2>3, <2>4
<1> HIDE DEF t, w
<1>7. \A i \in 1 .. Len(t) : t[i] = u[i]
    <2> SUFFICES ASSUME NEW i \in 1 .. Len(t) PROVE t[i] = u[i]
        OBVIOUS
    <2>1. i + 2 \in 1 .. Len(v) /\ ~(i + 2 <= 2) /\ (i + 2) - 2 = i /\ i \in 1 .. Len(v) - 2
        BY <1>3, <1>6
    <2> QED BY <1>4, <1>6, <2>1
<1>8. Len(t) <= Len(u)
    BY <1>3, <1>6
<1>9. ASSUME v = w PROVE t = u
    <2>1. Len(t) = Len(u)
        BY <1>3, <1>6, <1>9
    <2> QED BY <1>6, <1>7, <2>1, SeqEqual
<1> QED BY <1>5, <1>6, <1>7, <1>8, <1>9 DEF Begins, t, w, h

(* Of a cut request the name and the mode are understood, and the first    *)
(* options or none; or it is refused.                                      *)
LEMMA CutRequest ==
    ASSUME NEW p, NEW w, WireOf(p, w), p.op \in {"READ", "WRITE"}, NEW size \in 1 .. Len(w)
    PROVE  LET data == SubSeq(w, 1, size) IN
           /\ \A q \in deserialise_rw_packet(data) : Reads(q, p)
           /\ size = Len(w) =>
                deserialise_rw_packet(data) = IF p.mode = "MAIL" THEN {} ELSE {Upper(p)}
<1> DEFINE data   == SubSeq(w, 1, size)
           D      == deserialise_rw_packet(data)
           params == extract_c_strings_from_buffer(data, 2)
           t      == SubSeq(params, 3, Len(params))
           all    == Scanned(Body(w)).strings
           ops    == {o \in {"READ", "WRITE"} : IsOp(data, 4, o)}
           modes  == IF Len(params) < 2 THEN {} ELSE string_to_mode_t(params[2])
<1>1. /\ w \in Seq(Bytes) /\ Len(w) \in Nat /\ Len(w) >= 4
      /\ p = Packet(p.op, 0, p.str, p.mode, p.options)
      /\ p.num = 0 /\ p.mode \in {"OCTET", "NETASCII", "MAIL"}
      /\ p.str \in Seq(Letters) /\ p.options \in Seq(Pairs)
    BY DEF WireOf, RequestWire
<1>2. PICK m \in Seq(Letters) : \E u :
        /\ string_to_mode_t(m) = IF p.mode = "MAIL" THEN {} ELSE {p.mode}
        /\ Unpaired(u, p.options)
        /\ all = <<p.str, m>> \o u
    BY DEF WireOf, RequestWire
<1>3. PICK u :
        /\ string_to_mode_t(m) = IF p.mode = "MAIL" THEN {} ELSE {p.mode}
        /\ Unpaired(u, p.options)
        /\ all = <<p.str, m>> \o u
    BY <1>2
<1>4. ops = IF size >= 4 THEN {p.op} ELSE {}
    <2>1. {"READ", "WRITE"} \subseteq DOMAIN packet_t
        BY Opcodes
    <2>2. \A o \in {"READ", "WRITE"} : IsOp(data, 4, o) <=> size >= 4 /\ o = p.op
        BY <2>1, CutOp
    <2> QED BY <2>2
<1>5. D = {Packet(op, 0, params[1], x, UpperCase(Paired(t))) : op \in ops, x \in modes}
    BY DEF deserialise_rw_packet
<1> HIDE DEF D, ops
<1>6. CASE size < 4
    <2>1. ops = {} /\ size # Len(w)
        BY <1>1, <1>4, <1>6
    <2>2. D = {}
        BY <1>5, <2>1
    <2> QED BY <2>1, <2>2 DEF D
<1>7. CASE size >= 4
    <2>1. size \in 2 .. Len(w) /\ 2 \in Nat /\ 2 + 1 = 3 /\ ops = {p.op}
        BY <1>1, <1>4, <1>7
    <2>2. /\ params \in Seq(Seq(Letters)) /\ Begins(params, all)
          /\ size = Len(w) => params = all
        <3>1. Body(w) = SubSeq(w, 2 + 1, Len(w))
            BY <2>1 DEF Body
        <3> QED BY <1>1, <2>1, <3>1, CutStrings
    <2>3. u \in Seq(Seq(Letters)) /\ Len(all) >= 2
        <3>1. u \in Seq(Seq(Letters))
            BY <1>3 DEF Unpaired
        <3>2. <<p.str, m>> \in Seq(Seq(Letters)) /\ Len(<<p.str, m>>) = 2 /\ Len(u) \in Nat
            BY <1>1, <3>1
        <3>3. Len(<<p.str, m>> \o u) = Len(<<p.str, m>>) + Len(u)
            <4> DEFINE h == <<p.str, m>>
            <4>1. h \in Seq(Seq(Letters))
                BY <3>2
            <4> HIDE DEF h
            <4>2. Len(h \o u) = Len(h) + Len(u)
                BY <3>1, <4>1, ConcatProperties
            <4> QED BY <4>2 DEF h
        <3> QED BY <1>3, <3>1, <3>2, <3>3
    <2> HIDE DEF params, all
    <2>4. CASE Len(params) < 2
        <3>1. size # Len(w)
            BY <2>2, <2>3, <2>4
        <3>2. modes = {}
            BY <2>4
        <3> HIDE DEF modes
        <3>3. D = {}
            BY <1>5, <3>2
        <3> QED BY <3>1, <3>3 DEF D
    <2>5. CASE ~(Len(params) < 2)
        <3>1. Len(params) >= 2
            BY <2>2, <2>5
        <3>2. /\ params[1] = p.str /\ params[2] = m
              /\ t \in Seq(Seq(Letters)) /\ Begins(t, u)
              /\ params = all => t = u
            <4> DEFINE s == p.str
            <4>1. s \in Seq(Letters) /\ Begins(params, <<s, m>> \o u) /\ all = <<s, m>> \o u
                BY <1>1, <1>3, <2>2
            <4> HIDE DEF s
            <4>2. /\ params[1] = s /\ params[2] = m
                  /\ t \in Seq(Seq(Letters)) /\ Begins(t, u)
                  /\ params = <<s, m>> \o u => t = u
                BY <2>2, <2>3, <3>1, <4>1, Parameters
            <4> QED BY <4>1, <4>2 DEF s
        <3>3. modes = IF p.mode = "MAIL" THEN {} ELSE {p.mode}
            BY <1>3, <2>5, <3>2
        <3> HIDE DEF modes, t
        <3> DEFINE o == Paired(t)
                   q == Packet(p.op, 0, p.str, p.mode, UpperCase(o))
        <3>4. D = IF p.mode = "MAIL" THEN {} ELSE {q}
            BY <1>5, <2>1, <3>2, <3>3
        <3>5. o \in Seq(Pairs) /\ Begins(o, p.options)
            BY <1>1, <1>3, <3>2, PairedBeginning
        <3>6. size = Len(w) => o = p.options
            BY <1>1, <1>3, <2>2, <3>2, PairedOptions
        <3> HIDE DEF o
        <3>7. IsPrefix(UpperCase(o), UpperCase(p.options))
            BY <1>1, <3>5, UpperCaseBegins, UpperCaseType, BeginsIsPrefix
        <3>8. /\ q.op = p.op /\ q.num = 0 /\ q.str = p.str /\ q.mode = p.mode
              /\ q.options = UpperCase(o)
            BY DEF Packet
        <3>9. 0 \in 0 .. Base * Base - 1
            <4>1. Base * Base \in Nat /\ Base * Base > 1
                BY CodecAssumption
            <4> QED BY <4>1
        <3>10. p.mode # "MAIL" => Reads(q, p)
            BY <1>1, <3>7, <3>8, <3>9 DEF Reads
        <3>11. size = Len(w) => q = Upper(p)
            BY <1>1, <3>6 DEF Upper
        <3> HIDE DEF q
        <3>12. /\ \A r \in D : Reads(r, p)
               /\ size = Len(w) => D = IF p.mode = "MAIL" THEN {} ELSE {Upper(p)}
            BY <3>4, <3>10, <3>11
        <3> QED BY <3>12 DEF D
    <2> QED BY <2>4, <2>5
<1> QED BY <1>1, <1>6, <1>7

(* What Parse collects.                                                    *)
Deserialised(data) ==
    UNION {deserialise_rw_packet(data), deserialise_data_packet(data),
           deserialise_ack_packet(data), deserialise_error_packet(data),
           deserialise_oack_packet(data)}

(* Only the deserialiser of the packet's own kind finds anything.          *)
LEMMA OneKind ==
    ASSUME NEW p, NEW w, WireOf(p, w), NEW size \in 1 .. Len(w)
    PROVE  LET data == SubSeq(w, 1, size) IN
           /\ p.op \notin {"READ", "WRITE"} => deserialise_rw_packet(data) = {}
           /\ p.op # "DATA"  => deserialise_data_packet(data) = {}
           /\ p.op # "ACK"   => deserialise_ack_packet(data) = {}
           /\ p.op # "ERROR" => deserialise_error_packet(data) = {}
           /\ p.op # "OACK"  => deserialise_oack_packet(data) = {}
<1> DEFINE data == SubSeq(w, 1, size)
<1>1. DOMAIN packet_t = {"READ", "WRITE", "DATA", "ACK", "ERROR", "OACK"}
    BY Opcodes
<1>2. \A op \in DOMAIN packet_t : \A n \in {2, 4, 5} : IsOp(data, n, op) => op = p.op
    BY CutOp
<1> HIDE DEF data
<1>3. p.op \notin {"READ", "WRITE"} => deserialise_rw_packet(data) = {}
    <2> SUFFICES ASSUME p.op \notin {"READ", "WRITE"} PROVE deserialise_rw_packet(data) = {}
        OBVIOUS
    <2>1. {o \in {"READ", "WRITE"} : IsOp(data, 4, o)} = {}
        BY <1>1, <1>2
    <2> QED BY <2>1 DEF deserialise_rw_packet
<1>4. p.op # "DATA" => deserialise_data_packet(data) = {}
    BY <1>1, <1>2 DEF deserialise_data_packet
<1>5. p.op # "ACK" => deserialise_ack_packet(data) = {}
    BY <1>1, <1>2 DEF deserialise_ack_packet
<1>6. p.op # "ERROR" => deserialise_error_packet(data) = {}
    BY <1>1, <1>2 DEF deserialise_error_packet
<1>7. p.op # "OACK" => deserialise_oack_packet(data) = {}
    BY <1>1, <1>2 DEF deserialise_oack_packet
<1> QED BY <1>3, <1>4, <1>5, <1>6, <1>7 DEF data

(* So what is parsed is what that one finds.                               *)
LEMMA ParsedKind ==
    ASSUME NEW p, NEW w, WireOf(p, w), NEW size \in 1 .. Len(w)
    PROVE  LET data == SubSeq(w, 1, size) IN
           Deserialised(data) =
                CASE p.op \in {"READ", "WRITE"} -> deserialise_rw_packet(data)
                  [] p.op = "DATA"  -> deserialise_data_packet(data)
                  [] p.op = "ACK"   -> deserialise_ack_packet(data)
                  [] p.op = "ERROR" -> deserialise_error_packet(data)
                  [] p.op = "OACK"  -> deserialise_oack_packet(data)
<1> DEFINE data == SubSeq(w, 1, size)
           R == deserialise_rw_packet(data)
           D == deserialise_data_packet(data)
           A == deserialise_ack_packet(data)
           E == deserialise_error_packet(data)
           O == deserialise_oack_packet(data)
<1>1. Deserialised(data) = UNION {R, D, A, E, O}
    BY DEF Deserialised
<1>2. /\ p.op \notin {"READ", "WRITE"} => R = {}
      /\ p.op # "DATA" => D = {}
      /\ p.op # "ACK" => A = {}
      /\ p.op # "ERROR" => E = {}
      /\ p.op # "OACK" => O = {}
    BY OneKind
<1>3. p.op \in {"READ", "WRITE", "DATA", "ACK", "ERROR", "OACK"}
    BY Opcodes DEF WireOf
<1> HIDE DEF R, D, A, E, O, data
<1>4. CASE p.op \in {"READ", "WRITE"}
    BY <1>1, <1>2, <1>4 DEF R, data
<1>5. CASE p.op = "DATA"
    BY <1>1, <1>2, <1>5 DEF D, data
<1>6. CASE p.op = "ACK"
    BY <1>1, <1>2, <1>6 DEF A, data
<1>7. CASE p.op = "ERROR"
    BY <1>1, <1>2, <1>7 DEF E, data
<1>8. CASE p.op = "OACK"
    BY <1>1, <1>2, <1>8 DEF O, data
<1> QED BY <1>3, <1>4, <1>5, <1>6, <1>7, <1>8

-----------------------------------------------------------------------------
(* The inductive invariant: the datagram is the packet, what was received  *)
(* is a beginning of it, and was parsed.                                   *)
CodecInv ==
    /\ WireOf(packet, wire)
    /\ pc \in {"sent", "received", "parsed"}
    /\ IF pc = "sent" THEN received = <<>>
                      ELSE \E size \in 1 .. Len(wire) : received = SubSeq(wire, 1, size)
    /\ parsed = IF pc = "parsed" THEN Deserialised(received) ELSE {}

(* Nothing is received at first.                                           *)
LEMMA InitCodec == Init => CodecInv
BY InitWire DEF Init, CodecInv

(* Receiving and parsing keep the invariant.                               *)
LEMMA NextKeepsCodec == CodecInv /\ [Next]_vars => CodecInv'
<1> SUFFICES ASSUME CodecInv, [Next]_vars PROVE CodecInv'
    OBVIOUS
<1>1. CASE \E size \in 1 .. Len(wire) : recv(size)
    BY <1>1 DEF CodecInv, recv
<1>2. CASE Parse
    <2>1. parsed' = Deserialised(received)
        BY <1>2 DEF Parse, Deserialised
    <2> QED BY <1>2, <2>1 DEF CodecInv, Parse
<1>3. CASE UNCHANGED vars
    BY <1>3 DEF CodecInv, vars
<1> QED BY <1>1, <1>2, <1>3 DEF Next, Done

(* The invariant holds for ever.                                           *)
LEMMA CodecInvariant == Spec => []CodecInv
BY InitCodec, NextKeepsCodec, PTL DEF Spec

(* Whatever is parsed may be made of the packet sent.                      *)
LEMMA ParsedReads ==
    ASSUME CodecInv, NEW q \in parsed
    PROVE  Reads(q, packet)
<1>1. pc = "parsed" /\ parsed = Deserialised(received) /\ WireOf(packet, wire)
    BY DEF CodecInv
<1>2. PICK size \in 1 .. Len(wire) : received = SubSeq(wire, 1, size)
    BY <1>1 DEF CodecInv
<1>3. packet.op \in {"READ", "WRITE", "DATA", "ACK", "ERROR", "OACK"}
    BY <1>1, Opcodes DEF WireOf
<1>4. CASE packet.op \in {"READ", "WRITE"}
    <2>1. q \in deserialise_rw_packet(received)
        BY <1>1, <1>2, <1>4, ParsedKind
    <2> QED BY <1>1, <1>2, <1>4, <2>1, CutRequest
<1>5. CASE packet.op = "DATA"
    <2>1. q \in deserialise_data_packet(received)
        BY <1>1, <1>2, <1>5, ParsedKind
    <2> QED BY <1>1, <1>2, <1>5, <2>1, CutData
<1>6. CASE packet.op = "ACK"
    <2>1. q \in deserialise_ack_packet(received)
        BY <1>1, <1>2, <1>6, ParsedKind
    <2> QED BY <1>1, <1>2, <1>6, <2>1, CutAck
<1>7. CASE packet.op = "ERROR"
    <2>1. q \in deserialise_error_packet(received)
        BY <1>1, <1>2, <1>7, ParsedKind
    <2> QED BY <1>1, <1>2, <1>7, <2>1, CutError
<1>8. CASE packet.op = "OACK"
    <2>1. q \in deserialise_oack_packet(received)
        BY <1>1, <1>2, <1>8, ParsedKind
    <2> QED BY <1>1, <1>2, <1>8, <2>1, CutOack
<1> QED BY <1>3, <1>4, <1>5, <1>6, <1>7, <1>8

(* What the receiver should make of the packet, whatever its kind.         *)
LEMMA MeaningOf ==
    ASSUME WireOf(packet, wire)
    PROVE  /\ packet.op \in {"READ", "WRITE"} =>
                Meaning = IF packet.mode = "MAIL" THEN {} ELSE {Upper(packet)}
           /\ packet.op \notin {"READ", "WRITE"} => Meaning = {packet}
<1>1. packet = Packet(packet.op, packet.num, packet.str, packet.mode, packet.options)
    BY DEF WireOf
<1>2. CASE packet.op = "WRITE"
    <2>1. [packet EXCEPT !.options = UpperCase(@)] = Upper(packet)
        BY <1>1 DEF Packet, Upper
    <2> QED BY <1>2, <2>1 DEF Meaning
<1>3. CASE packet.op = "READ"
    <2>1. packet.options = <<>>
        BY <1>3 DEF WireOf, RequestWire
    <2>2. UpperCase(<<>>) = <<>>
        BY DEF UpperCase
    <2>3. Upper(packet) = packet
        BY <1>1, <2>1, <2>2 DEF Upper
    <2> QED BY <1>3, <2>3 DEF Meaning
<1>4. CASE packet.op \notin {"READ", "WRITE"}
    <2>1. packet.mode = "none"
        BY <1>4, Opcodes DEF WireOf, NumberWire, OackWire
    <2> QED BY <1>4, <2>1 DEF Meaning
<1> QED BY <1>2, <1>3, <1>4

-----------------------------------------------------------------------------
(* A parsed packet is well formed: its number fits into two bytes, and its *)
(* file name or message holds no zero.                                     *)
THEOREM CodecTypeCorrect == Spec => []TypeOK
<1>1. ASSUME CodecInv PROVE TypeOK
    <2>1. wire \in Seq(Bytes) /\ received \in Seq(Bytes)
        <3>1. wire \in Seq(Bytes) /\ Len(wire) \in Nat
            BY <1>1 DEF CodecInv, WireOf
        <3>2. \A size \in 1 .. Len(wire) : SubSeq(wire, 1, size) \in Seq(Bytes)
            BY <3>1
        <3>3. <<>> \in Seq(Bytes)
            OBVIOUS
        <3> QED BY <1>1, <3>1, <3>2, <3>3 DEF CodecInv
    <2>2. ASSUME NEW q \in parsed
          PROVE  /\ q.op \in DOMAIN packet_t
                 /\ q.num \in 0 .. Base * Base - 1
                 /\ q.mode \in {"OCTET", "NETASCII", "none"}
                 /\ q.op # "DATA" => 0 \notin Range(q.str)
        <3>1. Reads(q, packet) /\ WireOf(packet, wire)
            BY <1>1, ParsedReads DEF CodecInv
        <3>2. q.op \in DOMAIN packet_t /\ q.num \in 0 .. Base * Base - 1
            BY <3>1 DEF Reads, WireOf
        <3>3. q.mode \in {"OCTET", "NETASCII", "none"}
            BY <3>1, Opcodes DEF Reads, WireOf, RequestWire, NumberWire, OackWire
        <3>4. ASSUME q.op # "DATA" PROVE 0 \notin Range(q.str)
            <4>1. q.str \in Seq(Letters)
                BY <3>1, <3>4 DEF Reads
            <4>2. \A i \in DOMAIN q.str : q.str[i] \in Letters
                BY <4>1
            <4> QED BY <4>2 DEF Range, Letters
        <3> QED BY <3>2, <3>3, <3>4
    <2> QED BY <1>1, <2>1, <2>2 DEF CodecInv, TypeOK
<1> QED BY <1>1, CodecInvariant, PTL

(* Wherever recv or recv_from cut a datagram, it is refused or understood  *)
(* as the packet that was sent, but for a shorter block or fewer options.  *)
THEOREM CutsAreSafe == Spec => []CutIsSafe
<1>1. ASSUME CodecInv PROVE CutIsSafe
    <2> SUFFICES ASSUME NEW q \in parsed
                 PROVE  \E p \in Meaning :
                            /\ q.op = p.op /\ q.mode = p.mode
                            /\ q.num = p.num \/ (p.op = "ERROR" /\ p.num % Base >= Base \div 2)
                            /\ IF p.op = "DATA" THEN IsPrefix(q.str, p.str) ELSE q.str = p.str
                            /\ IsPrefix(q.options, p.options)
        BY DEF CutIsSafe
    <2>1. Reads(q, packet) /\ WireOf(packet, wire)
        BY <1>1, ParsedReads DEF CodecInv
    <2>2. CASE packet.op \in {"READ", "WRITE"}
        <3>1. Upper(packet) \in Meaning
            BY <2>1, <2>2, MeaningOf DEF Reads
        <3>2. /\ Upper(packet).op = packet.op /\ Upper(packet).num = packet.num
              /\ Upper(packet).str = packet.str /\ Upper(packet).mode = packet.mode
              /\ Upper(packet).options = UpperCase(packet.options)
            BY DEF Upper, Packet
        <3> QED BY <2>1, <2>2, <3>1, <3>2 DEF Reads
    <2>3. CASE packet.op \notin {"READ", "WRITE"}
        <3>1. packet \in Meaning
            BY <2>1, <2>3, MeaningOf
        <3> QED BY <2>1, <2>3, <3>1 DEF Reads
    <2> QED BY <2>2, <2>3
<1> QED BY <1>1, CodecInvariant, PTL

(* A datagram that is received whole is understood as what was sent, by    *)
(* the deserialiser of its kind and by no other; but an error code whose   *)
(* low byte has its sign bit set is read wrong.                            *)
THEOREM RoundTrips == Spec => []RoundTrip
<1>1. ASSUME CodecInv PROVE RoundTrip
    <2> SUFFICES ASSUME pc = "parsed", received = wire
                 PROVE  \/ parsed = Meaning
                        \/ /\ packet.op = "ERROR" /\ packet.num % Base >= Base \div 2
                           /\ {[p EXCEPT !.num = packet.num] : p \in parsed} = {packet}
        BY DEF RoundTrip
    <2>1. WireOf(packet, wire) /\ parsed = Deserialised(wire)
        BY <1>1 DEF CodecInv
    <2> DEFINE size == Len(wire)
    <2>2. size \in 1 .. Len(wire) /\ SubSeq(wire, 1, size) = wire
        <3>1. wire \in Seq(Bytes) /\ Len(wire) >= 2 /\ Len(wire) \in Nat
            BY <2>1 DEF WireOf
        <3> QED BY <3>1, SubSeqFull
    <2>3. packet.op \in {"READ", "WRITE", "DATA", "ACK", "ERROR", "OACK"}
        BY <2>1, Opcodes DEF WireOf
    <2>4. CASE packet.op \in {"READ", "WRITE"}
        <3>1. parsed = deserialise_rw_packet(wire)
            BY <2>1, <2>2, <2>4, ParsedKind
        <3>2. deserialise_rw_packet(wire) = IF packet.mode = "MAIL" THEN {} ELSE {Upper(packet)}
            BY <2>1, <2>2, <2>4, CutRequest
        <3> QED BY <2>1, <2>4, <3>1, <3>2, MeaningOf
    <2>5. CASE packet.op = "DATA"
        <3>1. parsed = deserialise_data_packet(wire)
            BY <2>1, <2>2, <2>5, ParsedKind
        <3>2. deserialise_data_packet(wire) = {packet}
            <4>1. deserialise_data_packet(SubSeq(wire, 1, Len(wire))) = {packet}
                BY <2>1, <2>2, <2>5, CutData
            <4> QED BY <2>2, <4>1
        <3> QED BY <2>1, <2>5, <3>1, <3>2, MeaningOf
    <2>6. CASE packet.op = "ACK"
        <3>1. parsed = deserialise_ack_packet(wire)
            BY <2>1, <2>2, <2>6, ParsedKind
        <3>2. deserialise_ack_packet(wire) = {packet}
            <4>1. deserialise_ack_packet(SubSeq(wire, 1, Len(wire))) = {packet}
                BY <2>1, <2>2, <2>6, CutAck
            <4> QED BY <2>2, <4>1
        <3> QED BY <2>1, <2>6, <3>1, <3>2, MeaningOf
    <2>7. CASE packet.op = "ERROR"
        <3> DEFINE k == SignExtendedNumber(wire)
                   q == Packet("ERROR", k, packet.str, "none", <<>>)
        <3>1. parsed = deserialise_error_packet(wire)
            BY <2>1, <2>2, <2>7, ParsedKind
        <3>2. deserialise_error_packet(wire) = {q}
            BY <2>1, <2>2, <2>7, CutError
        <3>3. packet = Packet("ERROR", packet.num, packet.str, "none", <<>>) /\ Len(wire) >= 4
            BY <2>1, <2>7 DEF WireOf, NumberWire
        <3>4. size \in 4 .. Len(wire)
            BY <2>2, <3>3
        <3>5. k = packet.num \/ packet.num % Base >= Base \div 2
            BY <2>1, <2>2, <2>7, <3>4, CutNumber
        <3>6. CASE k = packet.num
            BY <2>1, <2>7, <3>1, <3>2, <3>3, <3>6, MeaningOf
        <3>7. CASE packet.num % Base >= Base \div 2
            <4> HIDE DEF k
            <4>1. [q EXCEPT !.num = packet.num] = packet
                BY <3>3 DEF Packet
            <4> HIDE DEF q
            <4>2. {[p EXCEPT !.num = packet.num] : p \in parsed} = {packet}
                BY <3>1, <3>2, <4>1
            <4> QED BY <2>7, <3>7, <4>2
        <3> QED BY <3>5, <3>6, <3>7
    <2>8. CASE packet.op = "OACK"
        <3>1. parsed = deserialise_oack_packet(wire)
            BY <2>1, <2>2, <2>8, ParsedKind
        <3>2. deserialise_oack_packet(wire) = {packet}
            <4>1. deserialise_oack_packet(SubSeq(wire, 1, Len(wire))) = {packet}
                BY <2>1, <2>2, <2>8, CutOack
            <4> QED BY <2>2, <4>1
        <3> QED BY <2>1, <2>8, <3>1, <3>2, MeaningOf
    <2> QED BY <2>3, <2>4, <2>5, <2>6, <2>7, <2>8
<1> QED BY <1>1, CodecInvariant, PTL
=============================================================================
