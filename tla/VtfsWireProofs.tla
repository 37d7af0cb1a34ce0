---------------------------- MODULE VtfsWireProofs ----------------------------
(***************************************************************************)
(* Proofs about VtfsWire, for any bytes, buffer sizes, base of numbers and *)
(* length of files.                                                        *)
(*                                                                         *)
(* What a call returns depends on what its parser finds in a text that may *)
(* be cut anywhere, so nearly all of the proof is about beginnings of      *)
(* texts: a word is found in a beginning where it is in the whole text, or *)
(* not at all (FindBegun).  From there it goes the way of the code: the    *)
(* beginning of an answer gives the beginning of its body (PartOfAnswer),  *)
(* chunks included (UnchunkedBegins); the beginning of a body gives an     *)
(* error or what the whole gives (ReadOfPart, StatOfPart); and base64 is   *)
(* undone, for all of the text (DecodesWhole) and for the part of it that  *)
(* fits the buffer of a request (JavaDecodePrefix).  IInv puts the four    *)
(* steps of a call together.                                               *)
(***************************************************************************)
EXTENDS VtfsWire, SequenceTheorems, FiniteSetTheorems, WellFoundedInduction, TLAPS

LEMMA Constants ==
  /\ Bytes \subseteq 0 .. 255 /\ UrlSize \in Nat /\ UrlSize >= 4
  /\ ResponseSize \in Nat /\ ResponseSize >= 4
  /\ Radix \in Nat /\ Radix >= 2 /\ MaxLen \in Nat /\ MaxLen < Radix * Radix
BY WireAssumption

-----------------------------------------------------------------------------
(***************************************************************************)
(* Least and greatest numbers, and texts of which a part has come.         *)
(***************************************************************************)
LEMMA MinIs ==
  ASSUME NEW S \in SUBSET Int, NEW k \in S, \A j \in S : k <= j
  PROVE  Min(S) = k
<1>1. Min(S) \in S /\ \A j \in S : Min(S) <= j  BY DEF Min
<1>2. Min(S) <= k /\ k <= Min(S)  BY <1>1
<1>3. Min(S) \in Int /\ k \in Int  BY <1>1
<1> QED  BY <1>2, <1>3

LEMMA MaxIs ==
  ASSUME NEW S \in SUBSET Int, NEW k \in S, \A j \in S : k >= j
  PROVE  Max(S) = k
<1>1. Max(S) \in S /\ \A j \in S : Max(S) >= j  BY DEF Max
<1>2. Max(S) <= k /\ k <= Max(S)  BY <1>1
<1>3. Max(S) \in Int /\ k \in Int  BY <1>1
<1> QED  BY <1>2, <1>3

LEMMA MinOfTwo ==
  ASSUME NEW a \in Nat, NEW b \in Nat
  PROVE  Min({a, b}) = IF a <= b THEN a ELSE b
BY DEF Min

\* A nonempty set of numbers has a least one, and a greatest one if bounded.
LEMMA Least ==
  ASSUME NEW S \in SUBSET Nat, S # {}
  PROVE  \E k \in S : \A j \in S : k <= j
<1> DEFINE Less == OpToRel(<, Nat)
<1>1. IsWellFoundedOn(Less, Nat)
  BY NatLessThanWellFounded
<1>2. PICK k \in S : \A j \in S : ~(<<j, k>> \in Less)
  <2> HIDE DEF Less
  <2> QED  BY <1>1, WFMin
<1>3. ASSUME NEW j \in S PROVE k <= j
  <2>1. j \in Nat /\ k \in Nat  OBVIOUS
  <2>2. ~(j < k)  BY <1>2, <2>1 DEF OpToRel
  <2> QED  BY <2>1, <2>2
<1> QED  BY <1>3

LEMMA MaxFacts ==
  ASSUME NEW n \in Nat, NEW S \in SUBSET (0 .. n), S # {}
  PROVE  Max(S) \in S /\ \A j \in S : Max(S) >= j
<1> DEFINE D == {n - e : e \in S}
<1>0. \A e \in S : e \in Nat /\ n - e \in Nat  OBVIOUS
<1>1. D \subseteq Nat /\ D # {}  BY <1>0
<1>2. PICK k \in D : \A j \in D : k <= j
  <2> HIDE DEF D
  <2> QED  BY <1>1, Least
<1>3. PICK x \in S : k = n - x  OBVIOUS
<1>4. \A y \in S : x >= y
  <2> TAKE y \in S
  <2>1. n - x <= n - y  BY <1>2, <1>3
  <2> QED  BY <1>0, <2>1
<1> QED  BY <1>3, <1>4 DEF Max

\* x is what has come of s.
Begins(x, s) == Len(x) <= Len(s) /\ \A i \in 1 .. Len(x) : x[i] = s[i]

LEMMA PrefixBegins ==
  ASSUME NEW S, NEW s \in Seq(S), NEW n \in 0 .. Len(s)
  PROVE  /\ SubSeq(s, 1, n) \in Seq(S) /\ Len(SubSeq(s, 1, n)) = n
         /\ \A i \in 1 .. n : SubSeq(s, 1, n)[i] = s[i]
         /\ Begins(SubSeq(s, 1, n), s)
<1>1. n \in Nat /\ n <= Len(s)  OBVIOUS
<1>2. SubSeq(s, 1, n) \in Seq(S) /\ Len(SubSeq(s, 1, n)) = n
      /\ \A i \in 1 .. n : SubSeq(s, 1, n)[i] = s[i]
  BY <1>1
<1> QED  BY <1>1, <1>2 DEF Begins

LEMMA AfterFacts ==
  ASSUME NEW S, NEW s \in Seq(S), NEW k \in 0 .. Len(s)
  PROVE  /\ After(s, k) \in Seq(S) /\ Len(After(s, k)) = Len(s) - k
         /\ \A i \in 1 .. Len(s) - k : After(s, k)[i] = s[i + k]
BY DEF After

LEMMA Joined ==
  ASSUME NEW S, NEW s \in Seq(S), NEW t \in Seq(S)
  PROVE  /\ s \o t \in Seq(S) /\ Len(s \o t) = Len(s) + Len(t)
         /\ \A j \in 1 .. Len(s) : (s \o t)[j] = s[j]
         /\ \A j \in 1 .. Len(t) : (s \o t)[Len(s) + j] = t[j]
<1>1. PICK g \in Nat, h \in Nat : g = Len(s) /\ h = Len(t)  OBVIOUS
<1>2. \A j \in 1 .. h : g + j \in 1 .. g + h /\ g + j > g /\ g + j - g = j  OBVIOUS
<1>3. \A j \in 1 .. g : (s \o t)[j] = s[j]  BY <1>1
<1>4. \A j \in 1 .. h : (s \o t)[g + j] = t[j]  BY <1>1, <1>2
<1>5. s \o t \in Seq(S) /\ Len(s \o t) = g + h  BY <1>1
<1> QED  BY <1>1, <1>3, <1>4, <1>5

LEMMA AfterBegins ==
  ASSUME NEW S, NEW s \in Seq(S), NEW x \in Seq(S), Begins(x, s), NEW k \in 0 .. Len(x)
  PROVE  Begins(After(x, k), After(s, k))
<1>1. PICK h \in Nat : h = Len(x)  OBVIOUS
<1>2. PICK g \in Nat : g = Len(s)  OBVIOUS
<1>3. h <= g /\ \A i \in 1 .. h : x[i] = s[i]  BY <1>1, <1>2 DEF Begins
<1>4. k \in 0 .. g  BY <1>1, <1>3
<1>5. /\ Len(After(x, k)) = h - k /\ \A i \in 1 .. h - k : After(x, k)[i] = x[i + k]
      /\ Len(After(s, k)) = g - k /\ \A i \in 1 .. g - k : After(s, k)[i] = s[i + k]
  BY <1>1, <1>2, <1>4, AfterFacts
<1>6. ASSUME NEW i \in 1 .. h - k PROVE After(x, k)[i] = After(s, k)[i]
  <2>1. i + k \in 1 .. h /\ i \in 1 .. g - k  BY <1>1, <1>3
  <2> QED  BY <1>3, <1>5, <2>1
<1> QED  BY <1>3, <1>5, <1>6 DEF Begins

\* A word is found where it first stands, if as much has come.
LEMMA FindIs ==
  ASSUME NEW S, NEW x \in Seq(S), NEW w, NEW i \in 1 .. Len(x), x[i] = Word(w),
         \A j \in 1 .. Len(x) : j < i => x[j] # Word(w)
  PROVE  Find(x, w) = i /\ Has(x, w)
<1> DEFINE I == {j \in 1 .. Len(x) : x[j] = Word(w)}
<1>1. I \subseteq Int /\ i \in I /\ \A j \in I : i <= j  OBVIOUS
<1>2. Find(x, w) = IF I # {} THEN Min(I) ELSE 0  BY DEF Find, SelectInSeq
<1> HIDE DEF I
<1>3. Find(x, w) = i  BY <1>1, <1>2, MinIs
<1>4. i # 0  OBVIOUS
<1> QED  BY <1>3, <1>4 DEF Has

LEMMA FindNone ==
  ASSUME NEW x, NEW w, \A j \in 1 .. Len(x) : x[j] # Word(w)
  PROVE  Find(x, w) = 0 /\ ~Has(x, w)
<1>1. {j \in 1 .. Len(x) : x[j] = Word(w)} = {}  OBVIOUS
<1> QED  BY <1>1 DEF Find, Has, SelectInSeq

LEMMA FindBegun ==
  ASSUME NEW S, NEW s \in Seq(S), NEW x \in Seq(S), Begins(x, s), NEW w,
         NEW i \in 1 .. Len(s), s[i] = Word(w), \A j \in 1 .. Len(s) : j < i => s[j] # Word(w)
  PROVE  /\ Find(x, w) = IF i <= Len(x) THEN i ELSE 0
         /\ Has(x, w) <=> i <= Len(x)
<1>1. Len(x) \in Nat /\ Len(s) \in Nat /\ Len(x) <= Len(s) /\ \A j \in 1 .. Len(x) : x[j] = s[j]
  BY DEF Begins
<1>2. CASE i <= Len(x)
  <2>1. i \in 1 .. Len(x) /\ x[i] = Word(w)  BY <1>1, <1>2
  <2>2. \A j \in 1 .. Len(x) : j < i => x[j] # Word(w)  BY <1>1
  <2>3. Find(x, w) = i /\ Has(x, w)  BY <2>1, <2>2, FindIs
  <2> QED  BY <1>2, <2>3
<1>3. CASE ~(i <= Len(x))
  <2>1. \A j \in 1 .. Len(x) : x[j] # Word(w)  BY <1>1, <1>3
  <2>2. Find(x, w) = 0 /\ ~Has(x, w)  BY <2>1, FindNone
  <2> QED  BY <1>3, <2>2
<1> QED  BY <1>2, <1>3

-----------------------------------------------------------------------------
(***************************************************************************)
(* The request: a text is cut where the buffer has no room for more.       *)
(***************************************************************************)
Wides(text) == {i \in DOMAIN text : Wide(text[i])}

\* The width of a text is a number, and no less than its length.
LEMMA WidthNat ==
  ASSUME NEW S, NEW text \in Seq(S)
  PROVE  Width(text) \in Nat /\ Width(text) >= Len(text)
<1>1. IsFiniteSet(1 .. Len(text))  BY FS_Interval
<1>2. Wides(text) \subseteq 1 .. Len(text)  BY DEF Wides
<1>3. Cardinality(Wides(text)) \in Nat  BY <1>1, <1>2, FS_Subset, FS_CardinalityType
<1>4. Width(text) = Len(text) + 2 * Cardinality(Wides(text))  BY DEF Width, Wides
<1> QED  BY <1>3, <1>4

\* One more character takes one place or three.
LEMMA WidthStep ==
  ASSUME NEW S, NEW text \in Seq(S), NEW k \in 1 .. Len(text)
  PROVE  /\ Width(SubSeq(text, 1, k)) >= Width(SubSeq(text, 1, k - 1)) + 1
         /\ Width(SubSeq(text, 1, k)) <= Width(SubSeq(text, 1, k - 1)) + 3
<1>1. PICK a : a = SubSeq(text, 1, k - 1)  OBVIOUS
<1>2. PICK b : b = SubSeq(text, 1, k)  OBVIOUS
<1>3. k - 1 \in 0 .. Len(text) /\ k \in 0 .. Len(text) /\ k \in Nat  OBVIOUS
<1>4. a \in Seq(S) /\ Len(a) = k - 1 /\ \A i \in 1 .. k - 1 : a[i] = text[i]
  BY <1>1, <1>3, PrefixBegins
<1>5. b \in Seq(S) /\ Len(b) = k /\ \A i \in 1 .. k : b[i] = text[i]
  <2>1. k \in 0 .. Len(text)  BY <1>3
  <2> QED  BY <1>2, <2>1, PrefixBegins
<1>6. Wides(b) = Wides(a) \/ Wides(b) = Wides(a) \cup {k}
  <2>1. DOMAIN a = 1 .. k - 1 /\ DOMAIN b = 1 .. k  BY <1>4, <1>5
  <2>2. Wides(b) \cap 1 .. k - 1 = Wides(a)
    <3>1. 1 .. k - 1 \subseteq 1 .. k  BY <1>3
    <3>2. \A i \in 1 .. k - 1 : b[i] = a[i]  BY <1>4, <1>5, <3>1, Zenon
    <3> QED  BY <2>1, <3>1, <3>2 DEF Wides
  <2>3. 1 .. k = 1 .. k - 1 \cup {k}  BY <1>3
  <2>4. Wides(b) \subseteq 1 .. k - 1 \cup {k}  BY <2>1, <2>3, Zenon DEF Wides
  <2> QED  BY <2>2, <2>4
<1>7. k \notin Wides(a) /\ Wides(a) \subseteq 1 .. k - 1
  <2>1. DOMAIN a = 1 .. k - 1  BY <1>4
  <2>2. Wides(a) \subseteq 1 .. k - 1  BY <2>1 DEF Wides
  <2> QED  BY <1>3, <2>2
<1>8. IsFiniteSet(Wides(a)) /\ Cardinality(Wides(a)) \in Nat
  <2>1. IsFiniteSet(1 .. k - 1)  BY <1>3, FS_Interval
  <2>2. IsFiniteSet(Wides(a))  BY <1>7, <2>1, FS_Subset
  <2> QED  BY <2>2, FS_CardinalityType
<1>9. PICK c \in Nat : c = Cardinality(Wides(a))  BY <1>8
<1>10. Cardinality(Wides(b)) = c \/ Cardinality(Wides(b)) = c + 1
  BY <1>6, <1>7, <1>8, <1>9, FS_AddElement
<1>11. Width(a) = k - 1 + 2 * c /\ Width(b) = k + 2 * Cardinality(Wides(b))
  BY <1>4, <1>5, <1>9 DEF Width, Wides
<1> QED  BY <1>1, <1>2, <1>3, <1>9, <1>10, <1>11

\* A beginning is no wider than the whole, and narrower if it is shorter.
LEMMA WidthMono ==
  ASSUME NEW S, NEW text \in Seq(S), NEW k \in 0 .. Len(text), k < Len(text)
  PROVE  Width(SubSeq(text, 1, k)) + 1 <= Width(text)
<1>1. PICK W : W = [i \in 0 .. Len(text) |-> Width(SubSeq(text, 1, i))]  OBVIOUS
<1>2. \A i \in 0 .. Len(text) : W[i] \in Nat
  BY <1>1, PrefixBegins, WidthNat
<1>3. \A i \in 1 .. Len(text) : W[i] >= W[i - 1] + 1
  <2> TAKE i \in 1 .. Len(text)
  <2>1. i \in 0 .. Len(text) /\ i - 1 \in 0 .. Len(text)  OBVIOUS
  <2> QED  BY <1>1, <2>1, WidthStep
<1>4. W[Len(text)] = Width(text)
  <2>1. SubSeq(text, 1, Len(text)) = text  OBVIOUS
  <2>2. Len(text) \in 0 .. Len(text)  OBVIOUS
  <2> QED  BY <1>1, <2>1, <2>2
<1>5. PICK g \in Nat : g = Len(text)  OBVIOUS
\* The first place after k that is not wider than k would have one before it.
<1>6. \A i \in 0 .. g : k < i => W[k] + 1 <= W[i]
  <2> DEFINE B == {i \in 0 .. g : k < i /\ ~(W[k] + 1 <= W[i])}
  <2>1. SUFFICES ASSUME B # {} PROVE FALSE  OBVIOUS
  <2>2. B \subseteq Nat  OBVIOUS
  <2>3. PICK i \in B : \A j \in B : i <= j
    <3> HIDE DEF B
    <3> QED  BY <2>1, <2>2, Least
  <2>4. i \in 0 .. g /\ k < i /\ ~(W[k] + 1 <= W[i]) /\ i \in 1 .. g  OBVIOUS
  <2>5. W[i] >= W[i - 1] + 1 /\ W[i] \in Nat /\ W[i - 1] \in Nat /\ W[k] \in Nat
    BY <1>2, <1>3, <1>5, <2>4
  <2>6. CASE i - 1 = k  BY <2>4, <2>5, <2>6
  <2>7. CASE i - 1 # k
    <3>1. i - 1 \in 0 .. g /\ k < i - 1  BY <2>4, <2>7
    <3>2. i - 1 \notin B  BY <2>3, <2>4
    <3>3. W[k] + 1 <= W[i - 1]  BY <3>1, <3>2
    <3> QED  BY <2>4, <2>5, <3>3
  <2> QED  BY <2>6, <2>7
<1>7. W[k] + 1 <= W[g]  BY <1>5, <1>6
<1> QED  BY <1>1, <1>4, <1>5, <1>7

\* What url_encode writes is a beginning of the text that fits the buffer with
\* its terminator, and the whole text if that leaves room for one character.
LEMMA UrlEncodeFacts ==
  ASSUME NEW S, NEW text \in Seq(S)
  PROVE  \E k \in 0 .. Len(text) :
           /\ url_encode(text) = SubSeq(text, 1, k)
           /\ Width(url_encode(text)) + 1 <= UrlSize
           /\ Width(text) <= UrlSize - 3 => k = Len(text)
<1>1. PICK g \in Nat : g = Len(text)  OBVIOUS
<1>2. PICK R : R = {0} \cup {i \in DOMAIN text : HasRoom(SubSeq(text, 1, i - 1))}  OBVIOUS
<1>3. R \subseteq 0 .. g /\ R # {} /\ DOMAIN text = 1 .. g  BY <1>1, <1>2
<1>4. PICK k : k = Max(R)  OBVIOUS
<1>5. k \in R /\ \A j \in R : k >= j  BY <1>3, <1>4, MaxFacts
<1>6. k \in 0 .. g /\ k \in Nat  BY <1>3, <1>5
<1>7. url_encode(text) = SubSeq(text, 1, k)  BY <1>2, <1>4 DEF url_encode
<1>8. SubSeq(text, 1, k) \in Seq(S)  BY <1>1, <1>6, PrefixBegins
<1>9. PICK w \in Nat : w = Width(SubSeq(text, 1, k))  BY <1>8, WidthNat
<1>10. w + 1 <= UrlSize
  <2>1. CASE k = 0
    <3>1. SubSeq(text, 1, 0) = <<>>  OBVIOUS
    <3>2. Wides(<<>>) = {}
      <4>1. DOMAIN <<>> = {}  OBVIOUS
      <4> QED  BY <4>1 DEF Wides
    <3>3. Width(<<>>) = 0  BY <3>2, FS_EmptySet DEF Width, Wides
    <3>4. w = 0  BY <1>9, <2>1, <3>1, <3>3
    <3> QED  BY <3>4, Constants
  <2>2. CASE k # 0
    <3>1. k \in 1 .. Len(text) /\ k - 1 \in 0 .. Len(text)  BY <1>1, <1>6, <2>2
    <3>2. Width(SubSeq(text, 1, k - 1)) < UrlSize - 3  BY <1>2, <1>5, <2>2 DEF HasRoom
    <3>3. SubSeq(text, 1, k - 1) \in Seq(S)  BY <3>1, PrefixBegins
    <3>4. PICK v \in Nat : v = Width(SubSeq(text, 1, k - 1))  BY <3>3, WidthNat
    <3>5. w <= v + 3  BY <1>9, <3>1, <3>4, WidthStep
    <3> QED  BY <3>2, <3>4, <3>5, Constants
  <2> QED  BY <2>1, <2>2
<1>11. ASSUME Width(text) <= UrlSize - 3 PROVE k = g
  <2>1. SUFFICES ASSUME g # 0 PROVE k = g  BY <1>6
  <2>2. g - 1 \in 0 .. Len(text) /\ g - 1 < Len(text)  BY <1>1, <2>1
  <2>3. Width(SubSeq(text, 1, g - 1)) + 1 <= Width(text)  BY <2>2, WidthMono
  <2>4. SubSeq(text, 1, g - 1) \in Seq(S)  BY <2>2, PrefixBegins
  <2>5. Width(SubSeq(text, 1, g - 1)) \in Nat /\ Width(text) \in Nat  BY <2>4, WidthNat
  <2>6. HasRoom(SubSeq(text, 1, g - 1))  BY <1>11, <2>3, <2>5, Constants DEF HasRoom
  <2>7. g \in R  BY <1>2, <1>3, <2>1, <2>6
  <2> QED  BY <1>5, <1>6, <2>7
<1> QED  BY <1>1, <1>6, <1>7, <1>9, <1>10, <1>11

-----------------------------------------------------------------------------
(***************************************************************************)
(* Base64: bytes in units of three, characters in units of four.           *)
(***************************************************************************)
Octets == 0 .. 255

Units(bytes) == (Len(bytes) + 2) \div 3
Missing(bytes) == 3 * Units(bytes) - Len(bytes)

LEMMA UnitsFacts ==
  ASSUME NEW bytes \in Seq(Octets)
  PROVE  /\ Units(bytes) \in Nat /\ Missing(bytes) \in 0 .. 2
         /\ Len(bytes) = 3 * Units(bytes) - Missing(bytes)
         /\ Missing(bytes) # 0 => Units(bytes) # 0
<1>1. PICK g \in Nat : g = Len(bytes)  OBVIOUS
<1>2. (g + 2) \div 3 \in Nat /\ 3 * ((g + 2) \div 3) - g \in 0 .. 2  BY <1>1
<1>3. Units(bytes) = (g + 2) \div 3  BY <1>1 DEF Units
<1> QED  BY <1>1, <1>2, <1>3 DEF Missing

\* The two bytes that share a character give back both.
LEMMA SextetsGiveBytes ==
  ASSUME NEW a \in Octets, NEW b \in Octets, NEW c \in Octets
  PROVE  /\ ((a \div 4) * 4 + ((a % 4) * 16 + b \div 16) \div 16) % 256 = a
         /\ (((a % 4) * 16 + b \div 16) * 16 + ((b % 16) * 4 + c \div 64) \div 4) % 256 = b
         /\ (((b % 16) * 4 + c \div 64) * 64 + (c % 64)) % 256 = c
<1> USE DEF Octets
<1>1. PICK a1 \in 0 .. 63, a2 \in 0 .. 3 : a = 4 * a1 + a2 /\ a \div 4 = a1 /\ a % 4 = a2
  OBVIOUS
<1>2. PICK b1 \in 0 .. 15, b2 \in 0 .. 15 : b = 16 * b1 + b2 /\ b \div 16 = b1 /\ b % 16 = b2
  OBVIOUS
<1>3. PICK c1 \in 0 .. 3, c2 \in 0 .. 63 : c = 64 * c1 + c2 /\ c \div 64 = c1 /\ c % 64 = c2
  OBVIOUS
<1>4. (a2 * 16 + b1) \div 16 = a2 /\ (b2 * 4 + c1) \div 4 = b2  OBVIOUS
<1>5. (a1 * 4 + a2) % 256 = a  BY <1>1
<1>6. ((a2 * 16 + b1) * 16 + b2) % 256 = b  BY <1>2
<1>7. ((b2 * 4 + c1) * 64 + c2) % 256 = c  BY <1>3
<1>8. ((a \div 4) * 4 + ((a % 4) * 16 + b \div 16) \div 16) % 256 = a
  <2>1. ((a % 4) * 16 + b \div 16) \div 16 = a2  BY <1>1, <1>2, <1>4, Zenon
  <2> QED  BY <1>1, <1>5, <2>1, Zenon
<1>9. (((a % 4) * 16 + b \div 16) * 16 + ((b % 16) * 4 + c \div 64) \div 4) % 256 = b
  <2>1. ((b % 16) * 4 + c \div 64) \div 4 = b2  BY <1>2, <1>3, <1>4, Zenon
  <2> QED  BY <1>1, <1>2, <1>6, <2>1, Zenon
<1>10. (((b % 16) * 4 + c \div 64) * 64 + (c % 64)) % 256 = c
  <2>1. b % 16 = b2 /\ c \div 64 = c1 /\ c % 64 = c2  BY <1>2, <1>3
  <2> QED  BY <1>7, <2>1
<1> QED  BY <1>8, <1>9, <1>10

LEMMA ByteAtOctet ==
  ASSUME NEW bytes \in Seq(Octets), NEW i \in Nat, i >= 1
  PROVE  ByteAt(bytes, i) \in Octets
<1>1. 0 \in Octets  BY DEF Octets
<1>2. i <= Len(bytes) => bytes[i] \in Octets  OBVIOUS
<1> QED  BY <1>1, <1>2 DEF ByteAt

\* The four characters of unit q.
LEMMA EncodedUnit ==
  ASSUME NEW bytes \in Seq(Octets), NEW q \in Nat, q < Units(bytes),
         NEW a, a = ByteAt(bytes, 3 * q + 1), NEW b, b = ByteAt(bytes, 3 * q + 2),
         NEW c, c = ByteAt(bytes, 3 * q + 3)
  PROVE  /\ bytes_to_base64(bytes)[4 * q + 1] = Sextet(a \div 4)
         /\ bytes_to_base64(bytes)[4 * q + 2] = Sextet((a % 4) * 16 + b \div 16)
         /\ bytes_to_base64(bytes)[4 * q + 3] =
              IF 3 * q + 1 < Len(bytes) THEN Sextet((b % 16) * 4 + c \div 64) ELSE Pad
         /\ bytes_to_base64(bytes)[4 * q + 4] =
              IF 3 * q + 2 < Len(bytes) THEN Sextet(c % 64) ELSE Pad
<1> DEFINE D == 1 .. 4 * ((Len(bytes) + 2) \div 3)
<1>1. Units(bytes) = (Len(bytes) + 2) \div 3 /\ Units(bytes) \in Nat
  BY UnitsFacts DEF Units
<1>2. 4 * q + 1 \in D /\ 4 * q + 2 \in D /\ 4 * q + 3 \in D /\ 4 * q + 4 \in D  BY <1>1
<1>3. /\ (4 * q + 1 - 1) \div 4 = q /\ (4 * q + 2 - 1) \div 4 = q
      /\ (4 * q + 3 - 1) \div 4 = q /\ (4 * q + 4 - 1) \div 4 = q
  OBVIOUS
<1>4. (4 * q + 1) % 4 = 1 /\ (4 * q + 2) % 4 = 2 /\ (4 * q + 3) % 4 = 3 /\ (4 * q + 4) % 4 = 0
  OBVIOUS
<1>5. PICK i : i = 3 * q + 1  OBVIOUS
<1>6. ByteAt(bytes, i) = a /\ ByteAt(bytes, i + 1) = b /\ ByteAt(bytes, i + 2) = c
  <2>1. i + 1 = 3 * q + 2 /\ i + 2 = 3 * q + 3  BY <1>5
  <2> QED  BY <1>5, <2>1
<1> HIDE DEF D
<1>7. ASSUME NEW j \in D, (j - 1) \div 4 = q
      PROVE  bytes_to_base64(bytes)[j] =
               CASE j % 4 = 1 -> Sextet(a \div 4)
                 [] j % 4 = 2 -> Sextet((a % 4) * 16 + b \div 16)
                 [] j % 4 = 3 -> IF i < Len(bytes) THEN Sextet((b % 16) * 4 + c \div 64) ELSE Pad
                 [] OTHER     -> IF i + 1 < Len(bytes) THEN Sextet(c % 64) ELSE Pad
  <2>1. 3 * ((j - 1) \div 4) + 1 = i  BY <1>5, <1>7
  <2> QED  BY <1>6, <2>1, Zenon DEF bytes_to_base64, D
<1> DEFINE C1 == Sextet(a \div 4)
           C2 == Sextet((a % 4) * 16 + b \div 16)
           C3 == IF i < Len(bytes) THEN Sextet((b % 16) * 4 + c \div 64) ELSE Pad
           C4 == IF i + 1 < Len(bytes) THEN Sextet(c % 64) ELSE Pad
<1>12. ASSUME NEW j \in D, (j - 1) \div 4 = q
       PROVE  bytes_to_base64(bytes)[j] =
                CASE j % 4 = 1 -> C1 [] j % 4 = 2 -> C2 [] j % 4 = 3 -> C3 [] OTHER -> C4
  BY <1>7, <1>12, Zenon
<1>13. i + 1 = 3 * q + 2  BY <1>5
<1> HIDE DEF C1, C2, C3, C4
<1>8. bytes_to_base64(bytes)[4 * q + 1] = C1
  <2>1. PICK j \in D : j = 4 * q + 1 /\ (j - 1) \div 4 = q /\ j % 4 = 1  BY <1>2, <1>3, <1>4
  <2>2. bytes_to_base64(bytes)[j] = C1  BY <1>12, <2>1
  <2> QED  BY <2>1, <2>2
<1>9. bytes_to_base64(bytes)[4 * q + 2] = C2
  <2>1. PICK j \in D : j = 4 * q + 2 /\ (j - 1) \div 4 = q /\ j % 4 = 2  BY <1>2, <1>3, <1>4
  <2>2. bytes_to_base64(bytes)[j] = C2  BY <1>12, <2>1
  <2> QED  BY <2>1, <2>2
<1>10. bytes_to_base64(bytes)[4 * q + 3] = C3
  <2>1. PICK j \in D : j = 4 * q + 3 /\ (j - 1) \div 4 = q /\ j % 4 = 3  BY <1>2, <1>3, <1>4
  <2>2. bytes_to_base64(bytes)[j] = C3  BY <1>12, <2>1
  <2> QED  BY <2>1, <2>2
<1>11. bytes_to_base64(bytes)[4 * q + 4] = C4
  <2>1. PICK j \in D : j = 4 * q + 4 /\ (j - 1) \div 4 = q /\ j % 4 = 0  BY <1>2, <1>3, <1>4
  <2>2. bytes_to_base64(bytes)[j] = C4  BY <1>12, <2>1
  <2> QED  BY <2>1, <2>2
<1> QED  BY <1>5, <1>8, <1>9, <1>10, <1>11, <1>13, Zenon DEF C1, C2, C3, C4

\* Every place is in a unit.
LEMMA PlaceInUnit ==
  ASSUME NEW bytes \in Seq(Octets), NEW j \in 1 .. 4 * Units(bytes)
  PROVE  \E q \in Nat : q < Units(bytes) /\ j \in {4 * q + 1, 4 * q + 2, 4 * q + 3, 4 * q + 4}
<1>1. PICK u \in Nat : u = Units(bytes)  BY UnitsFacts
<1>2. j \in 1 .. 4 * u  BY <1>1
<1>3. (j - 1) \div 4 \in Nat /\ (j - 1) \div 4 < u  BY <1>2
<1>4. j - 4 * ((j - 1) \div 4) \in 1 .. 4  BY <1>2
<1> QED  BY <1>1, <1>2, <1>3, <1>4

LEMMA SextetIsNoPad ==
  ASSUME NEW n
  PROVE  Sextet(n) # Pad /\ Sextet(n)[2] = n /\ Pad[2] = 0
BY DEF Sextet, Pad, Word

\* The text is of whole units, and its last characters are padding.
LEMMA EncodedShape ==
  ASSUME NEW bytes \in Seq(Octets)
  PROVE  /\ bytes_to_base64(bytes) \in Seq({Sextet(n) : n \in Nat} \cup {Pad})
         /\ Len(bytes_to_base64(bytes)) = 4 * Units(bytes)
         /\ \A j \in 1 .. 4 * Units(bytes) :
              bytes_to_base64(bytes)[j] = Pad <=> j > 4 * Units(bytes) - Missing(bytes)
<1>1. PICK u \in Nat : u = Units(bytes)  BY UnitsFacts
<1>2. PICK p \in 0 .. 2 : p = Missing(bytes)  BY UnitsFacts
<1>3. Len(bytes) = 3 * u - p  BY <1>1, <1>2, UnitsFacts
<1>4. PICK t : t = bytes_to_base64(bytes)  OBVIOUS
<1>5. ASSUME NEW j \in 1 .. 4 * u
      PROVE  t[j] \in {Sextet(n) : n \in Nat} \cup {Pad} /\ (t[j] = Pad <=> j > 4 * u - p)
  <2>1. PICK q \in Nat : q < u /\ j \in {4 * q + 1, 4 * q + 2, 4 * q + 3, 4 * q + 4}
    BY <1>1, PlaceInUnit
  <2>2. PICK a \in Octets : a = ByteAt(bytes, 3 * q + 1)  BY ByteAtOctet
  <2>3. PICK b \in Octets : b = ByteAt(bytes, 3 * q + 2)  BY ByteAtOctet
  <2>4. PICK c \in Octets : c = ByteAt(bytes, 3 * q + 3)  BY ByteAtOctet
  <2>5. /\ t[4 * q + 1] = Sextet(a \div 4)
        /\ t[4 * q + 2] = Sextet((a % 4) * 16 + b \div 16)
        /\ t[4 * q + 3] = IF 3 * q + 1 < Len(bytes) THEN Sextet((b % 16) * 4 + c \div 64) ELSE Pad
        /\ t[4 * q + 4] = IF 3 * q + 2 < Len(bytes) THEN Sextet(c % 64) ELSE Pad
    BY <1>1, <1>4, <2>1, <2>2, <2>3, <2>4, EncodedUnit
  <2>6. /\ a \div 4 \in Nat /\ (a % 4) * 16 + b \div 16 \in Nat
        /\ (b % 16) * 4 + c \div 64 \in Nat /\ c % 64 \in Nat
    BY DEF Octets
  <2>7. CASE j = 4 * q + 1
    <3>1. t[j] = Sextet(a \div 4)  BY <2>5, <2>7
    <3>2. ~(j > 4 * u - p)  BY <2>1, <2>7
    <3> QED  BY <2>6, <3>1, <3>2, SextetIsNoPad
  <2>8. CASE j = 4 * q + 2
    <3>1. t[j] = Sextet((a % 4) * 16 + b \div 16)  BY <2>5, <2>8
    <3>2. ~(j > 4 * u - p)  BY <2>1, <2>8
    <3> QED  BY <2>6, <3>1, <3>2, SextetIsNoPad
  <2>9. CASE j = 4 * q + 3
    <3>1. t[j] = IF 3 * q + 1 < Len(bytes) THEN Sextet((b % 16) * 4 + c \div 64) ELSE Pad
      BY <2>5, <2>9
    <3>2. j > 4 * u - p <=> ~(3 * q + 1 < Len(bytes))  BY <1>3, <2>1, <2>9
    <3> QED  BY <2>6, <3>1, <3>2, SextetIsNoPad
  <2>10. CASE j = 4 * q + 4
    <3>1. t[j] = IF 3 * q + 2 < Len(bytes) THEN Sextet(c % 64) ELSE Pad  BY <2>5, <2>10
    <3>2. j > 4 * u - p <=> ~(3 * q + 2 < Len(bytes))  BY <1>3, <2>1, <2>10
    <3> QED  BY <2>6, <3>1, <3>2, SextetIsNoPad
  <2> QED  BY <2>1, <2>7, <2>8, <2>9, <2>10
<1>6. DOMAIN t = 1 .. 4 * u /\ t = [j \in 1 .. 4 * u |-> t[j]]
  BY <1>1, <1>4 DEF bytes_to_base64, Units
<1>7. t \in Seq({Sextet(n) : n \in Nat} \cup {Pad}) /\ Len(t) = 4 * u
  <2>1. PICK T : T = {Sextet(n) : n \in Nat} \cup {Pad}  OBVIOUS
  <2>2. \A j \in 1 .. 4 * u : t[j] \in T  BY <1>5, <2>1
  <2>3. 4 * u \in Nat  OBVIOUS
  <2>4. t \in Seq(T) /\ Len(t) = 4 * u  BY <1>6, <2>2, <2>3
  <2> QED  BY <2>1, <2>4
<1> QED  BY <1>1, <1>2, <1>4, <1>5, <1>7

\* How much padding has come with the first k characters.
LEMMA PadsOfPrefix ==
  ASSUME NEW bytes \in Seq(Octets), NEW u, u = Units(bytes), NEW p, p = Missing(bytes),
         NEW k \in 0 .. 4 * u
  PROVE  Pads(SubSeq(bytes_to_base64(bytes), 1, k)) =
           IF k > 4 * u - p THEN k - (4 * u - p) ELSE 0
<1>1. u \in Nat /\ p \in 0 .. 2 /\ (p # 0 => u # 0)  BY UnitsFacts
<1>2. PICK t : t = bytes_to_base64(bytes)  OBVIOUS
<1>3. PICK T : T = {Sextet(n) : n \in Nat} \cup {Pad}  OBVIOUS
<1>4. t \in Seq(T) /\ Len(t) = 4 * u /\ \A j \in 1 .. 4 * u : t[j] = Pad <=> j > 4 * u - p
  BY <1>2, <1>3, EncodedShape
<1>5. PICK s : s = SubSeq(t, 1, k)  OBVIOUS
<1>6. s \in Seq(T) /\ Len(s) = k /\ \A i \in 1 .. k : s[i] = t[i]
  BY <1>4, <1>5, PrefixBegins
<1>7. DOMAIN s = 1 .. k  BY <1>6
<1>8. {i \in DOMAIN s : s[i] = Pad} = (4 * u - p + 1) .. k
  <2>1. ASSUME NEW i, i \in DOMAIN s, s[i] = Pad PROVE i \in (4 * u - p + 1) .. k
    BY <1>1, <1>4, <1>6, <1>7, <2>1
  <2>2. ASSUME NEW i, i \in (4 * u - p + 1) .. k PROVE i \in DOMAIN s /\ s[i] = Pad
    BY <1>1, <1>4, <1>6, <1>7, <2>2
  <2> QED  BY <2>1, <2>2, Zenon
<1>9. PICK l \in Int : l = 4 * u - p + 1  BY <1>1
<1>10. PICK h \in Int : h = k  BY <1>1
<1>11. Cardinality(l .. h) = IF l > h THEN 0 ELSE h - l + 1  BY FS_Interval
<1>12. Pads(s) = Cardinality(l .. h)  BY <1>8, <1>9, <1>10 DEF Pads
<1>13. (IF l > h THEN 0 ELSE h - l + 1) = IF k > 4 * u - p THEN k - (4 * u - p) ELSE 0
  BY <1>1, <1>9, <1>10
<1> QED  BY <1>2, <1>5, <1>11, <1>12, <1>13

\* Character k of unit q in a text of which a part has come.
LEMMA CharacterCome ==
  ASSUME NEW T, NEW t \in Seq(T), NEW k \in 0 .. Len(t), NEW j \in Nat, j >= 1, j <= k,
         NEW n, t[j] = Sextet(n)
  PROVE  (IF j <= Len(SubSeq(t, 1, k)) THEN SubSeq(t, 1, k)[j][2] ELSE 0) = n
<1>1. Len(SubSeq(t, 1, k)) = k /\ SubSeq(t, 1, k)[j] = t[j]  BY PrefixBegins
<1>2. t[j][2] = n  BY SextetIsNoPad
<1> QED  BY <1>1, <1>2

\* Byte i is what its characters are decoded to, if they have come.
LEMMA ByteDecoded ==
  ASSUME NEW bytes \in Seq(Octets), NEW k \in 0 .. 4 * Units(bytes),
         NEW i \in 1 .. Len(bytes), NEW n \in Nat, i <= n,
         4 * ((i - 1) \div 3) + ((i - 1) % 3) + 2 <= k
  PROVE  Decoded(SubSeq(bytes_to_base64(bytes), 1, k), n)[i] = bytes[i]
<1>1. PICK u \in Nat : u = Units(bytes)  BY UnitsFacts
<1>2. PICK g \in Nat : g = Len(bytes)  OBVIOUS
<1>3. g <= 3 * u  BY <1>1, <1>2, UnitsFacts
<1>4. PICK t : t = bytes_to_base64(bytes)  OBVIOUS
<1>5. PICK T : T = {Sextet(v) : v \in Nat} \cup {Pad}  OBVIOUS
<1>6. t \in Seq(T) /\ Len(t) = 4 * u  BY <1>1, <1>4, <1>5, EncodedShape
<1>7. PICK q \in Nat : q = (i - 1) \div 3  OBVIOUS
<1>8. q < u /\ (i = 3 * q + 1 \/ i = 3 * q + 2 \/ i = 3 * q + 3)  BY <1>2, <1>3, <1>7
<1>9. PICK a \in Octets : a = ByteAt(bytes, 3 * q + 1)  BY ByteAtOctet
<1>10. PICK b \in Octets : b = ByteAt(bytes, 3 * q + 2)  BY ByteAtOctet
<1>11. PICK c \in Octets : c = ByteAt(bytes, 3 * q + 3)  BY ByteAtOctet
<1>12. /\ t[4 * q + 1] = Sextet(a \div 4)
       /\ t[4 * q + 2] = Sextet((a % 4) * 16 + b \div 16)
       /\ t[4 * q + 3] = IF 3 * q + 1 < g THEN Sextet((b % 16) * 4 + c \div 64) ELSE Pad
       /\ t[4 * q + 4] = IF 3 * q + 2 < g THEN Sextet(c % 64) ELSE Pad
  BY <1>1, <1>2, <1>4, <1>8, <1>9, <1>10, <1>11, EncodedUnit
<1>13. PICK s : s = SubSeq(t, 1, k)  OBVIOUS
<1> DEFINE S(v) == IF 4 * q + v <= Len(s) THEN s[4 * q + v][2] ELSE 0
<1>14. Decoded(s, n)[i] = CASE i % 3 = 1 -> (S(1) * 4 + S(2) \div 16) % 256
                            [] i % 3 = 2 -> (S(2) * 16 + S(3) \div 4) % 256
                            [] OTHER     -> (S(3) * 64 + S(4)) % 256
  <2>1. i \in 1 .. n  OBVIOUS
  <2> QED  BY <1>7, <2>1, ZenonT(40) DEF Decoded
<1>15. ASSUME NEW v \in 1 .. 4, NEW w, 4 * q + v <= k, t[4 * q + v] = Sextet(w)
       PROVE  S(v) = w
  <2>1. k \in 0 .. Len(t)  BY <1>1, <1>6
  <2>2. PICK j \in Nat : j = 4 * q + v  OBVIOUS
  <2>3. j >= 1 /\ j <= k  BY <1>15, <2>2
  <2> QED  BY <1>6, <1>13, <1>15, <2>1, <2>2, <2>3, CharacterCome
<1> HIDE DEF S
<1>16. CASE i = 3 * q + 1
  <2>1. i % 3 = 1 /\ 4 * q + 2 <= k  BY <1>7, <1>16
  <2>2. S(1) = a \div 4 /\ S(2) = (a % 4) * 16 + b \div 16  BY <1>12, <1>15, <2>1
  <2>3. Decoded(s, n)[i] = (S(1) * 4 + S(2) \div 16) % 256  BY <1>14, <2>1
  <2>4. Decoded(s, n)[i] = a  BY <2>2, <2>3, SextetsGiveBytes
  <2>5. a = bytes[i]  BY <1>9, <1>16 DEF ByteAt
  <2> QED  BY <1>4, <1>13, <2>4, <2>5
<1>17. CASE i = 3 * q + 2
  <2>1. i % 3 = 2 /\ 4 * q + 3 <= k /\ 3 * q + 1 < g  BY <1>2, <1>7, <1>17
  <2>2. S(2) = (a % 4) * 16 + b \div 16 /\ S(3) = (b % 16) * 4 + c \div 64
    BY <1>12, <1>15, <2>1
  <2>3. Decoded(s, n)[i] = (S(2) * 16 + S(3) \div 4) % 256  BY <1>14, <2>1
  <2>4. Decoded(s, n)[i] = b  BY <2>2, <2>3, SextetsGiveBytes
  <2>5. b = bytes[i]  BY <1>10, <1>17 DEF ByteAt
  <2> QED  BY <1>4, <1>13, <2>4, <2>5
<1>18. CASE i = 3 * q + 3
  <2>1. i % 3 = 0 /\ 4 * q + 4 <= k /\ 3 * q + 2 < g /\ 3 * q + 1 < g  BY <1>2, <1>7, <1>18
  <2>6. t[4 * q + 3] = Sextet((b % 16) * 4 + c \div 64) /\ t[4 * q + 4] = Sextet(c % 64)
    BY <1>12, <2>1
  <2>7. 4 * q + 3 <= k /\ 3 \in 1 .. 4 /\ 4 \in 1 .. 4  BY <2>1
  <2>8. S(3) = (b % 16) * 4 + c \div 64  BY <1>15, <2>6, <2>7
  <2>9. S(4) = c % 64  BY <1>15, <2>1, <2>6, <2>7
  <2>2. S(3) = (b % 16) * 4 + c \div 64 /\ S(4) = c % 64  BY <2>8, <2>9
  <2>10. ~(i % 3 = 1) /\ ~(i % 3 = 2)  BY <2>1
  <2>3. Decoded(s, n)[i] = (S(3) * 64 + S(4)) % 256  BY <1>14, <2>10, Zenon
  <2>4. Decoded(s, n)[i] = c  BY <2>2, <2>3, SextetsGiveBytes
  <2>5. c = bytes[i]  BY <1>11, <1>18 DEF ByteAt
  <2> QED  BY <1>4, <1>13, <2>4, <2>5
<1> QED  BY <1>8, <1>16, <1>17, <1>18

\* The bytes whose characters have come are those of the file.
LEMMA DecodesPrefix ==
  ASSUME NEW bytes \in Seq(Octets), NEW k \in 0 .. 4 * Units(bytes),
         NEW n \in 0 .. Len(bytes),
         \A i \in 1 .. n : 4 * ((i - 1) \div 3) + ((i - 1) % 3) + 2 <= k
  PROVE  Decoded(SubSeq(bytes_to_base64(bytes), 1, k), n) = SubSeq(bytes, 1, n)
<1>1. PICK s : s = SubSeq(bytes_to_base64(bytes), 1, k)  OBVIOUS
<1>2. PICK d : d = Decoded(s, n)  OBVIOUS
<1>3. d = [i \in 1 .. n |-> d[i]]  BY <1>2 DEF Decoded
<1>4. \A i \in 1 .. n : d[i] = bytes[i]
  <2> TAKE i \in 1 .. n
  <2>1. i \in 1 .. Len(bytes) /\ n \in Nat /\ i <= n  OBVIOUS
  <2> QED  BY <1>1, <1>2, <2>1, ByteDecoded
<1>5. d = [i \in 1 .. n |-> bytes[i]]  BY <1>3, <1>4, Zenon
<1>6. PICK e : e = SubSeq(bytes, 1, n)  OBVIOUS
<1>7. e \in Seq(Octets) /\ Len(e) = n /\ \A i \in 1 .. n : e[i] = bytes[i]
  BY <1>6, PrefixBegins
<1>8. e = [i \in 1 .. n |-> bytes[i]]  BY <1>7
<1> QED  BY <1>1, <1>2, <1>5, <1>6, <1>8

\* base64_decode gives back what was encoded.
LEMMA DecodesWhole ==
  ASSUME NEW bytes \in Seq(Octets)
  PROVE  base64_decode(bytes_to_base64(bytes)) = Value(bytes)
<1>1. PICK u \in Nat : u = Units(bytes)  BY UnitsFacts
<1>2. PICK p \in 0 .. 2 : p = Missing(bytes)  BY UnitsFacts
<1>3. PICK g \in Nat : g = Len(bytes)  OBVIOUS
<1>4. g = 3 * u - p /\ (p # 0 => u # 0)  BY <1>1, <1>2, <1>3, UnitsFacts
<1>5. PICK t : t = bytes_to_base64(bytes)  OBVIOUS
<1>6. Len(t) = 4 * u /\ SubSeq(t, 1, 4 * u) = t
  <2>1. PICK T : T = {Sextet(v) : v \in Nat} \cup {Pad}  OBVIOUS
  <2>2. t \in Seq(T) /\ Len(t) = 4 * u  BY <1>1, <1>5, <2>1, EncodedShape
  <2>3. SubSeq(t, 1, Len(t)) = t  BY <2>2
  <2> QED  BY <2>2, <2>3
<1>7. Pads(t) = p
  <2>1. 4 * u \in 0 .. 4 * u  OBVIOUS
  <2>2. Pads(SubSeq(t, 1, 4 * u)) = IF 4 * u > 4 * u - p THEN 4 * u - (4 * u - p) ELSE 0
    BY <1>1, <1>2, <1>5, <2>1, PadsOfPrefix
  <2>3. (IF 4 * u > 4 * u - p THEN 4 * u - (4 * u - p) ELSE 0) = p  OBVIOUS
  <2> QED  BY <1>6, <2>2, <2>3
<1>8. Decoded(t, g) = SubSeq(bytes, 1, g)
  <2>1. 4 * u \in 0 .. 4 * Units(bytes) /\ g \in 0 .. Len(bytes)  BY <1>1, <1>3
  <2>2. \A i \in 1 .. g : 4 * ((i - 1) \div 3) + ((i - 1) % 3) + 2 <= 4 * u
    <3> TAKE i \in 1 .. g
    <3>1. i <= 3 * u  BY <1>4
    <3>2. PICK w \in Nat : w = i - 1  OBVIOUS
    <3>3. (w \div 3) \in Nat /\ (w % 3) \in 0 .. 2 /\ w = 3 * (w \div 3) + (w % 3)  BY <3>2
    <3>4. w \div 3 < u  BY <3>1, <3>2, <3>3
    <3>5. 4 * (w \div 3) + (w % 3) + 2 <= 4 * u  BY <3>3, <3>4
    <3> QED  BY <3>2, <3>5, Zenon
  <2>3. Decoded(SubSeq(t, 1, 4 * u), g) = SubSeq(bytes, 1, g)
    BY <1>5, <2>1, <2>2, DecodesPrefix
  <2> QED  BY <1>6, <2>3
<1>9. SubSeq(bytes, 1, g) = bytes  BY <1>3
<1>10. (4 * u) % 4 = 0 /\ 3 * ((4 * u) \div 4) - p = g  BY <1>4
<1>11. base64_decode(t) = Value(Decoded(t, g))
  BY <1>6, <1>7, <1>10 DEF base64_decode
<1> QED  BY <1>5, <1>8, <1>9, <1>11

LEMMA MaxOfTwo ==
  ASSUME NEW a \in Nat, NEW b \in Nat
  PROVE  Max({a, b}) = IF a >= b THEN a ELSE b
BY DEF Max

\* What Java makes of a text of which a part has come is a beginning of the
\* bytes, and all of them if the text is whole.
LEMMA JavaDecodePrefix ==
  ASSUME NEW bytes \in Seq(Octets), NEW k \in 0 .. 4 * Units(bytes),
         NEW s, s = SubSeq(bytes_to_base64(bytes), 1, k), JavaDecode(s).ok
  PROVE  \E n \in 0 .. Len(bytes) :
           /\ JavaDecode(s) = Value(SubSeq(bytes, 1, n))
           /\ k = 4 * Units(bytes) => n = Len(bytes)
<1>1. PICK u \in Nat : u = Units(bytes)  BY UnitsFacts
<1>2. PICK p \in 0 .. 2 : p = Missing(bytes)  BY UnitsFacts
<1>3. PICK g \in Nat : g = Len(bytes)  OBVIOUS
<1>4. g = 3 * u - p /\ (p # 0 => u # 0)  BY <1>1, <1>2, <1>3, UnitsFacts
<1>5. k \in 0 .. 4 * u  BY <1>1
<1>6. Len(s) = k
  <2>1. PICK T : T = {Sextet(v) : v \in Nat} \cup {Pad}  OBVIOUS
  <2>2. PICK t : t = bytes_to_base64(bytes)  OBVIOUS
  <2>3. t \in Seq(T) /\ Len(t) = 4 * u  BY <1>1, <2>1, <2>2, EncodedShape
  <2>4. k \in 0 .. Len(t)  BY <1>5, <2>3
  <2> QED  BY <2>2, <2>3, <2>4, PrefixBegins
<1>7. PICK P \in Nat : P = Pads(s) /\ P = IF k > 4 * u - p THEN k - (4 * u - p) ELSE 0
  <2>1. Pads(s) = IF k > 4 * u - p THEN k - (4 * u - p) ELSE 0
    BY <1>1, <1>2, <1>5, PadsOfPrefix
  <2> QED  BY <1>5, <2>1
<1>8. PICK c \in Nat : c = k - P  BY <1>4, <1>5, <1>7
<1>9. PICK n : n = 3 * (c \div 4) + Max({c % 4, 1}) - 1  OBVIOUS
<1>10. JavaDecode(s) = IF c % 4 = 1 \/ (P > 0 /\ k % 4 # 0) THEN Failed ELSE Value(Decoded(s, n))
  BY <1>6, <1>7, <1>8, <1>9 DEF JavaDecode
<1>11. ~(c % 4 = 1 \/ (P > 0 /\ k % 4 # 0)) /\ JavaDecode(s) = Value(Decoded(s, n))
  BY <1>10 DEF Failed
<1>12. PICK q \in Nat, r \in 0 .. 3 : c = 4 * q + r /\ q = c \div 4 /\ r = c % 4  OBVIOUS
<1>13. n = 3 * q + (IF r >= 1 THEN r ELSE 1) - 1 /\ n \in Nat
  BY <1>9, <1>12, MaxOfTwo
<1>14. r # 1 /\ (P > 0 => k % 4 = 0)  BY <1>11, <1>12
<1>15. c <= 4 * u - p /\ c <= k  BY <1>5, <1>7, <1>8
<1>16. n <= g
  <2>1. q < u \/ (q = u /\ r = 0 /\ p = 0)  BY <1>12, <1>15
  <2>2. q = u - 1 => r <= 4 - p  BY <1>12, <1>15
  <2> QED  BY <1>4, <1>13, <1>14, <2>1, <2>2
<1>17. \A i \in 1 .. n : 4 * ((i - 1) \div 3) + ((i - 1) % 3) + 2 <= k
  <2> TAKE i \in 1 .. n
  <2>5. PICK h \in Nat : h = i - 1  BY <1>13
  <2>6. PICK x \in Nat, y \in 0 .. 2 : h = 3 * x + y /\ x = h \div 3 /\ y = h % 3  OBVIOUS
  <2>1. i - 1 = 3 * x + y /\ x = (i - 1) \div 3 /\ y = (i - 1) % 3 /\ i <= n  BY <2>5, <2>6
  <2>2. 3 * x + y + 1 <= 3 * q + (IF r >= 1 THEN r ELSE 1) - 1  BY <1>13, <2>1
  <2>3. x < q \/ (x = q /\ y + 2 <= r)  BY <1>14, <2>2
  <2>4. 4 * x + y + 2 <= c  BY <1>12, <2>3
  <2> QED  BY <1>15, <2>1, <2>4
<1>18. k = 4 * u => n = g
  <2>1. SUFFICES ASSUME k = 4 * u PROVE n = g  OBVIOUS
  <2>2. c = 4 * u - p  BY <1>7, <1>8, <2>1
  <2>3. (p = 0 /\ q = u /\ r = 0) \/ (p # 0 /\ q = u - 1 /\ r = 4 - p)  BY <1>4, <1>12, <2>2
  <2> QED  BY <1>4, <1>13, <1>14, <2>3
<1>20. n \in 0 .. Len(bytes)  BY <1>3, <1>13, <1>16
<1>19. Decoded(s, n) = SubSeq(bytes, 1, n)
  BY <1>17, <1>20, DecodesPrefix
<1>21. k = 4 * Units(bytes) => n = Len(bytes)  BY <1>1, <1>3, <1>18
<1>22. JavaDecode(s) = Value(SubSeq(bytes, 1, n))  BY <1>11, <1>19
<1> QED  BY <1>20, <1>21, <1>22

-----------------------------------------------------------------------------
(***************************************************************************)
(* The bodies the server writes, and what is found in a part of them.      *)
(***************************************************************************)

\* The part of an answer that is not its head.
BodyKinds == {"{", "}", ",", "quote", "=", "sextet", "digit", "result", "data", "error",
              "type", "size", "mtime", "dir", "file"}
BodyTokens == BodyKinds \X Nat

Opening == Word("{")
Closing == Word("}")
Comma == Word(",")

LEMMA BodyWords ==
  /\ Opening \in BodyTokens /\ Closing \in BodyTokens /\ Quote \in BodyTokens
  /\ Comma \in BodyTokens /\ Word("result") \in BodyTokens /\ Word("data") \in BodyTokens
  /\ Word("error") \in BodyTokens /\ Word("type") \in BodyTokens
  /\ Word("size") \in BodyTokens /\ Word("mtime") \in BodyTokens
  /\ Word("dir") \in BodyTokens /\ Word("file") \in BodyTokens /\ Pad \in BodyTokens
  /\ \A n \in Nat : Sextet(n) \in BodyTokens /\ <<"digit", n>> \in BodyTokens
BY Zenon DEF BodyTokens, BodyKinds, Opening, Closing, Comma, Quote, Pad, Sextet, Word

LEMMA WordsDiffer ==
  ASSUME NEW v, NEW w, v # w
  PROVE  Word(v) # Word(w)
BY DEF Word

\* A brace is no other word, and not a digit.
LEMMA BracesDiffer ==
  /\ Opening # Closing /\ Opening # Quote /\ Closing # Quote
  /\ Opening # Word("result") /\ Opening # Word("data")
  /\ Closing \notin {Word("type"), Word("size"), Word("dir"), Word("file"), Word("mtime"), Comma}
  /\ \A n : Closing # <<"digit", n>> /\ Opening # <<"digit", n>>
BY Zenon DEF Opening, Closing, Comma, Quote, Word

LEMMA EncodedInBody ==
  ASSUME NEW bytes \in Seq(Octets)
  PROVE  /\ bytes_to_base64(bytes) \in Seq(BodyTokens)
         /\ \A j \in 1 .. Len(bytes_to_base64(bytes)) : bytes_to_base64(bytes)[j] # Quote
<1>1. PICK T : T = {Sextet(v) : v \in Nat} \cup {Pad}  OBVIOUS
<1>2. PICK t : t = bytes_to_base64(bytes)  OBVIOUS
<1>3. t \in Seq(T)  BY <1>1, <1>2, EncodedShape
<1>4. T \subseteq BodyTokens  BY <1>1, BodyWords
<1>5. Quote \notin T  BY <1>1 DEF Quote, Sextet, Pad, Word
<1>6. t \in Seq(BodyTokens)  BY <1>3, <1>4
<1>7. \A j \in 1 .. Len(t) : t[j] \in T  BY <1>3
<1> QED  BY <1>2, <1>5, <1>6, <1>7

LEMMA DataBodyFacts ==
  ASSUME NEW bytes \in Seq(Octets), NEW t, t = bytes_to_base64(bytes)
  PROVE  /\ DataBody(bytes) \in Seq(BodyTokens) /\ Len(t) \in Nat
         /\ Len(DataBody(bytes)) = Len(t) + 8
         /\ DataBody(bytes)[1] = Opening /\ DataBody(bytes)[2] = Word("result")
         /\ DataBody(bytes)[3] = Opening /\ DataBody(bytes)[4] = Word("data")
         /\ DataBody(bytes)[5] = Quote /\ DataBody(bytes)[Len(t) + 6] = Quote
         /\ \A j \in 1 .. Len(t) : DataBody(bytes)[5 + j] = t[j]
<1>1. t \in Seq(BodyTokens)  BY EncodedInBody
<1>2. PICK a : a = <<Opening, Word("result"), Opening, Word("data"), Quote>>  OBVIOUS
<1>3. PICK z : z = <<Quote, Closing, Closing>>  OBVIOUS
<1>5. a \in Seq(BodyTokens) /\ Len(a) = 5 /\ a[1] = Opening /\ a[2] = Word("result")
      /\ a[3] = Opening /\ a[4] = Word("data") /\ a[5] = Quote
  BY <1>2, BodyWords
<1>6. z \in Seq(BodyTokens) /\ Len(z) = 3 /\ z[1] = Quote  BY <1>3, BodyWords
<1>7. DataBody(bytes) = (a \o t) \o z
  BY <1>2, <1>3, Zenon DEF DataBody, Opening, Closing
<1>8. PICK g \in Nat : g = Len(t)  BY <1>1
<1>9. PICK at : at = a \o t  OBVIOUS
<1>10. at \in Seq(BodyTokens) /\ Len(at) = 5 + g /\ (\A j \in 1 .. 5 : at[j] = a[j])
       /\ \A j \in 1 .. g : at[5 + j] = t[j]
  <2>1. at \in Seq(BodyTokens) /\ Len(at) = Len(a) + Len(t)
        /\ (\A j \in 1 .. Len(a) : at[j] = a[j]) /\ \A j \in 1 .. Len(t) : at[Len(a) + j] = t[j]
    <3>1. a \in Seq(BodyTokens) /\ t \in Seq(BodyTokens)  BY <1>1, <1>5
    <3>2. a \o t \in Seq(BodyTokens) /\ Len(a \o t) = Len(a) + Len(t)  BY <3>1, Joined
    <3>3. \A j \in 1 .. Len(a) : (a \o t)[j] = a[j]  BY <3>1, Joined
    <3>4. \A j \in 1 .. Len(t) : (a \o t)[Len(a) + j] = t[j]  BY <3>1, Joined
    <3> QED  BY <1>9, <3>2, <3>3, <3>4
  <2>2. Len(a) = 5 /\ Len(t) = g  BY <1>5, <1>8
  <2> QED  BY <2>1, <2>2
<1>11. PICK d : d = at \o z  OBVIOUS
<1>12. d \in Seq(BodyTokens) /\ Len(d) = 5 + g + 3 /\ (\A j \in 1 .. 5 + g : d[j] = at[j])
       /\ \A j \in 1 .. 3 : d[5 + g + j] = z[j]
  <2>1. d \in Seq(BodyTokens) /\ Len(d) = Len(at) + Len(z)
        /\ (\A j \in 1 .. Len(at) : d[j] = at[j]) /\ \A j \in 1 .. Len(z) : d[Len(at) + j] = z[j]
    <3>1. at \in Seq(BodyTokens) /\ z \in Seq(BodyTokens)  BY <1>6, <1>10
    <3>2. at \o z \in Seq(BodyTokens) /\ Len(at \o z) = Len(at) + Len(z)  BY <3>1, Joined
    <3>3. \A j \in 1 .. Len(at) : (at \o z)[j] = at[j]  BY <3>1, Joined
    <3>4. \A j \in 1 .. Len(z) : (at \o z)[Len(at) + j] = z[j]  BY <3>1, Joined
    <3> QED  BY <1>11, <3>2, <3>3, <3>4
  <2>2. Len(at) = 5 + g /\ Len(z) = 3  BY <1>6, <1>10
  <2> QED  BY <2>1, <2>2, Zenon
<1>13. d[g + 6] = Quote
  <2>1. 1 \in 1 .. 3 /\ 5 + g + 1 = g + 6  BY <1>8
  <2> QED  BY <1>6, <1>12, <2>1
<1>14. \A j \in 1 .. g : d[5 + j] = t[j]
  <2> TAKE j \in 1 .. g
  <2>1. 5 + j \in 1 .. 5 + g  OBVIOUS
  <2> QED  BY <1>10, <1>12, <2>1
<1>15. \A j \in 1 .. 5 : d[j] = a[j]
  <2> TAKE j \in 1 .. 5
  <2>1. j \in 1 .. 5 + g  BY <1>8
  <2> QED  BY <1>10, <1>12, <2>1
<1>16. 1 \in 1 .. 5 /\ 2 \in 1 .. 5 /\ 3 \in 1 .. 5 /\ 4 \in 1 .. 5 /\ 5 \in 1 .. 5  OBVIOUS
<1>17. d[1] = Opening /\ d[2] = Word("result") /\ d[3] = Opening /\ d[4] = Word("data")
       /\ d[5] = Quote
  BY <1>5, <1>15, <1>16
<1>18. 5 + g + 3 = g + 8 /\ DataBody(bytes) = d  BY <1>7, <1>8, <1>9, <1>11
<1> QED  BY <1>8, <1>12, <1>13, <1>14, <1>17, <1>18

LEMMA FailedIsNotOk == ~Failed.ok /\ \A v : Value(v).ok /\ Value(v).data = v
BY DEF Failed, Value

\* Of a read that has come in part nothing is made, or all of it.
LEMMA ReadOfPart ==
  ASSUME NEW bytes \in Seq(Octets), NEW b \in Seq(BodyTokens), Begins(b, DataBody(bytes)),
         NEW status
  PROVE  ReadResult(status, b) = Failed \/ ReadResult(status, b) = Value(bytes)
<1>1. PICK t : t = bytes_to_base64(bytes)  OBVIOUS
<1>2. PICK D : D = DataBody(bytes)  OBVIOUS
<1>3. PICK g \in Nat : g = Len(t)  BY <1>1, DataBodyFacts
<1>4. /\ D \in Seq(BodyTokens) /\ Len(D) = g + 8
      /\ D[1] = Opening /\ D[2] = Word("result") /\ D[3] = Opening /\ D[4] = Word("data")
      /\ D[5] = Quote /\ D[g + 6] = Quote /\ \A j \in 1 .. g : D[5 + j] = t[j]
  BY <1>1, <1>2, <1>3, DataBodyFacts
<1>5. Begins(b, D)  BY <1>2
<1>6. PICK result : result = AfterWord(b, "result")  OBVIOUS
<1>7. PICK value : value = Quoted(AfterWord(result, "data"))  OBVIOUS
<1>8. SUFFICES ASSUME Has(b, "result"), Has(result, "data"), value.ok
               PROVE  base64_decode(value.data) = Value(bytes)
  BY <1>6, <1>7 DEF ReadResult
<1>9. Find(b, "result") = 2 /\ 2 <= Len(b)
  <2>1. 2 \in 1 .. Len(D)  BY <1>4
  <2>2. \A j \in 1 .. Len(D) : j < 2 => D[j] # Word("result")  BY <1>4, BracesDiffer
  <2>3. D \in Seq(BodyTokens) /\ D[2] = Word("result")  BY <1>4
  <2>4. Find(b, "result") = (IF 2 <= Len(b) THEN 2 ELSE 0) /\ (Has(b, "result") <=> 2 <= Len(b))
    BY <1>5, <2>1, <2>2, <2>3, FindBegun
  <2> QED  BY <1>8, <2>4
<1>10. PICK R : R = After(D, 2)  OBVIOUS
<1>11. R \in Seq(BodyTokens) /\ Len(R) = g + 6 /\ \A j \in 1 .. g + 6 : R[j] = D[j + 2]
  <2>1. D \in Seq(BodyTokens) /\ 2 \in 0 .. Len(D) /\ Len(D) - 2 = g + 6  BY <1>4
  <2>2. R \in Seq(BodyTokens) /\ Len(R) = Len(D) - 2
        /\ \A j \in 1 .. Len(D) - 2 : R[j] = D[j + 2]
    BY <1>10, <2>1, AfterFacts
  <2> QED  BY <2>1, <2>2, Zenon
<1>12. result \in Seq(BodyTokens) /\ Begins(result, R)
  <2>1. result = After(b, 2) /\ 2 \in 0 .. Len(b)  BY <1>6, <1>9 DEF AfterWord
  <2> QED  BY <1>4, <1>5, <1>10, <2>1, AfterFacts, AfterBegins
<1>13. Find(result, "data") = 2 /\ 2 <= Len(result)
  <2>1. 2 \in 1 .. Len(R) /\ R[2] = Word("data") /\ R[1] = Opening  BY <1>4, <1>11
  <2>2. \A j \in 1 .. Len(R) : j < 2 => R[j] # Word("data")  BY <1>11, <2>1, BracesDiffer
  <2>3. R \in Seq(BodyTokens)  BY <1>11
  <2> QED  BY <1>8, <1>12, <2>1, <2>2, <2>3, FindBegun
<1>14. PICK Q : Q = After(R, 2)  OBVIOUS
<1>15. Q \in Seq(BodyTokens) /\ Len(Q) = g + 4 /\ \A j \in 1 .. g + 4 : Q[j] = D[j + 4]
  <2>1. Q \in Seq(BodyTokens) /\ Len(Q) = g + 4 /\ \A j \in 1 .. g + 4 : Q[j] = R[j + 2]
    <3>1. R \in Seq(BodyTokens) /\ 2 \in 0 .. Len(R) /\ Len(R) - 2 = g + 4  BY <1>11
    <3>2. Q \in Seq(BodyTokens) /\ Len(Q) = Len(R) - 2
          /\ \A j \in 1 .. Len(R) - 2 : Q[j] = R[j + 2]
      BY <1>14, <3>1, AfterFacts
    <3> QED  BY <3>1, <3>2, Zenon
  <2>2. ASSUME NEW j \in 1 .. g + 4 PROVE Q[j] = D[j + 4]
    <3>1. j + 2 \in 1 .. g + 6 /\ (j + 2) + 2 = j + 4  OBVIOUS
    <3> QED  BY <1>11, <2>1, <3>1
  <2> QED  BY <2>1, <2>2
<1>16. PICK q : q = AfterWord(result, "data")  OBVIOUS
<1>17. q \in Seq(BodyTokens) /\ Begins(q, Q)
  <2>1. q = After(result, 2) /\ 2 \in 0 .. Len(result)  BY <1>13, <1>16 DEF AfterWord
  <2> QED  BY <1>11, <1>12, <1>14, <2>1, AfterFacts, AfterBegins
<1>18. PICK inside : inside = AfterWord(q, "quote")  OBVIOUS
<1>19. PICK i : i = Find(inside, "quote")  OBVIOUS
<1>20. Has(q, "quote") /\ i # 0 /\ value = Value(SubSeq(inside, 1, i - 1))
  BY <1>7, <1>8, <1>16, <1>18, <1>19, FailedIsNotOk DEF Quoted
<1>21. Find(q, "quote") = 1 /\ 1 <= Len(q)
  <2>1. 1 \in 1 .. Len(Q) /\ Q[1] = Word("quote")  BY <1>4, <1>15 DEF Quote
  <2>2. \A j \in 1 .. Len(Q) : j < 1 => Q[j] # Word("quote")  BY <1>15
  <2>3. Q \in Seq(BodyTokens)  BY <1>15
  <2>4. Has(q, "quote")  BY <1>20
  <2> QED  BY <1>17, <2>1, <2>2, <2>3, <2>4, FindBegun
<1>22. PICK I : I = After(Q, 1)  OBVIOUS
<1>23. I \in Seq(BodyTokens) /\ Len(I) = g + 3 /\ \A j \in 1 .. g + 3 : I[j] = D[j + 5]
  <2>1. I \in Seq(BodyTokens) /\ Len(I) = g + 3 /\ \A j \in 1 .. g + 3 : I[j] = Q[j + 1]
    <3>1. Q \in Seq(BodyTokens) /\ 1 \in 0 .. Len(Q) /\ Len(Q) - 1 = g + 3  BY <1>15
    <3>2. I \in Seq(BodyTokens) /\ Len(I) = Len(Q) - 1
          /\ \A j \in 1 .. Len(Q) - 1 : I[j] = Q[j + 1]
      BY <1>22, <3>1, AfterFacts
    <3> QED  BY <3>1, <3>2, Zenon
  <2>2. ASSUME NEW j \in 1 .. g + 3 PROVE I[j] = D[j + 5]
    <3>1. j + 1 \in 1 .. g + 4 /\ (j + 1) + 4 = j + 5  OBVIOUS
    <3> QED  BY <1>15, <2>1, <3>1
  <2> QED  BY <2>1, <2>2
<1>24. inside \in Seq(BodyTokens) /\ Begins(inside, I)
  <2>1. inside = After(q, 1) /\ 1 \in 0 .. Len(q)  BY <1>18, <1>21 DEF AfterWord
  <2> QED  BY <1>15, <1>17, <1>22, <2>1, AfterFacts, AfterBegins
<1>25. i = g + 1 /\ g + 1 <= Len(inside)
  <2>1. g + 1 \in 1 .. Len(I) /\ I[g + 1] = Word("quote")  BY <1>4, <1>23 DEF Quote
  <2>2. \A j \in 1 .. Len(I) : j < g + 1 => I[j] # Word("quote")
    <3> TAKE j \in 1 .. Len(I)
    <3> HAVE j < g + 1
    <3>1. j \in 1 .. g /\ j \in 1 .. g + 3 /\ j + 5 = 5 + j  BY <1>23
    <3>2. I[j] = t[j]  BY <1>4, <1>23, <3>1
    <3> QED  BY <1>1, <1>3, <3>1, <3>2, EncodedInBody DEF Quote
  <2>3. Has(inside, "quote")  BY <1>19, <1>20 DEF Has
  <2> QED  BY <1>19, <1>23, <1>24, <2>1, <2>2, <2>3, FindBegun
<1>26. SubSeq(inside, 1, g) = t
  <2>1. g \in 0 .. Len(inside)  BY <1>24, <1>25
  <2>2. PICK e : e = SubSeq(inside, 1, g)  OBVIOUS
  <2>3. e \in Seq(BodyTokens) /\ Len(e) = g /\ \A j \in 1 .. g : e[j] = inside[j]
    BY <1>24, <2>1, <2>2, PrefixBegins
  <2>4. \A j \in 1 .. g : e[j] = t[j]
    <3> TAKE j \in 1 .. g
    <3>1. j \in 1 .. g + 3 /\ j \in 1 .. Len(inside) /\ j + 5 = 5 + j  BY <2>1
    <3>2. inside[j] = I[j]  BY <1>24, <3>1 DEF Begins
    <3> QED  BY <1>4, <1>23, <2>3, <3>1, <3>2
  <2>5. t \in Seq(BodyTokens) /\ Len(t) = g  BY <1>1, <1>3, EncodedInBody
  <2>6. e = t  BY <2>3, <2>4, <2>5
  <2> QED  BY <2>2, <2>6
<1>27. value.data = t
  <2>1. i - 1 = g  BY <1>25
  <2> QED  BY <1>20, <1>26, <2>1, FailedIsNotOk
<1> QED  BY <1>1, <1>27, DecodesWhole

\* Of an answer with an error, or a part of it, nothing is made.
LEMMA ErrorOfPart ==
  ASSUME NEW b \in Seq(BodyTokens), Begins(b, ErrorBody), NEW status
  PROVE  ReadResult(status, b) = Failed /\ StatResult(b) = Failed
<1>1. ErrorBody = <<Opening, Word("error"), Closing>>
  BY Zenon DEF ErrorBody, Opening, Closing
<1>2. PICK e : e = ErrorBody  OBVIOUS
<1>3. Len(e) = 3 /\ e[1] = Opening /\ e[2] = Word("error") /\ e[3] = Closing  BY <1>1, <1>2
<1>4. Len(b) \in Nat /\ Len(b) <= 3 /\ \A j \in 1 .. Len(b) : b[j] = e[j]
  BY <1>2, <1>3 DEF Begins
<1>5. \A j \in 1 .. Len(b) : b[j] # Word("result")
  <2> TAKE j \in 1 .. Len(b)
  <2>1. j = 1 \/ j = 2 \/ j = 3  BY <1>4
  <2>2. Word("error") # Word("result")  BY WordsDiffer
  <2>3. Closing # Word("result")  BY Zenon DEF Closing, Word
  <2> QED  BY <1>3, <1>4, <2>1, <2>2, <2>3, BracesDiffer
<1>6. ~Has(b, "result")  BY <1>5, FindNone
<1>7. ReadResult(status, b) = Failed  BY <1>6, Zenon DEF ReadResult
<1>8. StatResult(b) = Failed  BY <1>6, Zenon DEF StatResult
<1> QED  BY <1>7, <1>8

-----------------------------------------------------------------------------
(***************************************************************************)
(* A number, and the object it is in.                                      *)
(***************************************************************************)
DigitsOf(n) == IF n < Radix THEN 1 ELSE 2

LEMMA DigitsFacts ==
  ASSUME NEW n \in Nat, n <= MaxLen
  PROVE  /\ Digits(n) \in Seq(BodyTokens) /\ DigitsOf(n) \in 1 .. 2
         /\ Len(Digits(n)) = DigitsOf(n)
         /\ \A j \in 1 .. DigitsOf(n) : Digits(n)[j][1] = "digit" /\ Digits(n)[j][2] \in Nat
         /\ DigitsOf(n) = 1 => Digits(n)[1][2] = n
         /\ DigitsOf(n) = 2 => Digits(n)[1][2] * Radix + Digits(n)[2][2] = n
<1>1. Radix \in Nat /\ Radix >= 2  BY Constants
<1>2. CASE n < Radix
  <2>1. PICK d : d = <<"digit", n>>  OBVIOUS
  <2>2. d \in BodyTokens /\ d[1] = "digit" /\ d[2] = n  BY <2>1, BodyWords
  <2>3. Digits(n) = <<d>> /\ DigitsOf(n) = 1  BY <1>2, <2>1 DEF Digits, DigitsOf
  <2> QED  BY <2>2, <2>3
<1>3. CASE ~(n < Radix)
  <2>1. PICK q \in Nat, r \in Nat : q = n \div Radix /\ r = n % Radix /\ q * Radix + r = n
    BY <1>1
  <2>2. PICK d : d = <<"digit", q>>  OBVIOUS
  <2>3. PICK c : c = <<"digit", r>>  OBVIOUS
  <2>4. d \in BodyTokens /\ d[1] = "digit" /\ d[2] = q  BY <2>2, BodyWords
  <2>5. c \in BodyTokens /\ c[1] = "digit" /\ c[2] = r  BY <2>3, BodyWords
  <2>6. Digits(n) = <<d, c>> /\ DigitsOf(n) = 2
    BY <1>3, <2>1, <2>2, <2>3 DEF Digits, DigitsOf
  <2> QED  BY <2>1, <2>4, <2>5, <2>6
<1> QED  BY <1>2, <1>3

\* The value of one digit and of two.
LEMMA ValueOfOne ==
  ASSUME NEW d, NEW text, text = <<d>>, d[2] \in Nat
  PROVE  FoldLeft(LAMBDA v, t : v * Radix + t[2], 0, text) = d[2]
<1> DEFINE Iter(f) == [s \in SUBSET (DOMAIN text) |->
                         IF s = {} THEN 0
                         ELSE f[s \ {Max(s)}] * Radix + text[Max(s)][2]]
<1>1. FoldLeft(LAMBDA v, t : v * Radix + t[2], 0, text)
        = (CHOOSE f : f = Iter(f))[DOMAIN text]
  BY DEF FoldLeft, MapThenFoldSet
<1>2. DOMAIN text = {1} /\ text[1] = d  OBVIOUS
<1>3. Max({1}) = 1  BY MaxIs
<1>4. \E f : f = Iter(f)
  <2>1. PICK f : f = [s \in SUBSET {1} |-> IF s = {} THEN 0 ELSE d[2]]  OBVIOUS
  <2>2. ASSUME NEW s \in SUBSET {1}
        PROVE  f[s] = IF s = {} THEN 0 ELSE f[s \ {Max(s)}] * Radix + text[Max(s)][2]
    <3>1. s = {} \/ s = {1}  OBVIOUS
    <3>2. CASE s = {}  BY <2>1, <3>2
    <3>3. CASE s = {1}
      <4>1. s \ {Max(s)} = {}  BY <1>3, <3>3
      <4>2. f[{}] = 0 /\ f[s] = d[2]  BY <2>1, <3>3
      <4>3. Radix \in Nat /\ 0 * Radix + d[2] = d[2]  BY Constants
      <4> QED  BY <1>2, <1>3, <3>3, <4>1, <4>2, <4>3
    <3> QED  BY <3>1, <3>2, <3>3
  <2>3. f = Iter(f)  BY <1>2, <2>1, <2>2
  <2> QED  BY <2>3
<1>5. PICK f : f = (CHOOSE g : g = Iter(g))  OBVIOUS
<1>6. f = Iter(f)  BY <1>4, <1>5
<1>7. f[{}] = 0  BY <1>6
<1>8. f[{1}] = f[{}] * Radix + d[2]
  <2>1. {1} \in SUBSET (DOMAIN text) /\ {1} \ {Max({1})} = {}  BY <1>2, <1>3
  <2>2. f[{1}] = f[{1} \ {Max({1})}] * Radix + text[Max({1})][2]  BY <1>6, <2>1
  <2> QED  BY <1>2, <1>3, <2>1, <2>2
<1>9. Radix \in Nat /\ 0 * Radix + d[2] = d[2]  BY Constants
<1> QED  BY <1>1, <1>2, <1>5, <1>7, <1>8, <1>9

LEMMA ValueOfTwo ==
  ASSUME NEW d, NEW c, NEW text, text = <<d, c>>, d[2] \in Nat, c[2] \in Nat
  PROVE  FoldLeft(LAMBDA v, t : v * Radix + t[2], 0, text) = d[2] * Radix + c[2]
<1> DEFINE Iter(f) == [s \in SUBSET (DOMAIN text) |->
                         IF s = {} THEN 0
                         ELSE f[s \ {Max(s)}] * Radix + text[Max(s)][2]]
<1>1. FoldLeft(LAMBDA v, t : v * Radix + t[2], 0, text)
        = (CHOOSE f : f = Iter(f))[DOMAIN text]
  BY DEF FoldLeft, MapThenFoldSet
<1>2. DOMAIN text = {1, 2} /\ text[1] = d /\ text[2] = c  OBVIOUS
<1>3. Max({1}) = 1 /\ Max({2}) = 2 /\ Max({1, 2}) = 2
  <2>1. Max({1}) = 1  BY MaxIs
  <2>2. Max({2}) = 2
    <3>1. PICK T : T = {2}  OBVIOUS
    <3>2. T \in SUBSET Int /\ 2 \in T /\ \A j \in T : 2 >= j  BY <3>1
    <3> QED  BY <3>1, <3>2, MaxIs
  <2>3. PICK S : S = {1, 2}  OBVIOUS
  <2>4. S \in SUBSET Int /\ 2 \in S /\ \A j \in S : 2 >= j  BY <2>3
  <2>5. Max(S) = 2  BY <2>4, MaxIs
  <2> QED  BY <2>1, <2>2, <2>3, <2>5
<1>4. PICK w \in Nat : w = d[2] * Radix + c[2]  BY Constants
<1>5. Radix \in Nat /\ 0 * Radix + d[2] = d[2] /\ 0 * Radix + c[2] = c[2]  BY Constants
<1>6. {1} \ {1} = {} /\ {2} \ {2} = {} /\ {1, 2} \ {2} = {1}  OBVIOUS
<1>7. \E f : f = Iter(f)
  <2>1. PICK f : f = [s \in SUBSET {1, 2} |->
                        IF s = {} THEN 0 ELSE IF s = {1} THEN d[2]
                        ELSE IF s = {2} THEN c[2] ELSE w]
    OBVIOUS
  <2>2. f[{}] = 0 /\ f[{1}] = d[2] /\ f[{2}] = c[2] /\ f[{1, 2}] = w
    <3>1. {} # {1} /\ {} # {2} /\ {1} # {2} /\ {1, 2} # {} /\ {1, 2} # {1} /\ {1, 2} # {2}
      OBVIOUS
    <3>2. {} \in SUBSET {1, 2} /\ {1} \in SUBSET {1, 2} /\ {2} \in SUBSET {1, 2}
          /\ {1, 2} \in SUBSET {1, 2}
      OBVIOUS
    <3> QED  BY <2>1, <3>1, <3>2
  <2>3. ASSUME NEW s \in SUBSET {1, 2}
        PROVE  f[s] = IF s = {} THEN 0 ELSE f[s \ {Max(s)}] * Radix + text[Max(s)][2]
    <3>1. s = {} \/ s = {1} \/ s = {2} \/ s = {1, 2}  OBVIOUS
    <3>2. CASE s = {}  BY <2>2, <3>2
    <3>3. CASE s = {1}
      <4>1. Max(s) = 1 /\ s \ {Max(s)} = {}  BY <1>3, <1>6, <3>3
      <4> QED  BY <1>2, <1>5, <2>2, <3>3, <4>1
    <3>4. CASE s = {2}
      <4>1. Max(s) = 2 /\ s \ {Max(s)} = {}  BY <1>3, <1>6, <3>4
      <4> QED  BY <1>2, <1>5, <2>2, <3>4, <4>1
    <3>5. CASE s = {1, 2}
      <4>1. Max(s) = 2 /\ s \ {Max(s)} = {1} /\ s # {}  BY <1>3, <1>6, <3>5
      <4>2. f[s \ {Max(s)}] = d[2] /\ text[Max(s)] = c /\ f[s] = w
        BY <1>2, <2>2, <3>5, <4>1, Zenon
      <4> QED  BY <1>4, <4>1, <4>2, Zenon
    <3> QED  BY <3>1, <3>2, <3>3, <3>4, <3>5
  <2>4. f = Iter(f)  BY <1>2, <2>1, <2>3
  <2> QED  BY <2>4
<1>8. PICK f : f = (CHOOSE g : g = Iter(g))  OBVIOUS
<1>9. f = Iter(f)  BY <1>7, <1>8
<1>10. f[{}] = 0  BY <1>9
<1>11. f[{1}] = d[2]
  <2>1. {1} \in SUBSET (DOMAIN text) /\ {1} \ {Max({1})} = {} /\ {1} # {}  BY <1>2, <1>3
  <2>2. f[{1}] = f[{1} \ {Max({1})}] * Radix + text[Max({1})][2]  BY <1>9, <2>1
  <2> QED  BY <1>2, <1>3, <1>5, <1>10, <2>1, <2>2
<1>12. f[{1, 2}] = d[2] * Radix + c[2]
  <2>1. {1, 2} \in SUBSET (DOMAIN text) /\ {1, 2} \ {Max({1, 2})} = {1} /\ {1, 2} # {}
    BY <1>2, <1>3, <1>6
  <2>2. f[{1, 2}] = f[{1, 2} \ {Max({1, 2})}] * Radix + text[Max({1, 2})][2]  BY <1>9, <2>1
  <2> QED  BY <1>2, <1>3, <1>11, <2>1, <2>2
<1> QED  BY <1>1, <1>2, <1>8, <1>12

\* The digits that follow, and no more, are the number.
LEMMA NumberIs ==
  ASSUME NEW n \in Nat, n <= MaxLen, NEW text \in Seq(BodyTokens),
         Len(text) >= DigitsOf(n) + 1,
         \A j \in 1 .. DigitsOf(n) : text[j] = Digits(n)[j],
         text[DigitsOf(n) + 1][1] # "digit"
  PROVE  Number(text) = Value(n)
<1>1. PICK e \in 1 .. 2 : e = DigitsOf(n)  BY DigitsFacts
<1>2. \A j \in 1 .. e : text[j] = Digits(n)[j] /\ text[j][1] = "digit" /\ text[j][2] \in Nat
  BY <1>1, DigitsFacts
<1>3. PICK stop : stop = SelectInSeq(text, LAMBDA t : t[1] # "digit")  OBVIOUS
<1>4. stop = e + 1
  <2> DEFINE I == {j \in 1 .. Len(text) : text[j][1] # "digit"}
  <2>1. stop = IF I # {} THEN Min(I) ELSE 0  BY <1>3 DEF SelectInSeq
  <2>2. I \subseteq Int /\ e + 1 \in I  BY <1>1
  <2>3. \A j \in I : e + 1 <= j  BY <1>2
  <2> HIDE DEF I
  <2>4. Min(I) = e + 1 /\ I # {}  BY <2>2, <2>3, MinIs
  <2> QED  BY <2>1, <2>4
<1>5. PICK p : p = SubSeq(text, 1, e)  OBVIOUS
<1>6. e \in 0 .. Len(text) /\ e # 0 /\ e + 1 # 0 /\ (e + 1) - 1 = e
  <2>1. PICK h \in Nat : h = Len(text)  OBVIOUS
  <2>2. h >= e + 1  BY <1>1, <2>1
  <2> QED  BY <2>1, <2>2
<1>7. p \in Seq(BodyTokens) /\ Len(p) = e /\ \A j \in 1 .. e : p[j] = text[j]
  BY <1>5, <1>6, PrefixBegins
<1>8. Number(text) = Value(FoldLeft(LAMBDA v, t : v * Radix + t[2], 0, p))
  <2>1. (IF stop = 0 THEN Len(text) ELSE stop - 1) = e  BY <1>4, <1>6
  <2> QED  BY <1>3, <1>5, <1>6, <2>1, Zenon DEF Number
<1>9. CASE e = 1
  <2>1. p = <<p[1]>> /\ p[1] = text[1] /\ 1 \in 1 .. e  BY <1>7, <1>9
  <2>2. p[1][2] \in Nat /\ p[1][2] = n  BY <1>1, <1>2, <1>9, <2>1, DigitsFacts
  <2>3. PICK d : d = p[1]  OBVIOUS
  <2>4. FoldLeft(LAMBDA v, t : v * Radix + t[2], 0, p) = d[2]  BY <2>1, <2>2, <2>3, ValueOfOne
  <2> QED  BY <1>8, <2>2, <2>3, <2>4, Zenon
<1>10. CASE e = 2
  <2>1. p = <<p[1], p[2]>> /\ p[1] = text[1] /\ p[2] = text[2] /\ 1 \in 1 .. e /\ 2 \in 1 .. e
    BY <1>7, <1>10
  <2>2. p[1][2] \in Nat /\ p[2][2] \in Nat /\ p[1][2] * Radix + p[2][2] = n
    BY <1>1, <1>2, <1>10, <2>1, DigitsFacts
  <2>3. PICK d, c : d = p[1] /\ c = p[2]  OBVIOUS
  <2>4. FoldLeft(LAMBDA v, t : v * Radix + t[2], 0, p) = d[2] * Radix + c[2]
    <3>1. p = <<d, c>> /\ d[2] \in Nat /\ c[2] \in Nat  BY <2>1, <2>2, <2>3
    <3> QED  BY <3>1, ValueOfTwo
  <2> QED  BY <1>8, <2>2, <2>3, <2>4, Zenon
<1> QED  BY <1>9, <1>10

-----------------------------------------------------------------------------
(***************************************************************************)
(* The type and the size in a part of an answer.                           *)
(***************************************************************************)
TypeWord(f) == Word(IF f.dir THEN "dir" ELSE "file")

LEMMA FilesFacts ==
  ASSUME NEW f \in Files \cup {Directory}
  PROVE  /\ f.dir \in BOOLEAN /\ f.data \in Seq(Octets) /\ Len(f.data) \in Nat
         /\ Len(f.data) <= MaxLen /\ TypeWord(f) \in BodyTokens
<1>1. CASE f \in Files
  <2>1. f.dir = FALSE /\ f.data \in SeqOf(Bytes, MaxLen)  BY <1>1 DEF Files
  <2>2. PICK m \in 0 .. MaxLen : f.data \in [1 .. m -> Bytes]
    BY <2>1, Constants DEF SeqOf
  <2>3. m \in Nat /\ m <= MaxLen  BY Constants
  <2>4. f.data \in Seq(Bytes) /\ Len(f.data) = m  BY <2>2, <2>3
  <2>5. Bytes \subseteq Octets  BY Constants DEF Octets
  <2>6. f.data \in Seq(Octets)  BY <2>4, <2>5
  <2> QED  BY <2>1, <2>3, <2>4, <2>6, BodyWords DEF TypeWord
<1>2. CASE f = Directory
  <2>1. f.dir = TRUE /\ f.data = <<>>  BY <1>2 DEF Directory
  <2>2. f.data \in Seq(Octets) /\ Len(f.data) = 0  BY <2>1
  <2>3. TypeWord(f) = Word("dir")  BY <2>1 DEF TypeWord
  <2>4. TypeWord(f) \in BodyTokens  BY <2>3, BodyWords
  <2>5. Len(f.data) \in Nat /\ Len(f.data) <= MaxLen  BY <2>2, Constants
  <2> QED  BY <2>1, <2>2, <2>4, <2>5
<1> QED  BY <1>1, <1>2

\* What stands after the third word: the type, the size and what ends them.
LEMMA StatBodyFacts ==
  ASSUME NEW f \in Files \cup {Directory}, NEW e, e = DigitsOf(Len(f.data))
  PROVE  /\ StatBody(f) \in Seq(BodyTokens) /\ e \in 1 .. 2
         /\ Len(StatBody(f)) = e + 12
         /\ StatBody(f)[1] = Opening /\ StatBody(f)[2] = Word("result")
         /\ StatBody(f)[3] = Opening /\ StatBody(f)[4] = Word("type")
         /\ StatBody(f)[5] = Quote /\ StatBody(f)[6] = TypeWord(f)
         /\ StatBody(f)[7] = Quote /\ StatBody(f)[8] = Word("size")
         /\ \A j \in 1 .. e : StatBody(f)[8 + j] = Digits(Len(f.data))[j]
         /\ StatBody(f)[9 + e] = Comma /\ StatBody(f)[10 + e] = Word("mtime")
         /\ StatBody(f)[11 + e] = Closing /\ StatBody(f)[12 + e] = Closing
<1>1. PICK n \in Nat : n = Len(f.data) /\ n <= MaxLen  BY FilesFacts
<1>2. PICK t : t = Digits(n)  OBVIOUS
<1>3. t \in Seq(BodyTokens) /\ Len(t) = e /\ e \in 1 .. 2  BY <1>1, <1>2, DigitsFacts
<1>4. PICK a : a = <<Opening, Word("result"), Opening, Word("type"), Quote, TypeWord(f),
                     Quote, Word("size")>>
  OBVIOUS
<1>5. PICK z : z = <<Comma, Word("mtime"), Closing, Closing>>  OBVIOUS
<1>6. a \in Seq(BodyTokens) /\ Len(a) = 8 /\ a[1] = Opening /\ a[2] = Word("result")
      /\ a[3] = Opening /\ a[4] = Word("type") /\ a[5] = Quote /\ a[6] = TypeWord(f)
      /\ a[7] = Quote /\ a[8] = Word("size")
  BY <1>4, BodyWords, FilesFacts
<1>7. z \in Seq(BodyTokens) /\ Len(z) = 4 /\ z[1] = Comma /\ z[2] = Word("mtime")
      /\ z[3] = Closing /\ z[4] = Closing
  BY <1>5, BodyWords
<1>8. StatBody(f) = (a \o t) \o z
  BY <1>1, <1>2, <1>4, <1>5, Zenon DEF StatBody, Opening, Closing, Comma, TypeWord
<1>9. PICK at : at = a \o t  OBVIOUS
<1>10. at \in Seq(BodyTokens) /\ Len(at) = 8 + e /\ (\A j \in 1 .. 8 : at[j] = a[j])
       /\ \A j \in 1 .. e : at[8 + j] = t[j]
  <2>1. a \in Seq(BodyTokens) /\ t \in Seq(BodyTokens)  BY <1>3, <1>6
  <2>2. a \o t \in Seq(BodyTokens) /\ Len(a \o t) = Len(a) + Len(t)  BY <2>1, Joined
  <2>3. \A j \in 1 .. Len(a) : (a \o t)[j] = a[j]  BY <2>1, Joined
  <2>4. \A j \in 1 .. Len(t) : (a \o t)[Len(a) + j] = t[j]  BY <2>1, Joined
  <2>5. Len(a) = 8 /\ Len(t) = e  BY <1>3, <1>6
  <2> QED  BY <1>9, <2>2, <2>3, <2>4, <2>5
<1>11. PICK d : d = at \o z  OBVIOUS
<1>12. d \in Seq(BodyTokens) /\ Len(d) = 8 + e + 4 /\ (\A j \in 1 .. 8 + e : d[j] = at[j])
       /\ \A j \in 1 .. 4 : d[8 + e + j] = z[j]
  <2>1. at \in Seq(BodyTokens) /\ z \in Seq(BodyTokens)  BY <1>7, <1>10
  <2>2. at \o z \in Seq(BodyTokens) /\ Len(at \o z) = Len(at) + Len(z)  BY <2>1, Joined
  <2>3. \A j \in 1 .. Len(at) : (at \o z)[j] = at[j]  BY <2>1, Joined
  <2>4. \A j \in 1 .. Len(z) : (at \o z)[Len(at) + j] = z[j]  BY <2>1, Joined
  <2>5. Len(at) = 8 + e /\ Len(z) = 4  BY <1>7, <1>10
  <2> QED  BY <1>11, <2>2, <2>3, <2>4, <2>5, Zenon
<1>13. d[9 + e] = Comma /\ d[10 + e] = Word("mtime") /\ d[11 + e] = Closing /\ d[12 + e] = Closing
  <2>1. 1 \in 1 .. 4 /\ 2 \in 1 .. 4 /\ 3 \in 1 .. 4 /\ 4 \in 1 .. 4
        /\ 8 + e + 1 = 9 + e /\ 8 + e + 2 = 10 + e /\ 8 + e + 3 = 11 + e /\ 8 + e + 4 = 12 + e
    BY <1>3
  <2>2. d[8 + e + 1] = z[1] /\ d[8 + e + 2] = z[2] /\ d[8 + e + 3] = z[3] /\ d[8 + e + 4] = z[4]
    BY <1>12, <2>1, Zenon
  <2> QED  BY <1>7, <2>1, <2>2, Zenon
<1>14. \A j \in 1 .. e : d[8 + j] = t[j]
  <2> TAKE j \in 1 .. e
  <2>1. 8 + j \in 1 .. 8 + e  BY <1>3
  <2> QED  BY <1>10, <1>12, <2>1
<1>15. \A j \in 1 .. 8 : d[j] = a[j]
  <2> TAKE j \in 1 .. 8
  <2>1. j \in 1 .. 8 + e  BY <1>3
  <2> QED  BY <1>10, <1>12, <2>1
<1>16. 1 \in 1 .. 8 /\ 2 \in 1 .. 8 /\ 3 \in 1 .. 8 /\ 4 \in 1 .. 8 /\ 5 \in 1 .. 8
       /\ 6 \in 1 .. 8 /\ 7 \in 1 .. 8 /\ 8 \in 1 .. 8
  OBVIOUS
<1>17. d[1] = Opening /\ d[2] = Word("result") /\ d[3] = Opening /\ d[4] = Word("type")
       /\ d[5] = Quote /\ d[6] = TypeWord(f) /\ d[7] = Quote /\ d[8] = Word("size")
  BY <1>6, <1>15, <1>16
<1>18. 8 + e + 4 = e + 12 /\ StatBody(f) = d  BY <1>3, <1>8, <1>9, <1>11
<1> QED  BY <1>1, <1>2, <1>3, <1>12, <1>13, <1>14, <1>17, <1>18

\* What stands before the brace that closes the object, if it has come.
LEMMA MatchedIs ==
  ASSUME NEW o \in Seq(BodyTokens), NEW m \in Nat, m >= 1,
         \A j \in 1 .. Len(o) : o[j] # Opening,
         \A j \in 1 .. Len(o) : j < m => o[j] # Closing,
         m <= Len(o) => o[m] = Closing
  PROVE  Matched(o) = IF m <= Len(o) THEN SubSeq(o, 1, m) ELSE NoText
<1> DEFINE Opens(i) == {k \in 1 .. i : o[k] = Opening}
           Closes(i) == {k \in 1 .. i : o[k] = Closing}
           Ends == {i \in DOMAIN o : Cardinality(Closes(i)) > Cardinality(Opens(i))}
<1>1. Matched(o) = IF Ends = {} THEN NoText ELSE SubSeq(o, 1, Min(Ends))
  BY Zenon DEF Matched, Opening, Closing
<1>2. PICK h \in Nat : h = Len(o) /\ DOMAIN o = 1 .. h  OBVIOUS
<1>3. \A i \in 1 .. h : Opens(i) = {}  BY <1>2
<1>4. \A i \in 1 .. h : i < m => Closes(i) = {}  BY <1>2
<1>5. m <= h => m \in Closes(m) /\ IsFiniteSet(Closes(m))
  <2>1. SUFFICES ASSUME m <= h PROVE m \in Closes(m) /\ IsFiniteSet(Closes(m))  OBVIOUS
  <2>2. o[m] = Closing /\ m \in 1 .. m  BY <1>2, <2>1
  <2>3. Closes(m) \subseteq 1 .. m /\ IsFiniteSet(1 .. m)  BY FS_Interval
  <2> QED  BY <2>2, <2>3, FS_Subset
<1>6. \A i \in 1 .. h : i < m => i \notin Ends
  <2> TAKE i \in 1 .. h
  <2> HAVE i < m
  <2>1. Cardinality(Closes(i)) = 0 /\ Cardinality(Opens(i)) = 0
    BY <1>3, <1>4, FS_EmptySet
  <2> QED  BY <2>1
<1>7. m <= h => m \in Ends
  <2>1. SUFFICES ASSUME m <= h PROVE m \in Ends  OBVIOUS
  <2>2. m \in 1 .. h  BY <2>1
  <2>3. Cardinality(Opens(m)) = 0  BY <1>3, <2>2, FS_EmptySet
  <2>4. Cardinality(Closes(m)) \in Nat /\ Cardinality(Closes(m)) # 0
    BY <1>5, <2>1, FS_CardinalityType, FS_EmptySet
  <2> QED  BY <1>2, <2>2, <2>3, <2>4
<1> HIDE DEF Opens, Closes
<1>8. Ends \subseteq 1 .. h  BY <1>2
<1> HIDE DEF Ends
<1>9. CASE m <= h
  <2>1. Ends \in SUBSET Int /\ m \in Ends /\ \A i \in Ends : m <= i  BY <1>6, <1>7, <1>8, <1>9
  <2>2. Min(Ends) = m /\ Ends # {}  BY <2>1, MinIs
  <2> QED  BY <1>1, <1>2, <1>9, <2>2
<1>10. CASE ~(m <= h)
  <2>1. Ends = {}  BY <1>6, <1>8, <1>10
  <2> QED  BY <1>1, <1>2, <1>10, <2>1
<1> QED  BY <1>9, <1>10

\* The object of which an answer tells the type and the size.
LEMMA ObjectGivesStat ==
  ASSUME NEW f \in Files \cup {Directory}, NEW e, e = DigitsOf(Len(f.data)),
         NEW object \in Seq(BodyTokens), Len(object) = e + 8,
         object[1] = Word("type"), object[2] = Quote, object[3] = TypeWord(f),
         object[4] = Quote, object[5] = Word("size"),
         \A j \in 1 .. e : object[5 + j] = Digits(Len(f.data))[j],
         object[6 + e] = Comma
  PROVE  /\ Quoted(AfterWord(object, "type")) = Value(<<TypeWord(f)>>)
         /\ Number(AfterWord(object, "size")) = Value(Len(f.data))
<1>1. e \in 1 .. 2  BY StatBodyFacts
<1>2. PICK h \in Nat : h = Len(object) /\ h = e + 8  BY <1>1
<1>3. Quote = Word("quote")  BY DEF Quote
<1>4. Quoted(AfterWord(object, "type")) = Value(<<TypeWord(f)>>)
  <2>1. Find(object, "type") = 1
    <3>1. 1 \in 1 .. Len(object)  BY <1>1, <1>2
    <3>2. \A j \in 1 .. Len(object) : j < 1 => object[j] # Word("type")  BY <1>2
    <3> QED  BY <3>1, <3>2, FindIs
  <2>2. PICK t : t = AfterWord(object, "type")  OBVIOUS
  <2>3. t = After(object, 1)  BY <2>1, <2>2 DEF AfterWord
  <2>4. 1 \in 0 .. Len(object) /\ Len(object) - 1 = e + 7  BY <1>1, <1>2
  <2>5. t \in Seq(BodyTokens) /\ Len(t) = e + 7 /\ \A j \in 1 .. e + 7 : t[j] = object[j + 1]
    <3>1. PICK o : o = object  OBVIOUS
    <3>3. 1 \in 0 .. Len(o) /\ o \in Seq(BodyTokens)  BY <1>1, <2>4, <3>1
    <3>4. /\ After(o, 1) \in Seq(BodyTokens) /\ Len(After(o, 1)) = Len(o) - 1
          /\ \A j \in 1 .. Len(o) - 1 : After(o, 1)[j] = o[j + 1]
      BY <3>3, AfterFacts
    <3>2. t \in Seq(BodyTokens) /\ Len(t) = Len(object) - 1
          /\ \A j \in 1 .. Len(object) - 1 : t[j] = object[j + 1]
      BY <2>3, <3>1, <3>4, Zenon
    <3> QED  BY <2>4, <3>2, Zenon
  <2>6. 1 \in 1 .. e + 7 /\ 2 \in 1 .. e + 7 /\ 3 \in 1 .. e + 7 /\ e + 7 \in Nat  BY <1>1
  <2>7. t[1] = Quote /\ t[2] = TypeWord(f) /\ t[3] = Quote  BY <2>5, <2>6
  <2>8. Find(t, "quote") = 1 /\ Has(t, "quote")
    <3>1. 1 \in 1 .. Len(t)  BY <2>5, <2>6
    <3>2. \A j \in 1 .. Len(t) : j < 1 => t[j] # Word("quote")  BY <2>5, <2>6
    <3> QED  BY <1>3, <2>5, <2>7, <3>1, <3>2, FindIs
  <2>9. PICK i : i = AfterWord(t, "quote")  OBVIOUS
  <2>10. i = After(t, 1)  BY <2>8, <2>9 DEF AfterWord
  <2>11. 1 \in 0 .. Len(t) /\ Len(t) - 1 = e + 6 /\ t \in Seq(BodyTokens)  BY <1>1, <2>5
  <2>12. i \in Seq(BodyTokens) /\ Len(i) = e + 6 /\ \A j \in 1 .. e + 6 : i[j] = t[j + 1]
    <3>1. 1 \in 0 .. Len(t) /\ t \in Seq(BodyTokens)  BY <1>1, <2>11
    <3>3. /\ After(t, 1) \in Seq(BodyTokens) /\ Len(After(t, 1)) = Len(t) - 1
          /\ \A j \in 1 .. Len(t) - 1 : After(t, 1)[j] = t[j + 1]
      BY <3>1, AfterFacts
    <3>2. i \in Seq(BodyTokens) /\ Len(i) = Len(t) - 1
          /\ \A j \in 1 .. Len(t) - 1 : i[j] = t[j + 1]
      BY <2>10, <3>3, Zenon
    <3> QED  BY <2>11, <3>2, Zenon
  <2>13. 1 \in 1 .. e + 6 /\ 2 \in 1 .. e + 6 /\ e + 6 \in Nat /\ e + 6 >= 2  BY <1>1
  <2>14. i[1] = TypeWord(f) /\ i[2] = Quote  BY <2>7, <2>12, <2>13
  <2>15. TypeWord(f) # Word("quote")
    <3>1. TypeWord(f) = Word("dir") \/ TypeWord(f) = Word("file")  BY DEF TypeWord
    <3> QED  BY <3>1, WordsDiffer
  <2>16. Find(i, "quote") = 2
    <3>1. 2 \in 1 .. Len(i)  BY <2>12, <2>13
    <3>2. \A j \in 1 .. Len(i) : j < 2 => i[j] # Word("quote")  BY <2>12, <2>13, <2>14, <2>15
    <3> QED  BY <1>3, <2>12, <2>14, <3>1, <3>2, FindIs
  <2>17. SubSeq(i, 1, 1) = <<TypeWord(f)>>
    <3>1. 1 \in 0 .. Len(i)  BY <2>12, <2>13
    <3>2. PICK p : p = SubSeq(i, 1, 1)  OBVIOUS
    <3>3. p \in Seq(BodyTokens) /\ Len(p) = 1 /\ \A j \in 1 .. 1 : p[j] = i[j]
      BY <2>12, <3>1, <3>2, PrefixBegins
    <3>4. p = <<p[1]>> /\ p[1] = TypeWord(f)  BY <2>14, <3>3
    <3> QED  BY <3>2, <3>4
  <2>18. 2 # 0 /\ 2 - 1 = 1  OBVIOUS
  <2>19. Quoted(t) = Value(SubSeq(i, 1, 1))
    BY <2>8, <2>9, <2>16, <2>18, Zenon DEF Quoted
  <2> QED  BY <2>2, <2>17, <2>19
<1>5. Number(AfterWord(object, "size")) = Value(Len(f.data))
  <2>1. Find(object, "size") = 5
    <3>1. 5 \in 1 .. Len(object)  BY <1>1, <1>2
    <3>2. Word("type") # Word("size") /\ Quote # Word("size") /\ TypeWord(f) # Word("size")
      <4>1. TypeWord(f) = Word("dir") \/ TypeWord(f) = Word("file")  BY DEF TypeWord
      <4> QED  BY <1>3, <4>1, WordsDiffer
    <3>3. \A j \in 1 .. Len(object) : j < 5 => object[j] # Word("size")
      <4> TAKE j \in 1 .. Len(object)
      <4> HAVE j < 5
      <4>1. j = 1 \/ j = 2 \/ j = 3 \/ j = 4  BY <1>2
      <4> QED  BY <3>2, <4>1
    <3> QED  BY <3>1, <3>3, FindIs
  <2>2. PICK t : t = AfterWord(object, "size")  OBVIOUS
  <2>3. t = After(object, 5)  BY <2>1, <2>2 DEF AfterWord
  <2>4. 5 \in 0 .. Len(object) /\ Len(object) - 5 = e + 3  BY <1>1, <1>2
  <2>5. t \in Seq(BodyTokens) /\ Len(t) = e + 3 /\ \A j \in 1 .. e + 3 : t[j] = object[j + 5]
    <3>1. PICK o : o = object  OBVIOUS
    <3>3. 5 \in 0 .. Len(o) /\ o \in Seq(BodyTokens)  BY <1>1, <2>4, <3>1
    <3>4. /\ After(o, 5) \in Seq(BodyTokens) /\ Len(After(o, 5)) = Len(o) - 5
          /\ \A j \in 1 .. Len(o) - 5 : After(o, 5)[j] = o[j + 5]
      BY <3>3, AfterFacts
    <3>2. t \in Seq(BodyTokens) /\ Len(t) = Len(object) - 5
          /\ \A j \in 1 .. Len(object) - 5 : t[j] = object[j + 5]
      BY <2>3, <3>1, <3>4, Zenon
    <3> QED  BY <2>4, <3>2, Zenon
  <2>6. PICK n \in Nat : n = Len(f.data) /\ n <= MaxLen  BY FilesFacts
  <2>7. \A j \in 1 .. e : t[j] = Digits(n)[j]
    <3> TAKE j \in 1 .. e
    <3>1. j \in 1 .. e + 3 /\ j + 5 = 5 + j  BY <1>1
    <3> QED  BY <2>5, <2>6, <3>1
  <2>8. t[e + 1][1] # "digit"
    <3>1. e + 1 \in 1 .. e + 3 /\ e + 1 + 5 = 6 + e  BY <1>1
    <3>2. t[e + 1] = Comma  BY <2>5, <3>1
    <3>3. Comma[1] # "digit"
      <4>1. PICK w : w = ","  BY Zenon
      <4>2. w # "digit"  BY <4>1, Zenon
      <4>3. Comma = <<w, 0>>  BY <4>1, Zenon DEF Comma, Word
      <4> QED  BY <4>2, <4>3
    <3> QED  BY <3>2, <3>3
  <2>9. Len(t) >= e + 1 /\ e = DigitsOf(n)  BY <1>1, <2>5, <2>6
  <2>10. Number(t) = Value(n)  BY <2>5, <2>6, <2>7, <2>8, <2>9, NumberIs
  <2> QED  BY <2>2, <2>6, <2>10
<1> QED  BY <1>4, <1>5

\* Of a stat that has come in part nothing is made, or what the server has.
LEMMA StatOfPart ==
  ASSUME NEW f \in Files \cup {Directory}, NEW b \in Seq(BodyTokens), Begins(b, StatBody(f))
  PROVE  StatResult(b) = Failed \/ StatResult(b) = Stat(f.dir, Len(f.data))
<1>1. PICK B : B = StatBody(f)  OBVIOUS
<1>2. PICK e \in 1 .. 2 : e = DigitsOf(Len(f.data))  BY StatBodyFacts
<1>3. /\ B \in Seq(BodyTokens) /\ Len(B) = e + 12
      /\ B[1] = Opening /\ B[2] = Word("result") /\ B[3] = Opening /\ B[4] = Word("type")
      /\ B[5] = Quote /\ B[6] = TypeWord(f) /\ B[7] = Quote /\ B[8] = Word("size")
      /\ \A j \in 1 .. e : B[8 + j] = Digits(Len(f.data))[j]
      /\ B[9 + e] = Comma /\ B[10 + e] = Word("mtime") /\ B[11 + e] = Closing
      /\ B[12 + e] = Closing
  BY <1>1, <1>2, StatBodyFacts
<1>4. Begins(b, B)  BY <1>1
<1>5. PICK result : result = AfterWord(b, "result")  OBVIOUS
<1>6. PICK o : o = AfterWord(result, "{")  BY Zenon
<1>7. PICK object : object = Matched(o)  OBVIOUS
<1>8. PICK type : type = Quoted(AfterWord(object, "type"))  OBVIOUS
<1>9. PICK size : size = Number(AfterWord(object, "size"))  OBVIOUS
<1>10. SUFFICES ASSUME Has(b, "result"), Has(object, "type"),
                       type.data \in {<<Word("dir")>>, <<Word("file")>>}
                PROVE  Stat(type.data = <<Word("dir")>>, size.data)
                         = Stat(f.dir, Len(f.data))
  BY <1>5, <1>6, <1>7, <1>8, <1>9, Zenon DEF StatResult
<1>11. Find(b, "result") = 2 /\ 2 <= Len(b)
  <2>1. 2 \in 1 .. Len(B)  BY <1>3
  <2>2. \A j \in 1 .. Len(B) : j < 2 => B[j] # Word("result")  BY <1>3, BracesDiffer
  <2>3. B \in Seq(BodyTokens) /\ B[2] = Word("result")  BY <1>3
  <2> QED  BY <1>4, <1>10, <2>1, <2>2, <2>3, FindBegun
<1>12. PICK R : R = After(B, 2)  OBVIOUS
<1>13. R \in Seq(BodyTokens) /\ Len(R) = e + 10 /\ \A j \in 1 .. e + 10 : R[j] = B[j + 2]
  <2>1. 2 \in 0 .. Len(B) /\ Len(B) - 2 = e + 10 /\ B \in Seq(BodyTokens)  BY <1>3
  <2>2. R \in Seq(BodyTokens) /\ Len(R) = Len(B) - 2
        /\ \A j \in 1 .. Len(B) - 2 : R[j] = B[j + 2]
    BY <1>12, <2>1, AfterFacts
  <2> QED  BY <2>1, <2>2, Zenon
<1>14. result \in Seq(BodyTokens) /\ Begins(result, R)
  <2>1. result = After(b, 2) /\ 2 \in 0 .. Len(b)  BY <1>5, <1>11 DEF AfterWord
  <2>2. B \in Seq(BodyTokens)  BY <1>3
  <2> QED  BY <1>4, <1>12, <2>1, <2>2, AfterFacts, AfterBegins
<1>15. PICK br : br = "{" /\ Opening = Word(br)  BY Zenon DEF Opening
<1>16. /\ Find(result, br) = IF 1 <= Len(result) THEN 1 ELSE 0
       /\ o = After(result, Find(result, br))
  <2>1. 1 \in 1 .. Len(R) /\ R \in Seq(BodyTokens)  BY <1>13
  <2>2. R[1] = Opening
    <3>1. 1 \in 1 .. e + 10 /\ 1 + 2 = 3  OBVIOUS
    <3> QED  BY <1>3, <1>13, <3>1
  <2>3. \A j \in 1 .. Len(R) : j < 1 => R[j] # Word(br)  BY <1>13
  <2>4. Find(result, br) = IF 1 <= Len(result) THEN 1 ELSE 0
    <3>1. Opening = Word(br)  BY <1>15, Zenon
    <3> QED  BY <1>14, <2>1, <2>2, <2>3, <3>1, FindBegun
  <2>5. o = After(result, Find(result, br))  BY <1>6, <1>15, Zenon DEF AfterWord
  <2> QED  BY <2>4, <2>5
<1>17. PICK O : O = After(R, 1)  OBVIOUS
<1>18. O \in Seq(BodyTokens) /\ Len(O) = e + 9 /\ \A j \in 1 .. e + 9 : O[j] = B[j + 3]
  <2>1. 1 \in 0 .. Len(R) /\ Len(R) - 1 = e + 9 /\ R \in Seq(BodyTokens)  BY <1>13
  <2>2. O \in Seq(BodyTokens) /\ Len(O) = Len(R) - 1
        /\ \A j \in 1 .. Len(R) - 1 : O[j] = R[j + 1]
    BY <1>17, <2>1, AfterFacts
  <2>3. O \in Seq(BodyTokens) /\ Len(O) = e + 9 /\ \A j \in 1 .. e + 9 : O[j] = R[j + 1]
    BY <2>1, <2>2, Zenon
  <2>4. ASSUME NEW j \in 1 .. e + 9 PROVE O[j] = B[j + 3]
    <3>1. j + 1 \in 1 .. e + 10 /\ (j + 1) + 2 = j + 3  OBVIOUS
    <3> QED  BY <1>13, <2>3, <3>1
  <2> QED  BY <2>3, <2>4
<1>19. o \in Seq(BodyTokens) /\ Begins(o, O)
  <2>1. CASE 1 <= Len(result)
    <3>1. o = After(result, 1) /\ 1 \in 0 .. Len(result)  BY <1>14, <1>16, <2>1
    <3>2. R \in Seq(BodyTokens)  BY <1>13
    <3> QED  BY <1>14, <1>17, <3>1, <3>2, AfterFacts, AfterBegins
  <2>2. CASE ~(1 <= Len(result))
    <3>1. Len(result) = 0 /\ 0 \in 0 .. Len(result)  BY <1>14, <2>2
    <3>2. o = After(result, 0)  BY <1>16, <2>2
    <3>3. result \in Seq(BodyTokens)  BY <1>14
    <3>4. After(result, 0) \in Seq(BodyTokens) /\ Len(After(result, 0)) = Len(result) - 0
      BY <3>1, <3>3, AfterFacts
    <3>5. o \in Seq(BodyTokens) /\ Len(o) = 0  BY <3>1, <3>2, <3>4
    <3> QED  BY <1>18, <3>5 DEF Begins
  <2> QED  BY <2>1, <2>2
<1>20. Len(o) \in Nat /\ Len(o) <= e + 9 /\ \A j \in 1 .. Len(o) : o[j] = B[j + 3]
  <2>1. Len(o) \in Nat /\ Len(o) <= e + 9  BY <1>18, <1>19 DEF Begins
  <2>2. ASSUME NEW j \in 1 .. Len(o) PROVE o[j] = B[j + 3]
    <3>1. j \in 1 .. e + 9  BY <2>1
    <3> QED  BY <1>18, <1>19, <3>1 DEF Begins
  <2> QED  BY <2>1, <2>2
<1>21. B[8 + 1] = Digits(Len(f.data))[1] /\ (e = 2 => B[8 + 2] = Digits(Len(f.data))[2])
  BY <1>3
<1>22. \A j \in 4 .. 10 + e : B[j] # Opening /\ B[j] # Closing
  <2>1. TypeWord(f) = Word("dir") \/ TypeWord(f) = Word("file")  BY DEF TypeWord
  <2>2. TypeWord(f) # Opening /\ TypeWord(f) # Closing
    <3>1. Word("dir") # Opening /\ Word("dir") # Closing  BY Zenon DEF Opening, Closing, Word
    <3>2. Word("file") # Opening /\ Word("file") # Closing  BY Zenon DEF Opening, Closing, Word
    <3> QED  BY <2>1, <3>1, <3>2
  <2>3. /\ Word("type") # Opening /\ Word("type") # Closing /\ Word("size") # Opening
        /\ Word("size") # Closing /\ Word("mtime") # Opening /\ Word("mtime") # Closing
        /\ Comma # Opening /\ Comma # Closing
    BY Zenon DEF Opening, Closing, Comma, Word
  <2>4. \A j \in 1 .. e : B[8 + j] # Opening /\ B[8 + j] # Closing
    <3> TAKE j \in 1 .. e
    <3>1. PICK n \in Nat : n = Len(f.data) /\ n <= MaxLen  BY FilesFacts
    <3>2. B[8 + j] = Digits(n)[j] /\ Digits(n)[j][1] = "digit"  BY <1>2, <1>3, <3>1, DigitsFacts
    <3>3. Opening[1] # "digit" /\ Closing[1] # "digit"
      <4>1. PICK v, w : v = "{" /\ w = "}"  BY Zenon
      <4>2. v # "digit" /\ w # "digit"  BY <4>1, Zenon
      <4>3. Opening = <<v, 0>> /\ Closing = <<w, 0>>  BY <4>1, Zenon DEF Opening, Closing, Word
      <4> QED  BY <4>2, <4>3
    <3> QED  BY <3>2, <3>3
  <2> TAKE j \in 4 .. 10 + e
  <2>5. CASE j \in 4 .. 8
    <3>1. j = 4 \/ j = 5 \/ j = 6 \/ j = 7 \/ j = 8  BY <2>5
    <3> QED  BY <1>3, <2>2, <2>3, <3>1, BracesDiffer
  <2>6. CASE j \in 9 .. 8 + e
    <3>1. j - 8 \in 1 .. e /\ 8 + (j - 8) = j  BY <2>6
    <3>2. B[8 + (j - 8)] # Opening /\ B[8 + (j - 8)] # Closing  BY <2>4, <3>1, Zenon
    <3> QED  BY <3>1, <3>2
  <2>7. CASE j = 9 + e \/ j = 10 + e  BY <1>3, <2>3, <2>7
  <2> QED  BY <2>5, <2>6, <2>7
<1>23. PICK m \in Nat : m = e + 8  OBVIOUS
<1>24. object = IF m <= Len(o) THEN SubSeq(o, 1, m) ELSE NoText
  <2>1. \A j \in 1 .. Len(o) : o[j] # Opening
    <3> TAKE j \in 1 .. Len(o)
    <3>1. j + 3 \in 4 .. 10 + e \/ j + 3 = 11 + e \/ j + 3 = 12 + e  BY <1>20
    <3> QED  BY <1>3, <1>20, <1>22, <3>1, BracesDiffer
  <2>2. \A j \in 1 .. Len(o) : j < m => o[j] # Closing
    <3> TAKE j \in 1 .. Len(o)
    <3> HAVE j < m
    <3>1. j + 3 \in 4 .. 10 + e  BY <1>20, <1>23
    <3> QED  BY <1>20, <1>22, <3>1
  <2>3. m <= Len(o) => o[m] = Closing
    <3>1. SUFFICES ASSUME m <= Len(o) PROVE o[m] = Closing  OBVIOUS
    <3>2. m \in 1 .. Len(o) /\ m + 3 = 11 + e  BY <1>20, <1>23, <3>1
    <3> QED  BY <1>3, <1>20, <3>2
  <2>4. m >= 1 /\ o \in Seq(BodyTokens)  BY <1>19, <1>23
  <2> QED  BY <1>7, <2>1, <2>2, <2>3, <2>4, MatchedIs
<1>25. m <= Len(o)
  <2>1. SUFFICES ASSUME ~(m <= Len(o)) PROVE FALSE  OBVIOUS
  <2>2. object = <<>>  BY <1>24, <2>1 DEF NoText
  <2>3. \A j \in 1 .. Len(object) : object[j] # Word("type")  BY <2>2
  <2> QED  BY <1>10, <2>3, FindNone
<1>26. object \in Seq(BodyTokens) /\ Len(object) = m /\ \A j \in 1 .. m : object[j] = B[j + 3]
  <2>1. m \in 0 .. Len(o) /\ object = SubSeq(o, 1, m)  BY <1>20, <1>24, <1>25
  <2>2. object \in Seq(BodyTokens) /\ Len(object) = m /\ \A j \in 1 .. m : object[j] = o[j]
    BY <1>19, <2>1, PrefixBegins
  <2>3. ASSUME NEW j \in 1 .. m PROVE object[j] = B[j + 3]
    <3>1. j \in 1 .. Len(o)  BY <1>20, <1>25
    <3> QED  BY <1>20, <2>2, <3>1
  <2> QED  BY <2>2, <2>3
<1>27. object[1] = Word("type") /\ object[2] = Quote /\ object[3] = TypeWord(f)
       /\ object[4] = Quote /\ object[5] = Word("size")
  <2>1. 1 \in 1 .. m /\ 2 \in 1 .. m /\ 3 \in 1 .. m /\ 4 \in 1 .. m /\ 5 \in 1 .. m  BY <1>23
  <2>2. 1 + 3 = 4 /\ 2 + 3 = 5 /\ 3 + 3 = 6 /\ 4 + 3 = 7 /\ 5 + 3 = 8  OBVIOUS
  <2> QED  BY <1>3, <1>26, <2>1, <2>2
<1>28. \A j \in 1 .. e : object[5 + j] = Digits(Len(f.data))[j]
  <2> TAKE j \in 1 .. e
  <2>1. 5 + j \in 1 .. m /\ 5 + j + 3 = 8 + j  BY <1>23
  <2> QED  BY <1>3, <1>26, <2>1
<1>29. object[6 + e] = Comma
  <2>1. 6 + e \in 1 .. m /\ 6 + e + 3 = 9 + e  BY <1>23
  <2> QED  BY <1>3, <1>26, <2>1
<1>30. type = Value(<<TypeWord(f)>>) /\ size = Value(Len(f.data))
  <2>1. Len(object) = e + 8  BY <1>23, <1>26
  <2> QED  BY <1>2, <1>8, <1>9, <1>26, <1>27, <1>28, <1>29, <2>1, ObjectGivesStat
<1>31. type.data = <<TypeWord(f)>> /\ size.data = Len(f.data)  BY <1>30, FailedIsNotOk
<1>32. f.dir \in BOOLEAN  BY FilesFacts
<1>33. (type.data = <<Word("dir")>>) = f.dir
  <2>1. CASE f.dir = TRUE
    <3>1. TypeWord(f) = Word("dir")  BY <2>1 DEF TypeWord
    <3> QED  BY <1>31, <2>1, <3>1
  <2>2. CASE f.dir = FALSE
    <3>1. TypeWord(f) = Word("file")  BY <2>2 DEF TypeWord
    <3>2. Word("file") # Word("dir")  BY WordsDiffer
    <3>3. <<Word("file")>> # <<Word("dir")>>  BY <3>2
    <3> QED  BY <1>31, <2>2, <3>1, <3>3
  <2> QED  BY <1>32, <2>1, <2>2
<1> QED  BY <1>31, <1>33, Zenon

-----------------------------------------------------------------------------
(***************************************************************************)
(* Chunks: of the pieces that have come, the beginning of what was sent.   *)
(***************************************************************************)
Piece(text, i, rest) ==
  IF i > Len(text) \/ text[i][2] = 0 THEN <<>>
  ELSE SubSeq(text, i + 1, Min({i + text[i][2], Len(text)}))
         \o rest[Min({i + text[i][2], Len(text)}) + 1]

\* What follows a piece lies behind it.
LEMMA NextPiece ==
  ASSUME NEW S, NEW text \in Seq(S), \A j \in 1 .. Len(text) : text[j][2] \in Nat,
         NEW i \in 1 .. Len(text), text[i][2] # 0
  PROVE  Min({i + text[i][2], Len(text)}) + 1 \in i + 1 .. Len(text) + 1
<1>1. PICK n \in Nat : n = text[i][2]  OBVIOUS
<1>2. PICK h \in Nat : h = Len(text)  OBVIOUS
<1>3. PICK k \in Nat : k = i + n /\ k > i  BY <1>1
<1>4. Min({k, h}) = IF k <= h THEN k ELSE h  BY MinOfTwo
<1> QED  BY <1>1, <1>2, <1>3, <1>4

LEMMA PieceDepends ==
  ASSUME NEW S, NEW text \in Seq(S), \A j \in 1 .. Len(text) : text[j][2] \in Nat,
         NEW i \in 1 .. Len(text) + 1, NEW f, NEW g,
         \A j \in i + 1 .. Len(text) + 1 : f[j] = g[j]
  PROVE  Piece(text, i, f) = Piece(text, i, g)
<1>1. CASE i > Len(text) \/ text[i][2] = 0  BY <1>1 DEF Piece
<1>2. CASE ~(i > Len(text) \/ text[i][2] = 0)
  <2>1. i \in 1 .. Len(text) /\ text[i][2] # 0  BY <1>2
  <2>2. PICK k : k = Min({i + text[i][2], Len(text)}) + 1  OBVIOUS
  <2>3. f[k] = g[k]  BY <2>1, <2>2, NextPiece
  <2> QED  BY <1>2, <2>2, <2>3, Zenon DEF Piece
<1> QED  BY <1>1, <1>2

\* The pieces exist: from the last place to the first.
LEMMA PiecesExist ==
  ASSUME NEW S, NEW text \in Seq(S), \A j \in 1 .. Len(text) : text[j][2] \in Nat
  PROVE  \E rest : rest = [i \in 1 .. Len(text) + 1 |-> Piece(text, i, rest)]
<1>1. PICK h \in Nat : h = Len(text)  OBVIOUS
<1> DEFINE K == {k \in 1 .. h + 1 : \E f : f = [i \in k .. h + 1 |-> Piece(text, i, f)]}
<1>2. h + 1 \in K
  <2>1. PICK f : f = [i \in h + 1 .. h + 1 |-> <<>>]  OBVIOUS
  <2>2. \A i \in h + 1 .. h + 1 : Piece(text, i, f) = <<>>
    <3> TAKE i \in h + 1 .. h + 1
    <3>1. i > Len(text)  BY <1>1
    <3> QED  BY <3>1 DEF Piece
  <2>3. f = [i \in h + 1 .. h + 1 |-> Piece(text, i, f)]  BY <2>1, <2>2, Zenon
  <2>4. h + 1 \in 1 .. h + 1  OBVIOUS
  <2> QED  BY <2>3, <2>4
<1>3. PICK k \in K : \A j \in K : k <= j
  <2>1. K \subseteq 1 .. h + 1  BY Zenon
  <2> HIDE DEF K
  <2>2. K \in SUBSET Nat /\ K # {}  BY <1>2, <2>1
  <2> QED  BY <2>2, Least
<1>4. CASE k = 1
  <2>1. \E f : f = [i \in 1 .. h + 1 |-> Piece(text, i, f)]  BY <1>3, <1>4, Zenon
  <2> QED  BY <1>1, <2>1
<1>5. CASE k # 1
  <2>1. k \in 2 .. h + 1 /\ k - 1 \in 1 .. h + 1  BY <1>5
  <2>2. PICK f : f = [i \in k .. h + 1 |-> Piece(text, i, f)]  BY <1>3, Zenon
  <2>3. PICK g : g = [i \in k - 1 .. h + 1 |-> IF i = k - 1 THEN Piece(text, k - 1, f) ELSE f[i]]
    OBVIOUS
  <2>4. \A j \in k .. h + 1 : g[j] = f[j] /\ f[j] = Piece(text, j, f)
    <3> TAKE j \in k .. h + 1
    <3>1. j \in k - 1 .. h + 1 /\ j # k - 1  BY <2>1
    <3>2. f[j] = Piece(text, j, f)  BY <2>2, Zenon
    <3>3. g[j] = f[j]  BY <2>3, <3>1, Zenon
    <3> QED  BY <3>2, <3>3
  <2>5. \A i \in k - 1 .. h + 1 : g[i] = Piece(text, i, g)
    <3> TAKE i \in k - 1 .. h + 1
    <3>1. i \in 1 .. Len(text) + 1  BY <1>1, <2>1
    <3>2. \A j \in i + 1 .. Len(text) + 1 : f[j] = g[j]
      <4> TAKE j \in i + 1 .. Len(text) + 1
      <4>1. j \in k .. h + 1  BY <1>1, <2>1
      <4> QED  BY <2>4, <4>1
    <3>3. Piece(text, i, f) = Piece(text, i, g)  BY <3>1, <3>2, PieceDepends
    <3>4. g[i] = Piece(text, i, f)
      <4>1. CASE i = k - 1  BY <2>3, <4>1, Zenon
      <4>2. CASE i # k - 1
        <5>1. i \in k .. h + 1  BY <2>1, <4>2
        <5> QED  BY <2>4, <5>1
      <4> QED  BY <4>1, <4>2
    <3> QED  BY <3>3, <3>4
  <2>6. g = [i \in k - 1 .. h + 1 |-> Piece(text, i, g)]
    <3>1. g = [i \in k - 1 .. h + 1 |-> g[i]]  BY <2>3
    <3> QED  BY <2>5, <3>1, Zenon
  <2>7. k - 1 \in K  BY <2>1, <2>6, Zenon
  <2>8. k <= k - 1  BY <1>3, <2>7
  <2> QED  BY <2>1, <2>8
<1> QED  BY <1>4, <1>5

LEMMA UnchunkedIs ==
  ASSUME NEW S, NEW text \in Seq(S), \A j \in 1 .. Len(text) : text[j][2] \in Nat
  PROVE  \E rest : /\ Unchunked(text) = rest[1]
                   /\ \A i \in 1 .. Len(text) + 1 : rest[i] = Piece(text, i, rest)
<1> DEFINE Rest(f) == [i \in 1 .. Len(text) + 1 |-> Piece(text, i, f)]
<1>1. Unchunked(text) = (CHOOSE f : f = Rest(f))[1]  BY Zenon DEF Unchunked, Piece
<1>2. PICK r : r = (CHOOSE f : f = Rest(f))  OBVIOUS
<1>3. \E f : f = Rest(f)  BY PiecesExist
<1>4. r = Rest(r)  BY <1>2, <1>3
<1>5. \A i \in 1 .. Len(text) + 1 : r[i] = Piece(text, i, r)  BY <1>4, Zenon
<1> QED  BY <1>1, <1>2, <1>5

LEMMA SliceFacts ==
  ASSUME NEW S, NEW s \in Seq(S), NEW a \in Nat, NEW b \in Nat, a <= b, b <= Len(s)
  PROVE  /\ SubSeq(s, a + 1, b) \in Seq(S) /\ Len(SubSeq(s, a + 1, b)) = b - a
         /\ \A j \in 1 .. b - a : SubSeq(s, a + 1, b)[j] = s[a + j]
<1>1. PICK h \in Nat : h = Len(s)  OBVIOUS
<1>2. PICK d \in Nat : d = b - a  OBVIOUS
<1>3. PICK x \in Nat : x = a + 1 /\ x >= 1  OBVIOUS
<1>4. b <= h /\ b - x + 1 = d /\ x <= b + 1  BY <1>1, <1>2, <1>3
<1>5. SubSeq(s, x, b) \in Seq(S) /\ Len(SubSeq(s, x, b)) = d
  BY <1>1, <1>3, <1>4
<1>6. \A j \in 1 .. d : SubSeq(s, x, b)[j] = s[x + j - 1]
  BY <1>1, <1>3, <1>4
<1>7. \A j \in 1 .. d : x + j - 1 = a + j  BY <1>3
<1> QED  BY <1>2, <1>3, <1>5, <1>6, <1>7

\* s is body in two chunks, the first of m tokens, and an empty one.
ChunksOf(s, body, m) ==
  /\ Len(s) = Len(body) + 3
  /\ s[1] = <<"chunk", m>> /\ s[m + 2] = <<"chunk", Len(body) - m>>
  /\ s[Len(body) + 3] = <<"chunk", 0>>
  /\ \A j \in 1 .. m : s[1 + j] = body[j]
  /\ \A j \in m + 1 .. Len(body) : s[2 + j] = body[j]

LEMMA UnchunkedBegins ==
  ASSUME NEW S, NEW text \in Seq(S), NEW s \in Seq(S), \A t \in S : t[2] \in Nat,
         Begins(text, s), NEW T, NEW body \in Seq(T), NEW m \in Nat, m >= 1, m < Len(body),
         ChunksOf(s, body, m)
  PROVE  Unchunked(text) \in Seq(S) /\ Begins(Unchunked(text), body)
<1>1. PICK h \in Nat : h = Len(text)  OBVIOUS
<1>2. PICK g \in Nat : g = Len(body) /\ m < g  OBVIOUS
<1>3. /\ h <= g + 3 /\ Len(s) = g + 3 /\ \A j \in 1 .. h : text[j] = s[j]
      /\ s[1] = <<"chunk", m>> /\ s[m + 2] = <<"chunk", g - m>> /\ s[g + 3] = <<"chunk", 0>>
      /\ \A j \in 1 .. m : s[1 + j] = body[j]
      /\ \A j \in m + 1 .. g : s[2 + j] = body[j]
  BY <1>1, <1>2 DEF Begins, ChunksOf
<1>4. \A j \in 1 .. Len(text) : text[j][2] \in Nat  OBVIOUS
<1>5. PICK r : /\ Unchunked(text) = r[1]
               /\ \A i \in 1 .. Len(text) + 1 : r[i] = Piece(text, i, r)
  BY <1>4, UnchunkedIs
<1>6. \A i \in 1 .. h + 1 : r[i] = Piece(text, i, r)  BY <1>1, <1>5
<1>7. r[h + 1] = <<>>
  <2>1. h + 1 \in 1 .. h + 1 /\ h + 1 > Len(text)  BY <1>1
  <2> QED  BY <1>6, <2>1 DEF Piece
\* The piece at i, of n tokens, and the place it ends at.
<1>8. ASSUME NEW i \in 1 .. h, NEW n \in Nat, n # 0, text[i][2] = n,
             NEW e \in Nat, e = IF i + n <= h THEN i + n ELSE h
      PROVE  r[i] = SubSeq(text, i + 1, e) \o r[e + 1]
  <2>1. PICK k \in Nat : k = i + n  OBVIOUS
  <2>2. Min({k, h}) = e  BY <1>8, <2>1, MinOfTwo
  <2>3. i \in 1 .. h + 1 /\ ~(i > Len(text)) /\ text[i][2] # 0  BY <1>1, <1>8
  <2>4. r[i] = Piece(text, i, r)  BY <1>6, <2>3
  <2>5. Piece(text, i, r) = SubSeq(text, i + 1, Min({i + text[i][2], Len(text)}))
                              \o r[Min({i + text[i][2], Len(text)}) + 1]
    BY <2>3, Zenon DEF Piece
  <2>6. Min({i + text[i][2], Len(text)}) = e  BY <1>1, <1>8, <2>1, <2>2
  <2> QED  BY <2>4, <2>5, <2>6
<1>9. CASE h = 0
  <2>1. Unchunked(text) = <<>>  BY <1>5, <1>7, <1>9
  <2> QED  BY <1>2, <2>1 DEF Begins
<1>10. CASE h >= 1 /\ h <= m + 1
  <2>1. 1 \in 1 .. h /\ text[1][2] = m /\ m # 0  BY <1>3, <1>10
  <2>2. PICK e \in Nat : e = h  OBVIOUS
  <2>3. e = IF 1 + m <= h THEN 1 + m ELSE h  BY <1>10, <2>2
  <2>4. r[1] = SubSeq(text, 1 + 1, e) \o r[e + 1]  BY <1>8, <2>1, <2>3
  <2>5. PICK p : p = SubSeq(text, 1 + 1, e)  OBVIOUS
  <2>6. p \in Seq(S) /\ Len(p) = h - 1 /\ \A j \in 1 .. h - 1 : p[j] = text[1 + j]
    <3>1. 1 \in Nat /\ 1 <= e /\ e <= Len(text)  BY <1>1, <1>10, <2>2
    <3> QED  BY <2>2, <2>5, <3>1, SliceFacts
  <2>7. p \o <<>> = p  BY <2>6
  <2>8. Unchunked(text) = p  BY <1>5, <1>7, <2>2, <2>4, <2>5, <2>7
  <2>9. ASSUME NEW j \in 1 .. h - 1 PROVE p[j] = body[j]
    <3>1. 1 + j \in 1 .. h /\ j \in 1 .. m  BY <1>10
    <3> QED  BY <1>3, <2>6, <3>1
  <2>10. Len(p) <= Len(body)  BY <1>2, <1>10, <2>6
  <2> QED  BY <2>6, <2>8, <2>9, <2>10 DEF Begins
<1>11. CASE h >= m + 2
  <2>1. 1 \in 1 .. h /\ text[1][2] = m /\ m # 0  BY <1>3, <1>11
  <2>2. PICK e \in Nat : e = m + 1  OBVIOUS
  <2>3. e = IF 1 + m <= h THEN 1 + m ELSE h  BY <1>11, <2>2
  <2>4. r[1] = SubSeq(text, 1 + 1, e) \o r[e + 1]  BY <1>8, <2>1, <2>3
  <2>5. PICK p : p = SubSeq(text, 1 + 1, e)  OBVIOUS
  <2>6. p \in Seq(S) /\ Len(p) = m /\ \A j \in 1 .. m : p[j] = text[1 + j]
    <3>1. 1 \in Nat /\ 1 <= e /\ e <= Len(text) /\ e - 1 = m  BY <1>1, <1>11, <2>2
    <3>2. p \in Seq(S) /\ Len(p) = e - 1 /\ \A j \in 1 .. e - 1 : p[j] = text[1 + j]
      BY <2>5, <3>1, SliceFacts
    <3> QED  BY <3>1, <3>2
  <2>7. PICK i \in 1 .. h : i = m + 2  BY <1>11
  <2>22. g - m \in Nat /\ g - m # 0  BY <1>2
  <2>8. PICK n \in Nat : n = g - m /\ n # 0  BY <2>22
  <2>9. text[i][2] = n
    <3>1. text[i] = <<"chunk", n>>  BY <1>3, <2>7, <2>8
    <3> QED  BY <3>1
  <2>10. PICK d \in Nat : d = IF i + n <= h THEN i + n ELSE h  OBVIOUS
  <2>11. r[i] = SubSeq(text, i + 1, d) \o r[d + 1]  BY <1>8, <2>8, <2>9, <2>10
  <2>12. PICK q : q = SubSeq(text, i + 1, d)  OBVIOUS
  <2>13. i <= d /\ d <= h /\ i \in Nat /\ d <= g + 2  BY <1>3, <2>7, <2>8, <2>10
  <2>14. q \in Seq(S) /\ Len(q) = d - i /\ \A j \in 1 .. d - i : q[j] = text[i + j]
    <3>1. d <= Len(text) /\ i <= d /\ i \in Nat /\ d \in Nat  BY <1>1, <2>10, <2>13
    <3>2. /\ SubSeq(text, i + 1, d) \in Seq(S) /\ Len(SubSeq(text, i + 1, d)) = d - i
          /\ \A j \in 1 .. d - i : SubSeq(text, i + 1, d)[j] = text[i + j]
      BY <3>1, SliceFacts
    <3> QED  BY <2>12, <3>2, Zenon
  <2>15. r[d + 1] = <<>>
    <3>1. CASE d = h  BY <1>7, <3>1
    <3>2. CASE d # h
      <4>1. h = g + 3 /\ d + 1 = g + 3 /\ g + 3 \in 1 .. h  BY <1>3, <2>7, <2>8, <2>10, <3>2
      <4>2. text[d + 1] = <<"chunk", 0>>  BY <1>3, <4>1
      <4>3. text[d + 1][2] = 0  BY <4>2
      <4>4. d + 1 \in 1 .. h + 1  BY <4>1
      <4> QED  BY <1>6, <4>3, <4>4 DEF Piece
    <3> QED  BY <3>1, <3>2
  <2>16. q \o <<>> = q  BY <2>14
  <2>17. Unchunked(text) = p \o q
    <3>1. e + 1 = i  BY <2>2, <2>7
    <3> QED  BY <1>5, <2>4, <2>5, <2>11, <2>12, <2>15, <2>16, <3>1
  <2>18. PICK u : u = p \o q  OBVIOUS
  <2>19. u \in Seq(S) /\ Len(u) = m + (d - i) /\ (\A j \in 1 .. m : u[j] = p[j])
         /\ \A j \in 1 .. d - i : u[m + j] = q[j]
    <3>1. p \in Seq(S) /\ q \in Seq(S)  BY <2>6, <2>14
    <3>2. p \o q \in Seq(S) /\ Len(p \o q) = Len(p) + Len(q)  BY <3>1, Joined
    <3>3. \A j \in 1 .. Len(p) : (p \o q)[j] = p[j]  BY <3>1, Joined
    <3>4. \A j \in 1 .. Len(q) : (p \o q)[Len(p) + j] = q[j]  BY <3>1, Joined
    <3>5. Len(p) = m /\ Len(q) = d - i  BY <2>6, <2>14
    <3> QED  BY <2>18, <3>2, <3>3, <3>4, <3>5, Zenon
  <2>20. Len(u) <= g /\ Len(u) = m + (d - i)  BY <2>7, <2>13, <2>19
  <2>21. ASSUME NEW j \in 1 .. Len(u) PROVE u[j] = body[j]
    <3>1. CASE j <= m
      <4>1. j \in 1 .. m /\ 1 + j \in 1 .. h  BY <1>11, <2>20, <3>1
      <4>2. u[j] = p[j] /\ p[j] = text[1 + j]  BY <2>6, <2>19, <4>1, Zenon
      <4> QED  BY <1>3, <4>1, <4>2
    <3>2. CASE ~(j <= m)
      <4>1. PICK l \in Nat : l = j - m /\ l \in 1 .. d - i /\ m + l = j
        BY <2>13, <2>20, <3>2
      <4>2. u[j] = q[l] /\ q[l] = text[i + l]  BY <2>14, <2>19, <4>1
      <4>3. i + l = 2 + j /\ 2 + j \in 1 .. h /\ j \in m + 1 .. g
        BY <2>7, <2>13, <2>20, <3>2, <4>1
      <4> QED  BY <1>3, <4>2, <4>3
    <3> QED  BY <2>20, <3>1, <3>2
  <2>23. Begins(u, body)  BY <1>2, <2>20, <2>21 DEF Begins
  <2> QED  BY <2>17, <2>18, <2>19, <2>23
<1> QED  BY <1>9, <1>10, <1>11

-----------------------------------------------------------------------------
(***************************************************************************)
(* An answer, and the body in a part of it.                                *)
(***************************************************************************)
Version == Word("HTTP/1.")
AnswerTokens ==
  {Version, Word("space"), Word("blank"), Word("chunked")}
    \cup {<<"status", n>> : n \in Nat} \cup {<<"chunk", n>> : n \in Nat} \cup BodyTokens

LEMMA AnswerWords ==
  /\ Version \in AnswerTokens /\ Word("space") \in AnswerTokens /\ Word("blank") \in AnswerTokens
  /\ Word("chunked") \in AnswerTokens
  /\ \A n \in Nat : <<"status", n>> \in AnswerTokens /\ <<"chunk", n>> \in AnswerTokens
  /\ BodyTokens \subseteq AnswerTokens
  /\ \A t \in AnswerTokens : t[2] \in Nat
<1>1. PICK K : BodyTokens = K \X Nat  BY Zenon DEF BodyTokens
<1>2. \A t \in BodyTokens : t[2] \in Nat  BY <1>1
<1>3. PICK w : Version = <<w, 0>>  BY Zenon DEF Version, Word
<1>4. Version[2] \in Nat /\ Word("space")[2] \in Nat /\ Word("blank")[2] \in Nat
      /\ Word("chunked")[2] \in Nat
  BY <1>3 DEF Word
<1>5. \A n \in Nat : <<"status", n>>[2] \in Nat /\ <<"chunk", n>>[2] \in Nat  OBVIOUS
<1>6. \A t \in AnswerTokens : t[2] \in Nat  BY <1>2, <1>4, <1>5 DEF AnswerTokens
<1>7. Version \in AnswerTokens /\ Word("space") \in AnswerTokens
      /\ Word("blank") \in AnswerTokens /\ Word("chunked") \in AnswerTokens
  BY Zenon DEF AnswerTokens
<1>8. \A n \in Nat : <<"status", n>> \in AnswerTokens /\ <<"chunk", n>> \in AnswerTokens
  BY DEF AnswerTokens
<1>9. BodyTokens \subseteq AnswerTokens  BY DEF AnswerTokens
<1> QED  BY <1>6, <1>7, <1>8, <1>9

\* The words of the head are not those of a body.
LEMMA HeadDiffers ==
  /\ Version # Word("space") /\ Version # Word("blank") /\ Version # Word("chunked")
  /\ Version[1] # "status" /\ Word("chunked") \notin BodyTokens
  /\ Word("space") # Word("blank") /\ Word("space") # Word("chunked")
  /\ Word("blank") # Word("chunked")
  /\ \A n : <<"status", n>> # Word("blank") /\ <<"status", n>> # Word("chunked")
<1>1. Version # Word("space") /\ Version # Word("blank") /\ Version # Word("chunked")
  BY Zenon DEF Version, Word
<1>2. Version[1] # "status"
  <2>1. PICK w : w = "HTTP/1."  BY Zenon
  <2>2. w # "status" /\ Version = <<w, 0>>  BY <2>1, Zenon DEF Version, Word
  <2> QED  BY <2>2
<1>3. Word("chunked") \notin BodyTokens
  <2>1. "chunked" \notin BodyKinds  BY Zenon DEF BodyKinds
  <2> QED  BY <2>1 DEF BodyTokens, Word
<1>4. Word("space") # Word("blank") /\ Word("space") # Word("chunked")
      /\ Word("blank") # Word("chunked")
  BY WordsDiffer
<1>5. \A n : <<"status", n>> # Word("blank") /\ <<"status", n>> # Word("chunked")
  BY Zenon DEF Word
<1> QED  BY <1>1, <1>2, <1>3, <1>4, <1>5

\* An answer in one piece, of the head and the body.
PlainAnswer(A, status, body) ==
  /\ A \in Seq(AnswerTokens) /\ Len(A) = 4 + Len(body)
  /\ A[1] = Version /\ A[2] = Word("space") /\ A[3] = <<"status", status>> /\ A[4] = Word("blank")
  /\ \A j \in 1 .. Len(body) : A[4 + j] = body[j]

\* One in chunks.
ChunkedAnswer(A, status, body, m) ==
  /\ A \in Seq(AnswerTokens) /\ Len(A) = 5 + Len(body) + 3
  /\ A[1] = Version /\ A[2] = Word("space") /\ A[3] = <<"status", status>>
  /\ A[4] = Word("chunked") /\ A[5] = Word("blank")
  /\ ChunksOf(After(A, 5), body, m)

\* Of the one nothing but a beginning of the body is read.
LEMMA PlainPart ==
  ASSUME NEW body \in Seq(BodyTokens), NEW status \in Nat, NEW A, PlainAnswer(A, status, body),
         NEW x \in Seq(AnswerTokens), Begins(x, A)
  PROVE  BodyOf(x) \in Seq(AnswerTokens) /\ Begins(BodyOf(x), body)
<1>1. PICK g \in Nat : g = Len(body)  OBVIOUS
<1>2. /\ A \in Seq(AnswerTokens) /\ Len(A) = 4 + g
      /\ A[1] = Version /\ A[2] = Word("space") /\ A[3] = <<"status", status>>
      /\ A[4] = Word("blank") /\ \A j \in 1 .. g : A[4 + j] = body[j]
  BY <1>1 DEF PlainAnswer
<1>3. PICK h \in Nat : h = Len(x) /\ h <= 4 + g  BY <1>2 DEF Begins
<1>4. \A j \in 1 .. h : x[j] = A[j]  BY <1>3 DEF Begins
<1>5. (Find(x, "blank") = IF 4 <= Len(x) THEN 4 ELSE 0) /\ (Has(x, "blank") <=> 4 <= Len(x))
  <2>1. 4 \in 1 .. Len(A) /\ A \in Seq(AnswerTokens) /\ A[4] = Word("blank")  BY <1>2
  <2>2. \A j \in 1 .. Len(A) : j < 4 => A[j] # Word("blank")
    <3> TAKE j \in 1 .. Len(A)
    <3> HAVE j < 4
    <3>1. j = 1 \/ j = 2 \/ j = 3  BY <1>2
    <3> QED  BY <1>2, <3>1, HeadDiffers
  <2> QED  BY <2>1, <2>2, FindBegun
<1>6. ~Has(x, "chunked")
  <2>1. \A j \in 1 .. Len(x) : x[j] # Word("chunked")
    <3> TAKE j \in 1 .. Len(x)
    <3>1. j = 1 \/ j = 2 \/ j = 3 \/ j = 4 \/ (j - 4 \in 1 .. g /\ 4 + (j - 4) = j)  BY <1>3
    <3>2. CASE j = 1 \/ j = 2 \/ j = 3 \/ j = 4  BY <1>2, <1>3, <1>4, <3>2, HeadDiffers
    <3>3. CASE j - 4 \in 1 .. g /\ 4 + (j - 4) = j
      <4>1. x[j] = body[j - 4] /\ body[j - 4] \in BodyTokens  BY <1>1, <1>2, <1>3, <1>4, <3>3
      <4> QED  BY <4>1, HeadDiffers
    <3> QED  BY <3>1, <3>2, <3>3
  <2> QED  BY <2>1, FindNone
<1>7. CASE 4 <= Len(x)
  <2>1. BodyOf(x) = After(x, 4)
    BY <1>5, <1>6, <1>7, Zenon DEF BodyOf, AfterWord
  <2>2. PICK z : z = After(x, 4)  OBVIOUS
  <2>3. 4 \in 0 .. Len(x) /\ Len(x) - 4 = h - 4  BY <1>3, <1>7
  <2>4. z \in Seq(AnswerTokens) /\ Len(z) = h - 4 /\ \A j \in 1 .. h - 4 : z[j] = x[j + 4]
    <3>1. z \in Seq(AnswerTokens) /\ Len(z) = Len(x) - 4
          /\ \A j \in 1 .. Len(x) - 4 : z[j] = x[j + 4]
      BY <2>2, <2>3, AfterFacts
    <3> QED  BY <2>3, <3>1, Zenon
  <2>5. ASSUME NEW j \in 1 .. h - 4 PROVE z[j] = body[j]
    <3>1. j \in 1 .. g /\ j + 4 \in 1 .. h /\ j + 4 = 4 + j  BY <1>3
    <3> QED  BY <1>2, <1>4, <2>4, <3>1
  <2>6. Len(z) <= Len(body)  BY <1>1, <1>3, <2>4
  <2>7. Begins(z, body)  BY <2>4, <2>5, <2>6 DEF Begins
  <2> QED  BY <2>1, <2>2, <2>4, <2>7
<1>8. CASE ~(4 <= Len(x))
  <2>1. BodyOf(x) = <<>>  BY <1>5, <1>8 DEF BodyOf, NoText
  <2> QED  BY <1>1, <2>1 DEF Begins
<1> QED  BY <1>7, <1>8

\* Of the other too.
LEMMA ChunkedPart ==
  ASSUME NEW body \in Seq(BodyTokens), NEW status \in Nat, NEW A,
         NEW m \in Nat, m >= 1, m < Len(body), ChunkedAnswer(A, status, body, m),
         NEW x \in Seq(AnswerTokens), Begins(x, A)
  PROVE  BodyOf(x) \in Seq(AnswerTokens) /\ Begins(BodyOf(x), body)
<1>1. PICK g \in Nat : g = Len(body)  OBVIOUS
<1>2. /\ A \in Seq(AnswerTokens) /\ Len(A) = 5 + g + 3
      /\ A[1] = Version /\ A[2] = Word("space") /\ A[3] = <<"status", status>>
      /\ A[4] = Word("chunked") /\ A[5] = Word("blank")
  BY <1>1 DEF ChunkedAnswer
<1>3. (Find(x, "blank") = IF 5 <= Len(x) THEN 5 ELSE 0) /\ (Has(x, "blank") <=> 5 <= Len(x))
  <2>1. 5 \in 1 .. Len(A) /\ A \in Seq(AnswerTokens) /\ A[5] = Word("blank")  BY <1>2
  <2>2. \A j \in 1 .. Len(A) : j < 5 => A[j] # Word("blank")
    <3> TAKE j \in 1 .. Len(A)
    <3> HAVE j < 5
    <3>1. j = 1 \/ j = 2 \/ j = 3 \/ j = 4  BY <1>2
    <3> QED  BY <1>2, <3>1, HeadDiffers
  <2> QED  BY <2>1, <2>2, FindBegun
<1>4. Has(x, "chunked") <=> 4 <= Len(x)
  <2>1. 4 \in 1 .. Len(A) /\ A \in Seq(AnswerTokens) /\ A[4] = Word("chunked")  BY <1>2
  <2>2. \A j \in 1 .. Len(A) : j < 4 => A[j] # Word("chunked")
    <3> TAKE j \in 1 .. Len(A)
    <3> HAVE j < 4
    <3>1. j = 1 \/ j = 2 \/ j = 3  BY <1>2
    <3> QED  BY <1>2, <3>1, HeadDiffers
  <2> QED  BY <2>1, <2>2, FindBegun
<1>5. CASE 5 <= Len(x)
  <2>1. Has(x, "chunked") /\ Has(x, "blank") /\ Find(x, "blank") = 5 /\ 5 \in 0 .. Len(x)
    BY <1>3, <1>4, <1>5
  <2>2. BodyOf(x) = Unchunked(After(x, 5))  BY <2>1, Zenon DEF BodyOf, AfterWord
  <2>3. PICK z : z = After(x, 5)  OBVIOUS
  <2>4. PICK s : s = After(A, 5)  OBVIOUS
  <2>5. z \in Seq(AnswerTokens)  BY <2>1, <2>3, AfterFacts
  <2>6. 5 \in 0 .. Len(A)  BY <1>2
  <2>7. s \in Seq(AnswerTokens)  BY <1>2, <2>4, <2>6, AfterFacts
  <2>8. Begins(z, s)  BY <1>2, <2>1, <2>3, <2>4, AfterBegins
  <2>9. ChunksOf(s, body, m)  BY <2>4 DEF ChunkedAnswer
  <2>10. \A t \in AnswerTokens : t[2] \in Nat  BY AnswerWords
  <2>11. Unchunked(z) \in Seq(AnswerTokens) /\ Begins(Unchunked(z), body)
    BY <2>5, <2>7, <2>8, <2>9, <2>10, UnchunkedBegins
  <2> QED  BY <2>2, <2>3, <2>11
<1>6. CASE ~(5 <= Len(x))
  <2>1. BodyOf(x) = <<>>  BY <1>3, <1>6 DEF BodyOf, NoText
  <2> QED  BY <1>1, <2>1 DEF Begins
<1> QED  BY <1>5, <1>6

\* A text of known length, and two of them joined.
Long(s, T, n) == s \in Seq(T) /\ n \in Nat /\ Len(s) = n

Joint(u, s, g, t, h) ==
  /\ Len(u) = g + h /\ g \in Nat /\ h \in Nat
  /\ \A j \in 1 .. g : u[j] = s[j]
  /\ \A j \in 1 .. h : u[g + j] = t[j]

LEMMA JoinedAt ==
  ASSUME NEW T, NEW s, NEW t, NEW g, NEW h, Long(s, T, g), Long(t, T, h), NEW u, u = s \o t
  PROVE  Long(u, T, g + h) /\ Joint(u, s, g, t, h)
<1>1. s \in Seq(T) /\ t \in Seq(T) /\ g \in Nat /\ h \in Nat /\ Len(s) = g /\ Len(t) = h
  BY DEF Long
<1>2. s \o t \in Seq(T) /\ Len(s \o t) = Len(s) + Len(t)  BY <1>1, Joined
<1>3. \A j \in 1 .. Len(s) : (s \o t)[j] = s[j]  BY <1>1, Joined
<1>4. \A j \in 1 .. Len(t) : (s \o t)[Len(s) + j] = t[j]  BY <1>1, Joined
<1>5. Long(u, T, g + h)  BY <1>1, <1>2 DEF Long
<1>6. Joint(u, s, g, t, h)  BY <1>1, <1>2, <1>3, <1>4 DEF Joint
<1> QED  BY <1>5, <1>6

LEMMA OneOf ==
  ASSUME NEW T, NEW a \in T
  PROVE  Long(<<a>>, T, 1) /\ <<a>>[1] = a
<1>1. <<a>> \in Seq(T) /\ Len(<<a>>) = 1 /\ <<a>>[1] = a  OBVIOUS
<1> QED  BY <1>1 DEF Long

LEMMA ThreeOf ==
  ASSUME NEW T, NEW a \in T, NEW b \in T, NEW c \in T, NEW u, u = <<a, b, c>>
  PROVE  Long(u, T, 3) /\ u[1] = a /\ u[2] = b /\ u[3] = c
<1>1. u \in Seq(T)  OBVIOUS
<1>2. Len(u) = 3 /\ u[1] = a /\ u[2] = b /\ u[3] = c  OBVIOUS
<1> QED  BY <1>1, <1>2 DEF Long

LEMMA TwoOf ==
  ASSUME NEW T, NEW a \in T, NEW b \in T, NEW u, u = <<a, b>>
  PROVE  Long(u, T, 2) /\ u[1] = a /\ u[2] = b
<1>1. u \in Seq(T)  OBVIOUS
<1>2. Len(u) = 2 /\ u[1] = a /\ u[2] = b  OBVIOUS
<1> QED  BY <1>1, <1>2 DEF Long

LEMMA PlainIs ==
  ASSUME NEW body \in Seq(BodyTokens), NEW status \in Nat, NEW A,
         A = <<Version, Word("space"), <<"status", status>> >> \o <<Word("blank")>> \o body
  PROVE  PlainAnswer(A, status, body)
<1>1. PICK g \in Nat : g = Len(body)  OBVIOUS
<1>2. PICK a : a = Version /\ a \in AnswerTokens  BY Zenon, AnswerWords
<1>3. PICK b : b = Word("space") /\ b \in AnswerTokens  BY Zenon, AnswerWords
<1>4. PICK st : st = <<"status", status>> /\ st \in AnswerTokens  BY AnswerWords
<1>5. PICK e : e = Word("blank") /\ e \in AnswerTokens  BY Zenon, AnswerWords
<1>6. PICK h : h = <<a, b, st>>  OBVIOUS
<1>7. Long(h, AnswerTokens, 3) /\ h[1] = a /\ h[2] = b /\ h[3] = st
  BY <1>2, <1>3, <1>4, <1>6, ThreeOf, Zenon
<1>8. PICK o : o = <<e>>  OBVIOUS
<1>9. Long(o, AnswerTokens, 1) /\ o[1] = e  BY <1>5, <1>8, OneOf, Zenon
<1>10. PICK d : d = h \o o  OBVIOUS
<1>11. Long(d, AnswerTokens, 3 + 1) /\ Joint(d, h, 3, o, 1)
  BY <1>7, <1>9, <1>10, JoinedAt, Zenon
<1>12. A = d \o body  BY <1>2, <1>3, <1>4, <1>5, <1>6, <1>8, <1>10, Zenon
<1>13. Long(body, AnswerTokens, g)
  <2>1. body \in Seq(AnswerTokens)  BY AnswerWords
  <2> QED  BY <1>1, <2>1 DEF Long
<1>14. Long(A, AnswerTokens, (3 + 1) + g) /\ Joint(A, d, 3 + 1, body, g)
  BY <1>11, <1>12, <1>13, JoinedAt, Zenon
<1>15. A \in Seq(AnswerTokens)  BY <1>14 DEF Long
<1>16. Len(A) = 4 + g /\ (\A j \in 1 .. 4 : A[j] = d[j]) /\ \A j \in 1 .. g : A[4 + j] = body[j]
  BY <1>14 DEF Joint
<1>17. d[1] = a /\ d[2] = b /\ d[3] = st /\ d[4] = e
  <2>1. (\A j \in 1 .. 3 : d[j] = h[j]) /\ \A j \in 1 .. 1 : d[3 + j] = o[j]
    BY <1>11 DEF Joint
  <2>2. d[1] = h[1] /\ d[2] = h[2] /\ d[3] = h[3]  BY <2>1
  <2>3. d[3 + 1] = o[1]  BY <2>1
  <2> QED  BY <1>7, <1>9, <2>2, <2>3
<1>18. A[1] = a /\ A[2] = b /\ A[3] = st /\ A[4] = e
  <2>1. A[1] = d[1] /\ A[2] = d[2] /\ A[3] = d[3] /\ A[4] = d[4]  BY <1>16
  <2> QED  BY <1>17, <2>1
<1>19. A[1] = Version /\ A[2] = Word("space") /\ A[3] = <<"status", status>>
       /\ A[4] = Word("blank")
  BY <1>2, <1>3, <1>4, <1>5, <1>18, Zenon
<1> QED  BY <1>1, <1>15, <1>16, <1>19 DEF PlainAnswer

\* A chunk: its length and its tokens.
Chunk(b) == << <<"chunk", Len(b)>> >> \o b

LEMMA ChunkIs ==
  ASSUME NEW b, NEW n, Long(b, AnswerTokens, n)
  PROVE  /\ Long(Chunk(b), AnswerTokens, 1 + n) /\ Chunk(b)[1] = <<"chunk", n>>
         /\ \A j \in 1 .. n : Chunk(b)[1 + j] = b[j]
<1>1. n \in Nat /\ Len(b) = n  BY DEF Long
<1>2. PICK e : e = <<"chunk", n>> /\ e \in AnswerTokens  BY <1>1, AnswerWords
<1>3. PICK o : o = <<e>>  OBVIOUS
<1>4. Long(o, AnswerTokens, 1) /\ o[1] = e  BY <1>2, <1>3, OneOf, Zenon
<1>5. Chunk(b) = o \o b  BY <1>1, <1>2, <1>3, Zenon DEF Chunk
<1>6. Long(Chunk(b), AnswerTokens, 1 + n) /\ Joint(Chunk(b), o, 1, b, n)
  BY <1>4, <1>5, JoinedAt, Zenon
<1>7. (\A j \in 1 .. 1 : Chunk(b)[j] = o[j]) /\ \A j \in 1 .. n : Chunk(b)[1 + j] = b[j]
  BY <1>6 DEF Joint
<1>8. Chunk(b)[1] = o[1]  BY <1>7
<1> QED  BY <1>2, <1>4, <1>6, <1>7, <1>8

\* A part of a body.
LEMMA PartOfBody ==
  ASSUME NEW body \in Seq(AnswerTokens), NEW a \in Nat, NEW b \in Nat, a <= b, b <= Len(body)
  PROVE  /\ Long(SubSeq(body, a + 1, b), AnswerTokens, b - a)
         /\ \A j \in 1 .. b - a : SubSeq(body, a + 1, b)[j] = body[a + j]
<1>1. SubSeq(body, a + 1, b) \in Seq(AnswerTokens) /\ Len(SubSeq(body, a + 1, b)) = b - a
      /\ \A j \in 1 .. b - a : SubSeq(body, a + 1, b)[j] = body[a + j]
  BY SliceFacts
<1>2. b - a \in Nat  OBVIOUS
<1> QED  BY <1>1, <1>2 DEF Long

InChunks(status, body, m) ==
  <<Version, Word("space"), <<"status", status>> >> \o <<Word("chunked"), Word("blank")>>
    \o Chunk(SubSeq(body, 1, m)) \o Chunk(SubSeq(body, m + 1, Len(body))) \o Chunk(<<>>)

LEMMA ChunkedIs ==
  ASSUME NEW body \in Seq(BodyTokens), NEW status \in Nat, NEW m \in Nat, m >= 1, m < Len(body),
         NEW A,
         A = InChunks(status, body, m)
  PROVE  ChunkedAnswer(A, status, body, m)
<1>1. PICK g \in Nat : g = Len(body) /\ m < g  OBVIOUS
<1>2. PICK n \in Nat : n = g - m
  <2>1. g - m \in Nat  BY <1>1
  <2> QED  BY <2>1
<1>3. body \in Seq(AnswerTokens)  BY AnswerWords
<1>4. PICK v1 : v1 = Version /\ v1 \in AnswerTokens  BY Zenon, AnswerWords
<1>5. PICK v2 : v2 = Word("space") /\ v2 \in AnswerTokens  BY Zenon, AnswerWords
<1>6. PICK v3 : v3 = <<"status", status>> /\ v3 \in AnswerTokens  BY AnswerWords
<1>7. PICK v4 : v4 = Word("chunked") /\ v4 \in AnswerTokens  BY Zenon, AnswerWords
<1>8. PICK v5 : v5 = Word("blank") /\ v5 \in AnswerTokens  BY Zenon, AnswerWords
<1>9. PICK h, o, d : h = <<v1, v2, v3>> /\ o = <<v4, v5>> /\ d = h \o o  OBVIOUS
<1>10. Long(d, AnswerTokens, 5) /\ d[1] = v1 /\ d[2] = v2 /\ d[3] = v3 /\ d[4] = v4 /\ d[5] = v5
  <2>1. Long(h, AnswerTokens, 3) /\ h[1] = v1 /\ h[2] = v2 /\ h[3] = v3
    BY <1>4, <1>5, <1>6, <1>9, ThreeOf, Zenon
  <2>2. Long(o, AnswerTokens, 2) /\ o[1] = v4 /\ o[2] = v5
    BY <1>7, <1>8, <1>9, TwoOf, Zenon
  <2>3. Long(d, AnswerTokens, 3 + 2) /\ Joint(d, h, 3, o, 2)
    BY <1>9, <2>1, <2>2, JoinedAt, Zenon
  <2>4. (\A j \in 1 .. 3 : d[j] = h[j]) /\ \A j \in 1 .. 2 : d[3 + j] = o[j]
    BY <2>3 DEF Joint
  <2>5. d[1] = h[1] /\ d[2] = h[2] /\ d[3] = h[3]  BY <2>4
  <2>6. d[4] = o[1] /\ d[5] = o[2]
    <3>1. 1 \in 1 .. 2 /\ 2 \in 1 .. 2 /\ 3 + 1 = 4 /\ 3 + 2 = 5  OBVIOUS
    <3> QED  BY <2>4, <3>1, Zenon
  <2>7. 3 + 2 = 5  OBVIOUS
  <2> QED  BY <2>1, <2>2, <2>3, <2>5, <2>6, <2>7, Zenon
<1>11. PICK pb : pb = SubSeq(body, 1, m)  OBVIOUS
<1>12. Long(pb, AnswerTokens, m) /\ \A j \in 1 .. m : pb[j] = body[j]
  <2>1. m \in 0 .. Len(body)  OBVIOUS
  <2>2. pb \in Seq(AnswerTokens) /\ Len(pb) = m /\ \A j \in 1 .. m : pb[j] = body[j]
    BY <1>3, <1>11, <2>1, PrefixBegins
  <2> QED  BY <2>2 DEF Long
<1>13. PICK qb : qb = SubSeq(body, m + 1, g)  OBVIOUS
<1>14. Long(qb, AnswerTokens, n) /\ \A j \in 1 .. n : qb[j] = body[m + j]
  <2>1. m <= g /\ g <= Len(body)  BY <1>1
  <2>2. Long(SubSeq(body, m + 1, g), AnswerTokens, g - m)
        /\ \A j \in 1 .. g - m : SubSeq(body, m + 1, g)[j] = body[m + j]
    BY <1>1, <1>3, <2>1, PartOfBody
  <2> QED  BY <1>2, <1>13, <2>2, Zenon
<1>15. Long(<<>>, AnswerTokens, 0)  BY DEF Long
<1>16. PICK p : p = Chunk(pb)  OBVIOUS
<1>17. PICK q : q = Chunk(qb)  OBVIOUS
<1>18. PICK z : z = Chunk(<<>>)  OBVIOUS
<1>19. /\ Long(p, AnswerTokens, 1 + m) /\ p[1] = <<"chunk", m>>
       /\ \A j \in 1 .. m : p[1 + j] = pb[j]
  BY <1>12, <1>16, ChunkIs, Zenon
<1>20. /\ Long(q, AnswerTokens, 1 + n) /\ q[1] = <<"chunk", n>>
       /\ \A j \in 1 .. n : q[1 + j] = qb[j]
  BY <1>14, <1>17, ChunkIs, Zenon
<1>21. Long(z, AnswerTokens, 1 + 0) /\ z[1] = <<"chunk", 0>>
  BY <1>15, <1>18, ChunkIs, Zenon
<1>22. PICK x : x = d \o p  OBVIOUS
<1>23. PICK y : y = x \o q  OBVIOUS
<1>24. A = y \o z
  BY <1>1, <1>4, <1>5, <1>6, <1>7, <1>8, <1>9, <1>11, <1>13, <1>16, <1>17, <1>18, <1>22, <1>23,
     Zenon DEF InChunks
<1>25. Long(x, AnswerTokens, 5 + (1 + m)) /\ Joint(x, d, 5, p, 1 + m)
  BY <1>10, <1>19, <1>22, JoinedAt, Zenon
<1>26. Long(y, AnswerTokens, (5 + (1 + m)) + (1 + n)) /\ Joint(y, x, 5 + (1 + m), q, 1 + n)
  BY <1>20, <1>23, <1>25, JoinedAt, Zenon
<1>27. /\ Long(A, AnswerTokens, ((5 + (1 + m)) + (1 + n)) + (1 + 0))
       /\ Joint(A, y, (5 + (1 + m)) + (1 + n), z, 1 + 0)
  BY <1>21, <1>24, <1>26, JoinedAt, Zenon
<1>28. A \in Seq(AnswerTokens) /\ Len(A) = 8 + g
  <2>1. A \in Seq(AnswerTokens) /\ Len(A) = ((5 + (1 + m)) + (1 + n)) + (1 + 0)
    BY <1>27, Zenon DEF Long
  <2>2. ((5 + (1 + m)) + (1 + n)) + (1 + 0) = 8 + g  BY <1>2
  <2> QED  BY <2>1, <2>2, Zenon
<1>29. (\A j \in 1 .. 5 : x[j] = d[j]) /\ \A j \in 1 .. 1 + m : x[5 + j] = p[j]
  BY <1>25 DEF Joint
<1>30. (\A j \in 1 .. 6 + m : y[j] = x[j]) /\ \A j \in 1 .. 1 + n : y[6 + m + j] = q[j]
  <2>1. (\A j \in 1 .. 5 + (1 + m) : y[j] = x[j])
        /\ \A j \in 1 .. 1 + n : y[5 + (1 + m) + j] = q[j]
    BY <1>26 DEF Joint
  <2>2. 5 + (1 + m) = 6 + m  OBVIOUS
  <2> QED  BY <2>1, <2>2
<1>31. (\A j \in 1 .. 7 + g : A[j] = y[j]) /\ A[8 + g] = z[1]
  <2>1. (\A j \in 1 .. (5 + (1 + m)) + (1 + n) : A[j] = y[j])
        /\ \A j \in 1 .. 1 + 0 : A[(5 + (1 + m)) + (1 + n) + j] = z[j]
    BY <1>27 DEF Joint
  <2>2. (5 + (1 + m)) + (1 + n) = 7 + g /\ (5 + (1 + m)) + (1 + n) + 1 = 8 + g  BY <1>2
  <2>3. 1 \in 1 .. 1 + 0  OBVIOUS
  <2>4. A[(5 + (1 + m)) + (1 + n) + 1] = z[1]  BY <2>1, <2>3, Zenon
  <2> QED  BY <2>1, <2>2, <2>4, Zenon
<1>32. \A j \in 1 .. 5 : A[j] = d[j]
  <2> TAKE j \in 1 .. 5
  <2>1. j \in 1 .. 6 + m /\ j \in 1 .. 7 + g  OBVIOUS
  <2> QED  BY <1>29, <1>30, <1>31, <2>1, Zenon
<1>33. PICK s : s = After(A, 5)  OBVIOUS
<1>34. Len(s) = g + 3 /\ \A j \in 1 .. g + 3 : s[j] = A[j + 5]
  <2>1. 5 \in 0 .. Len(A)  BY <1>28
  <2>2. Len(s) = Len(A) - 5 /\ \A j \in 1 .. Len(A) - 5 : s[j] = A[j + 5]
    BY <1>28, <1>33, <2>1, AfterFacts
  <2>3. Len(A) - 5 = g + 3  BY <1>28
  <2> QED  BY <2>2, <2>3, Zenon
<1>35. \A j \in 1 .. 1 + m : s[j] = p[j]
  <2> TAKE j \in 1 .. 1 + m
  <2>1. 5 + j = j + 5 /\ j + 5 \in 1 .. 6 + m /\ j + 5 \in 1 .. 7 + g /\ j \in 1 .. g + 3
    BY <1>1
  <2>2. s[j] = A[j + 5] /\ A[j + 5] = y[j + 5] /\ y[j + 5] = x[j + 5]
    BY <1>30, <1>31, <1>34, <2>1, Zenon
  <2>3. x[5 + j] = p[j]  BY <1>29, Zenon
  <2> QED  BY <2>1, <2>2, <2>3, Zenon
<1>36. \A j \in 1 .. 1 + n : s[1 + m + j] = q[j]
  <2> TAKE j \in 1 .. 1 + n
  <2>1. (1 + m + j) + 5 = 6 + m + j /\ 6 + m + j \in 1 .. 7 + g /\ 1 + m + j \in 1 .. g + 3
    BY <1>1, <1>2
  <2>2. s[1 + m + j] = A[(1 + m + j) + 5]  BY <1>34, <2>1, Zenon
  <2>3. A[6 + m + j] = y[6 + m + j]  BY <1>31, <2>1, Zenon
  <2>4. y[6 + m + j] = q[j]  BY <1>30, Zenon
  <2> QED  BY <2>1, <2>2, <2>3, <2>4, Zenon
<1>37. s[g + 3] = <<"chunk", 0>>
  <2>1. (g + 3) + 5 = 8 + g /\ g + 3 \in 1 .. g + 3  OBVIOUS
  <2>2. s[g + 3] = A[(g + 3) + 5]  BY <1>34, <2>1, Zenon
  <2> QED  BY <1>21, <1>31, <2>1, <2>2, Zenon
<1>38. s[1] = <<"chunk", m>>
  <2>1. 1 \in 1 .. 1 + m  OBVIOUS
  <2> QED  BY <1>19, <1>35, <2>1, Zenon
<1>39. s[m + 2] = <<"chunk", g - m>>
  <2>1. 1 \in 1 .. 1 + n /\ 1 + m + 1 = m + 2  OBVIOUS
  <2>2. s[1 + m + 1] = q[1]  BY <1>36, <2>1, Zenon
  <2> QED  BY <1>2, <1>20, <2>1, <2>2, Zenon
<1>40. \A j \in 1 .. m : s[1 + j] = body[j]
  <2> TAKE j \in 1 .. m
  <2>1. 1 + j \in 1 .. 1 + m  OBVIOUS
  <2> QED  BY <1>12, <1>19, <1>35, <2>1, Zenon
<1>41. \A j \in m + 1 .. g : s[2 + j] = body[j]
  <2> TAKE j \in m + 1 .. g
  <2>1. PICK i \in Nat : i = j - m  BY <1>1
  <2>2. i \in 1 .. n /\ 1 + i \in 1 .. 1 + n /\ 1 + m + (1 + i) = 2 + j /\ m + i = j
    BY <1>1, <1>2, <2>1
  <2>3. s[1 + m + (1 + i)] = q[1 + i]  BY <1>36, <2>2, Zenon
  <2>4. q[1 + i] = qb[i] /\ qb[i] = body[m + i]  BY <1>14, <1>20, <2>2, Zenon
  <2> QED  BY <2>2, <2>3, <2>4, Zenon
<1>42. ChunksOf(s, body, m)
  BY <1>1, <1>34, <1>37, <1>38, <1>39, <1>40, <1>41, Zenon DEF ChunksOf
<1>43. Len(A) = 5 + Len(body) + 3  BY <1>1, <1>28
<1>44. A[1] = v1 /\ A[2] = v2 /\ A[3] = v3 /\ A[4] = v4 /\ A[5] = v5
  <2>1. 1 \in 1 .. 5 /\ 2 \in 1 .. 5 /\ 3 \in 1 .. 5 /\ 4 \in 1 .. 5 /\ 5 \in 1 .. 5  OBVIOUS
  <2> QED  BY <1>10, <1>32, <2>1, Zenon
<1>45. A[1] = Version /\ A[2] = Word("space") /\ A[3] = <<"status", status>>
       /\ A[4] = Word("chunked") /\ A[5] = Word("blank")
  BY <1>4, <1>5, <1>6, <1>7, <1>8, <1>44, Zenon
<1> QED  BY <1>28, <1>33, <1>42, <1>43, <1>45, Zenon DEF ChunkedAnswer

\* The server answers in one of the two ways.
LEMMA AnswerParts ==
  ASSUME NEW body \in Seq(BodyTokens), NEW status \in Nat, NEW A \in Answers(status, body)
  PROVE  \/ PlainAnswer(A, status, body)
         \/ \E m \in Nat : m >= 1 /\ m < Len(body) /\ ChunkedAnswer(A, status, body, m)
<1>1. \/ A = <<Version, Word("space"), <<"status", status>> >> \o <<Word("blank")>> \o body
      \/ \E m \in 1 .. Len(body) - 1 : A = InChunks(status, body, m)
  BY Zenon DEF Answers, InChunks, Chunk, Version
<1>2. CASE A = <<Version, Word("space"), <<"status", status>> >> \o <<Word("blank")>> \o body
  BY <1>2, PlainIs, Zenon
<1>3. CASE \E m \in 1 .. Len(body) - 1 : A = InChunks(status, body, m)
  <2>1. PICK m \in 1 .. Len(body) - 1 : A = InChunks(status, body, m)  BY <1>3, Zenon
  <2>2. PICK g \in Nat : g = Len(body)  OBVIOUS
  <2>3. m \in 1 .. g - 1  BY <2>2, Zenon
  <2>4. m \in Nat /\ m >= 1 /\ m < g  BY <2>3
  <2>5. ChunkedAnswer(A, status, body, m)  BY <2>1, <2>2, <2>4, ChunkedIs, Zenon
  <2> QED  BY <2>2, <2>4, <2>5, Zenon
<1> QED  BY <1>1, <1>2, <1>3, Zenon

\* What begins a text of tokens is made of them.
LEMMA BegunOf ==
  ASSUME NEW S, NEW T, NEW x \in Seq(S), NEW s \in Seq(T), Begins(x, s)
  PROVE  x \in Seq(T)
<1>1. PICK n \in Nat, g \in Nat : n = Len(x) /\ g = Len(s)  OBVIOUS
<1>2. n <= g /\ \A i \in 1 .. n : x[i] = s[i]  BY <1>1 DEF Begins
<1>3. \A i \in 1 .. g : s[i] \in T  BY <1>1
<1>4. \A i \in 1 .. n : x[i] \in T  BY <1>2, <1>3
<1>5. x = [i \in 1 .. n |-> x[i]]  BY <1>1
<1> QED  BY <1>4, <1>5

LEMMA AnswerText ==
  ASSUME NEW body \in Seq(BodyTokens), NEW status \in Nat, NEW A \in Answers(status, body)
  PROVE  A \in Seq(AnswerTokens)
BY AnswerParts, Zenon DEF PlainAnswer, ChunkedAnswer

\* Whatever has come of an answer, the body that is read from it is a
\* beginning of the one the server sent; and if not even the space behind
\* the version has come, the status counts as 500.
PartOf(x, status, body) ==
  \E answer \in Answers(status, body) : \E n \in 0 .. Len(answer) : x = SubSeq(answer, 1, n)

LEMMA PartOfAnswer ==
  ASSUME NEW body \in Seq(BodyTokens), NEW status \in Nat, NEW x, PartOf(x, status, body)
  PROVE  /\ BodyOf(x) \in Seq(BodyTokens) /\ Begins(BodyOf(x), body)
         /\ ~BodyWritten(x) => StatusOf(x) = 500
<1>1. PICK A \in Answers(status, body) : \E n \in 0 .. Len(A) : x = SubSeq(A, 1, n)
  BY Zenon DEF PartOf
<1>2. PICK n \in 0 .. Len(A) : x = SubSeq(A, 1, n)
  BY <1>1, Zenon
<1>3. A \in Seq(AnswerTokens) /\ Len(A) >= 2 /\ A[1] = Version /\ A[2] = Word("space")
  <2>1. CASE PlainAnswer(A, status, body)
    <3>1. PICK g \in Nat : g = Len(body)  OBVIOUS
    <3> QED  BY <2>1, <3>1 DEF PlainAnswer
  <2>2. CASE \E m \in Nat : m >= 1 /\ m < Len(body) /\ ChunkedAnswer(A, status, body, m)
    <3>1. PICK g \in Nat : g = Len(body)  OBVIOUS
    <3> QED  BY <2>2, <3>1 DEF ChunkedAnswer
  <2> QED  BY <2>1, <2>2, AnswerParts, Zenon
<1>4. x \in Seq(AnswerTokens) /\ Len(x) = n /\ (\A i \in 1 .. n : x[i] = A[i]) /\ Begins(x, A)
  BY <1>2, <1>3, PrefixBegins
<1>5. BodyOf(x) \in Seq(AnswerTokens) /\ Begins(BodyOf(x), body)
  <2>1. CASE PlainAnswer(A, status, body)
    BY <1>4, <2>1, PlainPart, Zenon
  <2>2. CASE \E m \in Nat : m >= 1 /\ m < Len(body) /\ ChunkedAnswer(A, status, body, m)
    BY <1>4, <2>2, ChunkedPart, Zenon
  <2> QED  BY <2>1, <2>2, AnswerParts, Zenon
<1>6. BodyOf(x) \in Seq(BodyTokens)  BY <1>5, BegunOf, Zenon
<1>7. ASSUME ~BodyWritten(x)  PROVE StatusOf(x) = 500
  <2>1. Has(x, "space") <=> 2 <= Len(x)
    <3>1. 2 \in 1 .. Len(A) /\ A[2] = Word("space")  BY <1>3
    <3>2. \A j \in 1 .. Len(A) : j < 2 => A[j] # Word("space")
      <4> TAKE j \in 1 .. Len(A)
      <4> HAVE j < 2
      <4>1. j = 1  OBVIOUS
      <4> QED  BY <1>3, <4>1, HeadDiffers, Zenon
    <3>3. x \in Seq(AnswerTokens) /\ Begins(x, A) /\ A \in Seq(AnswerTokens)  BY <1>3, <1>4
    <3> QED  BY <3>1, <3>2, <3>3, FindBegun
  <2>2. n \in Nat /\ ~(2 <= n)  BY <1>4, <1>7, <2>1 DEF BodyWritten
  <2>3. \A i \in 1 .. n : x[i][1] # "status"
    <3> TAKE i \in 1 .. n
    <3>1. i = 1  BY <2>2
    <3> QED  BY <1>3, <1>4, <3>1, HeadDiffers, Zenon
  <2>4. {i \in 1 .. Len(x) : x[i][1] = "status"} = {}  BY <1>4, <2>3, Zenon
  <2>5. SelectInSeq(x, LAMBDA t : t[1] = "status") = 0  BY <2>4 DEF SelectInSeq
  <2> QED  BY <2>5 DEF StatusOf
<1> QED  BY <1>5, <1>6, <1>7

-----------------------------------------------------------------------------
(***************************************************************************)
(* The invariant: what the text is at each step of a call, and what the    *)
(* call returns.                                                           *)
(***************************************************************************)
Requests == {"read", "write", "stat"}
Steps == {"idle", "sent", "answered", "received", "done"}

\* The answers the controller may give.
Answered(c, status, body) ==
  \/ status = 400 /\ body = ErrorBody
  \/ status = 200 /\ c.op = "read" /\ body = DataBody(c.about.data)
  \/ status = 200 /\ c.op = "stat" /\ body = StatBody(c.about)

Bodies(c) == {ErrorBody, DataBody(c.about.data), StatBody(c.about)}

\* What a write sends.
Encoded(c) == url_encode(bytes_to_base64(c.about.data))

Shaped(c) ==
  /\ c = [op |-> c.op, step |-> c.step, about |-> c.about, text |-> c.text,
          stored |-> c.stored, result |-> c.result]
  /\ c.op \in {"none"} \cup Requests /\ c.step \in Steps
  /\ c.about \in Files \cup {Directory} /\ c.stored \in BOOLEAN

\* Nothing is known of a call under way.
Unknown(c) == c.step # "done" => c.result = Failed /\ ~c.stored

SentText(c) ==
  c.step = "sent" => /\ c.op \in Requests
                     /\ c.text = IF c.op = "write" THEN Encoded(c) ELSE NoText

AnsweredText(c) ==
  c.step = "answered" =>
    \E status \in {200, 400}, body \in Bodies(c) :
      Answered(c, status, body) /\ c.text \in Answers(status, body)

ReceivedText(c) ==
  c.step = "received" =>
    \E status \in {200, 400}, body \in Bodies(c) :
      Answered(c, status, body) /\ PartOf(c.text, status, body)

\* What a write whose text came to text tells.
WriteResult(c) ==
  /\ c.op = "write" /\ c.text = Encoded(c) /\ c.result = JavaDecode(c.text)
  /\ JavaDecode(c.text).ok

StatResults(c) ==
  /\ c.op = "stat" /\ c.result = Stat(c.result.dir, c.result.size) /\ c.result.size \in Nat
  /\ BodyWritten(c.text) => c.result = Stat(c.about.dir, Len(c.about.data))

DoneResult(c) ==
  c.step = "done" =>
    \/ c.result = Failed /\ ~c.stored
    \/ c.op = "read" /\ c.result = Value(c.about.data) /\ ~c.stored
    \/ StatResults(c) /\ ~c.stored
    \/ WriteResult(c)

IInv ==
  /\ Shaped(call) /\ Unknown(call) /\ SentText(call) /\ AnsweredText(call)
  /\ ReceivedText(call) /\ DoneResult(call)

\* The answers of the controller are texts of the body's tokens.
LEMMA BodiesFacts ==
  /\ ErrorBody \in Seq(BodyTokens) /\ NoText \in Seq(BodyTokens)
  /\ \A f \in Files \cup {Directory} :
       DataBody(f.data) \in Seq(BodyTokens) /\ StatBody(f) \in Seq(BodyTokens)
<1>1. ErrorBody \in Seq(BodyTokens)
  <2>1. ErrorBody = <<Opening, Word("error"), Closing>>
    BY Zenon DEF ErrorBody, Opening, Closing
  <2>2. PICK a, b, c : a = Opening /\ b = Word("error") /\ c = Closing  OBVIOUS
  <2>4. a \in BodyTokens /\ b \in BodyTokens /\ c \in BodyTokens  BY <2>2, BodyWords
  <2>5. ErrorBody = <<a, b, c>>  BY <2>1, <2>2
  <2>3. Long(ErrorBody, BodyTokens, 3)  BY <2>4, <2>5, ThreeOf
  <2> QED  BY <2>3 DEF Long
<1>2. NoText \in Seq(BodyTokens)  BY DEF NoText
<1>3. ASSUME NEW f \in Files \cup {Directory}
      PROVE  DataBody(f.data) \in Seq(BodyTokens) /\ StatBody(f) \in Seq(BodyTokens)
  <2>1. f.data \in Seq(Octets)  BY FilesFacts
  <2>2. PICK t, e : t = bytes_to_base64(f.data) /\ e = DigitsOf(Len(f.data))  OBVIOUS
  <2>3. DataBody(f.data) \in Seq(BodyTokens)  BY <2>1, <2>2, DataBodyFacts
  <2>4. StatBody(f) \in Seq(BodyTokens)  BY <2>2, StatBodyFacts
  <2> QED  BY <2>3, <2>4
<1> QED  BY <1>1, <1>2, <1>3

\* What http_read makes of whatever has come of the controller's answer, or of
\* memory that was not written, whatever is in it.
LEMMA ReadParsed ==
  ASSUME NEW c, c.op = "read", c.about \in Files \cup {Directory},
         NEW status \in {200, 400}, NEW body \in Bodies(c), Answered(c, status, body),
         NEW x, PartOf(x, status, body),
         NEW b, b \in IF BodyWritten(x) THEN {BodyOf(x)} ELSE Leftovers
  PROVE  ReadResult(StatusOf(x), b) = Failed \/ ReadResult(StatusOf(x), b) = Value(c.about.data)
<1>1. body = ErrorBody \/ body = DataBody(c.about.data)  BY DEF Answered
<1>2. body \in Seq(BodyTokens) /\ status \in Nat  BY <1>1, BodiesFacts
<1>3. /\ BodyOf(x) \in Seq(BodyTokens) /\ Begins(BodyOf(x), body)
      /\ (~BodyWritten(x) => StatusOf(x) = 500)
  <2>1. body \in Seq(BodyTokens)  BY <1>2
  <2>2. status \in Nat  BY <1>2
  <2>3. PartOf(x, status, body)  OBVIOUS
  <2>4. BodyOf(x) \in Seq(BodyTokens)  BY <2>1, <2>2, <2>3, PartOfAnswer
  <2>5. Begins(BodyOf(x), body)  BY <2>1, <2>2, <2>3, PartOfAnswer
  <2>6. ~BodyWritten(x) => StatusOf(x) = 500  BY <2>1, <2>2, <2>3, PartOfAnswer
  <2> QED  BY <2>4, <2>5, <2>6
<1>4. CASE BodyWritten(x)
  <2>1. b = BodyOf(x)  BY <1>4
  <2>2. CASE body = ErrorBody  BY <1>3, <2>1, <2>2, ErrorOfPart, Zenon
  <2>3. CASE body = DataBody(c.about.data)
    <3>1. c.about.data \in Seq(Octets)  BY FilesFacts
    <3>2. b \in Seq(BodyTokens) /\ Begins(b, DataBody(c.about.data))  BY <1>3, <2>1, <2>3, Zenon
    <3>3. PICK d \in Seq(Octets) : d = c.about.data  BY <3>1
    <3>4. Begins(b, DataBody(d))  BY <3>2, <3>3, Zenon
    <3> QED  BY <3>2, <3>3, <3>4, ReadOfPart
  <2> QED  BY <1>1, <2>2, <2>3
<1>5. CASE ~BodyWritten(x)
  <2>1. StatusOf(x) >= 400  BY <1>3, <1>5
  <2> QED  BY <2>1, Zenon DEF ReadResult
<1> QED  BY <1>4, <1>5

\* What http_stat makes of it: of memory that was not written anything.
LEMMA StatParsed ==
  ASSUME NEW c, c.op = "stat", c.about \in Files \cup {Directory},
         NEW status \in {200, 400}, NEW body \in Bodies(c), Answered(c, status, body),
         NEW x, PartOf(x, status, body),
         NEW b, b \in IF BodyWritten(x) THEN {BodyOf(x)} ELSE Leftovers
  PROVE  \/ StatResult(b) = Failed
         \/ BodyWritten(x) /\ StatResult(b) = Stat(c.about.dir, Len(c.about.data))
         \/ ~BodyWritten(x) /\ \E f \in Files \cup {Directory} :
                                  StatResult(b) = Stat(f.dir, Len(f.data))
<1>1. body = ErrorBody \/ body = StatBody(c.about)  BY DEF Answered
<1>2. body \in Seq(BodyTokens) /\ status \in Nat  BY <1>1, BodiesFacts
<1>3. BodyOf(x) \in Seq(BodyTokens) /\ Begins(BodyOf(x), body)
  <2>1. body \in Seq(BodyTokens)  BY <1>2
  <2>2. status \in Nat  BY <1>2
  <2>3. PartOf(x, status, body)  OBVIOUS
  <2>4. BodyOf(x) \in Seq(BodyTokens)  BY <2>1, <2>2, <2>3, PartOfAnswer
  <2>5. Begins(BodyOf(x), body)  BY <2>1, <2>2, <2>3, PartOfAnswer
  <2> QED  BY <2>4, <2>5
<1>4. CASE BodyWritten(x)
  <2>1. b = BodyOf(x)  BY <1>4
  <2>2. CASE body = ErrorBody  BY <1>3, <2>1, <2>2, ErrorOfPart, Zenon
  <2>3. CASE body = StatBody(c.about)
    BY <1>3, <1>4, <2>1, <2>3, StatOfPart, Zenon
  <2> QED  BY <1>1, <2>2, <2>3
<1>5. CASE ~BodyWritten(x)
  <2>1. b \in Leftovers  BY <1>5
  <2>2. b = NoText \/ b = ErrorBody \/ \E f \in Files \cup {Directory} : b = StatBody(f)
    BY <2>1, Zenon DEF Leftovers
  <2>3. CASE b = NoText
    <3>1. b = <<>>  BY <2>3 DEF NoText
    <3>2. PICK g \in Nat : g = Len(ErrorBody)  BY BodiesFacts
    <3>3. Begins(b, ErrorBody)  BY <3>1, <3>2 DEF Begins
    <3> QED  BY <2>3, <3>3, BodiesFacts, ErrorOfPart, Zenon
  <2>4. CASE b = ErrorBody
    <3>1. PICK g \in Nat : g = Len(b)  BY <2>4, BodiesFacts
    <3>2. Begins(b, b)  BY <3>1 DEF Begins
    <3> QED  BY <2>4, <3>2, BodiesFacts, ErrorOfPart, Zenon
  <2>5. CASE \E f \in Files \cup {Directory} : b = StatBody(f)
    <3>1. PICK f \in Files \cup {Directory} : b = StatBody(f)  BY <2>5
    <3>2. b \in Seq(BodyTokens)  BY <3>1, BodiesFacts
    <3>3. PICK g \in Nat : g = Len(b)  BY <3>2
    <3>4. Begins(b, b)  BY <3>3 DEF Begins
    <3>5. StatResult(b) = Failed \/ StatResult(b) = Stat(f.dir, Len(f.data))
      BY <3>1, <3>2, <3>4, StatOfPart, Zenon
    <3> QED  BY <1>5, <3>5, Zenon
  <2> QED  BY <2>2, <2>3, <2>4, <2>5
<1> QED  BY <1>4, <1>5

LEMMA InvInit == Init => IInv
<1> SUFFICES ASSUME Init PROVE IInv  OBVIOUS
<1>1. call = Idle  BY DEF Init
<1>2. Idle.op = "none" /\ Idle.step = "idle" /\ Idle.about = Directory /\ Idle.text = NoText
      /\ Idle.stored = FALSE /\ Idle.result = Failed
  BY DEF Idle
<1>3. Shaped(call)  BY <1>1, <1>2 DEF Shaped, Idle, Steps
<1> QED
  BY <1>1, <1>2, <1>3
  DEF IInv, Unknown, SentText, AnsweredText, ReceivedText, DoneResult

LEMMA AskInv ==
  ASSUME IInv, Ask
  PROVE  IInv'
<1>1. PICK op \in {"read", "write", "stat"}, f \in Files \cup {Directory} :
        call' = [Idle EXCEPT !.op = op, !.step = "sent", !.about = f,
                   !.text = IF op = "write" THEN url_encode(bytes_to_base64(f.data)) ELSE NoText]
  BY DEF Ask
<1>2. PICK t : t = IF op = "write" THEN url_encode(bytes_to_base64(f.data)) ELSE NoText
  OBVIOUS
<1>3. call' = [op |-> op, step |-> "sent", about |-> f, text |-> t,
               stored |-> FALSE, result |-> Failed]
  BY <1>1, <1>2 DEF Idle
<1>4. call'.op = op /\ call'.step = "sent" /\ call'.about = f /\ call'.text = t
      /\ call'.stored = FALSE /\ call'.result = Failed
  BY <1>3
<1>5. Shaped(call')  BY <1>3, <1>4 DEF Shaped, Steps, Requests
<1>6. Unknown(call')  BY <1>4 DEF Unknown
<1>7. SentText(call')  BY <1>2, <1>4, Zenon DEF SentText, Encoded, Requests
<1>8. AnsweredText(call') /\ ReceivedText(call') /\ DoneResult(call')
  BY <1>4 DEF AnsweredText, ReceivedText, DoneResult
<1> QED  BY <1>5, <1>6, <1>7, <1>8 DEF IInv

LEMMA LeaveInv ==
  ASSUME IInv, Leave
  PROVE  IInv'
<1>1. call' = Idle  BY DEF Leave
<1>2. Idle.op = "none" /\ Idle.step = "idle" /\ Idle.about = Directory /\ Idle.text = NoText
      /\ Idle.stored = FALSE /\ Idle.result = Failed
  BY DEF Idle
<1>3. Shaped(call')  BY <1>1, <1>2 DEF Shaped, Idle, Steps
<1> QED
  BY <1>1, <1>2, <1>3
  DEF IInv, Unknown, SentText, AnsweredText, ReceivedText, DoneResult

LEMMA UnreachableInv ==
  ASSUME IInv, Unreachable
  PROVE  IInv'
<1>1. Shaped(call) /\ call.step = "sent" /\ ~call.stored  BY DEF IInv, Unreachable, At, Unknown
<1>2. call' = [call EXCEPT !.step = "done", !.result = Failed]  BY DEF Unreachable, Return
<1>3. call' = [op |-> call.op, step |-> "done", about |-> call.about, text |-> call.text,
               stored |-> FALSE, result |-> Failed]
  BY <1>1, <1>2 DEF Shaped
<1>4. call'.step = "done" /\ call'.op = call.op /\ call'.about = call.about
      /\ call'.stored = FALSE /\ call'.result = Failed
  BY <1>3
<1>5. Shaped(call')  BY <1>1, <1>3, <1>4 DEF Shaped, Steps
<1> QED
  BY <1>4, <1>5 DEF IInv, Unknown, SentText, AnsweredText, ReceivedText, DoneResult

\* The answer of the server.
LEMMA RespondInv ==
  ASSUME IInv, call.step = "sent", NEW status, NEW body,
         Answered(call, status, body), Respond(status, body, FALSE)
  PROVE  IInv'
<1>0. status \in {200, 400} /\ body \in Bodies(call)  BY Zenon DEF Answered, Bodies
<1>1. Shaped(call) /\ ~call.stored /\ call.result = Failed  BY DEF IInv, Unknown
<1>2. PICK a \in Answers(status, body) :
        call' = [call EXCEPT !.step = "answered", !.text = a, !.stored = FALSE]
  BY DEF Respond
<1>3. call' = [op |-> call.op, step |-> "answered", about |-> call.about, text |-> a,
               stored |-> FALSE, result |-> Failed]
  BY <1>1, <1>2 DEF Shaped
<1>4. /\ call'.op = call.op /\ call'.step = "answered" /\ call'.about = call.about
      /\ call'.text = a /\ call'.stored = FALSE /\ call'.result = Failed
  BY <1>3
<1>6. Shaped(call')  BY <1>1, <1>3, <1>4 DEF Shaped, Steps
<1>5. AnsweredText(call')
  <2>3. call'.op = call.op /\ call'.about = call.about  BY <1>4
  <2>4. body \in Bodies(call')  BY <1>0, <2>3, Zenon DEF Bodies
  <2>5. Answered(call', status, body)  BY <2>3 DEF Answered
  <2>1. Answered(call', status, body) /\ body \in Bodies(call')  BY <2>4, <2>5
  <2>2. call'.text \in Answers(status, body)  BY <1>2, <1>4, Zenon
  <2> QED  BY <1>0, <2>1, <2>2 DEF AnsweredText
<1> QED
  BY <1>4, <1>5, <1>6 DEF IInv, Unknown, SentText, ReceivedText, DoneResult

LEMMA ServeInv ==
  ASSUME IInv, Serve
  PROVE  IInv'
<1>1. call.step = "sent"  BY DEF Serve, At
<1>2. CASE Respond(400, ErrorBody, FALSE)
  <2>1. Answered(call, 400, ErrorBody)  BY Zenon DEF Answered
  <2> QED  BY <1>1, <1>2, <2>1, RespondInv
<1>3. CASE call.op = "read" /\ Respond(200, DataBody(call.about.data), FALSE)
  <2>1. Answered(call, 200, DataBody(call.about.data))  BY <1>3, Zenon DEF Answered
  <2> QED  BY <1>1, <1>3, <2>1, RespondInv
<1>4. CASE call.op = "stat" /\ Respond(200, StatBody(call.about), FALSE)
  <2>1. Answered(call, 200, StatBody(call.about))  BY <1>4, Zenon DEF Answered
  <2> QED  BY <1>1, <1>4, <2>1, RespondInv
<1>5. CASE /\ call.op = "write" /\ JavaDecode(call.text).ok
           /\ call' = [call EXCEPT !.step = "done", !.stored = TRUE,
                                   !.result = JavaDecode(call.text)]
  <2>1. Shaped(call)  BY DEF IInv
  <2>2. PICK r : r = JavaDecode(call.text)  OBVIOUS
  <2>3. call' = [op |-> call.op, step |-> "done", about |-> call.about, text |-> call.text,
                 stored |-> TRUE, result |-> r]
    BY <1>5, <2>1, <2>2 DEF Shaped
  <2>4. /\ call'.op = call.op /\ call'.step = "done" /\ call'.about = call.about
        /\ call'.text = call.text /\ call'.stored = TRUE /\ call'.result = r
    BY <2>3
  <2>8. Shaped(call')  BY <2>1, <2>3, <2>4 DEF Shaped, Steps
  <2>5. call.text = Encoded(call)  BY <1>1, <1>5, Zenon DEF IInv, SentText
  <2>6. Encoded(call') = Encoded(call)  BY <2>4, Zenon DEF Encoded
  <2>7. WriteResult(call')  BY <1>5, <2>2, <2>4, <2>5, <2>6, Zenon DEF WriteResult
  <2> QED
    BY <2>4, <2>7, <2>8 DEF IInv, Unknown, SentText, AnsweredText, ReceivedText, DoneResult
<1> QED  BY <1>2, <1>3, <1>4, <1>5, Zenon DEF Serve

\* Some of the answer has come.
LEMMA ReceiveInv ==
  ASSUME IInv, Receive
  PROVE  IInv'
<1>1. call.step = "answered" /\ Shaped(call) /\ ~call.stored /\ call.result = Failed
  BY DEF IInv, Receive, At, Unknown
<1>2. PICK n \in 0 .. Min({Len(call.text), ResponseSize - 1}) :
        call' = [call EXCEPT !.step = "received", !.text = SubSeq(call.text, 1, n)]
  BY DEF Receive, Step
<1>3. PICK status \in {200, 400}, body \in Bodies(call) :
        Answered(call, status, body) /\ call.text \in Answers(status, body)
  BY <1>1 DEF IInv, AnsweredText
<1>4. PICK t : t = SubSeq(call.text, 1, n)  OBVIOUS
<1>5. call' = [op |-> call.op, step |-> "received", about |-> call.about, text |-> t,
               stored |-> FALSE, result |-> Failed]
  BY <1>1, <1>2, <1>4 DEF Shaped
<1>6. /\ call'.op = call.op /\ call'.step = "received" /\ call'.about = call.about
      /\ call'.text = t /\ call'.stored = FALSE /\ call'.result = Failed
  BY <1>5
<1>7. Shaped(call')  BY <1>1, <1>5, <1>6 DEF Shaped, Steps
<1>8. n \in 0 .. Len(call.text)
  <2>1. body \in Seq(BodyTokens) /\ status \in Nat
    <3>1. call.about \in Files \cup {Directory}  BY <1>1 DEF Shaped
    <3> QED  BY <3>1, BodiesFacts DEF Bodies
  <2>2. call.text \in Seq(AnswerTokens)  BY <1>3, <2>1, AnswerText
  <2>3. PICK g \in Nat : g = Len(call.text)  BY <2>2
  <2>4. PICK r \in Nat : r = ResponseSize - 1  BY Constants
  <2>5. Min({g, r}) = IF g <= r THEN g ELSE r  BY MinOfTwo
  <2>6. n \in 0 .. Min({g, r})  BY <1>2, <2>3, <2>4, Zenon
  <2>7. n \in 0 .. g  BY <2>5, <2>6
  <2> QED  BY <2>3, <2>7
<1>9. ReceivedText(call')
  <2>1. Answered(call', status, body) /\ body \in Bodies(call')
    BY <1>3, <1>6, Zenon DEF Answered, Bodies
  <2>2. PartOf(t, status, body)
    <3>1. call.text \in Answers(status, body)  BY <1>3
    <3> QED  BY <1>4, <1>8, <3>1 DEF PartOf
  <2>3. PartOf(call'.text, status, body)  BY <1>6, <2>2, Zenon
  <2> QED  BY <2>1, <2>3 DEF ReceivedText
<1> QED
  BY <1>6, <1>7, <1>9 DEF IInv, Unknown, SentText, AnsweredText, DoneResult

\* The answer is read.
LEMMA ParseInv ==
  ASSUME IInv, Parse
  PROVE  IInv'
<1>1. call.step = "received" /\ Shaped(call) /\ ~call.stored
  BY DEF IInv, Parse, At, Unknown
<1>2. call.about \in Files \cup {Directory} /\ call.op \in {"none", "read", "write", "stat"}
  BY <1>1 DEF Shaped, Requests
<1>3. PICK b : /\ b \in IF BodyWritten(call.text) THEN {BodyOf(call.text)} ELSE Leftovers
               /\ CASE call.op = "read" -> Return(ReadResult(StatusOf(call.text), b))
                    [] call.op = "stat" -> Return(StatResult(b))
                    [] OTHER            -> Return(Failed)
  BY Zenon DEF Parse
<1>4. PICK r : /\ call.op = "read" => r = ReadResult(StatusOf(call.text), b)
               /\ call.op = "stat" => r = StatResult(b)
               /\ call.op \notin {"read", "stat"} => r = Failed
               /\ Return(r)
  BY <1>3
<1>5. PICK status \in {200, 400}, body \in Bodies(call) :
        Answered(call, status, body) /\ PartOf(call.text, status, body)
  BY <1>1 DEF IInv, ReceivedText
<1>6. call' = [op |-> call.op, step |-> "done", about |-> call.about, text |-> call.text,
               stored |-> FALSE, result |-> r]
  BY <1>1, <1>4 DEF Shaped, Return
<1>7. /\ call'.op = call.op /\ call'.step = "done" /\ call'.about = call.about
      /\ call'.text = call.text /\ call'.stored = FALSE /\ call'.result = r
  BY <1>6
<1>8. Shaped(call')  BY <1>1, <1>6, <1>7 DEF Shaped, Steps
<1>9. DoneResult(call')
  <2>1. CASE call.op = "read"
    <3>1. r = Failed \/ r = Value(call.about.data)
      BY <1>2, <1>3, <1>4, <1>5, <2>1, ReadParsed
    <3> QED  BY <1>7, <2>1, <3>1 DEF DoneResult
  <2>2. CASE call.op = "stat"
    <3>1. \/ r = Failed
          \/ BodyWritten(call.text) /\ r = Stat(call.about.dir, Len(call.about.data))
          \/ ~BodyWritten(call.text) /\ \E f \in Files \cup {Directory} :
                                          r = Stat(f.dir, Len(f.data))
      BY <1>2, <1>3, <1>4, <1>5, <2>2, StatParsed
    <3>2. CASE r = Failed  BY <1>7, <3>2 DEF DoneResult
    <3>3. CASE r # Failed
      <4>1. PICK f \in Files \cup {Directory} : r = Stat(f.dir, Len(f.data))
        BY <1>2, <3>1, <3>3
      <4>2. Len(f.data) \in Nat  BY FilesFacts
      <4>3. r.dir = f.dir /\ r.size = Len(f.data)  BY <4>1 DEF Stat
      <4>4. BodyWritten(call.text) => r = Stat(call.about.dir, Len(call.about.data))
        BY <3>1, <3>3
      <4>5. r = Stat(r.dir, r.size) /\ r.size \in Nat  BY <4>1, <4>2, <4>3, Zenon
      <4>6. StatResults(call')  BY <1>7, <2>2, <4>4, <4>5 DEF StatResults
      <4> QED  BY <1>7, <4>6 DEF DoneResult
    <3> QED  BY <3>2, <3>3
  <2>3. CASE call.op \notin {"read", "stat"}  BY <1>4, <1>7, <2>3 DEF DoneResult
  <2> QED  BY <2>1, <2>2, <2>3
<1> QED
  BY <1>7, <1>8, <1>9 DEF IInv, Unknown, SentText, AnsweredText, ReceivedText

LEMMA Inductive ==
  ASSUME IInv, [Next]_vars
  PROVE  IInv'
<1>1. CASE Ask  BY <1>1, AskInv
<1>2. CASE Leave  BY <1>2, LeaveInv
<1>3. CASE Unreachable  BY <1>3, UnreachableInv
<1>4. CASE Serve  BY <1>4, ServeInv
<1>5. CASE Receive  BY <1>5, ReceiveInv
<1>6. CASE Parse  BY <1>6, ParseInv
<1>7. CASE UNCHANGED vars
  <2>1. call' = call  BY <1>7 DEF vars
  <2> QED
    BY <2>1
    DEF IInv, Shaped, Unknown, SentText, AnsweredText, ReceivedText, DoneResult
<1> QED  BY <1>1, <1>2, <1>3, <1>4, <1>5, <1>6, <1>7 DEF Next

LEMMA Invariant == Spec => []IInv
BY InvInit, Inductive, PTL DEF Spec

-----------------------------------------------------------------------------
(***************************************************************************)
(* What follows from it.                                                   *)
(***************************************************************************)

\* The text a write sends is its encoded bytes or their beginning, and what
\* the server decodes it to is theirs.
LEMMA WriteFacts ==
  ASSUME NEW c, c.about \in Files \cup {Directory}, WriteResult(c)
  PROVE  \E n \in 0 .. Len(c.about.data) :
           /\ c.result = Value(SubSeq(c.about.data, 1, n))
           /\ Width(bytes_to_base64(c.about.data)) <= UrlSize - 3 => n = Len(c.about.data)
<1>1. PICK d : d = c.about.data /\ d \in Seq(Octets)  BY FilesFacts
<1>2. PICK t : t = bytes_to_base64(d)  OBVIOUS
<1>3. PICK T : t \in Seq(T)  BY <1>1, <1>2, EncodedShape
<1>4. PICK k \in 0 .. Len(t) : /\ url_encode(t) = SubSeq(t, 1, k)
                               /\ Width(t) <= UrlSize - 3 => k = Len(t)
  BY <1>3, UrlEncodeFacts
<1>5. Len(t) = 4 * Units(d)  BY <1>1, <1>2, EncodedShape
<1>6. PICK s : s = SubSeq(t, 1, k)  OBVIOUS
<1>7. c.text = s /\ c.result = JavaDecode(s) /\ JavaDecode(s).ok
  BY <1>1, <1>2, <1>4, <1>6, Zenon DEF WriteResult, Encoded
<1>8. k \in 0 .. 4 * Units(d) /\ s = SubSeq(bytes_to_base64(d), 1, k)
  BY <1>2, <1>4, <1>5, <1>6, Zenon
<1>9. PICK n \in 0 .. Len(d) : /\ JavaDecode(s) = Value(SubSeq(d, 1, n))
                               /\ k = 4 * Units(d) => n = Len(d)
  <2>1. d \in Seq(Octets) /\ JavaDecode(s).ok  BY <1>1, <1>7
  <2> QED  BY <1>8, <2>1, JavaDecodePrefix
<1>10. Width(t) <= UrlSize - 3 => n = Len(d)  BY <1>4, <1>5, <1>9, Zenon
<1>11. c.result = Value(SubSeq(d, 1, n))  BY <1>7, <1>9, Zenon
<1> QED  BY <1>1, <1>2, <1>9, <1>10, <1>11, Zenon

LEMMA TypeHolds == IInv => TypeOK
<1> SUFFICES ASSUME IInv PROVE TypeOK  OBVIOUS
<1>1. /\ call.op \in {"none", "read", "write", "stat"}
      /\ call.step \in {"idle", "sent", "answered", "received", "done"}
      /\ call.about \in Files \cup {Directory} /\ call.stored \in BOOLEAN
  BY DEF IInv, Shaped, Requests, Steps
<1>2. call.result = Failed \/ call.step = "done"  BY DEF IInv, Unknown
<1>3. CASE call.result = Failed  BY <1>1, <1>3, FailedIsNotOk DEF TypeOK
<1>4. CASE call.op = "read" /\ call.result = Value(call.about.data)
  <2>1. call.result.data = call.about.data  BY <1>4, FailedIsNotOk
  <2>2. call.about.data \in Seq(0 .. 255)  BY <1>1, FilesFacts DEF Octets
  <2> QED  BY <1>1, <1>4, <2>1, <2>2 DEF TypeOK
<1>5. CASE StatResults(call)  BY <1>1, <1>5 DEF TypeOK, StatResults
<1>6. CASE WriteResult(call)
  <2>1. PICK n \in 0 .. Len(call.about.data) : call.result = Value(SubSeq(call.about.data, 1, n))
    BY <1>1, <1>6, WriteFacts
  <2>2. call.about.data \in Seq(Octets)  BY <1>1, FilesFacts
  <2>3. SubSeq(call.about.data, 1, n) \in Seq(Octets)  BY <2>2, PrefixBegins
  <2>4. call.result.data = SubSeq(call.about.data, 1, n)  BY <2>1, FailedIsNotOk
  <2>5. call.result.data \in Seq(0 .. 255)  BY <2>3, <2>4 DEF Octets
  <2>6. call.op = "write"  BY <1>6 DEF WriteResult
  <2> QED  BY <1>1, <2>5, <2>6 DEF TypeOK
<1> QED  BY <1>2, <1>3, <1>4, <1>5, <1>6 DEF IInv, DoneResult

LEMMA ReadHolds == IInv => ReadAllOrNothing
<1> SUFFICES ASSUME IInv, call.step = "done", call.op = "read", call.result.ok
             PROVE  call.result.data = call.about.data
  BY DEF ReadAllOrNothing, At
<1>1. call.result # Failed  BY FailedIsNotOk
<1>2. ~StatResults(call) /\ ~WriteResult(call)  BY DEF StatResults, WriteResult
<1>3. call.result = Value(call.about.data)  BY <1>1, <1>2 DEF IInv, DoneResult
<1> QED  BY <1>3, FailedIsNotOk

LEMMA StatHolds == IInv => StatTrue
<1> SUFFICES ASSUME IInv, call.step = "done", call.op = "stat", call.result.ok,
                    BodyWritten(call.text)
             PROVE  call.result = Stat(call.about.dir, Len(call.about.data))
  BY DEF StatTrue, At
<1>1. call.result # Failed  BY FailedIsNotOk
<1>2. StatResults(call)  BY <1>1 DEF IInv, DoneResult, WriteResult
<1> QED  BY <1>2 DEF StatResults

LEMMA PrefixHolds == IInv => SentIsPrefix
<1> SUFFICES ASSUME IInv, call.stored
             PROVE  /\ IsPrefix(call.result.data, call.about.data)
                    /\ Width(bytes_to_base64(call.about.data)) <= UrlSize - 3 =>
                         call.result.data = call.about.data
  BY DEF SentIsPrefix
<1>1. WriteResult(call)  BY DEF IInv, Unknown, DoneResult
<1>2. call.about \in Files \cup {Directory}  BY DEF IInv, Shaped
<1>3. PICK d : d = call.about.data /\ d \in Seq(Octets)  BY <1>2, FilesFacts
<1>4. PICK n \in 0 .. Len(d) :
        /\ call.result = Value(SubSeq(d, 1, n))
        /\ Width(bytes_to_base64(d)) <= UrlSize - 3 => n = Len(d)
  BY <1>1, <1>2, <1>3, WriteFacts
<1>5. PICK p : p = SubSeq(d, 1, n)  OBVIOUS
<1>6. call.result.data = p  BY <1>4, <1>5, FailedIsNotOk
<1>7. p \in Seq(Octets) /\ Len(p) = n /\ \A i \in 1 .. n : p[i] = d[i]
  BY <1>3, <1>4, <1>5, PrefixBegins
<1>8. SubSeq(p, 1, n) = SubSeq(d, 1, n)
  <2>1. n \in 0 .. Len(p)  BY <1>4, <1>7
  <2>2. PICK q : q = SubSeq(p, 1, n)  OBVIOUS
  <2>3. q \in Seq(Octets) /\ Len(q) = n /\ \A i \in 1 .. n : q[i] = p[i]
    BY <1>7, <2>1, <2>2, PrefixBegins
  <2>4. q = p  BY <1>7, <2>3
  <2> QED  BY <1>5, <2>2, <2>4
<1>9. IsPrefix(p, d)
  <2>1. PICK g \in Nat : g = Len(d)  BY <1>3
  <2>2. Len(p) <= Len(d)  BY <1>4, <1>7, <2>1
  <2> QED  BY <1>7, <1>8, <2>2 DEF IsPrefix
<1>10. ASSUME n = Len(d)  PROVE p = d
  <2>1. d \in Seq(Octets) /\ Len(p) = Len(d) /\ \A i \in 1 .. Len(d) : p[i] = d[i]
    BY <1>3, <1>7, <1>10
  <2> QED  BY <1>7, <2>1
<1> QED  BY <1>3, <1>4, <1>6, <1>9, <1>10, Zenon

LEMMA FitHolds == IInv => EncodedFits
<1> SUFFICES ASSUME IInv, call.step = "sent"
             PROVE  Width(call.text) + 1 <= UrlSize
  BY DEF EncodedFits, At
<1>1. call.about \in Files \cup {Directory}  BY DEF IInv, Shaped
<1>2. CASE call.op = "write"
  <2>1. PICK t : t = bytes_to_base64(call.about.data)  OBVIOUS
  <2>2. PICK T : t \in Seq(T)  BY <1>1, <2>1, FilesFacts, EncodedShape
  <2>3. Width(url_encode(t)) + 1 <= UrlSize  BY <2>2, UrlEncodeFacts
  <2>4. call.text = url_encode(t)  BY <1>2, <2>1, Zenon DEF IInv, SentText, Encoded
  <2> QED  BY <2>3, <2>4, Zenon
<1>3. CASE call.op # "write"
  <2>1. call.text = <<>>  BY <1>3 DEF IInv, SentText, NoText
  <2>2. Width(<<>>) = 0
    <3>1. {i \in DOMAIN <<>> : Wide(<<>>[i])} = {}  OBVIOUS
    <3>2. Cardinality({i \in DOMAIN <<>> : Wide(<<>>[i])}) = 0  BY <3>1, FS_EmptySet
    <3> QED  BY <3>2 DEF Width
  <2> QED  BY <2>1, <2>2, Constants
<1> QED  BY <1>2, <1>3

\* The fields of a call keep their types: bytes that http_read returns, or
\* that a write brought to the server, are bytes, and sizes are numbers.
THEOREM TypesHold == Spec => []TypeOK
BY Invariant, TypeHolds, PTL

\* http_read returns an error or the bytes the server has, all of them,
\* wherever the answer is cut, in one piece or chunked, and whatever the
\* memory of an answer that was not understood holds.
THEOREM ReadsAllOrNothing == Spec => []ReadAllOrNothing
BY Invariant, ReadHolds, PTL

\* http_stat returns an error or the type and the size the server has, also
\* when the answer is cut inside the number, once the status line has come.
THEOREM StatsTrue == Spec => []StatTrue
BY Invariant, StatHolds, PTL

\* What http_write brings to the file is the beginning of what was to be
\* written, and all of it if its encoding fits the buffer of the value.
THEOREM SentAlwaysPrefix == Spec => []SentIsPrefix
BY Invariant, PrefixHolds, PTL

\* url_encode never fills its buffer beyond the end, for any bytes and any
\* size of the buffer.
THEOREM EncodedAlwaysFits == Spec => []EncodedFits
BY Invariant, FitHolds, PTL

=============================================================================
