-------------------------- MODULE TranscriptProofs --------------------------
(***************************************************************************)
(* Theorems about Transcript, for every base, every width and every set of *)
(* inputs: two inputs have the same bytes only if a signature of one is    *)
(* meant for the other.                                                    *)
(*                                                                         *)
(* The argument is about fields, not about whole transcripts.  A field     *)
(* tells two values apart if no two strings that begin with it, whatever   *)
(* follows, are the same unless the values are (Tells).  Every encoding of *)
(* transcripts.rs is such a field, fields in a row are one (FieldsTell),   *)
(* and the tag in front tells the format.                                  *)
(***************************************************************************)
EXTENDS Transcript, WellFoundedInduction, TLAPS

-----------------------------------------------------------------------------
(* Induction over a set of numbers, from the least number not in it.       *)

LEMMA LeastNumber ==
  ASSUME NEW T, T \subseteq Nat, T # {}
  PROVE  \E n \in T : \A k \in T : ~ (k < n)
  <1> DEFINE R == OpToRel(<, Nat)
  <1>1. IsWellFoundedOn(R, Nat)
    BY NatLessThanWellFounded
  <1>2. R = {e \in Nat \X Nat : e[1] < e[2]}
    BY DEF OpToRel
  <1> HIDE DEF R
  <1>3. \E n \in T : \A k \in T : ~ (<<k, n>> \in R)
    BY <1>1, WFMin
  <1>4. QED
    BY <1>2, <1>3

\* The set stands for what is proved of a number by induction.
LEMMA Induction ==
  ASSUME NEW T, 0 \in T, \A n \in Nat : n \in T => n + 1 \in T
  PROVE  Nat \subseteq T
  <1>0. SUFFICES ASSUME Nat \ T # {} PROVE FALSE
    OBVIOUS
  <1>1. PICK n \in Nat \ T : \A k \in Nat \ T : ~ (k < n)
    BY <1>0, LeastNumber
  <1>2. n # 0
    BY <1>1
  <1>3. n - 1 \in Nat /\ n - 1 < n /\ n = (n - 1) + 1
    BY <1>1, <1>2
  <1>4. n - 1 \in T
    BY <1>1, <1>3
  <1>5. QED
    BY <1>1, <1>3, <1>4

-----------------------------------------------------------------------------
(* FlattenSeq, which is recursive, from the first field on.                *)

\* g[i] is the first i strings of F, one after the other.
Sums(F, n, g) == g = [i \in 1..n |-> IF i = 1 THEN F[i] ELSE g[i - 1] \o F[i]]

LEMMA SumsExist ==
  ASSUME NEW F
  PROVE  \A n \in Nat \ {0} : \E g : Sums(F, n, g)
  <1> DEFINE T == {n \in Nat : n = 0 \/ \E g : Sums(F, n, g)}
  <1>1. 0 \in T
    OBVIOUS
  <1>2. ASSUME NEW n \in Nat, n \in T
        PROVE  n + 1 \in T
    <2>1. CASE n = 0
      <3>1. Sums(F, 1, [i \in 1..1 |-> F[i]])
        BY DEF Sums
      <3>2. QED
        BY <2>1, <3>1
    <2>2. CASE n # 0
      <3>1. PICK g : Sums(F, n, g)
        BY <1>2, <2>2
      <3> DEFINE h == [i \in 1..n + 1 |-> IF i = n + 1 THEN g[n] \o F[i] ELSE g[i]]
      <3>2. \A i \in 1..n + 1 : h[i] = IF i = 1 THEN F[i] ELSE h[i - 1] \o F[i]
        <4>1. TAKE i \in 1..n + 1
        <4>2. CASE i = n + 1
          <5>1. i # 1 /\ i - 1 = n /\ n \in 1..n + 1 /\ n # n + 1
            BY <2>2, <4>2
          <5>2. QED
            BY <4>2, <5>1
        <4>3. CASE i # n + 1 /\ i # 1
          <5>1. i \in 1..n /\ i - 1 \in 1..n + 1 /\ i - 1 # n + 1
            BY <4>3
          <5>2. g[i] = g[i - 1] \o F[i]
            BY <3>1, <4>3, <5>1 DEF Sums
          <5>3. QED
            BY <4>3, <5>1, <5>2
        <4>4. CASE i # n + 1 /\ i = 1
          <5>1. i \in 1..n
            BY <4>4
          <5>2. g[i] = F[i]
            BY <3>1, <4>4, <5>1 DEF Sums
          <5>3. QED
            BY <4>4, <5>2
        <4>5. QED
          BY <4>2, <4>3, <4>4
      <3>3. Sums(F, n + 1, h)
        <4> HIDE DEF h
        <4>1. h = [i \in 1..n + 1 |-> h[i]]
          BY DEF h
        <4>2. QED
          BY <3>2, <4>1 DEF Sums
      <3>4. QED
        BY <3>3
    <2>3. QED
      BY <2>1, <2>2
  <1>3. Nat \subseteq T
    <2> HIDE DEF T
    <2>1. QED
      BY <1>1, <1>2, Induction
  <1>4. QED
    BY <1>3

LEMMA FlattenMeans ==
  ASSUME NEW F, Len(F) \in Nat \ {0}
  PROVE  \E g : Sums(F, Len(F), g) /\ FlattenSeq(F) = g[Len(F)]
  <1> DEFINE f == CHOOSE g : Sums(F, Len(F), g)
  <1>1. Sums(F, Len(F), f)
    BY SumsExist
  <1>2. FlattenSeq(F) = f[Len(F)]
    BY DEF FlattenSeq, Sums
  <1>3. QED
    BY <1>1, <1>2

-----------------------------------------------------------------------------
(* Strings of bytes and tags, and how they join.                           *)

Tags == {"key-challenge", "principal-rename", "key-delegation", "key-revocation",
         "root-rotation", "session-delegation", "signed-message", "signed-document",
         "approval", "peer-revocation", "delivery-attestation", "request-digest",
         "client-request-digest"}

Str == Seq(Int \cup Tags)

LEMMA TagType ==
  ASSUME NEW tag \in Tags
  PROVE  <<tag, 0>> \in Str /\ <<tag, 0>>[1] = tag
  BY DEF Str

\* A string is cut in one way at a given length.
LEMMA SplitAt ==
  ASSUME NEW s \in Str, NEW t \in Str, NEW r \in Str, NEW q \in Str,
         Len(s) = Len(t), s \o r = t \o q
  PROVE  s = t /\ r = q
  <1>1. Len(r) = Len(q)
    <2>1. Len(s \o r) = Len(s) + Len(r) /\ Len(t \o q) = Len(t) + Len(q)
      BY DEF Str
    <2>2. Len(s) \in Nat /\ Len(r) \in Nat /\ Len(q) \in Nat
      BY DEF Str
    <2>3. QED
      BY <2>1, <2>2
  <1>2. \A i \in 1..Len(s) : s[i] = t[i]
    <2>1. \A i \in 1..Len(s) : (s \o r)[i] = s[i] /\ (t \o q)[i] = t[i]
      BY DEF Str
    <2>2. QED
      BY <2>1
  <1>3. \A i \in 1..Len(r) : r[i] = q[i]
    <2>1. TAKE i \in 1..Len(r)
    <2>2. Len(s) \in Nat /\ Len(r) \in Nat
      BY DEF Str
    <2>3. (s \o r)[Len(s) + i] = r[i] /\ (t \o q)[Len(t) + i] = q[i]
      BY <1>1, <2>2 DEF Str
    <2>4. QED
      BY <2>3
  <1>4. s = t
    <2>1. s = [i \in 1..Len(s) |-> s[i]] /\ t = [i \in 1..Len(t) |-> t[i]]
      BY DEF Str
    <2>2. QED
      BY <1>2, <2>1
  <1>5. r = q
    BY <1>1, <1>3 DEF Str
  <1>6. QED
    BY <1>4, <1>5

LEMMA Joined ==
  ASSUME NEW s \in Str, NEW t \in Str
  PROVE  s \o t \in Str
  BY DEF Str

LEMMA JoinFirst ==
  ASSUME NEW s \in Str, NEW t \in Str, Len(s) # 0
  PROVE  (s \o t)[1] = s[1]
  BY DEF Str

LEMMA JoinAssociates ==
  ASSUME NEW s \in Str, NEW t \in Str, NEW r \in Str
  PROVE  (s \o t) \o r = s \o (t \o r)
  <1> DEFINE a == (s \o t) \o r
             b == s \o (t \o r)
  <1>1. Len(s) \in Nat /\ Len(t) \in Nat /\ Len(r) \in Nat
    BY DEF Str
  <1>2. a \in Str /\ b \in Str /\ Len(a) = Len(s) + Len(t) + Len(r) /\ Len(b) = Len(a)
    BY <1>1 DEF Str
  <1>3. \A i \in 1..Len(s) + Len(t) + Len(r) : a[i] = b[i]
    <2>1. TAKE i \in 1..Len(s) + Len(t) + Len(r)
    <2>2. CASE i <= Len(s)
      BY <1>1, <2>2 DEF Str
    <2>3. CASE i > Len(s) /\ i <= Len(s) + Len(t)
      BY <1>1, <2>3 DEF Str
    <2>4. CASE i > Len(s) + Len(t)
      BY <1>1, <2>4 DEF Str
    <2>5. QED
      BY <1>1, <2>2, <2>3, <2>4
  <1> HIDE DEF a, b
  <1>4. a = b
    BY <1>1, <1>2, <1>3 DEF Str
  <1>5. QED
    BY <1>4 DEF a, b

-----------------------------------------------------------------------------
(* Fields that tell what they stand for, whatever follows them.            *)

\* If a string begins with the field s and with the field t, the two fields
\* are the same, and p holds.
Tells(s, t, p) ==
  s # Refused /\ t # Refused =>
    /\ s \in Str /\ t \in Str
    /\ \A r, q \in Str : s \o r = t \o q => s = t /\ p

LEMMA SumFirst ==
  ASSUME NEW n \in Nat \ {0}, NEW F, NEW f, Sums(F, n, f)
  PROVE  f[1] = F[1]
  BY DEF Sums

LEMMA SumNext ==
  ASSUME NEW n \in Nat \ {0}, NEW F, NEW f, Sums(F, n, f), NEW k \in 1..n, k # 1
  PROVE  f[k] = f[k - 1] \o F[k]
  BY DEF Sums

\* The first k fields, whatever follows them.
TellTo(k, f, g, X, Y) ==
  /\ f[k] \in Str /\ g[k] \in Str
  /\ \A r, q \in Str : f[k] \o r = g[k] \o q => f[k] = g[k] /\ \A i \in 1..k : X[i] = Y[i]

\* By induction over the number of fields.
LEMMA SumsTell ==
  ASSUME NEW n \in Nat \ {0}, NEW F, NEW G, NEW X, NEW Y, NEW f, NEW g,
         Sums(F, n, f), Sums(G, n, g),
         \A i \in 1..n : /\ F[i] # Refused /\ G[i] # Refused
                         /\ Tells(F[i], G[i], X[i] = Y[i])
  PROVE  TellTo(n, f, g, X, Y)
  <1> DEFINE T == {k \in Nat : k \in 1..n => TellTo(k, f, g, X, Y)}
  <1>1. 0 \in T
    OBVIOUS
  <1>2. ASSUME NEW k \in Nat, k \in T, k + 1 \in 1..n
        PROVE  TellTo(k + 1, f, g, X, Y)
    <2> DEFINE s == F[k + 1]
               t == G[k + 1]
    <2>1. /\ s \in Str /\ t \in Str
          /\ \A r, q \in Str : s \o r = t \o q => s = t /\ X[k + 1] = Y[k + 1]
      BY <1>2 DEF Tells
    <2>2. CASE k = 0
      <3>1. f[1] = F[1] /\ g[1] = G[1]
        <4>1. 1 \in 1..n
          OBVIOUS
        <4>2. QED
          BY <4>1, SumFirst
      <3>2. k + 1 = 1 /\ \A i \in 1..1 : i = 1
        BY <2>2
      <3>3. s = f[1] /\ t = g[1] /\ X[k + 1] = X[1] /\ Y[k + 1] = Y[1]
        BY <3>1, <3>2
      <3> HIDE DEF s, t
      <3>4. TellTo(1, f, g, X, Y)
        BY <2>1, <3>2, <3>3 DEF TellTo
      <3>5. QED
        BY <3>2, <3>4
    <2>3. CASE k # 0
      <3>1. k \in 1..n
        BY <1>2, <2>3
      <3>2. TellTo(k, f, g, X, Y)
        BY <1>2, <3>1
      <3>3. f[k + 1] = f[k] \o s /\ g[k + 1] = g[k] \o t
        <4>1. k + 1 \in 1..n /\ k + 1 # 1 /\ (k + 1) - 1 = k
          BY <1>2, <3>1
        <4>2. f[k + 1] = f[(k + 1) - 1] \o F[k + 1] /\ g[k + 1] = g[(k + 1) - 1] \o G[k + 1]
          BY <4>1, SumNext
        <4>3. QED
          BY <4>1, <4>2
      <3>4. f[k] \in Str /\ g[k] \in Str
        BY <3>2 DEF TellTo
      <3>5. s \in Str /\ t \in Str
        BY <2>1
      <3> HIDE DEF s, t
      <3>6. f[k + 1] \in Str /\ g[k + 1] \in Str
        BY <3>3, <3>4, <3>5, Joined
      <3>7. ASSUME NEW r \in Str, NEW q \in Str, f[k + 1] \o r = g[k + 1] \o q
            PROVE  f[k + 1] = g[k + 1] /\ \A i \in 1..k + 1 : X[i] = Y[i]
        <4>1. s \o r \in Str /\ t \o q \in Str
          BY <3>5, Joined
        <4>2. f[k] \o (s \o r) = (f[k] \o s) \o r /\ g[k] \o (t \o q) = (g[k] \o t) \o q
          <5>1. f[k] \o (s \o r) = (f[k] \o s) \o r
            BY <3>4, <3>5, JoinAssociates
          <5>2. g[k] \o (t \o q) = (g[k] \o t) \o q
            BY <3>4, <3>5, JoinAssociates
          <5>3. QED
            BY <5>1, <5>2
        <4>3. f[k] \o (s \o r) = g[k] \o (t \o q)
          BY <3>3, <3>7, <4>2
        <4>4. f[k] = g[k] /\ \A i \in 1..k : X[i] = Y[i]
          BY <3>2, <4>1, <4>3 DEF TellTo
        <4>5. s \o r = t \o q
          <5>1. Len(f[k]) = Len(g[k])
            BY <4>4
          <5>2. \A u, v \in Str : Len(f[k]) = Len(g[k]) /\ f[k] \o u = g[k] \o v => u = v
            BY <3>4, SplitAt
          <5>3. QED
            BY <4>1, <4>3, <5>1, <5>2
        <4>6. s = t /\ X[k + 1] = Y[k + 1]
          BY <2>1, <4>5 DEF s, t
        <4>7. \A i \in 1..k + 1 : i = k + 1 \/ i \in 1..k
          OBVIOUS
        <4>8. QED
          BY <3>3, <4>4, <4>6, <4>7
      <3>8. QED
        BY <3>6, <3>7 DEF TellTo
    <2>4. QED
      BY <2>2, <2>3
  <1>3. Nat \subseteq T
    <2>1. \A k \in Nat : k \in T => k + 1 \in T
      BY <1>2
    <2> HIDE DEF T
    <2>2. QED
      BY <1>1, <2>1, Induction
  <1>4. n \in T
    BY <1>3
  <1>5. QED
    BY <1>4

\* Fields in a row tell the value of each.
LEMMA FieldsTell ==
  ASSUME NEW n \in Nat \ {0}, NEW F, NEW G, NEW X, NEW Y, NEW a, NEW b,
         Len(F) = n, Len(G) = n, DOMAIN F = 1..n, DOMAIN G = 1..n,
         \A i \in 1..n : Tells(F[i], G[i], X[i] = Y[i])
  PROVE  Tells(Enc(a, F), Enc(b, G), \A i \in 1..n : X[i] = Y[i])
  <1>1. SUFFICES ASSUME Enc(a, F) # Refused, Enc(b, G) # Refused
        PROVE  /\ Enc(a, F) \in Str /\ Enc(b, G) \in Str
               /\ \A r, q \in Str : Enc(a, F) \o r = Enc(b, G) \o q =>
                    Enc(a, F) = Enc(b, G) /\ \A i \in 1..n : X[i] = Y[i]
    BY DEF Tells
  <1>2. /\ \A i \in 1..n : F[i] # Refused /\ G[i] # Refused
        /\ Enc(a, F) = FlattenSeq(F) /\ Enc(b, G) = FlattenSeq(G)
    BY <1>1 DEF Enc
  <1>3. PICK f : Sums(F, n, f) /\ FlattenSeq(F) = f[n]
    BY FlattenMeans
  <1>4. PICK g : Sums(G, n, g) /\ FlattenSeq(G) = g[n]
    BY FlattenMeans
  <1>5. TellTo(n, f, g, X, Y)
    BY <1>2, <1>3, <1>4, SumsTell
  <1>6. QED
    BY <1>2, <1>3, <1>4, <1>5 DEF TellTo

LEMMA PairParts ==
  ASSUME NEW a, NEW s, NEW t, Enc(a, <<s, t>>) # Refused
  PROVE  s # Refused /\ t # Refused /\ Enc(a, <<s, t>>) = FlattenSeq(<<s, t>>)
  <1> DEFINE F == <<s, t>>
  <1>1. DOMAIN F = 1..2 /\ F[1] = s /\ F[2] = t
    OBVIOUS
  <1> HIDE DEF F
  <1>2. 1 \in DOMAIN F /\ 2 \in DOMAIN F /\ Enc(a, F) # Refused
    BY <1>1 DEF F
  <1>3. QED
    BY <1>1, <1>2 DEF Enc, F

\* Two fields, one after the other.
LEMMA PairMeans ==
  ASSUME NEW a, NEW s \in Str, NEW t \in Str, Enc(a, <<s, t>>) # Refused
  PROVE  Enc(a, <<s, t>>) = s \o t
  <1> DEFINE F == <<s, t>>
  <1>1. Len(F) = 2 /\ F[1] = s /\ F[2] = t
    OBVIOUS
  <1> HIDE DEF F
  <1>2. PICK f : Sums(F, 2, f) /\ FlattenSeq(F) = f[2]
    <2>1. Len(F) \in Nat \ {0}
      BY <1>1
    <2>2. PICK f : Sums(F, Len(F), f) /\ FlattenSeq(F) = f[Len(F)]
      BY <2>1, FlattenMeans
    <2>3. QED
      BY <1>1, <2>2
  <1>3. f[1] = F[1]
    BY <1>2, SumFirst
  <1>4. f[2] = f[1] \o F[2]
    <2>1. 2 \in Nat \ {0} /\ 2 \in 1..2 /\ 2 # 1 /\ 2 - 1 = 1
      OBVIOUS
    <2>2. f[2] = f[2 - 1] \o F[2]
      BY <1>2, <2>1, SumNext
    <2>3. QED
      BY <2>1, <2>2
  <1>5. Enc(a, F) = FlattenSeq(F)
    BY PairParts DEF F
  <1>6. QED
    BY <1>1, <1>2, <1>3, <1>4, <1>5 DEF F

LEMMA SameLengthTells ==
  ASSUME NEW s \in Str, NEW t \in Str, Len(s) = Len(t), NEW p \in BOOLEAN, s = t => p
  PROVE  Tells(s, t, p)
  <1>1. ASSUME NEW r \in Str, NEW q \in Str, s \o r = t \o q
        PROVE  s = t
    BY <1>1, SplitAt
  <1>2. QED
    BY <1>1 DEF Tells

-----------------------------------------------------------------------------
(* Integers of a width.                                                    *)

\* q[i] is n without its last i digits.
Divided(n, w, q) == q = [i \in 0..w |-> IF i = 0 THEN n ELSE q[i - 1] \div Base]

LEMMA BaseType == Base \in Nat \ {0} /\ LenWidth \in Nat \ {0} /\ IntWidth \in Nat \ {0}
  BY WidthsAssumption

LEMMA DividedExists ==
  ASSUME NEW n \in Int
  PROVE  \A w \in Nat : \E q : Divided(n, w, q)
  <1> DEFINE T == {w \in Nat : \E q : Divided(n, w, q)}
  <1>1. 0 \in T
    <2>1. Divided(n, 0, [i \in 0..0 |-> n])
      BY DEF Divided
    <2>2. QED
      BY <2>1
  <1>2. ASSUME NEW w \in Nat, w \in T
        PROVE  w + 1 \in T
    <2>1. PICK q : Divided(n, w, q)
      BY <1>2
    <2> DEFINE h == [i \in 0..w + 1 |-> IF i = w + 1 THEN q[w] \div Base ELSE q[i]]
    <2>2. \A i \in 0..w + 1 : h[i] = IF i = 0 THEN n ELSE h[i - 1] \div Base
      <3>1. TAKE i \in 0..w + 1
      <3>2. CASE i = w + 1
        <4>1. i # 0 /\ i - 1 = w /\ w \in 0..w + 1 /\ w # w + 1
          BY <3>2
        <4>2. QED
          BY <3>2, <4>1
      <3>3. CASE i # w + 1 /\ i # 0
        <4>1. i \in 0..w /\ i - 1 \in 0..w + 1 /\ i - 1 # w + 1
          BY <3>3
        <4>2. q[i] = q[i - 1] \div Base
          BY <2>1, <3>3, <4>1 DEF Divided
        <4>3. QED
          BY <3>3, <4>1, <4>2
      <3>4. CASE i # w + 1 /\ i = 0
        <4>1. i \in 0..w
          BY <3>4
        <4>2. q[i] = n
          BY <2>1, <3>4, <4>1 DEF Divided
        <4>3. QED
          BY <3>4, <4>2
      <3>5. QED
        BY <3>2, <3>3, <3>4
    <2>3. Divided(n, w + 1, h)
      <3> HIDE DEF h
      <3>1. h = [i \in 0..w + 1 |-> h[i]]
        BY DEF h
      <3>2. QED
        BY <2>2, <3>1 DEF Divided
    <2>4. QED
      BY <2>3
  <1>3. Nat \subseteq T
    <2> HIDE DEF T
    <2>1. QED
      BY <1>1, <1>2, Induction
  <1>4. QED
    BY <1>3

LEMMA QuotientsMean ==
  ASSUME NEW n \in Int, NEW w \in Nat
  PROVE  /\ \A i \in 0..w : Quotients(n, w)[i] \in Int
         /\ Quotients(n, w)[0] = n
         /\ \A i \in 1..w : Quotients(n, w)[i] = Quotients(n, w)[i - 1] \div Base
  <1> DEFINE q == Quotients(n, w)
             T == {i \in Nat : i \in 0..w => q[i] \in Int}
  <1>1. Divided(n, w, q)
    <2>1. q = CHOOSE r : Divided(n, w, r)
      BY DEF Quotients, Divided
    <2> HIDE DEF q
    <2>2. QED
      BY <2>1, DividedExists
  <1> HIDE DEF q
  <1>2. \A i \in 0..w : q[i] = IF i = 0 THEN n ELSE q[i - 1] \div Base
    BY <1>1 DEF Divided
  <1>3. q[0] = n
    BY <1>2
  <1>4. ASSUME NEW i \in 1..w
        PROVE  q[i] = q[i - 1] \div Base
    BY <1>2
  <1>5. 0 \in T
    BY <1>3
  <1>6. ASSUME NEW i \in Nat, i \in T, i + 1 \in 0..w
        PROVE  q[i + 1] \in Int
    <2>1. i \in 0..w /\ i + 1 \in 1..w /\ (i + 1) - 1 = i
      BY <1>6
    <2>2. q[i] \in Int
      BY <1>6, <2>1
    <2>3. q[i + 1] = q[i] \div Base
      BY <1>4, <2>1
    <2>4. QED
      BY <2>2, <2>3, BaseType
  <1>7. Nat \subseteq T
    <2>1. \A i \in Nat : i \in T => i + 1 \in T
      BY <1>6
    <2> HIDE DEF T
    <2>2. QED
      BY <1>5, <2>1, Induction
  <1>8. QED
    BY <1>3, <1>4, <1>7 DEF q

\* The digits below a quotient that two numbers share, by induction downwards.
LEMMA DigitsTell ==
  ASSUME NEW w \in Nat, NEW n \in Int, NEW m \in Int,
         BigEndian(n, w) = BigEndian(m, w), NEW k \in 0..w,
         Quotients(n, w)[k] = Quotients(m, w)[k]
  PROVE  n = m
  <1> DEFINE p == Quotients(n, w)
             q == Quotients(m, w)
             T == {i \in Nat : i <= k => p[k - i] = q[k - i]}
  <1>1. 0 \in T
    OBVIOUS
  <1>2. /\ \A i \in 0..w : p[i] \in Int /\ q[i] \in Int
        /\ p[0] = n /\ q[0] = m
        /\ \A i \in 1..w : p[i] = p[i - 1] \div Base /\ q[i] = q[i - 1] \div Base
    BY QuotientsMean
  <1>3. \A i \in 1..w : p[w - i] % Base = q[w - i] % Base
    <2>1. \A i \in 1..w : /\ BigEndian(n, w)[i] = p[w - i] % Base
                          /\ BigEndian(m, w)[i] = q[w - i] % Base
      BY DEF BigEndian
    <2>2. QED
      BY <2>1
  <1> HIDE DEF p, q
  <1>4. \A x, y \in Int : x \div Base = y \div Base /\ x % Base = y % Base => x = y
    <2>1. \A b \in Nat \ {0} : \A x, y \in Int : x \div b = y \div b /\ x % b = y % b => x = y
      OBVIOUS
    <2>2. QED
      BY <2>1, BaseType
  <1>5. ASSUME NEW i \in Nat, i \in T, i + 1 <= k
        PROVE  p[k - (i + 1)] = q[k - (i + 1)]
    <2> DEFINE j == k - (i + 1)
    <2>1. /\ j \in 0..w /\ j + 1 \in 1..w /\ w - j \in 1..w
          /\ (j + 1) - 1 = j /\ j + 1 = k - i /\ w - (w - j) = j
      BY <1>5
    <2> HIDE DEF j
    <2>2. p[j + 1] = q[j + 1]
      BY <1>5, <2>1
    <2>3. p[j + 1] = p[j] \div Base /\ q[j + 1] = q[j] \div Base
      BY <1>2, <2>1
    <2>4. p[j] % Base = q[j] % Base
      BY <1>3, <2>1
    <2>5. p[j] = q[j]
      BY <1>2, <1>4, <2>1, <2>2, <2>3, <2>4
    <2>6. QED
      BY <2>5 DEF j
  <1>6. Nat \subseteq T
    <2>1. \A i \in Nat : i \in T => i + 1 \in T
      BY <1>5
    <2> HIDE DEF T
    <2>2. QED
      BY <1>1, <2>1, Induction
  <1>7. k \in T /\ k - k = 0
    BY <1>6
  <1>8. QED
    BY <1>2, <1>7

LEMMA BigEndianType ==
  ASSUME NEW w \in Nat, NEW n \in Int
  PROVE  BigEndian(n, w) \in Str /\ Len(BigEndian(n, w)) = w
  <1>1. \A i \in 1..w : Quotients(n, w)[w - i] % Base \in Int
    <2>1. \A i \in 1..w : Quotients(n, w)[w - i] \in Int
      <3>1. \A i \in 1..w : w - i \in 0..w
        OBVIOUS
      <3>2. QED
        BY <3>1, QuotientsMean
    <2>2. QED
      BY <2>1, BaseType
  <1>2. QED
    BY <1>1 DEF BigEndian, Str

LEMMA UnsignedTells ==
  ASSUME NEW w \in Nat, NEW n \in Unsigned(w), NEW m \in Unsigned(w)
  PROVE  Tells(BigEndian(n, w), BigEndian(m, w), n = m)
  <1>1. n \in Int /\ m \in Int /\ w \in 0..w /\ Quotients(n, w)[w] = Quotients(m, w)[w]
    BY DEF Unsigned
  <1>2. BigEndian(n, w) = BigEndian(m, w) => n = m
    BY <1>1, DigitsTell
  <1>3. /\ BigEndian(n, w) \in Str /\ BigEndian(m, w) \in Str
        /\ Len(BigEndian(n, w)) = Len(BigEndian(m, w))
    BY <1>1, BigEndianType
  <1>4. QED
    BY <1>2, <1>3, SameLengthTells

\* The first digit tells the sign.
LEMMA SignedTells ==
  ASSUME NEW w \in Nat \ {0}, NEW n \in Signed(w), NEW m \in Signed(w)
  PROVE  Tells(BigEndian(n, w), BigEndian(m, w), n = m)
  <1> DEFINE p == Quotients(n, w)[w - 1]
             q == Quotients(m, w)[w - 1]
  <1>1. /\ n \in Int /\ m \in Int /\ w - 1 \in 0..w
        /\ 2 * p \in -Base .. Base - 1 /\ 2 * q \in -Base .. Base - 1
    BY DEF Signed
  <1>2. p \in Int /\ q \in Int
    BY <1>1, QuotientsMean
  <1>3. ASSUME BigEndian(n, w) = BigEndian(m, w)
        PROVE  n = m
    <2>1. BigEndian(n, w)[1] = p % Base /\ BigEndian(m, w)[1] = q % Base
      BY DEF BigEndian
    <2> HIDE DEF p, q
    <2>2. p % Base = q % Base
      BY <1>3, <2>1
    <2>3. p = q
      <3>1. \A b \in Nat \ {0} : \A x, y \in Int :
              /\ 2 * x \in -b .. b - 1 /\ 2 * y \in -b .. b - 1
              /\ x % b = y % b
              => x = y
        <4>1. \A b \in Nat \ {0} : \A x \in Int : 2 * x \in -b .. b - 1 =>
                x % b = IF x < 0 THEN x + b ELSE x
          OBVIOUS
        <4>2. QED
          BY <4>1
      <3>2. QED
        BY <1>1, <1>2, <2>2, <3>1, BaseType
    <2>4. QED
      BY <1>1, <1>3, <2>3, DigitsTell DEF p, q
  <1>4. /\ BigEndian(n, w) \in Str /\ BigEndian(m, w) \in Str
        /\ Len(BigEndian(n, w)) = Len(BigEndian(m, w))
    BY <1>1, BigEndianType
  <1>5. QED
    BY <1>3, <1>4, SameLengthTells

-----------------------------------------------------------------------------
(* The encodings of one field.                                             *)

LEMMA BytesAreSymbols == Bytes \subseteq Str
  BY BaseType DEF Bytes, Str

LEMMA FixedTells ==
  ASSUME NEW x \in Bytes, NEW y \in Bytes, NEW n
  PROVE  Tells(Fixed(x, n), Fixed(y, n), x = y)
  BY BytesAreSymbols, SplitAt DEF Fixed, Tells

LEMMA SymbolTells ==
  ASSUME NEW x \in Int, NEW y \in Int
  PROVE  Tells(<<x>>, <<y>>, x = y)
  <1>1. <<x>> \in Str /\ <<y>> \in Str /\ Len(<<x>>) = Len(<<y>>)
    BY DEF Str
  <1>2. <<x>> = <<y>> => x = y
    OBVIOUS
  <1>3. QED
    BY <1>1, <1>2, SplitAt DEF Tells

LEMMA NumberTells ==
  ASSUME NEW n \in Signed(IntWidth), NEW m \in Signed(IntWidth)
  PROVE  Tells(Number(n), Number(m), n = m)
  BY SignedTells, BaseType DEF Number

LEMMA CountTells ==
  ASSUME NEW n \in Unsigned(IntWidth), NEW m \in Unsigned(IntWidth)
  PROVE  Tells(Number(n), Number(m), n = m)
  BY UnsignedTells, BaseType DEF Number

\* Two fields, of which the second says what it says if the first is the same.
LEMMA PairTells ==
  ASSUME NEW a, NEW b, NEW s, NEW t, NEW u, NEW v, NEW p \in BOOLEAN, NEW q \in BOOLEAN,
         Tells(s, u, p), p => Tells(t, v, q), s \in Str, u \in Str,
         t # Refused => t \in Str, v # Refused => v \in Str
  PROVE  Tells(Enc(a, <<s, t>>), Enc(b, <<u, v>>), p /\ q)
  <1>1. SUFFICES ASSUME Enc(a, <<s, t>>) # Refused, Enc(b, <<u, v>>) # Refused
                 PROVE  Tells(Enc(a, <<s, t>>), Enc(b, <<u, v>>), p /\ q)
    BY DEF Tells
  <1>2. /\ s # Refused /\ t # Refused /\ u # Refused /\ v # Refused
        /\ Enc(a, <<s, t>>) = s \o t /\ Enc(b, <<u, v>>) = u \o v
    <2>1. t # Refused /\ v # Refused /\ s # Refused /\ u # Refused
      BY <1>1, PairParts
    <2>2. t \in Str /\ v \in Str
      BY <2>1
    <2>3. Enc(a, <<s, t>>) = s \o t
      BY <1>1, <2>2, PairMeans
    <2>4. Enc(b, <<u, v>>) = u \o v
      BY <1>1, <2>2, PairMeans
    <2>5. QED
      BY <2>1, <2>3, <2>4
  <1>3. s \o t \in Str /\ u \o v \in Str
    BY <1>2, Joined
  <1>4. ASSUME NEW r \in Str, NEW z \in Str, (s \o t) \o r = (u \o v) \o z
        PROVE  s \o t = u \o v /\ p /\ q
    <2>1. t \o r \in Str /\ v \o z \in Str
      BY <1>2, Joined
    <2>2. (s \o t) \o r = s \o (t \o r)
      BY <1>2, JoinAssociates
    <2>3. (u \o v) \o z = u \o (v \o z)
      BY <1>2, JoinAssociates
    <2>4. s \o (t \o r) = u \o (v \o z)
      BY <1>4, <2>2, <2>3
    <2>5. s = u /\ p
      BY <1>2, <2>1, <2>4 DEF Tells
    <2>6. Len(s) = Len(u)
      BY <2>5
    <2>7. t \o r = v \o z
      BY <2>1, <2>4, <2>6, SplitAt
    <2>8. t = v /\ q
      BY <1>2, <2>5, <2>7 DEF Tells
    <2>9. QED
      BY <2>5, <2>8
  <1>5. QED
    BY <1>2, <1>3, <1>4 DEF Tells

\* The length tells where the bytes end.
LEMMA VarTells ==
  ASSUME NEW x \in Bytes, NEW y \in Bytes
  PROVE  Tells(Var(x), Var(y), x = y)
  <1>1. SUFFICES ASSUME Var(x) # Refused, Var(y) # Refused
                 PROVE  Tells(Var(x), Var(y), x = y)
    BY DEF Tells
  <1>2. Len(x) \in Unsigned(LenWidth) /\ Len(y) \in Unsigned(LenWidth)
    BY <1>1 DEF Var, Enc
  <1> DEFINE s == BigEndian(Len(x), LenWidth)
             u == BigEndian(Len(y), LenWidth)
  <1>3. Tells(s, u, Len(x) = Len(y)) /\ s \in Str /\ u \in Str
    <2>1. Len(x) \in Int /\ Len(y) \in Int /\ LenWidth \in Nat
      BY BaseType DEF Bytes
    <2>2. QED
      BY <1>2, <2>1, UnsignedTells, BigEndianType
  <1>4. x \in Str /\ y \in Str
    BY BytesAreSymbols
  <1>5. Len(x) = Len(y) => Tells(x, y, x = y)
    BY <1>4, SplitAt DEF Tells
  <1> HIDE DEF s, u
  <1>6. Tells(Enc(Len(x) \in Unsigned(LenWidth), <<s, x>>),
              Enc(Len(y) \in Unsigned(LenWidth), <<u, y>>), Len(x) = Len(y) /\ x = y)
    BY <1>3, <1>4, <1>5, PairTells
  <1>7. QED
    BY <1>6 DEF Tells, Var, s, u

LEMMA KeyTells ==
  ASSUME NEW x \in MaybeBytes, NEW y \in MaybeBytes
  PROVE  Tells(Key(x), Key(y), x = y)
  <1>1. SUFFICES ASSUME Key(x) # Refused, Key(y) # Refused
                 PROVE  Tells(Key(x), Key(y), x = y)
    BY DEF Tells
  <1>2. x \in Bytes /\ y \in Bytes
    BY <1>1 DEF Key, Enc, MaybeBytes
  <1>3. Tells(Var(x), Var(y), x = y) /\ Tells(Scheme, Scheme, TRUE) /\ Scheme \in Str
    <2>1. Scheme \in Str
      BY DEF Scheme, Str
    <2>2. Tells(Scheme, Scheme, TRUE)
      BY <2>1, SplitAt DEF Tells
    <2>3. QED
      BY <1>2, <2>1, <2>2, VarTells
  <1> DEFINE a == x # None /\ Len(x) = KeyLength
             b == y # None /\ Len(y) = KeyLength
  <1>4. Key(x) = Enc(a, <<Scheme, Var(x)>>) /\ Key(y) = Enc(b, <<Scheme, Var(y)>>)
    BY DEF Key
  <1> HIDE DEF a, b
  <1>5. Var(x) # Refused /\ Var(y) # Refused
    <2>1. Var(x) # Refused
      BY <1>1, <1>4, PairParts
    <2>2. Var(y) # Refused
      BY <1>1, <1>4, PairParts
    <2>3. QED
      BY <2>1, <2>2
  <1>6. Var(x) \in Str /\ Var(y) \in Str
    BY <1>3, <1>5 DEF Tells
  <1>7. Tells(Enc(a, <<Scheme, Var(x)>>), Enc(b, <<Scheme, Var(y)>>), TRUE /\ x = y)
    BY <1>3, <1>6, PairTells
  <1>8. QED
    BY <1>4, <1>7 DEF Tells

\* An optional field.
LEMMA OptTells ==
  ASSUME NEW x, NEW y, NEW s, NEW t,
         x # None => (s # Refused => s \in Str),
         y # None => (t # Refused => t \in Str),
         x # None /\ y # None => Tells(s, t, x = y)
  PROVE  Tells(Opt(x, s), Opt(y, t), x = y)
  <1>1. /\ <<0>> \in Str /\ <<1>> \in Str /\ Len(<<0>>) = Len(<<1>>) /\ <<0>> # <<1>>
    BY DEF Str
  <1> DEFINE A == <<0>>
             P == <<1>>
  <1>2. /\ Opt(x, s) = IF x = None THEN A ELSE Enc(TRUE, <<P, s>>)
        /\ Opt(y, t) = IF y = None THEN A ELSE Enc(TRUE, <<P, t>>)
    BY DEF Opt
  <1>3. A \in Str /\ P \in Str /\ Len(A) = Len(P) /\ A # P
    BY <1>1
  <1> HIDE DEF A, P
  <1>4. Tells(P, P, TRUE) /\ Tells(A, A, TRUE)
    BY <1>3, SameLengthTells
  <1>5. CASE x = None /\ y = None
    BY <1>2, <1>4, <1>5 DEF Tells
  <1>6. CASE x # None /\ y # None
    <2>1. Tells(Enc(TRUE, <<P, s>>), Enc(TRUE, <<P, t>>), TRUE /\ x = y)
      BY <1>3, <1>4, <1>6, PairTells
    <2>2. QED
      BY <1>2, <1>6, <2>1 DEF Tells
  <1>7. ASSUME NEW z, z # Refused => z \in Str, Enc(TRUE, <<P, z>>) # Refused
        PROVE  /\ Enc(TRUE, <<P, z>>) \in Str
               /\ \A r, q \in Str : Enc(TRUE, <<P, z>>) \o r # A \o q
    <2>1. z \in Str
      <3>1. \A c, d, e : Enc(c, <<d, e>>) # Refused => e # Refused
        BY PairParts
      <3>2. z # Refused
        BY <1>7, <3>1
      <3>3. QED
        BY <1>7, <3>2
    <2>2. Enc(TRUE, <<P, z>>) = P \o z
      BY <1>3, <1>7, <2>1, PairMeans
    <2>3. P \o z \in Str
      BY <1>3, <2>1, Joined
    <2>4. ASSUME NEW r \in Str, NEW q \in Str, (P \o z) \o r = A \o q
          PROVE  FALSE
      <3>1. (P \o z) \o r = P \o (z \o r)
        BY <1>3, <2>1, JoinAssociates
      <3>2. z \o r \in Str
        BY <2>1, Joined
      <3>3. P = A
        BY <1>3, <2>4, <3>1, <3>2, SplitAt
      <3>4. QED
        BY <1>3, <3>3
    <2>5. QED
      BY <2>2, <2>3, <2>4
  <1>8. CASE x # None /\ y = None
    <2>1. Opt(x, s) = Enc(TRUE, <<P, s>>) /\ Opt(y, t) = A
      BY <1>2, <1>8
    <2>2. QED
      BY <1>3, <1>7, <1>8, <2>1 DEF Tells
  <1>9. CASE x = None /\ y # None
    <2>1. Opt(x, s) = A /\ Opt(y, t) = Enc(TRUE, <<P, t>>)
      BY <1>2, <1>9
    <2>2. Enc(TRUE, <<P, t>>) # Refused =>
            /\ Enc(TRUE, <<P, t>>) \in Str
            /\ \A r, q \in Str : A \o q # Enc(TRUE, <<P, t>>) \o r
      BY <1>7, <1>9
    <2>3. QED
      BY <1>3, <2>1, <2>2 DEF Tells
  <1>10. QED
    BY <1>5, <1>6, <1>8, <1>9

LEMMA EncType ==
  ASSUME NEW a, NEW F, Len(F) \in Nat, DOMAIN F = 1..Len(F), Len(F) = 0 => F = <<>>,
         \A i \in 1..Len(F) : F[i] # Refused => F[i] \in Str, Enc(a, F) # Refused
  PROVE  Enc(a, F) \in Str
  <1>1. CASE Len(F) = 0
    <2>1. Enc(a, F) = FlattenSeq(F)
      BY DEF Enc
    <2>2. FlattenSeq(F) = F
      BY <1>1 DEF FlattenSeq
    <2>3. QED
      BY <1>1, <2>1, <2>2 DEF Str
  <1>2. CASE Len(F) # 0
    <2> DEFINE X == [i \in 1..Len(F) |-> i]
    <2>1. \A i \in 1..Len(F) : Tells(F[i], F[i], X[i] = X[i])
      <3>1. TAKE i \in 1..Len(F)
      <3>2. F[i] # Refused => Tells(F[i], F[i], TRUE)
        BY SameLengthTells
      <3>3. QED
        BY <3>2 DEF Tells
    <2>2. Tells(Enc(a, F), Enc(a, F), \A i \in 1..Len(F) : X[i] = X[i])
      BY <1>2, <2>1, FieldsTell
    <2>3. QED
      BY <2>2 DEF Tells
  <1>3. QED
    BY <1>1, <1>2

\* The first m elements of X are the first n of Y.
Agree(X, m, Y, n) == m = n /\ \A i \in 1..m : X[i] = Y[i]

\* A list: its length, then its elements.
LEMMA ListTells ==
  ASSUME NEW F, NEW G, NEW X, NEW Y, Len(F) \in Nat, Len(G) \in Nat,
         DOMAIN F = 1..Len(F), DOMAIN G = 1..Len(G),
         Len(F) = 0 => F = <<>>, Len(G) = 0 => G = <<>>,
         \A i \in 1..Len(F) : F[i] # Refused => F[i] \in Str,
         \A i \in 1..Len(G) : G[i] # Refused => G[i] \in Str,
         \A i \in 1..Len(F) : i \in 1..Len(G) => Tells(F[i], G[i], X[i] = Y[i])
  PROVE  Tells(List(F), List(G), Agree(X, Len(F), Y, Len(G)))
  <1>1. SUFFICES ASSUME List(F) # Refused, List(G) # Refused
                 PROVE  Tells(List(F), List(G), Agree(X, Len(F), Y, Len(G)))
    BY DEF Tells
  <1> DEFINE s == BigEndian(Len(F), LenWidth)
             u == BigEndian(Len(G), LenWidth)
             t == Enc(TRUE, F)
             v == Enc(TRUE, G)
             a == Len(F) \in Unsigned(LenWidth)
             b == Len(G) \in Unsigned(LenWidth)
             p == Len(F) = Len(G)
             q == \A i \in 1..Len(F) : X[i] = Y[i]
  <1>2. List(F) = Enc(a, <<s, t>>) /\ List(G) = Enc(b, <<u, v>>)
    BY DEF List
  <1>3. a /\ b
    BY <1>1 DEF List, Enc
  <1>4. Tells(s, u, p) /\ s \in Str /\ u \in Str
    <2>1. Len(F) \in Int /\ Len(G) \in Int /\ LenWidth \in Nat
      BY BaseType
    <2>2. QED
      BY <1>3, <2>1, UnsignedTells, BigEndianType
  <1>5. (t # Refused => t \in Str) /\ (v # Refused => v \in Str)
    <2>1. t # Refused => t \in Str
      BY EncType
    <2>2. v # Refused => v \in Str
      BY EncType
    <2>3. QED
      BY <2>1, <2>2
  <1>6. ASSUME p
        PROVE  Tells(t, v, q)
    <2>1. CASE Len(F) = 0
      <3>1. t = v
        BY <1>6, <2>1
      <3>2. q
        BY <2>1
      <3> HIDE DEF t, v, q
      <3>3. t # Refused => Tells(t, t, TRUE)
        BY <1>5, SameLengthTells
      <3>4. QED
        BY <3>1, <3>2, <3>3 DEF Tells
    <2>2. CASE Len(F) # 0
      <3>1. Len(F) \in Nat \ {0} /\ Len(G) = Len(F)
        BY <1>6, <2>2
      <3>2. DOMAIN G = 1..Len(F) /\ \A i \in 1..Len(F) : Tells(F[i], G[i], X[i] = Y[i])
        BY <3>1
      <3>3. QED
        BY <3>1, <3>2, FieldsTell
    <2>3. QED
      BY <2>1, <2>2
  <1>7. p \in BOOLEAN /\ q \in BOOLEAN
    OBVIOUS
  <1> HIDE DEF a, b, s, t, u, v
  <1>8. Tells(Enc(a, <<s, t>>), Enc(b, <<u, v>>), p /\ q)
    BY <1>4, <1>5, <1>6, <1>7, PairTells
  <1>9. QED
    BY <1>2, <1>8 DEF Agree, Tells

-----------------------------------------------------------------------------
\* A transcript of that tag, whose bytes say which of two they are.
Stands(tag, s, t, p) == Tells(s, t, p) /\ (s # Refused /\ t # Refused => s[1] = tag)

LEMMA TranscriptTells ==
  ASSUME NEW tag \in Tags, NEW n \in Nat \ {0}, NEW F, NEW G, NEW X, NEW Y, NEW a, NEW b,
         Len(F) = n, Len(G) = n, DOMAIN F = 1..n, DOMAIN G = 1..n,
         \A i \in 1..n : Tells(F[i], G[i], X[i] = Y[i])
  PROVE  Stands(tag, Transcript(tag, a, F), Transcript(tag, b, G), \A i \in 1..n : X[i] = Y[i])
  <1> DEFINE T == <<tag, 0>>
             s == Enc(TRUE, F)
             t == Enc(TRUE, G)
             p == \A i \in 1..n : X[i] = Y[i]
  <1>1. Tells(s, t, p)
    BY FieldsTell
  <1>2. T \in Str /\ T[1] = tag
    BY TagType
  <1>3. Transcript(tag, a, F) = Enc(a, <<T, s>>) /\ Transcript(tag, b, G) = Enc(b, <<T, t>>)
    BY DEF Transcript
  <1> HIDE DEF T, s, t
  <1>4. Tells(T, T, TRUE)
    BY <1>2, SameLengthTells
  <1>5. SUFFICES ASSUME Transcript(tag, a, F) # Refused, Transcript(tag, b, G) # Refused
                 PROVE  Stands(tag, Transcript(tag, a, F), Transcript(tag, b, G), p)
    BY DEF Tells, Stands
  <1>6. s # Refused /\ t # Refused
    <2>1. \A c, d, e : Enc(c, <<d, e>>) # Refused => e # Refused
      BY PairParts
    <2>2. QED
      BY <1>3, <1>5, <2>1
  <1>7. s \in Str /\ t \in Str
    BY <1>1, <1>6 DEF Tells
  <1>8. Tells(Enc(a, <<T, s>>), Enc(b, <<T, t>>), TRUE /\ p)
    BY <1>1, <1>2, <1>4, <1>7, PairTells
  <1>9. Enc(a, <<T, s>>)[1] = tag
    <2>1. Enc(a, <<T, s>>) = T \o s
      BY <1>2, <1>3, <1>5, <1>7, PairMeans
    <2>2. T \o s \in Str /\ (T \o s)[1] = T[1]
      <3>1. Len(T) = 2
        BY DEF T
      <3>2. QED
        BY <1>2, <1>7, <3>1, Joined, JoinFirst
    <2>3. QED
      BY <1>2, <2>1, <2>2
  <1>10. Tells(Transcript(tag, a, F), Transcript(tag, b, G), p)
    BY <1>3, <1>8 DEF Tells
  <1>11. QED
    BY <1>3, <1>9, <1>10 DEF Stands

-----------------------------------------------------------------------------
(* The thirteen formats.  Each proof lists the fields in order, what each   *)
(* tells, and that the values of all of them make up the input.            *)

LEMMA FieldTypes ==
  /\ \A x \in Bytes : Var(x) # Refused => Var(x) \in Str
  /\ \A x \in MaybeBytes : Key(x) # Refused => Key(x) \in Str
  /\ \A x \in Bytes : \A n : Fixed(x, n) # Refused => Fixed(x, n) \in Str
  BY VarTells, KeyTells, FixedTells DEF Tells

LEMMA OptKeyTells ==
  ASSUME NEW x \in MaybeBytes, NEW y \in MaybeBytes
  PROVE  Tells(Opt(x, Key(x)), Opt(y, Key(y)), x = y)
  BY OptTells, KeyTells, FieldTypes

LEMMA OptVarTells ==
  ASSUME NEW x \in MaybeBytes, NEW y \in MaybeBytes
  PROVE  Tells(Opt(x, Var(x)), Opt(y, Var(y)), x = y)
  <1>1. (x # None => x \in Bytes) /\ (y # None => y \in Bytes)
    BY DEF MaybeBytes
  <1>2. QED
    BY <1>1, OptTells, VarTells, FieldTypes

LEMMA OptFixedTells ==
  ASSUME NEW x \in MaybeBytes, NEW y \in MaybeBytes, NEW n
  PROVE  Tells(Opt(x, Fixed(x, n)), Opt(y, Fixed(y, n)), x = y)
  <1>1. (x # None => x \in Bytes) /\ (y # None => y \in Bytes)
    BY DEF MaybeBytes
  <1>2. QED
    BY <1>1, OptTells, FixedTells, FieldTypes

LEMMA CertBodyTells ==
  ASSUME NEW x \in Certificate, NEW y \in Certificate
  PROVE  Tells(CertBody(x), CertBody(y), x = y)
  <1> DEFINE F(z) == <<<<z.mode>>, Key(z.principal), Opt(z.host, Key(z.host)),
                       Opt(z.subject, Var(z.subject)), Key(z.device), Key(z.session),
                       Number(z.not_before), Number(z.not_after)>>
             X(z) == <<z.mode, z.principal, z.host, z.subject, z.device, z.session,
                       z.not_before, z.not_after>>
             ok(z) == /\ \/ z.mode = 0 /\ z.host = None /\ z.subject = None
                         \/ z.mode = 1 /\ z.host # None /\ z.subject \notin {None, <<>>}
                      /\ z.device # z.session
  <1>1. /\ x.mode \in Nat
        /\ {x.principal, x.host, x.subject, x.device, x.session} \subseteq MaybeBytes
        /\ {x.not_before, x.not_after} \subseteq Signed(IntWidth)
    BY DEF Certificate, Seconds
  <1>2. /\ y.mode \in Nat
        /\ {y.principal, y.host, y.subject, y.device, y.session} \subseteq MaybeBytes
        /\ {y.not_before, y.not_after} \subseteq Signed(IntWidth)
    BY DEF Certificate, Seconds
  <1>3. /\ Tells(F(x)[1], F(y)[1], X(x)[1] = X(y)[1])
        /\ Tells(F(x)[2], F(y)[2], X(x)[2] = X(y)[2])
        /\ Tells(F(x)[3], F(y)[3], X(x)[3] = X(y)[3])
        /\ Tells(F(x)[4], F(y)[4], X(x)[4] = X(y)[4])
        /\ Tells(F(x)[5], F(y)[5], X(x)[5] = X(y)[5])
        /\ Tells(F(x)[6], F(y)[6], X(x)[6] = X(y)[6])
        /\ Tells(F(x)[7], F(y)[7], X(x)[7] = X(y)[7])
        /\ Tells(F(x)[8], F(y)[8], X(x)[8] = X(y)[8])
    BY <1>1, <1>2, SymbolTells, KeyTells, OptKeyTells, OptVarTells, NumberTells
  <1>4. \A i \in 1..8 : Tells(F(x)[i], F(y)[i], X(x)[i] = X(y)[i])
    <2>1. \A i \in 1..8 : i \in {1, 2, 3, 4, 5, 6, 7, 8}
      OBVIOUS
    <2> HIDE DEF F, X
    <2>2. QED
      BY <1>3, <2>1
  <1>5. (\A i \in 1..8 : X(x)[i] = X(y)[i]) => x = y
    BY DEF Certificate, Seconds
  <1>6. /\ Len(F(x)) = 8 /\ Len(F(y)) = 8
        /\ DOMAIN F(x) = 1..8 /\ DOMAIN F(y) = 1..8
    OBVIOUS
  <1>7. /\ CertBody(x) = Enc(ok(x), F(x))
        /\ CertBody(y) = Enc(ok(y), F(y))
    BY DEF CertBody
  <1>8. 8 \in Nat \ {0}
    OBVIOUS
  <1> HIDE DEF F, X, ok
  <1>9. Tells(Enc(ok(x), F(x)), Enc(ok(y), F(y)),
               \A i \in 1..8 : X(x)[i] = X(y)[i])
    BY <1>4, <1>6, <1>8, FieldsTell
  <1>10. QED
    BY <1>5, <1>7, <1>9 DEF Tells

LEMMA ResourceTells ==
  ASSUME NEW x \in [kind : Bytes, id : Bytes], NEW y \in [kind : Bytes, id : Bytes]
  PROVE  Tells(Resource(x), Resource(y), x = y)
  <1> DEFINE F(z) == <<Var(z.kind), Var(z.id)>>
             X(z) == <<z.kind, z.id>>
             ok(z) == z.kind # <<>> /\ z.id # <<>>
  <1>1. /\ {x.kind, x.id} \subseteq Bytes
    BY DEF Resource
  <1>2. /\ {y.kind, y.id} \subseteq Bytes
    BY DEF Resource
  <1>3. /\ Tells(F(x)[1], F(y)[1], X(x)[1] = X(y)[1])
        /\ Tells(F(x)[2], F(y)[2], X(x)[2] = X(y)[2])
    BY <1>1, <1>2, VarTells
  <1>4. \A i \in 1..2 : Tells(F(x)[i], F(y)[i], X(x)[i] = X(y)[i])
    <2>1. \A i \in 1..2 : i \in {1, 2}
      OBVIOUS
    <2> HIDE DEF F, X
    <2>2. QED
      BY <1>3, <2>1
  <1>5. (\A i \in 1..2 : X(x)[i] = X(y)[i]) => x = y
    BY DEF Resource
  <1>6. /\ Len(F(x)) = 2 /\ Len(F(y)) = 2
        /\ DOMAIN F(x) = 1..2 /\ DOMAIN F(y) = 1..2
    OBVIOUS
  <1>7. /\ Resource(x) = Enc(ok(x), F(x))
        /\ Resource(y) = Enc(ok(y), F(y))
    BY DEF Resource
  <1>8. 2 \in Nat \ {0}
    OBVIOUS
  <1> HIDE DEF F, X, ok
  <1>9. Tells(Enc(ok(x), F(x)), Enc(ok(y), F(y)),
               \A i \in 1..2 : X(x)[i] = X(y)[i])
    BY <1>4, <1>6, <1>8, FieldsTell
  <1>10. QED
    BY <1>5, <1>7, <1>9 DEF Tells

LEMMA AttestedTells ==
  ASSUME NEW x \in Attestable, NEW y \in Attestable, x.cert # None, y.cert # None
  PROVE  Tells(AttestedMessage(x), AttestedMessage(y), x = y)
  <1> DEFINE F(z) == <<Var(z.id), Var(z.room), Key(z.author), Var(z.body), CertBody(z.cert),
                       Var(z.signature)>>
             X(z) == <<z.id, z.room, z.author, z.body, z.cert, z.signature>>
             ok(z) == z.cert # None
  <1>1. /\ {x.id, x.room, x.body, x.signature} \subseteq Bytes
        /\ x.author \in MaybeBytes
        /\ x.cert \in Certificate
    BY DEF Attestable
  <1>2. /\ {y.id, y.room, y.body, y.signature} \subseteq Bytes
        /\ y.author \in MaybeBytes
        /\ y.cert \in Certificate
    BY DEF Attestable
  <1>3. /\ Tells(F(x)[1], F(y)[1], X(x)[1] = X(y)[1])
        /\ Tells(F(x)[2], F(y)[2], X(x)[2] = X(y)[2])
        /\ Tells(F(x)[3], F(y)[3], X(x)[3] = X(y)[3])
        /\ Tells(F(x)[4], F(y)[4], X(x)[4] = X(y)[4])
        /\ Tells(F(x)[5], F(y)[5], X(x)[5] = X(y)[5])
        /\ Tells(F(x)[6], F(y)[6], X(x)[6] = X(y)[6])
    BY <1>1, <1>2, VarTells, KeyTells, CertBodyTells
  <1>4. \A i \in 1..6 : Tells(F(x)[i], F(y)[i], X(x)[i] = X(y)[i])
    <2>1. \A i \in 1..6 : i \in {1, 2, 3, 4, 5, 6}
      OBVIOUS
    <2> HIDE DEF F, X
    <2>2. QED
      BY <1>3, <2>1
  <1>5. (\A i \in 1..6 : X(x)[i] = X(y)[i]) => x = y
    BY DEF Attestable
  <1>6. /\ Len(F(x)) = 6 /\ Len(F(y)) = 6
        /\ DOMAIN F(x) = 1..6 /\ DOMAIN F(y) = 1..6
    OBVIOUS
  <1>7. /\ AttestedMessage(x) = Enc(ok(x), F(x))
        /\ AttestedMessage(y) = Enc(ok(y), F(y))
    BY DEF AttestedMessage
  <1>8. 6 \in Nat \ {0}
    OBVIOUS
  <1> HIDE DEF F, X, ok
  <1>9. Tells(Enc(ok(x), F(x)), Enc(ok(y), F(y)),
               \A i \in 1..6 : X(x)[i] = X(y)[i])
    BY <1>4, <1>6, <1>8, FieldsTell
  <1>10. QED
    BY <1>5, <1>7, <1>9 DEF Tells

LEMMA KeyChallengeTells ==
  ASSUME NEW x \in KeyChallenges, NEW y \in KeyChallenges
  PROVE  Stands("key-challenge", KeyChallenge(x), KeyChallenge(y), x = y)
  <1> DEFINE F(z) == <<Var(z.audience), Var(z.nonce), Key(z.new)>>
             X(z) == <<z.audience, z.nonce, z.new>>
             ok(z) == z.audience # <<>> /\ z.nonce # <<>>
  <1>1. /\ {x.audience, x.nonce} \subseteq Bytes
        /\ x.new \in MaybeBytes
    BY DEF KeyChallenges
  <1>2. /\ {y.audience, y.nonce} \subseteq Bytes
        /\ y.new \in MaybeBytes
    BY DEF KeyChallenges
  <1>3. /\ Tells(F(x)[1], F(y)[1], X(x)[1] = X(y)[1])
        /\ Tells(F(x)[2], F(y)[2], X(x)[2] = X(y)[2])
        /\ Tells(F(x)[3], F(y)[3], X(x)[3] = X(y)[3])
    BY <1>1, <1>2, VarTells, KeyTells
  <1>4. \A i \in 1..3 : Tells(F(x)[i], F(y)[i], X(x)[i] = X(y)[i])
    <2>1. \A i \in 1..3 : i \in {1, 2, 3}
      OBVIOUS
    <2> HIDE DEF F, X
    <2>2. QED
      BY <1>3, <2>1
  <1>5. (\A i \in 1..3 : X(x)[i] = X(y)[i]) => x = y
    BY DEF KeyChallenges
  <1>6. /\ Len(F(x)) = 3 /\ Len(F(y)) = 3
        /\ DOMAIN F(x) = 1..3 /\ DOMAIN F(y) = 1..3
    OBVIOUS
  <1>7. /\ KeyChallenge(x) = Transcript("key-challenge", ok(x), F(x))
        /\ KeyChallenge(y) = Transcript("key-challenge", ok(y), F(y))
    BY DEF KeyChallenge
  <1>8. 3 \in Nat \ {0} /\ "key-challenge" \in Tags
    BY DEF Tags
  <1> HIDE DEF F, X, ok
  <1>9. Stands("key-challenge", Transcript("key-challenge", ok(x), F(x)),
               Transcript("key-challenge", ok(y), F(y)),
               \A i \in 1..3 : X(x)[i] = X(y)[i])
    BY <1>4, <1>6, <1>8, TranscriptTells
  <1>10. QED
    BY <1>5, <1>7, <1>9 DEF Stands, Tells

LEMMA PrincipalRenameTells ==
  ASSUME NEW x \in PrincipalRenames, NEW y \in PrincipalRenames
  PROVE  Stands("principal-rename", PrincipalRename(x), PrincipalRename(y), x = y)
  <1> DEFINE F(z) == <<Var(z.nonce), Key(z.principal), Var(z.name)>>
             X(z) == <<z.nonce, z.principal, z.name>>
             ok(z) == z.nonce # <<>> /\ z.name # <<>>
  <1>1. /\ {x.nonce, x.name} \subseteq Bytes
        /\ x.principal \in MaybeBytes
    BY DEF PrincipalRenames
  <1>2. /\ {y.nonce, y.name} \subseteq Bytes
        /\ y.principal \in MaybeBytes
    BY DEF PrincipalRenames
  <1>3. /\ Tells(F(x)[1], F(y)[1], X(x)[1] = X(y)[1])
        /\ Tells(F(x)[2], F(y)[2], X(x)[2] = X(y)[2])
        /\ Tells(F(x)[3], F(y)[3], X(x)[3] = X(y)[3])
    BY <1>1, <1>2, VarTells, KeyTells
  <1>4. \A i \in 1..3 : Tells(F(x)[i], F(y)[i], X(x)[i] = X(y)[i])
    <2>1. \A i \in 1..3 : i \in {1, 2, 3}
      OBVIOUS
    <2> HIDE DEF F, X
    <2>2. QED
      BY <1>3, <2>1
  <1>5. (\A i \in 1..3 : X(x)[i] = X(y)[i]) => x = y
    BY DEF PrincipalRenames
  <1>6. /\ Len(F(x)) = 3 /\ Len(F(y)) = 3
        /\ DOMAIN F(x) = 1..3 /\ DOMAIN F(y) = 1..3
    OBVIOUS
  <1>7. /\ PrincipalRename(x) = Transcript("principal-rename", ok(x), F(x))
        /\ PrincipalRename(y) = Transcript("principal-rename", ok(y), F(y))
    BY DEF PrincipalRename
  <1>8. 3 \in Nat \ {0} /\ "principal-rename" \in Tags
    BY DEF Tags
  <1> HIDE DEF F, X, ok
  <1>9. Stands("principal-rename", Transcript("principal-rename", ok(x), F(x)),
               Transcript("principal-rename", ok(y), F(y)),
               \A i \in 1..3 : X(x)[i] = X(y)[i])
    BY <1>4, <1>6, <1>8, TranscriptTells
  <1>10. QED
    BY <1>5, <1>7, <1>9 DEF Stands, Tells

LEMMA KeyDelegationTells ==
  ASSUME NEW x \in KeyDelegations, NEW y \in KeyDelegations
  PROVE  Stands("key-delegation", KeyDelegation(x), KeyDelegation(y), x = y)
  <1> DEFINE F(z) == <<Key(z.principal), Key(z.root), <<z.purpose>>, Key(z.delegated),
                       Opt(z.encryption, Key(z.encryption)), Number(z.issued),
                       Number(z.not_after)>>
             X(z) == <<z.principal, z.root, z.purpose, z.delegated, z.encryption, z.issued,
                       z.not_after>>
             ok(z) == /\ z.purpose \in {Device, Approval}
                      /\ z.purpose = Device <=> z.encryption # None
                      /\ z.root # z.delegated /\ z.encryption \notin {z.root, z.delegated}
  <1>1. /\ {x.principal, x.root, x.delegated, x.encryption} \subseteq MaybeBytes
        /\ x.purpose \in Int
        /\ {x.issued, x.not_after} \subseteq Signed(IntWidth)
    BY DEF KeyDelegations, Seconds
  <1>2. /\ {y.principal, y.root, y.delegated, y.encryption} \subseteq MaybeBytes
        /\ y.purpose \in Int
        /\ {y.issued, y.not_after} \subseteq Signed(IntWidth)
    BY DEF KeyDelegations, Seconds
  <1>3. /\ Tells(F(x)[1], F(y)[1], X(x)[1] = X(y)[1])
        /\ Tells(F(x)[2], F(y)[2], X(x)[2] = X(y)[2])
        /\ Tells(F(x)[3], F(y)[3], X(x)[3] = X(y)[3])
        /\ Tells(F(x)[4], F(y)[4], X(x)[4] = X(y)[4])
        /\ Tells(F(x)[5], F(y)[5], X(x)[5] = X(y)[5])
        /\ Tells(F(x)[6], F(y)[6], X(x)[6] = X(y)[6])
        /\ Tells(F(x)[7], F(y)[7], X(x)[7] = X(y)[7])
    BY <1>1, <1>2, KeyTells, SymbolTells, OptKeyTells, NumberTells
  <1>4. \A i \in 1..7 : Tells(F(x)[i], F(y)[i], X(x)[i] = X(y)[i])
    <2>1. \A i \in 1..7 : i \in {1, 2, 3, 4, 5, 6, 7}
      OBVIOUS
    <2> HIDE DEF F, X
    <2>2. QED
      BY <1>3, <2>1
  <1>5. (\A i \in 1..7 : X(x)[i] = X(y)[i]) => x = y
    BY DEF KeyDelegations, Seconds
  <1>6. /\ Len(F(x)) = 7 /\ Len(F(y)) = 7
        /\ DOMAIN F(x) = 1..7 /\ DOMAIN F(y) = 1..7
    OBVIOUS
  <1>7. /\ KeyDelegation(x) = Transcript("key-delegation", ok(x), F(x))
        /\ KeyDelegation(y) = Transcript("key-delegation", ok(y), F(y))
    BY DEF KeyDelegation
  <1>8. 7 \in Nat \ {0} /\ "key-delegation" \in Tags
    BY DEF Tags
  <1> HIDE DEF F, X, ok
  <1>9. Stands("key-delegation", Transcript("key-delegation", ok(x), F(x)),
               Transcript("key-delegation", ok(y), F(y)),
               \A i \in 1..7 : X(x)[i] = X(y)[i])
    BY <1>4, <1>6, <1>8, TranscriptTells
  <1>10. QED
    BY <1>5, <1>7, <1>9 DEF Stands, Tells

LEMMA KeyRevocationTells ==
  ASSUME NEW x \in KeyRevocations, NEW y \in KeyRevocations
  PROVE  Stands("key-revocation", KeyRevocation(x), KeyRevocation(y), x = y)
  <1> DEFINE F(z) == <<Key(z.principal), Key(z.revoked), Key(z.revoked_by),
                       Number(z.revoked_at)>>
             X(z) == <<z.principal, z.revoked, z.revoked_by, z.revoked_at>>
             ok(z) == TRUE
  <1>1. /\ {x.principal, x.revoked, x.revoked_by} \subseteq MaybeBytes
        /\ x.revoked_at \in Signed(IntWidth)
    BY DEF KeyRevocations, Seconds
  <1>2. /\ {y.principal, y.revoked, y.revoked_by} \subseteq MaybeBytes
        /\ y.revoked_at \in Signed(IntWidth)
    BY DEF KeyRevocations, Seconds
  <1>3. /\ Tells(F(x)[1], F(y)[1], X(x)[1] = X(y)[1])
        /\ Tells(F(x)[2], F(y)[2], X(x)[2] = X(y)[2])
        /\ Tells(F(x)[3], F(y)[3], X(x)[3] = X(y)[3])
        /\ Tells(F(x)[4], F(y)[4], X(x)[4] = X(y)[4])
    BY <1>1, <1>2, KeyTells, NumberTells
  <1>4. \A i \in 1..4 : Tells(F(x)[i], F(y)[i], X(x)[i] = X(y)[i])
    <2>1. \A i \in 1..4 : i \in {1, 2, 3, 4}
      OBVIOUS
    <2> HIDE DEF F, X
    <2>2. QED
      BY <1>3, <2>1
  <1>5. (\A i \in 1..4 : X(x)[i] = X(y)[i]) => x = y
    BY DEF KeyRevocations, Seconds
  <1>6. /\ Len(F(x)) = 4 /\ Len(F(y)) = 4
        /\ DOMAIN F(x) = 1..4 /\ DOMAIN F(y) = 1..4
    OBVIOUS
  <1>7. /\ KeyRevocation(x) = Transcript("key-revocation", ok(x), F(x))
        /\ KeyRevocation(y) = Transcript("key-revocation", ok(y), F(y))
    BY DEF KeyRevocation
  <1>8. 4 \in Nat \ {0} /\ "key-revocation" \in Tags
    BY DEF Tags
  <1> HIDE DEF F, X, ok
  <1>9. Stands("key-revocation", Transcript("key-revocation", ok(x), F(x)),
               Transcript("key-revocation", ok(y), F(y)),
               \A i \in 1..4 : X(x)[i] = X(y)[i])
    BY <1>4, <1>6, <1>8, TranscriptTells
  <1>10. QED
    BY <1>5, <1>7, <1>9 DEF Stands, Tells

LEMMA RootRotationTells ==
  ASSUME NEW x \in RootRotations, NEW y \in RootRotations
  PROVE  Stands("root-rotation", RootRotation(x), RootRotation(y), x = y)
  <1> DEFINE F(z) == <<Key(z.principal), Key(z.old), Key(z.new), Number(z.issued)>>
             X(z) == <<z.principal, z.old, z.new, z.issued>>
             ok(z) == z.old # z.new
  <1>1. /\ {x.principal, x.old, x.new} \subseteq MaybeBytes
        /\ x.issued \in Signed(IntWidth)
    BY DEF RootRotations, Seconds
  <1>2. /\ {y.principal, y.old, y.new} \subseteq MaybeBytes
        /\ y.issued \in Signed(IntWidth)
    BY DEF RootRotations, Seconds
  <1>3. /\ Tells(F(x)[1], F(y)[1], X(x)[1] = X(y)[1])
        /\ Tells(F(x)[2], F(y)[2], X(x)[2] = X(y)[2])
        /\ Tells(F(x)[3], F(y)[3], X(x)[3] = X(y)[3])
        /\ Tells(F(x)[4], F(y)[4], X(x)[4] = X(y)[4])
    BY <1>1, <1>2, KeyTells, NumberTells
  <1>4. \A i \in 1..4 : Tells(F(x)[i], F(y)[i], X(x)[i] = X(y)[i])
    <2>1. \A i \in 1..4 : i \in {1, 2, 3, 4}
      OBVIOUS
    <2> HIDE DEF F, X
    <2>2. QED
      BY <1>3, <2>1
  <1>5. (\A i \in 1..4 : X(x)[i] = X(y)[i]) => x = y
    BY DEF RootRotations, Seconds
  <1>6. /\ Len(F(x)) = 4 /\ Len(F(y)) = 4
        /\ DOMAIN F(x) = 1..4 /\ DOMAIN F(y) = 1..4
    OBVIOUS
  <1>7. /\ RootRotation(x) = Transcript("root-rotation", ok(x), F(x))
        /\ RootRotation(y) = Transcript("root-rotation", ok(y), F(y))
    BY DEF RootRotation
  <1>8. 4 \in Nat \ {0} /\ "root-rotation" \in Tags
    BY DEF Tags
  <1> HIDE DEF F, X, ok
  <1>9. Stands("root-rotation", Transcript("root-rotation", ok(x), F(x)),
               Transcript("root-rotation", ok(y), F(y)),
               \A i \in 1..4 : X(x)[i] = X(y)[i])
    BY <1>4, <1>6, <1>8, TranscriptTells
  <1>10. QED
    BY <1>5, <1>7, <1>9 DEF Stands, Tells

LEMMA SessionDelegationTells ==
  ASSUME NEW x \in SessionDelegations, NEW y \in SessionDelegations
  PROVE  Stands("session-delegation", SessionDelegation(x), SessionDelegation(y), x = y)
  <1> DEFINE F(z) == <<CertBody(z.cert)>>
             X(z) == <<z.cert>>
             ok(z) == TRUE
  <1>1. /\ x.cert \in Certificate
    BY DEF SessionDelegations
  <1>2. /\ y.cert \in Certificate
    BY DEF SessionDelegations
  <1>3. /\ Tells(F(x)[1], F(y)[1], X(x)[1] = X(y)[1])
    BY <1>1, <1>2, CertBodyTells
  <1>4. \A i \in 1..1 : Tells(F(x)[i], F(y)[i], X(x)[i] = X(y)[i])
    <2>1. \A i \in 1..1 : i \in {1}
      OBVIOUS
    <2> HIDE DEF F, X
    <2>2. QED
      BY <1>3, <2>1
  <1>5. (\A i \in 1..1 : X(x)[i] = X(y)[i]) => x = y
    BY DEF SessionDelegations
  <1>6. /\ Len(F(x)) = 1 /\ Len(F(y)) = 1
        /\ DOMAIN F(x) = 1..1 /\ DOMAIN F(y) = 1..1
    OBVIOUS
  <1>7. /\ SessionDelegation(x) = Transcript("session-delegation", ok(x), F(x))
        /\ SessionDelegation(y) = Transcript("session-delegation", ok(y), F(y))
    BY DEF SessionDelegation
  <1>8. 1 \in Nat \ {0} /\ "session-delegation" \in Tags
    BY DEF Tags
  <1> HIDE DEF F, X, ok
  <1>9. Stands("session-delegation", Transcript("session-delegation", ok(x), F(x)),
               Transcript("session-delegation", ok(y), F(y)),
               \A i \in 1..1 : X(x)[i] = X(y)[i])
    BY <1>4, <1>6, <1>8, TranscriptTells
  <1>10. QED
    BY <1>5, <1>7, <1>9 DEF Stands, Tells

\* Of the chain, the principal and the session key.
LEMMA ChainedMessageTells ==
  ASSUME NEW x \in SignedMessages, NEW y \in SignedMessages,
         x.signer # None, x.signer.session # None, y.signer # None, y.signer.session # None
  PROVE  Stands("signed-message", SignedMessage(x), SignedMessage(y), Covered(x) = Covered(y))
  <1> DEFINE F(z) == <<Key(z.signer.session.principal), Key(z.signer.session.session),
                       Var(z.audience), Fixed(z.nonce, NonceLength), Number(z.issued),
                       Opt(z.in_reply_to, Fixed(z.in_reply_to, NonceLength)), Var(z.body_type),
                       Var(z.body)>>
             X(z) == <<z.signer.session.principal, z.signer.session.session, z.audience, z.nonce,
                       z.issued, z.in_reply_to, z.body_type, z.body>>
             ok(z) == /\ z.signer # None /\ z.signer.session # None
                      /\ z.audience # <<>> /\ z.body_type # <<>>
  <1>1. /\ x.signer \in Signer /\ x.signer.session \in Certificate
        /\ {x.signer.session.principal, x.signer.session.session} \subseteq MaybeBytes
        /\ x.in_reply_to \in MaybeBytes
        /\ {x.audience, x.nonce, x.body_type, x.body} \subseteq Bytes
        /\ x.issued \in Signed(IntWidth)
    BY DEF SignedMessages, Signer, Certificate, Seconds
  <1>2. /\ y.signer \in Signer /\ y.signer.session \in Certificate
        /\ {y.signer.session.principal, y.signer.session.session} \subseteq MaybeBytes
        /\ y.in_reply_to \in MaybeBytes
        /\ {y.audience, y.nonce, y.body_type, y.body} \subseteq Bytes
        /\ y.issued \in Signed(IntWidth)
    BY DEF SignedMessages, Signer, Certificate, Seconds
  <1>3. /\ Tells(F(x)[1], F(y)[1], X(x)[1] = X(y)[1])
        /\ Tells(F(x)[2], F(y)[2], X(x)[2] = X(y)[2])
        /\ Tells(F(x)[3], F(y)[3], X(x)[3] = X(y)[3])
        /\ Tells(F(x)[4], F(y)[4], X(x)[4] = X(y)[4])
        /\ Tells(F(x)[5], F(y)[5], X(x)[5] = X(y)[5])
        /\ Tells(F(x)[6], F(y)[6], X(x)[6] = X(y)[6])
        /\ Tells(F(x)[7], F(y)[7], X(x)[7] = X(y)[7])
        /\ Tells(F(x)[8], F(y)[8], X(x)[8] = X(y)[8])
    BY <1>1, <1>2, KeyTells, VarTells, FixedTells, NumberTells, OptFixedTells
  <1>4. \A i \in 1..8 : Tells(F(x)[i], F(y)[i], X(x)[i] = X(y)[i])
    <2>1. \A i \in 1..8 : i \in {1, 2, 3, 4, 5, 6, 7, 8}
      OBVIOUS
    <2> HIDE DEF F, X
    <2>2. QED
      BY <1>3, <2>1
  <1>5. (\A i \in 1..8 : X(x)[i] = X(y)[i]) => Covered(x) = Covered(y)
    BY DEF SignedMessages, Covered
  <1>6. /\ Len(F(x)) = 8 /\ Len(F(y)) = 8
        /\ DOMAIN F(x) = 1..8 /\ DOMAIN F(y) = 1..8
    OBVIOUS
  <1>7. /\ SignedMessage(x) = Transcript("signed-message", ok(x), F(x))
        /\ SignedMessage(y) = Transcript("signed-message", ok(y), F(y))
    BY DEF SignedMessage
  <1>8. 8 \in Nat \ {0} /\ "signed-message" \in Tags
    BY DEF Tags
  <1> HIDE DEF F, X, ok
  <1>9. Stands("signed-message", Transcript("signed-message", ok(x), F(x)),
               Transcript("signed-message", ok(y), F(y)),
               \A i \in 1..8 : X(x)[i] = X(y)[i])
    BY <1>4, <1>6, <1>8, TranscriptTells
  <1>10. QED
    BY <1>5, <1>7, <1>9 DEF Stands, Tells

LEMMA SignedMessageTells ==
  ASSUME NEW x \in SignedMessages, NEW y \in SignedMessages
  PROVE  Stands("signed-message", SignedMessage(x), SignedMessage(y), Covered(x) = Covered(y))
  <1>1. \A m \in SignedMessages :
          ~(m.signer # None /\ m.signer.session # None) => SignedMessage(m) = Refused
    BY DEF SignedMessage, Transcript, Enc
  <1>2. CASE /\ x.signer # None /\ x.signer.session # None
             /\ y.signer # None /\ y.signer.session # None
    BY <1>2, ChainedMessageTells
  <1>3. QED
    BY <1>1, <1>2 DEF Stands, Tells

LEMMA SignedDocumentTells ==
  ASSUME NEW x \in SignedDocuments, NEW y \in SignedDocuments
  PROVE  Stands("signed-document", SignedDocument(x), SignedDocument(y), Covered(x) = Covered(y))
  <1> DEFINE F(z) == <<Key(z.signer), Key(z.signing), Var(z.document_type), Number(z.version),
                       Number(z.issued), Number(z.expires), Var(z.body)>>
             X(z) == <<z.signer, z.signing, z.document_type, z.version, z.issued, z.expires,
                       z.body>>
             ok(z) == z.document_type # <<>>
  <1>1. /\ {x.signer, x.signing} \subseteq MaybeBytes
        /\ {x.document_type, x.body} \subseteq Bytes
        /\ x.version \in Unsigned(IntWidth)
        /\ {x.issued, x.expires} \subseteq Signed(IntWidth)
    BY DEF SignedDocuments, Seconds
  <1>2. /\ {y.signer, y.signing} \subseteq MaybeBytes
        /\ {y.document_type, y.body} \subseteq Bytes
        /\ y.version \in Unsigned(IntWidth)
        /\ {y.issued, y.expires} \subseteq Signed(IntWidth)
    BY DEF SignedDocuments, Seconds
  <1>3. /\ Tells(F(x)[1], F(y)[1], X(x)[1] = X(y)[1])
        /\ Tells(F(x)[2], F(y)[2], X(x)[2] = X(y)[2])
        /\ Tells(F(x)[3], F(y)[3], X(x)[3] = X(y)[3])
        /\ Tells(F(x)[4], F(y)[4], X(x)[4] = X(y)[4])
        /\ Tells(F(x)[5], F(y)[5], X(x)[5] = X(y)[5])
        /\ Tells(F(x)[6], F(y)[6], X(x)[6] = X(y)[6])
        /\ Tells(F(x)[7], F(y)[7], X(x)[7] = X(y)[7])
    BY <1>1, <1>2, KeyTells, VarTells, CountTells, NumberTells
  <1>4. \A i \in 1..7 : Tells(F(x)[i], F(y)[i], X(x)[i] = X(y)[i])
    <2>1. \A i \in 1..7 : i \in {1, 2, 3, 4, 5, 6, 7}
      OBVIOUS
    <2> HIDE DEF F, X
    <2>2. QED
      BY <1>3, <2>1
  <1>5. (\A i \in 1..7 : X(x)[i] = X(y)[i]) => Covered(x) = Covered(y)
    BY DEF SignedDocuments, Covered
  <1>6. /\ Len(F(x)) = 7 /\ Len(F(y)) = 7
        /\ DOMAIN F(x) = 1..7 /\ DOMAIN F(y) = 1..7
    OBVIOUS
  <1>7. /\ SignedDocument(x) = Transcript("signed-document", ok(x), F(x))
        /\ SignedDocument(y) = Transcript("signed-document", ok(y), F(y))
    BY DEF SignedDocument
  <1>8. 7 \in Nat \ {0} /\ "signed-document" \in Tags
    BY DEF Tags
  <1> HIDE DEF F, X, ok
  <1>9. Stands("signed-document", Transcript("signed-document", ok(x), F(x)),
               Transcript("signed-document", ok(y), F(y)),
               \A i \in 1..7 : X(x)[i] = X(y)[i])
    BY <1>4, <1>6, <1>8, TranscriptTells
  <1>10. QED
    BY <1>5, <1>7, <1>9 DEF Stands, Tells

LEMMA ApprovalTells ==
  ASSUME NEW x \in Approvals, NEW y \in Approvals
  PROVE  Stands("approval", ApprovalOf(x), ApprovalOf(y), x = y)
  <1> DEFINE F(z) == <<Key(z.principal), Key(z.approval_key), Key(z.device), Var(z.audience),
                       Var(z.request), Fixed(z.digest, DigestLength), <<z.accept>>,
                       Number(z.issued)>>
             X(z) == <<z.principal, z.approval_key, z.device, z.audience, z.request, z.digest,
                       z.accept, z.issued>>
             ok(z) == z.approval_key # z.device /\ z.audience # <<>>
  <1>1. /\ {x.principal, x.approval_key, x.device} \subseteq MaybeBytes
        /\ {x.audience, x.request, x.digest} \subseteq Bytes
        /\ x.accept \in Int
        /\ x.issued \in Signed(IntWidth)
    BY DEF Approvals, Seconds
  <1>2. /\ {y.principal, y.approval_key, y.device} \subseteq MaybeBytes
        /\ {y.audience, y.request, y.digest} \subseteq Bytes
        /\ y.accept \in Int
        /\ y.issued \in Signed(IntWidth)
    BY DEF Approvals, Seconds
  <1>3. /\ Tells(F(x)[1], F(y)[1], X(x)[1] = X(y)[1])
        /\ Tells(F(x)[2], F(y)[2], X(x)[2] = X(y)[2])
        /\ Tells(F(x)[3], F(y)[3], X(x)[3] = X(y)[3])
        /\ Tells(F(x)[4], F(y)[4], X(x)[4] = X(y)[4])
        /\ Tells(F(x)[5], F(y)[5], X(x)[5] = X(y)[5])
        /\ Tells(F(x)[6], F(y)[6], X(x)[6] = X(y)[6])
        /\ Tells(F(x)[7], F(y)[7], X(x)[7] = X(y)[7])
        /\ Tells(F(x)[8], F(y)[8], X(x)[8] = X(y)[8])
    BY <1>1, <1>2, KeyTells, VarTells, FixedTells, SymbolTells, NumberTells
  <1>4. \A i \in 1..8 : Tells(F(x)[i], F(y)[i], X(x)[i] = X(y)[i])
    <2>1. \A i \in 1..8 : i \in {1, 2, 3, 4, 5, 6, 7, 8}
      OBVIOUS
    <2> HIDE DEF F, X
    <2>2. QED
      BY <1>3, <2>1
  <1>5. (\A i \in 1..8 : X(x)[i] = X(y)[i]) => x = y
    BY DEF Approvals, Seconds
  <1>6. /\ Len(F(x)) = 8 /\ Len(F(y)) = 8
        /\ DOMAIN F(x) = 1..8 /\ DOMAIN F(y) = 1..8
    OBVIOUS
  <1>7. /\ ApprovalOf(x) = Transcript("approval", ok(x), F(x))
        /\ ApprovalOf(y) = Transcript("approval", ok(y), F(y))
    BY DEF ApprovalOf
  <1>8. 8 \in Nat \ {0} /\ "approval" \in Tags
    BY DEF Tags
  <1> HIDE DEF F, X, ok
  <1>9. Stands("approval", Transcript("approval", ok(x), F(x)),
               Transcript("approval", ok(y), F(y)),
               \A i \in 1..8 : X(x)[i] = X(y)[i])
    BY <1>4, <1>6, <1>8, TranscriptTells
  <1>10. QED
    BY <1>5, <1>7, <1>9 DEF Stands, Tells

LEMMA PeerRevocationTells ==
  ASSUME NEW x \in PeerRevocations, NEW y \in PeerRevocations
  PROVE  Stands("peer-revocation", PeerRevocation(x), PeerRevocation(y), x = y)
  <1> DEFINE F(z) == <<Key(z.revoker), Key(z.approval_key), Key(z.target),
                       Opt(z.revoked, Key(z.revoked)), Number(z.issued),
                       Fixed(z.document, DigestLength)>>
             X(z) == <<z.revoker, z.approval_key, z.target, z.revoked, z.issued, z.document>>
             ok(z) == TRUE
  <1>1. /\ {x.revoker, x.approval_key, x.target, x.revoked} \subseteq MaybeBytes
        /\ x.issued \in Signed(IntWidth)
        /\ x.document \in Bytes
    BY DEF PeerRevocations, Seconds
  <1>2. /\ {y.revoker, y.approval_key, y.target, y.revoked} \subseteq MaybeBytes
        /\ y.issued \in Signed(IntWidth)
        /\ y.document \in Bytes
    BY DEF PeerRevocations, Seconds
  <1>3. /\ Tells(F(x)[1], F(y)[1], X(x)[1] = X(y)[1])
        /\ Tells(F(x)[2], F(y)[2], X(x)[2] = X(y)[2])
        /\ Tells(F(x)[3], F(y)[3], X(x)[3] = X(y)[3])
        /\ Tells(F(x)[4], F(y)[4], X(x)[4] = X(y)[4])
        /\ Tells(F(x)[5], F(y)[5], X(x)[5] = X(y)[5])
        /\ Tells(F(x)[6], F(y)[6], X(x)[6] = X(y)[6])
    BY <1>1, <1>2, KeyTells, OptKeyTells, NumberTells, FixedTells
  <1>4. \A i \in 1..6 : Tells(F(x)[i], F(y)[i], X(x)[i] = X(y)[i])
    <2>1. \A i \in 1..6 : i \in {1, 2, 3, 4, 5, 6}
      OBVIOUS
    <2> HIDE DEF F, X
    <2>2. QED
      BY <1>3, <2>1
  <1>5. (\A i \in 1..6 : X(x)[i] = X(y)[i]) => x = y
    BY DEF PeerRevocations, Seconds
  <1>6. /\ Len(F(x)) = 6 /\ Len(F(y)) = 6
        /\ DOMAIN F(x) = 1..6 /\ DOMAIN F(y) = 1..6
    OBVIOUS
  <1>7. /\ PeerRevocation(x) = Transcript("peer-revocation", ok(x), F(x))
        /\ PeerRevocation(y) = Transcript("peer-revocation", ok(y), F(y))
    BY DEF PeerRevocation
  <1>8. 6 \in Nat \ {0} /\ "peer-revocation" \in Tags
    BY DEF Tags
  <1> HIDE DEF F, X, ok
  <1>9. Stands("peer-revocation", Transcript("peer-revocation", ok(x), F(x)),
               Transcript("peer-revocation", ok(y), F(y)),
               \A i \in 1..6 : X(x)[i] = X(y)[i])
    BY <1>4, <1>6, <1>8, TranscriptTells
  <1>10. QED
    BY <1>5, <1>7, <1>9 DEF Stands, Tells

LEMMA RequestDigestTells ==
  ASSUME NEW x \in RequestDigests, NEW y \in RequestDigests
  PROVE  Stands("request-digest", RequestDigest(x), RequestDigest(y), x = y)
  <1> DEFINE F(z) == <<Key(z.requester), Key(z.host), Opt(z.subject, Var(z.subject)),
                       Var(z.instance), Var(z.action), Var(z.parameters), Var(z.request),
                       Key(z.target)>>
             X(z) == <<z.requester, z.host, z.subject, z.instance, z.action, z.parameters,
                       z.request, z.target>>
             ok(z) == z.subject # <<>> /\ z.instance # <<>> /\ z.action # <<>> /\ z.request # <<>>
  <1>1. /\ {x.requester, x.host, x.subject, x.target} \subseteq MaybeBytes
        /\ {x.instance, x.action, x.parameters, x.request} \subseteq Bytes
    BY DEF RequestDigests
  <1>2. /\ {y.requester, y.host, y.subject, y.target} \subseteq MaybeBytes
        /\ {y.instance, y.action, y.parameters, y.request} \subseteq Bytes
    BY DEF RequestDigests
  <1>3. /\ Tells(F(x)[1], F(y)[1], X(x)[1] = X(y)[1])
        /\ Tells(F(x)[2], F(y)[2], X(x)[2] = X(y)[2])
        /\ Tells(F(x)[3], F(y)[3], X(x)[3] = X(y)[3])
        /\ Tells(F(x)[4], F(y)[4], X(x)[4] = X(y)[4])
        /\ Tells(F(x)[5], F(y)[5], X(x)[5] = X(y)[5])
        /\ Tells(F(x)[6], F(y)[6], X(x)[6] = X(y)[6])
        /\ Tells(F(x)[7], F(y)[7], X(x)[7] = X(y)[7])
        /\ Tells(F(x)[8], F(y)[8], X(x)[8] = X(y)[8])
    BY <1>1, <1>2, KeyTells, OptVarTells, VarTells
  <1>4. \A i \in 1..8 : Tells(F(x)[i], F(y)[i], X(x)[i] = X(y)[i])
    <2>1. \A i \in 1..8 : i \in {1, 2, 3, 4, 5, 6, 7, 8}
      OBVIOUS
    <2> HIDE DEF F, X
    <2>2. QED
      BY <1>3, <2>1
  <1>5. (\A i \in 1..8 : X(x)[i] = X(y)[i]) => x = y
    BY DEF RequestDigests
  <1>6. /\ Len(F(x)) = 8 /\ Len(F(y)) = 8
        /\ DOMAIN F(x) = 1..8 /\ DOMAIN F(y) = 1..8
    OBVIOUS
  <1>7. /\ RequestDigest(x) = Transcript("request-digest", ok(x), F(x))
        /\ RequestDigest(y) = Transcript("request-digest", ok(y), F(y))
    BY DEF RequestDigest
  <1>8. 8 \in Nat \ {0} /\ "request-digest" \in Tags
    BY DEF Tags
  <1> HIDE DEF F, X, ok
  <1>9. Stands("request-digest", Transcript("request-digest", ok(x), F(x)),
               Transcript("request-digest", ok(y), F(y)),
               \A i \in 1..8 : X(x)[i] = X(y)[i])
    BY <1>4, <1>6, <1>8, TranscriptTells
  <1>10. QED
    BY <1>5, <1>7, <1>9 DEF Stands, Tells

LEMMA OptResourceTells ==
  ASSUME NEW x \in {None} \cup [kind : Bytes, id : Bytes],
         NEW y \in {None} \cup [kind : Bytes, id : Bytes]
  PROVE  Tells(Opt(x, Resource(x)), Opt(y, Resource(y)), x = y)
  <1>1. \A z \in [kind : Bytes, id : Bytes] : Resource(z) # Refused => Resource(z) \in Str
    <2>1. \A z \in [kind : Bytes, id : Bytes] : Tells(Resource(z), Resource(z), z = z)
      BY ResourceTells
    <2>2. QED
      BY <2>1 DEF Tells
  <1>2. /\ x # None => x \in [kind : Bytes, id : Bytes]
        /\ y # None => y \in [kind : Bytes, id : Bytes]
    OBVIOUS
  <1>3. QED
    BY <1>1, <1>2, OptTells, ResourceTells

Recipients(r) == List([i \in DOMAIN r |-> Key(r[i])])
Messages(m) == List([i \in DOMAIN m |-> AttestedMessage(m[i])])

LEMMA KeysTell ==
  ASSUME NEW x \in Seq(MaybeBytes), NEW y \in Seq(MaybeBytes)
  PROVE  Tells(Recipients(x), Recipients(y), x = y)
  <1> DEFINE F == [i \in DOMAIN x |-> Key(x[i])]
             G == [i \in DOMAIN y |-> Key(y[i])]
  <1>1. /\ Len(x) \in Nat /\ DOMAIN x = 1..Len(x) /\ \A i \in 1..Len(x) : x[i] \in MaybeBytes
        /\ Len(y) \in Nat /\ DOMAIN y = 1..Len(y) /\ \A i \in 1..Len(y) : y[i] \in MaybeBytes
    OBVIOUS
  <1>2. /\ Len(F) = Len(x) /\ DOMAIN F = 1..Len(F) /\ (Len(F) = 0 => F = <<>>)
        /\ Len(G) = Len(y) /\ DOMAIN G = 1..Len(G) /\ (Len(G) = 0 => G = <<>>)
    BY <1>1
  <1>3. /\ \A i \in 1..Len(x) : F[i] = Key(x[i])
        /\ \A i \in 1..Len(y) : G[i] = Key(y[i])
    BY <1>1
  <1> HIDE DEF F, G
  <1>4. /\ \A i \in 1..Len(F) : F[i] # Refused => F[i] \in Str
        /\ \A i \in 1..Len(G) : G[i] # Refused => G[i] \in Str
    BY <1>1, <1>2, <1>3, FieldTypes
  <1>5. \A i \in 1..Len(F) : i \in 1..Len(G) => Tells(F[i], G[i], x[i] = y[i])
    BY <1>1, <1>2, <1>3, KeyTells
  <1>6. /\ Len(F) \in Nat /\ DOMAIN F = 1..Len(F) /\ (Len(F) = 0 => F = <<>>)
        /\ Len(G) \in Nat /\ DOMAIN G = 1..Len(G) /\ (Len(G) = 0 => G = <<>>)
    BY <1>1, <1>2
  <1>7. Tells(List(F), List(G), Agree(x, Len(F), y, Len(G)))
    BY ONLY <1>4, <1>5, <1>6, ListTells
  <1>8. Agree(x, Len(F), y, Len(G)) => x = y
    <2>1. Len(x) = Len(y) /\ (\A i \in 1..Len(x) : x[i] = y[i]) => x = y
      OBVIOUS
    <2>2. QED
      BY <1>2, <2>1 DEF Agree
  <1>9. QED
    BY <1>7, <1>8 DEF Tells, Recipients, F, G

LEMMA MessagesTell ==
  ASSUME NEW x \in Seq(Attestable), NEW y \in Seq(Attestable)
  PROVE  Tells(Messages(x), Messages(y), x = y)
  <1> DEFINE F == [i \in DOMAIN x |-> AttestedMessage(x[i])]
             G == [i \in DOMAIN y |-> AttestedMessage(y[i])]
  <1>1. /\ Len(x) \in Nat /\ DOMAIN x = 1..Len(x) /\ \A i \in 1..Len(x) : x[i] \in Attestable
        /\ Len(y) \in Nat /\ DOMAIN y = 1..Len(y) /\ \A i \in 1..Len(y) : y[i] \in Attestable
    OBVIOUS
  <1>2. /\ Len(F) = Len(x) /\ DOMAIN F = 1..Len(F) /\ (Len(F) = 0 => F = <<>>)
        /\ Len(G) = Len(y) /\ DOMAIN G = 1..Len(G) /\ (Len(G) = 0 => G = <<>>)
    BY <1>1
  <1>3. /\ \A i \in 1..Len(x) : F[i] = AttestedMessage(x[i])
        /\ \A i \in 1..Len(y) : G[i] = AttestedMessage(y[i])
    BY <1>1
  <1> HIDE DEF F, G
  <1>4. \A u, v \in Attestable : Tells(AttestedMessage(u), AttestedMessage(v), u = v)
    <2>1. \A u \in Attestable : u.cert = None => AttestedMessage(u) = Refused
      BY DEF AttestedMessage, Enc
    <2>2. \A u, v \in Attestable : u.cert # None /\ v.cert # None =>
            Tells(AttestedMessage(u), AttestedMessage(v), u = v)
      BY AttestedTells
    <2>3. QED
      BY <2>1, <2>2 DEF Tells
  <1>5. \A u \in Attestable : AttestedMessage(u) # Refused => AttestedMessage(u) \in Str
    <2>1. \A u \in Attestable : Tells(AttestedMessage(u), AttestedMessage(u), u = u)
      BY <1>4
    <2>2. QED
      BY <2>1 DEF Tells
  <1>6. /\ \A i \in 1..Len(F) : F[i] # Refused => F[i] \in Str
        /\ \A i \in 1..Len(G) : G[i] # Refused => G[i] \in Str
    BY <1>1, <1>2, <1>3, <1>5
  <1>7. \A i \in 1..Len(F) : i \in 1..Len(G) => Tells(F[i], G[i], x[i] = y[i])
    BY <1>1, <1>2, <1>3, <1>4
  <1>8. /\ Len(F) \in Nat /\ DOMAIN F = 1..Len(F) /\ (Len(F) = 0 => F = <<>>)
        /\ Len(G) \in Nat /\ DOMAIN G = 1..Len(G) /\ (Len(G) = 0 => G = <<>>)
    BY <1>1, <1>2
  <1>9. Tells(List(F), List(G), Agree(x, Len(F), y, Len(G)))
    BY ONLY <1>6, <1>7, <1>8, ListTells
  <1>10. Agree(x, Len(F), y, Len(G)) => x = y
    <2>1. Len(x) = Len(y) /\ (\A i \in 1..Len(x) : x[i] = y[i]) => x = y
      OBVIOUS
    <2>2. QED
      BY <1>2, <2>1 DEF Agree
  <1>11. QED
    BY <1>9, <1>10 DEF Tells, Messages, F, G

\* One that says when.
LEMMA DatedAttestationTells ==
  ASSUME NEW x \in DeliveryAttestations, NEW y \in DeliveryAttestations,
         x.at # None, y.at # None
  PROVE  Stands("delivery-attestation", DeliveryAttestation(x), DeliveryAttestation(y), x = y)
  <1> DEFINE F(z) == <<Recipients(z.recipients), Var(z.key_id), Number(z.sequence),
                       Number(z.at.seconds), Number(z.at.nanos), Messages(z.messages)>>
             X(z) == <<z.recipients, z.key_id, z.sequence, z.at.seconds, z.at.nanos, z.messages>>
             ok(z) == z.at # None /\ z.at.nanos \in 0..MaxNanos
  <1>1. /\ x.recipients \in Seq(MaybeBytes)
        /\ x.key_id \in Bytes
        /\ x.sequence \in Unsigned(IntWidth)
        /\ x.at \in [seconds : Signed(IntWidth), nanos : Signed(IntWidth)]
        /\ {x.at.seconds, x.at.nanos} \subseteq Signed(IntWidth)
        /\ x.messages \in Seq(Attestable)
    BY DEF DeliveryAttestations, Seconds
  <1>2. /\ y.recipients \in Seq(MaybeBytes)
        /\ y.key_id \in Bytes
        /\ y.sequence \in Unsigned(IntWidth)
        /\ y.at \in [seconds : Signed(IntWidth), nanos : Signed(IntWidth)]
        /\ {y.at.seconds, y.at.nanos} \subseteq Signed(IntWidth)
        /\ y.messages \in Seq(Attestable)
    BY DEF DeliveryAttestations, Seconds
  <1>3. /\ Tells(F(x)[1], F(y)[1], X(x)[1] = X(y)[1])
        /\ Tells(F(x)[2], F(y)[2], X(x)[2] = X(y)[2])
        /\ Tells(F(x)[3], F(y)[3], X(x)[3] = X(y)[3])
        /\ Tells(F(x)[4], F(y)[4], X(x)[4] = X(y)[4])
        /\ Tells(F(x)[5], F(y)[5], X(x)[5] = X(y)[5])
        /\ Tells(F(x)[6], F(y)[6], X(x)[6] = X(y)[6])
    BY <1>1, <1>2, KeysTell, VarTells, CountTells, NumberTells, MessagesTell
  <1>4. \A i \in 1..6 : Tells(F(x)[i], F(y)[i], X(x)[i] = X(y)[i])
    <2>1. \A i \in 1..6 : i \in {1, 2, 3, 4, 5, 6}
      OBVIOUS
    <2> HIDE DEF F, X
    <2>2. QED
      BY <1>3, <2>1
  <1>5. (\A i \in 1..6 : X(x)[i] = X(y)[i]) => x = y
    BY DEF DeliveryAttestations, Seconds
  <1>6. /\ Len(F(x)) = 6 /\ Len(F(y)) = 6
        /\ DOMAIN F(x) = 1..6 /\ DOMAIN F(y) = 1..6
    OBVIOUS
  <1>7. /\ DeliveryAttestation(x) = Transcript("delivery-attestation", ok(x), F(x))
        /\ DeliveryAttestation(y) = Transcript("delivery-attestation", ok(y), F(y))
    BY DEF DeliveryAttestation, Recipients, Messages
  <1>8. 6 \in Nat \ {0} /\ "delivery-attestation" \in Tags
    BY DEF Tags
  <1> HIDE DEF F, X, ok
  <1>9. Stands("delivery-attestation", Transcript("delivery-attestation", ok(x), F(x)),
               Transcript("delivery-attestation", ok(y), F(y)),
               \A i \in 1..6 : X(x)[i] = X(y)[i])
    BY <1>4, <1>6, <1>8, TranscriptTells
  <1>10. QED
    BY <1>5, <1>7, <1>9 DEF Stands, Tells

LEMMA DeliveryAttestationTells ==
  ASSUME NEW x \in DeliveryAttestations, NEW y \in DeliveryAttestations
  PROVE  Stands("delivery-attestation", DeliveryAttestation(x), DeliveryAttestation(y), x = y)
  <1>1. \A a \in DeliveryAttestations : a.at = None => DeliveryAttestation(a) = Refused
    BY DEF DeliveryAttestation, Transcript, Enc
  <1>2. CASE x.at # None /\ y.at # None
    BY <1>2, DatedAttestationTells
  <1>3. QED
    BY <1>1, <1>2 DEF Stands, Tells

LEMMA ClientRequestDigestTells ==
  ASSUME NEW x \in ClientRequestDigests, NEW y \in ClientRequestDigests
  PROVE  Stands("client-request-digest", ClientRequestDigest(x), ClientRequestDigest(y), x = y)
  <1> DEFINE F(z) == <<Key(z.requester), Opt(z.host, Key(z.host)),
                       Opt(z.resource, Resource(z.resource)), Var(z.message_kind), Var(z.body),
                       Var(z.request), Key(z.target)>>
             X(z) == <<z.requester, z.host, z.resource, z.message_kind, z.body, z.request,
                       z.target>>
             ok(z) == z.message_kind # <<>> /\ z.request # <<>>
  <1>1. /\ {x.requester, x.host, x.target} \subseteq MaybeBytes
        /\ x.resource \in {None} \cup [kind : Bytes, id : Bytes]
        /\ {x.message_kind, x.body, x.request} \subseteq Bytes
    BY DEF ClientRequestDigests
  <1>2. /\ {y.requester, y.host, y.target} \subseteq MaybeBytes
        /\ y.resource \in {None} \cup [kind : Bytes, id : Bytes]
        /\ {y.message_kind, y.body, y.request} \subseteq Bytes
    BY DEF ClientRequestDigests
  <1>3. /\ Tells(F(x)[1], F(y)[1], X(x)[1] = X(y)[1])
        /\ Tells(F(x)[2], F(y)[2], X(x)[2] = X(y)[2])
        /\ Tells(F(x)[3], F(y)[3], X(x)[3] = X(y)[3])
        /\ Tells(F(x)[4], F(y)[4], X(x)[4] = X(y)[4])
        /\ Tells(F(x)[5], F(y)[5], X(x)[5] = X(y)[5])
        /\ Tells(F(x)[6], F(y)[6], X(x)[6] = X(y)[6])
        /\ Tells(F(x)[7], F(y)[7], X(x)[7] = X(y)[7])
    BY <1>1, <1>2, KeyTells, OptKeyTells, OptResourceTells, VarTells
  <1>4. \A i \in 1..7 : Tells(F(x)[i], F(y)[i], X(x)[i] = X(y)[i])
    <2>1. \A i \in 1..7 : i \in {1, 2, 3, 4, 5, 6, 7}
      OBVIOUS
    <2> HIDE DEF F, X
    <2>2. QED
      BY <1>3, <2>1
  <1>5. (\A i \in 1..7 : X(x)[i] = X(y)[i]) => x = y
    BY DEF ClientRequestDigests
  <1>6. /\ Len(F(x)) = 7 /\ Len(F(y)) = 7
        /\ DOMAIN F(x) = 1..7 /\ DOMAIN F(y) = 1..7
    OBVIOUS
  <1>7. /\ ClientRequestDigest(x) = Transcript("client-request-digest", ok(x), F(x))
        /\ ClientRequestDigest(y) = Transcript("client-request-digest", ok(y), F(y))
    BY DEF ClientRequestDigest
  <1>8. 7 \in Nat \ {0} /\ "client-request-digest" \in Tags
    BY DEF Tags
  <1> HIDE DEF F, X, ok
  <1>9. Stands("client-request-digest", Transcript("client-request-digest", ok(x), F(x)),
               Transcript("client-request-digest", ok(y), F(y)),
               \A i \in 1..7 : X(x)[i] = X(y)[i])
    BY <1>4, <1>6, <1>8, TranscriptTells
  <1>10. QED
    BY <1>5, <1>7, <1>9 DEF Stands, Tells

-----------------------------------------------------------------------------
(* Any two inputs. *)

LEMMA EncodeMeans ==
  ASSUME NEW x
  PROVE  /\ x \in KeyChallenges => Encode(x) = KeyChallenge(x)
         /\ x \in PrincipalRenames => Encode(x) = PrincipalRename(x)
         /\ x \in KeyDelegations => Encode(x) = KeyDelegation(x)
         /\ x \in KeyRevocations => Encode(x) = KeyRevocation(x)
         /\ x \in RootRotations => Encode(x) = RootRotation(x)
         /\ x \in SessionDelegations => Encode(x) = SessionDelegation(x)
         /\ x \in SignedMessages => Encode(x) = SignedMessage(x)
         /\ x \in SignedDocuments => Encode(x) = SignedDocument(x)
         /\ x \in Approvals => Encode(x) = ApprovalOf(x)
         /\ x \in PeerRevocations => Encode(x) = PeerRevocation(x)
         /\ x \in DeliveryAttestations => Encode(x) = DeliveryAttestation(x)
         /\ x \in RequestDigests => Encode(x) = RequestDigest(x)
         /\ x \in ClientRequestDigests => Encode(x) = ClientRequestDigest(x)
  <1>1. x \in KeyChallenges => Encode(x) = KeyChallenge(x)
    BY DEF Encode, KeyChallenges
  <1>2. x \in PrincipalRenames => Encode(x) = PrincipalRename(x)
    BY DEF Encode, PrincipalRenames
  <1>3. x \in KeyDelegations => Encode(x) = KeyDelegation(x)
    BY DEF Encode, KeyDelegations
  <1>4. x \in KeyRevocations => Encode(x) = KeyRevocation(x)
    BY DEF Encode, KeyRevocations
  <1>5. x \in RootRotations => Encode(x) = RootRotation(x)
    BY DEF Encode, RootRotations
  <1>6. x \in SessionDelegations => Encode(x) = SessionDelegation(x)
    BY DEF Encode, SessionDelegations
  <1>7. x \in SignedMessages => Encode(x) = SignedMessage(x)
    BY DEF Encode, SignedMessages
  <1>8. x \in SignedDocuments => Encode(x) = SignedDocument(x)
    BY DEF Encode, SignedDocuments
  <1>9. x \in Approvals => Encode(x) = ApprovalOf(x)
    BY DEF Encode, Approvals
  <1>10. x \in PeerRevocations => Encode(x) = PeerRevocation(x)
    BY DEF Encode, PeerRevocations
  <1>11. x \in DeliveryAttestations => Encode(x) = DeliveryAttestation(x)
    BY DEF Encode, DeliveryAttestations
  <1>12. x \in RequestDigests => Encode(x) = RequestDigest(x)
    BY DEF Encode, RequestDigests
  <1>13. x \in ClientRequestDigests => Encode(x) = ClientRequestDigest(x)
    BY DEF Encode, ClientRequestDigests
  <1>14. QED
    BY <1>1, <1>2, <1>3, <1>4, <1>5, <1>6, <1>7, <1>8, <1>9, <1>10, <1>11, <1>12, <1>13

\* The first symbol is the tag of the format.
LEMMA TagTells ==
  ASSUME NEW x \in Input, Encode(x) # Refused
  PROVE  \/ x \in KeyChallenges /\ Encode(x)[1] = "key-challenge"
         \/ x \in PrincipalRenames /\ Encode(x)[1] = "principal-rename"
         \/ x \in KeyDelegations /\ Encode(x)[1] = "key-delegation"
         \/ x \in KeyRevocations /\ Encode(x)[1] = "key-revocation"
         \/ x \in RootRotations /\ Encode(x)[1] = "root-rotation"
         \/ x \in SessionDelegations /\ Encode(x)[1] = "session-delegation"
         \/ x \in SignedMessages /\ Encode(x)[1] = "signed-message"
         \/ x \in SignedDocuments /\ Encode(x)[1] = "signed-document"
         \/ x \in Approvals /\ Encode(x)[1] = "approval"
         \/ x \in PeerRevocations /\ Encode(x)[1] = "peer-revocation"
         \/ x \in DeliveryAttestations /\ Encode(x)[1] = "delivery-attestation"
         \/ x \in RequestDigests /\ Encode(x)[1] = "request-digest"
         \/ x \in ClientRequestDigests /\ Encode(x)[1] = "client-request-digest"
  <1>1. ASSUME x \in KeyChallenges PROVE Encode(x)[1] = "key-challenge"
    <2>1. Stands("key-challenge", KeyChallenge(x), KeyChallenge(x), x = x)
      BY <1>1, KeyChallengeTells
    <2>2. QED
      BY <1>1, <2>1, EncodeMeans DEF Stands
  <1>2. ASSUME x \in PrincipalRenames PROVE Encode(x)[1] = "principal-rename"
    <2>1. Stands("principal-rename", PrincipalRename(x), PrincipalRename(x), x = x)
      BY <1>2, PrincipalRenameTells
    <2>2. QED
      BY <1>2, <2>1, EncodeMeans DEF Stands
  <1>3. ASSUME x \in KeyDelegations PROVE Encode(x)[1] = "key-delegation"
    <2>1. Stands("key-delegation", KeyDelegation(x), KeyDelegation(x), x = x)
      BY <1>3, KeyDelegationTells
    <2>2. QED
      BY <1>3, <2>1, EncodeMeans DEF Stands
  <1>4. ASSUME x \in KeyRevocations PROVE Encode(x)[1] = "key-revocation"
    <2>1. Stands("key-revocation", KeyRevocation(x), KeyRevocation(x), x = x)
      BY <1>4, KeyRevocationTells
    <2>2. QED
      BY <1>4, <2>1, EncodeMeans DEF Stands
  <1>5. ASSUME x \in RootRotations PROVE Encode(x)[1] = "root-rotation"
    <2>1. Stands("root-rotation", RootRotation(x), RootRotation(x), x = x)
      BY <1>5, RootRotationTells
    <2>2. QED
      BY <1>5, <2>1, EncodeMeans DEF Stands
  <1>6. ASSUME x \in SessionDelegations PROVE Encode(x)[1] = "session-delegation"
    <2>1. Stands("session-delegation", SessionDelegation(x), SessionDelegation(x), x = x)
      BY <1>6, SessionDelegationTells
    <2>2. QED
      BY <1>6, <2>1, EncodeMeans DEF Stands
  <1>7. ASSUME x \in SignedMessages PROVE Encode(x)[1] = "signed-message"
    <2>1. Stands("signed-message", SignedMessage(x), SignedMessage(x), Covered(x) = Covered(x))
      BY <1>7, SignedMessageTells
    <2>2. QED
      BY <1>7, <2>1, EncodeMeans DEF Stands
  <1>8. ASSUME x \in SignedDocuments PROVE Encode(x)[1] = "signed-document"
    <2>1. Stands("signed-document", SignedDocument(x), SignedDocument(x), Covered(x) = Covered(x))
      BY <1>8, SignedDocumentTells
    <2>2. QED
      BY <1>8, <2>1, EncodeMeans DEF Stands
  <1>9. ASSUME x \in Approvals PROVE Encode(x)[1] = "approval"
    <2>1. Stands("approval", ApprovalOf(x), ApprovalOf(x), x = x)
      BY <1>9, ApprovalTells
    <2>2. QED
      BY <1>9, <2>1, EncodeMeans DEF Stands
  <1>10. ASSUME x \in PeerRevocations PROVE Encode(x)[1] = "peer-revocation"
    <2>1. Stands("peer-revocation", PeerRevocation(x), PeerRevocation(x), x = x)
      BY <1>10, PeerRevocationTells
    <2>2. QED
      BY <1>10, <2>1, EncodeMeans DEF Stands
  <1>11. ASSUME x \in DeliveryAttestations PROVE Encode(x)[1] = "delivery-attestation"
    <2>1. Stands("delivery-attestation", DeliveryAttestation(x), DeliveryAttestation(x), x = x)
      BY <1>11, DeliveryAttestationTells
    <2>2. QED
      BY <1>11, <2>1, EncodeMeans DEF Stands
  <1>12. ASSUME x \in RequestDigests PROVE Encode(x)[1] = "request-digest"
    <2>1. Stands("request-digest", RequestDigest(x), RequestDigest(x), x = x)
      BY <1>12, RequestDigestTells
    <2>2. QED
      BY <1>12, <2>1, EncodeMeans DEF Stands
  <1>13. ASSUME x \in ClientRequestDigests PROVE Encode(x)[1] = "client-request-digest"
    <2>1. Stands("client-request-digest", ClientRequestDigest(x), ClientRequestDigest(x), x = x)
      BY <1>13, ClientRequestDigestTells
    <2>2. QED
      BY <1>13, <2>1, EncodeMeans DEF Stands
  <1>14. QED
    BY <1>1, <1>2, <1>3, <1>4, <1>5, <1>6, <1>7, <1>8, <1>9, <1>10, <1>11, <1>12, <1>13 DEF Input

\* What the same bytes tell.
LEMMA Same ==
  ASSUME NEW s, NEW p \in BOOLEAN, s # Refused, Tells(s, s, p)
  PROVE  p
  <1>1. <<>> \in Str
    BY DEF Str
  <1>2. QED
    BY <1>1 DEF Tells

\* Two inputs of the same format.
LEMMA FormatTells ==
  ASSUME NEW x, NEW y, Encode(x) # Refused, Encode(y) = Encode(x),
         \/ x \in KeyChallenges /\ y \in KeyChallenges
         \/ x \in PrincipalRenames /\ y \in PrincipalRenames
         \/ x \in KeyDelegations /\ y \in KeyDelegations
         \/ x \in KeyRevocations /\ y \in KeyRevocations
         \/ x \in RootRotations /\ y \in RootRotations
         \/ x \in SessionDelegations /\ y \in SessionDelegations
         \/ x \in SignedMessages /\ y \in SignedMessages
         \/ x \in SignedDocuments /\ y \in SignedDocuments
         \/ x \in Approvals /\ y \in Approvals
         \/ x \in PeerRevocations /\ y \in PeerRevocations
         \/ x \in DeliveryAttestations /\ y \in DeliveryAttestations
         \/ x \in RequestDigests /\ y \in RequestDigests
         \/ x \in ClientRequestDigests /\ y \in ClientRequestDigests
  PROVE  Covered(x) = Covered(y)
  <1>2. CASE x \in KeyChallenges /\ y \in KeyChallenges
    <2>1. Encode(x) = KeyChallenge(x) /\ Encode(y) = KeyChallenge(y)
      BY <1>2, EncodeMeans
    <2>2. Stands("key-challenge", KeyChallenge(x), KeyChallenge(y), x = y)
      BY <1>2, KeyChallengeTells
    <2>3. QED
      BY <2>1, <2>2, Same DEF Stands
  <1>3. CASE x \in PrincipalRenames /\ y \in PrincipalRenames
    <2>1. Encode(x) = PrincipalRename(x) /\ Encode(y) = PrincipalRename(y)
      BY <1>3, EncodeMeans
    <2>2. Stands("principal-rename", PrincipalRename(x), PrincipalRename(y), x = y)
      BY <1>3, PrincipalRenameTells
    <2>3. QED
      BY <2>1, <2>2, Same DEF Stands
  <1>4. CASE x \in KeyDelegations /\ y \in KeyDelegations
    <2>1. Encode(x) = KeyDelegation(x) /\ Encode(y) = KeyDelegation(y)
      BY <1>4, EncodeMeans
    <2>2. Stands("key-delegation", KeyDelegation(x), KeyDelegation(y), x = y)
      BY <1>4, KeyDelegationTells
    <2>3. QED
      BY <2>1, <2>2, Same DEF Stands
  <1>5. CASE x \in KeyRevocations /\ y \in KeyRevocations
    <2>1. Encode(x) = KeyRevocation(x) /\ Encode(y) = KeyRevocation(y)
      BY <1>5, EncodeMeans
    <2>2. Stands("key-revocation", KeyRevocation(x), KeyRevocation(y), x = y)
      BY <1>5, KeyRevocationTells
    <2>3. QED
      BY <2>1, <2>2, Same DEF Stands
  <1>6. CASE x \in RootRotations /\ y \in RootRotations
    <2>1. Encode(x) = RootRotation(x) /\ Encode(y) = RootRotation(y)
      BY <1>6, EncodeMeans
    <2>2. Stands("root-rotation", RootRotation(x), RootRotation(y), x = y)
      BY <1>6, RootRotationTells
    <2>3. QED
      BY <2>1, <2>2, Same DEF Stands
  <1>7. CASE x \in SessionDelegations /\ y \in SessionDelegations
    <2>1. Encode(x) = SessionDelegation(x) /\ Encode(y) = SessionDelegation(y)
      BY <1>7, EncodeMeans
    <2>2. Stands("session-delegation", SessionDelegation(x), SessionDelegation(y), x = y)
      BY <1>7, SessionDelegationTells
    <2>3. QED
      BY <2>1, <2>2, Same DEF Stands
  <1>8. CASE x \in SignedMessages /\ y \in SignedMessages
    <2>1. Encode(x) = SignedMessage(x) /\ Encode(y) = SignedMessage(y)
      BY <1>8, EncodeMeans
    <2>2. Stands("signed-message", SignedMessage(x), SignedMessage(y), Covered(x) = Covered(y))
      BY <1>8, SignedMessageTells
    <2>3. QED
      BY <2>1, <2>2, Same DEF Stands
  <1>9. CASE x \in SignedDocuments /\ y \in SignedDocuments
    <2>1. Encode(x) = SignedDocument(x) /\ Encode(y) = SignedDocument(y)
      BY <1>9, EncodeMeans
    <2>2. Stands("signed-document", SignedDocument(x), SignedDocument(y), Covered(x) = Covered(y))
      BY <1>9, SignedDocumentTells
    <2>3. QED
      BY <2>1, <2>2, Same DEF Stands
  <1>10. CASE x \in Approvals /\ y \in Approvals
    <2>1. Encode(x) = ApprovalOf(x) /\ Encode(y) = ApprovalOf(y)
      BY <1>10, EncodeMeans
    <2>2. Stands("approval", ApprovalOf(x), ApprovalOf(y), x = y)
      BY <1>10, ApprovalTells
    <2>3. QED
      BY <2>1, <2>2, Same DEF Stands
  <1>11. CASE x \in PeerRevocations /\ y \in PeerRevocations
    <2>1. Encode(x) = PeerRevocation(x) /\ Encode(y) = PeerRevocation(y)
      BY <1>11, EncodeMeans
    <2>2. Stands("peer-revocation", PeerRevocation(x), PeerRevocation(y), x = y)
      BY <1>11, PeerRevocationTells
    <2>3. QED
      BY <2>1, <2>2, Same DEF Stands
  <1>12. CASE x \in DeliveryAttestations /\ y \in DeliveryAttestations
    <2>1. Encode(x) = DeliveryAttestation(x) /\ Encode(y) = DeliveryAttestation(y)
      BY <1>12, EncodeMeans
    <2>2. Stands("delivery-attestation", DeliveryAttestation(x), DeliveryAttestation(y), x = y)
      BY <1>12, DeliveryAttestationTells
    <2>3. QED
      BY <2>1, <2>2, Same DEF Stands
  <1>13. CASE x \in RequestDigests /\ y \in RequestDigests
    <2>1. Encode(x) = RequestDigest(x) /\ Encode(y) = RequestDigest(y)
      BY <1>13, EncodeMeans
    <2>2. Stands("request-digest", RequestDigest(x), RequestDigest(y), x = y)
      BY <1>13, RequestDigestTells
    <2>3. QED
      BY <2>1, <2>2, Same DEF Stands
  <1>14. CASE x \in ClientRequestDigests /\ y \in ClientRequestDigests
    <2>1. Encode(x) = ClientRequestDigest(x) /\ Encode(y) = ClientRequestDigest(y)
      BY <1>14, EncodeMeans
    <2>2. Stands("client-request-digest", ClientRequestDigest(x), ClientRequestDigest(y), x = y)
      BY <1>14, ClientRequestDigestTells
    <2>3. QED
      BY <2>1, <2>2, Same DEF Stands
  <1>15. QED
    BY <1>2, <1>3, <1>4, <1>5, <1>6, <1>7, <1>8, <1>9, <1>10, <1>11, <1>12, <1>13, <1>14

\* Two inputs with the same bytes differ, if at all, in the chain of a message,
\* its principal and its session key excepted, or in the rotations of a
\* document: but for those two the thirteen formats of transcripts.rs have no
\* two inputs of one transcript.
THEOREM OneInput ==
  ASSUME NEW x \in Input, NEW y \in Input, Encode(x) # Refused, Encode(y) = Encode(x)
  PROVE  Covered(x) = Covered(y)
  <1>1. Encode(y) # Refused /\ Encode(y)[1] = Encode(x)[1]
    OBVIOUS
  <1>2. QED
    BY <1>1, TagTells, FormatTells

-----------------------------------------------------------------------------
(* The invariant.                                                          *)

\* What is accepted has the bytes that were signed.
IInv ==
  /\ signed = None => accepted = None
  /\ signed # None => /\ signed.input \in Inputs
                      /\ signed.bytes = Encode(signed.input) /\ signed.bytes # Refused
  /\ accepted # None => accepted \in Inputs /\ Encode(accepted) = signed.bytes

\* Signing keeps the input with its bytes, and verifying compares bytes.
THEOREM Invariance == Spec => []IInv
  <1>1. Init => IInv
    BY DEF Init, IInv
  <1>2. IInv /\ [Next]_vars => IInv'
    <2>1. SUFFICES ASSUME IInv, [Next]_vars PROVE IInv'
      OBVIOUS
    <2>2. CASE Sign
      <3>1. PICK s \in Shown : s.bytes # Refused /\ signed' = s
        BY <2>2 DEF Sign
      <3>2. accepted' = None
        BY <2>1, <2>2 DEF Sign, IInv
      <3>3. s.input \in Inputs /\ s.bytes = Encode(s.input)
        BY <3>1 DEF Shown
      <3>4. QED
        BY <3>1, <3>2, <3>3 DEF IInv
    <2>3. CASE Verify
      <3>1. signed # None /\ signed' = signed
        BY <2>3 DEF Verify
      <3>2. PICK s \in Shown : s.bytes = signed.bytes /\ accepted' = s.input
        BY <2>3 DEF Verify
      <3>3. s.input \in Inputs /\ s.bytes = Encode(s.input)
        BY <3>2 DEF Shown
      <3>4. QED
        BY <2>1, <3>1, <3>2, <3>3 DEF IInv
    <2>4. CASE UNCHANGED vars
      BY <2>1, <2>4 DEF IInv, vars
    <2>5. QED
      BY <2>1, <2>2, <2>3, <2>4 DEF Next
  <1>3. QED
    BY <1>1, <1>2, PTL DEF Spec

\* A signature is good for one input, up to what Covered leaves out of messages
\* and documents, whatever the base, the widths and the inputs: verify_p256 over
\* a transcript accepts nothing else than what was signed.
THEOREM SignatureCoversOneHolds == Spec => []SignatureCoversOne
  <1>1. IInv => SignatureCoversOne
    <2>1. SUFFICES ASSUME IInv, accepted # None
                   PROVE  Covered(accepted) = Covered(signed.input)
      BY DEF SignatureCoversOne
    <2>2. /\ signed.input \in Input /\ accepted \in Input
          /\ Encode(signed.input) # Refused /\ Encode(accepted) = Encode(signed.input)
      BY <2>1, InputsAssumption DEF IInv
    <2>3. QED
      BY <2>2, OneInput
  <1>2. QED
    BY <1>1, Invariance, PTL
=============================================================================
