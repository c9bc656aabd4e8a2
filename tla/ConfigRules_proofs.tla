-------------------------- MODULE ConfigRules_proofs --------------------------
(***************************************************************************)
(* What the configuration rules are for: the artifact files, and the token *)
(* keys, of two CAs of an accepted file never share a name, whatever the   *)
(* generations.                                                            *)
(***************************************************************************)
EXTENDS ConfigRules, FiniteSetTheorems, SequenceTheorems, TLAPS

\* A generation's number is written with digits.
LEMMA DecimalDigits ==
    ASSUME NEW n \in Nat
    PROVE  Decimal(n) \in Seq(Digit)
<1> DEFINE powers == {k \in 2 .. 10 : TenTo[k] <= n}
<1>1. IsFiniteSet(2 .. 10) /\ Cardinality(2 .. 10) = 9
  <2>1. 2 \in Int /\ 10 \in Int
    OBVIOUS
  <2>2. /\ IsFiniteSet(2 .. 10)
        /\ Cardinality(2 .. 10) = IF 2 > 10 THEN 0 ELSE 10 - 2 + 1
    BY <2>1, FS_Interval, Zenon
  <2> QED BY <2>2
<1>2. powers \subseteq 2 .. 10
  OBVIOUS
<1>3. Cardinality(powers) \in Nat /\ Cardinality(powers) <= 9
  BY <1>1, <1>2, FS_Subset, FS_CardinalityType
<1>4. Width(n) \in 1 .. 10
  BY <1>3 DEF Width
<1>5. ASSUME NEW i \in 1 .. Width(n)
      PROVE  DigitChar[((n \div TenTo[Width(n) - i + 1]) % 10) + 1] \in Digit
  <2>1. Width(n) - i + 1 \in 1 .. 10
    BY <1>4
  <2>2. TenTo[Width(n) - i + 1] \in Nat \ {0}
    BY <2>1 DEF TenTo
  <2>3. ASSUME NEW t \in Nat \ {0} PROVE (n \div t) % 10 \in 0 .. 9
    OBVIOUS
  <2>4. ASSUME NEW x \in 0 .. 9 PROVE DigitChar[x + 1] \in Digit
    BY DEF DigitChar, Digit
  <2> QED BY <2>2, <2>3, <2>4
<1>6. Decimal(n) \in [1 .. Width(n) -> Digit]
  BY <1>5 DEF Decimal
<1> QED BY <1>4, <1>6, SeqDef

\* Two prefixes, each followed by digits, are one slug only if the longer is
\* the shorter plus digits.
LEMMA SameSlug ==
    ASSUME NEW S, NEW a \in Seq(S), NEW b \in Seq(S),
           NEW d \in Seq(Digit), NEW e \in Seq(Digit),
           a \o d = b \o e, Len(a) <= Len(b)
    PROVE  DigitsApart(a, b)
<1>1. ASSUME NEW i \in 1 .. Len(a) PROVE b[i] = a[i]
  <2>1. (a \o d)[i] = a[i]
    BY <1>1
  <2>2. i \in 1 .. Len(b) /\ (b \o e)[i] = b[i]
    BY <1>1
  <2> QED BY <2>1, <2>2
<1>2. ASSUME NEW i \in Len(a) + 1 .. Len(b) PROVE b[i] \in Digit
  <2>1. i \in 1 .. Len(b) /\ (b \o e)[i] = b[i]
    BY <1>2
  <2>2. Len(a) + Len(d) = Len(b) + Len(e)
    BY LenProperties, ConcatProperties
  <2>3. i \in Len(a) + 1 .. Len(a) + Len(d)
    BY <1>2, <2>2
  <2>4. (a \o d)[i] = d[i - Len(a)] /\ i - Len(a) \in 1 .. Len(d)
    BY <2>3
  <2>5. d[i - Len(a)] \in Digit
    BY <2>4, ElementOfSeq
  <2> QED BY <2>1, <2>4, <2>5
<1> QED BY <1>1, <1>2 DEF DigitsApart

\* "a slug collision silently overwrites published artifacts" (load): with
\* prefixes that are neither equal nor apart by digits, no two slugs of two
\* CAs are the same, at any two generations.
THEOREM SlugsOfAcceptedDiffer ==
    ASSUME NEW S, NEW f,
           \A x \in DOMAIN f.ca : f.ca[x].prefix \in Seq(S),
           Accepted(f),
           NEW x \in DOMAIN f.ca, NEW y \in DOMAIN f.ca, x # y,
           NEW g \in Nat, NEW h \in Nat
    PROVE  SlugText(f.ca[x], g) # SlugText(f.ca[y], h)
<1>1. f.ca[x].prefix # f.ca[y].prefix
  BY DEF Accepted, NamesDistinct
<1>2. /\ ~DigitsApart(f.ca[x].prefix, f.ca[y].prefix)
      /\ ~DigitsApart(f.ca[y].prefix, f.ca[x].prefix)
  BY <1>1 DEF Accepted, PrefixesApart
<1> DEFINE a == f.ca[x].prefix
           b == f.ca[y].prefix
           d == Decimal(g)
           e == Decimal(h)
<1>3. a \in Seq(S) /\ b \in Seq(S) /\ d \in Seq(Digit) /\ e \in Seq(Digit)
  BY DecimalDigits
<1>4. Len(a) <= Len(b) \/ Len(b) <= Len(a)
  BY <1>3, LenProperties
<1>5. SUFFICES ASSUME a \o d = b \o e PROVE FALSE
  BY DEF SlugText
<1> HIDE DEF a, b, d, e
<1>6. CASE Len(a) <= Len(b)
  BY <1>2, <1>3, <1>5, <1>6, SameSlug DEF a, b
<1>7. CASE Len(b) <= Len(a)
  <2>1. DigitsApart(b, a)
    BY <1>3, <1>5, <1>7, SameSlug
  <2> QED BY <1>2, <2>1 DEF a, b
<1> QED BY <1>4, <1>6, <1>7
=============================================================================
