-------------------------- MODULE MakerClientProofs --------------------------
EXTENDS MakerClient, FiniteSetTheorems, SequenceTheorems, WellFoundedInduction, TLAPS

-----------------------------------------------------------------------------
(* Resource amounts.                                                       *)

\* Twice a number, halved.
LEMMA Halves == \A n \in Nat : (2 * n) \div 2 = n
  OBVIOUS

\* A quotient times its divisor does not exceed what was divided.
LEMMA DivFits ==
    ASSUME NEW n \in Nat, NEW k \in Nat \ {0}
    PROVE  /\ n \div k \in Nat
           /\ (n \div k) * k <= n
  OBVIOUS

\* A product of positive numbers is positive.
LEMMA Positive == \A j, k \in Nat \ {0} : j * k \in Nat \ {0}
  OBVIOUS

\* A share of at most one does not exceed the whole.
LEMMA ShareFits ==
    ASSUME NEW n \in Nat, NEW ratio \in Ratios, ratio.num <= ratio.den
    PROVE  Share(n, ratio) \in Nat /\ Share(n, ratio) <= n
  <1> DEFINE a == ratio.num
             b == ratio.den
             m == n * a
  <1>1. a \in Nat /\ b \in Nat \ {0} /\ a <= b
    BY DEF Ratios
  <1>2. m \in Nat /\ m <= n * b
    BY <1>1
  <1>3. m \div b \in Nat /\ (m \div b) * b <= m
    BY <1>1, <1>2, DivFits
  <1> HIDE DEF a, b, m
  <1>4. m \div b <= n
    BY <1>1, <1>2, <1>3
  <1> QED BY <1>3, <1>4 DEF Share, a, b, m

\* The unit tables.
LEMMA UnitsArePositive ==
    /\ Mebi \in Nat \ {0} /\ Gibi \in Nat \ {0}
    /\ \A unit \in DOMAIN MemoryUnits : MemoryUnits[unit] \in Nat \ {0}
    /\ \A unit \in DOMAIN CpuUnits : CpuUnits[unit] \in Nat \ {0}
    /\ MemoryUnits["Gi"] = Gibi /\ MemoryUnits["Mi"] = Mebi
    /\ CpuUnits["none"] = Milli /\ CpuUnits["m"] = 1
    /\ {"Gi", "Mi"} \subseteq DOMAIN MemoryUnits
    /\ {"none", "m"} \subseteq DOMAIN CpuUnits
  <1> USE UnitsAssumption, Positive
  <1>1. Mebi \in Nat \ {0}
    BY DEF Mebi
  <1>2. Gibi \in Nat \ {0}
    BY <1>1 DEF Gibi
  <1>3. /\ Kibi * Gibi \in Nat \ {0} /\ Kilo * Kilo \in Nat \ {0}
        /\ Kilo * Kilo * Kilo \in Nat \ {0} /\ Kilo * Kilo * Kilo * Kilo \in Nat \ {0}
    BY <1>2
  <1> HIDE Positive
  <1> QED BY <1>1, <1>2, <1>3 DEF MemoryUnits, CpuUnits

\* An amount of memory, in bytes.
LEMMA BytesType ==
    ASSUME NEW a, a.halves \in Nat, a.unit \in DOMAIN MemoryUnits
    PROVE  Bytes(a) \in Nat
  <1>1. a.halves \in Nat /\ MemoryUnits[a.unit] \in Nat
    BY UnitsArePositive
  <1>2. a.halves * MemoryUnits[a.unit] \in Nat
    BY <1>1
  <1> QED BY <1>2 DEF Bytes

\* An amount of CPU, in millicores.
LEMMA MillicoresType ==
    ASSUME NEW a, a.halves \in Nat, a.unit \in DOMAIN CpuUnits
    PROVE  Millicores(a) \in Nat
  <1>1. a.halves \in Nat /\ CpuUnits[a.unit] \in Nat
    BY UnitsArePositive
  <1>2. a.halves * CpuUnits[a.unit] \in Nat
    BY <1>1
  <1> QED BY <1>2 DEF Millicores

\* What Amount makes.
LEMMA AmountType ==
    ASSUME NEW n \in Nat, NEW unit
    PROVE  Amount(n, unit).halves \in Nat /\ Amount(n, unit).unit = unit
  BY DEF Amount

\* A whole number of a unit is worth that many times the unit.
LEMMA AmountIsWorth ==
    ASSUME NEW n \in Nat
    PROVE  /\ Bytes(Amount(n, "Gi")) = n * Gibi /\ Bytes(Amount(n, "Mi")) = n * Mebi
           /\ Millicores(Amount(n, "none")) = n * Milli
           /\ Millicores(Amount(n, "m")) = n
  <1>1. ASSUME NEW u \in Nat \ {0}
        PROVE  ((2 * n) * u) \div 2 = n * u
    <2>1. (2 * n) * u = 2 * (n * u) /\ n * u \in Nat
      OBVIOUS
    <2> QED BY <2>1, Halves
  <1>2. Gibi \in Nat \ {0} /\ Mebi \in Nat \ {0} /\ Milli \in Nat \ {0} /\ 1 \in Nat \ {0}
    BY UnitsArePositive, UnitsAssumption
  <1> QED BY <1>1, <1>2, UnitsArePositive DEF Amount, Bytes, Millicores

\* Written as a string, an amount is rounded down, never up.
LEMMA MemoryStringFits ==
    ASSUME NEW bytes \in Nat
    PROVE  Bytes(MemoryString(bytes)) <= bytes
  <1>1. /\ bytes \div Gibi \in Nat /\ (bytes \div Gibi) * Gibi <= bytes
        /\ bytes \div Mebi \in Nat /\ (bytes \div Mebi) * Mebi <= bytes
    BY DivFits, UnitsArePositive
  <1> QED BY <1>1, AmountIsWorth DEF MemoryString

\* The text of a CPU amount, rounded down, is worth no more.
LEMMA CpuStringFits ==
    ASSUME NEW millicores \in Nat
    PROVE  Millicores(CpuString(millicores)) <= millicores
  <1>1. millicores \div Milli \in Nat /\ (millicores \div Milli) * Milli <= millicores
    BY DivFits, UnitsAssumption
  <1> QED BY <1>1, AmountIsWorth DEF CpuString

\* derive_resource_request_from_limit: what is requested is at most the limit,
\* for any limit, any unit and any ratio that is at most one.
THEOREM MemoryRequestFits ==
    ASSUME NEW limit \in Amounts, NEW ratio \in Ratios, ratio.num <= ratio.den,
           limit.unit \in DOMAIN MemoryUnits
    PROVE  Bytes(DeriveMemory(limit, ratio)) <= Bytes(limit)
  <1>1. Bytes(limit) \in Nat
    BY BytesType DEF Amounts
  <1>2. PICK n : n = Share(Bytes(limit), ratio)
    OBVIOUS
  <1>3. n \in Nat /\ n <= Bytes(limit)
    BY <1>1, <1>2, ShareFits
  <1>4. Bytes(MemoryString(n)) <= n /\ DeriveMemory(limit, ratio) = MemoryString(n)
    BY <1>2, <1>3, MemoryStringFits DEF DeriveMemory
  <1>5. Bytes(MemoryString(n)) \in Nat
    <2>1. n \div Gibi \in Nat /\ n \div Mebi \in Nat
      BY <1>3, DivFits, UnitsArePositive
    <2>2. MemoryString(n).halves \in Nat /\ MemoryString(n).unit \in DOMAIN MemoryUnits
      BY <2>1, AmountType, UnitsArePositive DEF MemoryString
    <2> QED BY <2>2, BytesType
  <1> QED BY <1>1, <1>3, <1>4, <1>5

\* The CPU request derived from a limit does not exceed it (derive_cpu_request).
THEOREM CpuRequestFits ==
    ASSUME NEW limit \in Amounts, NEW ratio \in Ratios, ratio.num <= ratio.den,
           limit.unit \in DOMAIN CpuUnits
    PROVE  Millicores(DeriveCpu(limit, ratio)) <= Millicores(limit)
  <1>1. Millicores(limit) \in Nat
    BY MillicoresType DEF Amounts
  <1>2. PICK n : n = Share(Millicores(limit), ratio)
    OBVIOUS
  <1>3. n \in Nat /\ n <= Millicores(limit)
    BY <1>1, <1>2, ShareFits
  <1>4. Millicores(CpuString(n)) <= n /\ DeriveCpu(limit, ratio) = CpuString(n)
    BY <1>2, <1>3, CpuStringFits DEF DeriveCpu
  <1>5. Millicores(CpuString(n)) \in Nat
    <2>1. n \div Milli \in Nat
      BY <1>3, DivFits, UnitsAssumption
    <2>2. CpuString(n).halves \in Nat /\ CpuString(n).unit \in DOMAIN CpuUnits
      BY <1>3, <2>1, AmountType, UnitsArePositive DEF CpuString
    <2> QED BY <2>2, MillicoresType
  <1> QED BY <1>1, <1>3, <1>4, <1>5

-----------------------------------------------------------------------------
(* Names and messages.                                                     *)

\* The greatest of a finite set of positions is what the community operator
\* chooses.
LEMMA MaxIs ==
    ASSUME NEW S \in SUBSET Nat, NEW m \in S, \A i \in S : i <= m
    PROVE  Max(S) = m
  <1>1. \A i \in S : m >= i
    OBVIOUS
  <1>2. \A n \in S : (\A i \in S : n >= i) => n = m
    OBVIOUS
  <1> QED BY <1>1, <1>2 DEF Max

\* Every set of numbers that is not empty has a least one: what the proofs by
\* induction on the length of a name rest on.
LEMMA LeastNumber ==
    ASSUME NEW S \in SUBSET Nat, S # {}
    PROVE  \E n \in S : \A i \in S : n <= i
  <1> DEFINE Less == OpToRel(<, Nat)
  <1>1. \E n \in S : \A i \in S : <<i, n>> \notin Less
    <2>1. IsWellFoundedOn(Less, Nat)
      BY NatLessThanWellFounded
    <2> HIDE DEF Less
    <2> QED BY <2>1, WFMin
  <1>2. PICK n \in S : \A i \in S : <<i, n>> \notin Less
    BY <1>1
  <1>3. ASSUME NEW i \in S, i < n PROVE <<i, n>> \in Less
    BY <1>3 DEF OpToRel
  <1>4. \A i \in S : ~(i < n)
    <2> HIDE DEF Less
    <2> QED BY <1>2, <1>3
  <1> QED BY <1>4

\* The least of a set of positions is what the community operator chooses.
LEMMA MinIs ==
    ASSUME NEW S \in SUBSET Nat, NEW m \in S, \A i \in S : m <= i
    PROVE  Min(S) = m
  <1>1. \A n \in S : (\A i \in S : n <= i) => n = m
    OBVIOUS
  <1> QED BY <1>1 DEF Min

\* A set of positions in a sequence has a first and a last one.
LEMMA MinMax ==
    ASSUME NEW n \in Nat, NEW S \in SUBSET (1 .. n), S # {}
    PROVE  /\ Min(S) \in S /\ Max(S) \in S
           /\ \A i \in S : Min(S) <= i /\ i <= Max(S)
  <1>1. PICK m \in S : \A i \in S : m <= i
    BY LeastNumber
  <1>2. Min(S) = m
    BY <1>1, MinIs
  <1> DEFINE Bounds == {k \in Nat : \A i \in S : i <= k}
  <1>3. n \in Bounds
    OBVIOUS
  <1>4. PICK b \in Bounds : \A k \in Bounds : b <= k
    <2> HIDE DEF Bounds
    <2>1. Bounds \in SUBSET Nat
      BY DEF Bounds
    <2> QED BY <1>3, <2>1, LeastNumber
  <1>5. b \in S
    <2> SUFFICES ASSUME b \notin S PROVE FALSE
      OBVIOUS
    <2>1. \A i \in S : i <= b /\ i # b
      BY <1>4
    <2>2. b # 0 /\ b - 1 \in Nat
      BY <2>1, <1>4
    <2>3. b - 1 \in Bounds
      BY <2>1, <2>2
    <2> QED BY <2>3, <1>4
  <1>6. Max(S) = b
    <2>1. S \in SUBSET Nat /\ \A i \in S : i <= b
      BY <1>4
    <2> HIDE DEF Bounds
    <2> QED BY <1>5, <2>1, MaxIs
  <1> QED BY <1>1, <1>2, <1>4, <1>5, <1>6

\* One step of Kept, given what has been kept before it.
KeptStep(s, kept, i) ==
    IF i = 0 THEN <<>>
    ELSE IF s[i] \in LabelPieces THEN Append(kept[i - 1], s[i]) ELSE kept[i - 1]

\* The recursion of Kept has a solution.
LEMMA KeptSolution ==
    ASSUME NEW s, Len(s) \in Nat
    PROVE  \E kept : kept = [i \in 0 .. Len(s) |-> KeptStep(s, kept, i)]
  <1> DEFINE Solves(kept, n) == kept = [i \in 0 .. n |-> KeptStep(s, kept, i)]
             Bad == {n \in Nat : ~ \E kept : Solves(kept, n)}
  <1>1. Bad = {}
    <2> SUFFICES ASSUME Bad # {} PROVE FALSE
      OBVIOUS
    <2>1. PICK n \in Bad : \A m \in Bad : n <= m
      <3> HIDE DEF Bad
      <3>1. Bad \in SUBSET Nat
        BY DEF Bad
      <3> QED BY <3>1, LeastNumber
    <2>2. n # 0
      <3> SUFFICES ASSUME n = 0 PROVE FALSE
        OBVIOUS
      <3> DEFINE g == [i \in 0 .. 0 |-> <<>>]
      <3>1. Solves(g, 0)
        BY DEF KeptStep
      <3> QED BY <3>1
    <2>3. PICK f : Solves(f, n - 1)
      BY <2>1, <2>2
    <2> DEFINE g == [i \in 0 .. n |-> IF i = n THEN KeptStep(s, f, n) ELSE f[i]]
    <2>4. ASSUME NEW i \in 0 .. n PROVE g[i] = KeptStep(s, g, i)
      <3>1. i # 0 => i - 1 \in 0 .. n - 1 /\ i - 1 \in 0 .. n
        BY <2>2
      <3>2. i # 0 => g[i - 1] = f[i - 1]
        BY <3>1
      <3>3. KeptStep(s, g, i) = KeptStep(s, f, i)
        <4> HIDE DEF g
        <4> QED BY <3>2 DEF KeptStep
      <3>4. i # n => f[i] = KeptStep(s, f, i)
        BY <2>3
      <3> QED BY <3>3, <3>4
    <2>5. Solves(g, n)
      <3>1. g = [i \in 0 .. n |-> g[i]]
        OBVIOUS
      <3> HIDE DEF g
      <3> QED BY <2>4, <3>1
    <2> QED BY <2>1, <2>5
  <1> QED BY <1>1

\* What has been kept of a sequence, piece by piece.
LEMMA KeptIs ==
    ASSUME NEW s, Len(s) \in Nat
    PROVE  \E kept : /\ kept[0] = <<>>
                     /\ \A i \in 1 .. Len(s) : kept[i] = KeptStep(s, kept, i)
                     /\ Kept(s) = kept[Len(s)]
  <1> DEFINE kept == CHOOSE k : k = [i \in 0 .. Len(s) |-> KeptStep(s, k, i)]
  <1>1. kept = [i \in 0 .. Len(s) |-> KeptStep(s, kept, i)]
    <2> DEFINE Solves(k) == k = [i \in 0 .. Len(s) |-> KeptStep(s, k, i)]
    <2>1. \E k : Solves(k)
      BY KeptSolution
    <2> HIDE DEF Solves
    <2>2. Solves(CHOOSE k : Solves(k))
      BY <2>1
    <2> QED BY <2>2 DEF Solves
  <1>2. Kept(s) = kept[Len(s)]
    BY DEF Kept, KeptStep
  <1> HIDE DEF kept
  <1>3. kept[0] = <<>>
    BY <1>1 DEF KeptStep
  <1> QED BY <1>1, <1>2, <1>3

\* What is kept are pieces that a name may have.
LEMMA KeptType ==
    ASSUME NEW s, Len(s) \in Nat
    PROVE  Kept(s) \in Seq(LabelPieces)
  <1>1. PICK kept : /\ kept[0] = <<>>
                    /\ \A i \in 1 .. Len(s) : kept[i] = KeptStep(s, kept, i)
                    /\ Kept(s) = kept[Len(s)]
    BY KeptIs
  <1> DEFINE Bad == {i \in Nat : i <= Len(s) /\ kept[i] \notin Seq(LabelPieces)}
  <1>2. Bad = {}
    <2> SUFFICES ASSUME Bad # {} PROVE FALSE
      OBVIOUS
    <2>1. PICK n \in Bad : \A m \in Bad : n <= m
      <3> HIDE DEF Bad
      <3>1. Bad \in SUBSET Nat
        BY DEF Bad
      <3> QED BY <3>1, LeastNumber
    <2>2. n # 0
      BY <1>1, <2>1, EmptySeq
    <2>3. n - 1 \in Nat /\ n - 1 <= Len(s) /\ ~(n <= n - 1) /\ n \in 1 .. Len(s)
      BY <2>1, <2>2
    <2>4. kept[n - 1] \in Seq(LabelPieces)
      BY <2>1, <2>3
    <2>5. kept[n] = KeptStep(s, kept, n)
      BY <1>1, <2>3
    <2>6. kept[n] \in Seq(LabelPieces)
      <3> HIDE <2>1 DEF Bad
      <3> QED BY <2>2, <2>4, <2>5, AppendProperties DEF KeptStep
    <2> QED BY <2>1, <2>6
  <1> QED BY <1>1, <1>2

\* Of no sequence more is kept than it has.
LEMMA KeptShorter ==
    ASSUME NEW s, Len(s) \in Nat
    PROVE  Len(Kept(s)) <= Len(s)
  <1>1. PICK kept : /\ kept[0] = <<>>
                    /\ \A i \in 1 .. Len(s) : kept[i] = KeptStep(s, kept, i)
                    /\ Kept(s) = kept[Len(s)]
    BY KeptIs
  <1> DEFINE Short(i) == kept[i] \in Seq(LabelPieces) /\ Len(kept[i]) <= i
             Bad == {i \in Nat : i <= Len(s) /\ ~Short(i)}
  <1>2. Bad = {}
    <2> SUFFICES ASSUME Bad # {} PROVE FALSE
      OBVIOUS
    <2>1. PICK n \in Bad : \A m \in Bad : n <= m
      <3> HIDE DEF Bad
      <3>1. Bad \in SUBSET Nat
        BY DEF Bad
      <3> QED BY <3>1, LeastNumber
    <2>2. n # 0
      <3>1. Short(0)
        BY <1>1, EmptySeq
      <3> QED BY <2>1, <3>1
    <2>3. n - 1 \in Nat /\ n - 1 <= Len(s) /\ ~(n <= n - 1) /\ n \in 1 .. Len(s)
      BY <2>1, <2>2
    <2>4. Short(n - 1)
      BY <2>1, <2>3
    <2>5. kept[n] = KeptStep(s, kept, n)
      BY <1>1, <2>3
    <2>6. Short(n)
      <3> DEFINE t == kept[n - 1]
      <3>1. t \in Seq(LabelPieces) /\ Len(t) <= n - 1 /\ Len(t) \in Nat
        BY <2>4, LenProperties
      <3>2. kept[n] = t \/ (s[n] \in LabelPieces /\ kept[n] = Append(t, s[n]))
        BY <2>2, <2>5 DEF KeptStep
      <3> HIDE DEF t
      <3>3. CASE kept[n] = t
        BY <2>3, <3>1, <3>3
      <3>4. CASE s[n] \in LabelPieces /\ kept[n] = Append(t, s[n])
        <4>1. kept[n] \in Seq(LabelPieces) /\ Len(kept[n]) = Len(t) + 1
          BY <3>1, <3>4, AppendProperties
        <4> QED BY <2>3, <3>1, <4>1
      <3> QED BY <3>2, <3>3, <3>4
    <2> QED BY <2>1, <2>6
  <1>3. Short(Len(s))
    BY <1>2
  <1> QED BY <1>1, <1>3

\* Of a sequence that has only such pieces everything is kept.
LEMMA KeptWhole ==
    ASSUME NEW s \in Seq(LabelPieces)
    PROVE  Kept(s) = s
  <1>1. /\ Len(s) \in Nat /\ DOMAIN s = 1 .. Len(s)
        /\ \A i \in 1 .. Len(s) : s[i] \in LabelPieces
    BY LenProperties
  <1>2. PICK kept : /\ kept[0] = <<>>
                    /\ \A i \in 1 .. Len(s) : kept[i] = KeptStep(s, kept, i)
                    /\ Kept(s) = kept[Len(s)]
    BY <1>1, KeptIs
  <1> DEFINE Bad == {i \in Nat : i <= Len(s) /\ kept[i] # SubSeq(s, 1, i)}
  <1>3. Bad = {}
    <2> SUFFICES ASSUME Bad # {} PROVE FALSE
      OBVIOUS
    <2>1. PICK n \in Bad : \A m \in Bad : n <= m
      <3> HIDE DEF Bad
      <3>1. Bad \in SUBSET Nat
        BY DEF Bad
      <3> QED BY <3>1, LeastNumber
    <2>2. SubSeq(s, 1, 0) = <<>>
      BY SubSeqEmpty
    <2>3. n # 0
      BY <1>2, <2>1, <2>2
    <2>4. n - 1 \in Nat /\ n - 1 <= Len(s) /\ ~(n <= n - 1) /\ n \in 1 .. Len(s)
      BY <1>1, <2>1, <2>3
    <2>5. kept[n - 1] = SubSeq(s, 1, n - 1)
      BY <2>1, <2>4
    <2>6. kept[n] = Append(SubSeq(s, 1, n - 1), s[n])
      BY <1>1, <1>2, <2>3, <2>4, <2>5 DEF KeptStep
    <2>7. SubSeq(s, 1, n) = Append(SubSeq(s, 1, n - 1), s[n])
      <3> DEFINE t == SubSeq(s, 1, n - 1)
                 u == SubSeq(s, 1, n)
                 w == Append(t, s[n])
      <3>1. t \in Seq(LabelPieces) /\ Len(t) = n - 1 /\ \A i \in 1 .. n - 1 : t[i] = s[i]
        <4>1. \A i \in 1 .. n - 1 : s[i] \in LabelPieces
          BY <1>1, <2>4
        <4> QED BY <2>4, <4>1, SubSeqProperties
      <3>2. u \in Seq(LabelPieces) /\ Len(u) = n /\ \A i \in 1 .. n : u[i] = s[i]
        <4>1. \A i \in 1 .. n : s[i] \in LabelPieces
          BY <1>1, <2>4
        <4> QED BY <2>4, <4>1, SubSeqProperties
      <3>3. /\ w \in Seq(LabelPieces) /\ Len(w) = n
            /\ \A i \in 1 .. n : w[i] = IF i <= n - 1 THEN t[i] ELSE s[n]
        <4>1. s[n] \in LabelPieces
          BY <1>1, <2>4
        <4> HIDE DEF t
        <4>2. /\ w \in Seq(LabelPieces) /\ Len(w) = Len(t) + 1
              /\ \A i \in 1 .. Len(t) : w[i] = t[i]
              /\ w[Len(t) + 1] = s[n]
          BY <3>1, <4>1, AppendProperties
        <4> QED BY <2>4, <3>1, <4>2
      <3> HIDE DEF t, u, w
      <3>4. \A i \in 1 .. Len(u) : u[i] = w[i]
        BY <2>4, <3>1, <3>2, <3>3
      <3>5. u = w
        BY <3>2, <3>3, <3>4, SeqEqual
      <3> QED BY <3>5 DEF t, u, w
    <2> QED BY <2>1, <2>6, <2>7
  <1>4. SubSeq(s, 1, Len(s)) = s
    <2>1. CASE Len(s) = 0
      BY <1>1, <2>1, EmptySeq, SubSeqEmpty
    <2>2. CASE Len(s) # 0
      BY <1>1, <2>2, SubSeqFull
    <2> QED BY <2>1, <2>2
  <1> QED BY <1>1, <1>2, <1>3, <1>4

\* A label begins and ends with something else than a hyphen, so that trimming
\* leaves it alone.
LEMMA TrimmedWhole ==
    ASSUME NEW s \in Seq(LabelPieces), IsPlain(s)
    PROVE  Trimmed(s) = s
  <1> DEFINE Solid == {i \in DOMAIN s : s[i] # "-"}
  <1>1. Len(s) \in Nat \ {0} /\ DOMAIN s = 1 .. Len(s)
    BY LenProperties, EmptySeq DEF IsPlain
  <1>2. Solid \in SUBSET Nat /\ 1 \in Solid /\ Len(s) \in Solid
    BY <1>1 DEF IsPlain
  <1>3. \A i \in Solid : 1 <= i /\ i <= Len(s)
    BY <1>1
  <1>4. Min(Solid) = 1 /\ Max(Solid) = Len(s)
    <2> HIDE DEF Solid
    <2> QED BY <1>2, <1>3, MinIs, MaxIs
  <1>5. SubSeq(s, 1, Len(s)) = s
    BY <1>1, SubSeqFull
  <1> QED BY <1>2, <1>4, <1>5 DEF Trimmed

\* What trimming leaves of such a sequence is a label, unless it is nothing.
LEMMA TrimmedIsLabel ==
    ASSUME NEW s \in Seq(LabelPieces)
    PROVE  /\ Trimmed(s) \in Seq(LabelPieces)
           /\ Trimmed(s) # <<>> => IsPlain(Trimmed(s))
           /\ Len(Trimmed(s)) <= Len(s)
  <1> DEFINE Solid == {i \in DOMAIN s : s[i] # "-"}
             first == Min(Solid)
             last == Max(Solid)
             t == SubSeq(s, first, last)
  <1>1. /\ Len(s) \in Nat /\ DOMAIN s = 1 .. Len(s)
        /\ \A i \in 1 .. Len(s) : s[i] \in LabelPieces
    BY LenProperties
  <1>2. CASE Solid = {}
    <2>1. Trimmed(s) = <<>> /\ Len(<<>>) = 0 /\ <<>> \in Seq(LabelPieces)
      BY <1>2, EmptySeq DEF Trimmed
    <2> QED BY <1>1, <2>1
  <1>3. CASE Solid # {}
    <2>1. first \in Solid /\ last \in Solid /\ first <= last
      <3>1. Solid \in SUBSET (1 .. Len(s))
        BY <1>1
      <3> HIDE DEF Solid
      <3> QED BY <1>1, <1>3, <3>1, MinMax
    <2>2. first \in 1 .. Len(s) /\ last \in 1 .. Len(s) /\ s[first] # "-" /\ s[last] # "-"
      BY <1>1, <2>1
    <2> HIDE DEF first, last
    <2>3. \A i \in first .. last : s[i] \in LabelPieces
      BY <1>1, <2>2
    <2>4. /\ t \in Seq(LabelPieces) /\ Len(t) = last - first + 1
          /\ \A i \in 1 .. last - first + 1 : t[i] = s[first + i - 1]
      BY <1>1, <2>1, <2>2, <2>3, SubSeqProperties
    <2>5. Trimmed(s) = t
      BY <1>3 DEF Trimmed, first, last
    <2> HIDE DEF t
    <2>6. Len(t) \in Nat \ {0} /\ t[1] = s[first] /\ t[Len(t)] = s[last]
      BY <2>1, <2>2, <2>4
    <2>7. t # <<>> /\ Range(t) \subseteq LabelPieces
      BY <2>4, <2>6, LenProperties, EmptySeq DEF Range
    <2>8. Len(t) <= Len(s)
      BY <1>1, <2>2, <2>4
    <2> QED BY <2>2, <2>4, <2>5, <2>6, <2>7, <2>8 DEF IsPlain
  <1> QED BY <1>2, <1>3

\* Whatever the user calls a container, the name is made one that is built like
\* a label and is no longer than it was; one that is built so is left alone.
THEOREM SanitizedIsLabel ==
    ASSUME NEW name \in Seq(Pieces)
    PROVE  /\ Sanitize(name) \in Seq(LabelPieces)
           /\ IsPlain(Sanitize(name))
           /\ name # <<>> => Len(Sanitize(name)) <= Len(name)
           /\ IsPlain(name) => Sanitize(name) = name
  <1> DEFINE h == [i \in DOMAIN name |-> Hyphenated(name[i])]
  <1>0. /\ Len(name) \in Nat /\ DOMAIN name = 1 .. Len(name)
        /\ name = [i \in DOMAIN name |-> name[i]]
    BY LenProperties
  <1>1. Len(h) = Len(name)
    BY <1>0
  <1>2. Sanitize(name) = IF Trimmed(Kept(h)) = <<>> THEN Fallback ELSE Trimmed(Kept(h))
    BY DEF Sanitize
  <1>3. /\ Sanitize(name) \in Seq(LabelPieces)
        /\ IsPlain(Sanitize(name))
        /\ name # <<>> => Len(Sanitize(name)) <= Len(name)
    <2> HIDE DEF h
    <2>1. /\ Kept(h) \in Seq(LabelPieces) /\ Len(Kept(h)) <= Len(name)
          /\ Len(Kept(h)) \in Nat
      BY <1>0, <1>1, KeptType, KeptShorter, LenProperties
    <2> DEFINE t == Trimmed(Kept(h))
    <2>2. /\ t \in Seq(LabelPieces) /\ Len(t) <= Len(Kept(h))
          /\ t # <<>> => IsPlain(t)
      BY <2>1, TrimmedIsLabel
    <2>3. Len(t) \in Nat
      BY <2>2, LenProperties
    <2>4. Fallback \in Seq(LabelPieces) /\ IsPlain(Fallback) /\ Len(Fallback) = 1
      BY DEF Fallback, IsPlain, LabelPieces, Alphanumeric, Range
    <2>5. Sanitize(name) = IF t = <<>> THEN Fallback ELSE t
      BY <1>2
    <2> HIDE DEF t
    <2>6. name # <<>> => 1 <= Len(name)
      BY <1>0, EmptySeq
    <2>7. Len(t) <= Len(name)
      BY <1>0, <2>1, <2>2, <2>3
    <2> QED BY <1>0, <2>2, <2>4, <2>5, <2>6, <2>7
  <1>4. ASSUME IsPlain(name) PROVE Sanitize(name) = name
    <2>1. name \in Seq(LabelPieces)
      <3>1. \A i \in DOMAIN name : name[i] \in LabelPieces
        BY <1>4 DEF IsPlain, Range
      <3> QED BY <1>0, <3>1
    <2>2. h = name
      <3>1. \A p \in LabelPieces : Hyphenated(p) = p
        BY DEF Hyphenated, LabelPieces, Alphanumeric
      <3>2. \A i \in DOMAIN name : name[i] \in LabelPieces
        BY <1>4 DEF IsPlain, Range
      <3> QED BY <1>0, <3>1, <3>2
    <2> HIDE DEF h
    <2>3. Trimmed(Kept(h)) = name
      BY <1>4, <2>1, <2>2, KeptWhole, TrimmedWhole
    <2> QED BY <1>2, <1>4, <2>3 DEF IsPlain
  <1> QED BY <1>3, <1>4

\* The least of one.
LEMMA MinOfOne == \A i \in Nat : Min({i}) = i
  BY DEF Min

\* The last hyphen of a sequence is the one after which there is no other.
LEMMA PartsOf ==
    ASSUME NEW S, NEW name \in Seq(S), NEW part \in S, "-" \in S, part # "-",
           NEW s, s = name \o <<"-", part>>
    PROVE  /\ Hyphens(s) # {}
           /\ Before(s) = name
           /\ LastPart(s) = <<part>>
  <1> DEFINE n == Len(name)
  <1>1. <<"-", part>> \in Seq(S) /\ Len(<<"-", part>>) = 2
    OBVIOUS
  <1>2. n \in Nat
    BY LenProperties
  <1>3. /\ s \in Seq(S) /\ Len(s) = n + 2 /\ DOMAIN s = 1 .. n + 2
        /\ \A i \in 1 .. n : s[i] = name[i]
        /\ s[n + 1] = "-" /\ s[n + 2] = part
    <2>1. /\ s \in Seq(S) /\ Len(s) = n + 2
          /\ \A i \in 1 .. n + 2 : s[i] = IF i <= n THEN name[i] ELSE <<"-", part>>[i - n]
      BY <1>1, ConcatProperties
    <2>2. DOMAIN s = 1 .. n + 2
      BY <2>1, LenProperties
    <2> QED BY <1>2, <2>1, <2>2
  <1> HIDE DEF n
  <1>4. /\ Hyphens(s) \in SUBSET Nat
        /\ n + 1 \in Hyphens(s) /\ \A i \in Hyphens(s) : i <= n + 1
    BY <1>2, <1>3 DEF Hyphens
  <1>5. Max(Hyphens(s)) = n + 1
    BY <1>4, MaxIs
  <1>6. /\ 1 \in Int /\ n \in Int /\ n + 2 \in Int
        /\ (n + 1) - 1 = n /\ (n + 1) + 1 = n + 2
        /\ (n + 2) - (n + 2) + 1 = 1 /\ n - 1 + 1 = n
    BY <1>2
  <1>7. Hyphens(s) # {}
    BY <1>4
  <1>8. Before(s) = SubSeq(s, 1, n) /\ LastPart(s) = SubSeq(s, n + 2, n + 2)
    <2>1. Before(s) = SubSeq(s, 1, (n + 1) - 1)
      BY <1>5, <1>7 DEF Before
    <2>2. LastPart(s) = SubSeq(s, (n + 1) + 1, n + 2)
      BY <1>3, <1>5, <1>7 DEF LastPart
    <2> QED BY <1>6, <2>1, <2>2
  <1>9. Before(s) = name
    <2>1. CASE n = 0
      <3>1. name = <<>> /\ SubSeq(s, 1, n) = <<>>
        BY <1>6, <2>1, SubSeqEmpty DEF n
      <3> QED BY <1>8, <3>1
    <2>2. CASE n # 0
      <3>1. 1 \in 1 .. n /\ n \in 1 .. n
        BY <1>2, <2>2
      <3>2. SubSeq(s, 1, n) = SubSeq(name, 1, n)
        BY <1>1, <3>1, SubSeqOfConcat1 DEF n
      <3> QED BY <1>8, <3>2, SubSeqFull DEF n
    <2> QED BY <2>1, <2>2
  <1>10. LastPart(s) = <<part>>
    <2> DEFINE t == <<"-", part>>
    <2>1. n + 2 \in n + 1 .. n + Len(t) /\ (n + 2) - n = 2
      BY <1>1, <1>2
    <2>2. t \in Seq(S) /\ 2 \in 1 .. Len(t) /\ 2 \in 2 .. Len(t) /\ t[2] = part
      BY <1>1
    <2> HIDE DEF t
    <2>3. SubSeq(s, n + 2, n + 2) = SubSeq(t, 2, 2)
      BY <2>1, <2>2, SubSeqOfConcat2 DEF n, t
    <2>4. SubSeq(t, 2, 2) = SubSeq(t, 2, 1) \o <<part>>
      BY <2>2, SubSeqRecursiveSecond
    <2>5. SubSeq(t, 2, 1) = <<>>
      BY SubSeqEmpty
    <2>6. <<part>> \in Seq(S)
      OBVIOUS
    <2> QED BY <1>8, <2>3, <2>4, <2>5, <2>6, ConcatEmptySeq
  <1> QED BY <1>7, <1>9, <1>10

\* What container-maker appends to a name, the suffix stripping takes off
\* again, whatever the name is, one that looks suffixed included.
THEOREM SuffixComesOff ==
    ASSUME NEW name \in Seq(Pieces), NEW kind \in Suffixes
    PROVE  Recovered(Named(name, kind)) = name
  <1> DEFINE S == Pieces \cup Suffixes
             s == Named(name, kind)
  <1>1. /\ name \in Seq(S) /\ "-" \in S /\ "-" \notin Suffixes
        /\ {"pod", "1", "-"} \subseteq S
    BY SeqMonotonic DEF Pieces, LabelPieces, Suffixes, Alphanumeric
  <1>2. CASE kind = "pod"
    <2> DEFINE stem == name \o <<"-", "pod">>
    <2>1. stem \in Seq(S)
      <3>1. <<"-", "pod">> \in Seq(S)
        BY <1>1
      <3> QED BY <1>1, <3>1, ConcatProperties
    <2>4. Before(stem) = name
      <3> HIDE DEF S
      <3> QED BY <1>1, PartsOf
    <2>2. s = stem \o <<"-", "1">>
      BY <1>2 DEF Named
    <2>3. Hyphens(s) # {} /\ Before(s) = stem /\ LastPart(s) = <<"1">>
      <3> HIDE DEF S, s, stem
      <3> QED BY <1>1, <2>1, <2>2, PartsOf
    <2>5. IsDigits(<<"1">>)
      BY DEF IsDigits, Range
    <2> QED BY <2>3, <2>4, <2>5 DEF Recovered
  <1>3. CASE kind # "pod"
    <2>1. s = name \o <<"-", kind>>
      BY <1>3 DEF Named
    <2>2. Hyphens(s) # {} /\ Before(s) = name /\ LastPart(s) = <<kind>>
      <3>1. kind \in S /\ kind # "-"
        BY <1>1
      <3> HIDE DEF S, s
      <3> QED BY <1>1, <2>1, <3>1, PartsOf
    <2>3. ~IsDigits(<<kind>>)
      BY DEF IsDigits, Range, Suffixes
    <2> QED BY <2>2, <2>3 DEF Recovered
  <1> QED BY <1>2, <1>3

\* A message says quota whenever the body of the error does.
LEMMA TheOnlyOne ==
    ASSUME NEW S, NEW s \in Seq(S), NEW B \in SUBSET DOMAIN s, NEW i \in B,
           Cardinality(B) = 1
    PROVE  Min(B) = i
  <1>1. DOMAIN s = 1 .. Len(s) /\ Len(s) \in Nat /\ i \in Nat
    BY LenProperties
  <1>2. IsFiniteSet(1 .. Len(s))
    BY <1>1, FS_Interval
  <1>3. IsFiniteSet(B)
    BY <1>1, <1>2, FS_Subset
  <1>4. PICK j : B = {j}
    BY <1>3, FS_Singleton
  <1>5. B = {i}
    BY <1>4
  <1> QED BY <1>1, <1>5, MinOfOne

\* A body that names the quota is found in the error, whatever surrounds it.
LEMMA QuotaIsFound ==
    ASSUME NEW raw \in Seq(RawPieces), "quota body" \in Range(raw)
    PROVE  CleanMessage(raw) = "quota"
  <1>1. PICK i \in DOMAIN raw : raw[i] = "quota body"
    BY DEF Range
  <1>2. i \in Braced(raw) /\ Braced(raw) \in SUBSET DOMAIN raw
    BY <1>1 DEF Braced
  <1>3. Cardinality(Braced(raw)) = 1 => Min(Braced(raw)) = i
    <2> HIDE <1>1
    <2> QED BY <1>2, TheOnlyOne
  <1>4. Cardinality(Braced(raw)) = 1 => raw[Min(Braced(raw))] # "body"
    BY <1>1, <1>3
  <1>5. Range(raw) \cap {"quota text", "quota body"} # {}
    OBVIOUS
  <1> QED BY <1>4, <1>5 DEF CleanMessage

-----------------------------------------------------------------------------
(* The invariant.                                                          *)

Pcs == {"idle", "image", "reading", "called", "answered", "failed"}

Asked == Requests \cup {NoRequest}

Fits == {Fitted(r) : r \in Requests} \cup {NoRequest}

Recoveries == {Recovered(Named(Fitted(r).name, kind)) : r \in Requests, kind \in Suffixes}

Call == [pc : Pcs, asks : Asked, certs : Seq(1 .. MaxVersion), sent : Fits,
         answer : Recoveries \cup {<<>>}, raw : Seq(RawPieces),
         message : Messages \cup {"raw", "none"}]

\* The certificates under the keys of one Secret were issued together.
OneVersion(data) ==
    \A j, k \in DOMAIN data : data[j] > 0 /\ data[k] > 0 => data[j] = data[k]

\* A request has connected with what the cache holds, which stays; what it
\* sends is what it was asked for, made to fit; how it failed is what it says.
CallSound(x, held) ==
    /\ Len(x.certs) <= 3
    /\ x.certs # <<>> => held # NoSecret
    /\ \A i \in DOMAIN x.certs : \E k \in DOMAIN held : x.certs[i] = held[k]
    /\ x.pc \in {"idle", "image", "reading"} => x.sent = NoRequest
    /\ x.pc = "image" => x.certs = <<>>
    /\ x.sent # NoRequest => x.asks # NoRequest /\ x.asks.name # <<>>
    /\ x.sent # NoRequest \/ (x.pc = "called" /\ x.asks # NoRequest)
         => x.asks \in Requests /\ x.sent = Fitted(x.asks)
    /\ x.pc = "answered" /\ x.sent # NoRequest
         => \E kind \in Suffixes : x.answer = Recovered(Named(x.sent.name, kind))
    /\ x.pc = "failed" =>
          \/ x.message = CleanMessage(x.raw)
          \/ x.message = "raw" /\ x.raw = <<"text">> /\ x.certs = <<>>

SecretsInv ==
    /\ secret \in Data \cup {NoSecret} /\ OneVersion(secret)
    /\ cache \in Data \cup {NoSecret} /\ OneVersion(cache)
    /\ issued \in 0 .. MaxVersion
    /\ job \in {"none", "running", "succeeded", "failed", "expired"}

CallsInv ==
    /\ call \in [Calls -> Call]
    /\ \A c \in Calls : CallSound(call[c], cache)

IInv == SecretsInv /\ CallsInv

-----------------------------------------------------------------------------
(* The records of the requests in flight.                                  *)

\* One field of a call changes.
LEMMA CallSets ==
    ASSUME NEW x \in Call
    PROVE  /\ \A pc \in Pcs : [x EXCEPT !.pc = pc] \in Call
           /\ \A asks \in Asked : [x EXCEPT !.asks = asks] \in Call
           /\ \A certs \in Seq(1 .. MaxVersion) : [x EXCEPT !.certs = certs] \in Call
           /\ \A sent \in Fits : [x EXCEPT !.sent = sent] \in Call
           /\ \A answer \in Recoveries \cup {<<>>} : [x EXCEPT !.answer = answer] \in Call
           /\ \A raw \in Seq(RawPieces) : [x EXCEPT !.raw = raw] \in Call
           /\ \A message \in Messages \cup {"raw", "none"} : [x EXCEPT !.message = message] \in Call
  BY DEF Call

\* What a cleaned message may be.
LEMMA CleanMessageType == \A raw : CleanMessage(raw) \in Messages
  BY DEF CleanMessage, Messages

\* A call that has not begun.
LEMMA IdleSound == Idle \in Call /\ \A held : CallSound(Idle, held)
  <1>1. "idle" \in Pcs /\ NoRequest \in Asked /\ NoRequest \in Fits
    BY DEF Pcs, Asked, Fits
  <1>2. <<>> \in Seq(1 .. MaxVersion) /\ <<>> \in Seq(RawPieces)
    OBVIOUS
  <1>3. Idle \in Call
    BY <1>1, <1>2 DEF Idle, Call
  <1>4. /\ Idle.pc = "idle" /\ Idle.certs = <<>> /\ Idle.sent = NoRequest
    BY DEF Idle
  <1>5. Len(<<>>) = 0 /\ DOMAIN <<>> = {}
    OBVIOUS
  <1> QED BY <1>3, <1>4, <1>5 DEF CallSound

\* A request that fails, wherever it was.
LEMMA FailedSound ==
    ASSUME NEW x \in Call, NEW held, CallSound(x, held), NEW raw \in Seq(RawPieces), NEW y,
           y = [x EXCEPT !.pc = "failed", !.raw = raw, !.message = CleanMessage(raw)]
    PROVE  y \in Call /\ CallSound(y, held)
  <1>1. PICK u : u = [x EXCEPT !.pc = "failed"]
    OBVIOUS
  <1>2. PICK v : v = [u EXCEPT !.raw = raw]
    OBVIOUS
  <1>3. y = [v EXCEPT !.message = CleanMessage(raw)]
    BY <1>1, <1>2
  <1>4. u \in Call
    BY <1>1, CallSets DEF Pcs
  <1>5. v \in Call
    BY <1>2, <1>4, CallSets
  <1>6. y \in Call
    BY <1>3, <1>5, CallSets, CleanMessageType
  <1>7. /\ y.pc = "failed" /\ y.raw = raw /\ y.message = CleanMessage(raw)
        /\ y.certs = x.certs /\ y.asks = x.asks /\ y.sent = x.sent
    BY <1>1, <1>2, <1>3, <1>4, <1>5 DEF Call
  <1> QED BY <1>6, <1>7 DEF CallSound

-----------------------------------------------------------------------------
(* The Secret and its cache.                                               *)

\* The three reads of a request.
LEMMA OrderIs ==
    /\ Len(Order) = 3 /\ \A i \in 1 .. 3 : Order[i] \in Range(Order)
    /\ DOMAIN NoSecret = {} /\ OneVersion(NoSecret)
  <1>1. Len(Order) = 3 /\ DOMAIN Order = 1 .. 3
    BY DEF Order
  <1>2. DOMAIN NoSecret = {}
    BY DEF NoSecret
  <1> QED BY <1>1, <1>2 DEF Range, OneVersion

\* Whoever has read nothing is content with any cache.
LEMMA SoundStays ==
    ASSUME NEW x \in Call, NEW held, CallSound(x, NoSecret)
    PROVE  CallSound(x, held)
  <1>1. x.certs = <<>> /\ DOMAIN <<>> = {}
    BY DEF CallSound
  <1> QED BY <1>1 DEF CallSound

\* A step of one request, which may fill the cache.
LEMMA OneCallMoves ==
    ASSUME IInv, NEW c \in Calls, NEW y \in Call, Becomes(c, y), CallSound(y, cache'),
           UNCHANGED <<secret, issued, job>>,
           \/ UNCHANGED cache
           \/ cache = NoSecret /\ cache' = secret
    PROVE  IInv'
  <1>1. SecretsInv'
    BY DEF IInv, SecretsInv
  <1>2. call \in [Calls -> Call] /\ call' = [call EXCEPT ![c] = y]
    BY DEF IInv, CallsInv, Becomes
  <1>3. call' \in [Calls -> Call]
    BY <1>2
  <1>4. ASSUME NEW e \in Calls PROVE CallSound(call'[e], cache')
    <2>1. CASE e = c
      BY <1>2, <2>1
    <2>2. CASE e # c
      <3>1. call'[e] = call[e] /\ call[e] \in Call /\ CallSound(call[e], cache)
        BY <1>2, <2>2 DEF IInv, CallsInv
      <3> QED BY <3>1, SoundStays
    <2> QED BY <2>1, <2>2
  <1> QED BY <1>1, <1>3, <1>4 DEF IInv, CallsInv

\* The Secret changes; the cache does not notice.
LEMMA SecretMoves ==
    ASSUME IInv, UNCHANGED <<cache, call>>,
           secret' \in Data \cup {NoSecret}, OneVersion(secret'), issued' \in 0 .. MaxVersion,
           job' \in {"none", "running", "succeeded", "failed", "expired"}
    PROVE  IInv'
  BY DEF IInv, SecretsInv, CallsInv

\* The keys of an issue of the Secret have one version.
LEMMA IssuedTogether ==
    ASSUME issued \in 0 .. MaxVersion, NEW keys \in SUBSET Range(Order), Issues(keys)
    PROVE  secret' \in Data /\ OneVersion(secret') /\ issued' \in 0 .. MaxVersion
  <1>1. issued + 1 \in 0 .. MaxVersion /\ 0 \in 0 .. MaxVersion /\ issued' = issued + 1
    BY VersionsAssumption DEF Issues
  <1>2. secret' = [k \in Range(Order) |-> IF k \in keys THEN issued + 1 ELSE 0]
    BY DEF Issues
  <1> QED BY <1>1, <1>2 DEF Data, OneVersion

\* The cluster's and the poll's steps keep the invariant.
LEMMA ClusterKeeps ==
    ASSUME IInv,
           \/ Provision \/ SecretDeleted \/ CreateJob \/ JobSucceeds \/ JobFails
           \/ JobExpires \/ PollStops
    PROVE  IInv'
  <1>1. /\ secret \in Data \cup {NoSecret} /\ OneVersion(secret)
        /\ issued \in 0 .. MaxVersion
        /\ job \in {"none", "running", "succeeded", "failed", "expired"}
    BY DEF IInv, SecretsInv
  <1>2. CASE Provision
    <2>1. PICK keys \in SUBSET Range(Order) : Issues(keys)
      BY <1>2 DEF Provision
    <2>2. secret' \in Data /\ OneVersion(secret') /\ issued' \in 0 .. MaxVersion
      BY <1>1, <2>1, IssuedTogether
    <2> QED BY <1>1, <1>2, <2>2, SecretMoves DEF Provision
  <1>3. CASE SecretDeleted
    BY <1>1, <1>3, OrderIs, SecretMoves DEF SecretDeleted
  <1>4. CASE JobSucceeds
    <2>1. secret' \in Data \cup {NoSecret} /\ OneVersion(secret') /\ issued' \in 0 .. MaxVersion
      BY <1>1, <1>4, IssuedTogether DEF JobSucceeds
    <2> QED BY <1>4, <2>1, SecretMoves DEF JobSucceeds
  <1>5. CASE CreateJob \/ JobFails \/ JobExpires \/ PollStops
    BY <1>1, <1>5, SecretMoves DEF CreateJob, JobFails, JobExpires, PollStops
  <1> QED BY <1>2, <1>3, <1>4, <1>5

-----------------------------------------------------------------------------
(* The steps of a request.                                                 *)

\* A request begins.
LEMMA BeginKeeps ==
    ASSUME IInv, NEW c \in Calls, Begin(c)
    PROVE  IInv'
  <1>1. PICK r \in Asked, first \in {"image", "reading"} :
           Becomes(c, [Idle EXCEPT !.pc = first, !.asks = r])
    BY DEF Begin, Asked
  <1>2. PICK u : u = [Idle EXCEPT !.pc = first]
    OBVIOUS
  <1>3. PICK y : y = [u EXCEPT !.asks = r]
    OBVIOUS
  <1>4. Becomes(c, y)
    BY <1>1, <1>2, <1>3
  <1>5. u \in Call
    BY <1>2, IdleSound, CallSets DEF Pcs
  <1>6. y \in Call
    BY <1>3, <1>5, CallSets
  <1>7. y.pc \in {"image", "reading"} /\ y.certs = <<>> /\ y.sent = NoRequest
    <2>1. Idle.certs = <<>> /\ Idle.sent = NoRequest
      BY DEF Idle
    <2> QED BY <1>2, <1>3, <1>5, <2>1, IdleSound DEF Call
  <1>8. CallSound(y, cache')
    <2>1. Len(<<>>) = 0 /\ DOMAIN <<>> = {}
      OBVIOUS
    <2> QED BY <1>7, <2>1 DEF CallSound
  <1> QED BY <1>4, <1>6, <1>8, OneCallMoves DEF Begin

\* A request fails, at whichever call.
LEMMA FailsKeeps ==
    ASSUME IInv, NEW c \in Calls, NEW raw \in Seq(RawPieces), FailsWith(c, raw),
           UNCHANGED <<secret, issued, job>>,
           \/ UNCHANGED cache
           \/ cache = NoSecret /\ cache' = secret
    PROVE  IInv'
  <1>1. call[c] \in Call /\ CallSound(call[c], cache')
    <2>1. call[c] \in Call /\ CallSound(call[c], cache)
      BY DEF IInv, CallsInv
    <2> QED BY <2>1, SoundStays
  <1>2. PICK y : y = [call[c] EXCEPT !.pc = "failed", !.raw = raw,
                                     !.message = CleanMessage(raw)]
    OBVIOUS
  <1>3. y \in Call /\ CallSound(y, cache')
    BY <1>1, <1>2, FailedSound
  <1>4. Becomes(c, y)
    BY <1>2 DEF FailsWith
  <1> QED BY <1>3, <1>4, OneCallMoves

\* The base image has been looked up.
LEMMA ImageKeeps ==
    ASSUME IInv, NEW c \in Calls, ImageFound(c) \/ ImageMissing(c)
    PROVE  IInv'
  <1>1. /\ call[c] \in Call /\ CallSound(call[c], cache) /\ call[c].pc = "image"
        /\ UNCHANGED <<secret, cache, issued, job>>
    BY DEF IInv, CallsInv, ImageFound, ImageMissing
  <1>2. call[c].certs = <<>> /\ call[c].sent = NoRequest /\ DOMAIN <<>> = {} /\ Len(<<>>) = 0
    BY <1>1 DEF CallSound
  <1>3. CASE ImageFound(c)
    <2>1. PICK y : y = [call[c] EXCEPT !.pc = "reading"]
      OBVIOUS
    <2>2. y \in Call
      BY <1>1, <2>1, CallSets DEF Pcs
    <2>3. y.pc = "reading" /\ y.certs = <<>> /\ y.sent = NoRequest
      BY <1>1, <1>2, <2>1 DEF Call
    <2>4. CallSound(y, cache')
      BY <1>2, <2>3 DEF CallSound
    <2> QED BY <1>1, <1>3, <2>1, <2>2, <2>4, OneCallMoves DEF ImageFound
  <1>4. CASE ImageMissing(c)
    <2>1. PICK u : u = [call[c] EXCEPT !.pc = "failed"]
      OBVIOUS
    <2>2. PICK v : v = [u EXCEPT !.raw = <<"text">>]
      OBVIOUS
    <2>3. PICK y : y = [v EXCEPT !.message = "raw"]
      OBVIOUS
    <2>4. Becomes(c, y)
      BY <1>4, <2>1, <2>2, <2>3 DEF ImageMissing
    <2>5. u \in Call
      BY <1>1, <2>1, CallSets DEF Pcs
    <2>6. v \in Call
      <3>1. <<"text">> \in Seq(RawPieces)
        BY DEF RawPieces
      <3> QED BY <2>2, <2>5, <3>1, CallSets
    <2>7. y \in Call
      BY <2>3, <2>6, CallSets
    <2>8. /\ y.pc = "failed" /\ y.raw = <<"text">> /\ y.message = "raw"
          /\ y.certs = <<>> /\ y.sent = NoRequest
      BY <1>1, <1>2, <2>1, <2>2, <2>3, <2>5, <2>6 DEF Call
    <2>9. CallSound(y, cache')
      BY <1>2, <2>8 DEF CallSound
    <2> QED BY <1>1, <2>4, <2>7, <2>9, OneCallMoves
  <1> QED BY <1>3, <1>4

\* One of the three reads.
LEMMA GetSecretKeeps ==
    ASSUME IInv, NEW c \in Calls, GetSecret(c)
    PROVE  IInv'
  <1>1. /\ cache' # NoSecret /\ cache' \in Data
        /\ \/ UNCHANGED cache
           \/ cache = NoSecret /\ cache' = secret
    BY DEF GetSecret, IInv, SecretsInv
  <1>2. UNCHANGED <<secret, issued, job>>
    BY DEF GetSecret
  <1>3. call[c] \in Call /\ CallSound(call[c], cache')
    <2>1. call[c] \in Call /\ CallSound(call[c], cache)
      BY DEF IInv, CallsInv
    <2> QED BY <1>1, <2>1, SoundStays
  <1>4. PICK k : k = NextKey(c)
    OBVIOUS
  <1>5. /\ call[c].certs \in Seq(1 .. MaxVersion)
        /\ Len(call[c].certs) + 1 \in 1 .. 3
    <2>1. call[c].certs \in Seq(1 .. MaxVersion)
      BY <1>3 DEF Call
    <2>2. PICK n : n = Len(call[c].certs)
      OBVIOUS
    <2>3. n \in Nat
      BY <2>1, <2>2, LenProperties
    <2>4. n < 3
      BY <2>2, OrderIs DEF GetSecret, MoreKeys
    <2>5. n + 1 \in 1 .. 3
      BY <2>3, <2>4
    <2> QED BY <2>1, <2>2, <2>5
  <1>6. k \in Range(Order) /\ cache'[k] \in 0 .. MaxVersion /\ DOMAIN cache' = Range(Order)
    <2>1. k \in Range(Order)
      BY <1>4, <1>5, OrderIs DEF NextKey
    <2> QED BY <1>1, <2>1 DEF Data
  <1>7. CASE cache'[k] = 0
    <2>1. FailsWith(c, <<"text">>)
      BY <1>4, <1>7 DEF GetSecret, ReadKey
    <2>2. <<"text">> \in Seq(RawPieces)
      BY DEF RawPieces
    <2> QED BY <1>1, <1>2, <2>1, <2>2, FailsKeeps
  <1>8. CASE cache'[k] # 0
    <2>1. PICK v : v = cache'[k]
      OBVIOUS
    <2>2. PICK certs : certs = Append(call[c].certs, v)
      OBVIOUS
    <2>3. PICK y : y = [call[c] EXCEPT !.certs = certs]
      OBVIOUS
    <2>4. Becomes(c, y)
      BY <1>4, <1>8, <2>1, <2>2, <2>3 DEF GetSecret, ReadKey
    <2>5. /\ v \in 1 .. MaxVersion
          /\ certs \in Seq(1 .. MaxVersion)
          /\ Len(certs) = Len(call[c].certs) + 1 /\ certs # <<>>
          /\ \A i \in DOMAIN certs : certs[i] = v \/ (i \in DOMAIN call[c].certs
                                                       /\ certs[i] = call[c].certs[i])
      BY <1>5, <1>6, <1>8, <2>1, <2>2
    <2>6. y \in Call
      BY <1>3, <2>3, <2>5, CallSets
    <2>7. /\ y.certs = certs /\ y.pc = call[c].pc /\ y.sent = call[c].sent
          /\ y.asks = call[c].asks /\ y.answer = call[c].answer
          /\ y.raw = call[c].raw /\ y.message = call[c].message
      BY <1>3, <2>3 DEF Call
    <2>8. /\ Len(certs) <= 3
          /\ \A i \in DOMAIN certs : \E j \in DOMAIN cache' : certs[i] = cache'[j]
      <3>1. Len(certs) <= 3
        <4>1. Len(certs) \in 1 .. 3
          BY <1>5, <2>5
        <4>2. \A n \in 1 .. 3 : n <= 3
          OBVIOUS
        <4> QED BY <4>1, <4>2, Zenon
      <3>2. ASSUME NEW i \in DOMAIN certs
            PROVE  \E j \in DOMAIN cache' : certs[i] = cache'[j]
        <4>1. CASE certs[i] = v
          BY <1>6, <2>1, <4>1
        <4>2. CASE i \in DOMAIN call[c].certs /\ certs[i] = call[c].certs[i]
          BY <1>3, <4>2 DEF CallSound
        <4> QED BY <2>5, <4>1, <4>2
      <3> QED BY <3>1, <3>2
    <2>9. CallSound(y, cache')
      <3>1. call[c].pc = "reading"
        BY DEF GetSecret, MoreKeys
      <3>2. y.pc = "reading" /\ y.sent = NoRequest
        BY <1>3, <2>7, <3>1 DEF CallSound
      <3>3. Len(y.certs) <= 3
        BY <2>7, <2>8
      <3>4. \A i \in DOMAIN y.certs : \E j \in DOMAIN cache' : y.certs[i] = cache'[j]
        BY <2>7, <2>8
      <3> HIDE DEF NoRequest
      <3> QED BY <1>1, <3>2, <3>3, <3>4 DEF CallSound
    <2> QED BY <1>1, <1>2, <2>4, <2>6, <2>9, OneCallMoves
  <1> QED BY <1>7, <1>8

\* A request without a pod to ask for sends nothing that has to fit.
LEMMA SendKeeps ==
    ASSUME IInv, NEW c \in Calls, Send(c)
    PROVE  IInv'
  <1>1. call[c] \in Call /\ CallSound(call[c], cache)
    BY DEF IInv, CallsInv
  <1>2. UNCHANGED <<secret, cache, issued, job>> /\ call[c].pc = "reading"
    BY DEF Send, Connected
  <1>3. call[c].sent = NoRequest /\ call[c].asks \in Asked
    BY <1>1, <1>2 DEF CallSound, Call
  <1>4. PICK sent : sent = IF call[c].asks = NoRequest THEN call[c].sent
                           ELSE Fitted(call[c].asks)
    OBVIOUS
  <1>5. PICK u : u = [call[c] EXCEPT !.pc = "called"]
    OBVIOUS
  <1>6. PICK y : y = [u EXCEPT !.sent = sent]
    OBVIOUS
  <1>7. Becomes(c, y)
    BY <1>4, <1>5, <1>6 DEF Send
  <1>8. /\ sent \in Fits
        /\ sent # NoRequest => call[c].asks # NoRequest /\ call[c].asks.name # <<>>
        /\ call[c].asks # NoRequest
             => call[c].asks \in Requests /\ sent = Fitted(call[c].asks)
    BY <1>3, <1>4 DEF Asked, Fits, Send, Nameless
  <1>9. u \in Call
    BY <1>1, <1>5, CallSets DEF Pcs
  <1>10. y \in Call
    BY <1>6, <1>8, <1>9, CallSets
  <1>11. /\ y.pc = "called" /\ y.sent = sent /\ y.certs = call[c].certs
         /\ y.asks = call[c].asks
    BY <1>1, <1>5, <1>6, <1>9 DEF Call
  <1>12. CallSound(y, cache')
    <2>1. cache' = cache
      BY <1>2
    <2>2. /\ Len(y.certs) <= 3
          /\ y.certs # <<>> => cache' # NoSecret
          /\ \A i \in DOMAIN y.certs : \E k \in DOMAIN cache' : y.certs[i] = cache'[k]
      BY <1>1, <1>11, <2>1 DEF CallSound
    <2>3. /\ y.sent # NoRequest => y.asks # NoRequest /\ y.asks.name # <<>>
          /\ y.asks # NoRequest => y.asks \in Requests /\ y.sent = Fitted(y.asks)
      BY <1>8, <1>11
    <2> QED BY <1>11, <2>2, <2>3 DEF CallSound
  <1> QED BY <1>2, <1>7, <1>10, <1>12, OneCallMoves

\* The answer's name comes back.
LEMMA AnsweredKeeps ==
    ASSUME IInv, NEW c \in Calls, Answered(c)
    PROVE  IInv'
  <1>1. call[c] \in Call /\ CallSound(call[c], cache)
    BY DEF IInv, CallsInv
  <1>2. UNCHANGED <<secret, cache, issued, job>> /\ call[c].pc = "called"
    BY DEF Answered
  <1>3. PICK u : u = [call[c] EXCEPT !.pc = "answered"]
    OBVIOUS
  <1>4. /\ u \in Call /\ u.pc = "answered" /\ u.sent = call[c].sent
        /\ u.certs = call[c].certs /\ u.asks = call[c].asks
    <2>1. u \in Call
      BY <1>1, <1>3, CallSets DEF Pcs
    <2> QED BY <1>1, <1>3, <2>1 DEF Call
  <1>5. CASE call[c].asks = NoRequest
    <2>1. Becomes(c, u)
      BY <1>3, <1>5 DEF Answered
    <2>2. CallSound(u, cache')
      BY <1>1, <1>2, <1>4, <1>5 DEF CallSound
    <2> QED BY <1>2, <1>4, <2>1, <2>2, OneCallMoves
  <1>6. CASE call[c].asks # NoRequest
    <2>1. PICK kind \in Suffixes :
             Becomes(c, [call[c] EXCEPT !.pc = "answered",
                           !.answer = Recovered(Named(call[c].sent.name, kind))])
      BY <1>6 DEF Answered
    <2>2. PICK answer : answer = Recovered(Named(call[c].sent.name, kind))
      OBVIOUS
    <2>3. PICK y : y = [u EXCEPT !.answer = answer]
      OBVIOUS
    <2>4. Becomes(c, y)
      BY <1>3, <2>1, <2>2, <2>3
    <2>5. call[c].asks \in Requests /\ call[c].sent = Fitted(call[c].asks)
      BY <1>1, <1>2, <1>6 DEF CallSound
    <2>6. answer \in Recoveries \cup {<<>>}
      BY <2>2, <2>5 DEF Recoveries
    <2>7. y \in Call
      BY <1>4, <2>3, <2>6, CallSets
    <2>8. /\ y.pc = "answered" /\ y.sent = call[c].sent /\ y.certs = call[c].certs
          /\ y.asks = call[c].asks /\ y.answer = answer
      BY <1>4, <2>3, <2>7 DEF Call
    <2>9. CallSound(y, cache')
      BY <1>1, <1>2, <1>6, <2>2, <2>5, <2>8 DEF CallSound
    <2> QED BY <1>2, <2>4, <2>7, <2>9, OneCallMoves
  <1> QED BY <1>5, <1>6

\* The steps of one request keep the invariant.
LEMMA CallKeeps ==
    ASSUME IInv, NEW c \in Calls, CallStep(c)
    PROVE  IInv'
  <1>1. CASE GetSecretFails(c)
    <2>1. <<"text", "headers", "body", "text">> \in Seq(RawPieces)
      BY DEF RawPieces
    <2> QED BY <1>1, <2>1, FailsKeeps DEF GetSecretFails
  <1>2. CASE Refused(c)
    <2>1. PICK raw \in Raws : FailsWith(c, raw)
      BY <1>2 DEF Refused
    <2>2. raw \in Seq(RawPieces)
      BY RawsAssumption
    <2> QED BY <1>2, <2>1, <2>2, FailsKeeps DEF Refused
  <1>3. CASE Over(c)
    BY <1>3, IdleSound, OneCallMoves DEF Over
  <1>4. CASE NameRefused(c)
    <2>1. <<"text">> \in Seq(RawPieces)
      BY DEF RawPieces
    <2> QED BY <1>4, <2>1, FailsKeeps DEF NameRefused
  <1> QED BY <1>1, <1>2, <1>3, <1>4, BeginKeeps, ImageKeeps, GetSecretKeeps, SendKeeps,
             AnsweredKeeps
          DEF CallStep

\* The server restarts with an empty cache.
LEMMA RestartKeeps ==
    ASSUME IInv, Restart
    PROVE  IInv'
  <1>1. SecretsInv'
    BY OrderIs DEF Restart, IInv, SecretsInv
  <1>2. call' = [c \in Calls |-> Idle]
    BY DEF Restart
  <1>3. CallsInv'
    BY <1>2, IdleSound DEF CallsInv
  <1> QED BY <1>1, <1>3 DEF IInv

\* Whatever is replaced, restarted or fails, what is held of the Secret has one
\* version, and each call is what its request made of it.
THEOREM Invariance == Spec => []IInv
  <1>1. Init => IInv
    <2> SUFFICES ASSUME Init PROVE IInv
      OBVIOUS
    <2>1. SecretsInv
      BY OrderIs, VersionsAssumption DEF Init, SecretsInv
    <2>2. CallsInv
      BY IdleSound DEF Init, CallsInv
    <2> QED BY <2>1, <2>2 DEF IInv
  <1>2. IInv /\ [Next]_vars => IInv'
    <2> SUFFICES ASSUME IInv, [Next]_vars PROVE IInv'
      OBVIOUS
    <2>1. CASE \E c \in Calls : ~Blocked(c) /\ CallStep(c)
      BY <2>1, CallKeeps
    <2>2. CASE UNCHANGED vars
      BY <2>2 DEF vars, IInv, SecretsInv, CallsInv
    <2> QED BY <2>1, <2>2, ClusterKeeps, RestartKeeps DEF Next
  <1> QED BY <1>1, <1>2, PTL DEF Spec

-----------------------------------------------------------------------------
(* What it says.                                                           *)

\* Every variable has its type.
THEOREM TypeCorrect == Spec => []TypeOK
  <1>1. IInv => TypeOK
    <2> SUFFICES ASSUME IInv PROVE TypeOK
      OBVIOUS
    <2>1. /\ secret \in Data \cup {NoSecret} /\ cache \in Data \cup {NoSecret}
          /\ issued \in 0 .. MaxVersion
          /\ job \in {"none", "running", "succeeded", "failed", "expired"}
      BY DEF IInv, SecretsInv
    <2>2. ASSUME NEW c \in Calls
          PROVE  /\ call[c].pc \in {"idle", "image", "reading", "called", "answered", "failed"}
                 /\ call[c].certs \in Seq(1 .. MaxVersion) /\ Len(call[c].certs) <= Len(Order)
                 /\ call[c].message \in Messages \cup {"raw", "none"}
                 /\ call[c].pc = "failed" =>
                       \/ call[c].message \in Messages
                       \/ call[c].message = "raw" /\ call[c].certs = <<>>
      <3>1. call[c] \in Call /\ CallSound(call[c], cache)
        BY DEF IInv, CallsInv
      <3>2. /\ call[c].pc \in {"idle", "image", "reading", "called", "answered", "failed"}
            /\ call[c].certs \in Seq(1 .. MaxVersion)
            /\ call[c].message \in Messages \cup {"raw", "none"}
        BY <3>1 DEF Call, Pcs
      <3>3. Len(call[c].certs) <= Len(Order)
        BY <3>1, OrderIs DEF CallSound
      <3>4. call[c].pc = "failed" =>
               \/ call[c].message \in Messages
               \/ call[c].message = "raw" /\ call[c].certs = <<>>
        BY <3>1, CleanMessageType DEF CallSound
      <3> QED BY <3>2, <3>3, <3>4
    <2> QED BY <2>1, <2>2 DEF TypeOK
  <1> QED BY <1>1, Invariance, PTL

\* However often the Secret is replaced, and by however many writers, a request
\* connects with files that belong together.
THEOREM Together == Spec => []NoMixedCertificates
  <1>1. IInv => NoMixedCertificates
    <2> SUFFICES ASSUME IInv, NEW c \in Calls,
                        NEW i \in DOMAIN call[c].certs, NEW j \in DOMAIN call[c].certs
                 PROVE  call[c].certs[i] = call[c].certs[j]
      BY DEF NoMixedCertificates, Range
    <2>1. /\ call[c] \in Call /\ CallSound(call[c], cache) /\ OneVersion(cache)
      BY DEF IInv, CallsInv, SecretsInv
    <2>2. call[c].certs \in Seq(1 .. MaxVersion)
      BY <2>1 DEF Call
    <2>3. call[c].certs[i] > 0 /\ call[c].certs[j] > 0
      <3>1. call[c].certs[i] \in 1 .. MaxVersion /\ call[c].certs[j] \in 1 .. MaxVersion
        BY <2>2, LenProperties, ElementOfSeq
      <3>2. \A v \in 1 .. MaxVersion : v > 0
        BY VersionsAssumption
      <3> QED BY <3>1, <3>2
    <2>4. PICK k \in DOMAIN cache : call[c].certs[i] = cache[k]
      BY <2>1 DEF CallSound
    <2>5. PICK m \in DOMAIN cache : call[c].certs[j] = cache[m]
      BY <2>1 DEF CallSound
    <2> QED BY <2>1, <2>3, <2>4, <2>5 DEF OneVersion
  <1> QED BY <1>1, Invariance, PTL

\* For any units, any limits and any ratio of at most one.
THEOREM Fitting == Spec => []RequestsFit
  <1>1. IInv => RequestsFit
    <2> SUFFICES ASSUME IInv, NEW c \in Calls, call[c].sent # NoRequest
                 PROVE  /\ call[c].asks.memory.unit \in DOMAIN MemoryUnits
                             => Bytes(call[c].sent.memory) <= Bytes(call[c].asks.memory)
                        /\ call[c].asks.cpu.unit \in DOMAIN CpuUnits
                             => Millicores(call[c].sent.cpu) <= Millicores(call[c].asks.cpu)
      BY DEF RequestsFit
    <2>1. PICK r \in Requests : r = call[c].asks /\ call[c].sent = Fitted(r)
      BY DEF IInv, CallsInv, CallSound
    <2>2. /\ call[c].sent.memory = DeriveMemory(r.memory, MemoryRatio)
          /\ call[c].sent.cpu = DeriveCpu(r.cpu, CpuRatio)
      BY <2>1 DEF Fitted
    <2>3. r.memory \in Amounts /\ r.cpu \in Amounts
      BY RequestsAssumption
    <2>4. /\ MemoryRatio \in Ratios /\ MemoryRatio.num <= MemoryRatio.den
          /\ CpuRatio \in Ratios /\ CpuRatio.num <= CpuRatio.den
      BY RatiosAssumption
    <2> QED BY <2>1, <2>2, <2>3, <2>4, MemoryRequestFits, CpuRequestFits
  <1> QED BY <1>1, Invariance, PTL

\* An error of one piece is that piece.
LEMMA RangeOfOne ==
    ASSUME NEW piece
    PROVE  \A x \in Range(<<piece>>) : x = piece
  BY DEF Range

\* The user is told of the quota whenever the body of the error names it.
THEOREM Explained == Spec => []QuotaIsExplained
  <1>1. IInv => QuotaIsExplained
    <2> SUFFICES ASSUME IInv, NEW c \in Calls, call[c].pc = "failed",
                        "quota body" \in Range(call[c].raw)
                 PROVE  call[c].message = "quota"
      BY DEF QuotaIsExplained
    <2>1. call[c] \in Call /\ call[c].message = CleanMessage(call[c].raw)
      <3>1. "quota body" \notin Range(<<"text">>)
        <4>1. PICK piece, other : piece = "text" /\ other = "quota body"
          OBVIOUS
        <4>2. \A x \in Range(<<piece>>) : x = piece
          BY RangeOfOne
        <4>3. piece # other
          BY <4>1
        <4> QED BY <4>1, <4>2, <4>3, Zenon
      <3> QED BY <3>1 DEF IInv, CallsInv, CallSound
    <2>2. PICK raw : raw = call[c].raw
      OBVIOUS
    <2>3. raw \in Seq(RawPieces)
      BY <2>1, <2>2 DEF Call
    <2> QED BY <2>1, <2>2, <2>3, QuotaIsFound
  <1> QED BY <1>1, Invariance, PTL

\* Whatever the user calls the container, and however long, the name that is
\* sent is built like a label, is one that Kubernetes takes if the user's is not
\* too long, is the user's if that needs no change, and is the one that comes back.
THEOREM NameComesBack == Spec => []NamesSurvive
  <1>1. IInv => NamesSurvive
    <2> SUFFICES ASSUME IInv, NEW c \in Calls, call[c].sent # NoRequest
                 PROVE  /\ IsPlain(call[c].sent.name)
                        /\ Len(call[c].asks.name) <= MaxLabel => IsLabel(call[c].sent.name)
                        /\ IsPlain(call[c].asks.name)
                              => call[c].sent.name = call[c].asks.name
                        /\ call[c].pc = "answered" => call[c].answer = call[c].sent.name
      BY DEF NamesSurvive
    <2>1. /\ call[c].asks \in Requests /\ call[c].sent = Fitted(call[c].asks)
          /\ call[c].asks.name # <<>>
          /\ call[c].pc = "answered" => \E kind \in Suffixes :
                call[c].answer = Recovered(Named(call[c].sent.name, kind))
      BY DEF IInv, CallsInv, CallSound
    <2> DEFINE name == call[c].sent.name
               asked == call[c].asks.name
    <2>2. name = Sanitize(asked) /\ asked \in Seq(Pieces) /\ asked # <<>>
      BY <2>1, RequestsAssumption DEF Fitted
    <2>3. /\ name \in Seq(LabelPieces) /\ IsPlain(name)
          /\ Len(name) <= Len(asked)
          /\ IsPlain(asked) => name = asked
      <3> HIDE DEF name, asked
      <3> QED BY <2>2, SanitizedIsLabel
    <2>4. name \in Seq(Pieces)
      <3> HIDE DEF name
      <3> QED BY <2>3, SeqMonotonic DEF Pieces
    <2>5. ASSUME NEW kind \in Suffixes PROVE Recovered(Named(name, kind)) = name
      <3> HIDE DEF name
      <3> QED BY <2>4, SuffixComesOff
    <2>6. Len(asked) <= MaxLabel => IsLabel(name)
      <3>1. Len(asked) \in Nat /\ Len(name) \in Nat /\ MaxLabel \in Nat
        BY <2>2, <2>4, LenProperties, LabelAssumption
      <3> HIDE DEF name, asked
      <3> QED BY <2>3, <3>1 DEF IsLabel
    <2> QED BY <2>1, <2>3, <2>5, <2>6
  <1> QED BY <1>1, Invariance, PTL
=============================================================================
