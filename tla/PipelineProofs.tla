--------------------------- MODULE PipelineProofs ---------------------------
(***************************************************************************)
(* Proofs about the two pipelines of transformers, for any number of       *)
(* families, metrics and labels.                                           *)
(*                                                                         *)
(* Upload: what reaches the upstream is stored under the labels of the     *)
(* token and of the operator (Isolation), with the server's time           *)
(* (ServerTime), and it is all that the whitelist admits (WholeOrNothing). *)
(*                                                                         *)
(* Scrape: what the client sends is accepted by the server                 *)
(* (AcceptedByServer), anonymized (AnonymizedOnce), and it is all that was *)
(* good of what was scraped (NothingLost).                                 *)
(*                                                                         *)
(* The lemmas that both rest on follow a family through the transformers   *)
(* of MetricFamily.  Those that filter are defined with Squeeze, and       *)
(* Squeeze and convertToTimeseries with FlattenSeq, a recursive function:  *)
(* what it returns is proved once (Flattened), by taking the least         *)
(* position at which it would be wrong.                                    *)
(***************************************************************************)
EXTENDS Upload, Scrape, FiniteSetTheorems, NaturalsInduction, WellFoundedInduction, TLAPS

-----------------------------------------------------------------------------
(* Least elements, and what FlattenSeq and Squeeze return. *)

\* Every nonempty set of numbers has a least element. Proofs by induction take
\* the least counterexample.
LEMMA Least ==
  ASSUME NEW T \in SUBSET Nat, T # {}
  PROVE  \E x \in T : \A y \in T : x <= y
<1>1. PICK x \in T : \A y \in T : ~(<<y, x>> \in OpToRel(<, Nat))
  BY NatLessThanWellFounded, WFMin
<1>2. \A y \in T : ~(y < x)
  BY <1>1 DEF OpToRel
<1> QED
  BY <1>2

\* A function on 1..n is a sequence.
LEMMA IsSequence ==
  ASSUME NEW S, NEW n \in Nat, NEW h, h = [i \in 1..n |-> h[i]], \A i \in 1..n : h[i] \in S
  PROVE  h \in Seq(S) /\ Len(h) = n
<1>1. h \in [1..n -> S]
  OBVIOUS
<1> QED
  BY <1>1

\* Concatenation, position by position.
LEMMA Concatenated ==
  ASSUME NEW S, NEW a \in Seq(S), NEW b \in Seq(S), NEW r, r = a \o b
  PROVE  /\ r \in Seq(S) /\ Len(r) = Len(a) + Len(b)
         /\ \A i \in 1..Len(a) : r[i] = a[i]
         /\ \A i \in 1..Len(b) : r[Len(a) + i] = b[i]
OBVIOUS

\* The first n prefixes of a flattened sequence.
FlatPrefixes(f, ss, n) ==
  f = [i \in 1..n |-> IF i = 1 THEN ss[i] ELSE f[i - 1] \o ss[i]]

\* The recursive function of FlattenSeq exists.
LEMMA FlatPrefixesExist ==
  ASSUME NEW S, NEW ss \in Seq(Seq(S))
  PROVE  \E f : FlatPrefixes(f, ss, Len(ss))
<1> DEFINE T == {n \in Nat : n <= Len(ss) /\ ~ \E f : FlatPrefixes(f, ss, n)}
<1>2. SUFFICES ASSUME T # {} PROVE FALSE
  <2>1. Len(ss) \notin T
    BY <1>2
  <2>2. Len(ss) \in Nat /\ Len(ss) <= Len(ss)
    OBVIOUS
  <2> QED
    BY <2>1, <2>2
<1>3. PICK n \in T : \A m \in T : n <= m
  <2> HIDE DEF T
  <2>1. T \in SUBSET Nat
    BY DEF T
  <2> QED
    BY <1>2, <2>1, Least
<1>4. n # 0
  <2>1. FlatPrefixes([i \in 1..0 |-> ss[i]], ss, 0)
    BY DEF FlatPrefixes
  <2>2. \E f : FlatPrefixes(f, ss, 0)
    BY <2>1
  <2> QED
    BY <2>2
<1>5. PICK g : FlatPrefixes(g, ss, n - 1)
  <2>1. n - 1 \in Nat /\ n - 1 <= Len(ss) /\ ~(n <= n - 1)
    BY <1>4
  <2>2. n - 1 \notin T
    BY <1>3, <2>1
  <2> QED
    BY <2>1, <2>2
<1> DEFINE h == [i \in 1..n |-> IF i < n THEN g[i] ELSE IF n = 1 THEN ss[n] ELSE g[n - 1] \o ss[n]]
<1>6. FlatPrefixes(h, ss, n)
  <2>1. \A i \in 1..n : h[i] = IF i = 1 THEN ss[i] ELSE h[i - 1] \o ss[i]
    <3> SUFFICES ASSUME NEW i \in 1..n
                 PROVE  h[i] = IF i = 1 THEN ss[i] ELSE h[i - 1] \o ss[i]
      OBVIOUS
    <3>1. CASE i = n
      BY <3>1
    <3>2. CASE i < n
      <4>1. i \in 1..(n - 1)
        BY <3>2
      <4>2. g[i] = IF i = 1 THEN ss[i] ELSE g[i - 1] \o ss[i]
        BY <1>5, <4>1 DEF FlatPrefixes
      <4> QED
        BY <3>2, <4>2
    <3> QED
      BY <3>1, <3>2
  <2> HIDE DEF h
  <2>2. h = [i \in 1..n |-> h[i]]
    BY DEF h
  <2> QED
    BY <2>1, <2>2 DEF FlatPrefixes
<1>7. \E f : FlatPrefixes(f, ss, n)
  <2> HIDE DEF h
  <2> QED
    BY <1>6
<1> QED
  BY <1>3, <1>7

\* The first n parts of ss are laid end to end in flat, part i behind offset[i].
Laid(flat, offset, ss, n) ==
  /\ \A i \in 1..n : offset[i] \in Nat /\ offset[i] + Len(ss[i]) <= Len(flat)
  /\ \A i, j \in 1..n : i < j => offset[i] + Len(ss[i]) <= offset[j]
  /\ \A i \in 1..n : \A j \in 1..Len(ss[i]) : flat[offset[i] + j] = ss[i][j]
  /\ \A k \in 1..Len(flat) : \E i \in 1..n : \E j \in 1..Len(ss[i]) : k = offset[i] + j

\* One more part is appended.
LEMMA LayOne ==
  ASSUME NEW S, NEW ss \in Seq(Seq(S)), NEW flat \in Seq(S), NEW offset,
         NEW n \in 1..Len(ss), offset[n] = Len(flat), Laid(flat, offset, ss, n - 1)
  PROVE  flat \o ss[n] \in Seq(S) /\ Laid(flat \o ss[n], offset, ss, n)
<1> DEFINE all == flat \o ss[n]
<1>1. /\ ss[n] \in Seq(S) /\ all \in Seq(S) /\ Len(all) = Len(flat) + Len(ss[n])
      /\ \A k \in 1..Len(flat) : all[k] = flat[k]
      /\ \A k \in 1..Len(ss[n]) : all[Len(flat) + k] = ss[n][k]
  OBVIOUS
<1>2. \A i \in 1..n : ss[i] \in Seq(S) /\ Len(ss[i]) \in Nat /\ (i = n \/ i \in 1..(n - 1))
  OBVIOUS
<1>3. Len(flat) \in Nat /\ Len(ss[n]) \in Nat /\ Len(all) = Len(flat) + Len(ss[n])
  OBVIOUS
<1> HIDE DEF all
<1>4. \A i \in 1..n : offset[i] \in Nat /\ offset[i] + Len(ss[i]) <= Len(all)
  <2> SUFFICES ASSUME NEW i \in 1..n
               PROVE  offset[i] \in Nat /\ offset[i] + Len(ss[i]) <= Len(all)
    OBVIOUS
  <2>1. CASE i = n
    <3>1. offset[i] = Len(flat) /\ Len(ss[i]) = Len(ss[n])
      BY <2>1
    <3> QED
      BY <1>3, <3>1
  <2>2. CASE i \in 1..(n - 1)
    <3>1. offset[i] \in Nat /\ offset[i] + Len(ss[i]) <= Len(flat)
      BY <2>2 DEF Laid
    <3>2. Len(ss[i]) \in Nat
      BY <1>2
    <3> QED
      BY <1>3, <3>1, <3>2, SMTT(30)
  <2> QED
    BY <1>2, <2>1, <2>2
<1>5. \A i, j \in 1..n : i < j => offset[i] + Len(ss[i]) <= offset[j]
  <2> SUFFICES ASSUME NEW i \in 1..n, NEW j \in 1..n, i < j
               PROVE  offset[i] + Len(ss[i]) <= offset[j]
    OBVIOUS
  <2>1. i \in 1..(n - 1)
    OBVIOUS
  <2>2. CASE j = n
    BY <2>1, <2>2 DEF Laid
  <2>3. CASE j \in 1..(n - 1)
    BY <2>1, <2>3 DEF Laid
  <2> QED
    BY <1>2, <2>2, <2>3
<1>6. \A i \in 1..n : \A j \in 1..Len(ss[i]) : all[offset[i] + j] = ss[i][j]
  <2> SUFFICES ASSUME NEW i \in 1..n, NEW j \in 1..Len(ss[i])
               PROVE  all[offset[i] + j] = ss[i][j]
    OBVIOUS
  <2>1. CASE i = n
    BY <1>1, <2>1
  <2>2. CASE i \in 1..(n - 1)
    <3>1. offset[i] \in Nat /\ offset[i] + Len(ss[i]) <= Len(flat) /\ flat[offset[i] + j] = ss[i][j]
      BY <2>2 DEF Laid
    <3>2. PICK length \in Nat, first \in Nat : length = Len(ss[i]) /\ first = offset[i]
      BY <1>2, <3>1
    <3>3. j \in 1..length /\ first + length <= Len(flat)
      BY <3>1, <3>2
    <3>4. first + j \in 1..Len(flat)
      BY <1>3, <3>3
    <3> QED
      BY <1>1, <3>1, <3>2, <3>4
  <2> QED
    BY <1>2, <2>1, <2>2
<1>7. \A k \in 1..Len(all) : \E i \in 1..n : \E j \in 1..Len(ss[i]) : k = offset[i] + j
  <2> SUFFICES ASSUME NEW k \in 1..Len(all)
               PROVE  \E i \in 1..n : \E j \in 1..Len(ss[i]) : k = offset[i] + j
    OBVIOUS
  <2>1. CASE k <= Len(flat)
    <3>1. k \in 1..Len(flat)
      BY <1>3, <2>1
    <3>2. \E i \in 1..(n - 1) : \E j \in 1..Len(ss[i]) : k = offset[i] + j
      BY <3>1 DEF Laid
    <3>3. \A i \in 1..(n - 1) : i \in 1..n
      OBVIOUS
    <3> QED
      BY <3>2, <3>3
  <2>2. CASE k > Len(flat)
    <3>1. k - Len(flat) \in 1..Len(ss[n]) /\ k = offset[n] + (k - Len(flat))
      BY <1>3, <2>2, SMTT(30)
    <3>2. \E j \in 1..Len(ss[n]) : k = offset[n] + j
      BY <3>1
    <3>3. n \in 1..n
      OBVIOUS
    <3> QED
      BY <3>2, <3>3
  <2>3. k \in Int
    OBVIOUS
  <2> QED
    BY <1>3, <2>1, <2>2, <2>3
<1>8. Laid(all, offset, ss, n)
  BY <1>4, <1>5, <1>6, <1>7 DEF Laid
<1> QED
  BY <1>1, <1>8 DEF all

\* FlattenSeq lays all parts end to end.
LEMMA Flattened ==
  ASSUME NEW S, NEW ss \in Seq(Seq(S))
  PROVE  /\ FlattenSeq(ss) \in Seq(S)
         /\ \E offset : Laid(FlattenSeq(ss), offset, ss, Len(ss))
<1> DEFINE N == Len(ss)
           f == CHOOSE g : FlatPrefixes(g, ss, N)
           offset == [i \in 1..N |-> IF i = 1 THEN 0 ELSE Len(f[i - 1])]
           T == {n \in Nat : 1 <= n /\ n <= N /\ ~(f[n] \in Seq(S) /\ Laid(f[n], offset, ss, n))}
<1>1. FlatPrefixes(f, ss, N)
  BY FlatPrefixesExist
<1>2. \A n \in 1..N : f[n] = IF n = 1 THEN ss[n] ELSE f[n - 1] \o ss[n]
  BY <1>1 DEF FlatPrefixes
<1>3. FlattenSeq(ss) = IF N = 0 THEN ss ELSE f[N]
  BY DEF FlattenSeq, FlatPrefixes
<1> HIDE DEF f
<1>4. T = {}
  <2> SUFFICES ASSUME T # {} PROVE FALSE
    OBVIOUS
  <2>1. PICK n \in T : \A m \in T : n <= m
    <3> HIDE DEF T
    <3>1. T \in SUBSET Nat
      BY DEF T
    <3> QED
      BY <3>1, Least
  <2>2. n \in 1..N
    OBVIOUS
  <2> DEFINE before == IF n = 1 THEN << >> ELSE f[n - 1]
  <2>3. before \in Seq(S) /\ Laid(before, offset, ss, n - 1)
    <3>1. CASE n = 1
      <4>1. 1..0 = {} /\ Len(<< >>) = 0 /\ << >> \in Seq(S)
        OBVIOUS
      <4> QED
        BY <3>1, <4>1 DEF Laid
    <3>2. CASE n # 1
      <4>1. n - 1 \notin T /\ n - 1 \in Nat /\ 1 <= n - 1 /\ n - 1 <= N
        BY <2>1, <2>2, <3>2
      <4> HIDE DEF offset
      <4> QED
        BY <3>2, <4>1
    <3> QED
      BY <3>1, <3>2
  <2>4. offset[n] = Len(before)
    BY <2>2
  <2>5. f[n] = before \o ss[n]
    <3>1. ss[n] \in Seq(S)
      BY <2>2
    <3>2. << >> \o ss[n] = ss[n]
      BY <3>1
    <3> QED
      BY <1>2, <2>2, <3>2
  <2> HIDE DEF before, offset
  <2>6. f[n] \in Seq(S) /\ Laid(f[n], offset, ss, n)
    BY <2>2, <2>3, <2>4, <2>5, LayOne
  <2> QED
    BY <2>6
<1> HIDE DEF offset
<1>5. CASE N = 0
  <2>1. ss = << >> /\ 1..0 = {}
    BY <1>5
  <2>2. Laid(ss, offset, ss, N)
    BY <1>5, <2>1 DEF Laid
  <2> QED
    BY <1>3, <1>5, <2>1, <2>2
<1>6. CASE N # 0
  <2>1. N \in Nat /\ 1 <= N /\ N <= N /\ N \notin T
    BY <1>4, <1>6
  <2>2. f[N] \in Seq(S) /\ Laid(f[N], offset, ss, N)
    BY <2>1
  <2> QED
    BY <1>3, <1>6, <2>2
<1> QED
  BY <1>5, <1>6

\* r consists of the elements of s at the positions in I, in their order: origin
\* tells where each one was.
Selects(origin, r, s, I) ==
  /\ origin \in [DOMAIN r -> DOMAIN s \cap I]
  /\ \A k \in DOMAIN r : r[k] = s[origin[k]]
  /\ \A k, l \in DOMAIN r : k < l => origin[k] < origin[l]
  /\ \A i \in DOMAIN s \cap I : \E k \in DOMAIN r : origin[k] = i

\* Squeeze does what its comment says.
LEMMA Squeezed ==
  ASSUME NEW S, NEW s \in Seq(S), NEW I
  PROVE  /\ Squeeze(s, I) \in Seq(S)
         /\ Len(Squeeze(s, I)) <= Len(s)
         /\ \E origin : Selects(origin, Squeeze(s, I), s, I)
<1> DEFINE ss == [i \in DOMAIN s |-> IF i \in I THEN <<s[i]>> ELSE << >>]
           r == FlattenSeq(ss)
<1>1. ss \in Seq(Seq(S)) /\ Len(ss) = Len(s)
  <2>1. \A i \in 1..Len(s) : ss[i] \in Seq(S)
    OBVIOUS
  <2>2. ss = [i \in 1..Len(s) |-> ss[i]] /\ Len(s) \in Nat
    OBVIOUS
  <2> HIDE DEF ss
  <2>3. ss \in [1..Len(s) -> Seq(S)]
    BY <2>1, <2>2
  <2> QED
    BY <2>2, <2>3
<1>2. /\ \A i \in 1..Len(s) : i \in I => Len(ss[i]) = 1 /\ ss[i][1] = s[i]
      /\ \A i \in 1..Len(s) : i \notin I => Len(ss[i]) = 0
  OBVIOUS
<1>3. Squeeze(s, I) = r
  BY DEF Squeeze
<1> HIDE DEF ss
<1>4. r \in Seq(S)
  BY <1>1, Flattened
<1>5. PICK offset : Laid(r, offset, ss, Len(s))
  BY <1>1, Flattened
<1> HIDE DEF r
<1> DEFINE origin == [k \in DOMAIN r |-> CHOOSE i \in DOMAIN s : i \in I /\ k = offset[i] + 1]
<1>6. \A k \in DOMAIN r : /\ origin[k] \in DOMAIN s \cap I
                          /\ k = offset[origin[k]] + 1
                          /\ r[k] = s[origin[k]]
  <2> SUFFICES ASSUME NEW k \in DOMAIN r
               PROVE  /\ origin[k] \in DOMAIN s \cap I
                      /\ k = offset[origin[k]] + 1
                      /\ r[k] = s[origin[k]]
    OBVIOUS
  <2>1. k \in 1..Len(r)
    BY <1>4
  <2>2. PICK i \in 1..Len(s) : \E j \in 1..Len(ss[i]) : k = offset[i] + j
    BY <1>5, <2>1 DEF Laid
  <2>3. i \in I /\ k = offset[i] + 1
    <3>1. CASE i \in I
      <4>1. Len(ss[i]) = 1
        BY <1>2, <3>1
      <4>2. \E j \in 1..1 : k = offset[i] + j
        BY <2>2, <4>1
      <4> QED
        BY <3>1, <4>2
    <3>2. CASE i \notin I
      BY <1>2, <2>2, <3>2
    <3> QED
      BY <3>1, <3>2
  <2>4. origin[k] \in DOMAIN s /\ origin[k] \in I /\ k = offset[origin[k]] + 1
    BY <2>3
  <2>5. r[offset[origin[k]] + 1] = ss[origin[k]][1]
    <3>1. origin[k] \in 1..Len(s) /\ Len(ss[origin[k]]) = 1
      BY <1>2, <2>4
    <3>2. 1 \in 1..Len(ss[origin[k]])
      BY <3>1
    <3> QED
      BY <1>5, <3>1, <3>2 DEF Laid
  <2> QED
    BY <1>2, <2>4, <2>5
<1>7. \A k, l \in DOMAIN r : k < l => origin[k] < origin[l]
  <2> SUFFICES ASSUME NEW k \in DOMAIN r, NEW l \in DOMAIN r, k < l, ~(origin[k] < origin[l])
               PROVE  FALSE
    OBVIOUS
  <2> HIDE DEF origin
  <2>0. DOMAIN s = 1..Len(s)
    OBVIOUS
  <2>1. /\ origin[k] \in 1..Len(s) /\ origin[l] \in 1..Len(s)
        /\ origin[k] \in I /\ origin[l] \in I
        /\ k = offset[origin[k]] + 1 /\ l = offset[origin[l]] + 1
    BY <1>6, <2>0
  <2>2. origin[l] < origin[k]
    BY <2>1
  <2>3. offset[origin[l]] + 1 <= offset[origin[k]]
    BY <1>2, <1>5, <2>1, <2>2 DEF Laid
  <2>4. offset[origin[l]] \in Nat /\ offset[origin[k]] \in Nat
    BY <1>5, <2>1 DEF Laid
  <2> QED
    BY <2>1, <2>3, <2>4
<1>8. \A i \in DOMAIN s \cap I : \E k \in DOMAIN r : origin[k] = i
  <2> SUFFICES ASSUME NEW i \in DOMAIN s \cap I
               PROVE  \E k \in DOMAIN r : origin[k] = i
    OBVIOUS
  <2>1. i \in 1..Len(s) /\ offset[i] \in Nat /\ offset[i] + 1 <= Len(r)
    BY <1>2, <1>5 DEF Laid
  <2>2. offset[i] + 1 \in DOMAIN r
    BY <1>4, <2>1
  <2> DEFINE o == origin[offset[i] + 1]
  <2>3. o \in 1..Len(s) /\ o \in I /\ offset[i] + 1 = offset[o] + 1 /\ offset[o] \in Nat
    BY <1>5, <1>6, <2>2 DEF Laid
  <2> HIDE DEF o, origin
  <2>4. Len(ss[i]) = 1 /\ Len(ss[o]) = 1
    BY <1>2, <2>1, <2>3
  <2>6. i < o => offset[i] + 1 <= offset[o]
    BY <1>5, <2>1, <2>3, <2>4 DEF Laid
  <2>7. o < i => offset[o] + 1 <= offset[i]
    BY <1>5, <2>1, <2>3, <2>4 DEF Laid
  <2>5. o = i
    BY <2>1, <2>3, <2>6, <2>7
  <2> QED
    BY <2>2, <2>5 DEF o
<1>9. Len(r) <= Len(s)
  <2> DEFINE T == {k \in Nat : k \in DOMAIN r /\ origin[k] < k}
  <2>1. DOMAIN r = 1..Len(r) /\ Len(r) \in Nat /\ Len(s) \in Nat
    BY <1>4
  <2> HIDE DEF origin
  <2>2. \A k \in 1..Len(r) : origin[k] \in 1..Len(s)
    BY <1>6, <2>1
  <2>3. T = {}
    <3> SUFFICES ASSUME T # {} PROVE FALSE
      OBVIOUS
    <3>1. PICK k \in T : \A l \in T : k <= l
      <4> HIDE DEF T
      <4>1. T \in SUBSET Nat
        BY DEF T
      <4> QED
        BY <4>1, Least
    <3>2. k \in 1..Len(r) /\ origin[k] \in 1..Len(s) /\ k - 1 \in 1..Len(r)
      BY <2>1, <2>2, <3>1
    <3>3. origin[k - 1] \in 1..Len(s) /\ origin[k - 1] < origin[k]
      BY <1>7, <2>1, <2>2, <3>2
    <3>4. k - 1 \in T
      BY <2>1, <3>1, <3>2, <3>3
    <3> QED
      BY <3>1, <3>2, <3>4
  <2>4. CASE Len(r) # 0
    <3>1. Len(r) \in 1..Len(r) /\ Len(r) \notin T
      BY <2>1, <2>3, <2>4
    <3> QED
      BY <2>1, <2>2, <3>1
  <2> QED
    BY <2>1, <2>4
<1>10. origin \in [DOMAIN r -> DOMAIN s \cap I]
  BY <1>6
<1>11. Selects(origin, r, s, I)
  <2> HIDE DEF origin
  <2> QED
    BY <1>6, <1>7, <1>8, <1>10 DEF Selects
<1> QED
  BY <1>3, <1>4, <1>9, <1>11

-----------------------------------------------------------------------------
(* The first label of a name. *)

\* The first label called n is at position i.
FirstAt(labels, n, i) ==
  /\ i \in DOMAIN labels
  /\ labels[i].name = n
  /\ \A j \in 1..(i - 1) : labels[j].name # n

\* A name that occurs has a first position.
LEMMA FirstExists ==
  ASSUME NEW S, NEW labels \in Seq(S), NEW n \in NamesOf(labels)
  PROVE  \E i : FirstAt(labels, n, i)
<1> DEFINE T == {i \in Nat : i \in DOMAIN labels /\ labels[i].name = n}
<1>1. T # {} /\ T \in SUBSET Nat
  BY DEF NamesOf
<1>2. PICK i \in T : \A j \in T : i <= j
  <2> HIDE DEF T
  <2> QED
    BY <1>1, Least
<1>3. FirstAt(labels, n, i)
  BY <1>2 DEF FirstAt
<1> QED
  BY <1>3

\* FirstOf returns it.
LEMMA FirstFound ==
  ASSUME NEW S, NEW labels \in Seq(S), NEW n, NEW i, FirstAt(labels, n, i)
  PROVE  n \in NamesOf(labels) /\ FirstOf(labels, n) = labels[i]
<1> DEFINE T == {j \in 1..Len(labels) : labels[j].name = n}
<1>1. i \in T /\ \A j \in T : i <= j
  BY DEF FirstAt
<1>2. T \in SUBSET Nat
  OBVIOUS
<1>3. FirstOf(labels, n) = labels[Min(T)]
  BY <1>1 DEF FirstOf, SelectInSeq
<1> HIDE DEF T
<1>4. Min(T) \in T /\ \A j \in T : Min(T) <= j
  BY <1>1 DEF Min
<1>5. Min(T) \in Nat /\ i \in Nat /\ Min(T) <= i /\ i <= Min(T)
  BY <1>1, <1>2, <1>4
<1>6. Min(T) = i
  BY <1>5
<1> QED
  BY <1>3, <1>6 DEF NamesOf, FirstAt

\* The first label of a name is still the first after Squeeze, if it is kept.
LEMMA FirstSqueezed ==
  ASSUME NEW S, NEW labels \in Seq(S), NEW n, NEW i, FirstAt(labels, n, i), NEW I, i \in I
  PROVE  /\ n \in NamesOf(Squeeze(labels, I))
         /\ FirstOf(Squeeze(labels, I), n) = labels[i]
<1> DEFINE r == Squeeze(labels, I)
<1>1. r \in Seq(S)
  BY Squeezed
<1>2. PICK origin : Selects(origin, r, labels, I)
  BY Squeezed
<1> HIDE DEF r
<1>3. PICK k \in DOMAIN r : origin[k] = i
  BY <1>2 DEF FirstAt, Selects
<1>4. FirstAt(r, n, k)
  <2>1. k \in DOMAIN r /\ r[k].name = n
    BY <1>2, <1>3 DEF FirstAt, Selects
  <2>2. ASSUME NEW l \in 1..(k - 1) PROVE r[l].name # n
    <3>1. l \in DOMAIN r /\ l < k
      BY <1>1
    <3>2. origin[l] < i /\ origin[l] \in DOMAIN labels /\ r[l] = labels[origin[l]]
      BY <1>2, <1>3, <3>1 DEF Selects
    <3>3. origin[l] \in 1..(i - 1)
      BY <3>2 DEF FirstAt
    <3> QED
      BY <3>2, <3>3 DEF FirstAt
  <2> QED
    BY <2>1, <2>2 DEF FirstAt
<1>5. n \in NamesOf(r) /\ FirstOf(r, n) = r[k]
  BY <1>1, <1>4, FirstFound
<1> QED
  BY <1>2, <1>3, <1>5 DEF r, Selects

\* A map's names in some order are all of them.
LEMMA OrderComplete ==
  ASSUME NEW M, IsFiniteSet(M), NEW order \in SetToSeqs(M)
  PROVE  order \in Seq(M) /\ \A n \in M : \E i \in DOMAIN order : order[i] = n
<1> DEFINE D == 1..Cardinality(M)
<1>1. Cardinality(M) \in Nat
  BY FS_CardinalityType
<1>2. order \in [D -> M] /\ \A i, j \in D : i # j => order[i] # order[j]
  BY DEF SetToSeqs
<1>3. order \in Seq(M) /\ DOMAIN order = D
  BY <1>1, <1>2
<1>4. IsFiniteSet(D) /\ Cardinality(D) = Cardinality(M)
  BY <1>1, FS_Interval
<1>5. order \in Injection(D, M)
  BY <1>2 DEF Injection, IsInjective
<1>6. order \in Surjection(D, M)
  BY <1>4, <1>5, FS_Injection DEF Injection
<1> QED
  BY <1>3, <1>6 DEF Surjection

\* SetToSeq is one such order.
LEMMA OrderChosen ==
  ASSUME NEW M, IsFiniteSet(M)
  PROVE  SetToSeq(M) \in SetToSeqs(M)
<1> DEFINE D == 1..Cardinality(M)
<1>1. PICK f : f \in Bijection(D, M)
  BY FS_CardinalityType DEF ExistsBijection
<1>2. f \in [D -> M] /\ IsInjective(f)
  BY <1>1 DEF Bijection, Injection
<1>3. SetToSeq(M) \in [D -> M] /\ IsInjective(SetToSeq(M))
  BY <1>2 DEF SetToSeq
<1> QED
  BY <1>3 DEF SetToSeqs, IsInjective

-----------------------------------------------------------------------------
(* What the transformers guarantee. *)

\* The first label called n has the value v.
FirstIs(labels, n, v) == n \in NamesOf(labels) /\ FirstOf(labels, n).value = v

\* A position of Dense is that of a metric which is not Nil, and the other way
\* round.
LEMMA DenseIs ==
  ASSUME NEW S, NEW ms \in Seq(S \cup {Nil})
  PROVE  /\ Dense(ms) \in Seq(S)
         /\ \A k \in DOMAIN Dense(ms) : Dense(ms)[k] # Nil /\ \E i \in DOMAIN ms : Dense(ms)[k] = ms[i]
         /\ \A i \in DOMAIN ms : ms[i] # Nil => \E k \in DOMAIN Dense(ms) : Dense(ms)[k] = ms[i]
<1> DEFINE I == {i \in DOMAIN ms : ms[i] # Nil}
           d == Squeeze(ms, I)
<1>1. d \in Seq(S \cup {Nil})
  BY Squeezed
<1>2. PICK origin : Selects(origin, d, ms, I)
  BY Squeezed
<1>3. Dense(ms) = d
  BY DEF Dense
<1> HIDE DEF d
<1>4. \A k \in DOMAIN d : d[k] # Nil /\ \E i \in DOMAIN ms : d[k] = ms[i]
  BY <1>2 DEF Selects
<1>5. d \in Seq(S)
  <2>1. d \in [1..Len(d) -> S \cup {Nil}] /\ Len(d) \in Nat
    BY <1>1
  <2>2. d \in [1..Len(d) -> S]
    BY <1>4, <2>1
  <2> QED
    BY <2>1, <2>2
<1>6. \A i \in DOMAIN ms : ms[i] # Nil => \E k \in DOMAIN d : d[k] = ms[i]
  BY <1>2 DEF Selects
<1> QED
  BY <1>3, <1>4, <1>5, <1>6

\* requireLabel lets a family pass only if all its metrics have the label.
LEMMA RequireLabelPasses ==
  ASSUME NEW f \in FamilyRecords, NEW n, NEW v, RequireLabel(f, n, v).verdict = "ok",
         NEW i \in DOMAIN f.metrics, f.metrics[i] # Nil
  PROVE  FirstIs(f.metrics[i].labels, n, v)
<1> DEFINE ms == Dense(f.metrics)
           T == {k \in 1..Len(ms) : n \notin NamesOf(ms[k].labels) \/ FirstOf(ms[k].labels, n).value # v}
<1>1. ms \in Seq(MetricRecords) /\ \E k \in DOMAIN ms : ms[k] = f.metrics[i]
  BY DenseIs DEF FamilyRecords
<1>2. T = {}
  <2> SUFFICES ASSUME T # {} PROVE FALSE
    OBVIOUS
  <2>1. Min(T) \in T /\ 0 \notin T
    <3>1. T \in SUBSET Nat /\ 0 \notin T
      OBVIOUS
    <3> HIDE DEF T
    <3> QED
      BY <3>1, Least DEF Min
  <2> DEFINE bad == IF T # {} THEN Min(T) ELSE 0
  <2>2. bad # 0
    <3> HIDE DEF T
    <3> QED
      BY <2>1
  <2>3. RequireLabel(f, n, v) =
          IF bad = 0 THEN Keep(f)
          ELSE Result(IF n \in NamesOf(ms[bad].labels) THEN "500" ELSE "400", f)
    BY DEF RequireLabel, SelectInSeq
  <2> HIDE DEF bad
  <2> QED
    BY <2>2, <2>3 DEF Result
<1>3. PICK k \in DOMAIN ms : ms[k] = f.metrics[i]
  BY <1>1
<1>4. k \in 1..Len(ms)
  BY <1>1
<1> HIDE DEF ms
<1>5. k \notin T
  BY <1>2
<1> QED
  BY <1>3, <1>4, <1>5 DEF FirstIs

\* The same for all required labels, whatever order the map is iterated in.
LEMMA RequiredLabelsPass ==
  ASSUME NEW f \in FamilyRecords, NEW required, IsFiniteSet(DOMAIN required),
         NEW order \in SetToSeqs(DOMAIN required)
  PROVE  LET r == RequiredLabels(f, required, order) IN
         /\ r.family = f /\ r.verdict # "drop"
         /\ r.verdict = "ok" => \A n \in DOMAIN required : RequireLabel(f, n, required[n]).verdict = "ok"
<1> DEFINE v(n) == RequireLabel(f, n, required[n])
           T == {i \in 1..Len(order) : v(order[i]).verdict # "ok"}
           bad == IF T # {} THEN Min(T) ELSE 0
<1>1. RequiredLabels(f, required, order) = IF bad = 0 THEN Keep(f) ELSE v(order[bad])
  BY DEF RequiredLabels, SelectInSeq
<1>2. \A n : v(n).family = f /\ v(n).verdict # "drop"
  BY DEF RequireLabel, Keep, Result
<1>3. order \in Seq(DOMAIN required) /\ \A n \in DOMAIN required : \E i \in DOMAIN order : order[i] = n
  BY OrderComplete
<1>4. T # {} => bad \in T /\ bad # 0
  <2>1. T \in SUBSET Nat
    BY <1>3
  <2>2. 0 \notin T
    OBVIOUS
  <2> HIDE DEF T
  <2> QED
    BY <2>1, <2>2, Least DEF Min
<1>5. CASE T = {}
  <2>1. RequiredLabels(f, required, order) = Keep(f)
    BY <1>1, <1>5
  <2>2. \A i \in 1..Len(order) : v(order[i]).verdict = "ok"
    BY <1>5
  <2>3. \A n \in DOMAIN required : v(n).verdict = "ok"
    <3> HIDE DEF v
    <3> QED
      BY <1>3, <2>2
  <2> QED
    BY <2>1, <2>3 DEF Keep, Result
<1>6. CASE T # {}
  <2>1. bad \in T /\ bad # 0
    BY <1>4, <1>6
  <2> HIDE DEF bad, v
  <2>2. RequiredLabels(f, required, order) = v(order[bad]) /\ v(order[bad]).verdict # "ok"
    BY <1>1, <2>1
  <2> QED
    BY <1>2, <2>2
<1> QED
  BY <1>5, <1>6

\* A metric with another timestamp.
LEMMA TimeSet ==
  ASSUME NEW m \in MetricRecords, NEW t \in Int, NEW k, k = [m EXCEPT !.ts = t]
  PROVE  k \in MetricRecords /\ k.labels = m.labels /\ k.ts = t
BY DEF MetricRecords

\* A metric with other labels.
LEMMA LabelsSet ==
  ASSUME NEW m \in MetricRecords, NEW l \in Seq(LabelPairs), NEW k, k = [m EXCEPT !.labels = l]
  PROVE  k \in MetricRecords /\ k.labels = l /\ k.ts = m.ts /\ k.set = m.set
BY DEF MetricRecords

\* A family with other metrics.
LEMMA MetricsSet ==
  ASSUME NEW f \in FamilyRecords, NEW h \in Seq(MetricRecords \cup {Nil}), NEW g,
         g = [f EXCEPT !.metrics = h]
  PROVE  g \in FamilyRecords /\ g.metrics = h /\ g.name = f.name /\ g.type = f.type
BY DEF FamilyRecords

\* OverwriteTimestamps changes the timestamps and nothing else.
LEMMA TimestampsOverwritten ==
  ASSUME NEW f \in FamilyRecords, NEW now \in Nat, NEW second \in Nat \ {0}, NEW g,
         OverwriteTimestamps(f, now, second) = Keep(g)
  PROVE  /\ g \in FamilyRecords /\ g.name = f.name
         /\ DOMAIN g.metrics = DOMAIN f.metrics
         /\ \A i \in DOMAIN g.metrics :
              /\ f.metrics[i] \in MetricRecords /\ f.metrics[i] # Nil
              /\ g.metrics[i] \in MetricRecords
              /\ g.metrics[i].labels = f.metrics[i].labels
              /\ g.metrics[i].ts = (now \div second) * second
<1> DEFINE time == (now \div second) * second
           h == [i \in DOMAIN f.metrics |-> [f.metrics[i] EXCEPT !.ts = time]]
<1>1. ~ HasNil(f)
  BY DEF OverwriteTimestamps, Keep, Result
<1>2. /\ \A i \in DOMAIN f.metrics : f.metrics[i] \in MetricRecords /\ f.metrics[i] # Nil
      /\ DOMAIN f.metrics = 1..Len(f.metrics) /\ Len(f.metrics) \in Nat
  BY <1>1 DEF HasNil, FamilyRecords
<1>3. g = [f EXCEPT !.metrics = [i \in DOMAIN f.metrics |->
             IF f.metrics[i] = Nil THEN Nil ELSE [f.metrics[i] EXCEPT !.ts = time]]]
  BY <1>1 DEF OverwriteTimestamps, Keep, Result, MapMetrics
<1>4. g = [f EXCEPT !.metrics = h]
  BY <1>2, <1>3
<1>5. time \in Int
  OBVIOUS
<1> HIDE DEF time
<1>6. \A i \in DOMAIN f.metrics :
        /\ f.metrics[i] \in MetricRecords
        /\ h[i] \in MetricRecords
        /\ h[i].labels = f.metrics[i].labels
        /\ h[i].ts = time
  <2> TAKE i \in DOMAIN f.metrics
  <2>1. f.metrics[i] \in MetricRecords /\ h[i] = [f.metrics[i] EXCEPT !.ts = time]
    BY <1>2
  <2> HIDE DEF h
  <2> QED
    BY <1>5, <2>1, TimeSet
<1>7. h = [i \in DOMAIN f.metrics |-> h[i]]
  OBVIOUS
<1> HIDE DEF h
<1>8. h \in Seq(MetricRecords \cup {Nil})
  <2>1. \A i \in DOMAIN f.metrics : h[i] \in MetricRecords \cup {Nil}
    BY <1>6
  <2> QED
    BY <1>2, <1>7, <2>1, IsSequence
<1>9. g \in FamilyRecords /\ g.metrics = h /\ g.name = f.name
  BY <1>4, <1>8, MetricsSet, ZenonT(60)
<1> QED
  BY <1>2, <1>6, <1>7, <1>9 DEF time

\* whitelist removes the metrics that no rule matches and changes none.
LEMMA MetricsWhitelisted ==
  ASSUME NEW f \in FamilyRecords, NEW rules, NEW g, Whitelist(f, rules).family = g
  PROVE  /\ g \in FamilyRecords /\ g.name = f.name
         /\ DOMAIN g.metrics = DOMAIN f.metrics
         /\ \A i \in DOMAIN g.metrics : g.metrics[i] \in {Nil, f.metrics[i]}
         /\ \A i \in DOMAIN g.metrics : g.metrics[i] # Nil <=>
              f.metrics[i] # Nil /\ \E r \in rules : Match(f.name, f.metrics[i], r)
<1> DEFINE admits(i) == \E r \in rules : Match(f.name, f.metrics[i], r)
           h == [i \in DOMAIN f.metrics |-> IF f.metrics[i] = Nil THEN Nil
                   ELSE IF admits(i) THEN f.metrics[i] ELSE Nil]
<1>1. g = [f EXCEPT !.metrics = h]
  BY DEF Whitelist, Result, MapMetrics
<1> HIDE DEF admits
<1>2. /\ \A i \in DOMAIN f.metrics : h[i] \in {Nil, f.metrics[i]}
      /\ \A i \in DOMAIN f.metrics : h[i] # Nil <=> f.metrics[i] # Nil /\ admits(i)
  OBVIOUS
<1>3. h = [i \in DOMAIN f.metrics |-> h[i]]
  OBVIOUS
<1> HIDE DEF h
<1>4. h \in Seq(MetricRecords \cup {Nil})
  BY <1>2, <1>3 DEF FamilyRecords
<1>5. g \in FamilyRecords /\ g.metrics = h /\ g.name = f.name
  BY <1>1, <1>4, MetricsSet
<1>6. DOMAIN h = DOMAIN f.metrics
  BY <1>3
<1> QED
  BY <1>2, <1>5, <1>6 DEF admits

\* It drops the family only if no metric is left.
LEMMA WhitelistedNone ==
  ASSUME NEW f \in FamilyRecords, NEW rules, Whitelist(f, rules).verdict = "drop"
  PROVE  \A i \in DOMAIN f.metrics :
           f.metrics[i] = Nil \/ ~ \E r \in rules : Match(f.name, f.metrics[i], r)
<1>1. PICK g : Whitelist(f, rules).family = g
  OBVIOUS
<1>2. /\ g \in FamilyRecords
      /\ DOMAIN g.metrics = DOMAIN f.metrics
      /\ \A i \in DOMAIN g.metrics : g.metrics[i] # Nil <=>
           f.metrics[i] # Nil /\ \E r \in rules : Match(f.name, f.metrics[i], r)
  BY <1>1, MetricsWhitelisted
<1>3. Dense(g.metrics) = <<>>
  BY <1>1 DEF Whitelist, Result
<1>4. DOMAIN Dense(g.metrics) = {} /\ g.metrics \in Seq(MetricRecords \cup {Nil})
  BY <1>2, <1>3 DEF FamilyRecords
<1>5. \A i \in DOMAIN g.metrics : g.metrics[i] = Nil
  BY <1>4, DenseIs
<1> QED
  BY <1>2, <1>5

\* The labels stay where they are, and those not to be overridden what they are.
InPlace(r, existing, overrides) ==
  \A i \in DOMAIN existing : /\ i \in DOMAIN r /\ r[i].name = existing[i].name
                             /\ r[i].name \notin DOMAIN overrides => r[i] = existing[i]

\* appendLabels: the overrides win, and other labels keep their value.
LEMMA LabelsAppended ==
  ASSUME NEW existing \in Seq(LabelPairs), NEW overrides, IsFiniteSet(DOMAIN overrides),
         DOMAIN overrides \subseteq STRING, overrides \in [DOMAIN overrides -> Values],
         NEW order \in SetToSeqs(DOMAIN overrides)
  PROVE  LET r == AppendLabels(existing, overrides, order) IN
         /\ r \in Seq(LabelPairs)
         /\ InPlace(r, existing, overrides)
         /\ \A i \in DOMAIN r : r[i].name \in DOMAIN overrides \/ \E j \in DOMAIN existing : r[i] = existing[j]
         /\ \A n, v : n \notin DOMAIN overrides /\ FirstIs(existing, n, v) => FirstIs(r, n, v)
         /\ \A n \in DOMAIN overrides : n \in NamesOf(r)
         /\ \A i \in DOMAIN r : r[i].name \in DOMAIN overrides => r[i].value = overrides[r[i].name]
<1> DEFINE pair(n) == [name |-> n, value |-> overrides[n], shared |-> TRUE]
           I == {i \in DOMAIN order : order[i] \notin NamesOf(existing)}
           missing == Squeeze(order, I)
           head == [i \in DOMAIN existing |->
                      IF existing[i].name \in DOMAIN overrides THEN pair(existing[i].name) ELSE existing[i]]
           tail == [i \in DOMAIN missing |-> pair(missing[i])]
           r == head \o tail
<1>1. AppendLabels(existing, overrides, order) = r
  BY DEF AppendLabels
<1>2. order \in Seq(DOMAIN overrides) /\ \A n \in DOMAIN overrides : \E i \in DOMAIN order : order[i] = n
  BY OrderComplete
<1>3. missing \in Seq(DOMAIN overrides)
  BY <1>2, Squeezed
<1>4. PICK origin : Selects(origin, missing, order, I)
  BY <1>2, Squeezed
<1> HIDE DEF missing, I
<1>5. \A n \in DOMAIN overrides : pair(n) \in LabelPairs /\ pair(n).name = n /\ pair(n).value = overrides[n]
  BY DEF LabelPairs
<1>6. head \in Seq(LabelPairs) /\ Len(head) = Len(existing)
  <2>1. \A i \in 1..Len(existing) : head[i] \in LabelPairs
    <3> HIDE DEF pair
    <3> QED
      BY <1>5
  <2>2. head = [i \in 1..Len(existing) |-> head[i]]
    OBVIOUS
  <2> HIDE DEF head
  <2> QED
    BY <2>1, <2>2
<1>7. tail \in Seq(LabelPairs) /\ Len(tail) = Len(missing)
  <2>1. \A i \in 1..Len(missing) : tail[i] \in LabelPairs
    <3> HIDE DEF pair
    <3> QED
      BY <1>3, <1>5
  <2>2. tail = [i \in 1..Len(missing) |-> tail[i]]
    BY <1>3
  <2> HIDE DEF tail
  <2> QED
    BY <1>3, <2>1, <2>2
<1>8. \A i \in 1..Len(existing) :
        /\ head[i].name = existing[i].name
        /\ head[i].name \notin DOMAIN overrides => head[i] = existing[i]
        /\ head[i].name \in DOMAIN overrides => head[i].value = overrides[head[i].name]
  <2> HIDE DEF pair
  <2> QED
    BY <1>5
<1>9. \A i \in 1..Len(missing) :
        /\ tail[i].name = missing[i]
        /\ tail[i].name \in DOMAIN overrides
        /\ tail[i].value = overrides[tail[i].name]
  <2> HIDE DEF pair
  <2> QED
    BY <1>3, <1>5
<1> HIDE DEF head, tail
<1>10. /\ r \in Seq(LabelPairs) /\ Len(r) = Len(existing) + Len(missing)
       /\ \A i \in 1..Len(existing) : r[i] = head[i]
       /\ \A i \in 1..Len(missing) : r[Len(existing) + i] = tail[i]
  <2>1. r = head \o tail
    OBVIOUS
  <2> HIDE DEF r
  <2>2. head \in Seq(LabelPairs) /\ tail \in Seq(LabelPairs)
    BY <1>6, <1>7
  <2>3. /\ r \in Seq(LabelPairs) /\ Len(r) = Len(head) + Len(tail)
        /\ \A i \in 1..Len(head) : r[i] = head[i]
        /\ \A i \in 1..Len(tail) : r[Len(head) + i] = tail[i]
    BY <2>1, <2>2, Concatenated
  <2> QED
    BY <1>6, <1>7, <2>3
<1> HIDE DEF r
<1>10a. InPlace(r, existing, overrides)
  <2>1. Len(missing) \in Nat /\ DOMAIN existing = 1..Len(existing) /\ DOMAIN r = 1..Len(r)
    BY <1>3, <1>10
  <2> QED
    BY <1>8, <1>10, <2>1 DEF InPlace
<1>10b. ASSUME NEW i \in DOMAIN r, r[i].name \notin DOMAIN overrides
        PROVE  \E j \in DOMAIN existing : r[i] = existing[j]
  <2>1. CASE i \in 1..Len(existing)
    BY <1>8, <1>10, <1>10b, <2>1
  <2>2. CASE i \notin 1..Len(existing)
    <3>1. i - Len(existing) \in 1..Len(missing) /\ i = Len(existing) + (i - Len(existing))
      BY <1>3, <1>10, <2>2
    <3> QED
      BY <1>9, <1>10, <1>10b, <3>1
  <2> QED
    BY <2>1, <2>2
<1>11. ASSUME NEW n, NEW v, n \notin DOMAIN overrides, FirstIs(existing, n, v)
       PROVE  FirstIs(r, n, v)
  <2>1. PICK i : FirstAt(existing, n, i)
    BY <1>11, FirstExists DEF FirstIs
  <2>2. existing[i].value = v
    BY <1>11, <2>1, FirstFound DEF FirstIs
  <2>3. i \in 1..Len(existing) /\ r[i] = existing[i] /\ r[i].name = n
    BY <1>8, <1>10, <1>11, <2>1 DEF FirstAt
  <2>4. ASSUME NEW j \in 1..(i - 1) PROVE r[j].name # n
    <3>1. j \in 1..Len(existing)
      BY <2>3
    <3> QED
      BY <1>8, <1>10, <2>1, <3>1 DEF FirstAt
  <2>5. FirstAt(r, n, i)
    BY <1>10, <2>3, <2>4 DEF FirstAt
  <2> QED
    BY <1>10, <2>2, <2>3, <2>5, FirstFound DEF FirstIs
<1>12. ASSUME NEW n \in DOMAIN overrides PROVE n \in NamesOf(r)
  <2>1. CASE n \in NamesOf(existing)
    <3>1. PICK i \in 1..Len(existing) : existing[i].name = n
      BY <2>1 DEF NamesOf
    <3>2. r[i].name = n /\ i \in DOMAIN r
      BY <1>3, <1>8, <1>10, <3>1
    <3> QED
      BY <3>2 DEF NamesOf
  <2>2. CASE n \notin NamesOf(existing)
    <3>1. PICK i \in DOMAIN order : order[i] = n
      BY <1>2
    <3>2. i \in I
      BY <2>2, <3>1 DEF I
    <3>3. PICK k \in DOMAIN missing : origin[k] = i /\ missing[k] = n
      BY <1>4, <3>1, <3>2 DEF Selects
    <3>4. k \in 1..Len(missing) /\ Len(existing) + k \in DOMAIN r
      BY <1>3, <1>10
    <3>5. r[Len(existing) + k].name = n
      BY <1>9, <1>10, <3>3, <3>4
    <3> QED
      BY <3>4, <3>5 DEF NamesOf
  <2> QED
    BY <2>1, <2>2
<1>13. ASSUME NEW i \in DOMAIN r, r[i].name \in DOMAIN overrides
       PROVE  r[i].value = overrides[r[i].name]
  <2>1. CASE i \in 1..Len(existing)
    BY <1>8, <1>10, <1>13, <2>1
  <2>2. CASE i \notin 1..Len(existing)
    <3>1. i - Len(existing) \in 1..Len(missing) /\ i = Len(existing) + (i - Len(existing))
      BY <1>3, <1>10, <2>2
    <3> QED
      BY <1>9, <1>10, <1>13, <3>1
  <2> QED
    BY <2>1, <2>2
<1> QED
  BY <1>1, <1>10, <1>10a, <1>10b, <1>11, <1>12, <1>13

\* The label transformer gives every metric the labels of appendLabels.
LEMMA MetricsLabelled ==
  ASSUME NEW f \in FamilyRecords, NEW overrides, IsFiniteSet(DOMAIN overrides),
         DOMAIN overrides \subseteq STRING, overrides \in [DOMAIN overrides -> Values],
         NEW order \in SetToSeqs(DOMAIN overrides), NEW g, Label(f, overrides, order) = Keep(g)
  PROVE  /\ g \in FamilyRecords /\ g.name = f.name /\ g.type = f.type
         /\ DOMAIN g.metrics = DOMAIN f.metrics
         /\ \A i \in DOMAIN g.metrics :
              /\ f.metrics[i] \in MetricRecords /\ f.metrics[i] # Nil
              /\ g.metrics[i] \in MetricRecords
              /\ g.metrics[i].labels = AppendLabels(f.metrics[i].labels, overrides, order)
              /\ g.metrics[i].ts = f.metrics[i].ts
              /\ g.metrics[i].set = f.metrics[i].set
<1> DEFINE new(m) == AppendLabels(m.labels, overrides, order)
           h == [i \in DOMAIN f.metrics |-> [f.metrics[i] EXCEPT !.labels = new(f.metrics[i])]]
<1>1. ~ HasNil(f)
  BY DEF Label, Keep, Result
<1>2. /\ \A i \in DOMAIN f.metrics : f.metrics[i] \in MetricRecords /\ f.metrics[i] # Nil
      /\ DOMAIN f.metrics = 1..Len(f.metrics) /\ Len(f.metrics) \in Nat
  BY <1>1 DEF HasNil, FamilyRecords
<1>3. g = [f EXCEPT !.metrics = [i \in DOMAIN f.metrics |->
             IF f.metrics[i] = Nil THEN Nil ELSE [f.metrics[i] EXCEPT !.labels = new(f.metrics[i])]]]
  BY <1>1 DEF Label, Keep, Result, MapMetrics
<1>4. g = [f EXCEPT !.metrics = h]
  <2> HIDE DEF new
  <2> QED
    BY <1>2, <1>3
<1>5. \A i \in DOMAIN f.metrics : new(f.metrics[i]) \in Seq(LabelPairs)
  <2> TAKE i \in DOMAIN f.metrics
  <2>1. f.metrics[i].labels \in Seq(LabelPairs)
    BY <1>2 DEF MetricRecords
  <2> QED
    BY <2>1, LabelsAppended
<1> HIDE DEF new
<1>6. \A i \in DOMAIN f.metrics :
        /\ h[i] \in MetricRecords
        /\ h[i].labels = new(f.metrics[i])
        /\ h[i].ts = f.metrics[i].ts
        /\ h[i].set = f.metrics[i].set
  <2> TAKE i \in DOMAIN f.metrics
  <2>1. f.metrics[i] \in MetricRecords /\ h[i] = [f.metrics[i] EXCEPT !.labels = new(f.metrics[i])]
    BY <1>2
  <2> HIDE DEF h
  <2> QED
    BY <1>5, <2>1, LabelsSet
<1>7. h = [i \in DOMAIN f.metrics |-> h[i]]
  OBVIOUS
<1> HIDE DEF h
<1>8. h \in Seq(MetricRecords \cup {Nil})
  <2>1. \A i \in DOMAIN f.metrics : h[i] \in MetricRecords \cup {Nil}
    BY <1>6
  <2> QED
    BY <1>2, <1>7, <2>1, IsSequence
<1>9. g \in FamilyRecords /\ g.metrics = h /\ g.name = f.name /\ g.type = f.type
  BY <1>4, <1>8, MetricsSet, ZenonT(60)
<1> QED
  BY <1>2, <1>6, <1>7, <1>9 DEF new

\* The labels that elide leaves.
Unelided(labels, names) ==
  Squeeze(labels, {j \in DOMAIN labels : labels[j].name \notin names})

\* Family g has the metrics of f that are not Nil, each once, with the labels
\* not of these names.
ElidedTo(f, g, names) ==
  \E of \in Bijection(DOMAIN g.metrics, {i \in DOMAIN f.metrics : f.metrics[i] # Nil}) :
    \A k \in DOMAIN g.metrics :
      /\ g.metrics[k] \in MetricRecords
      /\ f.metrics[of[k]] \in MetricRecords
      /\ g.metrics[k].labels = Unelided(f.metrics[of[k]].labels, names)
      /\ g.metrics[k].ts = f.metrics[of[k]].ts

\* elide leaves the metrics that are not Nil, each once, with the labels not to
\* be elided.
LEMMA MetricsElided ==
  ASSUME NEW f \in FamilyRecords, NEW names, NEW g, Elide(f, names) = Keep(g)
  PROVE  g \in FamilyRecords /\ g.name = f.name /\ ElidedTo(f, g, names)
<1> DEFINE kept(l) == Unelided(l, names)
           h == [i \in DOMAIN f.metrics |-> IF f.metrics[i] = Nil THEN Nil
                   ELSE [f.metrics[i] EXCEPT !.labels = kept(f.metrics[i].labels)]]
<1>1. g = [[f EXCEPT !.metrics = h] EXCEPT !.metrics = Dense([f EXCEPT !.metrics = h].metrics)]
  BY DEF Elide, Keep, Result, MapMetrics, Unelided
<1>2. /\ \A i \in DOMAIN f.metrics : f.metrics[i] # Nil => f.metrics[i] \in MetricRecords
      /\ DOMAIN f.metrics = 1..Len(f.metrics) /\ Len(f.metrics) \in Nat
  BY DEF FamilyRecords
<1>3. \A l \in Seq(LabelPairs) : kept(l) \in Seq(LabelPairs)
  BY Squeezed DEF Unelided
<1> HIDE DEF kept
<1>4. \A i \in DOMAIN f.metrics :
        /\ f.metrics[i] = Nil => h[i] = Nil
        /\ f.metrics[i] # Nil =>
             /\ h[i] \in MetricRecords
             /\ h[i].labels = kept(f.metrics[i].labels)
             /\ h[i].ts = f.metrics[i].ts
  <2> TAKE i \in DOMAIN f.metrics
  <2>1. CASE f.metrics[i] = Nil
    BY <2>1
  <2>2. CASE f.metrics[i] # Nil
    <3>1. /\ f.metrics[i] \in MetricRecords
          /\ h[i] = [f.metrics[i] EXCEPT !.labels = kept(f.metrics[i].labels)]
      BY <1>2, <2>2
    <3>2. kept(f.metrics[i].labels) \in Seq(LabelPairs)
      BY <1>3, <3>1 DEF MetricRecords
    <3> HIDE DEF h
    <3> QED
      BY <2>2, <3>1, <3>2, LabelsSet
  <2> QED
    BY <2>1, <2>2
<1>5. h = [i \in DOMAIN f.metrics |-> h[i]]
  OBVIOUS
<1> HIDE DEF h
<1>6. h \in Seq(MetricRecords \cup {Nil})
  <2>1. \A i \in DOMAIN f.metrics : h[i] \in MetricRecords \cup {Nil}
    BY <1>4
  <2> QED
    BY <1>2, <1>5, <2>1, IsSequence
<1>7. g = [f EXCEPT !.metrics = Dense(h)]
  BY <1>1 DEF FamilyRecords
<1> DEFINE I == {i \in DOMAIN h : h[i] # Nil}
<1>8. Dense(h) \in Seq(MetricRecords) /\ Dense(h) = Squeeze(h, I)
  BY <1>6, DenseIs DEF Dense
<1>9. g \in FamilyRecords /\ g.metrics = Dense(h) /\ g.name = f.name
  <2>1. Dense(h) \in Seq(MetricRecords \cup {Nil})
    BY <1>8
  <2> QED
    BY <1>7, <2>1, MetricsSet, ZenonT(60)
<1>10. PICK of : Selects(of, Dense(h), h, I)
  BY <1>6, <1>8, Squeezed
<1>11. DOMAIN h = DOMAIN f.metrics /\ I = {i \in DOMAIN f.metrics : f.metrics[i] # Nil}
  BY <1>4, <1>5, NilAssumption
<1>12. of \in Bijection(DOMAIN Dense(h), I)
  <2> DEFINE d == Dense(h)
  <2>1. \A k, l \in DOMAIN d : k \in Int /\ l \in Int /\ (k = l \/ k < l \/ l < k)
    BY <1>8
  <2>2. \A i \in DOMAIN h \cap I : i \in Int
    BY <1>6
  <2> HIDE DEF d
  <2>3. of \in [DOMAIN d -> I] /\ I = DOMAIN h \cap I
    <3> I = DOMAIN h \cap I
      OBVIOUS
    <3> HIDE DEF I
    <3> QED
      BY <1>10 DEF Selects, d
  <2>4. ASSUME NEW k \in DOMAIN d, NEW l \in DOMAIN d, of[k] = of[l] PROVE k = l
    <3> HIDE DEF I
    <3>1. of[k] \in Int /\ ~(of[k] < of[l]) /\ ~(of[l] < of[k])
      BY <2>2, <2>3, <2>4
    <3> QED
      BY <1>10, <2>1, <3>1 DEF Selects, d
  <2> HIDE DEF I
  <2> QED
    BY <1>10, <2>3, <2>4 DEF Bijection, Injection, Surjection, IsInjective, Selects, d
<1> HIDE DEF I
<1>13. ASSUME NEW k \in DOMAIN g.metrics
       PROVE  /\ g.metrics[k] \in MetricRecords
              /\ f.metrics[of[k]] \in MetricRecords
              /\ g.metrics[k].labels = kept(f.metrics[of[k]].labels)
              /\ g.metrics[k].ts = f.metrics[of[k]].ts
  <2>1. g.metrics[k] \in MetricRecords
    BY <1>8, <1>9
  <2>2. of[k] \in DOMAIN f.metrics /\ f.metrics[of[k]] # Nil /\ g.metrics[k] = h[of[k]]
    BY <1>9, <1>10, <1>11 DEF Selects
  <2> QED
    BY <1>2, <1>4, <2>1, <2>2
<1> QED
  <2>1. of \in Bijection(DOMAIN g.metrics, {i \in DOMAIN f.metrics : f.metrics[i] # Nil})
    BY <1>9, <1>11, <1>12
  <2>2. \A k \in DOMAIN g.metrics :
          g.metrics[k].labels = Unelided(f.metrics[of[k]].labels, names)
    BY <1>13, Zenon DEF kept
  <2>3. ElidedTo(f, g, names)
    BY <1>13, <2>1, <2>2, Zenon DEF ElidedTo
  <2> QED
    BY <1>9, <2>3

-----------------------------------------------------------------------------
(* What Validate guarantees of a family that it lets pass. *)

\* The labels of a metric are those of the client c that sent it, as far as the
\* operator, by the flags g, has not overridden or elided them.
Owned(labels, c, g) ==
  /\ \A n \in DOMAIN c \ (DOMAIN g.labels \cup g.elide) :
       FirstIs(labels, n, c[n])
  /\ \A n \in DOMAIN g.labels \ g.elide : n \in NamesOf(labels)
  /\ \A i \in DOMAIN labels :
       labels[i].name \in DOMAIN g.labels => labels[i].value = g.labels[labels[i].name]
  /\ NamesOf(labels) \cap g.elide = {}

\* The time t, to the second.
Whole(t) == (t \div Second) * Second

\* A family has passed the checks of Validate: nothing is changed by them.
Passed(f, c) ==
  \A i \in DOMAIN f.metrics : f.metrics[i] # Nil =>
    \A n \in DOMAIN c : FirstIs(f.metrics[i].labels, n, c[n])

\* Before the labels to be elided are removed.
Overridden(labels, c, g) ==
  /\ \A n \in DOMAIN c \ DOMAIN g.labels : FirstIs(labels, n, c[n])
  /\ \A n \in DOMAIN g.labels : n \in NamesOf(labels)
  /\ \A i \in DOMAIN labels :
       labels[i].name \in DOMAIN g.labels => labels[i].value = g.labels[labels[i].name]

\* elide leaves the labels of the client and of the operator the first of their name.
LEMMA OwnedWhenElided ==
  ASSUME NEW labels \in Seq(LabelPairs), Overridden(labels, client, flags)
  PROVE  Owned(Unelided(labels, flags.elide), client, flags)
<1> DEFINE I == {j \in DOMAIN labels : labels[j].name \notin flags.elide}
           r == Squeeze(labels, I)
<1>1. r \in Seq(LabelPairs)
  BY Squeezed
<1>2. PICK origin : Selects(origin, r, labels, I)
  BY Squeezed
<1>3. ASSUME NEW n, n \in NamesOf(labels), n \notin flags.elide
      PROVE  n \in NamesOf(r) /\ FirstOf(r, n) = FirstOf(labels, n)
  <2>1. PICK i : FirstAt(labels, n, i)
    BY <1>3, FirstExists
  <2>2. i \in I
    BY <1>3, <2>1 DEF FirstAt
  <2> HIDE DEF I
  <2>3. n \in NamesOf(r) /\ FirstOf(r, n) = labels[i]
    BY <2>1, <2>2, FirstSqueezed
  <2>4. FirstOf(labels, n) = labels[i]
    BY <2>1, FirstFound
  <2> QED
    BY <2>3, <2>4
<1>4. \A k \in DOMAIN r : \E i \in DOMAIN labels : r[k] = labels[i] /\ labels[i].name \notin flags.elide
  <2> HIDE DEF r
  <2> QED
    BY <1>2 DEF Selects
<1> HIDE DEF r
<1>5. \A n \in DOMAIN client \ (DOMAIN flags.labels \cup flags.elide) : FirstIs(r, n, client[n])
  BY <1>3 DEF Overridden, FirstIs
<1>6. \A n \in DOMAIN flags.labels \ flags.elide : n \in NamesOf(r)
  BY <1>3 DEF Overridden
<1>7. \A i \in DOMAIN r :
        r[i].name \in DOMAIN flags.labels => r[i].value = flags.labels[r[i].name]
  BY <1>4 DEF Overridden
<1>8. NamesOf(r) \cap flags.elide = {}
  BY <1>4 DEF NamesOf
<1>9. Owned(r, client, flags)
  BY <1>5, <1>6, <1>7, <1>8 DEF Owned
<1> QED
  BY <1>9 DEF r, Unelided

\* How a family f that passes becomes g: the checks leave it alone, and each of
\* the transformers makes another one of it.
Stages(f, now, fo, fw, fl, g) ==
  /\ OverwriteTimestamps(f, now, Second) = Keep(fo)
  /\ Whitelist(fo, Rules).family = fw
  /\ IF DOMAIN flags.labels = {} THEN fl = fw
     ELSE Label(fw, flags.labels, SetToSeq(DOMAIN flags.labels)) = Keep(fl)
  /\ Elide(fl, flags.elide) = Keep(g)

\* The decoder found a name and a type.
Named(f) == f.name # "" /\ f.type # NoType

\* What becomes of a family, and why one is dropped.
LEMMA Outcome ==
  ASSUME IsFiniteSet(DOMAIN client), NEW f \in FamilyRecords, NEW now,
         NEW order \in SetToSeqs(DOMAIN client)
  PROVE  LET r == ValidateFamily(f, now, order) IN
         /\ r.verdict = "ok" =>
              /\ Named(f)
              /\ Passed(f, client)
              /\ \E fo, fw, fl : Stages(f, now, fo, fw, fl, r.family)
         /\ r.verdict = "drop" =>
              \/ f.name = "" \/ f.type = NoType
              \/ \A i \in DOMAIN f.metrics : f.metrics[i] = Nil
              \/ \E fo : /\ OverwriteTimestamps(f, now, Second) = Keep(fo)
                         /\ Whitelist(fo, Rules).verdict = "drop"
<1> DEFINE c1 == ErrorOnUnsorted(f)
           c2 == Then(c1, LAMBDA g : RequiredLabels(g, client, order))
           c3 == Then(c2, DropEmptyFamilies)
           c4 == Then(c3, LAMBDA g : IF MaxAge > 0 THEN ErrorInvalidFederateSamples(g, min) ELSE Keep(g))
           o == Then(c4, LAMBDA g : OverwriteTimestamps(g, now, Second))
           w == Then(o, LAMBDA g : Whitelist(g, Rules))
           l == Then(w, LAMBDA g : IF DOMAIN flags.labels = {} THEN Keep(g)
                                   ELSE Label(g, flags.labels, SetToSeq(DOMAIN flags.labels)))
           e == Then(l, LAMBDA g : Elide(g, flags.elide))
           R == RequiredLabels(f, client, order)
<1>1. ValidateFamily(f, now, order) = e
  BY DEF ValidateFamily
<1>2. IF l.verdict = "ok" THEN e = Elide(l.family, flags.elide) ELSE e = l
  <2> HIDE DEF l
  <2> QED
    BY DEF Then
<1>3. IF w.verdict = "ok" THEN l = IF DOMAIN flags.labels = {} THEN Keep(w.family)
                                   ELSE Label(w.family, flags.labels, SetToSeq(DOMAIN flags.labels))
      ELSE l = w
  <2> HIDE DEF w
  <2> QED
    BY DEF Then
<1>4. IF o.verdict = "ok" THEN w = Whitelist(o.family, Rules) ELSE w = o
  <2> HIDE DEF o
  <2> QED
    BY DEF Then
<1>5. IF c4.verdict = "ok" THEN o = OverwriteTimestamps(c4.family, now, Second) ELSE o = c4
  <2> HIDE DEF c4
  <2> QED
    BY DEF Then
<1>6. IF c3.verdict = "ok" THEN c4 = ErrorInvalidFederateSamples(c3.family, min) ELSE c4 = c3
  <2> HIDE DEF c3
  <2>1. MaxAge > 0
    BY UploadAssumption DEF UploadAssumption
  <2> QED
    BY <2>1 DEF Then
<1>7. IF c2.verdict = "ok" THEN c3 = DropEmptyFamilies(c2.family) ELSE c3 = c2
  <2> HIDE DEF c2
  <2> QED
    BY DEF Then
<1>8. IF c1.verdict = "ok" THEN c2 = R ELSE c2 = c1
  <2>1. c1.family = f
    BY DEF ErrorOnUnsorted, Result
  <2> HIDE DEF c1
  <2> QED
    BY <2>1 DEF Then
<1>9. c1.verdict # "drop"
  BY DEF ErrorOnUnsorted, Result
<1> HIDE DEF c1, c2, c3, c4, o, w, l, e
<1>10. /\ R.family = f /\ R.verdict # "drop"
       /\ R.verdict = "ok" => Passed(f, client)
  <2>1. /\ R.family = f /\ R.verdict # "drop"
        /\ R.verdict = "ok" => \A n \in DOMAIN client : RequireLabel(f, n, client[n]).verdict = "ok"
    BY RequiredLabelsPass
  <2> HIDE DEF R
  <2> QED
    BY <2>1, RequireLabelPasses DEF Passed
<1> HIDE DEF R
<1>11. /\ c2.verdict # "drop"
       /\ c2.verdict = "ok" => c2.family = f /\ Passed(f, client)
  BY <1>8, <1>9, <1>10
<1>12. /\ c3.verdict = "ok" => c3.family = f /\ Passed(f, client)
       /\ c3.verdict = "drop" => \A i \in DOMAIN f.metrics : f.metrics[i] = Nil
  <2>1. CASE c2.verdict # "ok"
    BY <1>7, <1>11, <2>1
  <2>2. CASE c2.verdict = "ok"
    <3>1. c3.family = f /\ c3.verdict = IF Dense(f.metrics) = <<>> THEN "drop" ELSE "ok"
      BY <1>7, <1>11, <2>2 DEF DropEmptyFamilies, Result
    <3>2. ASSUME Dense(f.metrics) = <<>> PROVE \A i \in DOMAIN f.metrics : f.metrics[i] = Nil
      <4>1. DOMAIN Dense(f.metrics) = {}
        BY <3>2
      <4> QED
        BY <4>1, DenseIs DEF FamilyRecords
    <3> QED
      BY <1>11, <2>2, <3>1, <3>2
  <2> QED
    BY <2>1, <2>2
<1>13. /\ c4.verdict = "ok" => /\ c4.family = f /\ Passed(f, client)
                              /\ f.name # "" /\ f.type # NoType
       /\ c4.verdict = "drop" => \/ f.name = "" \/ f.type = NoType
                                \/ \A i \in DOMAIN f.metrics : f.metrics[i] = Nil
  <2>1. CASE c3.verdict # "ok"
    BY <1>6, <1>12, <2>1
  <2>2. CASE c3.verdict = "ok"
    <3> DEFINE x == ErrorInvalidFederateSamples(f, min)
    <3>1. /\ x.family = f
          /\ x.verdict = "ok" => f.name # "" /\ f.type # NoType
          /\ x.verdict = "drop" => f.name = "" \/ f.type = NoType
      BY DEF ErrorInvalidFederateSamples, Result
    <3> HIDE DEF x
    <3>2. c4 = x
      BY <1>6, <1>12, <2>2 DEF x
    <3> QED
      BY <1>12, <2>2, <3>1, <3>2
  <2> QED
    BY <2>1, <2>2
<1> DEFINE O == OverwriteTimestamps(f, now, Second)
<1>14. /\ o.verdict = "ok" => c4.verdict = "ok" /\ O = Keep(o.family)
       /\ o.verdict = "drop" => c4.verdict = "drop"
  <2>1. c4.verdict = "ok" => o = O
    BY <1>5, <1>13
  <2>2. O.verdict # "drop" /\ (O.verdict = "ok" => O = Keep(O.family))
    BY DEF OverwriteTimestamps, Keep, Result
  <2> HIDE DEF O
  <2> QED
    BY <1>5, <2>1, <2>2
<1>15. w.verdict = "drop" => \/ c4.verdict = "drop"
                            \/ (O = Keep(o.family) /\ Whitelist(o.family, Rules).verdict = "drop")
  <2> HIDE DEF O
  <2> QED
    BY <1>4, <1>14
<1>16. l.verdict = "drop" => w.verdict = "drop"
  BY <1>3 DEF Label, Keep, Result
<1>17. e.verdict = "drop" => l.verdict = "drop"
  BY <1>2 DEF Elide, Keep, Result
<1>18. ASSUME e.verdict = "ok"
       PROVE  c4.verdict = "ok" /\ Stages(f, now, o.family, w.family, l.family, e.family)
  <2>1. l.verdict = "ok" /\ e = Elide(l.family, flags.elide)
    BY <1>2, <1>18
  <2>2. w.verdict = "ok" /\ l = IF DOMAIN flags.labels = {} THEN Keep(w.family)
                                ELSE Label(w.family, flags.labels, SetToSeq(DOMAIN flags.labels))
    BY <1>3, <2>1
  <2>3. o.verdict = "ok" /\ w = Whitelist(o.family, Rules)
    BY <1>4, <2>2
  <2>4. Elide(l.family, flags.elide) = Keep(e.family)
    BY <2>1 DEF Elide, Keep, Result
  <2>5. IF DOMAIN flags.labels = {} THEN l.family = w.family
        ELSE Label(w.family, flags.labels, SetToSeq(DOMAIN flags.labels)) = Keep(l.family)
    <3>1. CASE DOMAIN flags.labels = {}
      BY <2>2, <3>1 DEF Keep, Result
    <3>2. CASE DOMAIN flags.labels # {}
      BY <2>1, <2>2, <3>2 DEF Label, Keep, Result
    <3> QED
      BY <3>1, <3>2
  <2> QED
    BY <1>14, <2>3, <2>4, <2>5 DEF Stages
<1>19. e.verdict = "ok" =>
         /\ Named(f)
         /\ Passed(f, client)
         /\ \E fo, fw, fl : Stages(f, now, fo, fw, fl, e.family)
  BY <1>13, <1>18 DEF Named
<1>20. e.verdict = "drop" =>
         \/ f.name = "" \/ f.type = NoType
         \/ \A i \in DOMAIN f.metrics : f.metrics[i] = Nil
         \/ \E fo : O = Keep(fo) /\ Whitelist(fo, Rules).verdict = "drop"
  BY <1>13, <1>15, <1>16, <1>17
<1> QED
  BY <1>1, <1>19, <1>20

\* A family that Validate lets pass carries the client's labels and the time at
\* which it was handled.
LEMMA Validated ==
  ASSUME flags \in Flags, NEW f \in FamilyRecords, NEW now \in Nat, Passed(f, client),
         NEW fo, NEW fw, NEW fl, NEW fe, Stages(f, now, fo, fw, fl, fe)
  PROVE  /\ fe \in FamilyRecords
         /\ \A k \in DOMAIN fe.metrics :
              /\ fe.metrics[k] \in MetricRecords
              /\ Owned(fe.metrics[k].labels, client, flags)
              /\ fe.metrics[k].ts = Whole(now)
<1> DEFINE Stamped(m) == m \in MetricRecords /\ m.ts = Whole(now)
<1>10. UploadAssumption
  BY UploadAssumption
<1>12. /\ fo \in FamilyRecords
       /\ \A i \in DOMAIN fo.metrics :
            Stamped(fo.metrics[i]) /\ \A n \in DOMAIN client : FirstIs(fo.metrics[i].labels, n, client[n])
  <2>2. OverwriteTimestamps(f, now, Second) = Keep(fo)
    BY DEF Stages
  <2>3. Second \in Nat \ {0}
    BY <1>10 DEF UploadAssumption
  <2>4. /\ fo \in FamilyRecords /\ fo.name = f.name
        /\ DOMAIN fo.metrics = DOMAIN f.metrics
        /\ \A i \in DOMAIN fo.metrics :
             /\ f.metrics[i] \in MetricRecords /\ f.metrics[i] # Nil
             /\ fo.metrics[i] \in MetricRecords
             /\ fo.metrics[i].labels = f.metrics[i].labels
             /\ fo.metrics[i].ts = Whole(now)
    BY <2>2, <2>3, TimestampsOverwritten, ZenonT(40) DEF Whole
  <2> QED
    BY <2>4 DEF Passed
<1>13. /\ fw \in FamilyRecords
       /\ \A i \in DOMAIN fw.metrics : fw.metrics[i] # Nil =>
            Stamped(fw.metrics[i]) /\ \A n \in DOMAIN client : FirstIs(fw.metrics[i].labels, n, client[n])
  <2>1. Whitelist(fo, Rules).family = fw
    BY DEF Stages
  <2>2. /\ fw \in FamilyRecords /\ DOMAIN fw.metrics = DOMAIN fo.metrics
        /\ \A i \in DOMAIN fw.metrics : fw.metrics[i] \in {Nil, fo.metrics[i]}
    BY <1>12, <2>1, MetricsWhitelisted
  <2> HIDE DEF Stamped
  <2> QED
    BY <1>12, <2>2
<1>14. /\ fl \in FamilyRecords
       /\ \A i \in DOMAIN fl.metrics : fl.metrics[i] # Nil =>
            Stamped(fl.metrics[i]) /\ Overridden(fl.metrics[i].labels, client, flags)
  <2>1. IF DOMAIN flags.labels = {} THEN fl = fw
        ELSE Label(fw, flags.labels, SetToSeq(DOMAIN flags.labels)) = Keep(fl)
    BY DEF Stages
  <2>2. CASE DOMAIN flags.labels = {}
    <3>1. fl = fw
      BY <2>1, <2>2
    <3> HIDE DEF Stamped
    <3>2. \A i \in DOMAIN fl.metrics : fl.metrics[i] # Nil => Overridden(fl.metrics[i].labels, client, flags)
      BY <1>13, <2>2, <3>1 DEF Overridden
    <3> QED
      BY <1>13, <3>1, <3>2
  <2>3. CASE DOMAIN flags.labels # {}
    <3> DEFINE order2 == SetToSeq(DOMAIN flags.labels)
    <3>1. Label(fw, flags.labels, order2) = Keep(fl)
      BY <2>1, <2>3
    <3>2. /\ IsFiniteSet(DOMAIN flags.labels) /\ DOMAIN flags.labels \subseteq STRING
          /\ flags.labels \in [DOMAIN flags.labels -> Values]
      BY <1>10 DEF UploadAssumption
    <3>3. order2 \in SetToSeqs(DOMAIN flags.labels)
      BY <3>2, OrderChosen
    <3> HIDE DEF order2
    <3>4. /\ fl \in FamilyRecords
          /\ DOMAIN fl.metrics = DOMAIN fw.metrics
          /\ \A i \in DOMAIN fl.metrics :
               /\ fw.metrics[i] \in MetricRecords /\ fw.metrics[i] # Nil
               /\ fl.metrics[i] \in MetricRecords
               /\ fl.metrics[i].labels = AppendLabels(fw.metrics[i].labels, flags.labels, order2)
               /\ fl.metrics[i].ts = fw.metrics[i].ts
      BY <1>13, <3>1, <3>2, <3>3, MetricsLabelled
    <3>5. ASSUME NEW i \in DOMAIN fl.metrics
          PROVE  Stamped(fl.metrics[i]) /\ Overridden(fl.metrics[i].labels, client, flags)
      <4> DEFINE old == fw.metrics[i].labels
                 new == fl.metrics[i].labels
      <4>1. /\ old \in Seq(LabelPairs) /\ new = AppendLabels(old, flags.labels, order2)
            /\ \A n \in DOMAIN client : FirstIs(old, n, client[n])
        BY <1>13, <3>4 DEF MetricRecords
      <4>2. Stamped(fl.metrics[i])
        BY <1>13, <3>4
      <4> HIDE DEF old, new
      <4>3. /\ \A n, v : n \notin DOMAIN flags.labels /\ FirstIs(old, n, v) => FirstIs(new, n, v)
            /\ \A n \in DOMAIN flags.labels : n \in NamesOf(new)
            /\ \A j \in DOMAIN new :
                 new[j].name \in DOMAIN flags.labels => new[j].value = flags.labels[new[j].name]
        BY <3>2, <3>3, <4>1, LabelsAppended, SMTT(60)
      <4>4. Overridden(new, client, flags)
        BY <4>1, <4>3 DEF Overridden
      <4> QED
        BY <4>2, <4>4 DEF new
    <3> QED
      BY <3>4, <3>5
  <2> QED
    BY <2>2, <2>3
<1>15. Elide(fl, flags.elide) = Keep(fe)
  BY DEF Stages
<1>16. fe \in FamilyRecords
  BY <1>14, <1>15, MetricsElided
<1>17. ASSUME NEW k \in DOMAIN fe.metrics
       PROVE  fe.metrics[k] \in MetricRecords /\ Owned(fe.metrics[k].labels, client, flags) /\ fe.metrics[k].ts = Whole(now)
  <2> DEFINE left == {i \in DOMAIN fl.metrics : fl.metrics[i] # Nil}
  <2>0. PICK of \in Bijection(DOMAIN fe.metrics, left) : \A j \in DOMAIN fe.metrics :
          /\ fe.metrics[j] \in MetricRecords
          /\ fl.metrics[of[j]] \in MetricRecords
          /\ fe.metrics[j].labels = Unelided(fl.metrics[of[j]].labels, flags.elide)
          /\ fe.metrics[j].ts = fl.metrics[of[j]].ts
    <3>1. ElidedTo(fl, fe, flags.elide)
      BY <1>14, <1>15, MetricsElided
    <3> QED
      BY <3>1 DEF ElidedTo
  <2> DEFINE i == of[k]
  <2>1. i \in left
    <3> HIDE DEF left
    <3> QED
      BY DEF Bijection, Injection
  <2>2. /\ i \in DOMAIN fl.metrics /\ fl.metrics[i] \in MetricRecords /\ fl.metrics[i] # Nil
        /\ fe.metrics[k] \in MetricRecords
        /\ fe.metrics[k].labels = Unelided(fl.metrics[i].labels, flags.elide)
        /\ fe.metrics[k].ts = fl.metrics[i].ts
    BY <2>0, <2>1
  <2> HIDE DEF i
  <2>3. fl.metrics[i].labels \in Seq(LabelPairs) /\ Overridden(fl.metrics[i].labels, client, flags)
    BY <1>14, <2>2 DEF MetricRecords
  <2>4. Owned(Unelided(fl.metrics[i].labels, flags.elide), client, flags)
    BY <2>3, OwnedWhenElided
  <2> QED
    BY <1>14, <2>2, <2>4
<1> QED
  BY <1>16, <1>17

-----------------------------------------------------------------------------
(* Which metrics of a family are left, and with which of their labels. *)

\* The first label called n that is not empty is at position i.
FullAt(labels, n, i) ==
  /\ i \in DOMAIN labels
  /\ labels[i].name = n /\ labels[i].value # EmptyValue
  /\ \A j \in 1..(i - 1) : labels[j].name = n => labels[j].value = EmptyValue

\* The labels of a time series are these.
LEMMA FullTaken ==
  ASSUME NEW m \in MetricRecords, NEW n
  PROVE  /\ n \in DOMAIN LabelsOf(m) => \E i : FullAt(m.labels, n, i)
         /\ \A i : FullAt(m.labels, n, i) =>
              n \in DOMAIN LabelsOf(m) /\ LabelsOf(m)[n] = m.labels[i].value
<1> DEFINE labels == m.labels
           I == {i \in DOMAIN labels : labels[i].value # EmptyValue}
           full == Squeeze(labels, I)
           L == LabelsOf(m)
<1>1. labels \in Seq(LabelPairs)
  BY DEF MetricRecords
<1>2. L = [x \in NamesOf(full) |-> FirstOf(full, x).value]
  BY DEF LabelsOf
<1>3. PICK origin : Selects(origin, full, labels, I)
  BY <1>1, Squeezed
<1>4. full \in Seq(LabelPairs)
  BY <1>1, Squeezed
<1> HIDE DEF full, L, labels
<1>5. \A k \in DOMAIN full : /\ origin[k] \in DOMAIN labels /\ labels[origin[k]].value # EmptyValue
                             /\ full[k] = labels[origin[k]]
  BY <1>3 DEF Selects
<1>6. /\ DOMAIN labels = 1..Len(labels) /\ Len(labels) \in Nat
      /\ DOMAIN full = 1..Len(full) /\ Len(full) \in Nat
  BY <1>1, <1>4
<1>7. ASSUME n \in DOMAIN L PROVE \E i : FullAt(labels, n, i)
  <2>1. PICK k : FirstAt(full, n, k)
    BY <1>2, <1>4, <1>7, FirstExists
  <2>2. k \in DOMAIN full /\ full[k].name = n
    BY <2>1 DEF FirstAt
  <2>3. ASSUME NEW j \in 1..(origin[k] - 1), labels[j].name = n, labels[j].value # EmptyValue
        PROVE  FALSE
    <3>1. origin[k] \in 1..Len(labels) /\ j \in 1..Len(labels)
      BY <1>5, <1>6, <2>2
    <3>2. PICK l \in DOMAIN full : origin[l] = j
      BY <1>3, <1>6, <2>3, <3>1 DEF Selects
    <3>3. origin[l] < origin[k] /\ ~(origin[k] < origin[l]) /\ l # k
      BY <3>1, <3>2
    <3>4. l < k
      BY <1>3, <1>6, <2>2, <3>2, <3>3 DEF Selects
    <3>5. l \in 1..(k - 1)
      BY <1>6, <2>2, <3>2, <3>4
    <3>6. full[l].name # n
      BY <2>1, <3>5 DEF FirstAt
    <3> QED
      BY <1>5, <2>3, <3>2, <3>6
  <2>4. FullAt(labels, n, origin[k])
    BY <1>5, <2>2, <2>3 DEF FullAt
  <2> QED
    BY <2>4
<1>8. ASSUME NEW i, FullAt(labels, n, i) PROVE n \in DOMAIN L /\ L[n] = labels[i].value
  <2>1. i \in DOMAIN labels \cap I
    BY <1>8 DEF FullAt
  <2>2. PICK k \in DOMAIN full : origin[k] = i
    BY <1>3, <2>1 DEF Selects
  <2>3. ASSUME NEW l \in 1..(k - 1) PROVE full[l].name # n
    <3>1. l \in DOMAIN full /\ l < k
      BY <1>6, <2>2
    <3>2. origin[l] < i
      BY <1>3, <2>2, <3>1 DEF Selects
    <3>3. origin[l] \in 1..(i - 1) /\ full[l] = labels[origin[l]] /\ labels[origin[l]].value # EmptyValue
      BY <1>5, <1>6, <2>1, <3>1, <3>2
    <3> QED
      BY <1>8, <3>3 DEF FullAt
  <2>4. FirstAt(full, n, k) /\ full[k] = labels[i]
    BY <1>5, <1>8, <2>2, <2>3 DEF FirstAt, FullAt
  <2>5. n \in NamesOf(full) /\ FirstOf(full, n) = labels[i]
    BY <1>4, <2>4, FirstFound
  <2> QED
    BY <1>2, <2>5
<1> QED
  BY <1>7, <1>8 DEF labels, L

\* The labels that the operator neither sets nor elides have the values they had.
Retains(new, old, g) ==
  \A n, i : n \notin DOMAIN g.labels \cup g.elide /\ FullAt(old, n, i) =>
    \E k : FullAt(new, n, k) /\ new[k].value = old[i].value

\* What two transformers retain one after the other, both retain.
LEMMA RetainsTransitive ==
  ASSUME NEW a, NEW b, NEW c, NEW g, Retains(b, a, g), Retains(c, b, g)
  PROVE  Retains(c, a, g)
<1> SUFFICES ASSUME NEW n, NEW i, n \notin DOMAIN g.labels \cup g.elide, FullAt(a, n, i)
             PROVE  \E k : FullAt(c, n, k) /\ c[k].value = a[i].value
  BY DEF Retains
<1>1. PICK j : FullAt(b, n, j) /\ b[j].value = a[i].value
  BY DEF Retains
<1>2. PICK k : FullAt(c, n, k) /\ c[k].value = b[j].value
  BY <1>1 DEF Retains
<1> QED
  BY <1>1, <1>2

\* The conversion carries the labels that the transformers have retained.
LEMMA RetainedCarried ==
  ASSUME NEW m \in MetricRecords, NEW old \in MetricRecords, NEW g, Retains(m.labels, old.labels, g)
  PROVE  Carries(LabelsOf(m), old, g)
<1> SUFFICES ASSUME NEW n \in DOMAIN LabelsOf(old) \ (DOMAIN g.labels \cup g.elide)
             PROVE  n \in DOMAIN LabelsOf(m) /\ LabelsOf(m)[n] = LabelsOf(old)[n]
  BY DEF Carries
<1>1. PICK i : FullAt(old.labels, n, i)
  BY FullTaken
<1>2. LabelsOf(old)[n] = old.labels[i].value
  BY <1>1, FullTaken
<1>3. PICK k : FullAt(m.labels, n, k) /\ m.labels[k].value = old.labels[i].value
  BY <1>1 DEF Retains
<1>4. n \in DOMAIN LabelsOf(m) /\ LabelsOf(m)[n] = m.labels[k].value
  BY <1>3, FullTaken
<1> QED
  BY <1>2, <1>3, <1>4

\* elide retains all labels but those it removes.
LEMMA ElidedRetains ==
  ASSUME NEW labels \in Seq(LabelPairs), NEW g
  PROVE  Retains(Unelided(labels, g.elide), labels, g)
<1> DEFINE I == {j \in DOMAIN labels : labels[j].name \notin g.elide}
           r == Squeeze(labels, I)
<1>1. Unelided(labels, g.elide) = r
  BY DEF Unelided
<1>2. r \in Seq(LabelPairs)
  BY Squeezed
<1>3. PICK origin : Selects(origin, r, labels, I)
  BY Squeezed
<1> HIDE DEF r
<1>4. ASSUME NEW n, NEW i, n \notin DOMAIN g.labels \cup g.elide, FullAt(labels, n, i)
      PROVE  \E k : FullAt(r, n, k) /\ r[k].value = labels[i].value
  <2>1. i \in DOMAIN labels \cap I
    BY <1>4 DEF FullAt
  <2>2. PICK k \in DOMAIN r : origin[k] = i
    BY <1>3, <2>1 DEF Selects
  <2>3. ASSUME NEW l \in 1..(k - 1), r[l].name = n PROVE r[l].value = EmptyValue
    <3>1. l \in DOMAIN r /\ l < k
      BY <1>2, <2>2
    <3>2. origin[l] < i /\ origin[l] \in DOMAIN labels /\ r[l] = labels[origin[l]]
      BY <1>3, <2>2, <3>1 DEF Selects
    <3>3. origin[l] \in 1..(i - 1)
      BY <2>1, <3>2
    <3> QED
      BY <1>4, <2>3, <3>2, <3>3 DEF FullAt
  <2>4. r[k] = labels[i]
    BY <1>3, <2>2 DEF Selects
  <2>5. FullAt(r, n, k)
    BY <1>4, <2>2, <2>3, <2>4 DEF FullAt
  <2> QED
    BY <2>4, <2>5
<1> QED
  BY <1>1, <1>4 DEF Retains

\* appendLabels retains all labels but those it overrides.
LEMMA AppendedRetains ==
  ASSUME NEW labels \in Seq(LabelPairs), NEW g, IsFiniteSet(DOMAIN g.labels),
         DOMAIN g.labels \subseteq STRING, g.labels \in [DOMAIN g.labels -> Values],
         NEW order \in SetToSeqs(DOMAIN g.labels)
  PROVE  Retains(AppendLabels(labels, g.labels, order), labels, g)
<1> DEFINE r == AppendLabels(labels, g.labels, order)
<1>1. \A i \in DOMAIN labels : /\ i \in DOMAIN r /\ r[i].name = labels[i].name
                               /\ r[i].name \notin DOMAIN g.labels => r[i] = labels[i]
  <2>1. InPlace(r, labels, g.labels)
    BY LabelsAppended
  <2> HIDE DEF r
  <2> QED
    BY <2>1 DEF InPlace
<1> HIDE DEF r
<1>2. ASSUME NEW n, NEW i, n \notin DOMAIN g.labels \cup g.elide, FullAt(labels, n, i)
      PROVE  FullAt(r, n, i) /\ r[i].value = labels[i].value
  <2>1. i \in DOMAIN labels /\ i \in DOMAIN r /\ r[i] = labels[i]
    BY <1>1, <1>2 DEF FullAt
  <2>2. ASSUME NEW j \in 1..(i - 1), r[j].name = n PROVE r[j].value = EmptyValue
    <3>1. j \in DOMAIN labels
      BY <2>1
    <3>2. r[j] = labels[j]
      BY <1>1, <1>2, <2>2, <3>1
    <3> QED
      BY <1>2, <2>2, <3>2 DEF FullAt
  <2> QED
    BY <1>2, <2>1, <2>2 DEF FullAt
<1> QED
  BY <1>2 DEF Retains, r

\* g is what is left of f: its metrics are, one for one, those of f that the
\* whitelist admits.
Descends(g, f, fl) ==
  /\ g.name = f.name
  /\ \E of \in Bijection(DOMAIN g.metrics, Admitted(f)) : \A k \in DOMAIN g.metrics :
       Carries(LabelsOf(g.metrics[k]), f.metrics[of[k]], fl)

\* A family that Validate lets pass has lost no metric that the whitelist admits.
LEMMA Descended ==
  ASSUME flags \in Flags, NEW f \in FamilyRecords, NEW now \in Nat, Named(f),
         NEW fo, NEW fw, NEW fl, NEW fe, Stages(f, now, fo, fw, fl, fe)
  PROVE  Descends(fe, f, flags)
<1> DEFINE Left(g) == {i \in DOMAIN g.metrics : g.metrics[i] # Nil}
<1>1. /\ fo \in FamilyRecords /\ fo.name = f.name
      /\ DOMAIN fo.metrics = DOMAIN f.metrics
      /\ \A i \in DOMAIN fo.metrics :
           /\ f.metrics[i] \in MetricRecords /\ f.metrics[i] # Nil
           /\ fo.metrics[i] \in MetricRecords /\ fo.metrics[i] # Nil
           /\ fo.metrics[i].labels = f.metrics[i].labels
  <2>1. OverwriteTimestamps(f, now, Second) = Keep(fo)
    BY DEF Stages
  <2>2. Second \in Nat \ {0}
    BY UploadAssumption DEF UploadAssumption
  <2>3. /\ fo \in FamilyRecords /\ fo.name = f.name
        /\ DOMAIN fo.metrics = DOMAIN f.metrics
        /\ \A i \in DOMAIN fo.metrics :
             /\ f.metrics[i] \in MetricRecords /\ f.metrics[i] # Nil
             /\ fo.metrics[i] \in MetricRecords
             /\ fo.metrics[i].labels = f.metrics[i].labels
             /\ fo.metrics[i].ts = (now \div Second) * Second
    BY <2>1, <2>2, TimestampsOverwritten, ZenonT(40)
  <2> QED
    BY <2>3, NilAssumption
<1>2. /\ fw \in FamilyRecords /\ fw.name = f.name
      /\ Left(fw) = Admitted(f)
      /\ \A i \in Left(fw) : fw.metrics[i] \in MetricRecords /\ fw.metrics[i].labels = f.metrics[i].labels
  <2>1. Whitelist(fo, Rules).family = fw
    BY DEF Stages
  <2>2. /\ fw \in FamilyRecords /\ fw.name = fo.name /\ DOMAIN fw.metrics = DOMAIN fo.metrics
        /\ \A i \in DOMAIN fw.metrics : fw.metrics[i] \in {Nil, fo.metrics[i]}
        /\ \A i \in DOMAIN fw.metrics : fw.metrics[i] # Nil <=>
             fo.metrics[i] # Nil /\ \E r \in Rules : Match(fo.name, fo.metrics[i], r)
    <3>1. fo \in FamilyRecords
      BY <1>1
    <3> QED
      BY <2>1, <3>1, MetricsWhitelisted
  <2>3. \A i \in DOMAIN f.metrics : \A r : Match(fo.name, fo.metrics[i], r) <=> Match(f.name, f.metrics[i], r)
    BY <1>1 DEF Match
  <2>4. Left(fw) = Admitted(f)
    BY <1>1, <2>2, <2>3 DEF Admitted, Named
  <2> QED
    BY <1>1, <2>2, <2>4
<1>3. /\ fl \in FamilyRecords /\ fl.name = f.name
      /\ Left(fl) = Admitted(f)
      /\ \A i \in Left(fl) : /\ fl.metrics[i] \in MetricRecords
                             /\ Retains(fl.metrics[i].labels, f.metrics[i].labels, flags)
  <2>1. IF DOMAIN flags.labels = {} THEN fl = fw
        ELSE Label(fw, flags.labels, SetToSeq(DOMAIN flags.labels)) = Keep(fl)
    BY DEF Stages
  <2>2. CASE DOMAIN flags.labels = {}
    <3>1. fl = fw
      BY <2>1, <2>2
    <3>2. \A l : Retains(l, l, flags)
      BY DEF Retains
    <3> QED
      BY <1>2, <3>1, <3>2
  <2>3. CASE DOMAIN flags.labels # {}
    <3> DEFINE order == SetToSeq(DOMAIN flags.labels)
    <3>1. Label(fw, flags.labels, order) = Keep(fl)
      BY <2>1, <2>3
    <3>2. /\ IsFiniteSet(DOMAIN flags.labels) /\ DOMAIN flags.labels \subseteq STRING
          /\ flags.labels \in [DOMAIN flags.labels -> Values]
      BY UploadAssumption DEF UploadAssumption
    <3>3. order \in SetToSeqs(DOMAIN flags.labels)
      BY <3>2, OrderChosen
    <3> HIDE DEF order
    <3>4. /\ fl \in FamilyRecords /\ fl.name = fw.name
          /\ DOMAIN fl.metrics = DOMAIN fw.metrics
          /\ \A i \in DOMAIN fl.metrics :
               /\ fw.metrics[i] \in MetricRecords /\ fw.metrics[i] # Nil
               /\ fl.metrics[i] \in MetricRecords
               /\ fl.metrics[i].labels = AppendLabels(fw.metrics[i].labels, flags.labels, order)
               /\ fl.metrics[i].ts = fw.metrics[i].ts
      <4>1. fw \in FamilyRecords
        BY <1>2
      <4> QED
        BY <3>1, <3>2, <3>3, <4>1, MetricsLabelled
    <3>5. Left(fl) = Left(fw)
      BY <3>4, NilAssumption
    <3>6. ASSUME NEW i \in Left(fl) PROVE Retains(fl.metrics[i].labels, f.metrics[i].labels, flags)
      <4>1. fw.metrics[i].labels \in Seq(LabelPairs) /\ fw.metrics[i].labels = f.metrics[i].labels
        BY <1>2, <3>5 DEF MetricRecords
      <4>2. fl.metrics[i].labels = AppendLabels(fw.metrics[i].labels, flags.labels, order)
        BY <3>4
      <4> QED
        BY <3>2, <3>3, <4>1, <4>2, AppendedRetains
    <3> QED
      BY <1>2, <3>4, <3>5, <3>6
  <2> QED
    BY <2>2, <2>3
<1>3a. fl \in FamilyRecords
  BY <1>3
<1>4. Elide(fl, flags.elide) = Keep(fe)
  BY DEF Stages
<1>5. fe \in FamilyRecords /\ fe.name = f.name
  <2>1. fl \in FamilyRecords /\ fl.name = f.name
    BY <1>3
  <2> QED
    BY <1>4, <2>1, MetricsElided
<1>5a. ElidedTo(fl, fe, flags.elide)
  BY <1>3a, <1>4, MetricsElided
<1> DEFINE left == {i \in DOMAIN fl.metrics : fl.metrics[i] # Nil}
<1>6. PICK of \in Bijection(DOMAIN fe.metrics, left) : \A k \in DOMAIN fe.metrics :
        /\ fe.metrics[k] \in MetricRecords
        /\ fl.metrics[of[k]] \in MetricRecords
        /\ fe.metrics[k].labels = Unelided(fl.metrics[of[k]].labels, flags.elide)
        /\ fe.metrics[k].ts = fl.metrics[of[k]].ts
  BY <1>5a, Zenon DEF ElidedTo
<1>6a. left = Left(fl)
  OBVIOUS
<1> HIDE DEF left, Left
<1>7. ASSUME NEW k \in DOMAIN fe.metrics
      PROVE  Carries(LabelsOf(fe.metrics[k]), f.metrics[of[k]], flags)
  <2> DEFINE i == of[k]
  <2>1. i \in Left(fl)
    BY <1>6a DEF Bijection, Injection
  <2>2. i \in DOMAIN f.metrics /\ f.metrics[i] # Nil
    BY <1>3, <2>1 DEF Admitted
  <2> HIDE DEF i
  <2>3. f.metrics[i] \in MetricRecords
    <3>1. f.metrics \in Seq(MetricRecords \cup {Nil})
      BY DEF FamilyRecords
    <3> QED
      BY <2>2, <3>1
  <2>4. /\ fl.metrics[i].labels \in Seq(LabelPairs)
        /\ Retains(fl.metrics[i].labels, f.metrics[i].labels, flags)
    BY <1>3, <2>1 DEF MetricRecords
  <2>5. fe.metrics[k] \in MetricRecords /\ fe.metrics[k].labels = Unelided(fl.metrics[i].labels, flags.elide)
    BY <1>6 DEF i
  <2>6. Retains(fe.metrics[k].labels, fl.metrics[i].labels, flags)
    BY <2>4, <2>5, ElidedRetains
  <2>7. Retains(fe.metrics[k].labels, f.metrics[i].labels, flags)
    BY <2>4, <2>6, RetainsTransitive
  <2>8. Carries(LabelsOf(fe.metrics[k]), f.metrics[i], flags)
    BY <2>3, <2>5, <2>7, RetainedCarried
  <2> QED
    BY <2>8 DEF i
<1> QED
  BY <1>3, <1>5, <1>6, <1>6a, <1>7 DEF Descends

\* One that is dropped has none.
LEMMA NothingDropped ==
  ASSUME IsFiniteSet(DOMAIN client), NEW f \in FamilyRecords, NEW now \in Nat,
         NEW order \in SetToSeqs(DOMAIN client), ValidateFamily(f, now, order).verdict = "drop"
  PROVE  Admitted(f) = {}
<1>1. \/ f.name = "" \/ f.type = NoType
      \/ \A i \in DOMAIN f.metrics : f.metrics[i] = Nil
      \/ \E fo : /\ OverwriteTimestamps(f, now, Second) = Keep(fo)
                 /\ Whitelist(fo, Rules).verdict = "drop"
  BY Outcome
<1>2. CASE f.name = "" \/ f.type = NoType \/ \A i \in DOMAIN f.metrics : f.metrics[i] = Nil
  BY <1>2 DEF Admitted
<1>3. ASSUME NEW fo, OverwriteTimestamps(f, now, Second) = Keep(fo), Whitelist(fo, Rules).verdict = "drop"
      PROVE  Admitted(f) = {}
  <2>1. Second \in Nat \ {0}
    BY UploadAssumption DEF UploadAssumption
  <2>2. /\ fo \in FamilyRecords /\ fo.name = f.name
        /\ DOMAIN fo.metrics = DOMAIN f.metrics
        /\ \A i \in DOMAIN fo.metrics :
             /\ f.metrics[i] \in MetricRecords /\ f.metrics[i] # Nil
             /\ fo.metrics[i] \in MetricRecords
             /\ fo.metrics[i].labels = f.metrics[i].labels
             /\ fo.metrics[i].ts = (now \div Second) * Second
    BY <1>3, <2>1, TimestampsOverwritten, ZenonT(40)
  <2>3. fo \in FamilyRecords
    BY <2>2
  <2>4. \A i \in DOMAIN f.metrics : ~ \E r \in Rules : Match(fo.name, fo.metrics[i], r)
    <3>1. \A i \in DOMAIN fo.metrics :
            fo.metrics[i] = Nil \/ ~ \E r \in Rules : Match(fo.name, fo.metrics[i], r)
      BY <1>3, <2>3, WhitelistedNone
    <3> QED
      BY <2>2, <3>1, NilAssumption
  <2>5. \A i \in DOMAIN f.metrics : \A r : Match(fo.name, fo.metrics[i], r) <=> Match(f.name, f.metrics[i], r)
    BY <2>2 DEF Match
  <2> QED
    BY <2>4, <2>5 DEF Admitted
<1> QED
  BY <1>1, <1>2, <1>3

-----------------------------------------------------------------------------
(* What becomes of it in the time series. *)

\* The labels of a time series, by the client c and the flags g.
Isolated(labels, c, g) ==
  /\ \A n \in DOMAIN c \ (DOMAIN g.labels \cup g.elide) :
       c[n] # EmptyValue => n \in DOMAIN labels /\ labels[n] = c[n]
  /\ \A n \in DOMAIN g.labels \ g.elide :
       IF g.labels[n] = EmptyValue THEN n \notin DOMAIN labels
       ELSE n \in DOMAIN labels /\ labels[n] = g.labels[n]
  /\ DOMAIN labels \cap g.elide = {}

\* Skipping empty labels and taking the first of each name turns labels that
\* pass Validate into ones that identify the client.
LEMMA OwnedIsIsolated ==
  ASSUME NEW m \in MetricRecords, NEW c, NEW g, Owned(m.labels, c, g)
  PROVE  Isolated(LabelsOf(m), c, g)
<1> DEFINE labels == m.labels
           I == {i \in DOMAIN labels : labels[i].value # EmptyValue}
           full == Squeeze(labels, I)
           L == LabelsOf(m)
<1>1. labels \in Seq(LabelPairs)
  BY DEF MetricRecords
<1>2. L = [n \in NamesOf(full) |-> FirstOf(full, n).value]
  BY DEF LabelsOf
<1>3. PICK origin : Selects(origin, full, labels, I)
  BY <1>1, Squeezed
<1>4. full \in Seq(LabelPairs)
  BY <1>1, Squeezed
<1>5. Owned(labels, c, g)
  OBVIOUS
<1>6. ASSUME NEW n, NEW i, FirstAt(labels, n, i), labels[i].value # EmptyValue
      PROVE  n \in DOMAIN L /\ L[n] = labels[i].value
  <2>1. i \in I
    BY <1>6 DEF FirstAt
  <2> HIDE DEF I, labels
  <2>2. n \in NamesOf(full) /\ FirstOf(full, n) = labels[i]
    BY <1>1, <1>6, <2>1, FirstSqueezed
  <2> HIDE DEF full, L
  <2> QED
    BY <1>2, <2>2
<1>7. \A k \in DOMAIN full : \E i \in DOMAIN labels : full[k] = labels[i] /\ labels[i].value # EmptyValue
  <2> HIDE DEF full, labels
  <2> QED
    BY <1>3 DEF Selects
<1> HIDE DEF full, L, labels, I
<1>8. DOMAIN L = NamesOf(full)
  BY <1>2
<1>9. ASSUME NEW n \in DOMAIN c \ (DOMAIN g.labels \cup g.elide), c[n] # EmptyValue
      PROVE  n \in DOMAIN L /\ L[n] = c[n]
  <2>1. FirstIs(labels, n, c[n])
    BY <1>5 DEF Owned
  <2>2. PICK i : FirstAt(labels, n, i)
    BY <1>1, <2>1, FirstExists DEF FirstIs
  <2>3. labels[i].value = c[n]
    BY <1>1, <2>1, <2>2, FirstFound DEF FirstIs
  <2> QED
    BY <1>6, <1>9, <2>2, <2>3
<1>10. ASSUME NEW n \in DOMAIN g.labels \ g.elide
       PROVE  IF g.labels[n] = EmptyValue THEN n \notin DOMAIN L
              ELSE n \in DOMAIN L /\ L[n] = g.labels[n]
  <2>1. PICK i : FirstAt(labels, n, i)
    BY <1>1, <1>5, FirstExists DEF Owned
  <2>2. \A j \in DOMAIN labels : labels[j].name = n => labels[j].value = g.labels[n]
    BY <1>5 DEF Owned
  <2>3. CASE g.labels[n] = EmptyValue
    BY <1>7, <1>8, <2>2, <2>3 DEF NamesOf
  <2>4. CASE g.labels[n] # EmptyValue
    <3>1. labels[i].value = g.labels[n]
      BY <2>1, <2>2 DEF FirstAt
    <3> QED
      BY <1>6, <2>1, <2>4, <3>1
  <2> QED
    BY <2>3, <2>4
<1>11. DOMAIN L \cap g.elide = {}
  BY <1>5, <1>7, <1>8 DEF Owned, NamesOf
<1>12. Isolated(L, c, g)
  BY <1>9, <1>10, <1>11 DEF Isolated
<1> QED
  BY <1>12 DEF L

\* A family is ready to be converted: its labels are those of c and g, and its
\* timestamps were written at one of the times in rd.
Clean(f, c, g, rd) ==
  /\ f \in FamilyRecords
  /\ \A j \in DOMAIN f.metrics :
       /\ f.metrics[j] \in MetricRecords
       /\ Owned(f.metrics[j].labels, c, g)
       /\ \E t \in rd : f.metrics[j].ts = Whole(t)

\* A time series is as Isolation and ServerTime want it.
Stored(x, c, g, rd, now) ==
  /\ Isolated(x.labels, c, g)
  /\ x.ts <= now
  /\ \E t \in rd \cup {now} : x.ts <= t /\ t < x.ts + Second

\* convertToTimeseries makes such series of such families.
LEMMA CleanIsStored ==
  ASSUME NEW fs \in Seq(FamilyRecords \cup {Nil}), NEW c, NEW g, NEW rd \in SUBSET Nat, NEW now \in Nat,
         \A i \in DOMAIN fs : Clean(fs[i], c, g, rd),
         NEW k \in DOMAIN ConvertToTimeseries(fs, now)
  PROVE  Stored(ConvertToTimeseries(fs, now)[k], c, g, rd, now)
<1> DEFINE S == UNION {{TimeSeries(fs[i], fs[i].metrics[j], now) : j \in DOMAIN fs[i].metrics}
                         : i \in DOMAIN fs}
           part(i) == [j \in DOMAIN fs[i].metrics |-> TimeSeries(fs[i], fs[i].metrics[j], now)]
           ss == [i \in DOMAIN fs |-> part(i)]
<1>1. Second \in Nat \ {0}
  BY UploadAssumption DEF UploadAssumption
<1>2. \A i \in DOMAIN fs : part(i) \in Seq(S)
  <2> TAKE i \in DOMAIN fs
  <2>1. DOMAIN fs[i].metrics = 1..Len(fs[i].metrics) /\ Len(fs[i].metrics) \in Nat
    BY DEF Clean, FamilyRecords
  <2>2. \A j \in DOMAIN fs[i].metrics : part(i)[j] \in S
    OBVIOUS
  <2>3. part(i) = [j \in DOMAIN fs[i].metrics |-> part(i)[j]]
    OBVIOUS
  <2> HIDE DEF part, S
  <2> QED
    BY <2>1, <2>2, <2>3, IsSequence
<1>3. ConvertToTimeseries(fs, now) = FlattenSeq(ss)
  BY DEF ConvertToTimeseries
<1>4. ss \in Seq(Seq(S))
  <2>1. DOMAIN fs = 1..Len(fs) /\ Len(fs) \in Nat
    OBVIOUS
  <2>2. ss = [i \in DOMAIN fs |-> ss[i]] /\ \A i \in DOMAIN fs : ss[i] \in Seq(S)
    <3> HIDE DEF part, S
    <3> QED
      BY <1>2
  <2> HIDE DEF ss, S
  <2> QED
    BY <2>1, <2>2, IsSequence
<1>5. ConvertToTimeseries(fs, now) \in Seq(S)
  <2> HIDE DEF ss, S
  <2> QED
    BY <1>3, <1>4, Flattened
<1>5a. ConvertToTimeseries(fs, now)[k] \in S
  <2> HIDE DEF S
  <2> QED
    BY <1>5
<1>5b. PICK i \in DOMAIN fs : \E j \in DOMAIN fs[i].metrics :
        ConvertToTimeseries(fs, now)[k] = TimeSeries(fs[i], fs[i].metrics[j], now)
  BY <1>5a
<1>6. PICK j \in DOMAIN fs[i].metrics :
        ConvertToTimeseries(fs, now)[k] = TimeSeries(fs[i], fs[i].metrics[j], now)
  BY <1>5b
<1> DEFINE m == fs[i].metrics[j]
           x == TimeSeries(fs[i], m, now)
<1>7. m \in MetricRecords /\ Owned(m.labels, c, g) /\ \E t \in rd : m.ts = Whole(t)
  BY DEF Clean
<1>8. x.labels = LabelsOf(m) /\ x.ts = IF m.ts > now THEN now ELSE m.ts
  BY DEF TimeSeries
<1> HIDE DEF m, x
<1>9. Isolated(x.labels, c, g)
  BY <1>7, <1>8, OwnedIsIsolated
<1>10. x.ts <= now /\ \E t \in rd \cup {now} : x.ts <= t /\ t < x.ts + Second
  <2>1. PICK t \in rd : m.ts = Whole(t)
    BY <1>7
  <2>2. Whole(t) \in Nat /\ Whole(t) <= t /\ t < Whole(t) + Second
    BY <1>1 DEF Whole
  <2>3. CASE m.ts > now
    BY <1>1, <1>8, <2>3
  <2>4. CASE ~(m.ts > now)
    BY <1>8, <2>1, <2>2, <2>4
  <2> QED
    BY <2>3, <2>4
<1> QED
  BY <1>6, <1>9, <1>10 DEF Stored, x, m

-----------------------------------------------------------------------------
(* From the body to the time series. *)

\* The families of fs come from different ones of the body b, src telling which;
\* every family of b with a metric to be forwarded is among those.
Sources(src, fs, b) ==
  /\ src \in [DOMAIN fs -> DOMAIN b]
  /\ \A k, l \in DOMAIN fs : src[k] = src[l] => k = l
  /\ \A i \in DOMAIN b : Admitted(b[i]) # {} => \E k \in DOMAIN fs : src[k] = i

\* What Validate may make of a family f.
Handled(r, f, g) == IF r = Nil THEN Admitted(f) = {} ELSE Descends(r, f, g)

\* Filter is at the n-th of the families: those before it are what Validate made
\* of families of the body, the others are as in the body.
Filtered(fs, b, n, g) ==
  \E src : /\ Sources(src, fs, b)
           /\ \A k \in DOMAIN fs : IF k < n THEN Handled(fs[k], b[src[k]], g) ELSE fs[k] = b[src[k]]

\* Filter is done, and nothing that it had to leave is lost.
Kept(fs, b, g) ==
  \E src : Sources(src, fs, b) /\ \A k \in DOMAIN fs : Descends(fs[k], b[src[k]], g)

\* The metrics of the body b that the whitelist admits.
WantedOf(b) == UNION {{i} \X Admitted(b[i]) : i \in DOMAIN b}

\* The series xs are, one for one, those of the metrics of b to be forwarded.
Complete(xs, b, g) ==
  \E of \in Bijection(DOMAIN xs, WantedOf(b)) : \A k \in DOMAIN xs :
    /\ xs[k].name = b[of[k][1]].name
    /\ Carries(xs[k].labels, b[of[k][1]].metrics[of[k][2]], g)

\* Wanted, for a given family and position.
LEMMA PairWanted ==
  ASSUME NEW b, NEW i \in DOMAIN b, NEW j
  PROVE  <<i, j>> \in WantedOf(b) <=> j \in Admitted(b[i])
BY DEF WantedOf

\* What is wanted is a family and a position.
LEMMA WantedPair ==
  ASSUME NEW b, NEW w \in WantedOf(b)
  PROVE  \E i \in DOMAIN b : \E j \in Admitted(b[i]) : w = <<i, j>>
BY DEF WantedOf

\* Pack keeps the families with metrics, in their order.
LEMMA Packed ==
  ASSUME NEW fs \in Seq(FamilyRecords \cup {Nil})
  PROVE  /\ Pack(fs) \in Seq(FamilyRecords)
         /\ Len(Pack(fs)) <= Len(fs)
         /\ \A k \in DOMAIN Pack(fs) : \E i \in DOMAIN fs : Pack(fs)[k] = fs[i] /\ fs[i] # Nil
         /\ \E origin : Selects(origin, Pack(fs), fs, {i \in DOMAIN fs : fs[i] # Nil /\ fs[i].metrics # <<>>})
<1> DEFINE I == {i \in DOMAIN fs : fs[i] # Nil /\ fs[i].metrics # <<>>}
           r == Squeeze(fs, I)
<1>1. Pack(fs) = r
  BY DEF Pack
<1>2. r \in Seq(FamilyRecords \cup {Nil}) /\ Len(r) <= Len(fs)
  BY Squeezed
<1>3. PICK origin : Selects(origin, r, fs, I)
  BY Squeezed
<1> HIDE DEF r
<1>4. \A k \in DOMAIN r : \E i \in DOMAIN fs : r[k] = fs[i] /\ fs[i] # Nil
  BY <1>3 DEF Selects
<1>5. r \in Seq(FamilyRecords)
  <2>1. r \in [1..Len(r) -> FamilyRecords \cup {Nil}] /\ Len(r) \in Nat
    BY <1>2
  <2>2. \A k \in 1..Len(r) : r[k] \in FamilyRecords
    BY <1>4, <2>1
  <2>3. r = [k \in 1..Len(r) |-> r[k]]
    BY <2>1
  <2> QED
    BY <2>1, <2>2, <2>3, IsSequence
<1> QED
  BY <1>1, <1>2, <1>3, <1>4, <1>5

\* Before Filter has looked at a family, nothing is lost.
LEMMA ReadFiltered ==
  ASSUME NEW b \in Seq(FamilyRecords), NEW g
  PROVE  Filtered(Pack(b), b, 1, g)
<1> DEFINE I == {i \in DOMAIN b : b[i] # Nil /\ b[i].metrics # <<>>}
           r == Pack(b)
<1>1. b \in Seq(FamilyRecords \cup {Nil})
  OBVIOUS
<1>2. PICK src : Selects(src, r, b, I)
  BY <1>1, Packed
<1>3. r \in Seq(FamilyRecords)
  BY <1>1, Packed
<1>4. \A k \in DOMAIN r : k \in Int /\ k >= 1
  BY <1>3
<1>5. \A i \in DOMAIN b : i \in Int
  OBVIOUS
<1>6. ASSUME NEW i \in DOMAIN b, Admitted(b[i]) # {} PROVE \E k \in DOMAIN r : src[k] = i
  <2>1. b[i] # Nil
    BY NilAssumption
  <2>2. b[i].metrics # <<>>
    <3>1. DOMAIN b[i].metrics # {}
      BY <1>6 DEF Admitted
    <3> QED
      BY <3>1
  <2>3. i \in DOMAIN b \cap I
    BY <2>1, <2>2
  <2> HIDE DEF I, r
  <2> QED
    BY <1>2, <2>3 DEF Selects
<1> HIDE DEF I, r
<1>7. src \in [DOMAIN r -> DOMAIN b] /\ \A k \in DOMAIN r : r[k] = b[src[k]]
  BY <1>2 DEF Selects
<1>8. ASSUME NEW k \in DOMAIN r, NEW l \in DOMAIN r, src[k] = src[l] PROVE k = l
  <2>1. src[k] \in Int /\ ~(src[k] < src[l]) /\ ~(src[l] < src[k])
    BY <1>5, <1>7, <1>8
  <2>2. ~(k < l) /\ ~(l < k)
    BY <1>2, <2>1 DEF Selects
  <2> QED
    BY <1>4, <2>2
<1>9. Sources(src, r, b)
  BY <1>6, <1>7, <1>8 DEF Sources
<1>10. \A k \in DOMAIN r : IF k < 1 THEN Handled(r[k], b[src[k]], g) ELSE r[k] = b[src[k]]
  BY <1>4, <1>7
<1> QED
  BY <1>9, <1>10 DEF Filtered, r

\* A family that Filter has handled is accounted for.
LEMMA OneFiltered ==
  ASSUME NEW S, NEW fs \in Seq(S), NEW b, NEW g, NEW n \in 1..Len(fs), Filtered(fs, b, n, g),
         NEW x, Handled(x, fs[n], g), NEW new, new = [fs EXCEPT ![n] = x]
  PROVE  Filtered(new, b, n + 1, g)
<1>1. PICK src : /\ Sources(src, fs, b)
                 /\ \A k \in DOMAIN fs :
                      IF k < n THEN Handled(fs[k], b[src[k]], g) ELSE fs[k] = b[src[k]]
  BY DEF Filtered
<1>2. /\ DOMAIN new = DOMAIN fs /\ n \in DOMAIN fs /\ new[n] = x
      /\ \A k \in DOMAIN fs : k \in Int /\ (k # n => new[k] = fs[k])
  OBVIOUS
<1>3. fs[n] = b[src[n]]
  BY <1>1, <1>2
<1>4. ASSUME NEW k \in DOMAIN new
      PROVE  IF k < n + 1 THEN Handled(new[k], b[src[k]], g) ELSE new[k] = b[src[k]]
  <2>1. CASE k = n
    BY <1>2, <1>3, <2>1
  <2>2. CASE k # n
    <3>1. k \in DOMAIN fs /\ new[k] = fs[k] /\ (k < n + 1 <=> k < n)
      BY <1>2, <2>2
    <3> QED
      BY <1>1, <3>1
  <2> QED
    BY <2>1, <2>2
<1>5. Sources(src, new, b)
  BY <1>1, <1>2 DEF Sources
<1> QED
  BY <1>4, <1>5 DEF Filtered

\* When Filter is done, what Pack leaves accounts for the body.
LEMMA AllFiltered ==
  ASSUME NEW fs \in Seq(FamilyRecords \cup {Nil}), NEW b, NEW g, NEW n, n > Len(fs), n \in Int,
         Filtered(fs, b, n, g)
  PROVE  Kept(Pack(fs), b, g)
<1> DEFINE I == {i \in DOMAIN fs : fs[i] # Nil /\ fs[i].metrics # <<>>}
           r == Pack(fs)
<1>1. PICK src : /\ Sources(src, fs, b)
                 /\ \A k \in DOMAIN fs :
                      IF k < n THEN Handled(fs[k], b[src[k]], g) ELSE fs[k] = b[src[k]]
  BY DEF Filtered
<1>2. \A k \in DOMAIN fs : k \in Int /\ k < n
  OBVIOUS
<1>3. \A k \in DOMAIN fs : Handled(fs[k], b[src[k]], g)
  BY <1>1, <1>2
<1>4. PICK origin : Selects(origin, r, fs, I)
  BY Packed
<1>5. r \in Seq(FamilyRecords)
  BY Packed
<1>6. \A k \in DOMAIN r : k \in Int
  BY <1>5
<1> DEFINE from == [k \in DOMAIN r |-> src[origin[k]]]
<1>7. ASSUME NEW i \in DOMAIN b, Admitted(b[i]) # {} PROVE \E k \in DOMAIN r : from[k] = i
  <2>1. PICK l \in DOMAIN fs : src[l] = i
    BY <1>1, <1>7 DEF Sources
  <2>2. fs[l] # Nil /\ Descends(fs[l], b[i], g)
    BY <1>3, <1>7, <2>1 DEF Handled
  <2>3. fs[l].metrics # <<>>
    <3>1. PICK of : of \in Bijection(DOMAIN fs[l].metrics, Admitted(b[i]))
      BY <2>2 DEF Descends
    <3>2. PICK j : j \in Admitted(b[i])
      BY <1>7
    <3>3. DOMAIN fs[l].metrics # {}
      BY <3>1, <3>2 DEF Bijection, Surjection
    <3> QED
      BY <3>3
  <2>4. l \in DOMAIN fs \cap I
    BY <2>2, <2>3
  <2> HIDE DEF I, r
  <2>5. PICK k \in DOMAIN r : origin[k] = l
    BY <1>4, <2>4 DEF Selects
  <2> QED
    BY <2>1, <2>5
<1>8. \A k \in DOMAIN r : origin[k] \in DOMAIN fs /\ r[k] = fs[origin[k]] /\ fs[origin[k]] # Nil
  <2> HIDE DEF r
  <2> QED
    BY <1>4 DEF Selects
<1> HIDE DEF I, r
<1>9. from \in [DOMAIN r -> DOMAIN b]
  BY <1>1, <1>8 DEF Sources
<1>10. ASSUME NEW k \in DOMAIN r, NEW l \in DOMAIN r, from[k] = from[l] PROVE k = l
  <2>1. origin[k] = origin[l]
    BY <1>1, <1>8, <1>10 DEF Sources
  <2>2. origin[k] \in Int /\ ~(origin[k] < origin[l]) /\ ~(origin[l] < origin[k])
    BY <1>2, <1>8, <2>1
  <2>3. ~(k < l) /\ ~(l < k)
    BY <1>4, <2>2 DEF Selects
  <2> QED
    BY <1>6, <2>3
<1>11. \A k \in DOMAIN r : Descends(r[k], b[from[k]], g)
  <2> TAKE k \in DOMAIN r
  <2>1. from[k] = src[origin[k]] /\ Handled(fs[origin[k]], b[src[origin[k]]], g)
    BY <1>3, <1>8
  <2> QED
    BY <1>8, <2>1 DEF Handled
<1> HIDE DEF from
<1>12. Sources(from, r, b)
  BY <1>7, <1>9, <1>10 DEF Sources
<1> QED
  BY <1>11, <1>12 DEF Kept, r

\* Two parts laid end to end do not overlap.
LEMMA LaidOnce ==
  ASSUME NEW flat, NEW offset, NEW ss, NEW n \in Nat, Laid(flat, offset, ss, n),
         NEW i \in 1..n, NEW j \in 1..Len(ss[i]), NEW k \in 1..n, NEW l \in 1..Len(ss[k]),
         Len(ss[i]) \in Nat, Len(ss[k]) \in Nat, offset[i] + j = offset[k] + l
  PROVE  i = k /\ j = l
<1>1. offset[i] \in Nat /\ offset[k] \in Nat
  BY DEF Laid
<1>2. i < k => offset[i] + Len(ss[i]) <= offset[k]
  BY DEF Laid
<1>3. k < i => offset[k] + Len(ss[k]) <= offset[i]
  BY DEF Laid
<1>4. PICK a \in Nat, c \in Nat, p \in Nat, q \in Nat :
        a = offset[i] /\ c = offset[k] /\ p = Len(ss[i]) /\ q = Len(ss[k])
  BY <1>1
<1>5. j \in 1..p /\ l \in 1..q /\ a + j = c + l
  BY <1>4
<1>6. (i < k => a + p <= c) /\ (k < i => c + q <= a)
  BY <1>2, <1>3, <1>4
<1>7. ~(i < k) /\ ~(k < i)
  BY <1>5, <1>6
<1>8. i = k
  BY <1>7
<1> QED
  BY <1>4, <1>5, <1>8

\* convertToTimeseries makes a series of every metric that was kept.
LEMMA KeptComplete ==
  ASSUME NEW fs \in Seq(FamilyRecords), NEW b, NEW g, NEW now, Kept(fs, b, g)
  PROVE  Complete(ConvertToTimeseries(fs, now), b, g)
<1> DEFINE part(i) == [j \in DOMAIN fs[i].metrics |-> TimeSeries(fs[i], fs[i].metrics[j], now)]
           S == UNION {{TimeSeries(fs[i], fs[i].metrics[j], now) : j \in DOMAIN fs[i].metrics}
                         : i \in DOMAIN fs}
           ss == [i \in DOMAIN fs |-> part(i)]
           xs == FlattenSeq(ss)
<1>1. \A i \in DOMAIN fs : part(i) \in Seq(S)
  <2> TAKE i \in DOMAIN fs
  <2>1. DOMAIN fs[i].metrics = 1..Len(fs[i].metrics) /\ Len(fs[i].metrics) \in Nat
    BY DEF FamilyRecords
  <2>2. \A j \in DOMAIN fs[i].metrics : part(i)[j] \in S
    OBVIOUS
  <2>3. part(i) = [j \in DOMAIN fs[i].metrics |-> part(i)[j]]
    OBVIOUS
  <2> HIDE DEF part, S
  <2> QED
    BY <2>1, <2>2, <2>3, IsSequence
<1>2. ConvertToTimeseries(fs, now) = xs
  BY DEF ConvertToTimeseries
<1>3. ss \in Seq(Seq(S)) /\ Len(ss) = Len(fs) /\ DOMAIN fs = 1..Len(fs) /\ Len(fs) \in Nat
  <2>1. DOMAIN fs = 1..Len(fs) /\ Len(fs) \in Nat
    OBVIOUS
  <2>2. ss = [i \in DOMAIN fs |-> ss[i]] /\ \A i \in DOMAIN fs : ss[i] \in Seq(S)
    <3> HIDE DEF part, S
    <3> QED
      BY <1>1
  <2> HIDE DEF ss, S
  <2> QED
    BY <2>1, <2>2, IsSequence
<1>4. \A i \in DOMAIN fs :
        /\ Len(ss[i]) \in Nat /\ DOMAIN fs[i].metrics = 1..Len(ss[i])
        /\ \A j \in DOMAIN fs[i].metrics : /\ ss[i][j].name = fs[i].name
                                           /\ ss[i][j].labels = LabelsOf(fs[i].metrics[j])
  <2> TAKE i \in DOMAIN fs
  <2>1. ss[i] = part(i) /\ ss[i] \in Seq(S)
    BY <1>1
  <2>2. DOMAIN part(i) = DOMAIN fs[i].metrics
    OBVIOUS
  <2>3. \A j \in DOMAIN fs[i].metrics : /\ part(i)[j].name = fs[i].name
                                        /\ part(i)[j].labels = LabelsOf(fs[i].metrics[j])
    BY DEF TimeSeries
  <2> HIDE DEF part, ss, S
  <2>4. Len(ss[i]) \in Nat /\ DOMAIN ss[i] = 1..Len(ss[i])
    BY <2>1
  <2> QED
    BY <2>1, <2>2, <2>3, <2>4
<1> HIDE DEF part, ss, S
<1>5. xs \in Seq(S) /\ \E offset : Laid(xs, offset, ss, Len(ss))
  BY <1>3, Flattened
<1>6. PICK offset : Laid(xs, offset, ss, Len(fs))
  BY <1>3, <1>5
<1> HIDE DEF xs
<1>7. DOMAIN xs = 1..Len(xs) /\ Len(xs) \in Nat
  BY <1>5
<1>8. PICK src : Sources(src, fs, b) /\ \A i \in DOMAIN fs : Descends(fs[i], b[src[i]], g)
  BY DEF Kept
<1> DEFINE Of(o, i) == /\ o \in Bijection(DOMAIN fs[i].metrics, Admitted(b[src[i]]))
                       /\ \A j \in DOMAIN fs[i].metrics :
                            Carries(LabelsOf(fs[i].metrics[j]), b[src[i]].metrics[o[j]], g)
           of(i) == CHOOSE o : Of(o, i)
<1>9. \A i \in DOMAIN fs : Of(of(i), i) /\ fs[i].name = b[src[i]].name
  <2> TAKE i \in DOMAIN fs
  <2>1. \E o : Of(o, i)
    BY <1>8 DEF Descends
  <2>2. fs[i].name = b[src[i]].name
    BY <1>8 DEF Descends
  <2> HIDE DEF Of
  <2> QED
    BY <2>1, <2>2
<1>10. \A i \in DOMAIN fs :
         /\ src[i] \in DOMAIN b /\ fs[i].name = b[src[i]].name
         /\ \A j \in DOMAIN fs[i].metrics :
              /\ of(i)[j] \in Admitted(b[src[i]])
              /\ Carries(LabelsOf(fs[i].metrics[j]), b[src[i]].metrics[of(i)[j]], g)
         /\ \A j, l \in DOMAIN fs[i].metrics : of(i)[j] = of(i)[l] => j = l
         /\ \A a \in Admitted(b[src[i]]) : \E j \in DOMAIN fs[i].metrics : of(i)[j] = a
  <2> HIDE DEF of
  <2> TAKE i \in DOMAIN fs
  <2>1. src[i] \in DOMAIN b
    BY <1>8 DEF Sources
  <2>2. /\ of(i) \in [DOMAIN fs[i].metrics -> Admitted(b[src[i]])]
        /\ \A j, l \in DOMAIN fs[i].metrics : of(i)[j] = of(i)[l] => j = l
        /\ \A a \in Admitted(b[src[i]]) : \E j \in DOMAIN fs[i].metrics : of(i)[j] = a
    BY <1>9 DEF Bijection, Injection, Surjection, IsInjective
  <2> QED
    BY <1>9, <2>1, <2>2
<1> HIDE DEF of, Of
<1> DEFINE At(k, i, j) == i \in DOMAIN fs /\ j \in DOMAIN fs[i].metrics /\ k = offset[i] + j
           row(k) == CHOOSE i : \E j : At(k, i, j)
           col(k) == CHOOSE j : At(k, row(k), j)
<1>11. \A k \in DOMAIN xs : At(k, row(k), col(k))
  <2> TAKE k \in DOMAIN xs
  <2>1. PICK i \in 1..Len(fs) : \E j \in 1..Len(ss[i]) : k = offset[i] + j
    BY <1>6, <1>7 DEF Laid
  <2>2. \E x : \E j : At(k, x, j)
    BY <1>3, <1>4, <2>1
  <2> HIDE DEF At
  <2>3. \E j : At(k, row(k), j)
    BY <2>2
  <2> HIDE DEF row
  <2> QED
    BY <2>3
<1> HIDE DEF row, col
<1>12. ASSUME NEW i, NEW j, NEW k, NEW l, NEW x, At(x, i, j), At(x, k, l) PROVE i = k /\ j = l
  <2>1. /\ i \in 1..Len(fs) /\ k \in 1..Len(fs) /\ Len(ss[i]) \in Nat /\ Len(ss[k]) \in Nat
        /\ j \in 1..Len(ss[i]) /\ l \in 1..Len(ss[k]) /\ offset[i] + j = offset[k] + l
    BY <1>3, <1>4, <1>12
  <2> QED
    BY <1>3, <1>6, <2>1, LaidOnce
<1>13. ASSUME NEW i \in DOMAIN fs, NEW j \in DOMAIN fs[i].metrics
       PROVE  /\ offset[i] + j \in DOMAIN xs /\ At(offset[i] + j, i, j)
              /\ xs[offset[i] + j] = ss[i][j]
  <2>1. i \in 1..Len(fs) /\ j \in 1..Len(ss[i]) /\ Len(ss[i]) \in Nat
    BY <1>3, <1>4
  <2>2. offset[i] \in Nat /\ offset[i] + Len(ss[i]) <= Len(xs) /\ xs[offset[i] + j] = ss[i][j]
    BY <1>6, <2>1 DEF Laid
  <2>3. PICK p \in Nat, q \in Nat : p = offset[i] /\ q = Len(ss[i])
    BY <2>1, <2>2
  <2>4. p + j \in 1..Len(xs)
    BY <1>7, <2>1, <2>2, <2>3
  <2> QED
    BY <1>7, <2>2, <2>3, <2>4
<1> DEFINE map == [k \in DOMAIN xs |-> <<src[row(k)], of(row(k))[col(k)]>>]
<1>14. ASSUME NEW k \in DOMAIN xs
       PROVE  /\ map[k] \in WantedOf(b)
              /\ xs[k].name = b[map[k][1]].name
              /\ Carries(xs[k].labels, b[map[k][1]].metrics[map[k][2]], g)
  <2> DEFINE i == row(k)
             j == col(k)
  <2>1. i \in DOMAIN fs /\ j \in DOMAIN fs[i].metrics /\ k = offset[i] + j
    BY <1>11
  <2>2. map[k] = <<src[i], of(i)[j]>> /\ map[k][1] = src[i] /\ map[k][2] = of(i)[j]
    OBVIOUS
  <2> HIDE DEF i, j, map, At
  <2>3. map[k] \in WantedOf(b)
    BY <1>10, <2>1, <2>2, PairWanted
  <2>4. xs[k] = ss[i][j]
    BY <1>13, <2>1
  <2>5. xs[k].name = fs[i].name /\ xs[k].labels = LabelsOf(fs[i].metrics[j])
    BY <1>4, <2>1, <2>4
  <2> QED
    BY <1>10, <2>1, <2>2, <2>3, <2>5
<1>15. ASSUME NEW k \in DOMAIN xs, NEW l \in DOMAIN xs, map[k] = map[l] PROVE k = l
  <2>1. At(k, row(k), col(k)) /\ At(l, row(l), col(l))
    BY <1>11
  <2>2. src[row(k)] = src[row(l)] /\ of(row(k))[col(k)] = of(row(l))[col(l)]
    BY <1>15
  <2>3. row(k) = row(l)
    BY <1>8, <2>1, <2>2 DEF Sources
  <2>4. col(k) = col(l)
    BY <1>10, <2>1, <2>2, <2>3
  <2> QED
    BY <2>1, <2>3, <2>4
<1>16. ASSUME NEW w \in WantedOf(b) PROVE \E k \in DOMAIN xs : map[k] = w
  <2>1. PICK x \in DOMAIN b : \E y \in Admitted(b[x]) : w = <<x, y>>
    BY WantedPair
  <2>2. PICK y \in Admitted(b[x]) : w = <<x, y>>
    BY <2>1
  <2>3. PICK i \in DOMAIN fs : src[i] = x
    BY <1>8, <2>2 DEF Sources
  <2>4. PICK j \in DOMAIN fs[i].metrics : of(i)[j] = y
    BY <1>10, <2>2, <2>3
  <2> DEFINE k == offset[i] + j
  <2>5. k \in DOMAIN xs /\ At(k, i, j)
    BY <1>13
  <2> HIDE DEF k
  <2>6. At(k, row(k), col(k))
    BY <1>11, <2>5
  <2> HIDE DEF At
  <2>7. row(k) = i /\ col(k) = j
    BY <1>12, <2>5, <2>6
  <2>8. map[k] = <<x, y>>
    BY <2>3, <2>4, <2>5, <2>7
  <2> QED
    BY <2>2, <2>5, <2>8
<1>17. map = [k \in DOMAIN xs |-> map[k]]
  OBVIOUS
<1> HIDE DEF map
<1>18. map \in Bijection(DOMAIN xs, WantedOf(b))
  <2>1. map \in [DOMAIN xs -> WantedOf(b)] /\ DOMAIN map = DOMAIN xs
    BY <1>14, <1>17
  <2> QED
    BY <1>15, <1>16, <2>1 DEF Bijection, Injection, Surjection, IsInjective
<1> QED
  BY <1>2, <1>14, <1>18 DEF Complete

-----------------------------------------------------------------------------
(* The inductive invariant. *)

\* Filter has cleaned the families before next, or dropped them; ForwardHandler
\* gets clean ones only.
FamilyInv ==
  /\ body \in Seq(FamilyRecords)
  /\ families \in Seq(FamilyRecords \cup {Nil})
  /\ pc = "idle" => families = <<>>
  /\ pc = "filter" =>
       /\ \A i \in next..Len(families) : families[i] \in FamilyRecords
       /\ \A i \in 1..(next - 1) : families[i] = Nil \/ Clean(families[i], client, flags, read)
  /\ pc = "convert" => \A i \in DOMAIN families : Clean(families[i], client, flags, read)

\* There are series only after the conversion, and the upstream has something
\* only after the request is answered.
SeriesInv ==
  /\ pc \notin {"send", "answered"} => series = <<>>
  /\ pc # "answered" => delivered = <<>>
  /\ \A k \in DOMAIN series : Stored(series[k], client, flags, read, stamp)

IInv == TypeOK /\ FamilyInv /\ SeriesInv

\* The label maps that a request may come with are finite.
LEMMA ClientFinite ==
  ASSUME TypeOK
  PROVE  IsFiniteSet(DOMAIN client)
<1>1. CASE client = NoLabels
  <2>1. DOMAIN client = {}
    BY <1>1 DEF NoLabels
  <2> QED
    BY <2>1, FS_EmptySet
<1>2. CASE client \in TokenLabels
  BY <1>2, UploadAssumption DEF UploadAssumption
<1> QED
  BY <1>1, <1>2 DEF TypeOK

\* Families stay clean when more times have been read.
LEMMA CleanGrows ==
  ASSUME NEW f, NEW c, NEW g, NEW a, NEW b, a \subseteq b, Clean(f, c, g, a)
  PROVE  Clean(f, c, g, b)
BY DEF Clean

\* What Validate makes of one family, or that it drops it.
LEMMA FamilyHandled ==
  ASSUME flags \in Flags, IsFiniteSet(DOMAIN client), NEW f \in FamilyRecords, NEW now \in Nat,
         NEW order \in SetToSeqs(DOMAIN client)
  PROVE  LET r == ValidateFamily(f, now, order) IN
         /\ r.verdict = "ok" => Clean(r.family, client, flags, {now}) /\ Descends(r.family, f, flags)
         /\ r.verdict = "drop" => Admitted(f) = {}
<1>1. ASSUME ValidateFamily(f, now, order).verdict = "ok"
      PROVE  /\ Clean(ValidateFamily(f, now, order).family, client, flags, {now})
             /\ Descends(ValidateFamily(f, now, order).family, f, flags)
  <2>1. /\ Named(f) /\ Passed(f, client)
        /\ \E fo, fw, fl : Stages(f, now, fo, fw, fl, ValidateFamily(f, now, order).family)
    BY <1>1, Outcome
  <2>2. PICK g : g = ValidateFamily(f, now, order).family
    OBVIOUS
  <2>3. PICK fo, fw, fl : Stages(f, now, fo, fw, fl, g)
    BY <2>1, <2>2
  <2>4. Clean(g, client, flags, {now})
    BY <2>1, <2>3, Validated DEF Clean
  <2>5. Descends(g, f, flags)
    BY <2>1, <2>3, Descended
  <2> QED
    BY <2>2, <2>4, <2>5
<1> QED
  BY <1>1, NothingDropped

\* The invariant of Upload holds initially.
LEMMA Initial ==
  Init => IInv
<1> SUFFICES ASSUME Init PROVE IInv
  OBVIOUS
<1>1. << >> \in Seq(FamilyRecords) /\ << >> \in Seq(FamilyRecords \cup {Nil}) /\ Len(<< >>) = 0 /\ DOMAIN << >> = {}
  OBVIOUS
<1>2. TypeOK
  BY <1>1 DEF Init, TypeOK, Statuses
<1>3. FamilyInv /\ SeriesInv
  BY <1>1 DEF Init, FamilyInv, SeriesInv
<1> QED
  BY <1>2, <1>3 DEF IInv

\* Filter keeps the invariant, whatever Validate says of the family.
LEMMA FilterFamilyStep ==
  ASSUME IInv, FilterFamily
  PROVE  IInv'
<1>1. /\ pc = "filter" /\ next \in 1..Len(families) /\ families[next] \in FamilyRecords
      /\ clock \in Nat /\ flags \in Flags
  BY UploadAssumption DEF UploadAssumption, IInv, TypeOK, FamilyInv, FilterFamily
<1>2. PICK required \in SetToSeqs(DOMAIN client) :
       LET r == ValidateFamily(families[next], clock, required)
       IN  \/ /\ r.verdict \in {"ok", "drop"}
              /\ families' = [families EXCEPT ![next] = IF r.verdict = "ok" THEN r.family ELSE Nil]
              /\ next' = next + 1
              /\ read' = read \cup {clock}
              /\ UNCHANGED <<pc, status>>
           \/ /\ r.verdict \in {"400", "500"}
              /\ Answer(r.verdict)
              /\ UNCHANGED <<families, next, read>>
           \/ /\ r.verdict = "panic"
              /\ pc' = "aborted"
              /\ UNCHANGED <<families, next, read, status>>
  BY DEF FilterFamily
<1> DEFINE r == ValidateFamily(families[next], clock, required)
           new == IF r.verdict = "ok" THEN r.family ELSE Nil
<1>3. UNCHANGED <<flags, clock, client, body, min, series, stamp, delivered>>
  BY DEF FilterFamily
<1>4. r.verdict = "ok" => Clean(r.family, client, flags, {clock})
  <2>1. IsFiniteSet(DOMAIN client)
    BY ClientFinite DEF IInv
  <2> QED
    BY <1>1, <2>1, FamilyHandled
<1>5. series = << >> /\ delivered = << >> /\ DOMAIN << >> = {}
  BY <1>1 DEF IInv, SeriesInv
<1> HIDE DEF r
<1>6. CASE /\ r.verdict \in {"ok", "drop"}
           /\ families' = [families EXCEPT ![next] = new]
           /\ next' = next + 1
           /\ read' = read \cup {clock}
           /\ UNCHANGED <<pc, status>>
  <2>1. new = Nil \/ Clean(new, client, flags, {clock})
    BY <1>4
  <2>2. new \in FamilyRecords \cup {Nil}
    BY <2>1 DEF Clean
  <2> HIDE DEF new
  <2>3. /\ families \in Seq(FamilyRecords \cup {Nil}) /\ families' \in Seq(FamilyRecords \cup {Nil})
        /\ Len(families') = Len(families) /\ families'[next] = new
        /\ \A i \in 1..Len(families) : i # next => families'[i] = families[i]
    BY <1>1, <1>6, <2>2 DEF IInv, FamilyInv
  <2>4. TypeOK'
    BY <1>1, <1>3, <1>5, <1>6, <2>3 DEF IInv, TypeOK
  <2>5. ASSUME NEW i \in 1..(next' - 1) PROVE families'[i] = Nil \/ Clean(families'[i], client, flags, read')
    <3>1. CASE i = next
      BY <1>6, <2>1, <2>3, <3>1, CleanGrows
    <3>2. CASE i # next
      <4>1. i \in 1..(next - 1) /\ i \in 1..Len(families)
        BY <1>1, <1>6, <3>2
      <4>2. families[i] = Nil \/ Clean(families[i], client, flags, read)
        BY <1>1, <4>1 DEF IInv, FamilyInv
      <4> QED
        BY <1>6, <2>3, <3>2, <4>1, <4>2, CleanGrows
    <3> QED
      BY <3>1, <3>2
  <2>6. \A i \in next'..Len(families') : families'[i] \in FamilyRecords
    <3> TAKE i \in next'..Len(families')
    <3>1. i \in 1..Len(families) /\ i # next /\ i \in next..Len(families)
      BY <1>1, <1>6, <2>3
    <3> QED
      BY <1>1, <2>3, <3>1 DEF IInv, FamilyInv
  <2>7. FamilyInv'
    BY <1>1, <1>3, <1>6, <2>3, <2>5, <2>6 DEF IInv, FamilyInv
  <2>8. SeriesInv'
    BY <1>1, <1>3, <1>5, <1>6 DEF SeriesInv
  <2> QED
    BY <2>4, <2>7, <2>8 DEF IInv
<1>7. CASE /\ pc' \in {"answered", "aborted"}
           /\ status' \in Statuses
           /\ UNCHANGED <<families, next, read>>
  <2>1. TypeOK'
    BY <1>3, <1>7 DEF IInv, TypeOK
  <2>2. FamilyInv' /\ SeriesInv'
    BY <1>3, <1>5, <1>7 DEF IInv, FamilyInv, SeriesInv
  <2> QED
    BY <2>1, <2>2 DEF IInv
<1> QED
  <2>1. status \in Statuses
    BY DEF IInv, TypeOK
  <2> QED
    BY <1>2, <1>6, <1>7, <2>1 DEF r, new, Answer, Statuses

\* Every step of a request keeps the invariant.
LEMMA Induction ==
  IInv /\ [Next]_vars => IInv'
<1> SUFFICES ASSUME IInv, [Next]_vars PROVE IInv'
  OBVIOUS
<1> USE DEF IInv
<1>0. << >> \in Seq(FamilyRecords) /\ << >> \in Seq(FamilyRecords \cup {Nil}) /\ Len(<< >>) = 0 /\ DOMAIN << >> = {}
  OBVIOUS
<1>1. ASSUME NEW labels \in TokenLabels, NEW b \in Bodies, Receive(labels, b) PROVE IInv'
  <2>1. b \in Seq(FamilyRecords)
    BY UploadAssumption DEF UploadAssumption
  <2>2. series = << >> /\ delivered = << >>
    BY <1>1 DEF Receive, SeriesInv
  <2>3. families = << >>
    BY <1>1 DEF Receive, FamilyInv
  <2>4. TypeOK'
    BY <1>0, <1>1, <2>1, <2>2, <2>3 DEF Receive, TypeOK
  <2>5. FamilyInv' /\ SeriesInv'
    BY <1>0, <1>1, <2>1, <2>2 DEF Receive, FamilyInv, SeriesInv
  <2> QED
    BY <2>4, <2>5
<1>2. CASE AuthorizeClient
  BY <1>0, <1>2 DEF AuthorizeClient, request, Answer, TypeOK, Statuses, FamilyInv, SeriesInv
<1>3. CASE ClusterID
  BY <1>0, <1>3 DEF ClusterID, request, Answer, TypeOK, Statuses, FamilyInv, SeriesInv
<1>4. CASE Ratelimit
  BY <1>0, <1>4 DEF Ratelimit, request, Answer, TypeOK, Statuses, FamilyInv, SeriesInv
<1>5. CASE ReadBody
  <2>1. series = << >> /\ delivered = << >>
    BY <1>5 DEF ReadBody, SeriesInv
  <2>2. CASE (Answer("413") \/ Answer("500")) /\ UNCHANGED <<families, next, min>>
    BY <1>0, <1>5, <2>1, <2>2 DEF ReadBody, Answer, TypeOK, Statuses, FamilyInv, SeriesInv
  <2>3. CASE families' = Pack(body) /\ next' = 1 /\ pc' = "filter" /\ UNCHANGED status
    <3>1. body \in Seq(FamilyRecords) /\ body \in Seq(FamilyRecords \cup {Nil})
      BY DEF FamilyInv
    <3>2. /\ families' \in Seq(FamilyRecords) /\ families' \in Seq(FamilyRecords \cup {Nil})
          /\ Len(families') <= Len(body) /\ Len(families') \in Nat
      BY <2>3, <3>1, Packed
    <3>3. TypeOK'
      BY <1>5, <2>1, <2>3, <3>2 DEF ReadBody, TypeOK
    <3>4. FamilyInv' /\ SeriesInv'
      BY <1>0, <1>5, <2>1, <2>3, <3>1, <3>2 DEF ReadBody, FamilyInv, SeriesInv
    <3> QED
      BY <3>3, <3>4
  <2> QED
    BY <1>5, <2>2, <2>3 DEF ReadBody
<1>6. CASE FilterFamily
  BY <1>6, FilterFamilyStep
<1>7. CASE FilterDone
  <2>1. series = << >> /\ delivered = << >>
    BY <1>7 DEF FilterDone, SeriesInv
  <2>2. families \in Seq(FamilyRecords \cup {Nil}) /\ next > Len(families) /\ next \in 1..(Len(families) + 1)
    BY <1>7 DEF FilterDone, FamilyInv, TypeOK
  <2>3. \A i \in DOMAIN families : families[i] = Nil \/ Clean(families[i], client, flags, read)
    <3> TAKE i \in DOMAIN families
    <3>1. i \in 1..(next - 1)
      BY <2>2
    <3> QED
      BY <1>7, <3>1 DEF FilterDone, FamilyInv
  <2>4. /\ families' \in Seq(FamilyRecords) /\ families' \in Seq(FamilyRecords \cup {Nil})
        /\ Len(families') <= Len(families) /\ Len(families') \in Nat
    BY <1>7, <2>2, Packed DEF FilterDone
  <2>5. \A k \in DOMAIN families' : Clean(families'[k], client, flags, read)
    BY <1>7, <2>2, <2>3, Packed DEF FilterDone
  <2>6. TypeOK'
    <3>1. Len(families) \in Nat /\ Len(body) \in Nat
      BY <2>2 DEF FamilyInv
    <3> QED
      BY <1>7, <2>1, <2>4, <3>1 DEF FilterDone, TypeOK
  <2>7. FamilyInv' /\ SeriesInv'
    BY <1>0, <1>7, <2>1, <2>4, <2>5 DEF FilterDone, FamilyInv, SeriesInv
  <2> QED
    BY <2>6, <2>7
<1>8. CASE Convert
  <2>1. series = << >> /\ delivered = << >> /\ clock \in Times
    BY <1>8 DEF Convert, SeriesInv, TypeOK
  <2>2. CASE Answer("500") /\ UNCHANGED <<series, stamp>>
    BY <1>0, <1>8, <2>1, <2>2 DEF Convert, Answer, TypeOK, Statuses, FamilyInv, SeriesInv
  <2>3. CASE /\ series' = ConvertToTimeseries(families, clock)
             /\ stamp' = clock
             /\ pc' \in {"answered", "send"} /\ status' \in Statuses
    <3>1. /\ \A i \in DOMAIN families : Clean(families[i], client, flags, read)
          /\ families \in Seq(FamilyRecords \cup {Nil})
      BY <1>8 DEF Convert, FamilyInv
    <3>2. clock \in Nat /\ read \in SUBSET Nat
      BY UploadAssumption DEF UploadAssumption, TypeOK
    <3>3. \A k \in DOMAIN series' : Stored(series'[k], client, flags, read, clock)
      BY <2>3, <3>1, <3>2, CleanIsStored
    <3>4. TypeOK'
      BY <1>8, <2>1, <2>3 DEF Convert, TypeOK
    <3>5. FamilyInv' /\ SeriesInv'
      BY <1>8, <2>1, <2>3, <3>3 DEF Convert, FamilyInv, SeriesInv
    <3> QED
      BY <3>4, <3>5
  <2> QED
    BY <1>8, <2>2, <2>3 DEF Convert, Answer, TypeOK, Statuses
<1>9. CASE Forward
  <2>1. TypeOK'
    BY <1>9 DEF Forward, request, Answer, TypeOK, Statuses
  <2>2. FamilyInv' /\ SeriesInv'
    BY <1>9 DEF Forward, request, Answer, FamilyInv, SeriesInv
  <2> QED
    BY <2>1, <2>2
<1>10. CASE Finish
  BY <1>0, <1>10 DEF Finish, TypeOK, Statuses, FamilyInv, SeriesInv
<1>11. ASSUME NEW t \in Times, SetClock(t) PROVE IInv'
  BY <1>11 DEF SetClock, request, TypeOK, FamilyInv, SeriesInv
<1>12. CASE UNCHANGED vars
  BY <1>12 DEF vars, TypeOK, FamilyInv, SeriesInv
<1> QED
  BY <1>1, <1>2, <1>3, <1>4, <1>5, <1>6, <1>7, <1>8, <1>9, <1>10, <1>11, <1>12 DEF Next

\* No metric is lost on the way. Filter has reached the family next, and what it
\* has left of those before it are the metrics that the whitelist admits; they
\* are all there when they are converted, and in the series. Only an answer 200,
\* an error of the upstream or 502 leaves anything with it, 200 all of it.
LineageInv ==
  /\ pc = "filter" => Filtered(families, body, next, flags)
  /\ pc = "convert" => Kept(families, body, flags)
  /\ pc = "send" \/ status \in {"200", "502", "upstream"} => Complete(series, body, flags)
  /\ pc # "answered" => status = "none"
  /\ status = "200" => delivered = series
  /\ delivered # <<>> => status \in {"200", "upstream", "502"}

\* Filter keeps count of the metrics it has handled.
LEMMA LineageFilterFamily ==
  ASSUME IInv, LineageInv, FilterFamily
  PROVE  LineageInv'
<1>1. /\ pc = "filter" /\ next \in 1..Len(families) /\ families[next] \in FamilyRecords
      /\ clock \in Nat /\ flags \in Flags /\ families \in Seq(FamilyRecords \cup {Nil})
  BY UploadAssumption DEF UploadAssumption, IInv, TypeOK, FamilyInv, FilterFamily
<1>2. PICK required \in SetToSeqs(DOMAIN client) :
       LET r == ValidateFamily(families[next], clock, required)
       IN  \/ /\ r.verdict \in {"ok", "drop"}
              /\ families' = [families EXCEPT ![next] = IF r.verdict = "ok" THEN r.family ELSE Nil]
              /\ next' = next + 1
              /\ read' = read \cup {clock}
              /\ UNCHANGED <<pc, status>>
           \/ /\ r.verdict \in {"400", "500"}
              /\ Answer(r.verdict)
              /\ UNCHANGED <<families, next, read>>
           \/ /\ r.verdict = "panic"
              /\ pc' = "aborted"
              /\ UNCHANGED <<families, next, read, status>>
  BY DEF FilterFamily
<1> DEFINE r == ValidateFamily(families[next], clock, required)
           new == IF r.verdict = "ok" THEN r.family ELSE Nil
<1>3. UNCHANGED <<flags, clock, client, body, min, series, stamp, delivered>>
  BY DEF FilterFamily
<1>4. /\ status = "none" /\ delivered = << >>
      /\ Filtered(families, body, next, flags)
  BY <1>1 DEF IInv, SeriesInv, LineageInv
<1>5. /\ r.verdict = "ok" => r.family \in FamilyRecords /\ Descends(r.family, families[next], flags)
      /\ r.verdict = "drop" => Admitted(families[next]) = {}
  <2>1. IsFiniteSet(DOMAIN client)
    BY ClientFinite DEF IInv
  <2> QED
    BY <1>1, <2>1, FamilyHandled DEF Clean
<1> HIDE DEF r
<1>6. CASE /\ r.verdict \in {"ok", "drop"}
           /\ families' = [families EXCEPT ![next] = new]
           /\ next' = next + 1
           /\ UNCHANGED <<pc, status>>
  <2>1. Handled(new, families[next], flags)
    BY <1>5, <1>6, NilAssumption DEF Handled
  <2> HIDE DEF new
  <2>2. Filtered(families', body, next + 1, flags)
    BY <1>1, <1>4, <1>6, <2>1, OneFiltered
  <2> QED
    BY <1>1, <1>3, <1>4, <1>6, <2>2 DEF LineageInv
<1>7. CASE r.verdict \in {"400", "500"} /\ Answer(r.verdict)
  BY <1>3, <1>4, <1>7 DEF Answer, LineageInv
<1>8. CASE pc' = "aborted" /\ UNCHANGED status
  BY <1>3, <1>4, <1>8 DEF LineageInv
<1> QED
  BY <1>2, <1>6, <1>7, <1>8 DEF r, new

\* Every step of a request keeps count of the metrics.
LEMMA LineageInduction ==
  IInv /\ LineageInv /\ [Next]_vars => LineageInv'
<1> SUFFICES ASSUME IInv, LineageInv, [Next]_vars PROVE LineageInv'
  OBVIOUS
<1>0. /\ body \in Seq(FamilyRecords) /\ families \in Seq(FamilyRecords \cup {Nil})
      /\ (pc # "answered" => delivered = <<>>) /\ delivered \in {<<>>, series}
  BY DEF IInv, FamilyInv, SeriesInv, TypeOK
<1>1. ASSUME NEW labels \in TokenLabels, NEW b \in Bodies, Receive(labels, b) PROVE LineageInv'
  BY <1>0, <1>1 DEF Receive, LineageInv
<1>2. CASE AuthorizeClient
  BY <1>0, <1>2 DEF AuthorizeClient, request, Answer, LineageInv
<1>3. CASE ClusterID
  BY <1>0, <1>3 DEF ClusterID, request, Answer, LineageInv
<1>4. CASE Ratelimit
  BY <1>0, <1>4 DEF Ratelimit, request, Answer, LineageInv
<1>5. CASE ReadBody
  <2>1. Filtered(Pack(body), body, 1, flags)
    BY <1>0, ReadFiltered
  <2> QED
    BY <1>0, <1>5, <2>1 DEF ReadBody, Answer, LineageInv
<1>6. CASE FilterFamily
  BY <1>6, LineageFilterFamily
<1>7. CASE FilterDone
  <2>1. Filtered(families, body, next, flags) /\ next > Len(families) /\ next \in Int
    BY <1>7 DEF FilterDone, LineageInv, IInv, TypeOK
  <2>2. Kept(Pack(families), body, flags)
    BY <1>0, <2>1, AllFiltered
  <2> QED
    BY <1>0, <1>7, <2>2 DEF FilterDone, LineageInv
<1>8. CASE Convert
  <2>1. families \in Seq(FamilyRecords)
    <3>1. \A i \in DOMAIN families : families[i] \in FamilyRecords
      BY <1>8 DEF Convert, IInv, FamilyInv, Clean
    <3>2. DOMAIN families = 1..Len(families) /\ Len(families) \in Nat /\ families = [i \in DOMAIN families |-> families[i]]
      BY <1>0
    <3> QED
      BY <3>1, <3>2, IsSequence
  <2>2. Complete(ConvertToTimeseries(families, clock), body, flags)
    BY <1>8, <2>1, KeptComplete DEF Convert, LineageInv
  <2>3. status = "none" /\ delivered = <<>>
    BY <1>0, <1>8 DEF Convert, LineageInv
  <2> QED
    BY <1>8, <2>2, <2>3 DEF Convert, Answer, LineageInv
<1>9. CASE Forward
  BY <1>0, <1>9 DEF Forward, request, Answer, LineageInv
<1>10. CASE Finish
  BY <1>10 DEF Finish, LineageInv
<1>11. ASSUME NEW t \in Times, SetClock(t) PROVE LineageInv'
  BY <1>11 DEF SetClock, request, LineageInv
<1>12. CASE UNCHANGED vars
  BY <1>12 DEF vars, LineageInv
<1> QED
  BY <1>1, <1>2, <1>3, <1>4, <1>5, <1>6, <1>7, <1>8, <1>9, <1>10, <1>11, <1>12 DEF Next

-----------------------------------------------------------------------------
(* Theorems. *)

\* The invariant holds in every reachable state.
THEOREM Invariance == Spec => []IInv
BY Initial, Induction, PTL DEF Spec

\* Type correctness of a request and of the server that handles it.
THEOREM TypeCorrect == Spec => []TypeOK
BY Invariance, PTL DEF IInv

\* Whatever a body contains, of however many families, metrics and labels,
\* convertToTimeseries stores it under the labels of the token that Validate
\* compared it with, and under those of the operator.
THEOREM ClustersIsolated == Spec => []Isolation
<1>1. IInv => Isolation
  <2> SUFFICES ASSUME IInv, NEW k \in DOMAIN delivered
               PROVE  Isolated(delivered[k].labels, client, flags)
    BY DEF Isolation, Isolated
  <2>1. delivered = << >> \/ delivered = series
    BY DEF IInv, TypeOK
  <2>2. delivered = series
    BY <2>1
  <2> QED
    BY <2>2 DEF IInv, SeriesInv, Stored
<1> QED
  BY <1>1, Invariance, PTL

\* Samples are stamped by the server's clock, to the second, and none is in the
\* future when it is forwarded, however the clock is set meanwhile.
THEOREM SamplesStamped == Spec => []ServerTime
<1>1. IInv => ServerTime
  BY DEF IInv, SeriesInv, Stored, ServerTime
<1> QED
  BY <1>1, Invariance, PTL

\* Whatever a body contains, and wherever Filter, the conversion or the upstream
\* fails, the upstream gets a time series for each metric that the whitelist
\* admits, with the labels it came with, and for no other; or it gets nothing.
\* ForwardHandler answers 200 only in the first case, or if there is no such
\* metric.
THEOREM UploadsWhole == Spec => []WholeOrNothing
<1>1. Init => LineageInv
  BY DEF Init, LineageInv
<1>2. IInv /\ LineageInv => WholeOrNothing
  <2> SUFFICES ASSUME IInv, LineageInv PROVE WholeOrNothing
    OBVIOUS
  <2>1. Wanted = WantedOf(body)
    BY DEF Wanted, WantedOf
  <2>2. delivered # <<>> \/ status = "200" => delivered = series /\ Complete(series, body, flags)
    BY DEF IInv, TypeOK, LineageInv
  <2>3. status \in {"400", "401", "413", "429", "500"} => delivered = <<>>
    BY DEF LineageInv
  <2> QED
    BY <2>1, <2>2, <2>3 DEF WholeOrNothing, Complete
<1> QED
  BY <1>1, <1>2, Invariance, LineageInduction, PTL DEF Spec
-----------------------------------------------------------------------------
(* The labels of a scraped metric on their way through the client. *)

\* Nothing is squeezed out of a sequence without Nil.
LEMMA DenseWhole ==
  ASSUME NEW S, NEW s \in Seq(S), \A i \in DOMAIN s : s[i] # Nil
  PROVE  Dense(s) = s
<1> DEFINE I == {i \in DOMAIN s : s[i] # Nil}
           d == Squeeze(s, I)
<1>1. d \in Seq(S) /\ Len(d) <= Len(s)
  BY Squeezed
<1>2. PICK origin : Selects(origin, d, s, I)
  BY Squeezed
<1>3. Dense(s) = d /\ DOMAIN s \cap I = DOMAIN s
  BY DEF Dense
<1> HIDE DEF d, I
<1>4. /\ origin \in [DOMAIN d -> DOMAIN s]
      /\ \A k \in DOMAIN d : d[k] = s[origin[k]]
      /\ \A k, l \in DOMAIN d : k < l => origin[k] < origin[l]
      /\ \A i \in DOMAIN s : \E k \in DOMAIN d : origin[k] = i
  BY <1>2, <1>3 DEF Selects
<1>5. DOMAIN d = 1..Len(d) /\ DOMAIN s = 1..Len(s) /\ Len(d) \in Nat /\ Len(s) \in Nat
  BY <1>1
<1> DEFINE T == {k \in Nat : k \in DOMAIN d /\ origin[k] # k}
<1>6. T = {}
  <2> SUFFICES ASSUME T # {} PROVE FALSE
    OBVIOUS
  <2>1. PICK k \in T : \A l \in T : k <= l
    <3>1. T \in SUBSET Nat
      OBVIOUS
    <3> HIDE DEF T
    <3> QED
      BY <3>1, Least
  <2>2. \A l \in DOMAIN d : l < k => origin[l] = l
    BY <1>5, <2>1
  <2>3. k \in DOMAIN d /\ k \in DOMAIN s /\ origin[k] # k /\ origin[k] \in DOMAIN s
    BY <1>1, <1>4, <1>5, <2>1
  <2>4. CASE origin[k] < k
    <3>1. origin[k] \in DOMAIN d
      BY <1>5, <2>3, <2>4
    <3>2. origin[origin[k]] = origin[k] /\ origin[origin[k]] < origin[k]
      BY <1>4, <2>2, <2>3, <2>4, <3>1
    <3> QED
      BY <1>5, <2>3, <3>2
  <2>5. CASE origin[k] > k
    <3>1. PICK l \in DOMAIN d : origin[l] = k
      BY <1>4, <2>3
    <3>2. ~(l < k) /\ l # k
      BY <2>2, <2>3, <3>1
    <3>3. k < l
      BY <1>5, <2>3, <3>2
    <3> QED
      BY <1>4, <1>5, <2>3, <2>5, <3>1, <3>3
  <2> QED
    BY <1>5, <2>3, <2>4, <2>5
<1>7. \A k \in DOMAIN d : origin[k] = k
  BY <1>5, <1>6
<1>8. Len(d) = Len(s)
  <2>1. CASE Len(s) = 0
    BY <1>1, <1>5, <2>1
  <2>2. CASE Len(s) # 0
    <3>1. Len(s) \in DOMAIN s
      BY <1>5, <2>2
    <3>2. Len(s) \in DOMAIN d
      BY <1>4, <1>7, <3>1
    <3>3. Len(s) <= Len(d)
      BY <1>5, <3>2
    <3>4. Len(d) <= Len(s) /\ Len(d) \in Nat /\ Len(s) \in Nat
      BY <1>1, <1>5
    <3> QED
      BY <3>3, <3>4
  <2> QED
    BY <2>1, <2>2
<1>9. \A k \in 1..Len(s) : d[k] = s[k]
  BY <1>4, <1>5, <1>7, <1>8
<1> QED
  BY <1>1, <1>3, <1>8, <1>9

\* A label pair as the client has it between dropInvalidFederateSamples and the
\* anonymizer: acceptable, in clear, and shared only if it is the operator's.
Plain(p) ==
  /\ p.name \notin BadNames /\ p.value.text \notin LongTexts /\ p.value.hashed = 0
  /\ p.name \notin DOMAIN ClientLabels => ~ p.shared

\* A label pair after the anonymizer.
Hashed(p) ==
  /\ p.name \notin BadNames /\ p.value.text \notin LongTexts
  /\ p.name \in AnonymizeNames \ DOMAIN ClientLabels /\ p.value.text # "" => p.value.hashed = 1

\* A scraped label pair that has to be sent.
Wholesome(p) == WellFormed(p) /\ p.name \notin DOMAIN ClientLabels

\* The labels after --label was applied and ill-formed ones dropped.
Cleaned(labels) ==
  LET a == AppendLabels(labels, ClientLabels, SetToSeq(DOMAIN ClientLabels))
  IN  Squeeze(a, {i \in DOMAIN a : WellFormed(a[i])})

\* dropInvalidFederateSamples leaves the good labels, unhashed.
LEMMA LabelsCleaned ==
  ASSUME NEW labels \in Seq(LabelPairs),
         \A i \in DOMAIN labels : ~ labels[i].shared /\ labels[i].value.hashed = 0
  PROVE  /\ Cleaned(labels) \in Seq(LabelPairs)
         /\ \A j \in DOMAIN Cleaned(labels) : Plain(Cleaned(labels)[j])
         /\ \A i \in DOMAIN labels : Wholesome(labels[i]) =>
              \E j \in DOMAIN Cleaned(labels) : Cleaned(labels)[j] = labels[i]
<1> DEFINE order == SetToSeq(DOMAIN ClientLabels)
           a == AppendLabels(labels, ClientLabels, order)
           I == {i \in DOMAIN a : WellFormed(a[i])}
           c == Squeeze(a, I)
<1>1. /\ IsFiniteSet(DOMAIN ClientLabels) /\ DOMAIN ClientLabels \subseteq STRING
      /\ ClientLabels \in [DOMAIN ClientLabels -> Values]
      /\ \A n \in DOMAIN ClientLabels : ClientLabels[n].hashed = 0
  BY ScrapeAssumption DEF LabelMap
<1>2. order \in SetToSeqs(DOMAIN ClientLabels)
  BY <1>1, OrderChosen
<1> HIDE DEF order
<1>3. /\ a \in Seq(LabelPairs)
      /\ InPlace(a, labels, ClientLabels)
      /\ \A i \in DOMAIN a : a[i].name \in DOMAIN ClientLabels \/ \E j \in DOMAIN labels : a[i] = labels[j]
      /\ \A i \in DOMAIN a : a[i].name \in DOMAIN ClientLabels => a[i].value = ClientLabels[a[i].name]
  BY <1>1, <1>2, LabelsAppended
<1> HIDE DEF a
<1>4. c \in Seq(LabelPairs)
  BY <1>3, Squeezed
<1>5. PICK origin : Selects(origin, c, a, I)
  BY <1>3, Squeezed
<1> HIDE DEF c
<1>6. ASSUME NEW j \in DOMAIN c PROVE Plain(c[j])
  <2>1. PICK i \in DOMAIN a : c[j] = a[i] /\ WellFormed(a[i])
    BY <1>5 DEF Selects
  <2>2. a[i].value.hashed = 0 /\ (a[i].name \notin DOMAIN ClientLabels => ~ a[i].shared)
    BY <1>1, <1>3
  <2> QED
    BY <2>1, <2>2 DEF Plain, WellFormed
<1>7. ASSUME NEW i \in DOMAIN labels, Wholesome(labels[i])
      PROVE  \E j \in DOMAIN c : c[j] = labels[i]
  <2>1. i \in DOMAIN a /\ a[i] = labels[i]
    BY <1>3, <1>7 DEF InPlace, Wholesome
  <2>2. i \in DOMAIN a \cap I
    BY <1>7, <2>1 DEF Wholesome
  <2> HIDE DEF I
  <2> QED
    BY <1>5, <2>1, <2>2 DEF Selects
<1>8. Cleaned(labels) = c
  BY DEF Cleaned, c, a, order
<1> QED
  BY <1>4, <1>6, <1>7, <1>8

\* The anonymizer, for one pair.
HashPair(p, metrics) ==
  IF p.name \notin AnonymizeNames \/ p.value.text = "" THEN p
  ELSE [p EXCEPT !.value.hashed = @ + IF p.shared THEN Occurrences(p.name, metrics) ELSE 1]

\* A pair occurs a number of times.
LEMMA OccurrencesNumber ==
  ASSUME NEW n, NEW metrics \in Seq(MetricRecords)
  PROVE  Occurrences(n, metrics) \in Nat
<1> DEFINE D == {k \in DOMAIN metrics : metrics[k] # Nil}
           J(i) == {j \in DOMAIN metrics[i].labels :
                      metrics[i].labels[j].name = n /\ metrics[i].labels[j].shared}
           h == [i \in D |-> {i} \X J(i)]
           T == {{i} \X J(i) : i \in D}
<1>1. IsFiniteSet(D)
  <2>1. D \in SUBSET (1..Len(metrics)) /\ Len(metrics) \in Nat
    OBVIOUS
  <2>2. IsFiniteSet(1..Len(metrics))
    BY <2>1, FS_Interval
  <2> HIDE DEF D
  <2> QED
    BY <2>1, <2>2, FS_Subset
<1>2. ASSUME NEW i \in D PROVE IsFiniteSet({i} \X J(i))
  <2>a. metrics[i] \in MetricRecords
    OBVIOUS
  <2>1. metrics[i].labels \in Seq(LabelPairs)
    BY <2>a DEF MetricRecords
  <2>2. J(i) \in SUBSET (1..Len(metrics[i].labels)) /\ Len(metrics[i].labels) \in Nat
    BY <2>1
  <2> HIDE DEF J
  <2>b. IsFiniteSet(1..Len(metrics[i].labels))
    BY <2>2, FS_Interval
  <2>3. IsFiniteSet(J(i)) /\ IsFiniteSet({i})
    BY <2>2, <2>b, FS_Subset, FS_Singleton
  <2> QED
    BY <2>3, FS_Product
<1>3. h \in Surjection(D, T)
  <2> HIDE DEF D, J
  <2> QED
    BY DEF Surjection
<1>4. IsFiniteSet(T)
  <2> HIDE DEF h, T, D
  <2> QED
    BY <1>1, <1>3, FS_Surjection
<1>5. \A x \in T : IsFiniteSet(x)
  <2> HIDE DEF J, D
  <2> QED
    BY <1>2
<1>6. IsFiniteSet(UNION T)
  <2> HIDE DEF T
  <2> QED
    BY <1>4, <1>5, FS_UNION
<1>7. Occurrences(n, metrics) = Cardinality(UNION T)
  BY DEF Occurrences
<1> HIDE DEF T
<1> QED
  BY <1>6, <1>7, FS_CardinalityType

\* A pair is hashed at most once and keeps its name and text.
LEMMA PairHashed ==
  ASSUME NEW p \in LabelPairs, Plain(p), NEW metrics \in Seq(MetricRecords)
  PROVE  LET q == HashPair(p, metrics) IN
         q \in LabelPairs /\ q.name = p.name /\ q.value.text = p.value.text /\ Hashed(q)
<1> DEFINE o == Occurrences(p.name, metrics)
           k == IF p.shared THEN o ELSE 1
           q == HashPair(p, metrics)
<1>1. o \in Nat
  BY OccurrencesNumber
<1>2. CASE p.name \notin AnonymizeNames \/ p.value.text = ""
  <2>1. q = p
    BY <1>2 DEF HashPair
  <2> QED
    BY <1>2, <2>1 DEF Plain, Hashed
<1>3. CASE ~(p.name \notin AnonymizeNames \/ p.value.text = "")
  <2>1. q = [p EXCEPT !.value.hashed = @ + k]
    BY <1>3 DEF HashPair
  <2> HIDE DEF o, q
  <2>2. /\ q \in LabelPairs /\ q.name = p.name /\ q.value.text = p.value.text
        /\ q.value.hashed = p.value.hashed + k
    BY <1>1, <2>1, SMTT(60) DEF LabelPairs, Values
  <2>3. p.name \notin DOMAIN ClientLabels => k = 1
    BY DEF Plain
  <2>a. k \in Nat
    BY <1>1
  <2> HIDE DEF k
  <2>b. p.name \notin DOMAIN ClientLabels => q.value.hashed = 1
    BY <2>2, <2>3, <2>a DEF Plain
  <2>c. p.name \notin BadNames /\ p.value.text \notin LongTexts
    BY DEF Plain
  <2>4. Hashed(q)
    BY <2>2, <2>b, <2>c DEF Hashed
  <2> QED
    BY <2>2, <2>4 DEF q
<1> QED
  BY <1>2, <1>3

HashLabels(labels, metrics) ==
  IF AnonymizeNames = {} THEN labels
  ELSE [i \in DOMAIN labels |-> HashPair(labels[i], metrics)]

\* The same for the labels of a metric.
LEMMA LabelsHashed ==
  ASSUME NEW labels \in Seq(LabelPairs), \A i \in DOMAIN labels : Plain(labels[i]),
         NEW metrics \in Seq(MetricRecords)
  PROVE  LET h == HashLabels(labels, metrics) IN
         /\ h \in Seq(LabelPairs) /\ DOMAIN h = DOMAIN labels
         /\ \A i \in DOMAIN labels : /\ h[i].name = labels[i].name
                                     /\ h[i].value.text = labels[i].value.text
                                     /\ Hashed(h[i])
<1> DEFINE h == HashLabels(labels, metrics)
<1>1. CASE AnonymizeNames = {}
  <2>1. h = labels
    BY <1>1 DEF HashLabels
  <2>2. \A i \in DOMAIN labels : Hashed(labels[i])
    BY <1>1 DEF Plain, Hashed
  <2> QED
    BY <2>1, <2>2
<1>2. CASE AnonymizeNames # {}
  <2>1. h = [i \in DOMAIN labels |-> HashPair(labels[i], metrics)]
    BY <1>2 DEF HashLabels
  <2>2. DOMAIN labels = 1..Len(labels) /\ Len(labels) \in Nat
    OBVIOUS
  <2> HIDE DEF h
  <2>3. ASSUME NEW i \in DOMAIN labels
        PROVE  /\ h[i] \in LabelPairs
               /\ h[i].name = labels[i].name
               /\ h[i].value.text = labels[i].value.text
               /\ Hashed(h[i])
    <3>1. labels[i] \in LabelPairs /\ Plain(labels[i]) /\ h[i] = HashPair(labels[i], metrics)
      BY <2>1
    <3> QED
      BY <3>1, PairHashed
  <2>4. h \in Seq(LabelPairs) /\ DOMAIN h = DOMAIN labels
    <3>1. h = [i \in 1..Len(labels) |-> h[i]]
      BY <2>1, <2>2
    <3> QED
      BY <2>1, <2>2, <2>3, <3>1, IsSequence
  <2> QED
    BY <2>3, <2>4 DEF h
<1> QED
  BY <1>1, <1>2

\* What the server may assert.
ServerLabels(ls) == LabelMap(ls) /\ \A n \in DOMAIN ls : WellFormed(Pair(n, ls[n]))

\* The labels of a metric that is about to be sent: the server will find
\* nothing wrong with them, and those to be anonymized are.
Sendable(labels, ls) ==
  /\ \A i \in DOMAIN labels : WellFormed(labels[i])
  /\ \A n \in DOMAIN ls : n \in NamesOf(labels)
  /\ \A i \in DOMAIN labels : labels[i].name \in DOMAIN ls => labels[i].value = ls[labels[i].name]
  /\ \A i \in DOMAIN labels :
       labels[i].name \in DOMAIN ls \/ Hashed(labels[i])

\* With the server's labels appended, the labels of a metric can be sent.
LEMMA LabelsSendable ==
  ASSUME NEW labels \in Seq(LabelPairs), \A i \in DOMAIN labels : Hashed(labels[i]),
         NEW ls, ServerLabels(ls)
  PROVE  LET a == AppendLabels(labels, ls, SetToSeq(DOMAIN ls)) IN
         /\ a \in Seq(LabelPairs)
         /\ Sendable(a, ls)
         /\ \A i \in DOMAIN labels : /\ i \in DOMAIN a /\ a[i].name = labels[i].name
                                     /\ a[i].name \in DOMAIN ls \/ a[i] = labels[i]
<1> DEFINE order == SetToSeq(DOMAIN ls)
           a == AppendLabels(labels, ls, order)
<1>1. /\ IsFiniteSet(DOMAIN ls) /\ DOMAIN ls \subseteq STRING
      /\ ls \in [DOMAIN ls -> Values]
      /\ \A n \in DOMAIN ls : WellFormed(Pair(n, ls[n]))
  BY DEF ServerLabels, LabelMap
<1>2. order \in SetToSeqs(DOMAIN ls)
  BY <1>1, OrderChosen
<1> HIDE DEF order
<1>3. /\ a \in Seq(LabelPairs)
      /\ InPlace(a, labels, ls)
      /\ \A i \in DOMAIN a : a[i].name \in DOMAIN ls \/ \E j \in DOMAIN labels : a[i] = labels[j]
      /\ \A n \in DOMAIN ls : n \in NamesOf(a)
      /\ \A i \in DOMAIN a : a[i].name \in DOMAIN ls => a[i].value = ls[a[i].name]
  BY <1>1, <1>2, LabelsAppended
<1> HIDE DEF a
<1>4. ASSUME NEW i \in DOMAIN a PROVE WellFormed(a[i]) /\ (a[i].name \in DOMAIN ls \/ Hashed(a[i]))
  <2>1. CASE a[i].name \in DOMAIN ls
    <3>1. WellFormed(Pair(a[i].name, a[i].value))
      BY <1>1, <1>3, <2>1
    <3> QED
      BY <2>1, <3>1 DEF WellFormed, Pair
  <2>2. CASE a[i].name \notin DOMAIN ls
    <3>1. Hashed(a[i])
      BY <1>3, <2>2
    <3> QED
      BY <3>1 DEF Hashed, WellFormed
  <2> QED
    BY <2>1, <2>2
<1>5. Sendable(a, ls)
  BY <1>3, <1>4 DEF Sendable
<1>6. \A i \in DOMAIN labels : /\ i \in DOMAIN a /\ a[i].name = labels[i].name
                               /\ a[i].name \in DOMAIN ls \/ a[i] = labels[i]
  BY <1>3 DEF InPlace
<1> QED
  BY <1>3, <1>5, <1>6 DEF a, order

\* Metric k is what --label and dropInvalidFederateSamples make of m.
Prepared(k, m) ==
  /\ k \in MetricRecords /\ k.ts = m.ts /\ k.set = m.set
  /\ \A j \in DOMAIN k.labels : Plain(k.labels[j])
  /\ \A i \in DOMAIN m.labels : Wholesome(m.labels[i]) =>
       \E j \in DOMAIN k.labels : k.labels[j] = m.labels[i]

\* The anonymizer and the label transformer make a metric of it that can be sent.
LEMMA MetricSendable ==
  ASSUME NEW m, NEW k, Prepared(k, m), NEW metrics \in Seq(MetricRecords), NEW ls, ServerLabels(ls),
         NEW x, x.ts = k.ts, x.set = k.set,
         x.labels = AppendLabels(HashLabels(k.labels, metrics), ls, SetToSeq(DOMAIN ls))
  PROVE  x.set = m.set /\ Sendable(x.labels, ls) /\ Mirrors(x, m, ls)
<1> DEFINE h == HashLabels(k.labels, metrics)
<1>1. k \in MetricRecords /\ \A j \in DOMAIN k.labels : Plain(k.labels[j])
  BY DEF Prepared
<1>2. k.labels \in Seq(LabelPairs)
  BY <1>1 DEF MetricRecords
<1>3. /\ h \in Seq(LabelPairs) /\ DOMAIN h = DOMAIN k.labels
      /\ \A i \in DOMAIN k.labels : /\ h[i].name = k.labels[i].name
                                    /\ h[i].value.text = k.labels[i].value.text
                                    /\ Hashed(h[i])
  BY <1>1, <1>2, LabelsHashed
<1>4. x.labels = AppendLabels(h, ls, SetToSeq(DOMAIN ls))
  OBVIOUS
<1> HIDE DEF h
<1>5. \A i \in DOMAIN h : Hashed(h[i])
  BY <1>3
<1>6. /\ Sendable(x.labels, ls)
      /\ \A i \in DOMAIN h : /\ i \in DOMAIN x.labels /\ x.labels[i].name = h[i].name
                             /\ x.labels[i].name \in DOMAIN ls \/ x.labels[i] = h[i]
  BY <1>3, <1>4, <1>5, LabelsSendable
<1>7. ASSUME NEW i \in DOMAIN m.labels, Wholesome(m.labels[i])
      PROVE  \E j \in DOMAIN x.labels :
               /\ x.labels[j].name = m.labels[i].name
               /\ x.labels[j].name \in DOMAIN ls \/ x.labels[j].value.text = m.labels[i].value.text
  <2>1. PICK j \in DOMAIN k.labels : k.labels[j] = m.labels[i]
    BY <1>7 DEF Prepared
  <2>2. /\ j \in DOMAIN x.labels /\ x.labels[j].name = h[j].name
        /\ x.labels[j].name \in DOMAIN ls \/ x.labels[j] = h[j]
    BY <1>3, <1>6, <2>1
  <2> QED
    BY <1>3, <2>1, <2>2
<1>8. LabelsShown(x.labels, m.labels, ls)
  BY <1>7 DEF LabelsShown, Wholesome
<1> QED
  BY <1>6, <1>8 DEF Mirrors, Prepared

-----------------------------------------------------------------------------
(* A scraped family on its way through the client. *)

\* A metric is not Nil.
LEMMA NotNil ==
  ASSUME NEW m \in MetricRecords
  PROVE  m # Nil
BY NilAssumption

\* --label and RenameMetrics.
LEMMA FamilyRenamed ==
  ASSUME NEW f \in FamilyRecords, Decoded(f)
  PROVE  \E g \in FamilyRecords :
           /\ Then(Label(f, ClientLabels, SetToSeq(DOMAIN ClientLabels)),
                   LAMBDA e : Rename(e, Renames)) = Keep(g)
           /\ g.name = NewName(f) /\ g.type = f.type
           /\ DOMAIN g.metrics = DOMAIN f.metrics
           /\ \A i \in DOMAIN g.metrics :
                /\ f.metrics[i] \in MetricRecords /\ g.metrics[i] \in MetricRecords
                /\ g.metrics[i].labels =
                     AppendLabels(f.metrics[i].labels, ClientLabels, SetToSeq(DOMAIN ClientLabels))
                /\ g.metrics[i].ts = f.metrics[i].ts
                /\ g.metrics[i].set = f.metrics[i].set
<1> DEFINE order == SetToSeq(DOMAIN ClientLabels)
           r == Label(f, ClientLabels, order)
<1>1. /\ IsFiniteSet(DOMAIN ClientLabels) /\ DOMAIN ClientLabels \subseteq STRING
      /\ ClientLabels \in [DOMAIN ClientLabels -> Values]
  BY ScrapeAssumption DEF LabelMap
<1>2. order \in SetToSeqs(DOMAIN ClientLabels)
  BY <1>1, OrderChosen
<1> HIDE DEF order
<1>3. ~ HasNil(f)
  BY DEF Decoded, HasNil
<1>4. PICK e : r = Keep(e)
  BY <1>3 DEF Label
<1>5. /\ e \in FamilyRecords /\ e.name = f.name /\ e.type = f.type
      /\ DOMAIN e.metrics = DOMAIN f.metrics
      /\ \A i \in DOMAIN e.metrics :
           /\ f.metrics[i] \in MetricRecords
           /\ e.metrics[i] \in MetricRecords
           /\ e.metrics[i].labels = AppendLabels(f.metrics[i].labels, ClientLabels, order)
           /\ e.metrics[i].ts = f.metrics[i].ts
           /\ e.metrics[i].set = f.metrics[i].set
  BY <1>1, <1>2, <1>4, MetricsLabelled
<1>6. Then(r, LAMBDA x : Rename(x, Renames)) = Rename(e, Renames)
  BY <1>4 DEF Then, Keep, Result
<1> HIDE DEF r
<1>7. PICK g : Rename(e, Renames) = Keep(g) /\ g \in FamilyRecords /\ g.name = NewName(f)
                 /\ g.type = e.type /\ g.metrics = e.metrics
  <2>1. CASE e.name \in DOMAIN Renames
    <3> DEFINE g == [e EXCEPT !.name = Renames[e.name]]
    <3>1. Rename(e, Renames) = Keep(g)
      BY <2>1 DEF Rename
    <3>2. Renames[e.name] \in STRING
      BY <2>1, ScrapeAssumption
    <3>3. g \in FamilyRecords /\ g.name = Renames[e.name] /\ g.type = e.type /\ g.metrics = e.metrics
      BY <1>5, <3>2 DEF FamilyRecords
    <3> HIDE DEF g
    <3>4. g.name = NewName(f)
      BY <1>5, <2>1, <3>3 DEF NewName
    <3> QED
      BY <3>1, <3>3, <3>4
  <2>2. CASE e.name \notin DOMAIN Renames
    <3>1. Rename(e, Renames) = Keep(e)
      BY <2>2 DEF Rename
    <3>2. e.name = NewName(f)
      BY <1>5, <2>2 DEF NewName
    <3> QED
      BY <1>5, <3>1, <3>2
  <2> QED
    BY <2>1, <2>2
<1> QED
  BY <1>5, <1>6, <1>7, ZenonT(60) DEF r, order

\* The metrics of g are those of f, or Nil if they are too old or of the wrong
\* kind, with the labels that are well-formed.
Checked(g, f, oldest) ==
  /\ g.name = f.name /\ g.type = f.type /\ DOMAIN g.metrics = DOMAIN f.metrics
  /\ \A i \in DOMAIN g.metrics :
       LET m == f.metrics[i] IN
       IF OutOfDate(m, oldest) \/ m.set # f.type THEN g.metrics[i] = Nil
       ELSE /\ g.metrics[i] \in MetricRecords
            /\ g.metrics[i].labels =
                 Squeeze(m.labels, {j \in DOMAIN m.labels : WellFormed(m.labels[j])})
            /\ g.metrics[i].ts = m.ts /\ g.metrics[i].set = m.set

\* dropInvalidFederateSamples, for a family that it does not drop.
LEMMA MetricsChecked ==
  ASSUME NEW f \in FamilyRecords, NEW oldest, f.name \notin BadNames, f.type \in Types,
         \A i \in DOMAIN f.metrics : f.metrics[i] \in MetricRecords
  PROVE  \E g \in FamilyRecords :
           DropInvalidFederateSamples(f, oldest) = Keep(g) /\ Checked(g, f, oldest)
<1> DEFINE kept(l) == Squeeze(l, {j \in DOMAIN l : WellFormed(l[j])})
           bad(m) == OutOfDate(m, oldest) \/ m.set # f.type
           h == [i \in DOMAIN f.metrics |-> IF f.metrics[i] = Nil THEN Nil
                   ELSE IF bad(f.metrics[i]) THEN Nil
                   ELSE [f.metrics[i] EXCEPT !.labels = kept(f.metrics[i].labels)]]
           g == [f EXCEPT !.metrics = h]
<1>1. DropInvalidFederateSamples(f, oldest) = Keep(g)
  BY DEF DropInvalidFederateSamples, MapMetrics
<1>2. \A l \in Seq(LabelPairs) : kept(l) \in Seq(LabelPairs)
  BY Squeezed
<1> HIDE DEF kept, bad
<1>3. ASSUME NEW i \in DOMAIN f.metrics
      PROVE  IF bad(f.metrics[i]) THEN h[i] = Nil
             ELSE /\ h[i] \in MetricRecords
                  /\ h[i].labels = kept(f.metrics[i].labels)
                  /\ h[i].ts = f.metrics[i].ts /\ h[i].set = f.metrics[i].set
  <2>1. f.metrics[i] \in MetricRecords /\ f.metrics[i] # Nil
    BY NotNil
  <2>2. CASE bad(f.metrics[i])
    BY <2>2
  <2>3. CASE ~ bad(f.metrics[i])
    <3>1. h[i] = [f.metrics[i] EXCEPT !.labels = kept(f.metrics[i].labels)]
      BY <2>1, <2>3
    <3>2. kept(f.metrics[i].labels) \in Seq(LabelPairs)
      BY <1>2, <2>1 DEF MetricRecords
    <3> HIDE DEF h
    <3> QED
      BY <2>1, <2>3, <3>1, <3>2, LabelsSet
  <2> QED
    BY <2>2, <2>3
<1>4. h = [i \in DOMAIN f.metrics |-> h[i]]
  OBVIOUS
<1>5. DOMAIN f.metrics = 1..Len(f.metrics) /\ Len(f.metrics) \in Nat
  BY DEF FamilyRecords
<1> HIDE DEF h
<1>6. h \in Seq(MetricRecords \cup {Nil})
  <2>1. \A i \in DOMAIN f.metrics : h[i] \in MetricRecords \cup {Nil}
    BY <1>3
  <2> QED
    BY <1>4, <1>5, <2>1, IsSequence
<1>7. g \in FamilyRecords /\ g.metrics = h /\ g.name = f.name /\ g.type = f.type
  BY <1>6, MetricsSet
<1>8. DOMAIN g.metrics = DOMAIN f.metrics
  BY <1>4, <1>7
<1> HIDE DEF g
<1> QED
  BY <1>1, <1>3, <1>7, <1>8, ZenonT(60) DEF kept, bad, Checked

\* Family g is what is left of f when samples from oldest on are kept.
LeftOf(g, f, oldest) ==
  /\ g \in FamilyRecords /\ g.metrics \in Seq(MetricRecords) /\ g.metrics # <<>>
  /\ g.name = NewName(f) /\ g.name \notin BadNames
  /\ g.type = f.type /\ g.type \in Types
  /\ \A k \in DOMAIN g.metrics : \E j \in DOMAIN f.metrics :
       Good(f, j, oldest) /\ Prepared(g.metrics[k], f.metrics[j])
  /\ \A j \in DOMAIN f.metrics : Good(f, j, oldest) =>
       \E k \in DOMAIN g.metrics : Prepared(g.metrics[k], f.metrics[j])

\* A good sample is one dropInvalidFederateSamples keeps.
LEMMA GoodKept ==
  ASSUME NEW f, NEW j, f.metrics[j] \in MetricRecords, NEW oldest \in Nat,
         NewName(f) \notin BadNames, f.type \in Types
  PROVE  Good(f, j, oldest) <=> ~(OutOfDate(f.metrics[j], oldest) \/ f.metrics[j].set # f.type)
<1>1. f.metrics[j].ts \in Int
  BY DEF MetricRecords
<1>2. f.metrics[j].ts >= oldest <=> ~ OutOfDate(f.metrics[j], oldest)
  BY <1>1 DEF OutOfDate, NoTime
<1> QED
  BY <1>2 DEF Good

\* The transformers up to PackMetrics leave the good samples of a family, and
\* drop it only if there are none.
LEMMA FamilyConfigured ==
  ASSUME NEW f \in FamilyRecords, Decoded(f), NEW now \in Nat
  PROVE  LET r == Configured(f, now) IN
         /\ r.verdict = "ok" => LeftOf(r.family, f, Cutoff(now))
         /\ r.verdict = "drop" => \A j \in DOMAIN f.metrics : ~ Good(f, j, Cutoff(now))
<1> DEFINE order == SetToSeq(DOMAIN ClientLabels)
           oldest == Cutoff(now)
           r == Configured(f, now)
<1>1. PICK g \in FamilyRecords :
           /\ Then(Label(f, ClientLabels, order), LAMBDA e : Rename(e, Renames)) = Keep(g)
           /\ g.name = NewName(f) /\ g.type = f.type
           /\ DOMAIN g.metrics = DOMAIN f.metrics
           /\ \A i \in DOMAIN g.metrics :
                /\ f.metrics[i] \in MetricRecords /\ g.metrics[i] \in MetricRecords
                /\ g.metrics[i].labels = AppendLabels(f.metrics[i].labels, ClientLabels, order)
                /\ g.metrics[i].ts = f.metrics[i].ts
                /\ g.metrics[i].set = f.metrics[i].set
  BY FamilyRenamed
<1>2. r = Then(Then(Keep(g), LAMBDA e : DropInvalidFederateSamples(e, oldest)), PackMetrics)
  BY <1>1 DEF Configured
<1>3. r = Then(DropInvalidFederateSamples(g, oldest), PackMetrics)
  BY <1>2 DEF Then, Keep, Result
<1>4. oldest \in Nat
  BY ScrapeAssumption DEF Cutoff
<1> HIDE DEF oldest, r
<1>5. CASE g.name \in BadNames \/ g.type \notin Types
  <2>1. DropInvalidFederateSamples(g, oldest) = Result("drop", g)
    BY <1>5 DEF DropInvalidFederateSamples
  <2>2. r.verdict = "drop"
    BY <1>3, <2>1 DEF Then, Result
  <2>3. \A j \in DOMAIN f.metrics : ~ Good(f, j, oldest)
    BY <1>1, <1>5 DEF Good
  <2> QED
    BY <2>2, <2>3 DEF r, oldest
<1>6. CASE g.name \notin BadNames /\ g.type \in Types
  <2>a. \A i \in DOMAIN g.metrics : g.metrics[i] \in MetricRecords
    BY <1>1
  <2>b. PICK c \in FamilyRecords :
          DropInvalidFederateSamples(g, oldest) = Keep(c) /\ Checked(c, g, oldest)
    BY <1>6, <2>a, MetricsChecked
  <2>1. /\ c.name = g.name /\ c.type = g.type /\ DOMAIN c.metrics = DOMAIN g.metrics
        /\ \A i \in DOMAIN c.metrics :
             LET m == g.metrics[i] IN
             IF OutOfDate(m, oldest) \/ m.set # g.type THEN c.metrics[i] = Nil
             ELSE /\ c.metrics[i] \in MetricRecords
                  /\ c.metrics[i].labels =
                       Squeeze(m.labels, {j \in DOMAIN m.labels : WellFormed(m.labels[j])})
                  /\ c.metrics[i].ts = m.ts /\ c.metrics[i].set = m.set
    BY <2>b DEF Checked
  <2>2. r = PackMetrics(c)
    BY <1>3, <2>b DEF Then, Keep, Result
  <2>3. ASSUME NEW i \in DOMAIN f.metrics
        PROVE  /\ Good(f, i, oldest) => Prepared(c.metrics[i], f.metrics[i])
               /\ ~ Good(f, i, oldest) => c.metrics[i] = Nil
    <3>1. /\ f.metrics[i] \in MetricRecords /\ g.metrics[i] \in MetricRecords
          /\ g.metrics[i].labels = AppendLabels(f.metrics[i].labels, ClientLabels, order)
          /\ g.metrics[i].ts = f.metrics[i].ts
          /\ g.metrics[i].set = f.metrics[i].set
      BY <1>1
    <3>2. OutOfDate(g.metrics[i], oldest) <=> OutOfDate(f.metrics[i], oldest)
      BY <3>1 DEF OutOfDate
    <3>3. Good(f, i, oldest) <=> ~(OutOfDate(g.metrics[i], oldest) \/ g.metrics[i].set # g.type)
      BY <1>1, <1>4, <1>6, <3>1, <3>2, GoodKept
    <3>4. i \in DOMAIN c.metrics
      BY <1>1, <2>1
    <3>5. CASE ~ Good(f, i, oldest)
      BY <2>1, <3>3, <3>4, <3>5
    <3>6. CASE Good(f, i, oldest)
      <4> DEFINE a == g.metrics[i].labels
      <4>1. /\ c.metrics[i] \in MetricRecords
            /\ c.metrics[i].labels = Squeeze(a, {j \in DOMAIN a : WellFormed(a[j])})
            /\ c.metrics[i].ts = g.metrics[i].ts /\ c.metrics[i].set = g.metrics[i].set
        BY <2>1, <3>3, <3>4, <3>6
      <4>2. c.metrics[i].labels = Cleaned(f.metrics[i].labels)
        BY <3>1, <4>1 DEF Cleaned
      <4>3. f.metrics[i].labels \in Seq(LabelPairs)
        BY <3>1 DEF MetricRecords
      <4>4. \A j \in DOMAIN f.metrics[i].labels :
              ~ f.metrics[i].labels[j].shared /\ f.metrics[i].labels[j].value.hashed = 0
        BY DEF Decoded
      <4>5. /\ \A j \in DOMAIN c.metrics[i].labels : Plain(c.metrics[i].labels[j])
            /\ \A k \in DOMAIN f.metrics[i].labels : Wholesome(f.metrics[i].labels[k]) =>
                 \E j \in DOMAIN c.metrics[i].labels : c.metrics[i].labels[j] = f.metrics[i].labels[k]
        BY <4>2, <4>3, <4>4, LabelsCleaned
      <4> HIDE DEF a
      <4>6. Prepared(c.metrics[i], f.metrics[i])
        BY <3>1, <4>1, <4>5 DEF Prepared
      <4> QED
        BY <3>6, <4>6
    <3> QED
      BY <3>5, <3>6
  <2> DEFINE d == Dense(c.metrics)
  <2>4. /\ d \in Seq(MetricRecords)
        /\ \A k \in DOMAIN d : d[k] # Nil /\ \E i \in DOMAIN c.metrics : d[k] = c.metrics[i]
        /\ \A i \in DOMAIN c.metrics : c.metrics[i] # Nil => \E k \in DOMAIN d : d[k] = c.metrics[i]
    <3>1. c.metrics \in Seq(MetricRecords \cup {Nil})
      BY DEF FamilyRecords
    <3> QED
      BY <3>1, DenseIs
  <2>5. r.verdict = (IF d = <<>> THEN "drop" ELSE "ok") /\ r.family = [c EXCEPT !.metrics = d]
    BY <2>2 DEF PackMetrics, Result
  <2> HIDE DEF d
  <2>6. r.family \in FamilyRecords /\ r.family.metrics = d /\ r.family.name = c.name /\ r.family.type = c.type
    <3>1. d \in Seq(MetricRecords \cup {Nil})
      BY <2>4
    <3>2. PICK e : e = r.family
      OBVIOUS
    <3>3. e = [c EXCEPT !.metrics = d]
      BY <2>5, <3>2
    <3>4. e \in FamilyRecords /\ e.metrics = d /\ e.name = c.name /\ e.type = c.type
      BY <3>1, <3>3, MetricsSet, ZenonT(60)
    <3> QED
      BY <3>2, <3>4
  <2>7. \A k \in DOMAIN d : \E j \in DOMAIN f.metrics : Good(f, j, oldest) /\ Prepared(d[k], f.metrics[j])
    BY <1>1, <2>1, <2>3, <2>4
  <2>8. \A j \in DOMAIN f.metrics : Good(f, j, oldest) => \E k \in DOMAIN d : Prepared(d[k], f.metrics[j])
    <3> SUFFICES ASSUME NEW j \in DOMAIN f.metrics, Good(f, j, oldest)
                 PROVE  \E k \in DOMAIN d : Prepared(d[k], f.metrics[j])
      OBVIOUS
    <3>1. Prepared(c.metrics[j], f.metrics[j]) /\ j \in DOMAIN c.metrics
      BY <1>1, <2>1, <2>3
    <3>2. c.metrics[j] # Nil
      BY <3>1, NotNil DEF Prepared
    <3> QED
      BY <2>4, <3>1, <3>2
  <2>9. r.verdict = "ok" => LeftOf(r.family, f, oldest)
    BY <1>1, <1>6, <2>1, <2>4, <2>5, <2>6, <2>7, <2>8 DEF LeftOf
  <2>10. r.verdict = "drop" => \A j \in DOMAIN f.metrics : ~ Good(f, j, oldest)
    <3>1. r.verdict = "drop" => d = <<>>
      BY <2>5
    <3>2. d = <<>> => DOMAIN d = {}
      OBVIOUS
    <3> QED
      BY <2>8, <3>1, <3>2
  <2> QED
    BY <2>9, <2>10 DEF r, oldest
<1> QED
  BY <1>5, <1>6

\* No metric is older than the one before it.
InOrder(ms) == \A k \in 1..(Len(ms) - 1) : ms[k].ts <= ms[k + 1].ts

\* SortMetrics loses nothing.
LEMMA FamilySorted ==
  ASSUME NEW f, NEW oldest, NEW g, LeftOf(g, f, oldest), NEW s \in Sorted(g)
  PROVE  LeftOf(s, f, oldest) /\ InOrder(s.metrics)
<1>1. PICK ms \in SortedOrders(g.metrics) : s = [g EXCEPT !.metrics = ms]
  BY DEF Sorted
<1>2. PICK p \in Bijection(DOMAIN g.metrics, DOMAIN g.metrics) :
        ms = [i \in DOMAIN g.metrics |-> g.metrics[p[i]]] /\ InOrder(ms)
  BY DEF SortedOrders, InOrder
<1>3. /\ g \in FamilyRecords /\ g.metrics \in Seq(MetricRecords) /\ g.metrics # <<>>
      /\ g.name = NewName(f) /\ g.name \notin BadNames
      /\ g.type = f.type /\ g.type \in Types
      /\ \A k \in DOMAIN g.metrics : \E j \in DOMAIN f.metrics :
           Good(f, j, oldest) /\ Prepared(g.metrics[k], f.metrics[j])
      /\ \A j \in DOMAIN f.metrics : Good(f, j, oldest) =>
           \E k \in DOMAIN g.metrics : Prepared(g.metrics[k], f.metrics[j])
  BY DEF LeftOf
<1>4. /\ p \in [DOMAIN g.metrics -> DOMAIN g.metrics]
      /\ \A w \in DOMAIN g.metrics : \E v \in DOMAIN g.metrics : p[v] = w
  BY <1>2 DEF Bijection, Injection, Surjection
<1>5. DOMAIN g.metrics = 1..Len(g.metrics) /\ Len(g.metrics) \in Nat /\ Len(g.metrics) # 0
  BY <1>3
<1>6. ms \in Seq(MetricRecords) /\ Len(ms) = Len(g.metrics) /\ DOMAIN ms = DOMAIN g.metrics
  <2>1. \A i \in 1..Len(g.metrics) : ms[i] \in MetricRecords
    <3> TAKE i \in 1..Len(g.metrics)
    <3>1. p[i] \in DOMAIN g.metrics /\ ms[i] = g.metrics[p[i]]
      BY <1>2, <1>4, <1>5
    <3>2. g.metrics \in Seq(MetricRecords)
      BY <1>3
    <3> QED
      BY <3>1, <3>2
  <2>2. ms = [i \in 1..Len(g.metrics) |-> ms[i]]
    BY <1>2, <1>5
  <2>3. ms \in Seq(MetricRecords) /\ Len(ms) = Len(g.metrics)
    BY <1>5, <2>1, <2>2, IsSequence
  <2> QED
    BY <1>2, <2>3
<1>7. ms # <<>>
  BY <1>5, <1>6
<1>8. s \in FamilyRecords /\ s.metrics = ms /\ s.name = g.name /\ s.type = g.type
  <2>1. ms \in Seq(MetricRecords \cup {Nil})
    BY <1>6
  <2>2. g \in FamilyRecords
    BY <1>3
  <2> QED
    BY <1>1, <2>1, <2>2, MetricsSet, ZenonT(60)
<1>9. \A k \in DOMAIN ms : \E j \in DOMAIN f.metrics :
        Good(f, j, oldest) /\ Prepared(ms[k], f.metrics[j])
  <2> SUFFICES ASSUME NEW k \in DOMAIN ms
               PROVE  \E j \in DOMAIN f.metrics : Good(f, j, oldest) /\ Prepared(ms[k], f.metrics[j])
    OBVIOUS
  <2>1. p[k] \in DOMAIN g.metrics /\ ms[k] = g.metrics[p[k]]
    BY <1>2, <1>4, <1>6
  <2> QED
    BY <1>3, <2>1
<1>10. \A j \in DOMAIN f.metrics : Good(f, j, oldest) =>
         \E k \in DOMAIN ms : Prepared(ms[k], f.metrics[j])
  <2> SUFFICES ASSUME NEW j \in DOMAIN f.metrics, Good(f, j, oldest)
               PROVE  \E k \in DOMAIN ms : Prepared(ms[k], f.metrics[j])
    OBVIOUS
  <2>1. PICK w \in DOMAIN g.metrics : Prepared(g.metrics[w], f.metrics[j])
    BY <1>3
  <2>2. PICK v \in DOMAIN g.metrics : p[v] = w
    BY <1>4
  <2>3. v \in DOMAIN ms /\ ms[v] = g.metrics[w]
    BY <1>2, <1>6, <2>2
  <2> QED
    BY <2>1, <2>3
<1>11. LeftOf(s, f, oldest)
  BY <1>3, <1>6, <1>7, <1>8, <1>9, <1>10 DEF LeftOf
<1> QED
  BY <1>2, <1>8, <1>11

\* The anonymizer changes label values and nothing else.
LEMMA FamilyAnonymized ==
  ASSUME NEW s \in FamilyRecords, s.metrics \in Seq(MetricRecords),
         \A k \in DOMAIN s.metrics : \A j \in DOMAIN s.metrics[k].labels : Plain(s.metrics[k].labels[j])
  PROVE  LET g == Anonymized(s) IN
         /\ g \in FamilyRecords /\ g.metrics \in Seq(MetricRecords)
         /\ g.name = s.name /\ g.type = s.type
         /\ Len(g.metrics) = Len(s.metrics)
         /\ \A k \in DOMAIN s.metrics :
              /\ g.metrics[k].labels = HashLabels(s.metrics[k].labels, s.metrics)
              /\ g.metrics[k].ts = s.metrics[k].ts
              /\ g.metrics[k].set = s.metrics[k].set
<1> DEFINE g == Anonymized(s)
<1>1. CASE AnonymizeNames = {}
  <2>1. g = s
    BY <1>1 DEF Anonymized
  <2> QED
    BY <1>1, <2>1 DEF HashLabels
<1>2. CASE AnonymizeNames # {}
  <2> DEFINE new(m) == HashLabels(m.labels, s.metrics)
             h == [k \in DOMAIN s.metrics |-> IF s.metrics[k] = Nil THEN Nil
                     ELSE [s.metrics[k] EXCEPT !.labels = new(s.metrics[k])]]
  <2>1. g = [s EXCEPT !.metrics = h]
    <3>1. g = Anonymize(s, AnonymizeNames).family
      BY <1>2 DEF Anonymized
    <3>2. Anonymize(s, AnonymizeNames).family =
            MapMetrics(s, LAMBDA m : [m EXCEPT !.labels =
              [i \in DOMAIN m.labels |-> HashPair(m.labels[i], s.metrics)]])
      BY DEF Anonymize, Keep, Result, HashPair
    <3> QED
      BY <1>2, <3>1, <3>2 DEF MapMetrics, HashLabels
  <2> HIDE DEF new, g
  <2>2. ASSUME NEW k \in DOMAIN s.metrics
        PROVE  /\ h[k] \in MetricRecords
               /\ h[k].labels = new(s.metrics[k])
               /\ h[k].ts = s.metrics[k].ts
               /\ h[k].set = s.metrics[k].set
    <3>1. s.metrics[k] \in MetricRecords
      OBVIOUS
    <3>2. h[k] = [s.metrics[k] EXCEPT !.labels = new(s.metrics[k])]
      BY <3>1, NotNil
    <3>3. s.metrics[k].labels \in Seq(LabelPairs)
      BY <3>1 DEF MetricRecords
    <3>4. new(s.metrics[k]) \in Seq(LabelPairs)
      BY <3>3, LabelsHashed DEF new
    <3> HIDE DEF h
    <3> QED
      BY <3>1, <3>2, <3>4, LabelsSet
  <2>3. h = [k \in DOMAIN s.metrics |-> h[k]]
    OBVIOUS
  <2> HIDE DEF h
  <2>4. DOMAIN s.metrics = 1..Len(s.metrics) /\ Len(s.metrics) \in Nat
    OBVIOUS
  <2>5. h \in Seq(MetricRecords) /\ Len(h) = Len(s.metrics)
    <3>1. \A k \in 1..Len(s.metrics) : h[k] \in MetricRecords
      BY <2>2, <2>4
    <3>2. h = [k \in 1..Len(s.metrics) |-> h[k]]
      BY <2>3, <2>4
    <3> QED
      BY <2>4, <3>1, <3>2, IsSequence
  <2>6. g \in FamilyRecords /\ g.metrics = h /\ g.name = s.name /\ g.type = s.type
    <3>1. h \in Seq(MetricRecords \cup {Nil})
      BY <2>5
    <3> QED
      BY <2>1, <3>1, MetricsSet, ZenonT(60)
  <2> QED
    BY <2>2, <2>5, <2>6 DEF g, new
<1> QED
  BY <1>1, <1>2

\* A family that can be sent, if the server has given the labels ls and samples
\* from oldest on are kept.
Ready(g, ls, oldest) ==
  /\ g \in FamilyRecords /\ g.metrics \in Seq(MetricRecords) /\ g.metrics # <<>>
  /\ g.name \notin BadNames /\ g.type \in Types
  /\ \A k \in DOMAIN g.metrics : /\ g.metrics[k].ts >= oldest
                                 /\ g.metrics[k].set = g.type
                                 /\ Sendable(g.metrics[k].labels, ls)
  /\ InOrder(g.metrics)

\* Family g holds all good samples of f.
HoldsAll(g, f, ls, oldest) ==
  \A j \in DOMAIN f.metrics : Good(f, j, oldest) => Holds(g, f, j, ls)

\* What the anonymizer and the label transformer make of a sorted family.
LEMMA FamilyReady ==
  ASSUME NEW f, NEW oldest \in Nat, NEW s, LeftOf(s, f, oldest), InOrder(s.metrics),
         NEW ls, ServerLabels(ls)
  PROVE  LET x == Labelled(Anonymized(s), ls) IN
         Ready(x, ls, oldest) /\ HoldsAll(x, f, ls, oldest)
<1> DEFINE g == Anonymized(s)
           x == Labelled(g, ls)
           order == SetToSeq(DOMAIN ls)
<1>1. /\ s \in FamilyRecords /\ s.metrics \in Seq(MetricRecords) /\ s.metrics # <<>>
      /\ s.name = NewName(f) /\ s.name \notin BadNames
      /\ s.type = f.type /\ s.type \in Types
  BY DEF LeftOf
<1>2. /\ \A k \in DOMAIN s.metrics : \E j \in DOMAIN f.metrics :
           Good(f, j, oldest) /\ Prepared(s.metrics[k], f.metrics[j])
      /\ \A j \in DOMAIN f.metrics : Good(f, j, oldest) =>
           \E k \in DOMAIN s.metrics : Prepared(s.metrics[k], f.metrics[j])
  BY DEF LeftOf
<1>3. \A k \in DOMAIN s.metrics : \A j \in DOMAIN s.metrics[k].labels : Plain(s.metrics[k].labels[j])
  BY <1>2 DEF Prepared
<1>4. /\ g \in FamilyRecords /\ g.metrics \in Seq(MetricRecords)
      /\ g.name = s.name /\ g.type = s.type
      /\ Len(g.metrics) = Len(s.metrics)
      /\ \A k \in DOMAIN s.metrics :
           /\ g.metrics[k].labels = HashLabels(s.metrics[k].labels, s.metrics)
           /\ g.metrics[k].ts = s.metrics[k].ts
           /\ g.metrics[k].set = s.metrics[k].set
  BY <1>1, <1>3, FamilyAnonymized
<1>5. /\ IsFiniteSet(DOMAIN ls) /\ DOMAIN ls \subseteq STRING /\ ls \in [DOMAIN ls -> Values]
  BY DEF ServerLabels, LabelMap
<1>6. order \in SetToSeqs(DOMAIN ls)
  BY <1>5, OrderChosen
<1> HIDE DEF g
<1>7. ~ HasNil(g)
  BY <1>4, NotNil DEF HasNil
<1>8. Label(g, ls, order) = Keep(x)
  BY <1>7 DEF Labelled, Label, Keep, Result
<1> HIDE DEF order, x
<1>9. /\ x \in FamilyRecords /\ x.name = g.name /\ x.type = g.type
      /\ DOMAIN x.metrics = DOMAIN g.metrics
      /\ \A i \in DOMAIN x.metrics :
           /\ x.metrics[i] \in MetricRecords
           /\ x.metrics[i].labels = AppendLabels(g.metrics[i].labels, ls, order)
           /\ x.metrics[i].ts = g.metrics[i].ts
           /\ x.metrics[i].set = g.metrics[i].set
  <2>1. g \in FamilyRecords
    BY <1>4
  <2> QED
    BY <1>5, <1>6, <1>8, <2>1, MetricsLabelled
<1>10. /\ x.metrics \in Seq(MetricRecords) /\ Len(x.metrics) = Len(s.metrics)
       /\ DOMAIN x.metrics = 1..Len(s.metrics) /\ DOMAIN s.metrics = 1..Len(s.metrics)
       /\ Len(s.metrics) \in Nat \ {0}
  <2>1. x.metrics \in Seq(MetricRecords \cup {Nil})
    BY <1>9 DEF FamilyRecords
  <2>2. DOMAIN x.metrics = 1..Len(x.metrics) /\ Len(x.metrics) \in Nat
    BY <2>1
  <2>3. DOMAIN g.metrics = 1..Len(s.metrics) /\ DOMAIN s.metrics = 1..Len(s.metrics) /\ Len(s.metrics) \in Nat \ {0}
    BY <1>1, <1>4
  <2>4. Len(x.metrics) = Len(s.metrics)
    <3> DEFINE a == Len(x.metrics)
               b == Len(s.metrics)
    <3>1. 1..a = 1..b /\ a \in Nat /\ b \in Nat \ {0}
      BY <1>9, <2>2, <2>3
    <3> HIDE DEF a, b
    <3>2. b \in 1..a
      BY <3>1
    <3>3. a \in 1..a
      BY <3>1, <3>2
    <3>4. a \in 1..b
      BY <3>1, <3>3
    <3>5. a = b
      BY <3>1, <3>2, <3>4
    <3> QED
      BY <3>5 DEF a, b
  <2>5. x.metrics = [i \in 1..Len(x.metrics) |-> x.metrics[i]]
    BY <2>1
  <2>6. x.metrics \in Seq(MetricRecords)
    BY <1>9, <2>2, <2>5, IsSequence
  <2> QED
    BY <1>9, <2>3, <2>4, <2>6
<1>11. ASSUME NEW k \in DOMAIN x.metrics
       PROVE  /\ k \in DOMAIN s.metrics
              /\ x.metrics[k].ts = s.metrics[k].ts
              /\ x.metrics[k].set = s.metrics[k].set
              /\ x.metrics[k].labels = AppendLabels(HashLabels(s.metrics[k].labels, s.metrics), ls, order)
  BY <1>4, <1>9, <1>10
<1>12. ASSUME NEW k \in DOMAIN s.metrics, NEW j \in DOMAIN f.metrics, Prepared(s.metrics[k], f.metrics[j])
       PROVE  /\ x.metrics[k].set = f.metrics[j].set
              /\ Sendable(x.metrics[k].labels, ls)
              /\ Mirrors(x.metrics[k], f.metrics[j], ls)
  <2>1. /\ x.metrics[k].ts = s.metrics[k].ts /\ x.metrics[k].set = s.metrics[k].set
        /\ x.metrics[k].labels =
             AppendLabels(HashLabels(s.metrics[k].labels, s.metrics), ls, SetToSeq(DOMAIN ls))
    BY <1>10, <1>11 DEF order
  <2>2. s.metrics \in Seq(MetricRecords)
    BY <1>1
  <2> QED
    BY <1>12, <2>1, <2>2, MetricSendable
<1>13. ASSUME NEW k \in DOMAIN x.metrics
       PROVE  /\ x.metrics[k].ts >= oldest
              /\ x.metrics[k].set = x.type
              /\ Sendable(x.metrics[k].labels, ls)
  <2>1. k \in DOMAIN s.metrics
    BY <1>10
  <2>2. PICK j \in DOMAIN f.metrics : Good(f, j, oldest) /\ Prepared(s.metrics[k], f.metrics[j])
    BY <1>2, <2>1
  <2>3. /\ x.metrics[k].set = f.metrics[j].set /\ Sendable(x.metrics[k].labels, ls)
        /\ Mirrors(x.metrics[k], f.metrics[j], ls)
    BY <1>12, <2>1, <2>2
  <2>4. x.type = f.type
    BY <1>1, <1>4, <1>9
  <2> QED
    BY <2>2, <2>3, <2>4 DEF Good, Mirrors
<1>14. InOrder(x.metrics)
  <2> SUFFICES ASSUME NEW k \in 1..(Len(x.metrics) - 1)
               PROVE  x.metrics[k].ts <= x.metrics[k + 1].ts
    BY DEF InOrder
  <2>1. k \in DOMAIN x.metrics /\ k + 1 \in DOMAIN x.metrics /\ k \in 1..(Len(s.metrics) - 1)
    BY <1>10
  <2>2. s.metrics[k].ts <= s.metrics[k + 1].ts
    BY <2>1 DEF InOrder
  <2> QED
    BY <1>11, <2>1, <2>2
<1>15. Ready(x, ls, oldest)
  <2>1. x.metrics # <<>>
    BY <1>10
  <2>2. x.name \notin BadNames /\ x.type \in Types
    BY <1>1, <1>4, <1>9
  <2> QED
    BY <1>9, <1>10, <1>13, <1>14, <2>1, <2>2 DEF Ready
<1>16. HoldsAll(x, f, ls, oldest)
  <2> SUFFICES ASSUME NEW j \in DOMAIN f.metrics, Good(f, j, oldest)
               PROVE  Holds(x, f, j, ls)
    BY DEF HoldsAll
  <2>1. PICK k \in DOMAIN s.metrics : Prepared(s.metrics[k], f.metrics[j])
    BY <1>2
  <2>2. k \in DOMAIN x.metrics /\ Mirrors(x.metrics[k], f.metrics[j], ls)
    BY <1>10, <1>12, <2>1
  <2>3. x.name = NewName(f)
    BY <1>1, <1>4, <1>9
  <2> QED
    BY <2>2, <2>3 DEF Holds
<1> QED
  BY <1>15, <1>16 DEF x, g

\* The first label of a name that the server gave has the server's value.
LEMMA SendableRequired ==
  ASSUME NEW labels \in Seq(LabelPairs), NEW ls, Sendable(labels, ls), NEW n \in DOMAIN ls
  PROVE  FirstIs(labels, n, ls[n])
<1>1. n \in NamesOf(labels)
  BY DEF Sendable
<1>2. PICK i : FirstAt(labels, n, i)
  BY <1>1, FirstExists
<1>3. FirstOf(labels, n) = labels[i]
  BY <1>2, FirstFound
<1>4. labels[i].value = ls[n]
  BY <1>2 DEF FirstAt, Sendable
<1> QED
  BY <1>1, <1>3, <1>4 DEF FirstIs

\* requireLabel finds it in every metric.
LEMMA ReadyRequired ==
  ASSUME NEW g, NEW ls, NEW oldest, Ready(g, ls, oldest), ServerLabels(ls)
  PROVE  RequiredLabels(g, ls, SetToSeq(DOMAIN ls)) = Keep(g)
<1> DEFINE ms == g.metrics
           order == SetToSeq(DOMAIN ls)
<1>1. g.metrics \in Seq(MetricRecords) /\ \A k \in DOMAIN ms : Sendable(ms[k].labels, ls)
  BY DEF Ready
<1>2. Dense(g.metrics) = g.metrics
  <2>1. \A k \in DOMAIN g.metrics : g.metrics[k] # Nil
    BY <1>1, NotNil
  <2> QED
    BY <1>1, <2>1, DenseWhole
<1>3. ASSUME NEW n \in DOMAIN ls PROVE RequireLabel(g, n, ls[n]).verdict = "ok"
  <2> DEFINE T == {k \in 1..Len(ms) : n \notin NamesOf(ms[k].labels) \/ FirstOf(ms[k].labels, n).value # ls[n]}
  <2>1. ASSUME NEW k \in 1..Len(ms) PROVE k \notin T
    <3>1. ms[k] \in MetricRecords /\ Sendable(ms[k].labels, ls)
      BY <1>1
    <3>2. ms[k].labels \in Seq(LabelPairs)
      BY <3>1 DEF MetricRecords
    <3>3. FirstIs(ms[k].labels, n, ls[n])
      BY <3>1, <3>2, SendableRequired
    <3> QED
      BY <3>3 DEF FirstIs
  <2>2. T = {}
    BY <2>1
  <2> DEFINE bad == IF T # {} THEN Min(T) ELSE 0
  <2>3. RequireLabel(g, n, ls[n]) =
          IF bad = 0 THEN Keep(g)
          ELSE Result(IF n \in NamesOf(ms[bad].labels) THEN "500" ELSE "400", g)
    BY <1>2 DEF RequireLabel, SelectInSeq
  <2>4. bad = 0
    BY <2>2
  <2> HIDE DEF bad
  <2> QED
    BY <2>3, <2>4 DEF Keep, Result
<1> DEFINE v(n) == RequireLabel(g, n, ls[n])
           U == {i \in 1..Len(order) : v(order[i]).verdict # "ok"}
           worst == IF U # {} THEN Min(U) ELSE 0
<1>4. RequiredLabels(g, ls, order) = IF worst = 0 THEN Keep(g) ELSE v(order[worst])
  BY DEF RequiredLabels, SelectInSeq
<1>5. order \in Seq(DOMAIN ls)
  <2>1. IsFiniteSet(DOMAIN ls)
    BY DEF ServerLabels, LabelMap
  <2> QED
    BY <2>1, OrderChosen, OrderComplete
<1>6. U = {}
  <2> HIDE DEF order
  <2>1. \A i \in 1..Len(order) : v(order[i]).verdict = "ok"
    <3> HIDE DEF v
    <3>1. \A n \in DOMAIN ls : v(n).verdict = "ok"
      BY <1>3 DEF v
    <3> QED
      BY <1>5, <3>1
  <2> QED
    BY <2>1
<1>7. worst = 0
  <2> HIDE DEF U
  <2> QED
    BY <1>6
<1> HIDE DEF worst, v
<1> QED
  BY <1>4, <1>7

\* telemeter-server accepts a family that is ready.
LEMMA ReadyAccepted ==
  ASSUME NEW g, NEW ls, cutoff \in Nat, Ready(g, ls, cutoff), ServerLabels(ls)
  PROVE  ServerVerdict(g, ls) = "ok"
<1> DEFINE ms == g.metrics
<1>1. /\ g \in FamilyRecords /\ ms \in Seq(MetricRecords) /\ ms # <<>>
      /\ g.name \notin BadNames /\ g.type \in Types
      /\ \A k \in DOMAIN ms : /\ ms[k].ts >= cutoff
                              /\ ms[k].set = g.type
                              /\ Sendable(ms[k].labels, ls)
      /\ InOrder(ms)
  BY DEF Ready
<1>2. Dense(g.metrics) = ms
  <2>1. \A k \in DOMAIN g.metrics : g.metrics[k] # Nil
    BY <1>1, NotNil
  <2> QED
    BY <1>1, <2>1, DenseWhole
<1>3. \A k \in DOMAIN ms : ms[k].ts \in Int /\ ms[k].ts >= 0 /\ ~ OutOfDate(ms[k], cutoff)
  <2> TAKE k \in DOMAIN ms
  <2>1. ms[k] \in MetricRecords /\ ms[k].ts >= cutoff
    BY <1>1
  <2>2. ms[k].ts \in Int
    BY <2>1 DEF MetricRecords
  <2> QED
    BY <2>1, <2>2 DEF OutOfDate, NoTime
<1> HIDE DEF ms
<1>4. ErrorOnUnsorted(g) = Keep(g)
  <2>1. \A i \in DOMAIN ms : /\ ms[i].ts # NoTime
                             /\ ms[i].ts >= IF i = 1 THEN 0 ELSE ms[i - 1].ts
    <3> TAKE i \in DOMAIN ms
    <3>1. ms[i].ts \in Int /\ ms[i].ts >= 0
      BY <1>3
    <3>2. CASE i = 1
      BY <3>1, <3>2 DEF NoTime
    <3>3. CASE i # 1
      <4>1. i - 1 \in 1..(Len(ms) - 1) /\ (i - 1) + 1 = i /\ i - 1 \in DOMAIN ms
        BY <1>1, <3>3
      <4>2. ms[i - 1].ts <= ms[(i - 1) + 1].ts /\ ms[i - 1].ts \in Int
        BY <1>1, <1>3, <4>1 DEF InOrder
      <4> QED
        BY <3>1, <3>3, <4>1, <4>2 DEF NoTime
    <3> QED
      BY <3>2, <3>3
  <2> QED
    BY <1>2, <2>1 DEF ErrorOnUnsorted, Keep, Result
<1>5. RequiredLabels(g, ls, SetToSeq(DOMAIN ls)) = Keep(g)
  BY ReadyRequired
<1>6. DropEmptyFamilies(g) = Keep(g)
  BY <1>1, <1>2 DEF DropEmptyFamilies, Keep
<1>7. ErrorInvalidFederateSamples(g, cutoff) = Keep(g)
  <2> DEFINE badPair(m) == \E i \in DOMAIN m.labels : ~ WellFormed(m.labels[i])
             T == {k \in 1..Len(ms) : badPair(ms[k]) \/ OutOfDate(ms[k], cutoff) \/ ms[k].set # g.type}
             bad == IF T # {} THEN Min(T) ELSE 0
             verdict == IF bad = 0 THEN "ok"
                        ELSE IF ~ badPair(ms[bad]) /\ OutOfDate(ms[bad], cutoff) THEN "400" ELSE "500"
  <2>1. ErrorInvalidFederateSamples(g, cutoff) =
          Result(IF g.name = "" THEN "drop"
                 ELSE IF g.name \in BadNames THEN "500"
                 ELSE IF g.type = NoType THEN "drop"
                 ELSE IF g.type \notin Types THEN "500"
                 ELSE verdict, g)
    BY <1>2 DEF ErrorInvalidFederateSamples, SelectInSeq
  <2>2. T = {}
    <3>1. ASSUME NEW k \in 1..Len(ms) PROVE k \notin T
      <4>1. Sendable(ms[k].labels, ls) /\ ms[k].set = g.type /\ ~ OutOfDate(ms[k], cutoff)
        BY <1>1, <1>3
      <4> QED
        BY <4>1 DEF Sendable
    <3> QED
      BY <3>1
  <2>3. bad = 0
    <3> HIDE DEF T
    <3> QED
      BY <2>2
  <2> HIDE DEF bad, badPair
  <2>4. verdict = "ok"
    BY <2>3
  <2> HIDE DEF verdict
  <2>5. g.name # ""
    BY <1>1, NameAssumption
  <2>6. g.type # NoType
    BY <1>1 DEF Types, NoType
  <2> QED
    BY <1>1, <2>1, <2>4, <2>5, <2>6 DEF Keep
<1>8. \A e : Keep(e).verdict = "ok" /\ Keep(e).family = e
  BY DEF Keep, Result
<1> QED
  BY <1>4, <1>5, <1>6, <1>7, <1>8 DEF ServerVerdict, Then

-----------------------------------------------------------------------------
(* The inductive invariant of Scrape. *)

\* What Filter has made of family f by the time now: nothing is lost with a
\* family that it dropped, and one that it kept is ready.
Done(g, f, ls, oldest, now) ==
  IF g = Nil THEN \A j \in DOMAIN f.metrics : ~ Good(f, j, Cutoff(now))
  ELSE Ready(g, ls, oldest) /\ HoldsAll(g, f, ls, Cutoff(now))

\* The families fs made of b, with Filter at n.
FilteredTo(fs, b, n, ls, oldest, now) ==
  /\ Len(fs) = Len(b)
  /\ \A i \in DOMAIN b : IF i < n THEN Done(fs[i], b[i], ls, oldest, now) ELSE fs[i] = b[i]

\* The families fs made of b, to be sent.
ReadyToSend(fs, b, ls, oldest, now) ==
  /\ \A i \in DOMAIN fs : Ready(fs[i], ls, oldest)
  /\ \A i \in DOMAIN b : \A j \in DOMAIN b[i].metrics :
       Good(b[i], j, Cutoff(now)) => \E k \in DOMAIN fs : Holds(fs[k], b[i], j, ls)

ScrapeInv ==
  /\ ScrapeTypeOK
  /\ cutoff \in Nat
  /\ resolved => given \in Assertable
  /\ scraped \in Scrapes \cup {<<>>}
  /\ outgoing \in Seq(FamilyRecords \cup {Nil})
  /\ stage = "filter" => FilteredTo(outgoing, scraped, cursor, given, cutoff, wall)
  /\ stage = "filter" /\ ~ resolved => \A i \in 1..(cursor - 1) : outgoing[i] = Nil
  /\ stage = "send" => resolved /\ ReadyToSend(outgoing, scraped, given, cutoff, wall)

\* The cutoff does not go back as time passes.
LEMMA CutoffGrows ==
  ASSUME NEW s \in Nat, NEW t \in Nat, s <= t
  PROVE  Cutoff(s) \in Nat /\ Cutoff(t) \in Nat /\ Cutoff(s) <= Cutoff(t)
BY ScrapeAssumption DEF Cutoff

\* What is good was good before.
LEMMA GoodBefore ==
  ASSUME NEW f \in FamilyRecords, Decoded(f), NEW j \in DOMAIN f.metrics,
         NEW s \in Nat, NEW t \in Nat, s <= t, Good(f, j, t)
  PROVE  Good(f, j, s)
<1>1. f.metrics[j] \in MetricRecords
  BY DEF Decoded, FamilyRecords
<1>2. f.metrics[j].ts \in Int /\ f.metrics[j].ts >= t
  BY <1>1 DEF MetricRecords, Good
<1>3. f.metrics[j].ts >= s
  BY <1>2
<1> QED
  BY <1>3 DEF Good

\* What is ready for one cutoff is ready for an earlier one.
LEMMA ReadyBefore ==
  ASSUME NEW g, NEW ls, NEW s \in Nat, NEW t \in Nat, s <= t, Ready(g, ls, t)
  PROVE  Ready(g, ls, s)
<1>1. \A k \in DOMAIN g.metrics : g.metrics[k].ts >= t /\ g.metrics[k] \in MetricRecords
  BY DEF Ready
<1>2. \A k \in DOMAIN g.metrics : g.metrics[k].ts >= s
  BY <1>1 DEF MetricRecords
<1> QED
  BY <1>2 DEF Ready

\* What Retrieve yields.
LEMMA ScrapedFamily ==
  ASSUME NEW b \in Scrapes, NEW i \in DOMAIN b
  PROVE  b \in Seq(FamilyRecords) /\ b[i] \in FamilyRecords /\ Decoded(b[i]) /\ b[i] # Nil
<1>1. b \in Seq(FamilyRecords) /\ Decoded(b[i])
  BY ScrapeAssumption
<1>2. b[i] \in FamilyRecords
  BY <1>1
<1> QED
  BY <1>1, <1>2, NilAssumption

\* What Filter has done is as good later.
LEMMA DoneLater ==
  ASSUME NEW f \in FamilyRecords, Decoded(f), NEW g, NEW ls, NEW oldest,
         NEW s \in Nat, NEW t \in Nat, s <= t, Done(g, f, ls, oldest, s)
  PROVE  Done(g, f, ls, oldest, t)
<1>1. Cutoff(s) \in Nat /\ Cutoff(t) \in Nat /\ Cutoff(s) <= Cutoff(t)
  BY CutoffGrows
<1>2. \A j \in DOMAIN f.metrics : Good(f, j, Cutoff(t)) => Good(f, j, Cutoff(s))
  BY <1>1, GoodBefore
<1> QED
  BY <1>2 DEF Done, HoldsAll

\* Filter drops a family.
LEMMA DropsOne ==
  ASSUME NEW f \in FamilyRecords, Decoded(f), NEW ls, NEW oldest, NEW now \in Nat,
         Configured(f, now).verdict = "drop"
  PROVE  Done(Nil, f, ls, oldest, now)
<1>1. \A j \in DOMAIN f.metrics : ~ Good(f, j, Cutoff(now))
  BY FamilyConfigured
<1> QED
  BY <1>1 DEF Done

\* Filter keeps a family.
LEMMA KeepsOne ==
  ASSUME NEW f \in FamilyRecords, Decoded(f), NEW ls, ServerLabels(ls), NEW now \in Nat,
         NEW oldest \in Nat, oldest <= Cutoff(now), Configured(f, now).verdict = "ok",
         NEW s \in Sorted(Configured(f, now).family), NEW x, x = Labelled(Anonymized(s), ls)
  PROVE  x \in FamilyRecords /\ Done(x, f, ls, oldest, now)
<1>1. LeftOf(Configured(f, now).family, f, Cutoff(now))
  BY FamilyConfigured
<1>2. LeftOf(s, f, Cutoff(now)) /\ InOrder(s.metrics)
  BY <1>1, FamilySorted
<1>3. Cutoff(now) \in Nat
  BY CutoffGrows
<1>4. Ready(x, ls, Cutoff(now)) /\ HoldsAll(x, f, ls, Cutoff(now))
  BY <1>2, <1>3, FamilyReady
<1>5. Ready(x, ls, oldest)
  BY <1>3, <1>4, ReadyBefore
<1>6. x \in FamilyRecords /\ x # Nil
  BY <1>5, NilAssumption DEF Ready
<1> QED
  BY <1>4, <1>5, <1>6 DEF Done

\* Filter makes fs2 of fs by going one family further. The labels may change as
\* long as no family was kept.
OneFurther(fs2, fs, b, n, ls2, ls, oldest, now) ==
  /\ fs \in Seq(FamilyRecords \cup {Nil}) /\ b \in Scrapes /\ n \in 1..Len(fs)
  /\ FilteredTo(fs, b, n, ls, oldest, now)
  /\ ls2 = ls \/ \A i \in 1..(n - 1) : fs[i] = Nil
  /\ \E x \in FamilyRecords \cup {Nil} :
       fs2 = [fs EXCEPT ![n] = x] /\ Done(x, b[n], ls2, oldest, now)

\* A family that Filter has dropped or made ready is accounted for.
LEMMA FilteredOne ==
  ASSUME NEW fs, NEW fs2, NEW b, NEW n, NEW ls, NEW ls2, NEW oldest, NEW now,
         OneFurther(fs2, fs, b, n, ls2, ls, oldest, now)
  PROVE  /\ fs2 \in Seq(FamilyRecords \cup {Nil}) /\ Len(fs2) = Len(fs)
         /\ FilteredTo(fs2, b, n + 1, ls2, oldest, now)
<1>a. /\ fs \in Seq(FamilyRecords \cup {Nil}) /\ b \in Scrapes /\ n \in 1..Len(fs)
      /\ FilteredTo(fs, b, n, ls, oldest, now)
      /\ ls2 = ls \/ \A i \in 1..(n - 1) : fs[i] = Nil
  BY DEF OneFurther
<1>b. PICK x \in FamilyRecords \cup {Nil} :
        fs2 = [fs EXCEPT ![n] = x] /\ Done(x, b[n], ls2, oldest, now)
  BY DEF OneFurther
<1>1. b \in Seq(FamilyRecords)
  BY <1>a, ScrapeAssumption
<1>2. DOMAIN b = 1..Len(b) /\ DOMAIN fs = 1..Len(fs) /\ Len(fs) \in Nat /\ Len(b) = Len(fs)
  BY <1>a, <1>1 DEF FilteredTo
<1>3. fs2 \in Seq(FamilyRecords \cup {Nil}) /\ Len(fs2) = Len(fs)
  BY <1>a, <1>b
<1>4. ASSUME NEW i \in DOMAIN b
      PROVE  IF i < n + 1 THEN Done(fs2[i], b[i], ls2, oldest, now) ELSE fs2[i] = b[i]
  <2>1. IF i < n THEN Done(fs[i], b[i], ls, oldest, now) ELSE fs[i] = b[i]
    BY <1>a DEF FilteredTo
  <2>2. CASE i = n
    <3>1. fs2[i] = x /\ i < n + 1
      BY <1>a, <1>b, <1>2, <2>2
    <3> QED
      BY <1>b, <2>2, <3>1
  <2>3. CASE i < n
    <3>1. fs2[i] = fs[i] /\ i < n + 1 /\ i \in 1..(n - 1)
      BY <1>a, <1>b, <1>2, <2>3
    <3>2. Done(fs[i], b[i], ls2, oldest, now)
      BY <1>a, <2>1, <2>3, <3>1 DEF Done
    <3> QED
      BY <3>1, <3>2
  <2>4. CASE i > n
    <3>1. fs2[i] = fs[i] /\ ~(i < n + 1) /\ ~(i < n)
      BY <1>a, <1>b, <1>2, <2>4
    <3> QED
      BY <2>1, <3>1
  <2> QED
    BY <1>a, <1>2, <2>2, <2>3, <2>4
<1> QED
  BY <1>2, <1>3, <1>4 DEF FilteredTo

\* When Filter is done, every family is ready or dropped, and Pack leaves the
\* former.
LEMMA FilteredAll ==
  ASSUME NEW fs \in Seq(FamilyRecords \cup {Nil}), NEW b \in Scrapes, NEW n \in Nat, n > Len(fs),
         NEW ls, NEW oldest, NEW now, FilteredTo(fs, b, n, ls, oldest, now)
  PROVE  ReadyToSend(Pack(fs), b, ls, oldest, now)
<1> DEFINE I == {i \in DOMAIN fs : fs[i] # Nil /\ fs[i].metrics # <<>>}
           r == Pack(fs)
<1>1. b \in Seq(FamilyRecords)
  BY ScrapeAssumption
<1>2. DOMAIN b = 1..Len(b) /\ DOMAIN fs = 1..Len(fs) /\ Len(fs) \in Nat /\ Len(b) = Len(fs)
  BY <1>1 DEF FilteredTo
<1>3. \A i \in DOMAIN fs : i \in DOMAIN b /\ Done(fs[i], b[i], ls, oldest, now)
  BY <1>2 DEF FilteredTo
<1>4. r \in Seq(FamilyRecords) /\ \A k \in DOMAIN r : \E i \in DOMAIN fs : r[k] = fs[i] /\ fs[i] # Nil
  BY Packed
<1>5. PICK origin : Selects(origin, r, fs, I)
  BY Packed
<1> HIDE DEF r
<1>6. \A k \in DOMAIN r : Ready(r[k], ls, oldest)
  BY <1>3, <1>4 DEF Done
<1>7. ASSUME NEW i \in DOMAIN b, NEW j \in DOMAIN b[i].metrics, Good(b[i], j, Cutoff(now))
      PROVE  \E k \in DOMAIN r : Holds(r[k], b[i], j, ls)
  <2>1. i \in DOMAIN fs /\ Done(fs[i], b[i], ls, oldest, now)
    BY <1>2, <1>3
  <2>2. fs[i] # Nil
    BY <1>7, <2>1 DEF Done
  <2>3. Ready(fs[i], ls, oldest) /\ HoldsAll(fs[i], b[i], ls, Cutoff(now))
    BY <2>1, <2>2 DEF Done
  <2>4. i \in DOMAIN fs \cap I
    BY <2>1, <2>2, <2>3 DEF Ready
  <2> HIDE DEF I
  <2>5. PICK k \in DOMAIN r : r[k] = fs[i]
    BY <1>5, <2>4 DEF Selects
  <2> QED
    BY <1>7, <2>3, <2>5 DEF HoldsAll
<1>8. ReadyToSend(r, b, ls, oldest, now)
  BY <1>6, <1>7 DEF ReadyToSend
<1> QED
  BY <1>8 DEF r

\* The invariant of Scrape holds initially.
LEMMA ScrapeInitial == ScrapeInit => ScrapeInv
<1> SUFFICES ASSUME ScrapeInit PROVE ScrapeInv
  OBVIOUS
<1>1. <<>> \in Seq(FamilyRecords \cup {Nil}) /\ Len(<<>>) = 0
  OBVIOUS
<1>2. Cutoff(wall) \in Nat
  BY ScrapeAssumption DEF ScrapeInit, Cutoff
<1>3. 0 \in 0..MaxRotations
  BY ScrapeAssumption
<1>4. ScrapeTypeOK
  <2>1. cursor \in 1..(Len(outgoing) + 1) /\ Len(outgoing) <= Len(scraped)
    BY <1>1 DEF ScrapeInit
  <2>2. cutoff <= Cutoff(wall)
    BY <1>2 DEF ScrapeInit
  <2> QED
    BY <1>3, <2>1, <2>2 DEF ScrapeInit, ScrapeTypeOK
<1> QED
  BY <1>1, <1>4 DEF ScrapeInit, ScrapeInv

\* The labels a token asserts, or those already given, can be asserted.
LEMMA AssertableLabels ==
  ASSUME NEW ls \in Assertable
  PROVE  ServerLabels(ls)
BY ScrapeAssumption DEF ServerLabels

\* forward ends in a good state.
LEMMA ForwardEndsWell ==
  ASSUME ScrapeInv, ForwardEnds, UNCHANGED <<wall, token, rotations, resolved, given>>
  PROVE  ScrapeInv'
<1>1. <<>> \in Seq(FamilyRecords \cup {Nil}) /\ Len(<<>>) = 0
  OBVIOUS
<1>2. Cutoff(wall) \in Nat
  BY ScrapeAssumption DEF ScrapeInv, ScrapeTypeOK, Cutoff
<1>3. ScrapeTypeOK'
  BY <1>1, <1>2 DEF ForwardEnds, ScrapeInv, ScrapeTypeOK, Cutoff
<1> QED
  BY <1>1, <1>3 DEF ForwardEnds, ScrapeInv

\* The state of Filter at a family.
LEMMA AtFamily ==
  ASSUME ScrapeInv, stage = "filter", cursor <= Len(outgoing)
  PROVE  /\ scraped \in Scrapes /\ cursor \in DOMAIN scraped /\ cursor \in 1..Len(outgoing)
         /\ outgoing[cursor] = scraped[cursor]
         /\ outgoing[cursor] \in FamilyRecords /\ Decoded(outgoing[cursor])
         /\ wall \in Nat
<1>1. /\ FilteredTo(outgoing, scraped, cursor, given, cutoff, wall)
      /\ outgoing \in Seq(FamilyRecords \cup {Nil})
      /\ cursor \in 1..(Len(outgoing) + 1)
      /\ scraped \in Scrapes \cup {<<>>}
  BY DEF ScrapeInv, ScrapeTypeOK
<1>2. wall \in Nat
  BY ScrapeAssumption DEF ScrapeInv, ScrapeTypeOK
<1>3. Len(outgoing) \in Nat /\ cursor \in 1..Len(outgoing) /\ Len(scraped) = Len(outgoing)
  BY <1>1 DEF FilteredTo
<1>4. scraped \in Scrapes
  <2>1. scraped # <<>>
    BY <1>3
  <2> QED
    BY <1>1, <2>1
<1>5. scraped \in Seq(FamilyRecords)
  BY <1>4, ScrapeAssumption
<1>6. cursor \in DOMAIN scraped /\ ~(cursor < cursor)
  BY <1>3, <1>5
<1>7. outgoing[cursor] = scraped[cursor]
  BY <1>1, <1>6 DEF FilteredTo
<1>8. scraped[cursor] \in FamilyRecords /\ Decoded(scraped[cursor])
  BY <1>4, <1>6, ScrapedFamily
<1> QED
  BY <1>2, <1>3, <1>4, <1>6, <1>7, <1>8

\* What was retrieved is all that there is to filter.
LEMMA RetrieveStep ==
  ASSUME ScrapeInv, NEW b \in Scrapes, Retrieve(b)
  PROVE  ScrapeInv'
<1>1. b \in Seq(FamilyRecords)
  BY ScrapeAssumption
<1>2. b \in Seq(FamilyRecords \cup {Nil}) /\ Len(b) \in Nat /\ DOMAIN b = 1..Len(b)
  BY <1>1
<1>3. Cutoff(wall) \in Nat
  BY ScrapeAssumption DEF ScrapeInv, ScrapeTypeOK, Cutoff
<1>4. ScrapeTypeOK'
  BY <1>2, <1>3 DEF Retrieve, ScrapeInv, ScrapeTypeOK, Cutoff
<1>5. FilteredTo(b, b, 1, given, Cutoff(wall), wall)
  BY <1>2 DEF FilteredTo
<1>6. FilteredTo(outgoing, scraped, cursor, given, cutoff, wall)'
  BY <1>5 DEF Retrieve
<1> QED
  BY <1>2, <1>3, <1>4, <1>6 DEF Retrieve, ScrapeInv

\* A family that is dropped held no good sample.
LEMMA FilterDropsStep ==
  ASSUME ScrapeInv, FilterDrops
  PROVE  ScrapeInv'
<1>1. /\ stage = "filter" /\ cursor <= Len(outgoing)
      /\ Configured(outgoing[cursor], wall).verdict = "drop"
      /\ outgoing' = [outgoing EXCEPT ![cursor] = Nil]
      /\ cursor' = cursor + 1
      /\ UNCHANGED <<wall, token, rotations, resolved, given, stage, scraped, cutoff>>
  BY DEF FilterDrops
<1>2. /\ scraped \in Scrapes /\ cursor \in DOMAIN scraped /\ cursor \in 1..Len(outgoing)
      /\ outgoing[cursor] = scraped[cursor]
      /\ outgoing[cursor] \in FamilyRecords /\ Decoded(outgoing[cursor])
      /\ wall \in Nat
  BY <1>1, AtFamily
<1>3. /\ FilteredTo(outgoing, scraped, cursor, given, cutoff, wall)
      /\ outgoing \in Seq(FamilyRecords \cup {Nil})
  BY <1>1 DEF ScrapeInv
<1>4. Done(Nil, scraped[cursor], given, cutoff, wall)
  BY <1>1, <1>2, DropsOne
<1>5. /\ outgoing' \in Seq(FamilyRecords \cup {Nil}) /\ Len(outgoing') = Len(outgoing)
      /\ FilteredTo(outgoing', scraped, cursor + 1, given, cutoff, wall)
  <2>1. scraped \in Scrapes /\ cursor \in 1..Len(outgoing)
    BY <1>2
  <2>2. outgoing' = [outgoing EXCEPT ![cursor] = Nil] /\ Nil \in FamilyRecords \cup {Nil}
    BY <1>1
  <2>4. PICK fs : fs = outgoing'
    OBVIOUS
  <2>5. fs = [outgoing EXCEPT ![cursor] = Nil]
    BY <2>2, <2>4
  <2>6. /\ fs \in Seq(FamilyRecords \cup {Nil}) /\ Len(fs) = Len(outgoing)
        /\ FilteredTo(fs, scraped, cursor + 1, given, cutoff, wall)
    <3>1. OneFurther(fs, outgoing, scraped, cursor, given, given, cutoff, wall)
      BY <1>3, <1>4, <2>1, <2>2, <2>5 DEF OneFurther
    <3> QED
      BY <3>1, FilteredOne
  <2> QED
    BY <2>4, <2>6
<1>6. FilteredTo(outgoing, scraped, cursor, given, cutoff, wall)'
  BY <1>1, <1>5
<1>6a. ASSUME ~ resolved PROVE \A i \in 1..((cursor + 1) - 1) : outgoing'[i] = Nil
  <2>1. \A i \in 1..(cursor - 1) : outgoing[i] = Nil
    BY <1>1, <1>6a DEF ScrapeInv
  <2> QED
    BY <1>1, <1>2, <1>3, <2>1
<1>6b. (stage = "filter" /\ ~ resolved => \A i \in 1..(cursor - 1) : outgoing[i] = Nil)'
  BY <1>1, <1>6a
<1>7. ScrapeTypeOK'
  BY <1>1, <1>2, <1>5 DEF ScrapeInv, ScrapeTypeOK, Cutoff
<1> QED
  BY <1>1, <1>5, <1>6, <1>6b, <1>7 DEF ScrapeInv

\* A family that is kept is ready, whether or not the server's labels were asked for.
LEMMA FilterKeepsStep ==
  ASSUME ScrapeInv, FilterKeeps
  PROVE  ScrapeInv'
<1>1. /\ stage = "filter" /\ cursor <= Len(outgoing)
      /\ Configured(outgoing[cursor], wall).verdict = "ok"
      /\ UNCHANGED <<wall, token, rotations>>
  BY DEF FilterKeeps
<1>2. PICK f \in Sorted(Configured(outgoing[cursor], wall).family) :
        \/ /\ resolved' = TRUE
           /\ given' = IF resolved THEN given ELSE token
           /\ outgoing' = [outgoing EXCEPT ![cursor] = Labelled(Anonymized(f), given')]
           /\ cursor' = cursor + 1
           /\ UNCHANGED <<stage, scraped, cutoff>>
        \/ /\ ~ resolved
           /\ ForwardEnds
           /\ UNCHANGED <<resolved, given>>
  BY DEF FilterKeeps
<1>3. CASE ForwardEnds /\ UNCHANGED <<resolved, given>>
  BY <1>1, <1>3, ForwardEndsWell
<1>4. CASE /\ resolved' = TRUE
           /\ given' = IF resolved THEN given ELSE token
           /\ outgoing' = [outgoing EXCEPT ![cursor] = Labelled(Anonymized(f), given')]
           /\ cursor' = cursor + 1
           /\ UNCHANGED <<stage, scraped, cutoff>>
  <2>1. /\ scraped \in Scrapes /\ cursor \in DOMAIN scraped /\ cursor \in 1..Len(outgoing)
        /\ outgoing[cursor] = scraped[cursor]
        /\ outgoing[cursor] \in FamilyRecords /\ Decoded(outgoing[cursor])
        /\ wall \in Nat
    BY <1>1, AtFamily
  <2>2. /\ FilteredTo(outgoing, scraped, cursor, given, cutoff, wall)
        /\ outgoing \in Seq(FamilyRecords \cup {Nil})
    BY <1>1 DEF ScrapeInv
  <2>3. cutoff \in Nat /\ cutoff <= Cutoff(wall) /\ resolved \in BOOLEAN
    BY DEF ScrapeInv, ScrapeTypeOK
  <2>4. given' \in Assertable
    BY <1>4 DEF ScrapeInv, ScrapeTypeOK
  <2>5. PICK ls : ls = given'
    OBVIOUS
  <2>6. ServerLabels(ls)
    BY <2>4, <2>5, AssertableLabels
  <2>7. PICK x : x = Labelled(Anonymized(f), ls)
    OBVIOUS
  <2>8. x \in FamilyRecords /\ Done(x, scraped[cursor], ls, cutoff, wall)
    BY <1>1, <2>1, <2>3, <2>6, <2>7, KeepsOne
  <2>9. ls = given \/ \A i \in 1..(cursor - 1) : outgoing[i] = Nil
    BY <1>1, <1>4, <2>5 DEF ScrapeInv
  <2>10. outgoing' = [outgoing EXCEPT ![cursor] = x]
    BY <1>4, <2>5, <2>7
  <2>11. /\ outgoing' \in Seq(FamilyRecords \cup {Nil}) /\ Len(outgoing') = Len(outgoing)
         /\ FilteredTo(outgoing', scraped, cursor + 1, ls, cutoff, wall)
    <3>1. x \in FamilyRecords \cup {Nil}
      BY <2>8
    <3>2. Done(x, scraped[cursor], ls, cutoff, wall)
      BY <2>8
    <3>3. scraped \in Scrapes /\ cursor \in 1..Len(outgoing)
      BY <2>1
    <3>4. PICK fs : fs = outgoing'
      OBVIOUS
    <3>5. fs = [outgoing EXCEPT ![cursor] = x]
      BY <2>10, <3>4
    <3>6. /\ fs \in Seq(FamilyRecords \cup {Nil}) /\ Len(fs) = Len(outgoing)
          /\ FilteredTo(fs, scraped, cursor + 1, ls, cutoff, wall)
      <4>1. OneFurther(fs, outgoing, scraped, cursor, ls, given, cutoff, wall)
        BY <2>2, <2>9, <3>1, <3>2, <3>3, <3>5 DEF OneFurther
      <4> QED
        BY <4>1, FilteredOne
    <3> QED
      BY <3>4, <3>6
  <2>12. FilteredTo(outgoing, scraped, cursor, given, cutoff, wall)'
    BY <1>1, <1>4, <2>5, <2>11
  <2>13. ScrapeTypeOK'
    BY <1>1, <1>4, <2>1, <2>4, <2>11 DEF ScrapeInv, ScrapeTypeOK, Cutoff
  <2> QED
    BY <1>1, <1>4, <2>4, <2>11, <2>12, <2>13 DEF ScrapeInv
<1> QED
  BY <1>2, <1>3, <1>4

\* Pack leaves what is ready, and all good samples with it.
LEMMA FilterEndsStep ==
  ASSUME ScrapeInv, FilterEnds
  PROVE  ScrapeInv'
<1>1. /\ stage = "filter" /\ cursor > Len(outgoing)
      /\ UNCHANGED <<wall, token, rotations, resolved, given>>
  BY DEF FilterEnds
<1>2. CASE Pack(outgoing) = <<>>
  BY <1>1, <1>2, ForwardEndsWell DEF FilterEnds
<1>3. CASE Pack(outgoing) # <<>>
  <2>1. /\ outgoing' = Pack(outgoing) /\ cursor' = 1 /\ stage' = "send"
        /\ UNCHANGED <<scraped, cutoff>>
    BY <1>3 DEF FilterEnds
  <2>2. /\ FilteredTo(outgoing, scraped, cursor, given, cutoff, wall)
        /\ outgoing \in Seq(FamilyRecords \cup {Nil}) /\ Len(outgoing) \in Nat
        /\ cursor \in 1..(Len(outgoing) + 1)
        /\ scraped \in Scrapes \cup {<<>>}
    BY <1>1 DEF ScrapeInv, ScrapeTypeOK
  <2>3. /\ Pack(outgoing) \in Seq(FamilyRecords) /\ Len(Pack(outgoing)) <= Len(outgoing)
    BY <2>2, Packed
  <2>4. scraped \in Scrapes
    <3>1. Len(Pack(outgoing)) # 0 /\ Len(Pack(outgoing)) \in Nat
      BY <1>3, <2>3
    <3>2. Len(scraped) # 0
      BY <2>2, <2>3, <3>1 DEF FilteredTo
    <3> QED
      BY <2>2, <3>2
  <2>5. ReadyToSend(Pack(outgoing), scraped, given, cutoff, wall)
    <3>1. cursor \in Nat
      BY <2>2
    <3> QED
      BY <1>1, <2>2, <2>4, <3>1, FilteredAll
  <2>5a. resolved
    <3>1. \A k \in DOMAIN Pack(outgoing) : \E i \in DOMAIN outgoing : outgoing[i] # Nil
      BY <2>2, Packed
    <3>2. 1 \in DOMAIN Pack(outgoing)
      BY <1>3, <2>3
    <3>3. PICK i \in DOMAIN outgoing : outgoing[i] # Nil
      BY <3>1, <3>2
    <3>4. i \in 1..(cursor - 1)
      BY <1>1, <2>2
    <3> QED
      BY <1>1, <3>3, <3>4 DEF ScrapeInv
  <2>6. (resolved /\ ReadyToSend(outgoing, scraped, given, cutoff, wall))'
    BY <1>1, <2>1, <2>5, <2>5a
  <2>7. Pack(outgoing) \in Seq(FamilyRecords \cup {Nil}) /\ Len(Pack(outgoing)) \in Nat
    BY <2>3
  <2>8. Len(Pack(outgoing)) <= Len(scraped)
    BY <2>2, <2>3 DEF FilteredTo
  <2>9. ScrapeTypeOK'
    BY <1>1, <2>1, <2>7, <2>8 DEF ScrapeInv, ScrapeTypeOK, Cutoff
  <2> QED
    BY <1>1, <2>1, <2>6, <2>7, <2>9 DEF ScrapeInv
<1> QED
  BY <1>2, <1>3

\* As time passes, no sample becomes good that was not.
LEMMA TickStep ==
  ASSUME ScrapeInv, NEW t \in WallTimes, Tick(t)
  PROVE  ScrapeInv'
<1>1. /\ t > wall /\ wall' = t
      /\ UNCHANGED <<token, rotations, resolved, given, stage, scraped, outgoing, cursor, cutoff>>
  BY DEF Tick
<1>2. wall \in Nat /\ t \in Nat /\ wall <= t
  <2>1. wall \in WallTimes
    BY DEF ScrapeInv, ScrapeTypeOK
  <2>2. wall \in Nat /\ t \in Nat
    BY <2>1, ScrapeAssumption
  <2> QED
    BY <1>1, <2>2
<1>3. Cutoff(wall) \in Nat /\ Cutoff(t) \in Nat /\ Cutoff(wall) <= Cutoff(t)
  BY <1>2, CutoffGrows
<1>4. ScrapeTypeOK'
  <2>1. cutoff <= Cutoff(t)
    BY <1>3 DEF ScrapeInv, ScrapeTypeOK
  <2>2. (cutoff <= Cutoff(wall))'
    BY <1>1, <2>1 DEF Cutoff
  <2> QED
    BY <1>1, <2>2 DEF ScrapeInv, ScrapeTypeOK
<1>5. ASSUME NEW i \in DOMAIN scraped
      PROVE  /\ scraped[i] \in FamilyRecords /\ Decoded(scraped[i])
  <2>1. scraped \in Scrapes
    BY DEF ScrapeInv
  <2> QED
    BY <2>1, ScrapedFamily
<1>6. ASSUME stage = "filter"
      PROVE  FilteredTo(outgoing, scraped, cursor, given, cutoff, t)
  <2>1. FilteredTo(outgoing, scraped, cursor, given, cutoff, wall)
    BY <1>6 DEF ScrapeInv
  <2>2. \A i \in DOMAIN scraped : Done(outgoing[i], scraped[i], given, cutoff, wall) =>
          Done(outgoing[i], scraped[i], given, cutoff, t)
    BY <1>2, <1>5, DoneLater
  <2> QED
    BY <2>1, <2>2 DEF FilteredTo
<1>7. ASSUME stage = "send"
      PROVE  resolved /\ ReadyToSend(outgoing, scraped, given, cutoff, t)
  <2>1. resolved /\ ReadyToSend(outgoing, scraped, given, cutoff, wall)
    BY <1>7 DEF ScrapeInv
  <2>2. \A i \in DOMAIN scraped : \A j \in DOMAIN scraped[i].metrics :
          Good(scraped[i], j, Cutoff(t)) => Good(scraped[i], j, Cutoff(wall))
    BY <1>3, <1>5, GoodBefore
  <2> QED
    BY <2>1, <2>2 DEF ReadyToSend
<1>8. (stage = "filter" => FilteredTo(outgoing, scraped, cursor, given, cutoff, wall))'
  BY <1>1, <1>6
<1>9. (stage = "send" => resolved /\ ReadyToSend(outgoing, scraped, given, cutoff, wall))'
  BY <1>1, <1>7
<1> QED
  BY <1>1, <1>4, <1>8, <1>9 DEF ScrapeInv

\* Every step of forward keeps the invariant.
LEMMA ScrapeInduction == ScrapeInv /\ [ScrapeNext]_scrapeVars => ScrapeInv'
<1> SUFFICES ASSUME ScrapeInv, [ScrapeNext]_scrapeVars PROVE ScrapeInv'
  OBVIOUS
<1>1. ASSUME NEW b \in Scrapes, Retrieve(b) PROVE ScrapeInv'
  BY <1>1, RetrieveStep
<1>2. CASE FilterDrops
  BY <1>2, FilterDropsStep
<1>3. CASE FilterKeeps
  BY <1>3, FilterKeepsStep
<1>4. CASE FilterEnds
  BY <1>4, FilterEndsStep
<1>5. CASE Send
  BY <1>5, ForwardEndsWell DEF Send
<1>6. CASE Reconfigure
  <2>1. ScrapeTypeOK'
    BY <1>6 DEF Reconfigure, ScrapeInv, ScrapeTypeOK, Cutoff
  <2> QED
    BY <1>6, <2>1 DEF Reconfigure, ScrapeInv
<1>7. ASSUME NEW t \in Assertable, Rotate(t) PROVE ScrapeInv'
  <2>1. ScrapeTypeOK'
    BY <1>7, ScrapeAssumption DEF Rotate, ScrapeInv, ScrapeTypeOK, Cutoff
  <2>2. FilteredTo(outgoing, scraped, cursor, given, cutoff, wall)'
          = FilteredTo(outgoing, scraped, cursor, given, cutoff, wall)
    BY <1>7 DEF Rotate
  <2>3. ReadyToSend(outgoing, scraped, given, cutoff, wall)'
          = ReadyToSend(outgoing, scraped, given, cutoff, wall)
    BY <1>7 DEF Rotate
  <2> QED
    BY <1>7, <2>1, <2>2, <2>3 DEF Rotate, ScrapeInv
<1>8. ASSUME NEW t \in WallTimes, Tick(t) PROVE ScrapeInv'
  BY <1>8, TickStep
<1>9. CASE UNCHANGED scrapeVars
  <2>1. UNCHANGED <<wall, token, rotations, resolved, given, stage, scraped, outgoing, cursor, cutoff>>
    BY <1>9 DEF scrapeVars
  <2>2. ScrapeTypeOK'
    BY <2>1 DEF ScrapeInv, ScrapeTypeOK, Cutoff
  <2> QED
    BY <2>1, <2>2 DEF ScrapeInv
<1> QED
  BY <1>1, <1>2, <1>3, <1>4, <1>5, <1>6, <1>7, <1>8, <1>9 DEF ScrapeNext

-----------------------------------------------------------------------------
(* Theorems about Scrape. *)

\* The inductive invariant of the client's pipeline holds: what Filter has left
\* behind is ready to be sent and holds every good sample, at any point of forward.
THEOREM ScrapeInvariance == ScrapeSpec => []ScrapeInv
BY ScrapeInitial, ScrapeInduction, PTL DEF ScrapeSpec

\* The client's pipeline is type correct; Pack, in particular, never leaves more
\* families than were retrieved.
THEOREM ScrapeTypeCorrect == ScrapeSpec => []ScrapeTypeOK
<1>1. ScrapeInv => ScrapeTypeOK
  BY DEF ScrapeInv
<1> QED
  BY <1>1, ScrapeInvariance, PTL

\* telemeter-server's Validate accepts all that the client's transformers let
\* through, for every scrape, every set of flags and every label the server asks
\* for.
THEOREM ForwardsAccepted == ScrapeSpec => []AcceptedByServer
<1>1. ScrapeInv => AcceptedByServer
  <2> SUFFICES ASSUME ScrapeInv, stage = "send", NEW i \in DOMAIN outgoing
               PROVE  ServerVerdict(outgoing[i], given) = "ok"
    BY DEF AcceptedByServer
  <2>1. given \in Assertable /\ cutoff \in Nat /\ Ready(outgoing[i], given, cutoff)
    BY DEF ScrapeInv, ReadyToSend
  <2>2. ServerLabels(given)
    BY <2>1, AssertableLabels
  <2> QED
    BY <2>1, <2>2, ReadyAccepted
<1> QED
  BY <1>1, ScrapeInvariance, PTL

\* A pair that is about to be sent is one of some metric of some family.
LEMMA OwnPairPlace ==
  ASSUME NEW p \in OwnPairs
  PROVE  \E i \in DOMAIN outgoing : \E j \in DOMAIN outgoing[i].metrics :
           \E l \in DOMAIN outgoing[i].metrics[j].labels : p = outgoing[i].metrics[j].labels[l]
<1> DEFINE pairs(i) == {ToSet(outgoing[i].metrics[j].labels) : j \in DOMAIN outgoing[i].metrics}
<1>1. p \in UNION {UNION pairs(i) : i \in DOMAIN outgoing}
  BY DEF OwnPairs
<1>2. PICK i \in DOMAIN outgoing : p \in UNION pairs(i)
  <2> HIDE DEF pairs
  <2> QED
    BY <1>1
<1>3. PICK j \in DOMAIN outgoing[i].metrics : p \in ToSet(outgoing[i].metrics[j].labels)
  BY <1>2
<1> QED
  BY <1>3 DEF ToSet

\* transformMetricLabelValues hashes every scraped label it is asked to, once,
\* and no later transformer undoes it.
THEOREM LabelsAnonymized == ScrapeSpec => []AnonymizedOnce
<1>1. ScrapeInv => AnonymizedOnce
  <2> SUFFICES ASSUME ScrapeInv, stage = "send", NEW p \in OwnPairs,
                      p.name \in AnonymizeNames, p.value.text # ""
               PROVE  p.value.hashed = 1
    BY DEF AnonymizedOnce
  <2>1. p.name \notin DOMAIN given /\ p.name \notin DOMAIN ClientLabels
    BY DEF OwnPairs
  <2>2. PICK i \in DOMAIN outgoing : \E j \in DOMAIN outgoing[i].metrics :
          \E l \in DOMAIN outgoing[i].metrics[j].labels : p = outgoing[i].metrics[j].labels[l]
    BY OwnPairPlace
  <2>3. PICK j \in DOMAIN outgoing[i].metrics :
          \E l \in DOMAIN outgoing[i].metrics[j].labels : p = outgoing[i].metrics[j].labels[l]
    BY <2>2
  <2>4. PICK l \in DOMAIN outgoing[i].metrics[j].labels : p = outgoing[i].metrics[j].labels[l]
    BY <2>3
  <2>5. Ready(outgoing[i], given, cutoff)
    BY DEF ScrapeInv, ReadyToSend
  <2>6. Sendable(outgoing[i].metrics[j].labels, given)
    BY <2>5 DEF Ready
  <2>7. Hashed(p)
    BY <2>1, <2>4, <2>6 DEF Sendable
  <2> QED
    BY <2>1, <2>7 DEF Hashed
<1> QED
  BY <1>1, ScrapeInvariance, PTL

\* Filter, Pack and SortMetrics lose no good sample: each is in what is sent,
\* with its timestamp, its labels and the family's new name.
THEOREM SamplesKept == ScrapeSpec => []NothingLost
<1>1. ScrapeInv => NothingLost
  <2> SUFFICES ASSUME ScrapeInv, stage = "send" \/ (stage = "filter" /\ cursor > Len(outgoing)),
                      NEW i \in DOMAIN scraped, NEW j \in DOMAIN scraped[i].metrics,
                      Good(scraped[i], j, Cutoff(wall))
               PROVE  \E g \in ToSet(Pack(outgoing)) : Holds(g, scraped[i], j, given)
    BY DEF NothingLost
  <2>1. scraped \in Scrapes
    BY DEF ScrapeInv
  <2>2. outgoing \in Seq(FamilyRecords \cup {Nil})
    BY DEF ScrapeInv
  <2>3. PICK k \in DOMAIN Pack(outgoing) : Holds(Pack(outgoing)[k], scraped[i], j, given)
    <3>1. CASE stage = "filter" /\ cursor > Len(outgoing)
      <4>1. FilteredTo(outgoing, scraped, cursor, given, cutoff, wall) /\ cursor \in Nat
        BY <2>2, <3>1 DEF ScrapeInv, ScrapeTypeOK
      <4>2. ReadyToSend(Pack(outgoing), scraped, given, cutoff, wall)
        BY <2>1, <2>2, <3>1, <4>1, FilteredAll
      <4> QED
        BY <4>2 DEF ReadyToSend
    <3>2. CASE stage = "send"
      <4> DEFINE I == {l \in DOMAIN outgoing : outgoing[l] # Nil /\ outgoing[l].metrics # <<>>}
      <4>1. ReadyToSend(outgoing, scraped, given, cutoff, wall)
        BY <3>2 DEF ScrapeInv
      <4>2. PICK l \in DOMAIN outgoing : Holds(outgoing[l], scraped[i], j, given)
        BY <4>1 DEF ReadyToSend
      <4>3. Ready(outgoing[l], given, cutoff)
        BY <4>1 DEF ReadyToSend
      <4>4. l \in DOMAIN outgoing \cap I
        BY <4>3, NilAssumption DEF Ready
      <4>5. PICK origin : Selects(origin, Pack(outgoing), outgoing, I)
        BY <2>2, Packed
      <4> HIDE DEF I
      <4>6. PICK k \in DOMAIN Pack(outgoing) : Pack(outgoing)[k] = outgoing[l]
        BY <4>4, <4>5 DEF Selects
      <4> QED
        BY <4>2, <4>6
    <3> QED
      BY <3>1, <3>2
  <2> QED
    BY <2>3 DEF ToSet
<1> QED
  BY <1>1, ScrapeInvariance, PTL
=============================================================================
