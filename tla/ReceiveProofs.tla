--------------------------- MODULE ReceiveProofs ---------------------------
(***************************************************************************)
(* Proofs about Receive, for all mounts and requests: whose name a series  *)
(* carries that goes to the upstream, that the answer is true, and that the*)
(* two loops, which overwrite the arrays they range over, lose, repeat and *)
(* reorder no series and leave each the right labels.                      *)
(***************************************************************************)
EXTENDS Receive, FiniteSetTheorems, SequenceTheorems, WellFoundedInduction,
        NaturalsInduction, TLAPS

\* A row with the labels that a series should end up with, in order.
SanitizedRow(row, labels) ==
  /\ Range(row) = Wanted(labels)
  /\ \A j, k \in DOMAIN row : j < k => row[j].name < row[k].name

\* The first k of rows are those of the first n series of the request that the
\* whitelist admits, sanitized, each once and in their order; all n have the
\* required labels.
Compacted(rows, k, n) ==
  /\ k = Cardinality(Listed(n))
  /\ \A i \in 1..n : HasRequired(req.series[i], mount.required)
  /\ \A i \in Listed(n) : SanitizedRow(rows[Cardinality(Listed(i))], req.series[i])

\* Of the first n labels, those to be copied but for duplicates.
Full(labels, elide, n) ==
  {i \in 1..n : labels[i].name \notin {NoName} \cup elide /\ labels[i].value # NoValue}

\* Of the first n labels, the ones to be copied: the first of each name.
Firsts(labels, elide, n) ==
  {labels[i] : i \in {j \in Full(labels, elide, n) :
     \A k \in Full(labels, elide, n) : labels[k].name = labels[j].name => j <= k}}

\* What is delivered is what the whitelist admits.
DeliveredInOrder ==
  delivered # <<>> => Compacted(delivered, Len(delivered), Len(req.series))

Before == {"idle", "authenticate", "size", "decode"}

TypeInv ==
  /\ mount \in Mounts
  /\ pc \in Before \cup {"series", "labels", "forward", "answered"}
  /\ pc # "idle" => req \in Requests
  /\ at \in Nat \ {0} /\ kept \in Nat

\* Where a common name in the context comes from.
SubjectInv ==
  /\ pc \in {"idle", "authenticate"} => subject = NoSubject
  /\ subject # NoSubject =>
       mount.auth = "header" /\ req.secret = "right" /\ subject = req.cn

\* The inner loop is at position n of the array arr, whose first m places hold
\* what is to be copied of the labels it has passed, and has not touched the rest.
Copied(labels, elide, arr, n, m) ==
  /\ arr \in Seq(Label) /\ Len(arr) = Len(labels)
  /\ n \in Nat \ {0} /\ m \in Nat
  /\ m < n /\ n <= Len(arr) + 1
  /\ \A i \in n..Len(arr) : arr[i] = labels[i]
  /\ {arr[i] : i \in 1..m} = Firsts(labels, elide, n - 1)
  /\ \A i, j \in 1..m : arr[i].name = arr[j].name => i = j

LabelInv ==
  /\ pc = "labels" =>
       /\ at <= Len(series)
       /\ HasRequired(req.series[at], mount.required)
       /\ IsWhitelisted(req.series[at])
       /\ Copied(req.series[at], mount.elide, lbls, look, fill)
  /\ pc # "labels" => lbls = <<>> /\ look = 1 /\ fill = 0

\* The loop has compacted what it has passed, and not touched the rest.
LoopInv ==
  /\ pc \in Before => at = 1 /\ kept = 0
  /\ pc \in {"series", "labels"} =>
       /\ series \in Seq(Seq(Label))
       /\ Len(series) = Len(req.series)
       /\ kept < at /\ at <= Len(series) + 1
       /\ \A i \in at..Len(series) : series[i] = req.series[i]
       /\ Compacted(series, kept, at - 1)
  /\ pc = "forward" =>
       /\ series \in Seq(Seq(Label))
       /\ series # <<>> /\ Len(series) = kept
       /\ Compacted(series, kept, Len(req.series))
       /\ \A i \in DOMAIN series : ~ SubjectMismatch(series[i])

\* Nothing is delivered or answered before the end.
OutInv ==
  /\ pc # "answered" => delivered = <<>> /\ status = "none"
  /\ \A i \in DOMAIN delivered : ~ SubjectMismatch(delivered[i])
  /\ DeliveredInOrder
  /\ AnswerTrue

IInv == TypeInv /\ SubjectInv /\ LoopInv /\ LabelInv /\ OutInv

-----------------------------------------------------------------------------
(* The labels of one series. *)

LEMMA Least ==
  ASSUME NEW T \in SUBSET Nat, T # {} PROVE \E x \in T : \A y \in T : x <= y
<1>1. PICK x \in T : \A y \in T : ~(<<y, x>> \in OpToRel(<, Nat))
  BY NatLessThanWellFounded, WFMin
<1>2. \A y \in T : ~(y < x)
  BY <1>1 DEF OpToRel
<1> QED
  BY <1>2

LEMMA FirstsAll ==
  ASSUME NEW labels \in Seq(Label)
  PROVE  Firsts(labels, mount.elide, Len(labels)) = Wanted(labels)
<1>1. DOMAIN labels = 1..Len(labels)
  OBVIOUS
<1> QED
  BY <1>1 DEF Firsts, Full, Wanted

\* One more label: it is to be copied unless it is empty, elided, or of a name
\* that was copied before.
LEMMA FirstsStep ==
  ASSUME NEW labels \in Seq(Label), NEW elide, NEW n \in Nat, n + 1 <= Len(labels)
  PROVE  LET l == labels[n + 1]
             skipped == \/ l.name \in {NoName} \cup elide \/ l.value = NoValue
                        \/ \E w \in Firsts(labels, elide, n) : w.name = l.name
         IN  Firsts(labels, elide, n + 1) = Firsts(labels, elide, n) \cup (IF skipped THEN {} ELSE {l})
<1> DEFINE l == labels[n + 1]
           first(m) == {j \in Full(labels, elide, m) :
                          \A k \in Full(labels, elide, m) : labels[k].name = labels[j].name => j <= k}
<1>1. \A m : Firsts(labels, elide, m) = {labels[i] : i \in first(m)}
  BY DEF Firsts
<1>2. Full(labels, elide, n) \subseteq Nat /\ \A k \in Full(labels, elide, n) : k < n + 1
  BY DEF Full
<1>3. CASE l.name \in {NoName} \cup elide \/ l.value = NoValue
  <2>1. Full(labels, elide, n + 1) = Full(labels, elide, n)
    BY <1>3 DEF Full
  <2> QED
    BY <1>3, <2>1 DEF Firsts
<1>4. CASE ~(l.name \in {NoName} \cup elide \/ l.value = NoValue)
  <2>1. Full(labels, elide, n + 1) = Full(labels, elide, n) \cup {n + 1}
    BY <1>4 DEF Full
  <2>2. first(n + 1) \ {n + 1} = first(n)
    BY <1>2, <2>1
  <2>3. n + 1 \in first(n + 1) <=> \A k \in Full(labels, elide, n) : labels[k].name # l.name
    BY <1>2, <2>1
  <2>4. (\A k \in Full(labels, elide, n) : labels[k].name # l.name)
          <=> \A w \in Firsts(labels, elide, n) : w.name # l.name
    <3>1. ASSUME NEW k \in Full(labels, elide, n), labels[k].name = l.name
          PROVE  \E w \in Firsts(labels, elide, n) : w.name = l.name
      <4> DEFINE T == {j \in Full(labels, elide, n) : labels[j].name = l.name}
      <4>1. PICK x \in T : \A y \in T : x <= y
        <5>1. T \in SUBSET Nat /\ T # {}
          BY <1>2, <3>1
        <5> HIDE DEF T
        <5> QED
          BY <5>1, Least
      <4>2. x \in first(n) /\ labels[x].name = l.name
        BY <4>1
      <4> QED
        BY <1>1, <4>2
    <3>2. \A w \in Firsts(labels, elide, n) : \E k \in Full(labels, elide, n) : w = labels[k]
      BY <1>1
    <3> QED
      BY <3>1, <3>2
  <2>5. CASE \E w \in Firsts(labels, elide, n) : w.name = l.name
    <3>1. first(n + 1) = first(n)
      BY <2>2, <2>3, <2>4, <2>5
    <3> QED
      BY <1>1, <2>5, <3>1
  <2>6. CASE ~ \E w \in Firsts(labels, elide, n) : w.name = l.name
    <3>1. first(n + 1) = first(n) \cup {n + 1}
      BY <2>2, <2>3, <2>4, <2>6
    <3> HIDE DEF first
    <3> QED
      BY <1>1, <1>4, <2>6, <3>1
  <2> QED
    BY <2>5, <2>6
<1> QED
  BY <1>3, <1>4

\* However the sort proceeds, labels of different names end up in the order of
\* their names.
LEMMA SortSound ==
  ASSUME NEW labels \in Seq(Label), NEW row \in SortLabels(labels),
         \A i, j \in DOMAIN labels : labels[i].name = labels[j].name => i = j
  PROVE  /\ row \in Seq(Label)
         /\ Range(row) = Range(labels)
         /\ \A j, k \in DOMAIN row : j < k => row[j].name < row[k].name
<1> DEFINE D == DOMAIN labels
<1>1. PICK p \in Bijection(D, D) :
        /\ \A m, n \in D : m < n => labels[p[m]].name <= labels[p[n]].name
        /\ row = [n \in D |-> labels[p[n]]]
  BY DEF SortLabels
<1>2. /\ p \in [D -> D]
      /\ \A m, n \in D : p[m] = p[n] => m = n
      /\ \A i \in D : \E n \in D : p[n] = i
  BY <1>1 DEF Bijection, Injection, Surjection, IsInjective
<1>3. D = 1..Len(labels) /\ Len(labels) \in Nat
  OBVIOUS
<1>4. \A i \in D : labels[i] \in Label /\ labels[i].name \in Nat
  <2>1. \A i \in DOMAIN labels : labels[i] \in Label
    OBVIOUS
  <2>2. \A l \in Label : l.name \in Nat
    BY DEF Label
  <2> QED
    BY <2>1, <2>2
<1>5. row \in [D -> Label]
  BY <1>1, <1>2, <1>4
<1>6. Range(row) = Range(labels)
  BY <1>1, <1>2 DEF Range
<1>7. ASSUME NEW j \in D, NEW k \in D, j < k PROVE row[j].name < row[k].name
  <2>1. row[j] = labels[p[j]] /\ row[k] = labels[p[k]] /\ p[j] \in D /\ p[k] \in D
    BY <1>1, <1>2
  <2>2. p[j] # p[k]
    BY <1>2, <1>3, <1>7
  <2>3. labels[p[j]].name # labels[p[k]].name
    BY <2>1, <2>2
  <2>4. labels[p[j]].name <= labels[p[k]].name
    BY <1>1, <1>7
  <2> QED
    BY <1>4, <2>1, <2>3, <2>4
<1> QED
  BY <1>3, <1>5, <1>6, <1>7

\* The labels that a finished inner loop leaves, sorted, are those the series
\* should have.
LEMMA CopiedSound ==
  ASSUME NEW labels \in Seq(Label), NEW arr, NEW n, NEW m,
         Copied(labels, mount.elide, arr, n, m), n > Len(arr),
         NEW row \in SortLabels(SubSeq(arr, 1, m))
  PROVE  row \in Seq(Label) /\ SanitizedRow(row, labels)
<1> DEFINE front == SubSeq(arr, 1, m)
<1>1. arr \in Seq(Label) /\ m \in 0..Len(arr) /\ Len(arr) \in Nat /\ n - 1 = Len(labels)
  BY DEF Copied
<1>2. front \in Seq(Label) /\ DOMAIN front = 1..m /\ \A i \in 1..m : front[i] = arr[i]
  BY <1>1
<1> HIDE DEF front
<1>3. Range(front) = Wanted(labels)
  <2>1. Range(front) = {arr[i] : i \in 1..m}
    BY <1>2 DEF Range
  <2> QED
    BY <1>1, <2>1, FirstsAll DEF Copied
<1>4. \A i, j \in DOMAIN front : front[i].name = front[j].name => i = j
  BY <1>2 DEF Copied
<1> QED
  BY <1>2, <1>3, <1>4, SortSound DEF SanitizedRow, front

\* One round of the inner loop: a label that is not skipped goes to the next
\* place, which has been read.
LEMMA CopyStep ==
  ASSUME NEW labels \in Seq(Label), NEW elide, NEW arr, NEW n, NEW m, NEW new,
         Copied(labels, elide, arr, n, m), n <= Len(arr),
         NEW skipped \in BOOLEAN,
         skipped <=> \/ arr[n].name = NoName \/ arr[n].value = NoValue
                     \/ \E i \in 1..m : arr[i].name = arr[n].name
                     \/ arr[n].name \in elide,
         new = IF skipped THEN arr ELSE [arr EXCEPT ![m + 1] = arr[n]]
  PROVE  Copied(labels, elide, new, n + 1, IF skipped THEN m ELSE m + 1)
<1> DEFINE l == labels[n]
<1>1. /\ arr \in Seq(Label) /\ Len(arr) = Len(labels) /\ Len(arr) \in Nat
      /\ n \in 1..Len(arr) /\ m \in Nat /\ m < n
      /\ arr[n] = l /\ l \in Label
  BY DEF Copied
<1>2. (\E i \in 1..m : arr[i].name = l.name)
        <=> \E w \in Firsts(labels, elide, n - 1) : w.name = l.name
  BY DEF Copied
<1>3. Firsts(labels, elide, n) = Firsts(labels, elide, n - 1) \cup (IF skipped THEN {} ELSE {l})
  <2>1. n - 1 \in Nat /\ (n - 1) + 1 = n
    BY <1>1
  <2>2. skipped <=> \/ l.name \in {NoName} \cup elide \/ l.value = NoValue
                    \/ \E w \in Firsts(labels, elide, n - 1) : w.name = l.name
    BY <1>1, <1>2
  <2> QED
    BY <1>1, <2>1, <2>2, FirstsStep
<1>4. (n + 1) - 1 = n
  BY <1>1
<1>5. CASE skipped
  <2>1. new = arr /\ (IF skipped THEN m ELSE m + 1) = m
    BY <1>5
  <2>2. Firsts(labels, elide, n) = {arr[i] : i \in 1..m}
    BY <1>3, <1>5 DEF Copied
  <2>3. \A i \in (n + 1)..Len(arr) : arr[i] = labels[i]
    BY <1>1 DEF Copied
  <2>4. n + 1 \in Nat \ {0} /\ m < n + 1 /\ n + 1 <= Len(arr) + 1
    BY <1>1
  <2>5. Copied(labels, elide, arr, n + 1, m)
    BY <1>1, <1>4, <2>2, <2>3, <2>4 DEF Copied
  <2> QED
    BY <2>1, <2>5
<1>6. CASE ~ skipped
  <2>1. new = [arr EXCEPT ![m + 1] = l]
    BY <1>1, <1>6
  <2>2. new \in Seq(Label) /\ Len(new) = Len(arr)
    BY <1>1, <2>1
  <2>3. /\ \A i \in 1..m : new[i] = arr[i]
        /\ new[m + 1] = l
        /\ \A i \in (n + 1)..Len(arr) : new[i] = labels[i]
    BY <1>1, <2>1 DEF Copied
  <2>4. 1..(m + 1) = 1..m \cup {m + 1}
    BY <1>1
  <2>5. {new[i] : i \in 1..(m + 1)} = Firsts(labels, elide, n)
    <3>1. {new[i] : i \in 1..(m + 1)} = {arr[i] : i \in 1..m} \cup {l}
      BY <2>3, <2>4
    <3> QED
      BY <1>3, <1>6, <3>1 DEF Copied
  <2>6. \A i, j \in 1..(m + 1) : new[i].name = new[j].name => i = j
    <3>1. \A i \in 1..m : arr[i].name # l.name
      BY <1>1, <1>6
    <3> QED
      BY <2>3, <2>4, <3>1 DEF Copied
  <2> HIDE DEF l
  <2> QED
    BY <1>1, <1>4, <1>6, <2>2, <2>3, <2>5, <2>6 DEF Copied
<1> QED
  BY <1>5, <1>6

-----------------------------------------------------------------------------
(* Compaction, one series at a time. *)

LEMMA ListedFinite ==
  ASSUME NEW n \in Nat PROVE IsFiniteSet(Listed(n)) /\ Cardinality(Listed(n)) \in Nat
<1>1. IsFiniteSet(1..n) /\ Listed(n) \subseteq 1..n
  BY FS_Interval DEF Listed
<1>2. IsFiniteSet(Listed(n))
  BY <1>1, FS_Subset
<1> QED
  BY <1>2, FS_CardinalityType

\* The place of a listed series among the listed ones.
LEMMA PlaceListed ==
  ASSUME NEW n \in Nat, NEW i \in Listed(n)
  PROVE  Cardinality(Listed(i)) \in 1..Cardinality(Listed(n))
<1>1. i \in 1..n /\ i \in Nat /\ i \in Listed(i) /\ Listed(i) \subseteq Listed(n)
  BY DEF Listed
<1>2. Cardinality(Listed(i)) <= Cardinality(Listed(n))
  BY <1>1, ListedFinite, FS_Subset
<1>3. Cardinality(Listed(i)) # 0
  BY <1>1, ListedFinite, FS_EmptySet
<1> QED
  BY <1>1, <1>2, <1>3, ListedFinite

LEMMA CompactedNone == ASSUME NEW rows PROVE Compacted(rows, 0, 0)
<1>1. Listed(0) = {}
  BY DEF Listed
<1>2. Cardinality(Listed(0)) = 0
  BY <1>1, FS_EmptySet
<1> QED
  BY <1>1, <1>2 DEF Compacted

\* Rows behind the first k do not matter.
LEMMA CompactedPrefix ==
  ASSUME NEW rows, NEW new, NEW k \in Nat, NEW n \in Nat, Compacted(rows, k, n),
         \A j \in 1..k : new[j] = rows[j]
  PROVE  Compacted(new, k, n)
BY PlaceListed DEF Compacted

\* A series that the whitelist does not admit is passed over.
LEMMA CompactedSkip ==
  ASSUME NEW rows, NEW k \in Nat, NEW n \in Nat, Compacted(rows, k, n),
         HasRequired(req.series[n + 1], mount.required),
         ~ IsWhitelisted(req.series[n + 1])
  PROVE  Compacted(rows, k, n + 1)
<1>1. Listed(n + 1) = Listed(n)
  BY DEF Listed
<1>2. \A i \in 1..(n + 1) : HasRequired(req.series[i], mount.required)
  BY DEF Compacted
<1> QED
  BY <1>1, <1>2 DEF Compacted

\* One that it admits is sanitized and put behind the first k.
LEMMA CompactedStep ==
  ASSUME NEW rows, NEW new, NEW k \in Nat, NEW n \in Nat, Compacted(rows, k, n),
         HasRequired(req.series[n + 1], mount.required),
         IsWhitelisted(req.series[n + 1]),
         \A j \in 1..k : new[j] = rows[j],
         SanitizedRow(new[k + 1], req.series[n + 1])
  PROVE  Compacted(new, k + 1, n + 1)
<1>1. Listed(n + 1) = Listed(n) \cup {n + 1} /\ n + 1 \notin Listed(n)
  BY DEF Listed
<1>2. k + 1 = Cardinality(Listed(n + 1))
  <2>1. IsFiniteSet(Listed(n)) /\ k = Cardinality(Listed(n))
    BY ListedFinite DEF Compacted
  <2>2. Cardinality(Listed(n) \cup {n + 1}) = Cardinality(Listed(n)) + 1
    BY <1>1, <2>1, FS_AddElement
  <2> QED
    BY <1>1, <2>1, <2>2
<1>3. \A i \in Listed(n) : SanitizedRow(new[Cardinality(Listed(i))], req.series[i])
  BY PlaceListed DEF Compacted
<1>4. \A i \in 1..(n + 1) : HasRequired(req.series[i], mount.required)
  BY DEF Compacted
<1> QED
  BY <1>1, <1>2, <1>3, <1>4 DEF Compacted

\* Compaction is about one request under one mount.
LEMMA CompactedFrame ==
  ASSUME UNCHANGED <<mount, req>>, NEW rows, NEW k, NEW n
  PROVE  Compacted(rows, k, n)' <=> Compacted(rows, k, n)
BY DEF Compacted, SanitizedRow, Wanted, Listed, IsWhitelisted, Matches

-----------------------------------------------------------------------------
(* The invariant is preserved. *)

\* A step that delivers nothing and says so.
LEMMA NothingOut ==
  ASSUME delivered' = <<>>,
         pc' # "answered" => status' = "none",
         \/ status' \in {"none", "400", "401", "403", "405", "413", "500"}
         \/ status' = "200" /\ req'.series = <<>>
  PROVE  OutInv'
BY DEF OutInv, DeliveredInOrder, AnswerTrue

LEMMA RequestSeries ==
  ASSUME TypeInv, pc # "idle"
  PROVE  /\ req.series \in Seq(Seq(Label)) /\ Len(req.series) \in Nat
         /\ DOMAIN req.series = 1..Len(req.series)
BY ReceiveAssumption DEF TypeInv

\* Where the loop is.
LEMMA InLoop ==
  ASSUME TypeInv, LoopInv, pc \in {"series", "labels"}, at <= Len(series)
  PROVE  /\ req.series \in Seq(Seq(Label)) /\ Len(req.series) \in Nat
         /\ series \in Seq(Seq(Label)) /\ Len(series) = Len(req.series)
         /\ DOMAIN series = 1..Len(series)
         /\ at \in 1..Len(series) /\ kept \in Nat /\ kept + 1 \in 1..at
         /\ (\A i \in at..Len(series) : series[i] = req.series[i])
         /\ Compacted(series, kept, at - 1)
         /\ at - 1 \in Nat /\ (at - 1) + 1 = at
         /\ series[at] = req.series[at] /\ req.series[at] \in Seq(Label)
<1>1. req.series \in Seq(Seq(Label)) /\ Len(req.series) \in Nat
  BY RequestSeries
<1>2. at \in 1..Len(series) /\ kept \in Nat /\ kept + 1 \in 1..at
      /\ series \in Seq(Seq(Label)) /\ Len(series) = Len(req.series)
      /\ (\A i \in at..Len(series) : series[i] = req.series[i])
      /\ Compacted(series, kept, at - 1)
  BY DEF TypeInv, LoopInv
<1>3. at \in at..Len(series) /\ at \in DOMAIN req.series /\ DOMAIN series = 1..Len(series)
  BY <1>1, <1>2
<1>4. at - 1 \in Nat /\ (at - 1) + 1 = at
  BY <1>2
<1>5. series[at] = req.series[at] /\ req.series[at] \in Seq(Label)
  BY <1>1, <1>2, <1>3
<1> QED
  BY <1>1, <1>2, <1>3, <1>4, <1>5

\* The loop moves on, with k of the first n series in front.
LEMMA Onward ==
  ASSUME UNCHANGED <<mount, req>>, pc' = "series", at \in Nat, Len(series) \in Nat,
         at' = at + 1, at <= Len(series), kept' \in Nat, kept' <= at,
         series' \in Seq(Seq(Label)), Len(series') = Len(series), Len(series) = Len(req.series),
         \A i \in (at + 1)..Len(series) : series'[i] = req.series[i],
         Compacted(series', kept', at)
  PROVE  LoopInv'
<1>1. at' - 1 = at /\ kept' < at' /\ at' <= Len(series') + 1
  OBVIOUS
<1>2. Compacted(series, kept, at - 1)'
  BY <1>1, CompactedFrame
<1> QED
  BY <1>1, <1>2 DEF LoopInv, Before

LEMMA TransformStep ==
  ASSUME TypeInv, LoopInv, LabelInv, TransformSeries, pc' # "answered"
  PROVE  LoopInv' /\ LabelInv'
<1>1. pc = "series" /\ at <= Len(series)
  BY DEF TransformSeries
<1> DEFINE labels == req.series[at]
<1>2. /\ series[at] = labels /\ labels \in Seq(Label)
      /\ at \in 1..Len(series) /\ kept \in Nat /\ kept + 1 \in 1..at
      /\ series \in Seq(Seq(Label)) /\ Len(series) \in Nat /\ Len(series) = Len(req.series)
      /\ (\A i \in at..Len(series) : series[i] = req.series[i])
      /\ Compacted(series, kept, at - 1) /\ at - 1 \in Nat /\ (at - 1) + 1 = at
  BY <1>1, InLoop
<1>3. HasRequired(labels, mount.required) /\ UNCHANGED <<mount, req, series, kept>>
  BY <1>1, <1>2 DEF TransformSeries, Answer
<1>4. lbls = <<>> /\ look = 1 /\ fill = 0
  BY <1>1 DEF LabelInv
<1>5. CASE ~ IsWhitelisted(labels)
  <2>1. pc' = "series" /\ at' = at + 1 /\ UNCHANGED <<lbls, look, fill>>
    BY <1>1, <1>2, <1>3, <1>5 DEF TransformSeries, inner
  <2>2. Compacted(series, kept, (at - 1) + 1)
    BY <1>2, <1>3, <1>5, CompactedSkip
  <2>3. Compacted(series', kept', at)
    BY <1>2, <1>3, <2>2
  <2>4. \A i \in (at + 1)..Len(series) : series'[i] = req.series[i]
    BY <1>2, <1>3
  <2>5. kept' \in Nat /\ kept' <= at /\ at \in Nat /\ at <= Len(series)
    BY <1>2, <1>3
  <2>6. LoopInv'
    BY <1>2, <1>3, <2>1, <2>3, <2>4, <2>5, Onward
  <2> QED
    BY <1>4, <2>1, <2>6 DEF LabelInv
<1>6. CASE IsWhitelisted(labels)
  <2>1. pc' = "labels" /\ at' = at /\ lbls' = labels /\ UNCHANGED <<look, fill>>
    BY <1>1, <1>2, <1>3, <1>6 DEF TransformSeries, Proceed
  <2>2. LoopInv'
    <3>1. Compacted(series, kept, at - 1)'
      BY <1>2, <1>3, <2>1, CompactedFrame
    <3> QED
      BY <1>2, <1>3, <2>1, <3>1 DEF LoopInv, Before
  <2>3. Copied(labels, mount.elide, labels, 1, 0)
    <3>1. Firsts(labels, mount.elide, 1 - 1) = {}
      BY DEF Firsts, Full
    <3> HIDE DEF labels
    <3> QED
      BY <1>2, <3>1 DEF Copied
  <2>4. (HasRequired(req.series[at], mount.required) /\ IsWhitelisted(req.series[at]))'
    BY <1>3, <1>6, <2>1 DEF HasRequired, IsWhitelisted, Matches
  <2> QED
    BY <1>2, <1>3, <1>4, <2>1, <2>2, <2>3, <2>4 DEF LabelInv
<1> QED
  BY <1>5, <1>6

LEMMA KeepStep ==
  ASSUME TypeInv, LoopInv, LabelInv, KeepSeries PROVE LoopInv' /\ LabelInv'
<1>1. pc = "labels" /\ at <= Len(series)
  BY DEF KeepSeries, LabelInv
<1> DEFINE labels == req.series[at]
<1>2. /\ labels \in Seq(Label)
      /\ at \in 1..Len(series) /\ kept \in Nat /\ kept + 1 \in 1..at
      /\ series \in Seq(Seq(Label)) /\ Len(series) \in Nat /\ Len(series) = Len(req.series)
      /\ (\A i \in at..Len(series) : series[i] = req.series[i])
      /\ DOMAIN series = 1..Len(series)
      /\ Compacted(series, kept, at - 1) /\ at - 1 \in Nat /\ (at - 1) + 1 = at
  BY <1>1, InLoop
<1>3. /\ HasRequired(labels, mount.required) /\ IsWhitelisted(labels)
      /\ Copied(labels, mount.elide, lbls, look, fill) /\ look > Len(lbls)
  BY <1>1 DEF LabelInv, KeepSeries
<1>4. PICK new \in SortLabels(SubSeq(lbls, 1, fill)) : series' = [series EXCEPT ![kept + 1] = new]
  BY DEF KeepSeries
<1>5. /\ kept' = kept + 1 /\ at' = at + 1 /\ pc' = "series" /\ UNCHANGED <<mount, req>>
      /\ lbls' = <<>> /\ look' = 1 /\ fill' = 0
  BY DEF KeepSeries, Proceed
<1>6. new \in Seq(Label) /\ SanitizedRow(new, labels)
  BY <1>2, <1>3, <1>4, CopiedSound
<1>7. (\A j \in 1..kept : series'[j] = series[j]) /\ series'[kept + 1] = new
  BY <1>2, <1>4
<1>8. Compacted(series', kept + 1, (at - 1) + 1)
  BY <1>2, <1>3, <1>6, <1>7, CompactedStep, ZenonT(40)
<1>9. series' \in Seq(Seq(Label)) /\ Len(series') = Len(series)
  BY <1>2, <1>4, <1>6
<1>10. \A i \in (at + 1)..Len(series) : series'[i] = req.series[i]
  <2>1. ASSUME NEW i \in (at + 1)..Len(series) PROVE series'[i] = req.series[i]
    <3>1. i \in at..Len(series) /\ i \in 1..Len(series) /\ i # kept + 1
      BY <1>2
    <3> QED
      BY <1>2, <1>4, <3>1
  <2> QED
    BY <2>1
<1>11. kept' \in Nat /\ kept' <= at /\ at \in Nat /\ at <= Len(series)
  BY <1>2, <1>5
<1>12. Compacted(series', kept', at)
  BY <1>2, <1>5, <1>8
<1>13. LoopInv'
  BY <1>2, <1>5, <1>9, <1>10, <1>11, <1>12, Onward
<1> QED
  BY <1>5, <1>13 DEF LabelInv

LEMMA ValidateStep ==
  ASSUME TypeInv, LoopInv, ValidateValues, pc' = "forward" PROVE LoopInv'
<1> DEFINE rest == SubSeq(series, 1, kept)
<1>1. req.series \in Seq(Seq(Label)) /\ Len(req.series) \in Nat
  BY RequestSeries DEF ValidateValues
<1>2. pc = "series" /\ at - 1 = Len(req.series) /\ kept \in 0..Len(series)
      /\ series \in Seq(Seq(Label)) /\ Compacted(series, kept, at - 1)
  <2>1. pc = "series" /\ at > Len(series) /\ at \in Nat /\ kept \in Nat
    BY DEF ValidateValues, TypeInv
  <2>2. series \in Seq(Seq(Label)) /\ Len(series) = Len(req.series) /\ kept < at
        /\ at <= Len(series) + 1 /\ Compacted(series, kept, at - 1)
    BY <2>1 DEF LoopInv
  <2> QED
    BY <1>1, <2>1, <2>2
<1>3. series' = rest /\ UNCHANGED <<mount, req, subject, kept>>
      /\ rest # <<>> /\ \A i \in DOMAIN rest : ~ SubjectMismatch(rest[i])
  BY DEF ValidateValues, Answer
<1>4. rest \in Seq(Seq(Label)) /\ Len(rest) = kept /\ \A i \in 1..kept : rest[i] = series[i]
  <2>1. /\ rest \in Seq(Seq(Label))
        /\ Len(rest) = IF 1 <= kept THEN kept - 1 + 1 ELSE 0
        /\ \A i \in 1..(kept - 1 + 1) : rest[i] = series[1 + i - 1]
    <3>1. 1 \in Int /\ kept \in Int /\ \A i \in 1..kept : series[i] \in Seq(Label)
      BY <1>2
    <3> QED
      BY <1>2, <3>1, SubSeqProperties
  <2> QED
    BY <1>2, <2>1
<1> HIDE DEF rest
<1>6. Compacted(rest, kept, Len(req.series))
  <2>1. Compacted(series, kept, Len(req.series))
    BY <1>2
  <2> QED
    <3>1. kept \in Nat
      BY <1>2
    <3>2. \A j \in 1..kept : rest[j] = series[j]
      BY <1>4
    <3> QED
      BY <1>1, <2>1, <3>1, <3>2, CompactedPrefix
<1>7. Compacted(series, kept, Len(req.series))'
  BY <1>3, <1>6, CompactedFrame
<1>8. \A i \in DOMAIN series' : ~ SubjectMismatch(series[i])'
  BY <1>3 DEF SubjectMismatch
<1> QED
  BY <1>3, <1>4, <1>7, <1>8 DEF LoopInv, Before

\* What the upstream may have of a request that was forwarded.
LEMMA ReceiveStep == ASSUME TypeInv, LoopInv, OutInv, Receive PROVE OutInv'
<1>1. pc = "forward" /\ delivered = <<>> /\ pc' = "answered"
      /\ UNCHANGED <<mount, req, subject>>
  BY DEF Receive, Answer, OutInv
<1>2. CASE delivered' = <<>> /\ status' \in {"405", "502", "upstream"}
  BY <1>1, <1>2 DEF OutInv, DeliveredInOrder, AnswerTrue
<1>3. CASE delivered' = series /\ status' \in {"2xx", "502", "upstream"}
  <2>1. series \in Seq(Seq(Label)) /\ series # <<>> /\ Len(series) = kept
        /\ Compacted(series, kept, Len(req.series))
        /\ \A i \in DOMAIN series : ~ SubjectMismatch(series[i])
    BY <1>1 DEF LoopInv
  <2>2. Compacted(delivered, Len(delivered), Len(req.series))'
    BY <1>1, <1>3, <2>1, CompactedFrame
  <2>3. \A i \in DOMAIN delivered' : ~ SubjectMismatch(delivered[i])'
    BY <1>1, <1>3, <2>1 DEF SubjectMismatch
  <2>4. (Len(delivered) = Cardinality(Listed(Len(req.series))))'
    BY <1>1, <1>3, <2>1 DEF Compacted, Listed, IsWhitelisted, Matches
  <2>5. AnswerTrue'
    BY <1>3, <2>1, <2>4 DEF AnswerTrue
  <2> QED
    BY <1>1, <2>2, <2>3, <2>5 DEF OutInv, DeliveredInOrder
<1> QED
  BY <1>1, <1>2, <1>3 DEF Receive, Answer

\* No label is looked at before and after the loop.
LEMMA NoLabels ==
  ASSUME LabelInv, pc # "labels", pc' # "labels", UNCHANGED inner PROVE LabelInv'
BY DEF LabelInv, inner

LEMMA Induction == IInv /\ [Next]_vars => IInv'
<1> SUFFICES ASSUME IInv, [Next]_vars PROVE IInv'
  OBVIOUS
<1> USE DEF IInv
<1>1. ASSUME NEW r \in Requests, Arrive(r) PROVE IInv'
  <2>1. OutInv' /\ LabelInv'
    BY <1>1, NothingOut, NoLabels DEF Arrive, Proceed, OutInv
  <2> QED
    BY <1>1, <2>1 DEF Arrive, Proceed, outer, TypeInv, SubjectInv, LoopInv, Before
<1>2. CASE Authorize \/ VerifiedByTLS \/ ClientCertInfoAsHeaders \/ LimitBodySize
  <2>1. OutInv' /\ LabelInv'
    BY <1>2, NothingOut, NoLabels DEF Authorize, VerifiedByTLS, ClientCertInfoAsHeaders,
       LimitBodySize, Answer, Proceed, OutInv
  <2>2. TypeInv' /\ LoopInv'
    BY <1>2 DEF Authorize, VerifiedByTLS, ClientCertInfoAsHeaders, LimitBodySize,
       Answer, Proceed, outer, TypeInv, LoopInv, Before
  <2>3. SubjectInv'
    BY <1>2 DEF Authorize, VerifiedByTLS, ClientCertInfoAsHeaders, LimitBodySize,
       Answer, Proceed, SubjectInv
  <2> QED
    BY <2>1, <2>2, <2>3
<1>3. CASE Decode
  <2>1. OutInv' /\ LabelInv'
    BY <1>3, NothingOut, NoLabels DEF Decode, Answer, Proceed, OutInv
  <2>2. TypeInv' /\ SubjectInv'
    BY <1>3 DEF Decode, Answer, Proceed, TypeInv, SubjectInv, Before
  <2>3. LoopInv'
    <3>1. CASE pc' = "answered"
      BY <3>1 DEF LoopInv, Before
    <3>2. CASE pc' = "series"
      <4>1. series' = req.series /\ UNCHANGED <<mount, req, at, kept>> /\ at = 1 /\ kept = 0
        BY <1>3, <3>2 DEF Decode, Answer, Proceed, LoopInv, Before
      <4>2. req.series \in Seq(Seq(Label)) /\ Len(req.series) \in Nat
        BY <1>3, RequestSeries DEF Decode
      <4>3. series' \in Seq(Seq(Label)) /\ Len(series') = Len(req'.series)
        BY <4>1, <4>2
      <4>4. Compacted(series', 0, 0)
        BY CompactedNone
      <4>5. Compacted(series, kept, at - 1)'
        BY <4>1, <4>4, CompactedFrame
      <4> QED
        BY <3>2, <4>1, <4>2, <4>3, <4>5 DEF LoopInv, Before
    <3> QED
      BY <1>3, <3>1, <3>2 DEF Decode, Answer, Proceed
  <2> QED
    BY <2>1, <2>2, <2>3
<1>4. CASE TransformSeries
  <2>1. OutInv'
    BY <1>4, NothingOut DEF TransformSeries, Answer, Proceed, OutInv
  <2>2. TypeInv' /\ SubjectInv'
    BY <1>4 DEF TransformSeries, Answer, Proceed, TypeInv, SubjectInv, Before
  <2>3. LoopInv' /\ LabelInv'
    <3>1. CASE pc' = "answered"
      <4>1. LabelInv'
        BY <1>4, <3>1, NoLabels DEF TransformSeries, Answer, Proceed
      <4> QED
        BY <3>1, <4>1 DEF LoopInv, Before
    <3> QED
      BY <1>4, <3>1, TransformStep
  <2> QED
    BY <2>1, <2>2, <2>3
<1>5. CASE CopyLabel
  <2>1. OutInv'
    BY <1>5, NothingOut DEF CopyLabel, OutInv
  <2>2. TypeInv' /\ SubjectInv'
    BY <1>5 DEF CopyLabel, outer, TypeInv, SubjectInv, Before
  <2>3. LoopInv'
    BY <1>5, CompactedFrame DEF CopyLabel, outer, LoopInv, Before
  <2>4. LabelInv'
    <3> DEFINE labels == req.series[at]
    <3>1. /\ pc = "labels" /\ pc' = "labels" /\ at <= Len(series)
          /\ UNCHANGED <<mount, req, series, at>>
          /\ HasRequired(labels, mount.required) /\ IsWhitelisted(labels)
          /\ Copied(labels, mount.elide, lbls, look, fill)
      BY <1>5 DEF CopyLabel, outer, LabelInv
    <3>2. labels \in Seq(Label)
      BY <3>1, InLoop
    <3> DEFINE skipped == Skipped(lbls[look])
    <3>3. /\ look <= Len(lbls) /\ look' = look + 1
          /\ lbls' = IF skipped THEN lbls ELSE [lbls EXCEPT ![fill + 1] = lbls[look]]
          /\ fill' = IF skipped THEN fill ELSE fill + 1
      BY <1>5 DEF CopyLabel
    <3>4. /\ skipped \in BOOLEAN
          /\ skipped <=> \/ lbls[look].name = NoName \/ lbls[look].value = NoValue
                         \/ \E i \in 1..fill : lbls[i].name = lbls[look].name
                         \/ lbls[look].name \in mount.elide
      BY DEF Skipped
    <3> HIDE DEF skipped, labels
    <3>5. Copied(labels, mount.elide, lbls', look', fill')
      BY <3>1, <3>2, <3>3, <3>4, CopyStep
    <3> QED
      BY <3>1, <3>5 DEF labels, LabelInv, HasRequired, IsWhitelisted, Matches
  <2> QED
    BY <2>1, <2>2, <2>3, <2>4
<1>6. CASE KeepSeries
  <2>1. OutInv'
    BY <1>6, NothingOut DEF KeepSeries, Proceed, OutInv
  <2>2. TypeInv' /\ SubjectInv'
    BY <1>6 DEF KeepSeries, Proceed, TypeInv, SubjectInv, Before
  <2> QED
    BY <1>6, <2>1, <2>2, KeepStep
<1>7. CASE ValidateValues
  <2>1. OutInv' /\ LabelInv'
    BY <1>7, NothingOut, NoLabels DEF ValidateValues, Answer, Proceed, OutInv
  <2>2. TypeInv' /\ SubjectInv'
    BY <1>7 DEF ValidateValues, Answer, Proceed, TypeInv, SubjectInv, Before
  <2>3. LoopInv'
    <3>1. CASE pc' = "answered"
      BY <3>1 DEF LoopInv, Before
    <3> QED
      BY <1>7, <3>1, ValidateStep DEF ValidateValues, Answer, Proceed
  <2> QED
    BY <2>1, <2>2, <2>3
<1>8. CASE Receive
  <2>1. TypeInv' /\ SubjectInv' /\ LoopInv'
    BY <1>8 DEF Receive, Answer, outer, TypeInv, SubjectInv, LoopInv, Before
  <2>2. LabelInv'
    BY <1>8, NoLabels DEF Receive, Answer
  <2> QED
    BY <1>8, <2>1, <2>2, ReceiveStep
<1>9. CASE Finish
  <2>1. OutInv' /\ LabelInv'
    BY <1>9, NothingOut, NoLabels DEF Finish
  <2> QED
    BY <1>9, <2>1 DEF Finish, TypeInv, SubjectInv, LoopInv, Before
<1>10. CASE UNCHANGED vars
  <2>1. TypeInv' /\ SubjectInv'
    BY <1>10 DEF vars, TypeInv, SubjectInv
  <2>2. LoopInv'
    BY <1>10, CompactedFrame DEF vars, LoopInv, SubjectMismatch
  <2>3. LabelInv'
    BY <1>10 DEF vars, LabelInv, HasRequired, IsWhitelisted, Matches
  <2>4. OutInv'
    <3>1. AnswerTrue'
      BY <1>10 DEF vars, OutInv, AnswerTrue, Listed, IsWhitelisted, Matches
    <3>2. DeliveredInOrder'
      BY <1>10, CompactedFrame DEF vars, OutInv, DeliveredInOrder
    <3> QED
      BY <1>10, <3>1, <3>2 DEF vars, OutInv, SubjectMismatch
  <2> QED
    BY <2>1, <2>2, <2>3, <2>4
<1> QED
  BY <1>1, <1>2, <1>3, <1>4, <1>5, <1>6, <1>7, <1>8, <1>9, <1>10 DEF Next

LEMMA Initial == Init => IInv
BY DEF Init, IInv, TypeInv, SubjectInv, LoopInv, LabelInv, OutInv, DeliveredInOrder, AnswerTrue, Before

\* The inductive invariant holds in every reachable state.
THEOREM Invariance == Spec => []IInv
BY Initial, Induction, PTL DEF Spec

\* A series with the subject label reaches the upstream only under the common
\* name that came with the right secret.
THEOREM SubjectsBound == Spec => []SubjectBound
<1>1. IInv => SubjectBound
  BY DEF IInv, OutInv, SubjectInv, SubjectMismatch, SubjectBound
<1> QED
  BY <1>1, Invariance, PTL

\* 2xx says that the upstream has taken all that the whitelist admits, and the
\* refusals of this server that it was sent nothing.
THEOREM AnswersTrue == Spec => []AnswerTrue
<1>1. IInv => AnswerTrue
  BY DEF IInv, OutInv
<1> QED
  BY <1>1, Invariance, PTL

\* Whatever is delivered are the series the whitelist admits, each once and in
\* the order of the request, although the loop writes them over the array it
\* reads, with the first value that is not empty of each label that is not
\* elided; and all series of the request had the required label once.
THEOREM SeriesSanitized == Spec => []DeliveredSanitized
<1>1. ASSUME IInv PROVE DeliveredSanitized
  <2> SUFFICES ASSUME delivered # <<>> PROVE DeliveredSanitized
    BY DEF DeliveredSanitized
  <2>1. pc = "answered" /\ Compacted(delivered, Len(delivered), Len(req.series))
    BY <1>1 DEF IInv, OutInv, DeliveredInOrder
  <2>2. req.series \in Seq(Seq(Label)) /\ Len(req.series) \in Nat
        /\ DOMAIN req.series = 1..Len(req.series)
    BY <1>1, <2>1, RequestSeries DEF IInv
  <2>3. ASSUME NEW i \in Listed(Len(req.series))
        PROVE  LET row == delivered[Cardinality(Listed(i))] IN
                 /\ Range(row) = Wanted(req.series[i])
                 /\ \A j, k \in DOMAIN row : j < k => row[j].name < row[k].name
    BY <2>1, <2>3 DEF Compacted, SanitizedRow
  <2>4. ASSUME Len(mount.required) = 1, NEW i \in DOMAIN req.series
        PROVE  Cardinality({j \in DOMAIN req.series[i] :
                              req.series[i][j].name = mount.required[1]}) = 1
    <3>1. HasRequired(req.series[i], mount.required)
      BY <2>1, <2>2, <2>4 DEF Compacted
    <3>2. Range(mount.required) = {mount.required[1]}
      <4>1. mount.required \in Seq(Nat)
        BY <1>1, ReceiveAssumption DEF IInv, TypeInv
      <4>2. DOMAIN mount.required = {1}
        BY <2>4, <4>1
      <4> QED
        BY <4>2 DEF Range
    <3> QED
      BY <2>4, <3>1, <3>2 DEF HasRequired
  <2>5. Len(delivered) = Cardinality(Listed(Len(req.series)))
    BY <2>1 DEF Compacted
  <2> QED
    BY <2>3, <2>4, <2>5 DEF DeliveredSanitized
<1> QED
  BY <1>1, Invariance, PTL
=============================================================================
