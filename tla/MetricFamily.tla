---------------------------- MODULE MetricFamily ----------------------------
(***************************************************************************)
(* The transformers of pkg/metricfamily: operators from a family to a      *)
(* family and a verdict.  They are shared by the pipeline of the client    *)
(* (Scrape.tla) and that of the server (Upload.tla).                       *)
(*                                                                         *)
(* A family has a name, a type and a sequence of metrics; transformers     *)
(* remove a metric by putting Nil in its place.  A metric has a sequence   *)
(* of label pairs, a timestamp or NoTime, and the kind of value that is    *)
(* set in it; the value itself is left out.                                *)
(*                                                                         *)
(* A label pair is a pointer in the code, and the label transformer puts   *)
(* one and the same pair into every metric.  "shared" marks such a pair:   *)
(* all shared pairs of one name in one family are the same object.  The    *)
(* text of a label value says how often it has been hashed.                *)
(***************************************************************************)
EXTENDS Integers, FiniteSets, Sequences, SequencesExt

CONSTANTS
  Nil,        \* a nil metric
  BadNames,   \* names of labels and families that are empty or too long
  LongTexts   \* label values of more than 255 characters

NoTime == -1                 \* TimestampMs is nil
NoType == "none"             \* Type is nil

Types == {"COUNTER", "GAUGE", "HISTOGRAM", "SUMMARY", "UNTYPED"}

Values        == [text : STRING, hashed : Nat]
LabelPairs    == [name : STRING, value : Values, shared : BOOLEAN]
MetricRecords == [labels : Seq(LabelPairs), ts : Int, set : STRING]
FamilyRecords == [name : STRING, type : STRING, metrics : Seq(MetricRecords \cup {Nil})]

\* A nil pointer is neither a metric nor a family.
ASSUME NilAssumption == Nil \notin MetricRecords \cup FamilyRecords

\* An empty name is refused by every check of names.
ASSUME NameAssumption == "" \in BadNames

Value(text)   == [text |-> text, hashed |-> 0]
EmptyValue    == Value("")
Pair(name, v) == [name |-> name, value |-> v, shared |-> FALSE]

\* Label names with their values.
LabelMap(l) == IsFiniteSet(DOMAIN l) /\ DOMAIN l \subseteq STRING /\ l \in [DOMAIN l -> Values]
NoLabels    == [n \in {} |-> EmptyValue]

\* What a transformer returns: ok, not ok, one of the errors Validate answers
\* with 400, another error, or not at all.
Verdicts == {"ok", "drop", "400", "500", "panic"}

Result(verdict, f) == [verdict |-> verdict, family |-> f]
Keep(f)            == Result("ok", f)

\* MultiTransformer: the next transformer sees the family only if the previous
\* ones let it pass.
Then(r, T(_)) == IF r.verdict = "ok" THEN T(r.family) ELSE r

-----------------------------------------------------------------------------
(* Helpers. *)

\* The elements of s at the positions in I, in their order.
Squeeze(s, I) == FlattenSeq([i \in DOMAIN s |-> IF i \in I THEN <<s[i]>> ELSE <<>>])

Dense(metrics) == Squeeze(metrics, {i \in DOMAIN metrics : metrics[i] # Nil})
HasNil(f)      == \E i \in DOMAIN f.metrics : f.metrics[i] = Nil

\* The family with every metric that is not Nil replaced.
MapMetrics(f, Op(_)) ==
  [f EXCEPT !.metrics = [i \in DOMAIN @ |-> IF @[i] = Nil THEN Nil ELSE Op(@[i])]]

NamesOf(labels)     == {labels[i].name : i \in DOMAIN labels}
FirstOf(labels, n)  == labels[SelectInSeq(labels, LAMBDA p : p.name = n)]

WellFormed(p) == p.name \notin BadNames /\ ~(p.value.hashed = 0 /\ p.value.text \in LongTexts)

-----------------------------------------------------------------------------
(* Checks. *)

\* errorOnUnsorted(true): timestamps are there and do not decrease from 0.
ErrorOnUnsorted(f) ==
  LET ms == Dense(f.metrics)
      ordered == \A i \in DOMAIN ms :
                   /\ ms[i].ts # NoTime
                   /\ ms[i].ts >= IF i = 1 THEN 0 ELSE ms[i - 1].ts
  IN  Result(IF ordered THEN "ok" ELSE "400", f)

\* requireLabel, for one required label: the first metric that has not got it,
\* or whose first label of that name has another value, decides.
RequireLabel(f, n, v) ==
  LET ms  == Dense(f.metrics)
      bad == SelectInSeq(ms, LAMBDA m : n \notin NamesOf(m.labels) \/ FirstOf(m.labels, n).value # v)
  IN  IF bad = 0 THEN Keep(f)
      ELSE Result(IF n \in NamesOf(ms[bad].labels) THEN "500" ELSE "400", f)

\* requireLabel, for all of them, in the order in which the map is iterated.
RequiredLabels(f, required, order) ==
  LET verdict(n) == RequireLabel(f, n, required[n])
      bad == SelectInSeq(order, LAMBDA n : verdict(n).verdict # "ok")
  IN  IF bad = 0 THEN Keep(f) ELSE verdict(order[bad])

DropEmptyFamilies(f) == Result(IF Dense(f.metrics) = <<>> THEN "drop" ELSE "ok", f)

OutOfDate(m, min) == m.ts = NoTime \/ m.ts < min

\* errorInvalidFederateSamples: what is wrong with the first bad metric decides
\* which error it is, and its labels are looked at before its timestamp.
ErrorInvalidFederateSamples(f, min) ==
  LET ms         == Dense(f.metrics)
      badPair(m) == \E i \in DOMAIN m.labels : ~ WellFormed(m.labels[i])
      bad == SelectInSeq(ms, LAMBDA m : badPair(m) \/ OutOfDate(m, min) \/ m.set # f.type)
      metricVerdict ==
        IF bad = 0 THEN "ok"
        ELSE IF ~ badPair(ms[bad]) /\ OutOfDate(ms[bad], min) THEN "400" ELSE "500"
      familyVerdict ==
        IF f.name = "" THEN "drop"
        ELSE IF f.name \in BadNames THEN "500"
        ELSE IF f.type = NoType THEN "drop"
        ELSE IF f.type \notin Types THEN "500"
        ELSE metricVerdict
  IN  Result(familyVerdict, f)

\* dropInvalidFederateSamples: bad labels and bad metrics are removed instead.
DropInvalidFederateSamples(f, min) ==
  IF f.name \in BadNames \/ f.type \notin Types
    THEN Result("drop", f)
    ELSE Keep(MapMetrics(f, LAMBDA m :
           IF OutOfDate(m, min) \/ m.set # f.type
             THEN Nil
             ELSE [m EXCEPT !.labels = Squeeze(@, {i \in DOMAIN @ : WellFormed(@[i])})]))

-----------------------------------------------------------------------------
(* Changes. *)

\* OverwriteTimestamps: the time is cut down to a whole second, a second being
\* that many units of time.  The metrics are not checked for nil.
OverwriteTimestamps(f, now, second) ==
  IF HasNil(f)
    THEN Result("panic", f)
    ELSE Keep(MapMetrics(f, LAMBDA m : [m EXCEPT !.ts = (now \div second) * second]))

\* match: a matcher is a label name and the set of texts it matches.
Match(name, m, matchset) ==
  \A q \in matchset :
    \/ q.name = "__name__" /\ name \in q.texts
    \/ \E i \in DOMAIN m.labels :
         m.labels[i].name = q.name /\ m.labels[i].value.text \in q.texts

\* whitelist: a metric stays if some rule matches it, the family if some metric.
Whitelist(f, rules) ==
  LET g == MapMetrics(f, LAMBDA m : IF \E r \in rules : Match(f.name, m, r) THEN m ELSE Nil)
  IN  Result(IF Dense(g.metrics) = <<>> THEN "drop" ELSE "ok", g)

\* appendLabels: every pair of a name to be overridden is replaced, missing
\* names are appended.
AppendLabels(existing, overrides, order) ==
  LET pair(n) == [name |-> n, value |-> overrides[n], shared |-> TRUE]
      missing == Squeeze(order, {i \in DOMAIN order : order[i] \notin NamesOf(existing)})
  IN  [i \in DOMAIN existing |->
         IF existing[i].name \in DOMAIN overrides THEN pair(existing[i].name) ELSE existing[i]]
      \o [i \in DOMAIN missing |-> pair(missing[i])]

\* label: the metrics are not checked for nil.
Label(f, overrides, order) ==
  IF HasNil(f)
    THEN Result("panic", f)
    ELSE Keep(MapMetrics(f, LAMBDA m : [m EXCEPT !.labels = AppendLabels(@, overrides, order)]))

\* elide: labels of the given names are removed, and nil metrics with them.
Elide(f, names) ==
  LET g == MapMetrics(f, LAMBDA m :
             [m EXCEPT !.labels = Squeeze(@, {i \in DOMAIN @ : @[i].name \notin names})])
  IN  Keep([g EXCEPT !.metrics = Dense(@)])

\* RenameMetrics
Rename(f, renames) ==
  Keep(IF f.name \in DOMAIN renames THEN [f EXCEPT !.name = renames[@]] ELSE f)

\* Mutant of PackMetrics: the first hole ends the family.
PackMetricsTruncates(f) ==
  LET hole == SelectInSeq(f.metrics, LAMBDA m : m = Nil)
      ms   == IF hole = 0 THEN f.metrics ELSE SubSeq(f.metrics, 1, hole - 1)
  IN  Result(IF ms = <<>> THEN "drop" ELSE "ok", [f EXCEPT !.metrics = ms])

\* PackMetrics: nil metrics are squeezed out.
PackMetrics(f) ==
  LET ms == Dense(f.metrics)
  IN  Result(IF ms = <<>> THEN "drop" ELSE "ok", [f EXCEPT !.metrics = ms])

\* The orders sort.Sort may leave metrics without nils in: any that do not
\* decrease, a metric without a timestamp counting as the least.
SortedOrders(metrics) ==
  {s \in {[i \in DOMAIN metrics |-> metrics[p[i]]] : p \in Bijection(DOMAIN metrics, DOMAIN metrics)} :
     \A i \in 1..(Len(s) - 1) : s[i].ts <= s[i + 1].ts}

\* In how many places of the metrics the shared pair of a name occurs.
Occurrences(n, metrics) ==
  Cardinality(UNION {{i} \X {j \in DOMAIN metrics[i].labels :
                               metrics[i].labels[j].name = n /\ metrics[i].labels[j].shared}
                       : i \in {k \in DOMAIN metrics : metrics[k] # Nil}})

\* transformMetricLabelValues: hashes every value that is not empty of the
\* given labels.  A shared pair is hashed anew wherever it occurs.
Anonymize(f, names) ==
  LET hash(p) ==
        IF p.name \notin names \/ p.value.text = "" THEN p
        ELSE [p EXCEPT !.value.hashed = @ + IF p.shared THEN Occurrences(p.name, f.metrics) ELSE 1]
  IN  Keep(MapMetrics(f, LAMBDA m :
             [m EXCEPT !.labels = [i \in DOMAIN @ |-> hash(@[i])]]))

\* Pack: families that are left and have metrics.
Pack(families) ==
  Squeeze(families, {i \in DOMAIN families : families[i] # Nil /\ families[i].metrics # <<>>})
=============================================================================
