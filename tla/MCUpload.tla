------------------------------ MODULE MCUpload ------------------------------
(***************************************************************************)
(* TLC instance of Upload.  Bodies of one family hold up to two metrics    *)
(* with one or two labels each, in all combinations of own, foreign, empty *)
(* and overlong values; bodies of two families pair a few typical ones.    *)
(***************************************************************************)
EXTENDS Upload

Metric(ls, ts, set) == [labels |-> ls, ts |-> ts, set |-> set]
Family(name, type, ms) == [name |-> name, type |-> type, metrics |-> ms]

Mine  == Pair("id", Value("mine"))
Other == Pair("id", Value("other"))
A     == Pair("a", Value("x"))
B     == Pair("a", Value("y"))
None  == Pair("a", EmptyValue)
Node  == Pair("node", Value("x"))
Long  == Pair("a", Value("long"))

LabelSeqs == {<<p>> : p \in {Mine, Other, A}}
               \cup {<<p, q>> : p \in {Mine, Other, A, None}, q \in {Mine, Other, A, B, None, Long, Node}}

OneMetric ==
  {<<Family(n, t, <<Metric(ls, ts, s)>>)>> :
     n \in {"down", ""}, t \in {"GAUGE", "HISTOGRAM", NoType}, ls \in LabelSeqs,
     ts \in {NoTime, 2, 9}, s \in {"GAUGE", "HISTOGRAM"}}

TwoMetrics ==
  {<<Family("up", "GAUGE", <<Metric(<<Mine, p>>, t, "GAUGE"), Metric(<<Mine, q>>, u, "GAUGE")>>)>> :
     p \in {A, B, None, Other}, q \in {A, B, Long}, t \in {8, 9}, u \in {NoTime, 8, 9}}

TwoFamilies ==
  {<<f, g>> : f, g \in
    {Family(n, t, <<Metric(<<Mine, p>>, ts, t)>>) :
       n \in {"up", "down"}, t \in {"GAUGE", "HISTOGRAM"}, p \in {A, B}, ts \in {2, 9}}
    \cup {Family("up", "GAUGE", <<>>), Family("", "GAUGE", <<Metric(<<Mine>>, 9, "GAUGE")>>),
          Family("up", "GAUGE", <<Metric(<<Mine, B>>, 9, "GAUGE"), Metric(<<Mine, A>>, 9, "GAUGE")>>)}}

MCBodies == {<<>>} \cup OneMetric \cup TwoMetrics \cup TwoFamilies

MCTokenLabels ==
  {[n \in {"id"} |-> Value("mine")], [n \in {"id"} |-> EmptyValue],
   [n \in {"id", "a"} |-> Value(IF n = "id" THEN "mine" ELSE "x")]}

\* {__name__="up",a="x"} and {__name__="down"}.
MCRules ==
  {{[name |-> "__name__", texts |-> {"up"}], [name |-> "a", texts |-> {"x"}]},
   {[name |-> "__name__", texts |-> {"down"}]}}

\* A server without --label and --elide-label, and one with both, whose
\* --label region= sets a label to nothing.
MCFlags ==
  {[labels |-> NoLabels, elide |-> {}],
   [labels |-> [n \in {"region", "a"} |-> Value(IF n = "a" THEN "eu" ELSE "")],
    elide |-> {"node"}]}
=============================================================================
