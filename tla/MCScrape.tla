------------------------------ MODULE MCScrape ------------------------------
(***************************************************************************)
(* TLC instance of Scrape: families of up to two metrics, among them ones  *)
(* that are too old, have no timestamp, the wrong kind of value, an        *)
(* overlong or empty label or a label the server will override.            *)
(***************************************************************************)
EXTENDS Scrape

Sample(ls, ts, set) == [labels |-> ls, ts |-> ts, set |-> set]
Scraped(name, type, ms) == [name |-> name, type |-> type, metrics |-> ms]

Ip(text) == Pair("ip", Value(text))
Id(text) == Pair("id", Value(text))

Metrics ==
  {Sample(<<Ip(x)>>, ts, "GAUGE") : x \in {"x", "", "long"}, ts \in {NoTime, 2, 8}}
    \cup {Sample(<<Id("theirs"), Ip("y")>>, ts, s) : ts \in {7, 9}, s \in {"GAUGE", "COUNTER"}}

OneScraped ==
  {<<Scraped(n, t, ms)>> : n \in {"ALERTS", ""}, t \in {"GAUGE", NoType},
     ms \in {<<>>} \cup {<<m>> : m \in Metrics} \cup {<<m, k>> : m, k \in Metrics}}

FamilyPairs ==
  {<<f, g>> : f, g \in
    {Scraped(n, "GAUGE", ms) : n \in {"ALERTS", "up"},
       ms \in {<<Sample(<<Ip("x")>>, 8, "GAUGE")>>, <<Sample(<<Ip("x")>>, 2, "GAUGE")>>,
               <<Sample(<<Ip("y")>>, 9, "GAUGE"), Sample(<<Ip("x")>>, 7, "GAUGE")>>}}}

MCScrapes == {<<>>} \cup OneScraped \cup FamilyPairs

MCRenames == [n \in {"ALERTS"} |-> "alerts"]

MCToken  == {[n \in {"id"} |-> Value("mine")]}
MCTokens == MCToken \cup {[n \in {"id", "env"} |-> Value(IF n = "id" THEN "mine" ELSE "prod")]}

MCRegion == [n \in {"region"} |-> Value("eu")]
=============================================================================
