------------------------------- MODULE Upload -------------------------------
(***************************************************************************)
(* An upload request on its way through telemeter-server: the chain of     *)
(* handlers around /upload (cmd/telemeter-server/main.go), which are       *)
(* NewAuthorizeClientHandler, ClusterID, Ratelimit, Snappy, Validate and   *)
(* ForwardHandler (pkg/server).                                            *)
(*                                                                         *)
(* Requests share nothing but the rate limiter, which is a module of its   *)
(* own (RateLimiter.tla) and refuses here at will, so one request at a     *)
(* time is enough.  The wall clock is read at several points of a request  *)
(* and may be set in between, forwards or backwards.                       *)
(*                                                                         *)
(* Compression, encoding and decoding change no family.  Bodies are what   *)
(* the decoder yields; label pairs named __name__ are not among them.      *)
(***************************************************************************)
EXTENDS MetricFamily

CONSTANTS
  Key,           \* --partition-label
  TokenLabels,   \* the label maps a token may assert
  Bodies,        \* the families a request may contain
  Rules,         \* --whitelist
  Flags,         \* how the server may be started: its --label and --elide-label
  Times,         \* what the clock may show
  Second,        \* units of time per second
  MaxAge         \* the oldest samples accepted

ASSUME UploadAssumption ==
  /\ Times \subseteq Nat
  /\ Second \in Nat \ {0}
  /\ MaxAge \in Nat \ {0}
  /\ Bodies \subseteq Seq(FamilyRecords)
  /\ \A l \in TokenLabels : IsFiniteSet(DOMAIN l)
  /\ \A g \in Flags :
       /\ IsFiniteSet(DOMAIN g.labels)
       /\ DOMAIN g.labels \subseteq STRING
       /\ g.labels \in [DOMAIN g.labels -> Values]
       /\ Key \notin DOMAIN g.labels \cup g.elide

VARIABLES
  flags,      \* how the server was started
  clock,      \* the wall clock
  pc,         \* where the request is
  client,     \* the labels asserted by its token
  body,       \* the families it carries
  families,   \* what is left of them
  next,       \* the family Filter is at
  min,        \* the oldest timestamp accepted
  series,     \* the time series made of the families
  stamp,      \* the time at which they were made
  read,       \* history: the times at which timestamps were overwritten
  delivered,  \* what the upstream has stored of this request
  status      \* the answer

vars == <<flags, clock, pc, client, body, families, next, min, series, stamp, read,
          delivered, status>>

request == <<flags, client, body, families, next, min, series, stamp, read>>

NoTimeYet  == 0
Statuses   == {"none", "200", "400", "401", "413", "429", "500", "502", "upstream"}

\* Type correctness.
TypeOK ==
  /\ flags \in Flags
  /\ clock \in Times
  /\ pc \in {"idle", "authorize", "cluster", "limit", "read", "filter", "convert",
             "send", "answered", "aborted"}
  /\ client \in TokenLabels \cup {NoLabels}
  /\ next \in 1..(Len(families) + 1)
  /\ Len(families) <= Len(body)
  /\ stamp \in Times \cup {NoTimeYet}
  /\ read \subseteq Times
  /\ delivered \in {<<>>, series}
  /\ status \in Statuses

Init ==
  /\ flags \in Flags
  /\ clock \in Times
  /\ pc = "idle"
  /\ client = NoLabels
  /\ body = <<>> /\ families = <<>> /\ series = <<>> /\ delivered = <<>>
  /\ next = 1 /\ min = 0 /\ stamp = NoTimeYet
  /\ read = {}
  /\ status = "none"

-----------------------------------------------------------------------------
(* Transformers and conversion. *)

\* The transformers Validate applies to each family, in their order: its own,
\* then those configured in main.go.
ValidateFamily(f, now, required) ==
  LET checked ==
        Then(Then(Then(ErrorOnUnsorted(f),
          LAMBDA g : RequiredLabels(g, client, required)),
          DropEmptyFamilies),
          LAMBDA g : IF MaxAge > 0 THEN ErrorInvalidFederateSamples(g, min) ELSE Keep(g))
      listed ==
        Then(Then(checked, LAMBDA g : OverwriteTimestamps(g, now, Second)),
          LAMBDA g : Whitelist(g, Rules))
      labelled ==
        Then(listed, LAMBDA g :
          IF DOMAIN flags.labels = {} THEN Keep(g)
          ELSE Label(g, flags.labels, SetToSeq(DOMAIN flags.labels)))
  IN  Then(labelled, LAMBDA g : Elide(g, flags.elide))

\* Mutant of LabelsOf: the last label of a name wins.
LabelsOfLast(m) ==
  LET full == Squeeze(m.labels, {i \in DOMAIN m.labels : m.labels[i].value # EmptyValue})
  IN  [n \in NamesOf(full) |-> full[SelectLastInSeq(full, LAMBDA p : p.name = n)].value]

\* The labels of a time series: empty ones are skipped, and of several labels
\* of one name the first is taken.
LabelsOf(m) ==
  LET full == Squeeze(m.labels, {i \in DOMAIN m.labels : m.labels[i].value # EmptyValue})
  IN  [n \in NamesOf(full) |-> FirstOf(full, n).value]

\* Mutant of TimeSeries: timestamps are taken over.
TimeSeriesUnclamped(f, m, now) == [name |-> f.name, labels |-> LabelsOf(m), ts |-> m.ts]

\* The time series of a metric.  A timestamp in the future is overwritten.
TimeSeries(f, m, now) ==
  [name |-> f.name, labels |-> LabelsOf(m), ts |-> IF m.ts > now THEN now ELSE m.ts]

\* convertToTimeseries: one series per metric.
ConvertToTimeseries(fs, now) ==
  FlattenSeq([i \in DOMAIN fs |->
    [j \in DOMAIN fs[i].metrics |-> TimeSeries(fs[i], fs[i].metrics[j], now)]])

Convertible(fs) == \A i \in DOMAIN fs : fs[i].type \in {"COUNTER", "GAUGE", "UNTYPED"}

-----------------------------------------------------------------------------
(* The handlers. *)

Answer(s) ==
  /\ pc' = "answered"
  /\ status' = s

\* A request comes in.
Receive(labels, b) ==
  /\ pc = "idle"
  /\ pc' = "authorize"
  /\ client' = labels
  /\ body' = b
  /\ UNCHANGED <<flags, clock, families, next, min, series, stamp, read, delivered, status>>

\* The token is checked.
AuthorizeClient ==
  /\ pc = "authorize"
  /\ \/ Answer("401")
     \/ pc' = "cluster" /\ UNCHANGED status
  /\ UNCHANGED <<clock, request, delivered>>

\* The token's labels must name the cluster.
ClusterID ==
  /\ pc = "cluster"
  /\ IF Key \notin DOMAIN client \/ client[Key] = EmptyValue
       THEN Answer("500")
       ELSE pc' = "limit" /\ UNCHANGED status
  /\ UNCHANGED <<clock, request, delivered>>

\* The rate limit is charged before the body is read.
Ratelimit ==
  /\ pc = "limit"
  /\ \/ Answer("429")
     \/ pc' = "read" /\ UNCHANGED status
  /\ UNCHANGED <<clock, request, delivered>>

\* Validate reads the body, which may be too long or unreadable, sets the age
\* limit and decodes.
ReadBody ==
  /\ pc = "read"
  /\ \/ /\ Answer("413") \/ Answer("500")
        /\ UNCHANGED <<families, next, min>>
     \/ /\ families' = Pack(body)
        /\ next' = 1
        /\ min' = IF clock > MaxAge THEN clock - MaxAge ELSE 0
        /\ pc' = "filter"
        /\ UNCHANGED status
  /\ UNCHANGED <<flags, clock, client, body, series, stamp, read, delivered>>

\* Mutant of FilterFamily: an error costs the family only.
FilterFamilySkips ==
  /\ pc = "filter"
  /\ next <= Len(families)
  /\ \E required \in SetToSeqs(DOMAIN client) :
       LET r == ValidateFamily(families[next], clock, required)
       IN  /\ families' = [families EXCEPT ![next] = IF r.verdict = "ok" THEN r.family ELSE Nil]
           /\ next' = next + 1
           /\ read' = read \cup {clock}
  /\ UNCHANGED <<flags, clock, pc, client, body, min, series, stamp, delivered, status>>

\* Filter, for one family: it is kept, dropped, or the end of the request.  A
\* panic is caught by net/http, which hangs up.
FilterFamily ==
  /\ pc = "filter"
  /\ next <= Len(families)
  /\ \E required \in SetToSeqs(DOMAIN client) :
       LET r == ValidateFamily(families[next], clock, required)
       IN  \/ /\ r.verdict \in {"ok", "drop"}
              /\ families' = [families EXCEPT ![next] = IF r.verdict = "ok" THEN r.family ELSE Nil]
              /\ next' = next + 1
              /\ read' = read \cup {clock}
              /\ UNCHANGED <<pc, status>>
           \/ /\ r.verdict \in {"400", "500"}
              /\ Answer(r.verdict)
              /\ UNCHANGED <<families, next, read>>
           \/ /\ r.verdict = "panic"
              /\ pc' = "aborted"
              /\ UNCHANGED <<families, next, read, status>>
  /\ UNCHANGED <<flags, clock, client, body, min, series, stamp, delivered>>

\* Mutant of FilterDone: the index is not reset.
FilterDoneKeepsNext ==
  /\ pc = "filter"
  /\ next > Len(families)
  /\ families' = Pack(families)
  /\ pc' = "convert"
  /\ UNCHANGED <<flags, clock, client, body, next, min, series, stamp, read, delivered, status>>

\* Filter is done; what is left is encoded for ForwardHandler.
FilterDone ==
  /\ pc = "filter"
  /\ next > Len(families)
  /\ families' = Pack(families)
  /\ next' = 1
  /\ pc' = "convert"
  /\ UNCHANGED <<flags, clock, client, body, min, series, stamp, read, delivered, status>>

\* ForwardHandler converts; with no time series there is nothing to forward.
Convert ==
  /\ pc = "convert"
  /\ IF ~ Convertible(families)
       THEN Answer("500") /\ UNCHANGED <<series, stamp>>
       ELSE /\ series' = ConvertToTimeseries(families, clock)
            /\ stamp' = clock
            /\ IF series' = <<>> THEN Answer("200")
               ELSE pc' = "send" /\ UNCHANGED status
  /\ UNCHANGED <<flags, clock, client, body, families, next, min, read, delivered>>

\* The request to the upstream succeeds, is answered with an error status, which
\* is passed on, or fails or times out.  Unless it succeeds nobody knows what the
\* upstream has stored.
Forward ==
  /\ pc = "send"
  /\ \/ Answer("200") /\ delivered' = series
     \/ Answer("upstream") /\ delivered' \in {<<>>, series}
     \/ Answer("502") /\ delivered' \in {<<>>, series}
  /\ UNCHANGED <<clock, request>>

\* The connection is ready for the next request.
Finish ==
  /\ pc \in {"answered", "aborted"}
  /\ pc' = "idle"
  /\ client' = NoLabels
  /\ body' = <<>> /\ families' = <<>> /\ series' = <<>> /\ delivered' = <<>>
  /\ next' = 1 /\ min' = 0 /\ stamp' = NoTimeYet
  /\ read' = {}
  /\ status' = "none"
  /\ UNCHANGED <<flags, clock>>

\* Time passes, or the clock is set, while the request is under way.
SetClock(t) ==
  /\ pc \in {"filter", "convert"}
  /\ clock' = t
  /\ UNCHANGED <<pc, request, delivered, status>>

Next ==
  \/ \E labels \in TokenLabels, b \in Bodies : Receive(labels, b)
  \/ AuthorizeClient \/ ClusterID \/ Ratelimit \/ ReadBody
  \/ FilterFamily \/ FilterDone \/ Convert \/ Forward \/ Finish
  \/ \E t \in Times : SetClock(t)

Spec == Init /\ [][Next]_vars

-----------------------------------------------------------------------------
(* Properties. *)

\* Whatever labels the metrics of an upload carry, once, twice or empty, the
\* upstream stores them under the cluster the token was issued to, and with all
\* the labels the token asserts. The operator's own labels (--label) win over
\* those of the upload, an empty one by removing them, and none of the labels to
\* be elided gets out.
Isolation ==
  \A k \in DOMAIN delivered :
    /\ \A n \in DOMAIN client \ (DOMAIN flags.labels \cup flags.elide) :
         client[n] # EmptyValue =>
           n \in DOMAIN delivered[k].labels /\ delivered[k].labels[n] = client[n]
    /\ \A n \in DOMAIN flags.labels \ flags.elide :
         IF flags.labels[n] = EmptyValue THEN n \notin DOMAIN delivered[k].labels
         ELSE n \in DOMAIN delivered[k].labels /\ delivered[k].labels[n] = flags.labels[n]
    /\ DOMAIN delivered[k].labels \cap flags.elide = {}

\* The metrics of a family that the whitelist admits.
Admitted(f) ==
  {j \in DOMAIN f.metrics :
     /\ f.name # "" /\ f.type # NoType
     /\ f.metrics[j] # Nil
     /\ \E r \in Rules : Match(f.name, f.metrics[j], r)}

\* Those of the body, by family and position.
Wanted == UNION {{i} \X Admitted(body[i]) : i \in DOMAIN body}

\* The labels are those of the metric, but for the ones the operator sets or
\* removes.
Carries(labels, m, g) ==
  \A n \in DOMAIN LabelsOf(m) \ (DOMAIN g.labels \cup g.elide) :
    n \in DOMAIN labels /\ labels[n] = LabelsOf(m)[n]

\* An upload is forwarded whole or not at all: if anything reaches the upstream
\* it is one time series for each whitelisted metric of the body, and for
\* nothing else, and 200 says that all of them did.
WholeOrNothing ==
  /\ delivered # <<>> \/ status = "200" =>
       \E of \in Bijection(DOMAIN delivered, Wanted) : \A k \in DOMAIN delivered :
         LET f == body[of[k][1]] IN
           /\ delivered[k].name = f.name
           /\ Carries(delivered[k].labels, f.metrics[of[k][2]], flags)
  /\ status \in {"400", "401", "413", "429", "500"} => delivered = <<>>

\* Samples carry the server's time, to the second and never the client's, and no
\* sample is in the future when it is forwarded, even if the clock was set back
\* meanwhile.
ServerTime ==
  \A k \in DOMAIN series :
    /\ series[k].ts <= stamp
    /\ \E t \in read \cup {stamp} : series[k].ts <= t /\ t < series[k].ts + Second

\* Every request is answered: no body makes the server hang up.
EveryoneAnswered == pc # "aborted"
=============================================================================
