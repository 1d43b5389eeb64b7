------------------------------ MODULE Receive ------------------------------
(***************************************************************************)
(* A remote-write request to /metrics/v1/receive (pkg/receive/handler.go)  *)
(* as the two servers mount it: telemeter-server behind a token check and  *)
(* with the cluster label required, rhelemeter-server behind client        *)
(* certificates whose subject a terminating proxy passes in a header       *)
(* (pkg/authorize/ssl), or that TLS itself checks.                         *)
(*                                                                         *)
(* Requests share no state; one at a time is enough.  What happens in the  *)
(* token check is AuthCache.tla.  A body is what snappy and the protobuf   *)
(* decoder yield; encoding it again changes nothing and does not fail.     *)
(* Label names are numbers, in the order in which the names sort.          *)
(***************************************************************************)
EXTENDS Integers, Sequences, SequencesExt

CONSTANTS
  Mounts,     \* how the endpoint may be mounted
  Requests,   \* the requests that may come in
  Limit       \* --limit-receive-bytes

NoName    == 0          \* the empty label name
NoValue   == ""         \* the empty label value
NoSubject == "none"     \* no common name in the request's context

Label == [name : Nat, value : STRING]

ASSUME ReceiveAssumption ==
  /\ Limit \in Nat
  /\ \A r \in Requests : r.series \in Seq(Seq(Label))
  /\ \A m \in Mounts :
       /\ m.auth \in {"token", "header", "tls"}
       /\ m.required \in Seq(Nat) /\ m.elide \subseteq Nat /\ m.subject \in Nat

VARIABLES
  mount,      \* how the endpoint is mounted
  pc,         \* where the request is
  req,        \* the request, or NoRequest
  subject,    \* the common name in its context
  series,     \* wreq.Timeseries: the label sequences, overwritten in place
  at,         \* the series the loop is at
  kept,       \* n: how many series have been kept
  lbls,       \* the labels of the series the loop is at, overwritten in place
  look,       \* the label the inner loop is at
  fill,       \* how many labels it has copied to the front
  delivered,  \* what the upstream has stored
  status      \* the answer

vars == <<mount, pc, req, subject, series, at, kept, lbls, look, fill, delivered, status>>

outer == <<series, at, kept>>
inner == <<lbls, look, fill>>

NoRequest == [method |-> "none"]

Init ==
  /\ mount \in Mounts
  /\ pc = "idle"
  /\ req = NoRequest
  /\ subject = NoSubject
  /\ series = <<>> /\ delivered = <<>>
  /\ at = 1 /\ kept = 0
  /\ lbls = <<>> /\ look = 1 /\ fill = 0
  /\ status = "none"

-----------------------------------------------------------------------------
(* Operators on labels. *)

\* A rule admits a series if each of its matchers likes some label, the name of
\* which may occur more than once; a label that is absent matches nothing.
Matches(labels, rule) ==
  \A m \in rule : \E i \in DOMAIN labels :
    labels[i].name = m.name /\ labels[i].value \in m.values

IsWhitelisted(labels) ==
  mount.whitelist = {} \/ \E rule \in mount.whitelist : Matches(labels, rule)

\* Occurrences of required names are counted, not matched.
HasRequired(labels, required) ==
  /\ Len(labels) >= Len(required)
  /\ Cardinality({i \in DOMAIN labels : labels[i].name \in Range(required)}) = Len(required)

\* Mutant of Skipped: an empty label hides a later one of its name.
SkippedAfterEmpty(l) ==
  \/ l.name = NoName \/ l.value = NoValue
  \/ \E i \in 1..(look - 1) : req.series[at][i].name = l.name
  \/ l.name \in mount.elide

\* The labels that are not copied: empty ones, those of a name that was copied
\* before, and elided ones.
Skipped(l) ==
  \/ l.name = NoName \/ l.value = NoValue
  \/ \E i \in 1..fill : lbls[i].name = l.name
  \/ l.name \in mount.elide

\* What sort.Sort may make of labels: any order in which the names do not
\* decrease.
SortLabels(labels) ==
  {[n \in DOMAIN labels |-> labels[p[n]]] :
     p \in {q \in Bijection(DOMAIN labels, DOMAIN labels) :
              \A m, n \in DOMAIN labels : m < n => labels[q[m]].name <= labels[q[n]].name}}

\* A label whose value the context of the request prescribes.
SubjectMismatch(labels) ==
  \E i \in DOMAIN labels :
    labels[i].name = mount.subject /\ (subject = NoSubject \/ labels[i].value # subject)

-----------------------------------------------------------------------------
(* The handlers. *)

Answer(s) ==
  /\ pc' = "answered"
  /\ status' = s

Proceed(p) ==
  /\ pc' = p
  /\ UNCHANGED status

Arrive(r) ==
  /\ pc = "idle"
  /\ req' = r
  /\ Proceed("authenticate")
  /\ UNCHANGED <<mount, subject, outer, inner, delivered>>

\* telemeter-server: the token is checked, here with any outcome.
Authorize ==
  /\ pc = "authenticate"
  /\ mount.auth = "token"
  /\ Answer("400") \/ Answer("401") \/ Answer("500") \/ Proceed("size")
  /\ UNCHANGED <<mount, req, subject, outer, inner, delivered>>

\* rhelemeter-server behind a proxy: the shared secret, and then the common name
\* that ends the subject header.  A subject that ends in "/CN=" has an empty one.
ClientCertInfoAsHeaders ==
  /\ pc = "authenticate"
  /\ mount.auth = "header"
  /\ IF req.secret # "right" \/ req.header \in {"absent", "malformed"}
       THEN Answer("403") /\ UNCHANGED subject
       ELSE Proceed("size") /\ subject' = req.cn
  /\ UNCHANGED <<mount, req, outer, inner, delivered>>

\* rhelemeter-server with TLS of its own: the certificate was verified during
\* the handshake, and nobody puts its subject into the context.
VerifiedByTLS ==
  /\ pc = "authenticate"
  /\ mount.auth = "tls"
  /\ Proceed("size")
  /\ UNCHANGED <<mount, req, subject, outer, inner, delivered>>

\* The whole body is read, and only then its size checked.
LimitBodySize ==
  /\ pc = "size"
  /\ \/ Answer("500")
     \/ req.size >= Limit /\ Answer("413")
     \/ req.size < Limit /\ Proceed("decode")
  /\ UNCHANGED <<mount, req, subject, outer, inner, delivered>>

\* The body is unpacked.  A request of metadata alone is discarded and
\* answered with 200.
Decode ==
  /\ pc = "decode"
  /\ \/ ~ req.decodes /\ Answer("400") /\ UNCHANGED series
     \/ /\ req.decodes /\ req.series = <<>> /\ req.metadata
        /\ Answer("200")
        /\ UNCHANGED series
     \/ /\ req.decodes /\ ~(req.series = <<>> /\ req.metadata)
        /\ series' = req.series
        /\ Proceed("series")
  /\ UNCHANGED <<mount, req, subject, at, kept, inner, delivered>>

\* A round of the loop begins: a series without the required labels ends the
\* request, one that the whitelist does not admit is passed over.
TransformSeries ==
  /\ pc = "series"
  /\ at <= Len(series)
  /\ \/ /\ ~ HasRequired(series[at], mount.required)
        /\ Answer("400")
        /\ UNCHANGED <<at, inner>>
     \/ /\ HasRequired(series[at], mount.required)
        /\ ~ IsWhitelisted(series[at])
        /\ at' = at + 1
        /\ UNCHANGED <<pc, inner, status>>
     \/ /\ HasRequired(series[at], mount.required)
        /\ IsWhitelisted(series[at])
        /\ lbls' = series[at]
        /\ Proceed("labels")
        /\ UNCHANGED <<at, look, fill>>
  /\ UNCHANGED <<mount, req, subject, series, kept, delivered>>

\* One label of a series that is kept: it is skipped, or written over the array
\* that is being read.
CopyLabel ==
  /\ pc = "labels"
  /\ look <= Len(lbls)
  /\ \/ Skipped(lbls[look]) /\ UNCHANGED <<lbls, fill>>
     \/ /\ ~ Skipped(lbls[look])
        /\ lbls' = [lbls EXCEPT ![fill + 1] = lbls[look]]
        /\ fill' = fill + 1
  /\ look' = look + 1
  /\ UNCHANGED <<mount, pc, req, subject, outer, delivered, status>>

\* The round ends: the labels copied are sorted, and the series is written over
\* one that was passed over, or over itself.  (The series it was read from shares
\* the array of labels, and is not looked at again.)
KeepSeries ==
  /\ pc = "labels"
  /\ look > Len(lbls)
  /\ \E new \in SortLabels(SubSeq(lbls, 1, fill)) : series' = [series EXCEPT ![kept + 1] = new]
  /\ kept' = kept + 1
  /\ at' = at + 1
  /\ lbls' = <<>> /\ look' = 1 /\ fill' = 0
  /\ Proceed("series")
  /\ UNCHANGED <<mount, req, subject, delivered>>

\* Mutant of ValidateValues: only the first series is looked at.
ValidateValuesFirst ==
  /\ pc = "series"
  /\ at > Len(series)
  /\ LET rest == SubSeq(series, 1, kept) IN
       /\ series' = rest
       /\ IF rest = <<>> \/ SubjectMismatch(rest[1])
            THEN Answer("400") ELSE Proceed("forward")
  /\ UNCHANGED <<mount, req, subject, at, kept, inner, delivered>>

\* After the loop: the rest is cut off, nothing left is an error, and so is a
\* label that contradicts the context.
ValidateValues ==
  /\ pc = "series"
  /\ at > Len(series)
  /\ LET rest == SubSeq(series, 1, kept) IN
       /\ series' = rest
       /\ IF rest = <<>> \/ \E i \in DOMAIN rest : SubjectMismatch(rest[i])
            THEN Answer("400") ELSE Proceed("forward")
  /\ UNCHANGED <<mount, req, subject, at, kept, inner, delivered>>

\* Mutant of Receive: the status of the upstream is not looked at.
ReceiveTrusting ==
  /\ pc = "forward"
  /\ \/ req.method # "POST" /\ Answer("405") /\ UNCHANGED delivered
     \/ /\ req.method = "POST"
        /\ \/ Answer("502")
           \/ Answer("2xx")
        /\ delivered' \in {<<>>, series}
  /\ UNCHANGED <<mount, req, subject, outer, inner>>

\* The method is looked at last.  The upstream takes the series, answers with an
\* error that is passed on, or is not heard of within the timeout; in the latter
\* two cases it may still have stored them.
Receive ==
  /\ pc = "forward"
  /\ \/ req.method # "POST" /\ Answer("405") /\ UNCHANGED delivered
     \/ /\ req.method = "POST"
        /\ \/ Answer("2xx") /\ delivered' = series
           \/ Answer("502") /\ delivered' \in {<<>>, series}
           \/ Answer("upstream") /\ delivered' \in {<<>>, series}
  /\ UNCHANGED <<mount, req, subject, outer, inner>>

\* The answer is written; the next request finds a new context.
Finish ==
  /\ pc = "answered"
  /\ pc' = "idle"
  /\ req' = NoRequest
  /\ subject' = NoSubject
  /\ series' = <<>> /\ delivered' = <<>>
  /\ at' = 1 /\ kept' = 0
  /\ status' = "none"
  /\ UNCHANGED <<mount, inner>>

Next ==
  \/ \E r \in Requests : Arrive(r)
  \/ Authorize \/ ClientCertInfoAsHeaders \/ VerifiedByTLS
  \/ LimitBodySize \/ Decode \/ TransformSeries \/ CopyLabel \/ KeepSeries
  \/ ValidateValues \/ Receive
  \/ Finish

Spec == Init /\ [][Next]_vars

-----------------------------------------------------------------------------
(* Properties. *)

\* The labels a series should end up with: of every name that is neither empty
\* nor elided, the first value that is not empty.
Wanted(labels) ==
  LET full == {i \in DOMAIN labels : /\ labels[i].name \notin {NoName} \cup mount.elide
                                     /\ labels[i].value # NoValue}
  IN  {labels[i] : i \in {j \in full : \A k \in full :
                            labels[k].name = labels[j].name => j <= k}}

\* Which of the first n series of the request the whitelist admits.
Listed(n) == {i \in 1..n : IsWhitelisted(req.series[i])}

\* What the upstream gets are the whitelisted series of the request, each once
\* and in their order, with sorted labels of unique names and no empty values;
\* and it gets them only if every series of the request, whitelisted or not,
\* names the required label exactly once.  (Its value may be empty, and the
\* label is then gone.)  The loop overwrites the array of series, and the labels
\* of each, while it ranges over them.
DeliveredSanitized ==
  delivered # <<>> =>
    /\ Len(delivered) = Cardinality(Listed(Len(req.series)))
    /\ \A i \in Listed(Len(req.series)) :
         LET row == delivered[Cardinality(Listed(i))] IN
           /\ Range(row) = Wanted(req.series[i])
           /\ \A j, k \in DOMAIN row : j < k => row[j].name < row[k].name
    /\ Len(mount.required) = 1 =>
         \A i \in DOMAIN req.series : Cardinality(
           {j \in DOMAIN req.series[i] : req.series[i][j].name = mount.required[1]}) = 1

\* Behind a proxy nobody writes under another's name: where a series that goes
\* to the upstream carries the subject label, its value is the common name that
\* came with the right secret, although empty and duplicate labels are removed
\* before the comparison.  Where no header is configured no common name is ever
\* known, and such a series does not get through at all.
SubjectBound ==
  \A i \in DOMAIN delivered : \A j \in DOMAIN delivered[i] :
    mount.subject # NoName /\ delivered[i][j].name = mount.subject =>
      /\ mount.auth = "header"
      /\ req.secret = "right"
      /\ delivered[i][j].value = req.cn

\* The sender of series, which drops what is answered with 2xx or 4xx and repeats
\* the rest, is told the truth: a 2xx says that the upstream has taken everything
\* the whitelist admits, and any other answer of this server's own making but 502
\* that it was sent nothing.
AnswerTrue ==
  /\ status \in {"200", "2xx"} /\ req.series # <<>> =>
       /\ delivered # <<>>
       /\ Len(delivered) = Cardinality(Listed(Len(req.series)))
  /\ status \in {"400", "401", "403", "405", "413", "500"} => delivered = <<>>

\* What the README says of /metrics/v1/receive: "Sending metric metadata is not
\* supported and will return a "400 Bad Request" response code."  The handler
\* discards a request of metadata alone and answers 200.
MetadataRefused ==
  pc = "answered" /\ mount.auth = "token" /\ req.series = <<>> /\ req.metadata =>
    status \notin {"200", "2xx"}
=============================================================================
