------------------------------- MODULE Scrape -------------------------------
(***************************************************************************)
(* What telemeter-client makes of the metrics it scrapes, between Retrieve *)
(* and Send (forward in pkg/forwarder/forwarder.go, the transformers built *)
(* there and in cmd/telemeter-client/main.go): labels are added, families  *)
(* renamed, invalid samples dropped, metrics packed and sorted, label      *)
(* values anonymized, and the labels the server asks for added at last.    *)
(*                                                                         *)
(* The server's labels are fetched when the first family with metrics      *)
(* comes along and kept for as long as the Worker's configuration; the     *)
(* token they came with is renewed meanwhile (TokenStore.tla).             *)
(***************************************************************************)
EXTENDS MetricFamily

CONSTANTS
  ClientLabels,    \* --label
  Renames,         \* --rename
  AnonymizeNames,  \* --anonymize-labels
  Assertable,      \* the label maps a token may assert
  Scrapes,         \* what Retrieve may yield
  WallTimes,       \* what the clock may show
  AgeLimit,        \* the oldest samples sent
  MaxRotations     \* bound on the tokens after the first

\* A family as the decoder yields it: with all its metrics, and with label pairs
\* of its own that nobody has hashed.
Decoded(f) ==
  \A j \in DOMAIN f.metrics :
    /\ f.metrics[j] # Nil
    /\ \A i \in DOMAIN f.metrics[j].labels :
         ~ f.metrics[j].labels[i].shared /\ f.metrics[j].labels[i].value.hashed = 0

\* Flags are in clear, and the server asserts no label that it would refuse.
ASSUME ScrapeAssumption ==
  /\ WallTimes \subseteq Nat
  /\ AgeLimit \in Nat
  /\ MaxRotations \in Nat
  /\ Scrapes \subseteq Seq(FamilyRecords)
  /\ \A b \in Scrapes : \A i \in DOMAIN b : Decoded(b[i])
  /\ \A n \in DOMAIN Renames : Renames[n] \in STRING
  /\ LabelMap(ClientLabels)
  /\ \A n \in DOMAIN ClientLabels : ClientLabels[n].hashed = 0
  /\ \A l \in Assertable : LabelMap(l) /\ \A n \in DOMAIN l : WellFormed(Pair(n, l[n]))

VARIABLES
  wall,       \* the wall clock
  token,      \* the labels asserted by the current token
  rotations,  \* tokens after the first
  resolved,   \* the label transformer has asked for its labels (retriever is nil)
  given,      \* its labels
  stage,      \* where forward is
  scraped,    \* what was retrieved
  outgoing,   \* what is left of it
  cursor,     \* the family Filter is at
  cutoff      \* the oldest timestamp kept when Filter began

scrapeVars == <<wall, token, rotations, resolved, given, stage, scraped, outgoing, cursor,
                cutoff>>

\* The oldest timestamp kept at a time.
Cutoff(now) == IF now > AgeLimit THEN now - AgeLimit ELSE 0

\* Type correctness.
ScrapeTypeOK ==
  /\ wall \in WallTimes
  /\ token \in Assertable
  /\ rotations \in 0..MaxRotations
  /\ resolved \in BOOLEAN
  /\ given \in Assertable \cup {NoLabels}
  /\ stage \in {"idle", "filter", "send"}
  /\ cursor \in 1..(Len(outgoing) + 1)
  /\ Len(outgoing) <= Len(scraped)
  /\ cutoff <= Cutoff(wall)

ScrapeInit ==
  /\ wall \in WallTimes
  /\ token \in Assertable
  /\ rotations = 0
  /\ resolved = FALSE
  /\ given = NoLabels
  /\ stage = "idle"
  /\ scraped = <<>> /\ outgoing = <<>>
  /\ cursor = 1
  /\ cutoff = 0

-----------------------------------------------------------------------------
(* The transformers. *)

\* Those of main.go up to the sort, which build a new label transformer and read
\* the clock for each family.
Configured(f, now) ==
  Then(Then(Then(Label(f, ClientLabels, SetToSeq(DOMAIN ClientLabels)),
    LAMBDA g : Rename(g, Renames)),
    LAMBDA g : DropInvalidFederateSamples(g, Cutoff(now))),
    PackMetrics)

\* Mutant of Sorted: the metrics stay as they are.
SortedNot(f) == {f}

\* SortMetrics
Sorted(f) == {[f EXCEPT !.metrics = ms] : ms \in SortedOrders(f.metrics)}

\* Mutant of Anonymized: the condition is the wrong way round.
AnonymizedInverted(f) == IF AnonymizeNames = {} THEN Anonymize(f, AnonymizeNames).family ELSE f

\* The anonymizer is there only if it has labels to anonymize.
Anonymized(f) == IF AnonymizeNames = {} THEN f ELSE Anonymize(f, AnonymizeNames).family

\* The label transformer, with the labels it got.
Labelled(f, ls) == Label(f, ls, SetToSeq(DOMAIN ls)).family

-----------------------------------------------------------------------------
(* forward. *)

\* forward ends, whatever came of it.
ForwardEnds ==
  /\ stage' = "idle"
  /\ scraped' = <<>> /\ outgoing' = <<>>
  /\ cursor' = 1
  /\ cutoff' = 0

\* Retrieve returns families.
Retrieve(b) ==
  /\ stage = "idle"
  /\ stage' = "filter"
  /\ scraped' = b /\ outgoing' = b
  /\ cursor' = 1
  /\ cutoff' = Cutoff(wall)
  /\ UNCHANGED <<wall, token, rotations, resolved, given>>

\* Filter drops a family.
FilterDrops ==
  /\ stage = "filter"
  /\ cursor <= Len(outgoing)
  /\ Configured(outgoing[cursor], wall).verdict = "drop"
  /\ outgoing' = [outgoing EXCEPT ![cursor] = Nil]
  /\ cursor' = cursor + 1
  /\ UNCHANGED <<wall, token, rotations, resolved, given, stage, scraped, cutoff>>

\* Filter keeps a family.  The first time, the server is asked for its labels;
\* if it does not give them the forward fails.
FilterKeeps ==
  /\ stage = "filter"
  /\ cursor <= Len(outgoing)
  /\ LET r == Configured(outgoing[cursor], wall)
     IN  /\ r.verdict = "ok"
         /\ \E f \in Sorted(r.family) :
              \/ /\ resolved' = TRUE
                 /\ given' = IF resolved THEN given ELSE token
                 /\ outgoing' = [outgoing EXCEPT ![cursor] = Labelled(Anonymized(f), given')]
                 /\ cursor' = cursor + 1
                 /\ UNCHANGED <<stage, scraped, cutoff>>
              \/ /\ ~ resolved
                 /\ ForwardEnds
                 /\ UNCHANGED <<resolved, given>>
  /\ UNCHANGED <<wall, token, rotations>>

\* What is left is packed, and sent if it is not empty.
FilterEnds ==
  /\ stage = "filter"
  /\ cursor > Len(outgoing)
  /\ IF Pack(outgoing) = <<>>
       THEN ForwardEnds
       ELSE /\ outgoing' = Pack(outgoing)
            /\ cursor' = 1
            /\ stage' = "send"
            /\ UNCHANGED <<scraped, cutoff>>
  /\ UNCHANGED <<wall, token, rotations, resolved, given>>

\* Send returns, with or without an error.
Send ==
  /\ stage = "send"
  /\ ForwardEnds
  /\ UNCHANGED <<wall, token, rotations, resolved, given>>

\* Reconfigure replaces the transformers between two forwards.
Reconfigure ==
  /\ stage = "idle"
  /\ resolved' = FALSE
  /\ given' = NoLabels
  /\ UNCHANGED <<wall, token, rotations, stage, scraped, outgoing, cursor, cutoff>>

\* While an upload is sent, the round tripper finds its token expired and gets
\* a new one, from a server that may have been given another --required-label.
Rotate(t) ==
  /\ stage = "send"
  /\ rotations < MaxRotations
  /\ rotations' = rotations + 1
  /\ token' = t
  /\ UNCHANGED <<wall, resolved, given, stage, scraped, outgoing, cursor, cutoff>>

\* Time passes.
Tick(t) ==
  /\ t > wall
  /\ wall' = t
  /\ UNCHANGED <<token, rotations, resolved, given, stage, scraped, outgoing, cursor, cutoff>>

ScrapeNext ==
  \/ \E b \in Scrapes : Retrieve(b)
  \/ FilterDrops \/ FilterKeeps \/ FilterEnds \/ Send \/ Reconfigure
  \/ \E t \in Assertable : Rotate(t)
  \/ \E t \in WallTimes : Tick(t)

ScrapeSpec == ScrapeInit /\ [][ScrapeNext]_scrapeVars

-----------------------------------------------------------------------------
(* Properties. *)

\* What telemeter-server's Validate says to a family, for a token that asserts
\* the given labels.
ServerVerdict(f, asserted) ==
  Then(Then(Then(ErrorOnUnsorted(f),
    LAMBDA g : RequiredLabels(g, asserted, SetToSeq(DOMAIN asserted))),
    DropEmptyFamilies),
    LAMBDA g : ErrorInvalidFederateSamples(g, cutoff)).verdict

\* What the client sends, the server accepts, whatever was scraped: one bad
\* metric, an unsorted family or a missing label would cost the whole upload.
\* (With the labels the client was given, and as of the cutoff it used: a sample
\* at the age limit may be too old by the time it arrives.)
AcceptedByServer ==
  stage = "send" => \A i \in DOMAIN outgoing : ServerVerdict(outgoing[i], given) = "ok"

\* Families are given the labels that the current token asserts.
LabelsCurrent == stage = "filter" /\ resolved => given = token

\* The label pairs of what is about to be sent that were scraped: neither the
\* operator nor the server has set them.
OwnPairs ==
  {p \in UNION {UNION {ToSet(outgoing[i].metrics[j].labels) : j \in DOMAIN outgoing[i].metrics}
                  : i \in DOMAIN outgoing} :
     p.name \notin DOMAIN given \cup DOMAIN ClientLabels}

\* A label to be anonymized is sent hashed, exactly once: not in clear, and with
\* a value that depends on nothing but the label, so that it is the same in
\* every metric and every upload. (For labels that were scraped: a label that
\* the operator both sets by --label and has anonymized is one pair shared by the
\* metrics of a family, and is hashed once for each of them.)
AnonymizedOnce ==
  stage = "send" => \A p \in OwnPairs :
    p.name \in AnonymizeNames /\ p.value.text # "" => p.value.hashed = 1

\* The name under which a family is sent.
NewName(f) == IF f.name \in DOMAIN Renames THEN Renames[f.name] ELSE f.name

\* Nothing is wrong with a sample, if those from min on are kept.
Good(f, j, min) ==
  /\ NewName(f) \notin BadNames /\ f.type \in Types
  /\ f.metrics[j].set = f.type /\ f.metrics[j].ts >= min

\* The good labels of old are there, hashed or not, but for those the operator
\* sets; and the server's labels ls may have replaced the value of one.
LabelsShown(new, old, ls) ==
  \A i \in DOMAIN old :
    WellFormed(old[i]) /\ old[i].name \notin DOMAIN ClientLabels =>
      \E j \in DOMAIN new :
        /\ new[j].name = old[i].name
        /\ new[j].name \in DOMAIN ls \/ new[j].value.text = old[i].value.text

\* Metric k is what was scraped as metric m.
Mirrors(k, m, ls) == k.ts = m.ts /\ LabelsShown(k.labels, m.labels, ls)

\* Family g holds what was scraped as metric j of family f.
Holds(g, f, j, ls) ==
  g.name = NewName(f) /\ \E k \in DOMAIN g.metrics : Mirrors(g.metrics[k], f.metrics[j], ls)

\* Every good sample that was scraped is there when Filter is done, under its new
\* name and with its timestamp and labels, whatever is dropped around it; so it
\* is sent.
NothingLost ==
  stage = "send" \/ (stage = "filter" /\ cursor > Len(outgoing)) =>
    \A i \in DOMAIN scraped : \A j \in DOMAIN scraped[i].metrics :
      Good(scraped[i], j, Cutoff(wall)) =>
        \E g \in ToSet(Pack(outgoing)) : Holds(g, scraped[i], j, given)
=============================================================================
