---------------------------- MODULE MCPipelines ----------------------------
(***************************************************************************)
(* TLC instance of the two pipelines of transformers, with the bodies of   *)
(* MCUpload and the scrapes of MCScrape.  The client's pipeline and the    *)
(* server's share no state, so their steps need no interleaving: each      *)
(* behaviour runs one of them while the other stays as it began.           *)
(***************************************************************************)
EXTENDS MCUpload, MCScrape

VARIABLE side    \* whose pipeline runs: "server" (Upload) or "client" (Scrape)

pipelines == <<side, vars, scrapeVars>>

\* How the side that does not run began.
AtRest ==
  /\ side = "server" => wall = 9 /\ token \in MCToken
  /\ side = "client" => clock = 8 /\ flags.elide = {}

PipelinesInit ==
  /\ side \in {"server", "client"}
  /\ Init /\ ScrapeInit
  /\ AtRest

OnServer == side = "server" /\ UNCHANGED <<side, scrapeVars>>
OnClient == side = "client" /\ UNCHANGED <<side, vars>>

\* Next of Upload and ScrapeNext of Scrape, action by action.  The guards of
\* Receive and of Retrieve stand before the quantifiers, so that TLC builds the
\* sets of bodies and of scrapes only where a request can begin.
PipelinesNext ==
  \/ OnServer /\ pc = "idle" /\ \E labels \in TokenLabels, b \in Bodies : Receive(labels, b)
  \/ OnServer /\ AuthorizeClient
  \/ OnServer /\ ClusterID
  \/ OnServer /\ Ratelimit
  \/ OnServer /\ ReadBody
  \/ OnServer /\ FilterFamily
  \/ OnServer /\ FilterDone
  \/ OnServer /\ Convert
  \/ OnServer /\ Forward
  \/ OnServer /\ Finish
  \/ OnServer /\ \E t \in Times : SetClock(t)
  \/ OnClient /\ stage = "idle" /\ \E b \in Scrapes : Retrieve(b)
  \/ OnClient /\ FilterDrops
  \/ OnClient /\ FilterKeeps
  \/ OnClient /\ FilterEnds
  \/ OnClient /\ Send
  \/ OnClient /\ Reconfigure
  \/ OnClient /\ \E t \in Assertable : Rotate(t)
  \/ OnClient /\ \E t \in WallTimes : Tick(t)

PipelinesSpec == PipelinesInit /\ [][PipelinesNext]_pipelines
=============================================================================
