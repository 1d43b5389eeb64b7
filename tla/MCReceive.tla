----------------------------- MODULE MCReceive -----------------------------
(***************************************************************************)
(* TLC instance of Receive: series of up to three labels with own, foreign *)
(* and empty values, names once, twice or empty; requests of up to two of  *)
(* them, and one of three for the compaction.                              *)
(***************************************************************************)
EXTENDS Receive

Metric == 1      \* __name__
Id     == 2      \* _id
Node   == 3      \* node

L(name, value) == [name |-> name, value |-> value]

Labels ==
  {L(Metric, "up"), L(Metric, "down"), L(Id, "mine"), L(Id, "other"), L(Id, NoValue),
   L(Node, "x"), L(NoName, "x")}

Single ==
  {<<>>} \cup {<<l>> : l \in Labels}
    \cup {<<l, k>> : l, k \in Labels}
    \cup {<<l, k, p>> : l, p \in Labels \ {L(NoName, "x")}, k \in Labels \ {L(Node, "x")}}

Typical ==
  {<<L(Id, "mine"), L(Metric, "up")>>, <<L(Metric, "down"), L(Id, "mine")>>,
   <<L(Metric, "up"), L(Id, "other")>>, <<L(Id, NoValue), L(Metric, "up"), L(Node, "x")>>,
   <<L(Metric, "up")>>}

MCBodies ==
  {<<>>} \cup {<<s>> : s \in Single} \cup {<<s, t>> : s, t \in Typical}
    \cup {<<s, t, u>> : s, t, u \in Typical}

Good(b) ==
  [method |-> "POST", secret |-> "right", header |-> "subject", cn |-> "mine",
   size |-> Limit - 1, decodes |-> TRUE, metadata |-> FALSE, series |-> b]

Plain == Good(<<<<L(Id, "mine"), L(Metric, "up")>>>>)

MCRequests ==
  {Good(b) : b \in MCBodies}
    \cup {[Plain EXCEPT !.method = "GET"], [Plain EXCEPT !.size = Limit],
          [Plain EXCEPT !.decodes = FALSE], [Plain EXCEPT !.metadata = TRUE],
          [Plain EXCEPT !.metadata = TRUE, !.series = <<>>],
          [Plain EXCEPT !.secret = "absent"], [Plain EXCEPT !.secret = "wrong"],
          [Plain EXCEPT !.header = "absent"], [Plain EXCEPT !.header = "malformed"],
          [Plain EXCEPT !.cn = NoValue], [Plain EXCEPT !.cn = "other"]}

Rules == {{[name |-> Metric, values |-> {"up"}]}}

\* telemeter-server, and rhelemeter-server with and without the header config.
MCMounts ==
  {[auth |-> "token", required |-> <<Id>>, whitelist |-> Rules, elide |-> {},
    subject |-> NoName],
   [auth |-> "header", required |-> <<>>, whitelist |-> {}, elide |-> {Node},
    subject |-> Id],
   [auth |-> "tls", required |-> <<>>, whitelist |-> Rules, elide |-> {},
    subject |-> Id]}
=============================================================================
