------------------------------ MODULE MCEdges -------------------------------
(* One instance of what the client does at its edges: the routes of the      *)
(* host, the byte streams, targets and heads of the relay proxy, the framing *)
(* of an HTTP response, and the OIDC login with its files.  They share no    *)
(* state; `part' says which one moves, so that their state spaces add up and *)
(* do not multiply.                                                          *)
EXTENDS RouteLinux, RelayHead, HttpFrame, OidcFetch

VARIABLE part

R(d, p, v, w) == [dst |-> d, prio |-> p, dev |-> v, via |-> w]

MCTargets == {<<"default">>, <<"net">>, <<"net", "default">>, <<"default", "net">>}

\* A host with one default, with or without a metric; one more behind it; and
\* a pin of somebody else's or a subnet route of another kind.
MCTables ==
  { {R("default", m, "eth", "old")} \cup s \cup more :
      m \in {0, 1},
      s \in {{}, {R("default", 2, "wlan", "old")}},
      more \in { {R("loc", 0, "eth", "link")},
                 {R("loc", 0, "eth", "link"), R("srv", 0, "wlan", "old")},
                 {R("loc", 0, "eth", "link"), R("srv", 1, "wlan", "old")},
                 {R("loc", 1, "eth", "link")}, {} } }

\* The parts that do not move rest in one of their initial states.
Resting ==
  /\ part # "route" => RouteInit /\ table = {R("default", 0, "eth", "old")}
  /\ part # "entry" => EntInit /\ rd = 0
  /\ part # "target" =>
       TgInit /\ tg = [guard |-> FALSE, literal |-> TRUE,
                       cands |-> <<[addr |-> [af |-> "4", range |-> "public"],
                                    res |-> "connects"]>>]
  /\ part # "head" => HeadInit /\ Len(head) = 2
  /\ part # "frame" =>
       FrInit /\ clen = 0 /\ given = "eof" /\ stream = CHOOSE w \in Responses("eof") : TRUE

MCInit ==
  /\ part \in {"route", "entry", "target", "head", "frame", "oidc"}
  /\ OfInit
  /\ Resting
  /\ part = "route" => RouteInit
  /\ part = "entry" => EntInit
  /\ part = "target" => TgInit
  /\ part = "head" => HeadInit
  /\ part = "frame" => FrInit

\* The ends of the parts that may stop.
Ended ==
  \/ part = "oidc" /\ runs = MaxRuns /\ \A p \in Procs : run[p] = Off
  \/ part = "target" /\ rc # "running"
  \/ part = "head" /\ walk \in {"rewritten", "verbatim"}
  \/ part = "entry" /\ wr_closed

MCNext ==
  /\ UNCHANGED part
  /\ part # "route" => UNCHANGED routeVars
  /\ part # "entry" => UNCHANGED entVars
  /\ part # "target" => UNCHANGED tgVars
  /\ part # "head" => UNCHANGED headVars
  /\ part # "frame" => UNCHANGED frVars
  /\ part # "oidc" => UNCHANGED ofVars
  /\ \/ part = "route" /\ RouteNext
     \/ part = "entry" /\ EntNext
     \/ part = "target" /\ TgNext
     \/ part = "head" /\ HeadNext
     \/ part = "frame" /\ FrNext
     \/ part = "oidc" /\ OfNext
     \/ Ended /\ UNCHANGED <<ofVars, tgVars, headVars, entVars>>

MCSpec ==
  MCInit /\ [][MCNext]_<<routeVars, entVars, tgVars, headVars, frVars, ofVars, part>>

=============================================================================
