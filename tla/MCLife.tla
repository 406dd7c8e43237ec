------------------------------- MODULE MCLife -------------------------------
(* One instance of how the two programs start, find each other and stop: the *)
(* server's set-up and clean-up of the host, the client's handshake with it, *)
(* the client's reconnect loops, and the HTTPS round trip of its login.      *)
(* They share no variable; `part' says which one moves, so that their state  *)
(* spaces add up and do not multiply.                                        *)
EXTENDS ServerHost, ClientAuth, ConnectLoop, Https

CONSTANTS a, b, subnet

VARIABLE part

SameSubnet == [s \in Servers |-> subnet]

Stopped == [servers |-> {a}, root |-> TRUE, rules |-> 1, sigs |-> StopSignals,
            killing |-> FALSE]

Plain == [Stopped EXCEPT !.root = FALSE, !.rules = 0]

Killed == [Stopped EXCEPT !.rules = 0, !.sigs = {"TERM"}, !.killing = TRUE]

Pair == [servers |-> {a, b}, root |-> TRUE, rules |-> 0, sigs |-> {},
         killing |-> TRUE]

FourCases == {Stopped, Plain, Killed, Pair}

\* Bound: with two servers, neither child gets past the drop of its privileges
\* (the parents wait and clean up all the same), ip_forward can be read, the
\* commands of a clean-up succeed and the status of none is lost.
ShortPair ==
  Cardinality(how.servers) > 1 =>
    /\ ~failed' /\ strays' = {}
    /\ \A s \in Servers : srv'[s].cpc \in {"none", "drop", "dead"}
    /\ \A s \in Servers : srv'[s].pc \notin {"idle", "save"} => srv'[s].saved # -1

MCInit ==
  /\ part \in {"host", "auth", "loop", "https"}
  /\ HostInit /\ (part # "host" => how = Plain /\ host.fwd = 0)
  /\ CaInit
  /\ ClInit /\ (part # "loop" => prog = "socks" /\ disp = "default")
  /\ HsInit /\ (part # "https" => rt.is_get /\ g_https_ctx = {})

all == <<hostVars, caVars, clVars, hsVars, part>>

\* The ends of the parts that may stop.
Ended ==
  \/ part = "loop" /\ code # -1
  \/ part = "auth" /\ Matched
  \/ part = "auth" /\ cl.pc = "gone" /\ ~sv.valid

MCNext ==
  \/ part = "host" /\ HostNext /\ ShortPair /\ UNCHANGED <<caVars, clVars, hsVars, part>>
  \/ part = "auth" /\ CaNext /\ UNCHANGED <<hostVars, clVars, hsVars, part>>
  \/ part = "loop" /\ ClNext /\ UNCHANGED <<hostVars, caVars, hsVars, part>>
  \/ part = "https" /\ HsNext /\ UNCHANGED <<hostVars, caVars, clVars, part>>
  \/ Ended /\ UNCHANGED all

\* The fairness of each part, while it is the one that moves.
MCFairness ==
  /\ \A s \in Servers :
        /\ WF_hostVars(part = "host" /\ Step(s))
        /\ WF_hostVars(part = "host" /\ RoleStep(s))
        /\ WF_hostVars(part = "host" /\ WorkerLeaves(s))
        /\ \A g \in StopSignals : /\ WF_hostVars(part = "host" /\ parent_fwd_signal(s, g))
                                  /\ WF_hostVars(part = "host" /\ on_signal(s, g))
  /\ WF_caVars(part = "auth" /\ Attempt)
  /\ WF_caVars(part = "auth" /\ AuthSendOpen)
  /\ WF_caVars(part = "auth" /\ RecvTimeout)
  /\ WF_caVars(part = "auth" /\ StaleWatchdog)
  /\ WF_caVars(part = "auth" /\ OthersDie)
  /\ WF_caVars(part = "auth" /\ cl.pc = "gone" /\ Purge)
  /\ SF_caVars(part = "auth" /\ OpenArrives)
  /\ SF_caVars(part = "auth" /\ OpenTaken)
  /\ SF_caVars(part = "auth" /\ AckTaken)
  /\ WF_clVars(part = "loop" /\ lpc # "running" /\ ClStep)
  /\ WF_clVars(part = "loop" /\ user_stop /\ ClStep)
  /\ WF_hsVars(part = "https" /\ HsStep)
  /\ WF_hsVars(part = "https" /\ DeadlinePasses)

MCSpec == MCInit /\ [][MCNext]_all /\ MCFairness

-----------------------------------------------------------------------------
\* What the server did to the host is accounted for and undone, by nobody but the
\* server that did it and with the exceptions HostRestored names, and the exit
\* status says how it went (setup_nat, server_cleanup_nat, main).
HostAccounted == RulesAccounted /\ ExitStatus /\ HostRestored

\* What was begun ends: a stop signal ends the server and the reconnect loops,
\* client and server come to hold the same session or, the client gone for good,
\* the server none, and the round trip returns (one formula since only one part
\* moves; a stop, once asked for, is not taken back).
LifeGoesOn ==
  []<>(CASE part = "host" -> \A s \in Servers : srv[s].asked => HostOver(s)
         [] part = "auth" -> Matched \/ (cl.pc = "gone" /\ ~sv.valid)
         [] part = "loop" -> user_stop => code # -1
         [] part = "https" -> At("done"))
=============================================================================
