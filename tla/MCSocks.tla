------------------------------ MODULE MCSocks -------------------------------
(* One instance of the parts of the SOCKS client.  Each has the interface of *)
(* the others abstracted in it and shares no variable with them; `part' says *)
(* which one moves, so that their state spaces add up and do not multiply.   *)
EXTENDS SocksDns, SocksFlow, SocksReauth, SocksRx

VARIABLE part

MCInit ==
  /\ part \in {"dns", "flow", "reauth", "rx"}
  /\ Init /\ (part # "dns" => tunnel)
  /\ SfInit /\ (part # "flow" => todo = <<"uri">>)
  /\ RaInit /\ (part # "reauth" => cfg.reauth /\ stops = [g |-> FALSE, user |-> FALSE])
  /\ RxInit /\ (part # "rx" => inbox = <<>>)

all == <<vars, sfVars, raVars, rxVars, part>>

OnlyDns == part = "dns" /\ UNCHANGED <<sfVars, raVars, rxVars, part>>
OnlyFlow == part = "flow" /\ UNCHANGED <<vars, raVars, rxVars, part>>
OnlyReauth == part = "reauth" /\ UNCHANGED <<vars, sfVars, rxVars, part>>
OnlyRx == part = "rx" /\ UNCHANGED <<vars, sfVars, raVars, part>>

\* The ends of the parts that may stop.
Over ==
  \/ part = "flow" /\ f.state = "free" /\ ph = "wait"
  \/ part = "reauth" /\ stage = "done"
  \/ part = "rx" /\ rx.pc = "away" /\ inbox = <<>>

MCNext ==
  \/ OnlyDns /\ Next
  \/ OnlyFlow /\ SfNext
  \/ OnlyReauth /\ RaNext
  \/ OnlyRx /\ RxNext
  \/ Over /\ UNCHANGED all

\* The fairness of each part, while it is the one that moves.  Strong fairness
\* of the disjunction of steps of three parts is that of each; that of a worker
\* is WF with ENABLED spelled out, which TLC evaluates faster.
MCFairness ==
  /\ \A w \in Workers : []<>~(part = "dns" /\ CanStep(w)) \/ []<><<WorkerStep(w)>>_vars
  /\ WF_vars(part = "dns" /\ LoopBusy)
  /\ WF_sfVars(part = "flow" /\ SfLoop)
  /\ WF_raVars(part = "reauth" /\ RaLoop)
  /\ WF_raVars(part = "reauth" /\ BackoffEnds)
  /\ WF_raVars(part = "reauth" /\ ~Carrying /\ FallsSilent)
  /\ WF_rxVars(part = "rx" /\ RxNext)
  /\ SF_sfVars(part = "flow" /\ KillDeadClient)
  /\ SF_all(\/ OnlyFlow /\ SfWait(Clocks)
            \/ OnlyReauth /\ RaLoop /\ Carrying'
            \/ OnlyRx /\ Recv /\ inbox' # inbox)

MCSpec == MCInit /\ [][MCNext]_all /\ MCFairness

-----------------------------------------------------------------------------
\* The resolver's tables, threads and descriptors are in order: the wait count
\* is exact, no worker uses a closed or reused descriptor, a result reaches the
\* flow that asked for it, what a flow waits for somebody still owes it unless
\* the ring dropped it, and the ring drops nothing while flows and sessions outlive
\* their workers (spawn_dns, dns_worker_thread, dns_push_g, handle_dns_results).
LookupsOwned ==
  CountsExact /\ OwnDescriptors /\ ResultsOwn /\ PendingIsOwed /\ RingSuffices

\* The two streams of a flow are sound (process_socks_handshake,
\* service_local_inputs, service_local_outputs).
FlowStream == OneReply /\ UpInOrder

\* Everything that was begun ends: a lookup is answered, a flow is freed or has
\* both its ends, the session carries or run_socks has returned, and the
\* datagrams in the socket are read (LookupEnds, FlowEnds, HealsOrEnds and
\* KeepsReading of the parts, in one formula since only one part moves).
SocksGoesOn ==
  []<>(CASE part = "dns" -> \A x \in FlowSlots : Answered(x)
         [] part = "flow" -> Settled
         [] part = "reauth" -> Healed
         [] part = "rx" -> inbox = <<>>)
=============================================================================
