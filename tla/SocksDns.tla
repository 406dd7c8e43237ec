------------------------------ MODULE SocksDns ------------------------------
(***************************************************************************)
(* Tunnel DNS of the SOCKS client (common/socks_dns.c): the event loop     *)
(* starts detached worker threads for the names of its flows, the workers  *)
(* register in a wait table, send through the session's socket and poll;   *)
(* the loop takes answers off the tunnel and results out of a ring.        *)
(*                                                                         *)
(* A step is one section under g_dns_wait_mu or g_dns_mu, or one stretch   *)
(* of the loop between two of them.  Workers outlive flows, sessions and   *)
(* runs: only the generation counter tells them.  A query is told by its   *)
(* port and its id, which are drawn at random: two live queries are taken  *)
(* to differ in them, so an entry of the table is named by its worker.     *)
(***************************************************************************)
EXTENDS Naturals, Sequences, FiniteSets

CONSTANTS
    Workers,         \* threads that may be alive at once
    FlowSlots,       \* g_flows: MAX_FLOWS slots
    DNS_WAIT_MAX,    \* slots of the wait table
    DNS_DRAIN_MAX,   \* results taken per round
    DNS_LOCAL_MAX_INFLIGHT,
    QTypes,          \* nq: 2 with --socks-ipv6 (AAAA and A), else 1
    MaxGen, MaxId    \* bounds on the generations and on the flow ids of the
                     \* first run, one fewer in each later one

VARIABLES
    g_dns_gen, g_dns_q, g_dns_wait, g_dns_wait_n, g_dns_local_inflight,
    worker,     \* the threads
    g_flows, g_next_id,
    loop,       \* where the event loop is
    sockfd,     \* the session whose socket g_sockfd is; 0 when closed
    outer,      \* the session of g_ns's outer header; 0 when wiped
    evfd,       \* the eventfd is open
    tunnel,     \* the server named a resolver: g_dns_server_ip4 # 0
    run,        \* how often run_socks was entered (history)
    kept,       \* the last exchange of the socket was rolled back (history)
    early       \* a flow or a session ended before its workers (history)

vars == <<g_dns_gen, g_dns_q, g_dns_wait, g_dns_wait_n, g_dns_local_inflight,
          worker, g_flows, g_next_id, loop, sockfd, outer, evfd, tunnel,
          run, kept, early>>
session == <<sockfd, outer, evfd, tunnel, run, kept>>
flowTable == <<g_flows, g_next_id>>

ASSUME DnsConstants ==
    /\ {DNS_WAIT_MAX, DNS_DRAIN_MAX, QTypes, MaxGen, MaxId} \subseteq Nat \ {0}
    /\ DNS_LOCAL_MAX_INFLIGHT \in Nat
    /\ IsFiniteSet(FlowSlots) /\ FlowSlots # {}

\* Mutant: a ring of 2 * MAX_FLOWS entries, which holds one fewer.
RingMaxShort == 2 * Cardinality(FlowSlots) - 1

\* DNS_RESULT_Q_LEN - 1: two places for each flow slot, whatever nq is.
RingMax == 2 * Cardinality(FlowSlots)

None   == "none"
Slots  == 1..DNS_WAIT_MAX
NoFlow == [id |-> 0, run |-> 0, state |-> "free", pending |-> 0,
           lost |-> 0, stranded |-> FALSE]
Idle   == [pc |-> "idle", gen |-> 0, flow |-> 0, run |-> 0, slot |-> 0, hdr |-> 0]
AtTop  == [pc |-> "top", flow |-> 0, left |-> 0, slot |-> 0, who |-> None]
At(p)  == [AtTop EXCEPT !.pc = p]

Result == [gen : 1..MaxGen, flow : 1..MaxId, run : 1..MaxGen, ok : BOOLEAN]

TypeOK ==
    /\ g_dns_gen \in 1..MaxGen
    /\ g_dns_q \in Seq(Result) /\ Len(g_dns_q) <= RingMax
    /\ g_dns_wait \in [Slots -> Workers \cup {None}]
    /\ g_dns_wait_n \in 0..DNS_WAIT_MAX
    /\ worker \in [Workers ->
          [pc : {"idle", "start", "server", "local", "register", "insert", "snap", "send",
                 "wait", "retire", "push", "pushok", "done"},
           gen : 0..MaxGen, flow : 0..MaxId, run : 0..MaxGen,
           slot : Slots \cup {0}, hdr : 0..MaxGen]]
    /\ g_flows \in [FlowSlots ->
          [id : 0..MaxId, run : 0..MaxGen, pending : 0..QTypes, lost : 0..QTypes, stranded : BOOLEAN,
           state : {"free", "resolving", "connecting", "closing"}]]
    /\ g_next_id \in 1..MaxId + 1
    /\ sockfd \in 0..MaxGen /\ outer \in 0..MaxGen /\ run \in 1..MaxGen
    /\ tunnel \in BOOLEAN /\ kept \in BOOLEAN
    /\ early \in BOOLEAN

Init ==
    /\ g_dns_gen = 1 /\ g_dns_q = <<>>
    /\ g_dns_wait = [s \in Slots |-> None] /\ g_dns_wait_n = 0
    /\ g_dns_local_inflight = 0
    /\ worker = [w \in Workers |-> Idle]
    /\ g_flows = [f \in FlowSlots |-> NoFlow] /\ g_next_id = 1
    /\ loop = AtTop
    /\ sockfd = 1 /\ outer = 1 /\ evfd = TRUE /\ run = 1
    /\ kept = FALSE /\ early = FALSE
    /\ tunnel \in BOOLEAN

-----------------------------------------------------------------------------
(* The ring and the wait table.                                            *)

Full == Len(g_dns_q) = RingMax

CountsOn(fl, r) ==
    fl.state = "resolving" /\ fl.id = r.flow /\ r.gen = g_dns_gen

\* dns_push_g: a full ring drops its oldest entry.  What a flow loses by that
\* is recorded in it.
Push(r) ==
    /\ g_dns_q' = Append(IF Full THEN Tail(g_dns_q) ELSE g_dns_q, r)
    /\ g_flows' = [f \in FlowSlots |->
          IF Full /\ CountsOn(g_flows[f], Head(g_dns_q))
          THEN [g_flows[f] EXCEPT !.lost = @ + 1] ELSE g_flows[f]]
    /\ early' = (early \/ r.gen # g_dns_gen)

ResultOf(w, g, ok) ==
    [gen |-> g, flow |-> worker[w].flow, run |-> worker[w].run, ok |-> ok]

\* dns_stale.
Stale(w) == worker[w].gen # g_dns_gen

\* The entry at w's slot is still w's.
Waiting(w) == worker[w].slot # 0 /\ g_dns_wait[worker[w].slot] = w

\* Mutant: the counter is forgotten.
VacateUncounted(s) ==
    g_dns_wait' = [g_dns_wait EXCEPT ![s] = None] /\ UNCHANGED g_dns_wait_n

Vacate(s) ==
    /\ g_dns_wait' = [g_dns_wait EXCEPT ![s] = None]
    /\ g_dns_wait_n' = g_dns_wait_n - 1

\* dns_retire_slot_locked.
Retire(w) ==
    IF Waiting(w) THEN Vacate(worker[w].slot)
    ELSE UNCHANGED <<g_dns_wait, g_dns_wait_n>>

Goto(w, p) == worker' = [worker EXCEPT ![w].pc = p]

-----------------------------------------------------------------------------
(* dns_worker.                                                             *)

\* A worker of an ended session leaves.
Start(w) ==
    /\ worker[w].pc = "start"
    /\ Goto(w, IF Stale(w) THEN "done" ELSE "server")
    /\ UNCHANGED <<g_dns_gen, g_dns_q, early, g_dns_wait, g_dns_wait_n,
                   g_dns_local_inflight, flowTable, loop, session>>

\* g_dns_server_ip4 is read: without a resolver in the tunnel the worker asks
\* the system's, if fewer than the cap do already.
Server(w) ==
    /\ worker[w].pc = "server"
    /\ \/ tunnel /\ Goto(w, "register") /\ UNCHANGED g_dns_local_inflight
       \/ /\ ~tunnel
          /\ IF g_dns_local_inflight < DNS_LOCAL_MAX_INFLIGHT
             THEN Goto(w, "local") /\ g_dns_local_inflight' = g_dns_local_inflight + 1
             ELSE /\ Goto(w, IF Stale(w) THEN "done" ELSE "push")
                  /\ UNCHANGED g_dns_local_inflight
    /\ UNCHANGED <<g_dns_gen, g_dns_q, early, g_dns_wait, g_dns_wait_n, flowTable,
                   loop, session>>

\* dns_query_local returns, with an address or without.
LocalAnswer(w) ==
    /\ worker[w].pc = "local"
    /\ g_dns_local_inflight' = g_dns_local_inflight - 1
    /\ \/ Stale(w) /\ Goto(w, "done")
       \/ ~Stale(w) /\ (Goto(w, "push") \/ Goto(w, "pushok"))
    /\ UNCHANGED <<g_dns_gen, g_dns_q, early, g_dns_wait, g_dns_wait_n, flowTable, loop,
                   session>>

\* No socket, no query, no free port; or dns_register's test without the lock.
Register(w) ==
    /\ worker[w].pc = "register"
    /\ Goto(w, "retire") \/ (~Stale(w) /\ Goto(w, "insert"))
    /\ UNCHANGED <<g_dns_gen, g_dns_q, early, g_dns_wait, g_dns_wait_n,
                   g_dns_local_inflight, flowTable, loop, session>>

\* dns_register's scan.
Insert(w) ==
    /\ worker[w].pc = "insert"
    /\ IF \E s \in Slots : g_dns_wait[s] = None
       THEN LET s == CHOOSE s \in Slots :
                        /\ g_dns_wait[s] = None
                        /\ \A t \in Slots : t < s => g_dns_wait[t] # None
            IN /\ g_dns_wait' = [g_dns_wait EXCEPT ![s] = w]
               /\ g_dns_wait_n' = g_dns_wait_n + 1
               /\ worker' = [worker EXCEPT ![w].pc = "snap", ![w].slot = s]
       ELSE Goto(w, "retire") /\ UNCHANGED <<g_dns_wait, g_dns_wait_n>>
    /\ UNCHANGED <<g_dns_gen, g_dns_q, early, g_dns_local_inflight, flowTable, loop,
                   session>>

\* The outer header and the key are copied under the lock.
Snap(w) ==
    /\ worker[w].pc = "snap"
    /\ \/ ~Waiting(w) /\ Goto(w, "done") /\ UNCHANGED <<g_dns_wait, g_dns_wait_n>>
       \/ Waiting(w) /\ Stale(w) /\ Retire(w) /\ Goto(w, "done")
       \/ /\ Waiting(w) /\ ~Stale(w)
          /\ worker' = [worker EXCEPT ![w].pc = "send", ![w].hdr = outer]
          /\ UNCHANGED <<g_dns_wait, g_dns_wait_n>>
    /\ UNCHANGED <<g_dns_gen, g_dns_q, early, g_dns_local_inflight, flowTable, loop,
                   session>>

\* The send, under the lock and only in the worker's own session.
Send(w) ==
    /\ worker[w].pc = "send"
    /\ \/ Stale(w) /\ Retire(w) /\ Goto(w, "done")
       \/ ~Stale(w) /\ Goto(w, "wait") /\ UNCHANGED <<g_dns_wait, g_dns_wait_n>>
       \/ ~Stale(w) /\ Goto(w, "retire") /\ UNCHANGED <<g_dns_wait, g_dns_wait_n>>
    /\ UNCHANGED <<g_dns_gen, g_dns_q, early, g_dns_local_inflight, flowTable, loop,
                   session>>

\* Mutant: the deadline is not reported.
PollSilent(w) ==
    /\ worker[w].pc = "wait"
    /\ \/ Stale(w) /\ Retire(w)
       \/ ~Stale(w) /\ ~Waiting(w) /\ UNCHANGED <<g_dns_wait, g_dns_wait_n>>
       \/ ~Stale(w) /\ Waiting(w) /\ Vacate(worker[w].slot)
    /\ Goto(w, "done")
    /\ UNCHANGED <<g_dns_gen, g_dns_q, early, g_dns_local_inflight, flowTable, loop,
                   session>>

\* One poll of a waiting worker: the session is over, the entry was taken, the
\* deadline is reached, or (no change) the query is sent again.
Poll(w) ==
    /\ worker[w].pc = "wait"
    /\ \/ Stale(w) /\ Retire(w) /\ Goto(w, "done")
       \/ /\ ~Stale(w) /\ ~Waiting(w)
          /\ Goto(w, "done") /\ UNCHANGED <<g_dns_wait, g_dns_wait_n>>
       \/ ~Stale(w) /\ Waiting(w) /\ Vacate(worker[w].slot) /\ Goto(w, "push")
    /\ UNCHANGED <<g_dns_gen, g_dns_q, early, g_dns_local_inflight, flowTable, loop,
                   session>>

\* fail: give the slot back ...
FailRetire(w) ==
    /\ worker[w].pc = "retire"
    /\ Retire(w) /\ Goto(w, "push")
    /\ UNCHANGED <<g_dns_gen, g_dns_q, early, g_dns_local_inflight, flowTable, loop,
                   session>>

\* ... and report the failure, or the address the system found.
PushResult(w) ==
    /\ worker[w].pc \in {"push", "pushok"}
    /\ Push(ResultOf(w, worker[w].gen, worker[w].pc = "pushok"))
    /\ Goto(w, "done")
    /\ UNCHANGED <<g_dns_gen, g_dns_wait, g_dns_wait_n, g_dns_local_inflight,
                   g_next_id, loop, session>>

\* done: wake the loop, in the worker's own session only.
Done(w) ==
    /\ worker[w].pc = "done"
    /\ worker' = [worker EXCEPT ![w] = Idle]
    /\ UNCHANGED <<g_dns_gen, g_dns_q, early, g_dns_wait, g_dns_wait_n,
                   g_dns_local_inflight, flowTable, loop, session>>

WorkerStep(w) ==
    \/ Start(w) \/ Server(w) \/ Register(w) \/ Insert(w) \/ Snap(w) \/ Send(w)
    \/ Poll(w) \/ FailRetire(w) \/ PushResult(w) \/ Done(w)

\* Every place of a worker but these two has a step: ENABLED WorkerStep(w).
CanStep(w) == worker[w].pc \notin {"idle", "local"}

-----------------------------------------------------------------------------
(* The event loop.  A round takes in packets, then the clients' requests   *)
(* ("inputs"), then the results; sessions change at its top.               *)

\* nq of spawn_dns: one lookup where the system's resolver is asked.
Nq == IF tunnel THEN QTypes ELSE 1

\* A client asks for a name: the flow resolves and spawn_dns sets how many
\* results it waits for.
Request(f) ==
    /\ loop.pc \in {"top", "inputs"}
    /\ g_flows[f].state = "free" /\ g_next_id + run <= MaxId + 1
    /\ g_flows' = [g_flows EXCEPT ![f] =
          [NoFlow EXCEPT !.id = g_next_id, !.run = run, !.state = "resolving",
                         !.pending = Nq]]
    /\ g_next_id' = g_next_id + 1
    /\ loop' = [At("spawn") EXCEPT !.flow = g_next_id, !.left = Nq]
    /\ UNCHANGED <<g_dns_gen, g_dns_q, early, g_dns_wait, g_dns_wait_n,
                   g_dns_local_inflight, worker, session>>

\* One round of spawn_dns: a thread, or a failure when memory, threads or the
\* wait table have run out.
Spawn ==
    /\ loop.pc = "spawn"
    /\ loop' = IF loop.left = 1 THEN At("inputs") ELSE [loop EXCEPT !.left = @ - 1]
    /\ \/ /\ g_dns_wait_n <= DNS_WAIT_MAX - Nq
          /\ \E w \in Workers :
                /\ worker[w].pc = "idle"
                /\ worker' = [worker EXCEPT ![w] =
                      [Idle EXCEPT !.pc = "start", !.gen = g_dns_gen,
                                   !.flow = loop.flow, !.run = run]]
          /\ UNCHANGED <<g_dns_q, g_flows, early>>
       \/ /\ Push([gen |-> g_dns_gen, flow |-> loop.flow, run |-> run, ok |-> FALSE])
          /\ UNCHANGED worker
    /\ UNCHANGED <<g_dns_gen, g_dns_wait, g_dns_wait_n, g_dns_local_inflight,
                   g_next_id, session>>

\* dns_try_handle_response: an answer to a query that was sent finds its entry.
FindWait ==
    /\ loop = AtTop
    /\ \E s \in Slots :
          /\ g_dns_wait[s] # None /\ worker[g_dns_wait[s]].pc = "wait"
          /\ loop' = [At("consume") EXCEPT !.slot = s, !.who = g_dns_wait[s],
                                           !.flow = worker[g_dns_wait[s]].flow]
    /\ UNCHANGED <<g_dns_gen, g_dns_q, early, g_dns_wait, g_dns_wait_n,
                   g_dns_local_inflight, worker, flowTable, session>>

\* dns_consume_answer looks again under the lock, then pushes.
Consume ==
    /\ loop.pc = "consume"
    /\ loop' = AtTop
    /\ IF g_dns_wait[loop.slot] = loop.who
       THEN /\ Vacate(loop.slot)
            /\ Push(ResultOf(loop.who, g_dns_gen, TRUE))
       ELSE UNCHANGED <<g_dns_wait, g_dns_wait_n, g_dns_q, g_flows, early>>
    /\ UNCHANGED <<g_dns_gen, g_dns_local_inflight, worker, g_next_id, session>>

\* What handle_dns_results makes of one result.
ApplyTo(fl, r) ==
    IF fl.state # "resolving" \/ fl.id # r.flow THEN fl
    ELSE IF r.ok THEN [fl EXCEPT !.state = "connecting", !.pending = 0]
    ELSE IF fl.pending > 1 THEN [fl EXCEPT !.pending = @ - 1]
    ELSE [fl EXCEPT !.state = "closing", !.pending = 0]

\* Mutant: the generation of a result is not looked at.
CurrentAny(r) == TRUE

\* dns_drain takes at most DNS_DRAIN_MAX results of this generation and drops
\* those of others on its way.
Current(r) == r.gen = g_dns_gen

Drained(q) ==
    LET cur == SelectSeq(q, Current) IN
    SubSeq(cur, 1, IF Len(cur) < DNS_DRAIN_MAX THEN Len(cur) ELSE DNS_DRAIN_MAX)

LeftInRing(q) ==
    LET full == {k \in 0..Len(q) :
                    Len(SelectSeq(SubSeq(q, 1, k), Current)) = DNS_DRAIN_MAX}
    IN IF full = {} THEN <<>>
       ELSE SubSeq(q, (CHOOSE k \in full : \A m \in full : k <= m) + 1, Len(q))

\* The flow after the results of d, one by one.
ApplyAll(fl, d) ==
    LET after[k \in 0..Len(d)] == IF k = 0 THEN fl ELSE ApplyTo(after[k-1], d[k])
    IN after[Len(d)]

HandleResults ==
    /\ loop.pc \in {"top", "inputs"} /\ loop' = AtTop
    /\ UNCHANGED <<worker, g_dns_gen, g_dns_wait, g_dns_wait_n,
                   g_dns_local_inflight, g_next_id, session, early>>
    /\ g_dns_q' = LeftInRing(g_dns_q)
    /\ g_flows' = [f \in FlowSlots |-> ApplyAll(g_flows[f], Drained(g_dns_q))]

\* The results that flow fl can still get.
Owed(fl) ==
    Cardinality({w \in Workers :
        /\ worker[w].flow = fl.id /\ worker[w].run = fl.run /\ ~Stale(w)
        /\ \/ worker[w].pc \in {"start", "server", "local", "register", "insert",
                                "snap", "send", "retire", "push", "pushok"}
           \/ worker[w].pc = "wait" /\ Waiting(w)})
    + Cardinality({k \in 1..Len(g_dns_q) :
        Current(g_dns_q[k]) /\ g_dns_q[k].flow = fl.id})
    + (IF loop.pc = "spawn" /\ loop.flow = fl.id THEN loop.left ELSE 0)

\* The flow ends: its connection is over, its client hangs up, or the
\* handshake's time is up.
FlowFreed(f) ==
    /\ loop = AtTop /\ g_flows[f].state # "free"
    /\ g_flows' = [g_flows EXCEPT ![f] = NoFlow]
    /\ early' = (early \/ Owed(g_flows[f]) > 0)
    /\ UNCHANGED <<g_dns_gen, g_dns_q, g_dns_wait, g_dns_wait_n,
                   g_dns_local_inflight, worker, g_next_id, loop, session>>

-----------------------------------------------------------------------------
(* Sessions: re-authentication in place, and run_socks entered again.      *)

\* dns_stop: the workers of this generation are told to go.
DnsStop(here, next) ==
    /\ loop = here /\ loop' = At(next)
    /\ g_dns_gen' = g_dns_gen + 1
    /\ UNCHANGED <<g_dns_q, early, g_dns_wait, g_dns_wait_n, g_dns_local_inflight,
                   worker, flowTable, session>>

\* dns_reset empties the ring (its history begins anew) ...
ResetRing(here, next) ==
    /\ loop.pc = here /\ loop' = At(next)
    /\ g_dns_q' = <<>> /\ early' = FALSE
    /\ g_flows' = [f \in FlowSlots |-> [g_flows[f] EXCEPT !.lost = 0]]
    /\ UNCHANGED <<g_dns_gen, g_dns_wait, g_dns_wait_n, g_dns_local_inflight,
                   worker, g_next_id, session>>

\* ... and then the table, under its lock, with another generation.
ResetTable(here, next) ==
    /\ loop.pc = here /\ loop' = At(next)
    /\ g_dns_wait' = [s \in Slots |-> None] /\ g_dns_wait_n' = 0
    /\ g_dns_gen' = g_dns_gen + 1
    /\ UNCHANGED <<g_dns_q, early, g_dns_local_inflight, worker, flowTable, session>>

\* socks_reauth_tunnel: the new session is open; its socket comes last.
ReauthStop == g_dns_gen + 2 <= MaxGen /\ DnsStop(AtTop, "ra_server")

\* dns_set_server, under the lock: the new session may have another resolver.
ReauthServer ==
    /\ loop.pc = "ra_server" /\ loop' = At("ra_ring")
    /\ tunnel' \in BOOLEAN
    /\ UNCHANGED <<g_dns_gen, g_dns_q, early, g_dns_wait, g_dns_wait_n,
                   g_dns_local_inflight, worker, flowTable, sockfd, outer, evfd, run,
                   kept>>

ReauthRing == ResetRing("ra_ring", "ra_table")
ReauthTable == ResetTable("ra_table", "ra_outer")

\* Mutant: the names are left to hang.
ReauthOuterHangs ==
    /\ loop.pc = "ra_outer" /\ loop' = At("ra_swap")
    /\ outer' = g_dns_gen
    /\ UNCHANGED <<g_dns_gen, g_dns_q, early, g_dns_wait, g_dns_wait_n,
                   g_dns_local_inflight, worker, flowTable, sockfd, evfd, tunnel,
                   run, kept>>

\* The same address, or a stack rebuilt for the new one: names that are being
\* resolved fail, and ns_set_outer installs the header, under the lock.
ReauthOuter ==
    /\ loop.pc = "ra_outer" /\ loop' = At("ra_swap")
    /\ g_flows' = [f \in FlowSlots |->
          IF g_flows[f].state = "resolving"
          THEN [g_flows[f] EXCEPT !.state = "closing", !.pending = 0]
          ELSE g_flows[f]]
    /\ outer' = g_dns_gen
    /\ UNCHANGED <<g_dns_gen, g_dns_q, early, g_dns_wait, g_dns_wait_n,
                   g_dns_local_inflight, worker, g_next_id, sockfd, evfd, tunnel,
                   run, kept>>

\* The stack cannot be rebuilt: ns_init has wiped it with its header, the new
\* socket is closed and the old one stays, and the flows whose workers were told
\* to go are left as they are.
ReauthFails ==
    /\ loop.pc = "ra_outer" /\ loop' = AtTop
    /\ g_flows' = [f \in FlowSlots |->
          [g_flows[f] EXCEPT !.stranded = @ \/ g_flows[f].state = "resolving"]]
    /\ outer' = 0
    /\ UNCHANGED <<g_dns_gen, g_dns_q, early, g_dns_wait, g_dns_wait_n,
                   g_dns_local_inflight, worker, g_next_id, sockfd, evfd, tunnel,
                   run, kept>>

\* socks_reauth_swap closes the old socket and installs the new one, or closes
\* the new one and keeps the old when it cannot be made non-blocking.
ReauthSwap ==
    /\ loop.pc = "ra_swap" /\ loop' = AtTop
    /\ \/ sockfd' = outer /\ kept' = FALSE
       \/ sockfd' = sockfd /\ kept' = TRUE
    /\ UNCHANGED <<g_dns_gen, g_dns_q, early, g_dns_wait, g_dns_wait_n,
                   g_dns_local_inflight, worker, flowTable, outer, evfd, tunnel, run>>

\* Mutant: the workers are not told.
EndUntold ==
    /\ g_dns_gen + 2 <= MaxGen
    /\ loop = AtTop /\ loop' = At("end_close")
    /\ UNCHANGED <<g_dns_gen, g_dns_q, early, g_dns_wait, g_dns_wait_n,
                   g_dns_local_inflight, worker, flowTable, session>>

\* run_socks returns: dns_stop, then the socket, the eventfd and the flows.
EndStop == g_dns_gen + 2 <= MaxGen /\ DnsStop(AtTop, "end_close")

EndClose ==
    /\ loop.pc = "end_close" /\ loop' = At("start_outer")
    /\ sockfd' = 0 /\ evfd' = FALSE
    /\ g_flows' = [f \in FlowSlots |-> NoFlow]
    /\ UNCHANGED <<g_dns_gen, g_dns_q, early, g_dns_wait, g_dns_wait_n,
                   g_dns_local_inflight, worker, g_next_id, outer, tunnel, run,
                   kept>>

\* ... and is entered again: the socket, the resolver and the header first, flow ids from 1,
\* then dns_reset, then the eventfd.
StartOuter ==
    /\ loop.pc = "start_outer" /\ loop' = At("start_ring")
    /\ sockfd' = g_dns_gen + 1 /\ outer' = g_dns_gen + 1
    /\ tunnel' \in BOOLEAN
    /\ g_next_id' = 1 /\ run' = run + 1 /\ kept' = FALSE
    /\ UNCHANGED <<g_dns_gen, g_dns_q, early, g_dns_wait, g_dns_wait_n,
                   g_dns_local_inflight, worker, g_flows, evfd>>

StartRing == ResetRing("start_ring", "start_table")
StartTable == ResetTable("start_table", "start_evfd")

StartEvfd ==
    /\ loop.pc = "start_evfd" /\ loop' = AtTop
    /\ evfd' = TRUE
    /\ UNCHANGED <<g_dns_gen, g_dns_q, early, g_dns_wait, g_dns_wait_n,
                   g_dns_local_inflight, worker, flowTable, sockfd, outer, tunnel, run,
                   kept>>

LoopBusy ==
    \/ Spawn \/ Consume \/ HandleResults
    \/ ReauthServer \/ ReauthRing \/ ReauthTable \/ ReauthOuter \/ ReauthFails
    \/ ReauthSwap
    \/ EndClose \/ StartOuter \/ StartRing \/ StartTable \/ StartEvfd

Next ==
    \/ \E w \in Workers : WorkerStep(w) \/ LocalAnswer(w)
    \/ \E f \in FlowSlots : Request(f) \/ FlowFreed(f)
    \/ FindWait \/ ReauthStop \/ EndStop \/ LoopBusy

Spec == Init /\ [][Next]_vars

\* Threads are scheduled and the loop goes round; getaddrinfo may block for
\* good, clients and servers need not do anything.
Fairness ==
    /\ \A w \in Workers : WF_vars(WorkerStep(w))
    /\ WF_vars(LoopBusy)

FairSpec == Spec /\ Fairness

-----------------------------------------------------------------------------
(* Properties.                                                             *)

\* The counter that dns_try_handle_response and spawn_dns read without the
\* lock is the number of entries in use, whoever retires them: the answer,
\* the deadline, a failed send or dns_reset.
WaitCount == g_dns_wait_n = Cardinality({s \in Slots : g_dns_wait[s] # None})

\* The slots of the local resolver are given back on every path.
LocalCount ==
    /\ g_dns_local_inflight = Cardinality({w \in Workers : worker[w].pc = "local"})
    /\ g_dns_local_inflight <= DNS_LOCAL_MAX_INFLIGHT

\* Both counters are exact, with the types.
CountsExact == TypeOK /\ WaitCount /\ LocalCount

\* socks.c:1889-1892: no worker sends on, or wakes, a descriptor that is not
\* its session's: wherever a worker's test of the generation succeeds, the
\* socket and the eventfd are open, the header it copied is still the stack's,
\* and the socket is the one that came with that header.  There are two
\* exceptions, both on the old session's socket, which is kept open: after
\* socks_reauth_swap's rollback (socks.c:1515-1519) the new session's header goes
\* out on it, and after a rebuild that failed the header ns_init left blank.
OwnDescriptors ==
    \A w \in Workers : ~Stale(w) =>
        /\ worker[w].pc \in {"send", "wait"} =>
              /\ sockfd # 0 /\ worker[w].hdr = outer
              /\ sockfd = outer \/ kept \/ outer = 0
        /\ worker[w].pc = "done" => evfd

\* A result never reaches a flow of another run, although run_socks numbers
\* its flows from 1 each time (socks_internal.h:27-31).
ResultsOwn ==
    \A k \in 1..Len(g_dns_q), f \in FlowSlots :
        LET r  == g_dns_q[k]
            fl == g_flows[f] IN
        Current(r) /\ fl.state = "resolving" /\ r.flow = fl.id => r.run = fl.run

\* A flow that waits for names is owed exactly the results it counts on, less
\* those a full ring dropped (socks_dns.c:39-40): no path of a worker ends
\* without a result and none reports twice, or the flow would hang until its
\* handshake timeout or fail before its second answer.  Flows that a failed
\* rebuild of the stack left without workers are owed nothing.
PendingIsOwed ==
    \A f \in FlowSlots :
        (/\ g_flows[f].state = "resolving"
         /\ loop.pc \in {"top", "spawn", "inputs", "consume"})
            => IF g_flows[f].stranded THEN Owed(g_flows[f]) = 0
               ELSE g_flows[f].pending = Owed(g_flows[f]) + g_flows[f].lost

\* socks_internal.h:40-52: every push of a worker in flight has a place of the
\* ring, so that nothing is dropped.  It holds as long as no flow and no session
\* ends before its workers do: the next flow in the slot brings two more, and a
\* worker past its last test of the generation pushes into the emptied ring.
RingSuffices == (\E f \in FlowSlots : g_flows[f].lost > 0) => early

\* The two ways a lookup through the tunnel is left to the 30 s timeout of the
\* handshake: its workers were told to go by a re-authentication that failed
\* (socks.c:1451-1469), or the ring dropped a result of it.
LeftToTimeout(f) == g_flows[f].stranded \/ g_flows[f].lost > 0

\* The flow waits for no lookup that goes through the tunnel.
Answered(f) == tunnel /\ g_flows[f].state = "resolving" => LeftToTimeout(f)
=============================================================================
