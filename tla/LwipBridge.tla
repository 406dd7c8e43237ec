----------------------------- MODULE LwipBridge -----------------------------
(***************************************************************************)
(* The connection slots of the SOCKS client's user-space TCP stack         *)
(* (common/lwip_bridge.c) and the flows that hold them                     *)
(* (common/socks_flow.c).  A slot points at an lwIP pcb; lwIP frees some   *)
(* pcbs with an error callback and a TIME_WAIT pcb silently, and hands a   *)
(* freed pcb to the next connection.  One event loop runs the phases of a  *)
(* round in order: lwIP input, local inputs, local outputs, ns_tick,       *)
(* update_tcp_states, reap_flows, wait.  A phase that loops over the flow  *)
(* table is walked with the cursor at.  Bytes are reduced to "the slot     *)
(* holds undelivered downlink data"; a clock test that decides a timeout   *)
(* reads late, chosen anew in every round.                                 *)
(***************************************************************************)
EXTENDS Integers, FiniteSetsExt

CONSTANTS NS_MAX_CONN,       \* connection slots
          MEMP_NUM_TCP_PCB,  \* lwIP pcb pool
          MAX_FLOWS,         \* entries of the flow table
          MaxRebuilds        \* re-authentications that change the inner address

VARIABLES conns,     \* slot -> state, pcb, reap_pending, rxq, and the flow it was opened for
          pcbs,      \* lwIP: pcb -> its TCP state and callback argument
          flow_ref,  \* g_flow_ref
          flows,     \* flow -> state and ns_idx
          phase, at, late, rebuilds

nsVars == <<conns, pcbs, flow_ref, flows, phase, at, late, rebuilds>>
nsStack == <<conns, pcbs, flow_ref>>

NsSlots == 1..NS_MAX_CONN
NsPcbs == 1..MEMP_NUM_TCP_PCB
NsFlows == 1..MAX_FLOWS
NoPcb == 0
Detached == 0

NsEmpty == [state |-> "CLOSED", pcb |-> NoPcb, reap |-> FALSE, rxq |-> FALSE, own |-> Detached]
PcbFree == [st |-> "free", arg |-> 0]
NsIdle == [st |-> "free", idx |-> Detached]

\* The stack as one value, so that the calls of a handler compose.
NsNow == [conns |-> conns, pcbs |-> pcbs, ref |-> flow_ref]
NsBecomes(n) == conns' = n.conns /\ pcbs' = n.pcbs /\ flow_ref' = n.ref

NsInit ==
  /\ conns = [i \in NsSlots |-> NsEmpty]
  /\ pcbs = [p \in NsPcbs |-> PcbFree]
  /\ flow_ref = [i \in NsSlots |-> FALSE]
  /\ flows = [f \in NsFlows |-> NsIdle]
  /\ phase = "recv" /\ at = 1 /\ late = FALSE /\ rebuilds = 0

-----------------------------------------------------------------------------
(* lwIP and the bridge callbacks *)

\* bridge_err, with the pcb lwIP freed just before it.
BridgeErr(n, p) ==
  LET i == n.pcbs[p].arg IN
  [n EXCEPT !.pcbs[p] = PcbFree,
            !.conns[i] = IF @.pcb = NoPcb THEN @
                         ELSE [@ EXCEPT !.state = "CLOSED", !.pcb = NoPcb,
                                        !.reap = TRUE, !.rxq = FALSE]]

\* conn_pcb_alive: the pcb is on one of lwIP's lists and still has this slot as its argument.
PcbAlive(n, i) ==
  LET pcb == n.pcbs[n.conns[i].pcb] IN pcb.st # "free" /\ pcb.arg = i

\* A sweep that only looks at the lists misses a pcb that was handed to another slot.
SweepListed(n) ==
  [n EXCEPT !.conns = [i \in NsSlots |->
     IF @[i].pcb # NoPcb /\ n.pcbs[@[i].pcb].st = "free"
     THEN [@[i] EXCEPT !.state = "CLOSED", !.pcb = NoPcb, !.reap = TRUE, !.rxq = FALSE]
     ELSE @[i]]]

\* conn_sweep_stale
Sweep(n) ==
  [n EXCEPT !.conns = [i \in NsSlots |->
     IF @[i].pcb # NoPcb /\ ~PcbAlive(n, i)
     THEN [@[i] EXCEPT !.state = "CLOSED", !.pcb = NoPcb, !.reap = TRUE, !.rxq = FALSE]
     ELSE @[i]]]

\* ns_abort: tcp_abort fires bridge_err, except on a TIME_WAIT pcb.
Abort(n, i) ==
  LET p == n.conns[i].pcb IN
  CASE p = NoPcb -> n
    [] p # NoPcb /\ n.pcbs[p].st = "TIME_WAIT" ->
         [n EXCEPT !.pcbs[p] = PcbFree,
                   !.conns[i].state = "CLOSED", !.conns[i].pcb = NoPcb,
                   !.conns[i].reap = TRUE, !.conns[i].rxq = FALSE]
    [] OTHER -> BridgeErr(n, p)

\* ns_close: a half close that keeps the receive side.
Close(n, i) ==
  LET c == n.conns[i] IN
  CASE c.pcb = NoPcb \/ c.state = "CLOSED" -> n
    [] c.pcb # NoPcb /\ c.state = "SYN_SENT" -> BridgeErr(n, c.pcb)
    [] c.pcb # NoPcb /\ c.state = "ESTABLISHED" ->
         [n EXCEPT !.conns[i].state = "FIN_WAIT", !.pcbs[c.pcb].st = "FIN_WAIT"]
    [] c.pcb # NoPcb /\ c.state = "CLOSE_WAIT" ->
         [n EXCEPT !.conns[i].state = "CLOSED", !.pcbs[c.pcb].st = "LAST_ACK"]
    [] OTHER -> n

\* What a segment from the peer, or its silence, makes lwIP do to pcb p: the TCP
\* state it moves to and the state bridge_connected or bridge_recv gives the slot.
PeerMoves == {
  [from |-> "SYN_SENT", pcb |-> "ESTABLISHED", slot |-> "ESTABLISHED"],
  [from |-> "ESTABLISHED", pcb |-> "CLOSE_WAIT", slot |-> "CLOSE_WAIT"],
  [from |-> "FIN_WAIT", pcb |-> "TIME_WAIT", slot |-> "CLOSED"],
  [from |-> "FIN_WAIT", pcb |-> "CLOSING", slot |-> "CLOSED"],
  [from |-> "CLOSING", pcb |-> "TIME_WAIT", slot |-> "CLOSED"]}

NsActive(p) == pcbs[p].st \notin {"free", "TIME_WAIT"}

\* receive_vpn hands a datagram to lwIP, whose callbacks reach the bridge.
NsReceive(p) ==
  LET i == pcbs[p].arg IN
  /\ phase = "recv" /\ NsActive(p)
  /\ \/ \E mv \in PeerMoves :
          /\ pcbs[p].st = mv.from
          /\ pcbs' = [pcbs EXCEPT ![p].st = mv.pcb]
          /\ conns' = IF conns[i].pcb = p THEN [conns EXCEPT ![i].state = mv.slot] ELSE conns
          /\ UNCHANGED flow_ref
     \/ /\ pcbs[p].st \in {"ESTABLISHED", "FIN_WAIT"} /\ conns[i].pcb = p
        /\ conns' = [conns EXCEPT ![i].rxq = TRUE]
        /\ UNCHANGED <<pcbs, flow_ref>>
     \/ NsBecomes(BridgeErr(NsNow, p))
  /\ UNCHANGED <<flows, phase, at, late, rebuilds>>

-----------------------------------------------------------------------------
(* Opening a connection *)

\* conn_slot_alloc takes the lowest slot with no pcb, no pending reap and no flow.
SlotFree(n, i) == n.conns[i].pcb = NoPcb /\ ~n.conns[i].reap /\ ~n.ref[i]
LowestFree(n) == {i \in NsSlots : SlotFree(n, i) /\ \A j \in 1..(i - 1) : ~SlotFree(n, j)}

\* tcp_alloc: a free element, else the element of some TIME_WAIT pcb.
PcbChoices(n) ==
  LET free == {p \in NsPcbs : n.pcbs[p].st = "free"} IN
  IF free # {} THEN free ELSE {p \in NsPcbs : n.pcbs[p].st = "TIME_WAIT"}

\* tcp_bind fails on a port that alloc_port took for free: one held by a pcb that
\* is neither in TIME_WAIT nor in LAST_ACK and whose flow is gone.
PortHidden(n) ==
  \E p \in NsPcbs : /\ n.pcbs[p].st \notin {"free", "TIME_WAIT", "LAST_ACK"}
                    /\ ~n.ref[n.pcbs[p].arg]

\* conn_connect_af: the stacks it may leave and the slot it returns (0: none).
Connects(n, f) ==
  {[n |-> n, idx |-> Detached] : x \in IF LowestFree(n) = {} THEN {1} ELSE {}}
  \cup
  UNION {UNION {
      {[idx |-> i, n |-> Sweep([n EXCEPT
           !.pcbs[p] = [st |-> "SYN_SENT", arg |-> i],
           !.conns[i] = [NsEmpty EXCEPT !.state = "SYN_SENT", !.pcb = p, !.own = f]])]}
      \cup
      {[idx |-> Detached, n |-> Sweep([n EXCEPT !.pcbs[p] = PcbFree, !.conns[i] = NsEmpty])]
         : x \in IF PortHidden(n) THEN {1} ELSE {}}
    : p \in PcbChoices(n)} : i \in LowestFree(n)}

\* A flow evict_stalest_idle_flow may retire for flow f: established, drained and idle.
Victims(n, fs, f) ==
  {g \in NsFlows \ {f} : /\ fs[g].st = "ESTABLISHED" /\ fs[g].idx # Detached
                         /\ ~n.conns[fs[g].idx].rxq}

\* The retired flow keeps its reference to the slot that is handed on.
EvictKeepsRef(n, fs, g) ==
  [n |-> [Abort(n, fs[g].idx) EXCEPT !.conns[fs[g].idx].reap = FALSE],
   fs |-> [fs EXCEPT ![g] = [st |-> "CLOSING", idx |-> Detached]]]

\* evict_stalest_idle_flow
Evict(n, fs, g) ==
  [n |-> [Abort(n, fs[g].idx) EXCEPT !.ref[fs[g].idx] = FALSE,
                                     !.conns[fs[g].idx].reap = FALSE],
   fs |-> [fs EXCEPT ![g] = [st |-> "CLOSING", idx |-> Detached]]]

\* open_tcp_conn_af: connect, and after a failure evict once and connect again.
Opened(r, fs, f) ==
  IF r.idx = Detached
  THEN [n |-> r.n, fs |-> [fs EXCEPT ![f] = [st |-> "CLOSING", idx |-> Detached]]]
  ELSE [n |-> [r.n EXCEPT !.ref[r.idx] = TRUE],
        fs |-> [fs EXCEPT ![f] = [st |-> "CONNECTING", idx |-> r.idx]]]

Opens(n, fs, f) ==
  UNION {IF r.idx # Detached \/ Victims(r.n, fs, f) = {}
         THEN {Opened(r, fs, f)}
         ELSE UNION {LET e == Evict(r.n, fs, g)
                     IN {Opened(q, e.fs, f) : q \in Connects(e.n, f)}
                     : g \in Victims(r.n, fs, f)}
         : r \in Connects(n, f)}

-----------------------------------------------------------------------------
(* The phases of a round *)

Walk(next) == IF at < MAX_FLOWS THEN at' = at + 1 /\ UNCHANGED phase
              ELSE at' = 1 /\ phase' = next

\* A flow lets go of its slot.
Dead(n, fs, f) == fs[f].idx # Detached /\ n.conns[fs[f].idx].pcb = NoPcb
Unref(n, S) == [n EXCEPT !.ref = [i \in NsSlots |-> @[i] /\ i \notin S]]

\* service_local_inputs first detaches every flow whose connection died.
InputsDetach ==
  LET gone == {f \in NsFlows : flows[f].st # "CONNECTING" /\ Dead(NsNow, flows, f)} IN
  /\ phase = "recv" /\ phase' = "inputs" /\ at' = 1
  /\ NsBecomes(Unref(NsNow, {flows[f].idx : f \in gone}))
  /\ flows' = [f \in NsFlows |-> IF f \in gone THEN [st |-> "CLOSING", idx |-> Detached]
                                 ELSE flows[f]]
  /\ UNCHANGED <<late, rebuilds>>

\* One flow's turn in service_local_inputs or handle_dns_results: nothing to do, a
\* client whose request opens a connection, a client that ends, or a read error.
Inputs ==
  LET f == at  fl == flows[at] IN
  /\ phase = "inputs" /\ Walk("outputs")
  /\ \/ UNCHANGED <<nsStack, flows>>
     \/ /\ fl.st = "free"
        /\ \E o \in Opens(NsNow, flows, f) : NsBecomes(o.n) /\ flows' = o.fs
     \/ /\ fl.st = "CONNECTING"
        /\ flows' = [flows EXCEPT ![f].st = "CLOSING"]
        /\ \/ UNCHANGED nsStack
           \/ NsBecomes(Abort(NsNow, fl.idx))
     \/ /\ fl.st = "ESTABLISHED" /\ fl.idx # Detached
        /\ flows' = [flows EXCEPT ![f].st = "CLOSING"]
        /\ NsBecomes(Close(NsNow, fl.idx))
  /\ UNCHANGED <<late, rebuilds>>

\* One flow's turn in service_local_outputs.
Outputs ==
  LET f == at  fl == flows[at]  c == conns[flows[at].idx] IN
  /\ phase = "outputs" /\ Walk("tick")
  /\ \/ UNCHANGED <<nsStack, flows>>
     \/ /\ fl.idx # Detached /\ c.rxq
        /\ conns' = [conns EXCEPT ![fl.idx].rxq = FALSE]
        /\ UNCHANGED <<pcbs, flow_ref, flows>>
     \/ /\ fl.idx # Detached
        /\ flows' = [flows EXCEPT ![f].st = "CLOSING"]
        /\ NsBecomes(Abort(NsNow, fl.idx))
     \/ /\ fl.idx # Detached /\ c.state = "CLOSE_WAIT" /\ ~c.rxq /\ late
        /\ fl.st \in {"ESTABLISHED", "CLOSING"}
        /\ flows' = [flows EXCEPT ![f].st = "CLOSING"]
        /\ NsBecomes(Close(NsNow, fl.idx))
  /\ UNCHANGED <<late, rebuilds>>

\* conn_reap_if_dead for any closed pcb: a LAST_ACK pcb would still call back.
ReapAnyClosed(n, i) ==
  /\ n.conns[i].state = "CLOSED" /\ ~n.conns[i].rxq /\ ~n.ref[i]

\* conn_reap_if_dead
ReapIfDead(n, i) ==
  /\ n.conns[i].state = "CLOSED" /\ ~n.conns[i].rxq /\ ~n.ref[i]
  /\ n.pcbs[n.conns[i].pcb].st = "TIME_WAIT"

\* ns_tick without the bound on a close whose last acknowledgement never comes.
TickSlotWaitsForAck(n, i) ==
  LET c == n.conns[i] IN
  IF c.pcb = NoPcb THEN [n EXCEPT !.conns[i].reap = FALSE]
  ELSE CASE late /\ c.state \in {"SYN_SENT", "FIN_WAIT"} -> Abort(n, i)
         [] late /\ ReapIfDead(n, i) -> [n EXCEPT !.conns[i].pcb = NoPcb]
         [] OTHER -> n

\* ns_tick on one slot.
TickSlot(n, i) ==
  LET c == n.conns[i] IN
  IF c.pcb = NoPcb THEN [n EXCEPT !.conns[i].reap = FALSE]
  ELSE CASE late /\ (\/ c.state \in {"SYN_SENT", "FIN_WAIT"}
                     \/ c.state = "CLOSED" /\ n.pcbs[c.pcb].st = "LAST_ACK") -> Abort(n, i)
         [] late /\ ReapIfDead(n, i) -> [n EXCEPT !.conns[i].pcb = NoPcb]
         [] OTHER -> n

\* lwIP's timers: a pcb whose peer stays silent ends with the error callback, a
\* TIME_WAIT pcb without one.
Expire(n, p) ==
  IF n.pcbs[p].st = "TIME_WAIT" THEN [n EXCEPT !.pcbs[p] = PcbFree] ELSE BridgeErr(n, p)

TickSlots(n) == FoldSet(LAMBDA i, s : TickSlot(s, i), n, NsSlots)
NsExpired(n, S) == FoldSet(LAMBDA p, s : Expire(s, p), n, S)

\* ns_tick
NsTick(S) ==
  LET n == TickSlots(Sweep(NsNow)) IN
  /\ phase = "tick" /\ phase' = "update" /\ at' = 1
  /\ S \subseteq {p \in NsPcbs : late /\ n.pcbs[p].st # "free"}
  /\ NsBecomes(Sweep(NsExpired(n, S)))
  /\ UNCHANGED <<flows, late, rebuilds>>

\* One flow's turn in update_tcp_states.
Update ==
  LET f == at  fl == flows[at]  c == conns[flows[at].idx] IN
  /\ phase = "update" /\ Walk("reap")
  /\ IF fl.st # "CONNECTING" THEN UNCHANGED <<nsStack, flows>>
     ELSE \/ /\ c.state \in {"ESTABLISHED", "CLOSE_WAIT"}
             /\ flows' = [flows EXCEPT ![f].st = "ESTABLISHED"]
             /\ UNCHANGED nsStack
          \/ /\ c.state = "CLOSED"
             /\ NsBecomes(Unref(NsNow, {fl.idx}))
             /\ flows' = [flows EXCEPT ![f] = [st |-> "CLOSING", idx |-> Detached]]
          \/ /\ c.state \in {"SYN_SENT", "FIN_WAIT"} /\ late
             /\ NsBecomes(Abort(NsNow, fl.idx))
             /\ flows' = [flows EXCEPT ![f].st = "CLOSING"]
          \/ /\ c.state \in {"SYN_SENT", "FIN_WAIT"} /\ ~late
             /\ UNCHANGED <<nsStack, flows>>
  /\ UNCHANGED <<late, rebuilds>>

\* reap_flows' no-progress watchdog.
Stuck(fl, c) == late /\ (\/ fl.st = "CLOSING"
                         \/ fl.st = "ESTABLISHED" /\ c.state \in {"CLOSE_WAIT", "CLOSED"})

\* flow_free aborts a connection that is still open; a closed one is left to lwIP.
FreeStack(n, i) ==
  LET c == n.conns[i] IN
  IF c.pcb # NoPcb /\ c.state \in {"CLOSED", "FIN_WAIT"} THEN n ELSE Abort(n, i)

\* One flow's turn in reap_flows.
Reap ==
  LET f == at  fl == flows[at]  i == flows[at].idx  c == conns[flows[at].idx]
      lost == /\ i # Detached
              /\ c.pcb = NoPcb \/ Stuck(fl, c)
      st == IF lost \/ (fl.st = "ESTABLISHED" /\ i = Detached) THEN "CLOSING" ELSE fl.st
      n == IF lost THEN Unref(Abort(NsNow, i), {i}) ELSE NsNow
      detached == i = Detached \/ lost
  IN
  /\ phase = "reap" /\ Walk("wait")
  /\ \/ /\ fl.st = "free" /\ UNCHANGED <<nsStack, flows>>
     \/ /\ fl.st # "free" /\ detached
        /\ NsBecomes(n)
        /\ \/ st = "CLOSING" /\ flows' = [flows EXCEPT ![f] = NsIdle]
           \/ ~late /\ flows' = [flows EXCEPT ![f] = [st |-> st, idx |-> Detached]]
     \/ /\ fl.st # "free" /\ ~detached
        /\ \/ /\ c.state = "CLOSED" /\ ~c.rxq
              /\ NsBecomes(Unref(FreeStack(NsNow, i), {i}))
              /\ flows' = [flows EXCEPT ![f] = NsIdle]
           \/ UNCHANGED <<nsStack, flows>>
  /\ UNCHANGED <<late, rebuilds>>

\* wait_events, where a dead client makes flow_kill_dead_client close its connection.
Wait(slow) ==
  /\ phase = "wait" /\ phase' = "recv" /\ at' = 1
  /\ late' = slow
  /\ \/ UNCHANGED <<nsStack, flows>>
     \/ \E f \in NsFlows : /\ flows[f].st # "free" /\ flows[f].idx # Detached
                           /\ NsBecomes(Close(NsNow, flows[f].idx))
                           /\ flows' = [flows EXCEPT ![f].st = "CLOSING"]
  /\ UNCHANGED rebuilds

\* ns_init after a re-authentication that changed the inner address.  It fails
\* only with netif_add, which bridge_netif_init never makes fail.
Rebuild ==
  /\ phase = "recv" /\ rebuilds < MaxRebuilds
  /\ rebuilds' = rebuilds + 1
  /\ pcbs' = [p \in NsPcbs |-> PcbFree]
  /\ conns' = [i \in NsSlots |-> NsEmpty]
  /\ flow_ref' = [i \in NsSlots |-> FALSE]
  /\ phase' = "reflow" /\ at' = 1
  /\ UNCHANGED <<flows, late>>

\* One flow's turn in socks_reauth_flows.
Reflow ==
  LET f == at  fl == flows[at]  bare == [flows EXCEPT ![at].idx = Detached] IN
  /\ phase = "reflow" /\ Walk("recv")
  /\ IF fl.idx # Detached /\ fl.st \in {"CONNECTING", "ESTABLISHED"}
     THEN \E o \in Opens(NsNow, bare, f) : NsBecomes(o.n) /\ flows' = o.fs
     ELSE flows' = bare /\ UNCHANGED nsStack
  /\ UNCHANGED <<late, rebuilds>>

NsNext ==
  \/ \E p \in NsPcbs : NsReceive(p)
  \/ InputsDetach \/ Inputs \/ Outputs
  \/ \E S \in SUBSET NsPcbs : NsTick(S)
  \/ Update \/ Reap
  \/ \E slow \in BOOLEAN : Wait(slow)
  \/ Rebuild \/ Reflow

NsSpec == NsInit /\ [][NsNext]_nsVars

-----------------------------------------------------------------------------
(* Properties *)

\* Outside a rebuild a flow's index names a slot that is referenced by this flow
\* alone and was opened for it; a reference belongs to some flow; every pcb pointer
\* of a slot is a live pcb whose callbacks reach that slot; and every pcb that can
\* still call back belongs to the slot it calls (lwip_bridge.c: "a slot must never
\* be handed to a new flow while an old flow still references it", conn_sweep_stale).
SlotsOwned ==
  phase # "reflow" =>
    /\ \A f \in NsFlows : flows[f].idx # Detached =>
         /\ flow_ref[flows[f].idx] /\ conns[flows[f].idx].own = f
         /\ \A g \in NsFlows \ {f} : flows[g].idx # flows[f].idx
    /\ \A i \in NsSlots : flow_ref[i] => \E f \in NsFlows : flows[f].idx = i
    /\ \A i \in NsSlots : conns[i].pcb # NoPcb => PcbAlive(NsNow, i)
    /\ \A p \in NsPcbs : NsActive(p) => conns[pcbs[p].arg].pcb = p

\* A round in which every timer has run out leaves no slot that lost its flow still
\* holding a pcb, unless lwIP itself is still retransmitting the FIN of a
\* simultaneous close (ns_tick's LAST_ACK timeout and conn_reap_if_dead).
LateTickFrees ==
  [][phase = "tick" /\ phase' = "update" /\ late =>
       \A i \in NsSlots : \/ conns'[i].pcb = NoPcb
                          \/ flow_ref'[i]
                          \/ pcbs'[conns'[i].pcb].st = "CLOSING"]_nsVars
=============================================================================
