------------------------------ MODULE SocksFlow ------------------------------
(***************************************************************************)
(* The life of one SOCKS5 or HTTP proxy flow (common/socks_flow.c) through *)
(* the rounds of the event loop: handshake, name resolution, connect,      *)
(* relay in both directions, half close, timeouts and reap.  A frame or a  *)
(* payload chunk is one item; a read takes any number of the items the     *)
(* client has sent, and the stack accepts any number of the items it is    *)
(* offered.  The inner connection is reduced to what the flow reads of it, *)
(* DEAD standing for a slot whose pcb is gone, and DONE for one that went  *)
(* after an orderly close.  The three clocks a flow reads (state_ms,       *)
(* last_progress_ms and the connection's state_ms) are kept as "a full     *)
(* timeout has passed since".                                              *)
(***************************************************************************)
EXTENDS Integers, Sequences

CONSTANTS MaxDown,     \* downlink chunks the peer sends
          MaxReauth    \* re-authentications of the tunnel

VARIABLES f,      \* the Flow
          c,      \* its TcpConn: state, undelivered chunks, whether its timeout passed
          todo,   \* what the client has still to send
          client, \* "open", "eof" after a half close, "gone"
          said,   \* what the client has read: replies, and D for relayed payload
          up,     \* what the tunnel connection accepted from the client
          ph, down, reauths

sfVars == <<f, c, todo, client, said, up, ph, down, reauths>>

FlowNone == [state |-> "none", rxq |-> 0, old |-> FALSE]
Conn(st) == [state |-> st, rxq |-> 0, old |-> FALSE]
ConnDead == {"DEAD", "DONE"}   \* flow_conn_dead

\* What a client sends: frames of its handshake and then payload.  An absolute-URI
\* request is forwarded verbatim, so it is payload too.
Scripts == {<<"greet", "request", "p1", "p2">>, <<"greet2", "auth", "request">>,
            <<"connect", "p1">>, <<"uri">>}
Payload(s) == SelectSeq(s, LAMBDA x : x \in {"uri", "p1", "p2"})
SfPrefix(s, t) == Len(s) <= Len(t) /\ s = SubSeq(t, 1, Len(s))
Drop(s, k) == SubSeq(s, k + 1, Len(s))

SfInit ==
  \E s \in Scripts :
    /\ f = [state |-> "GREETING", script |-> s, input |-> <<>>, output |-> <<>>,
            http |-> FALSE, auth_pending |-> FALSE, reply_sent |-> FALSE,
            local_eof |-> FALSE, dns_pending |-> 0, old |-> FALSE, stalled |-> FALSE,
            fd |-> TRUE, fresh |-> FALSE]
    /\ todo = s /\ c = FlowNone /\ client = "open" /\ said = <<>> /\ up = <<>>
    /\ ph = "recv" /\ down = 0 /\ reauths = 0

-----------------------------------------------------------------------------
(* Helpers of the flow *)

\* set_flow_state
SetState(fl, st) == [fl EXCEPT !.state = st, !.old = FALSE]

\* queue_flow_output; fresh: a reply of this round is not yet written.
Put(fl, x) == [fl EXCEPT !.output = Append(@, x), !.fresh = TRUE]

\* The error reply is queued but the state keeps its old time stamp.
ErrorKeepsClock(fl) ==
  IF fl.reply_sent THEN SetState(fl, "CLOSING")
  ELSE [Put(fl, "err") EXCEPT !.state = "CLOSING"]

\* An error reply is queued whatever the client was told before.
ErrorAlways(fl) == SetState(Put(fl, "err"), "CLOSING")

\* queue_socks_error: after the success reply every byte belongs to the stream.
QueueError(fl) == IF fl.reply_sent THEN SetState(fl, "CLOSING")
                  ELSE SetState(Put(fl, "err"), "CLOSING")

\* auth_reject and greet_reject
Reject(fl) == SetState(Put(fl, "no"), "CLOSING")

\* ns_abort and ns_close as the flow sees them.
Aborted(k) == IF k.state \in {"none"} \cup ConnDead THEN k ELSE Conn("DEAD")
Closed(k) ==
  CASE k.state = "SYN_SENT" -> Aborted(k)
    [] k.state = "ESTABLISHED" -> [k EXCEPT !.state = "FIN_WAIT", !.old = FALSE]
    [] k.state = "CLOSE_WAIT" -> [k EXCEPT !.state = "CLOSED", !.old = FALSE]
    [] OTHER -> k

\* open_tcp_conn_af: a slot, or an error when eviction found none either.
OpenConn(fl) ==
  {[f |-> SetState(fl, "CONNECTING"), c |-> Conn("SYN_SENT")],
   [f |-> QueueError(fl), c |-> FlowNone]}

\* flow_open_gated: the gate may refuse the target.
OpenGated(fl) == OpenConn(fl) \cup {[f |-> QueueError(fl), c |-> FlowNone]}

\* flow_start_target: a literal is opened, a name goes to the resolver as one or two
\* queries, and an unrelayable address is an error.
StartTarget(fl) ==
  OpenGated(fl)
  \cup {[f |-> [SetState(fl, "RESOLVING") EXCEPT !.dns_pending = q], c |-> FlowNone] : q \in 1..2}

Eat(fl) == [fl EXCEPT !.input = Tail(@)]

\* http_handshake: an incomplete header waits; of a complete one, CONNECT is consumed
\* and a URI is kept.
HttpHandshake(fl) ==
  LET h == [fl EXCEPT !.http = TRUE] IN
  {[f |-> h, c |-> FlowNone], [f |-> QueueError(h), c |-> FlowNone]}
  \cup StartTarget(IF Head(fl.input) = "connect" THEN Eat(h) ELSE h)

\* handshake_greeting: method negotiation and then the user/password frame.
Greeting(fl) ==
  IF fl.auth_pending
  THEN {[f |-> SetState(Put([Eat(fl) EXCEPT !.auth_pending = FALSE], "a0"), "REQUEST"), c |-> FlowNone],
        [f |-> Reject([Eat(fl) EXCEPT !.auth_pending = FALSE]), c |-> FlowNone],
        [f |-> Reject(fl), c |-> FlowNone]}
  ELSE {[f |-> IF Head(fl.input) = "greet2"
               THEN [Put(Eat(fl), "m2") EXCEPT !.auth_pending = TRUE]
               ELSE SetState(Put(Eat(fl), "m0"), "REQUEST"), c |-> FlowNone],
        [f |-> Reject(fl), c |-> FlowNone]}

\* handshake_request
HandshakeRequest(fl) == {[f |-> QueueError(fl), c |-> FlowNone]} \cup StartTarget(Eat(fl))

\* One pass of process_socks_handshake over the first buffered frame.
Pass(r) ==
  IF r.f.state \notin {"GREETING", "REQUEST"} \/ r.f.input = <<>> THEN {r}
  ELSE IF r.f.state = "REQUEST" THEN HandshakeRequest(r.f)
  ELSE IF Head(r.f.input) \in {"connect", "uri"}
  THEN HttpHandshake(r.f) \cup IF r.f.http THEN {} ELSE {[f |-> Reject(r.f), c |-> FlowNone]}
  ELSE Greeting(r.f)

\* process_socks_handshake: at most three frames belong to the handshake.
ProcessHandshake(r) == UNION {UNION {Pass(b) : b \in Pass(a)} : a \in Pass(r)}

-----------------------------------------------------------------------------
(* The phases of a round *)

SfAt(p, q) == ph = p /\ ph' = q

\* receive_vpn: what the peer or the network does to the connection (bridge_connected,
\* bridge_recv, bridge_err).  The acknowledgement of our FIN ends a closed one.
PeerActs ==
  /\ ph = "recv"
  /\ \/ c.state = "SYN_SENT" /\ c' = [c EXCEPT !.state = "ESTABLISHED", !.old = FALSE] /\ UNCHANGED down
     \/ c.state = "ESTABLISHED" /\ c' = [c EXCEPT !.state = "CLOSE_WAIT"] /\ UNCHANGED down
     \/ c.state = "FIN_WAIT" /\ c' = [c EXCEPT !.state = "CLOSED", !.old = FALSE] /\ UNCHANGED down
     \/ /\ c.state \in {"ESTABLISHED", "FIN_WAIT"} /\ down < MaxDown
        /\ c' = [c EXCEPT !.rxq = @ + 1] /\ down' = down + 1
     \/ c.state = "CLOSED" /\ c' = Conn("DONE") /\ UNCHANGED down
     \/ c.state \notin {"none"} \cup ConnDead /\ c' = Aborted(c) /\ UNCHANGED down
  /\ UNCHANGED <<f, todo, client, said, up, ph, reauths>>

\* evict_stalest_idle_flow picked this flow for another one that needs its slot.
Evictable == /\ f.state = "ESTABLISHED" /\ c.state # "none"
             /\ f.output = <<>> /\ c.rxq = 0
EvictFlow ==
  /\ Evictable
  /\ f' = SetState([f EXCEPT !.local_eof = TRUE], "CLOSING")
  /\ c' = FlowNone

\* The re-authentication kept the inner address (socks_reauth_tunnel): a pending
\* resolution has lost its worker.
ReauthKeeps ==
  /\ ph = "recv" /\ reauths < MaxReauth /\ f.state # "free"
  /\ reauths' = reauths + 1
  /\ f.state = "RESOLVING" /\ f' = QueueError(f)
  /\ UNCHANGED <<c, todo, client, said, up, ph, down>>

\* The stack was rebuilt (socks_reauth_flows): the flow gets a new connection.
ReauthRebuilds ==
  /\ ph = "recv" /\ reauths < MaxReauth /\ f.state # "free"
  /\ reauths' = reauths + 1
  /\ \/ f.state = "RESOLVING" /\ f' = QueueError(f) /\ UNCHANGED c
     \/ /\ c.state # "none" /\ f.state \in {"CONNECTING", "ESTABLISHED"}
        /\ (\E r \in OpenConn(f) : f' = r.f /\ c' = r.c) \/ EvictFlow
     \/ c.state # "none" /\ f.state = "CLOSING" /\ c' = FlowNone /\ UNCHANGED f
  /\ UNCHANGED <<todo, client, said, up, ph, down>>

\* service_local_inputs detaches a flow from a dead connection first.
Detach ==
  /\ SfAt("recv", "inputs")
  /\ IF f.state # "CONNECTING" /\ c.state \in ConnDead
     THEN f' = SetState(f, "CLOSING") /\ c' = FlowNone
     ELSE UNCHANGED <<f, c>>
  /\ UNCHANGED <<todo, client, said, up, down, reauths>>

Accepts == {"SYN_SENT", "ESTABLISHED", "CLOSE_WAIT"}   \* ns_send_reservev
Spills == {"CONNECTING", "ESTABLISHED", "CLOSING"}

\* Buffered input goes to the connection; what it does not take stays.
Spill ==
  /\ ph = "inputs" /\ ~f.local_eof
  /\ c.state \in Accepts /\ f.state \in Spills /\ f.input # <<>>
  /\ \E k \in 1..Len(f.input) :
       /\ up' = up \o SubSeq(f.input, 1, k)
       /\ f' = [f EXCEPT !.input = Drop(@, k), !.stalled = FALSE]
       /\ IF k < Len(f.input) THEN ph' = "dns" ELSE UNCHANGED ph
  /\ UNCHANGED <<c, todo, client, said, down, reauths>>

\* A read that goes on after the stack refused a part would overtake that part.
ReadOvertakes(k, w) ==
  /\ up' = up \o SubSeq(todo, 1, w) \o SubSeq(todo, k + 1, Len(todo))
  /\ f' = [f EXCEPT !.input = @ \o SubSeq(todo, w + 1, k),
                    !.stalled = IF w > 0 THEN FALSE ELSE @]
  /\ todo' = <<>>

\* The readv batch of an established flow: k items read, w of them accepted, and the
\* rest put back for the spill.
ReadFeed(k, w) ==
  /\ up' = up \o SubSeq(todo, 1, w)
  /\ f' = [f EXCEPT !.input = @ \o SubSeq(todo, w + 1, k),
                    !.stalled = IF w > 0 THEN FALSE ELSE @]
  /\ todo' = Drop(todo, k)

\* The loop ends with a part put back, at the client's end, or (NoInput) when no more
\* can be read.
Feed ==
  /\ ph = "inputs" /\ ~f.local_eof /\ f.input = <<>>
  /\ f.state = "ESTABLISHED" /\ c.state \in Accepts
  /\ \/ /\ todo # <<>>
        /\ \E k \in 1..Len(todo) : \E w \in 0..k :
             ReadFeed(k, w) /\ ph' = IF w < k THEN "dns" ELSE ph
        /\ UNCHANGED c
     \/ /\ (client = "eof" /\ todo = <<>>) \/ client = "gone"
        /\ f' = SetState([f EXCEPT !.local_eof = TRUE], "CLOSING")
        /\ c' = Closed(c) /\ ph' = "dns"
        /\ UNCHANGED <<todo, up>>
  /\ UNCHANGED <<client, said, down, reauths>>

\* The read of a flow in its handshake, in its resolution or while it connects,
\* followed by the handshake parser.  A full handshake buffer ends the flow.
HandshakeReads(fl, k) ==
  ProcessHandshake([f |-> [fl EXCEPT !.input = @ \o SubSeq(todo, 1, k)], c |-> c])

Talk ==
  /\ SfAt("inputs", "dns") /\ ~f.local_eof
  /\ f.state \in {"GREETING", "REQUEST", "RESOLVING", "CONNECTING"}
  /\ c.state # "none" => f.input = <<>>
  /\ \/ \E k \in 0..Len(todo) : \E r \in HandshakeReads(f, k) :
          /\ k > 0 \/ f.input # <<>>
          /\ f' = r.f /\ c' = r.c
          /\ todo' = Drop(todo, k)
     \/ /\ f.state \in {"GREETING", "REQUEST"} /\ todo # <<>>
        /\ f' = SetState([f EXCEPT !.local_eof = TRUE, !.input = @ \o todo], "CLOSING")
        /\ todo' = <<>> /\ UNCHANGED c
     \/ /\ client = "eof" /\ todo = <<>>
        /\ f' = SetState([f EXCEPT !.local_eof = TRUE], "CLOSING")
        /\ UNCHANGED <<c, todo>>
     \/ /\ client = "gone"
        /\ f' = SetState([f EXCEPT !.local_eof = TRUE], "CLOSING")
        /\ c' = Aborted(c)
        /\ UNCHANGED todo
  /\ UNCHANGED <<client, said, up, down, reauths>>

\* Nothing to read, no room, or a flow that no longer reads.
NoInput ==
  /\ SfAt("inputs", "dns")
  /\ UNCHANGED <<f, c, todo, client, said, up, down, reauths>>

\* handle_dns_results (the count of a flow that no longer resolves is not read again
\* and is kept at 0): the last failing answer ends the flow, an address opens it.
DnsResult ==
  /\ ph = "dns" /\ f.state = "RESOLVING"
  /\ \/ \E r \in OpenGated([f EXCEPT !.dns_pending = 0]) : f' = r.f /\ c' = r.c
     \/ /\ f' = IF f.dns_pending <= 1 THEN QueueError([f EXCEPT !.dns_pending = 0])
                ELSE [f EXCEPT !.dns_pending = @ - 1]
        /\ UNCHANGED c
  /\ UNCHANGED <<todo, client, said, up, ph, down, reauths>>

\* No further result; another flow under pressure may retire this one if it is idle.
NoDns ==
  /\ SfAt("dns", "outputs")
  /\ UNCHANGED <<f, c>> \/ EvictFlow
  /\ UNCHANGED <<todo, client, said, up, down, reauths>>

\* Payload may go out as soon as the connection has some.
MayRelayEarly(fl, k) == k.state # "none" /\ k.rxq > 0 /\ fl.output = <<>>

\* service_local_outputs hands the client payload only behind the success reply.
MayRelay(fl, k) ==
  k.state # "none" /\ k.rxq > 0 /\ fl.output = <<>> /\ fl.reply_sent

\* A hard write error: the client is gone and its connection is aborted.
WriteFailed(r) ==
  [r EXCEPT !.f = SetState([@ EXCEPT !.local_eof = TRUE, !.output = <<>>, !.fresh = FALSE], "CLOSING"),
            !.c = Aborted(@)]

\* Queued replies go first, as far as the client's socket takes them.
DrainOutput(r) ==
  IF r.f.output = <<>> THEN {r}
  ELSE IF client = "gone" THEN {r, WriteFailed(r)}
  ELSE {r} \cup {[r EXCEPT !.f = [@ EXCEPT !.output = Drop(@, k), !.stalled = FALSE,
                                                 !.fresh = @ /\ k < Len(r.f.output)],
                          !.s = @ \o SubSeq(r.f.output, 1, k)] : k \in 1..Len(r.f.output)}

\* Then payload of the connection.
DrainRxq(r) ==
  IF ~MayRelay(r.f, r.c) THEN {r}
  ELSE IF client = "gone" THEN {r, WriteFailed(r)}
  ELSE {r} \cup {[r EXCEPT !.f.stalled = FALSE, !.c.rxq = @ - k, !.s = Append(@, "D")] : k \in 1..r.c.rxq}

\* A drained connection whose peer has finished is closed once the client's own
\* direction was idle for a full timeout.
HalfClose(r) ==
  IF r.c.state = "CLOSE_WAIT" /\ r.f.reply_sent /\ r.c.rxq = 0
     /\ r.f.output = <<>> /\ r.f.input = <<>> /\ r.f.stalled
  THEN [r EXCEPT !.f = SetState(@, "CLOSING"), !.c = Closed(@)]
  ELSE r

\* service_local_outputs
ServiceOutputs ==
  /\ SfAt("outputs", "end")
  /\ \E a \in DrainOutput([f |-> f, c |-> c, s |-> said]) : \E b \in DrainRxq(a) :
       LET r == HalfClose(b) IN f' = r.f /\ c' = r.c /\ said' = r.s
  /\ UNCHANGED <<todo, client, up, down, reauths>>

\* ns_tick: the timeouts of a connect and of a close, and lwIP's own release of a
\* closed connection.
Timed == {"SYN_SENT", "FIN_WAIT", "CLOSED"}
ConnTick(r) ==
  IF r.c.state \in Timed /\ r.c.old
  THEN [r EXCEPT !.c = IF @.state = "CLOSED" THEN Conn("DONE") ELSE Aborted(@)] ELSE r

\* The success reply; an absolute-URI request gets none of its own.
Succeeds(fl) ==
  LET g == IF fl.reply_sent \/ (fl.http /\ fl.script[1] = "uri") THEN fl ELSE Put(fl, "ok")
  IN SetState([g EXCEPT !.reply_sent = TRUE], "ESTABLISHED")

\* A handshake that stalls is never given up.
HandshakeNeverTimesOut(fl) == FALSE

\* update_tcp_states gives up a handshake after HANDSHAKE_TIMEOUT_MS.
HandshakeTimesOut(fl) == fl.state \in {"GREETING", "REQUEST", "RESOLVING"} /\ fl.old

\* update_tcp_states
UpdateTcp(r) ==
  CASE HandshakeTimesOut(r.f) ->
         [r EXCEPT !.f = IF r.f.http THEN QueueError(@) ELSE SetState(@, "CLOSING")]
    [] r.f.state = "CONNECTING" /\ r.c.state \in {"ESTABLISHED", "CLOSE_WAIT"} ->
         [r EXCEPT !.f = Succeeds(@)]
    [] r.f.state = "CONNECTING" /\ r.c.state \in {"none", "CLOSED"} \cup ConnDead ->
         [f |-> QueueError(r.f), c |-> FlowNone]
    [] r.f.state = "CONNECTING" /\ r.c.state \in {"SYN_SENT", "FIN_WAIT"} /\ r.f.old ->
         [f |-> QueueError(r.f), c |-> Aborted(r.c)]
    [] OTHER -> r

\* reap_flows: an established flow without a connection is repaired, a dead
\* connection is let go, and a wedged one is aborted after a timeout without
\* progress; that one keeps its old time stamp.
Converged(r) ==
  CASE r.f.state = "ESTABLISHED" /\ r.c.state = "none" ->
         [r EXCEPT !.f = SetState([@ EXCEPT !.local_eof = TRUE], "CLOSING")]
    [] r.c.state \in ConnDead -> [f |-> SetState(r.f, "CLOSING"), c |-> FlowNone]
    [] /\ r.c.state \notin {"none"} \cup ConnDead /\ r.f.stalled
       /\ \/ r.f.state = "CLOSING"
          \/ r.f.state = "ESTABLISHED" /\ r.c.state \in {"CLOSE_WAIT", "CLOSED"} ->
         [f |-> [r.f EXCEPT !.state = "CLOSING"], c |-> FlowNone]
    [] OTHER -> r

\* A closed connection is let go with data still in its queue.
RemovableUndrained(r) ==
  IF r.c.state = "none" THEN r.f.state = "CLOSING" /\ (r.f.old \/ r.f.output = <<>>)
  ELSE r.c.state = "CLOSED" /\ r.f.output = <<>>

\* reap_flows' removable
Removable(r) ==
  IF r.c.state = "none" THEN r.f.state = "CLOSING" /\ (r.f.old \/ r.f.output = <<>>)
  ELSE r.c.state = "CLOSED" /\ r.c.rxq = 0 /\ r.f.output = <<>>

\* flow_free
Freed(r) == [f |-> [r.f EXCEPT !.state = "free", !.input = <<>>, !.output = <<>>], c |-> FlowNone]

\* ns_tick, update_tcp_states and reap_flows end the round.
EndRound ==
  /\ SfAt("end", "wait")
  /\ LET r == Converged(UpdateTcp(ConnTick([f |-> f, c |-> c])))
         e == IF Removable(r) THEN Freed(r) ELSE r
     IN f' = e.f /\ c' = e.c
  /\ UNCHANGED <<todo, client, said, up, down, reauths>>

\* Time passes: nothing runs out, everything does, or only what a client that keeps
\* reading does not refresh.
Clocks == {"state", "progress", "conn"}
Passes == {{}, {"state", "conn"}, Clocks}
SfWait(out) ==
  /\ SfAt("wait", "recv") /\ f.state # "free"
  /\ f' = [f EXCEPT !.old = @ \/ "state" \in out, !.stalled = @ \/ "progress" \in out,
                    !.fresh = FALSE]
  /\ c' = [c EXCEPT !.old = c.state \in Timed /\ (@ \/ "conn" \in out)]
  /\ UNCHANGED <<todo, client, said, up, down, reauths>>

ClientEnds ==
  /\ ph = "wait" /\ client = "open" /\ f.state # "free"
  /\ client' \in {"eof", "gone"}
  /\ UNCHANGED <<f, c, todo, said, up, ph, down, reauths>>

\* wait_events asks for no input of such a flow (rx_paused: any flow that feeds a
\* connection or waits for a name).
PollInOff == f.local_eof \/ f.state \in {"CLOSING", "RESOLVING"} \/ c.state # "none"

\* wait_events saw the socket of a flow that is not read report an error
\* (flow_kill_dead_client): at once when nothing waits for the client, and after
\* FLOW_ERR_ROUNDS_MAX rounds otherwise.
KillDeadClient ==
  /\ ph = "wait" /\ client = "gone" /\ f.state # "free" /\ f.fd /\ PollInOff
  /\ f' = SetState([f EXCEPT !.local_eof = TRUE, !.output = <<>>, !.fd = FALSE], "CLOSING")
  /\ c' = Closed(c)
  /\ UNCHANGED <<todo, client, said, up, ph, down, reauths>>

SfNext ==
  \/ PeerActs \/ ReauthKeeps \/ ReauthRebuilds \/ Detach
  \/ Spill \/ Feed \/ Talk \/ NoInput \/ DnsResult \/ NoDns \/ ServiceOutputs
  \/ EndRound
  \/ \E out \in Passes : SfWait(out)
  \/ ClientEnds \/ KillDeadClient

\* The loop goes round, time passes, and a socket in error is reported in every round
\* until its flow has given it up.
SfLoop == Detach \/ Spill \/ Feed \/ Talk \/ NoInput \/ DnsResult \/ NoDns \/ ServiceOutputs
          \/ EndRound \/ \E out \in Passes : SfWait(out)

SfFairness ==
  WF_sfVars(SfLoop) /\ SF_sfVars(SfWait(Clocks)) /\ SF_sfVars(KillDeadClient)

SfSpec == SfInit /\ [][SfNext]_sfVars /\ SfFairness

-----------------------------------------------------------------------------
(* Properties *)

Talked == said \o f.output

\* The client reads one answer to its request, never an error after a success, and
\* relayed payload only behind the success reply of its request (queue_socks_error,
\* service_local_outputs: "never hand inner payload to the client before the CONNECT
\* success reply").
OneReply ==
  LET final == {k \in 1..Len(Talked) : Talked[k] \in {"ok", "err", "no"}} IN
  /\ \A j, k \in final : j = k
  /\ \A k \in 1..Len(said) : said[k] = "D" =>
       IF f.script[1] = "uri" THEN final = {}
       ELSE \E j \in final : j < k /\ Talked[j] = "ok"

\* The connection gets the client's payload in order and without a gap: what it
\* accepted, what waits in the flow and what the client still holds are the stream
\* (service_local_inputs: "would ... break stream ordering").
UpInOrder ==
  /\ SfPrefix(up, Payload(f.script))
  /\ f.state \in {"CONNECTING", "ESTABLISHED"} => up \o f.input \o todo = Payload(f.script)

\* Servicing, eviction and reaping discard downlink data and queued replies only when
\* the client is gone or a full timeout passed without progress, and never a reply
\* that was queued in the same round (reap_flows: "a flow must not be freed while it
\* still holds undelivered data"; queue_socks_error: a stale state_ms would clear "the
\* error reply we just queued before it reaches the client").
NothingDropped ==
  [][ /\ c'.rxq < c.rxq /\ ph # "recv"
        => \/ said' # said \/ client = "gone" \/ f.stalled
           \/ c.old /\ c.state \in {"FIN_WAIT", "CLOSED"}
      /\ f'.state = "free" /\ (f.output # <<>> \/ f'.fresh)
        => client = "gone" \/ (f.old /\ ~f'.fresh) ]_sfVars

\* Nothing is left to do for the flow, or both its ends are there.
Settled == \/ f.state = "free"
           \/ f.state = "ESTABLISHED" /\ client # "gone" /\ c.state # "CLOSE_WAIT"
==============================================================================
