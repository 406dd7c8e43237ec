----------------------------- MODULE ClientAuth -----------------------------
(***************************************************************************)
(* The handshake of client and server over a network that loses, delays,   *)
(* reorders and duplicates datagrams: do_auth and parse_ack                *)
(* (src/common/auth.c) against the session section of handle_open          *)
(* (src/common/server.c), and what becomes of the session afterwards.      *)
(*                                                                         *)
(* One account.  Every OPEN the server takes mints a new token for the     *)
(* account's session and binds it to the datagram's source, so an OPEN     *)
(* that was sent twice, or that arrives after the client has moved on,     *)
(* changes the session under the client's feet.  A client socket is a      *)
(* local port; ports are reused.  Tokens and nonces are random in the      *)
(* code: here each is one that is in use nowhere else.                     *)
(***************************************************************************)
EXTENDS Integers, FiniteSets

CONSTANTS AUTH_SEND_MAX,   \* OPENs one attempt sends
          AuthPorts,       \* local ports the client's sockets get
          MaxNet,          \* bound on datagrams in flight; more are lost
          MaxFaults        \* bound on restarts, lost sessions and duplicates

ASSUME AuthAssumption == AUTH_SEND_MAX \in Nat /\ MaxNet \in Nat /\ 0 \notin AuthPorts

VARIABLES cl,       \* the client: attempt, and what parse_ack took
          sv,       \* the server's session for the account
          net,      \* datagrams in flight
          faults    \* how many of those faults there were

caVars == <<cl, sv, net, faults>>

Nonces == 1..(MaxNet + 2)
Tokens == 1..(MaxNet + 3)

CaInit ==
    /\ cl = [pc |-> "idle", i |-> 0, port |-> 0, nonce |-> 0, tok |-> 0, for |-> 0]
    /\ sv = [valid |-> FALSE, tok |-> 0, port |-> 0]
    /\ net = {}
    /\ faults = 0

FreshNonce == CHOOSE n \in Nonces : n \notin {cl.nonce, cl.for} \cup {m.nonce : m \in net}
FreshToken == CHOOSE t \in Tokens : t \notin {cl.tok, sv.tok} \cup {m.tok : m \in net}

Open(c) == [type |-> "OPEN", nonce |-> c.nonce, port |-> c.port, tok |-> 0]

(* UDP: a datagram is in flight, or it was lost. *)
Sends(m) == net' = (IF Cardinality(net \cup {m}) <= MaxNet THEN net \cup {m} ELSE net)
              \/ net' = net

(* A datagram dies in the network. *)
DatagramDies(m) ==
    /\ net' = net \ {m}
    /\ UNCHANGED <<cl, sv, faults>>

(* What is left in flight when m is delivered: its duplicate may be. *)
Delivered(m) ==
    {[net |-> net \ {m}, faults |-> faults]}
      \cup (IF faults < MaxFaults THEN {[net |-> net, faults |-> faults + 1]} ELSE {})

-----------------------------------------------------------------------------
(* udp_connect, on a fresh socket; the nonce is the attempt's. *)
Attempt ==
    /\ cl.pc = "idle"
    /\ \E p \in AuthPorts :
         cl' = [cl EXCEPT !.pc = "send", !.i = 0, !.port = p, !.nonce = FreshNonce]
    /\ UNCHANGED <<sv, net, faults>>

(* do_auth closes the socket and reports failure; the caller tries again.  *)
AuthFails(c) == [c EXCEPT !.pc = "idle", !.port = 0, !.i = 0, !.nonce = 0,
                        !.tok = 0, !.for = 0]

AuthSendOpen ==
    /\ cl.pc = "send"
    /\ \/ /\ Sends(Open(cl))
          /\ cl' = [cl EXCEPT !.pc = "recv"]
       \/ /\ cl' = AuthFails(cl)
          /\ UNCHANGED net
    /\ UNCHANGED <<sv, faults>>

(* port_recv timed out: the same OPEN again, AUTH_SEND_MAX times in all.   *)
RecvTimeout ==
    /\ cl.pc = "recv"
    /\ cl' = IF cl.i + 1 < AUTH_SEND_MAX
               THEN [cl EXCEPT !.pc = "send", !.i = @ + 1]
               ELSE AuthFails(cl)
    /\ UNCHANGED <<sv, net, faults>>

(* parse_ack: the session is the datagram's; an ACK that carries the echo  *)
(* of another nonce is refused.  Any other reply ends the attempt.         *)
ParseAckAny(m, c) == m.type = "ACK"
ParseAck(m, c) == m.type = "ACK" /\ m.nonce = c.nonce

Reply(m) ==
    /\ cl.pc = "recv"
    /\ m.type # "OPEN"
    /\ m.port = cl.port
    /\ \E d \in Delivered(m) : net' = d.net /\ faults' = d.faults
    /\ cl' = IF ParseAck(m, cl)
               THEN [cl EXCEPT !.pc = "up", !.tok = m.tok, !.for = m.nonce, !.i = 0]
               ELSE AuthFails(cl)
    /\ UNCHANGED sv

(* A datagram for a port no socket waits on is thrown away, and so is a    *)
(* late handshake reply on the socket of a session that is up.             *)
Discarded(m) ==
    /\ m.type # "OPEN"
    /\ m.port # cl.port \/ cl.pc \in {"up", "send"}
    /\ net' = net \ {m}
    /\ UNCHANGED <<cl, sv, faults>>

-----------------------------------------------------------------------------
(* handle_open for an account whose credentials are right.  The session it *)
(* has is kept, with a new token and a new peer; a new one needs a slot.   *)
Answer(m, type, tok) == [type |-> type, nonce |-> m.nonce, port |-> m.port, tok |-> tok]

Answers(m, a) ==
    \E d \in Delivered(m) :
      /\ faults' = d.faults
      /\ net' \in {d.net} \cup (IF Cardinality(d.net \cup {a}) <= MaxNet
                                  THEN {d.net \cup {a}} ELSE {})

HandleOpen(m) ==
    /\ m \in net
    /\ m.type = "OPEN"
    /\ sv' = [valid |-> TRUE, tok |-> FreshToken, port |-> m.port]
    /\ Answers(m, Answer(m, "ACK", FreshToken))
    /\ UNCHANGED cl

(* "server full": other accounts hold every slot. *)
RejectOpen(m) ==
    /\ m.type = "OPEN"
    /\ ~sv.valid
    /\ Answers(m, Answer(m, "REJECT", 0))
    /\ UNCHANGED <<cl, sv>>

Matched == cl.pc = "up" /\ sv.valid /\ cl.tok = sv.tok /\ cl.port = sv.port

(* purge_expired, or a restart, which forgets everything. *)
Purge ==
    /\ sv.valid
    /\ \/ ~Matched /\ UNCHANGED faults
       \/ faults < MaxFaults /\ faults' = faults + 1
    /\ sv' = [sv EXCEPT !.valid = FALSE]
    /\ UNCHANGED <<cl, net>>

(* The session ends at the user's or the network's whim. *)
SessionEnds ==
    /\ cl.pc = "up"
    /\ faults < MaxFaults
    /\ faults' = faults + 1
    /\ cl' = AuthFails(cl)
    /\ UNCHANGED <<sv, net>>

(* The client's host goes away for good, and no CLOSE is sent.              *)
Vanishes ==
    /\ cl.pc # "gone"
    /\ cl' = [AuthFails(cl) EXCEPT !.pc = "gone"]
    /\ UNCHANGED <<sv, net, faults>>

(* The server answers keepalives with the session's token only: a client   *)
(* with another one hears nothing, and frames of other sessions do not     *)
(* count, so the stale watchdog fires.                                     *)
SilentNever == FALSE
Silent == cl.pc = "up" /\ ~(sv.valid /\ cl.tok = sv.tok)

StaleWatchdog ==
    /\ Silent
    /\ cl' = AuthFails(cl)
    /\ UNCHANGED <<sv, net, faults>>

-----------------------------------------------------------------------------
CaNext ==
    \/ Attempt \/ AuthSendOpen \/ RecvTimeout
    \/ \E m \in net : DatagramDies(m) \/ Reply(m) \/ Discarded(m) \/ HandleOpen(m) \/ RejectOpen(m)
    \/ Purge \/ SessionEnds \/ Vanishes \/ StaleWatchdog

(* A round trip is not slower than the timeout, and not lost, every time;  *)
(* no datagram is under way for ever; housekeeping reaps what is idle.     *)
OthersDie == \E m \in net : m.nonce # cl.nonce /\ DatagramDies(m)
OpenArrives == AuthSendOpen /\ Open(cl) \in net'
OpenTaken == cl.pc = "recv" /\ HandleOpen(Open(cl)) /\ \E a \in net' : a.tok = sv'.tok
AckTaken == \E m \in net : sv.valid /\ m.tok = sv.tok /\ Reply(m) /\ cl'.pc = "up"

CaFairness ==
    /\ WF_caVars(Attempt)
    /\ WF_caVars(AuthSendOpen)
    /\ WF_caVars(RecvTimeout)
    /\ WF_caVars(StaleWatchdog)
    /\ WF_caVars(OthersDie)
    /\ WF_caVars(cl.pc = "gone" /\ Purge)
    /\ SF_caVars(OpenArrives)
    /\ SF_caVars(OpenTaken)
    /\ SF_caVars(AckTaken)

CaSpec == CaInit /\ [][CaNext]_caVars /\ CaFairness

-----------------------------------------------------------------------------
(* A session the client takes is one the server opened for this very       *)
(* attempt: late answers to an earlier attempt are refused even when the   *)
(* socket has got the port the earlier one had.  A token the server has    *)
(* replaced since is possible; one it never gave this attempt is not.      *)
AdoptsOwn ==
    /\ cl.pc = "up" => cl.for = cl.nonce /\ cl.tok # 0
    /\ \A m, n \in net : m.type = "ACK" /\ n.type = "ACK" /\ m.tok = n.tok => m = n
=============================================================================
