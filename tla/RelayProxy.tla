----------------------------- MODULE RelayProxy -----------------------------
(***************************************************************************)
(* The local SOCKS5 and HTTP proxy of the TUN client                       *)
(* (common/relay_proxy.c): an accept thread, one handshake thread per      *)
(* connection, and the two direction threads of RelayPlane.  A handshake   *)
(* connects the target, reserves a place in the established set, asks      *)
(* whether the plane is alive, answers, and hands the pair to rp_add.      *)
(*                                                                         *)
(* The lockout table is the module Lockout, the choice of the upstream     *)
(* address RelayTarget.  One relay runs per process, so the instance       *)
(* generation is fixed.                                                    *)
(***************************************************************************)
EXTENDS RelayPlane

CONSTANTS
  RP_MAX_CONNS,          \* handshake threads at once
  RP_MAX_ESTABLISHED,    \* pairs relayed at once
  RP_DNS_MAX_INFLIGHT,
  Token                  \* a token is configured

ASSUME ProxyConstants ==
  /\ {RP_MAX_CONNS, RP_MAX_ESTABLISHED, RP_DNS_MAX_INFLIGHT} \subseteq Nat \ {0}
  /\ Token \in BOOLEAN

VARIABLES
  max_est,       \* g_rp_max_est
  conn_n,        \* g_rp_conn_n
  dns_n,         \* g_rp_dns_inflight
  accept,        \* the accept thread: "off", "run" or "gone"
  hs             \* the handshake threads: [pc, reserved]

proxyVars == <<max_est, conn_n, dns_n, accept, hs>>
rpVars == <<planeVars, proxyVars>>
loops == <<rpStop, dead, dir>>
entries == <<arr, moved, cn>>

RpInit ==
  /\ PlaneInit
  /\ max_est = RP_MAX_ESTABLISHED /\ conn_n = 0 /\ dns_n = 0 /\ accept = "off"
  /\ hs = [c \in RpConns |-> [pc |-> "away", reserved |-> FALSE]]

-----------------------------------------------------------------------------
(* relay_proxy_start and relay_proxy_stop.                                 *)

\* The limit is lowered to what the descriptor limit has room for.  Both
\* direction threads, then the accept thread; when one cannot be made the
\* others are told to stop.
RpStart ==
  /\ accept = "off"
  /\ max_est' \in 1..RP_MAX_ESTABLISHED
  /\ \/ /\ accept' = "run"
        /\ dir' = [d \in Dirs |-> [dir[d] EXCEPT !.pc = "top"]]
        /\ UNCHANGED <<rpStop, faults>>
     \/ /\ Fault
        /\ accept' = "gone" /\ rpStop' = TRUE
        /\ \/ dir' = [d \in Dirs |-> [dir[d] EXCEPT !.pc = "top"]]
           \/ dir' = [dir EXCEPT !["up"].pc = "top"]
  /\ UNCHANGED <<est_n, dead, entries, fds, conn_n, dns_n, hs>>

\* The listener is closed and the plane told to stop.
RpStopCall ==
  /\ accept # "off" /\ ~rpStop
  /\ rpStop' = TRUE /\ accept' = "gone"
  /\ UNCHANGED <<table, dead, dir, faults, conn_n, dns_n, hs, max_est>>

-----------------------------------------------------------------------------
(* rp_accept_main.                                                         *)

\* A locked-out source, a full set of handshake threads, no memory or no
\* thread: the connection is closed at once.
AcceptDrops(c) ==
  /\ accept = "run" /\ hs[c].pc = "away"
  /\ hs' = [hs EXCEPT ![c].pc = "done"]
  /\ UNCHANGED <<planeVars, conn_n, dns_n, accept, max_est>>

\* The handshake thread is counted and started.
Accepts(c) ==
  /\ accept = "run" /\ hs[c].pc = "away"
  /\ conn_n < RP_MAX_CONNS
  /\ conn_n' = conn_n + 1
  /\ hs' = [hs EXCEPT ![c].pc = "first"]
  /\ fds' = [fds EXCEPT ![c] = {"client"}]
  /\ UNCHANGED <<est_n, loops, entries, faults, dns_n, accept, max_est>>

\* A dead listener ends the accept thread; other errors are retried.
AcceptFails ==
  /\ accept = "run" /\ Fault
  /\ accept' = "gone"
  /\ UNCHANGED <<table, loops, conn_n, dns_n, hs, max_est>>

-----------------------------------------------------------------------------
(* rp_conn_main and the two handlers.                                      *)

Goes(c, p) == hs' = [hs EXCEPT ![c].pc = p]

\* Refused, with an answer or without: the out label.
Refused(c) == Goes(c, "out")

\* A connected upstream.
Connected(c) == Goes(c, "reserve") /\ fds' = [fds EXCEPT ![c] = @ \union {"upstream"}]

\* rp_handle_socks up to its target: greeting, RFC 1929 and CONNECT, each
\* within the budget and the input cap.  A literal target is connected.
HandleSocks(c) ==
  /\ hs[c].pc = "first"
  /\ \/ Refused(c) /\ UNCHANGED fds
     \/ Goes(c, "gate") /\ UNCHANGED fds
     \/ Connected(c)
  /\ UNCHANGED <<est_n, loops, entries, faults, conn_n, dns_n, accept, max_est>>

\* rp_handle_http up to its target; refused when a token is configured.
HandleHttp(c) ==
  /\ hs[c].pc = "first"
  /\ \/ Refused(c) /\ UNCHANGED fds
     \/ ~Token /\ Goes(c, "gate") /\ UNCHANGED fds
     \/ ~Token /\ Connected(c)
  /\ UNCHANGED <<est_n, loops, entries, faults, conn_n, dns_n, accept, max_est>>

\* rp_dns_acquire: a place in the resolver set, or a failed resolution.
DnsAcquire(c) ==
  /\ hs[c].pc = "gate"
  /\ \/ dns_n < RP_DNS_MAX_INFLIGHT /\ dns_n' = dns_n + 1 /\ Goes(c, "resolve")
     \/ dns_n >= RP_DNS_MAX_INFLIGHT /\ UNCHANGED dns_n /\ Refused(c)
  /\ UNCHANGED <<planeVars, conn_n, accept, max_est>>

\* getaddrinfo returns, the place is given back and the addresses are tried.
DnsReturns(c) ==
  /\ hs[c].pc = "resolve"
  /\ dns_n' = dns_n - 1
  /\ (Refused(c) /\ UNCHANGED fds) \/ Connected(c)
  /\ UNCHANGED <<est_n, loops, entries, faults, conn_n, accept, max_est>>

Without(c, s) == fds' = [fds EXCEPT ![c] = @ \ {s}]

\* A check and an increment that are not one step, as before R37 R7.
EstReserveUncapped(c) ==
  /\ hs[c].pc = "reserve"
  /\ est_n' = est_n + 1
  /\ hs' = [hs EXCEPT ![c].pc = "plane", ![c].reserved = TRUE]
  /\ UNCHANGED <<loops, entries, fds, faults, conn_n, dns_n, accept, max_est>>

\* rp_est_reserve, before any success goes out.
EstReserve(c) ==
  /\ hs[c].pc = "reserve"
  /\ IF est_n < max_est
     THEN /\ est_n' = est_n + 1
          /\ hs' = [hs EXCEPT ![c].pc = "plane", ![c].reserved = TRUE]
          /\ UNCHANGED fds
     ELSE Refused(c) /\ Without(c, "upstream") /\ UNCHANGED est_n
  /\ UNCHANGED <<loops, entries, faults, conn_n, dns_n, accept, max_est>>

\* rp_plane_dead, then the answer; what was read past the request is sent
\* upstream before rp_add.
Reply(c) ==
  /\ hs[c].pc = "plane"
  /\ \/ dead # {} /\ Refused(c) /\ Without(c, "upstream") /\ UNCHANGED faults
     \/ dead = {} /\ Fault /\ Refused(c) /\ Without(c, "upstream")
     \/ dead = {} /\ Goes(c, "add") /\ UNCHANGED <<fds, faults>>
  /\ UNCHANGED <<est_n, loops, entries, conn_n, dns_n, accept, max_est>>

\* rp_add gives the slot back and closes both sockets.
AddFails(c) ==
  /\ est_n' = est_n - 1
  /\ fds' = [fds EXCEPT ![c] = {}]
  /\ UNCHANGED <<arr, cn>>

AddUnchecked(c) ==
  /\ hs[c].pc = "add"
  /\ Register(c)
  /\ hs' = [hs EXCEPT ![c] = [pc |-> "done", reserved |-> FALSE]]
  /\ conn_n' = conn_n - 1
  /\ UNCHANGED <<est_n, fds, loops, faults, dns_n, accept, max_est>>

\* rp_add takes the token and, unless a direction is dead, registers the
\* pair; then the thread ends.
RpAdd(c) ==
  /\ hs[c].pc = "add"
  /\ \/ dead = {} /\ Register(c) /\ UNCHANGED <<est_n, fds, faults>>
     \/ dead # {} /\ AddFails(c) /\ moved' = Dirs /\ UNCHANGED faults
     \/ Fault /\ AddFails(c) /\ moved' \in {moved, Dirs}
  /\ hs' = [hs EXCEPT ![c] = [pc |-> "done", reserved |-> FALSE]]
  /\ conn_n' = conn_n - 1
  /\ UNCHANGED <<loops, dns_n, accept, max_est>>

OutKeepsSlot(c) ==
  /\ hs[c].pc = "out"
  /\ hs' = [hs EXCEPT ![c] = [pc |-> "done", reserved |-> FALSE]]
  /\ fds' = [fds EXCEPT ![c] = {}]
  /\ conn_n' = conn_n - 1
  /\ UNCHANGED <<est_n, loops, entries, faults, dns_n, accept, max_est>>

\* The out label: the one place that gives an unused reservation back.
Out(c) ==
  /\ hs[c].pc = "out"
  /\ est_n' = IF hs[c].reserved THEN est_n - 1 ELSE est_n
  /\ hs' = [hs EXCEPT ![c] = [pc |-> "done", reserved |-> FALSE]]
  /\ Without(c, "client")
  /\ conn_n' = conn_n - 1
  /\ UNCHANGED <<loops, entries, faults, dns_n, accept, max_est>>

HsStep(c) ==
  \/ HandleSocks(c) \/ HandleHttp(c) \/ DnsAcquire(c) \/ DnsReturns(c)
  \/ EstReserve(c) \/ Reply(c) \/ RpAdd(c) \/ Out(c)

RpNext ==
  \/ RpStart \/ RpStopCall \/ AcceptFails
  \/ \E c \in RpConns : AcceptDrops(c) \/ Accepts(c) \/ HsStep(c)
  \/ \E d \in Dirs : DirStep(d) /\ UNCHANGED proxyVars

\* Threads run: every handshake step is bounded by RP_HS_TOTAL_MS, the
\* connect timeout or the resolver's, and a poll by RP_POLL_MS.  Of a plane
\* that was told to stop no thread runs for ever, so that one fairness
\* condition for all of them is enough.
RpThreads ==
  \/ UNCHANGED dir /\ \E c \in RpConns : HsStep(c)
  \/ UNCHANGED proxyVars /\ \E d \in Dirs : DirStep(d)

RpFairness == WF_rpVars(rpStop /\ RpThreads)

RpSpec == RpInit /\ [][RpNext]_rpVars /\ RpFairness

-----------------------------------------------------------------------------
(* Properties.                                                             *)

\* rp_est_reserve, rp_add, out: and rp_reap_maybe count every connection in
\* exactly one place: the established counter is the reservations in flight
\* plus the connections not yet freed, it never passes the cap, and a
\* descriptor is open only where one of them owns it.
EstExact ==
  /\ est_n = Cardinality({c \in RpConns : hs[c].reserved})
             + Cardinality({c \in RpConns : cn[c].mem = "live"})
  /\ est_n <= max_est
  /\ conn_n = Cardinality({c \in RpConns : hs[c].pc \notin {"away", "done"}})
  /\ dns_n = Cardinality({c \in RpConns : hs[c].pc = "resolve"})
  /\ \A c \in RpConns : hs[c].pc = "done" /\ cn[c].mem # "live" => fds[c] = {}

\* A direction thread works outside g_rp_mu only on connections that are not
\* freed and whose sockets are open; every array entry is one its direction
\* has still to retire, and a connection waits only for a retirement or a
\* reference that will come (rp_dir_main, rp_release, rp_reap_maybe).
RefsLive ==
  /\ \A d \in Dirs, c \in RpConns :
       c \in Range(dir[d].snap) \union Range(arr[d]) =>
         cn[c].mem = "live" /\ fds[c] = {"client", "upstream"}
  /\ \A c \in RpConns : cn[c].mem = "live" =>
       /\ cn[c].dirs = Cardinality({d \in Dirs : c \in Range(arr[d])})
       /\ cn[c].in_use = Cardinality({d \in Dirs : c \in Range(dir[d].snap)})
       /\ cn[c].dirs + cn[c].in_use > 0

\* The cached pollset a pass goes on using was built for the same entries in
\* the same places as the pass's snapshot (M6 and M7 in rp_dir_main), so a
\* ready slot is the entry's own socket.
PollsetCurrent ==
  \A d \in Dirs : dir[d].pc = "pass" => Pollset(d) = dir[d].snap

\* Once the plane is told to stop, every connection is closed and freed and
\* the counters return to zero (cleanup: and rp_dir_retire_all).
StopDrains ==
  rpStop ~> /\ est_n = 0 /\ conn_n = 0 /\ dns_n = 0
            /\ \A c \in RpConns : fds[c] = {} /\ cn[c].mem # "live"
=============================================================================
