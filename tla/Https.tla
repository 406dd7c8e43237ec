------------------------------- MODULE Https -------------------------------
(***************************************************************************)
(* One HTTPS round trip of the login (common/https.c): the redirect hops   *)
(* of https_roundtrip, the two trust-store attempts of https_transport,    *)
(* and the IPv6 and IPv4 connect lanes of https_connect_tcp, all inside    *)
(* one deadline.                                                           *)
(*                                                                         *)
(* The thread is sequential: every blocking call is a step, and between    *)
(* two steps the deadline may pass (late).  What a call returns is open:   *)
(* sockets fail, connects are refused or never answer, signals interrupt   *)
(* the poll, the peer fails the handshake or redirects.  The bytes of the  *)
(* response are HttpFrame's.                                               *)
(***************************************************************************)
EXTENDS Naturals, FiniteSets

CONSTANTS MaxAddrs,             \* addresses the resolver returns, per lane
          HTTPS_MAX_REDIRECTS

ASSUME HsAssumption == MaxAddrs \in Nat /\ HTTPS_MAX_REDIRECTS \in Nat

VARIABLES rt,           \* https_roundtrip: hop, is_get, result
          tr,           \* https_transport: attempt, fd, result
          l6, l4,       \* the two lanes of https_connect_tcp
          hpc,          \* where the thread is
          open,         \* descriptors open in the process
          g_https_ctx,  \* the trust stores cached so far
          late,         \* now_ms() >= deadline
          posted,       \* requests written out in full
          again         \* flips with every call that is made again

hsVars == <<rt, tr, l6, l4, hpc, open, g_https_ctx, late, posted, again>>

NoFd == 0
Lane(n, fd, waiting, failed) ==
    [next |-> n, fd |-> fd, waiting |-> waiting, failed |-> failed]
Idle == Lane(0, NoFd, FALSE, FALSE)
NoTransport == [attempt |-> 0, fd |-> NoFd, ok |-> FALSE]

\* https_post or https_get.
HsInit ==
    /\ \E get \in BOOLEAN :
          rt = [hop |-> 0, is_get |-> get, rc |-> "none"]
    /\ tr = NoTransport /\ l6 = Idle /\ l4 = Idle /\ hpc = "hop"
    /\ open = {} /\ late = FALSE /\ posted = 0 /\ again = FALSE
    /\ g_https_ctx \in SUBSET {"system", "fallback"}

\* socket(): the lowest free descriptor; the round trip never holds three.
NewSocket(o) == CHOOSE f \in 1 .. 3 : f \notin o /\ 1 .. (f - 1) \subseteq o

\* he_lane_start on the addresses still to try: those whose socket or connect
\* fails at once are skipped, the first other one is left in flight.
LaneStart(ln, o) ==
    {[ln |-> Lane(0, NoFd, FALSE, TRUE), o |-> o \ {ln.fd}]} \cup
    {[ln |-> Lane(m, NewSocket(o), TRUE, FALSE), o |-> o \cup {NewSocket(o)}]
        : m \in 0 .. (ln.next - 1)}

RetireKeepsFd(ln, o) ==
    LaneStart([ln EXCEPT !.fd = NoFd, !.waiting = FALSE], o)

\* The in-flight socket of a lane is closed and its next address tried.
Retire(ln, o) ==
    LaneStart([ln EXCEPT !.fd = NoFd, !.waiting = FALSE], o \ {ln.fd})

InFlight(ln) == ln.waiting /\ ln.fd # NoFd

At(s) == hpc = s
Goto(s) == hpc' = s

\* The top of https_roundtrip's hop loop; https_req_build may refuse.
Hop ==
    /\ At("hop")
    /\ \/ /\ rt.hop > HTTPS_MAX_REDIRECTS \/ late
          /\ Goto("done") /\ rt' = [rt EXCEPT !.rc = "failed"]
          /\ UNCHANGED tr
       \/ /\ rt.hop <= HTTPS_MAX_REDIRECTS /\ ~late
          /\ \/ Goto("attempt") /\ tr' = NoTransport /\ UNCHANGED rt
             \/ /\ Goto("done") /\ rt' = [rt EXCEPT !.rc = "failed"]
                /\ UNCHANGED tr
    /\ UNCHANGED <<l6, l4, open, g_https_ctx, late, posted, again>>

Store == IF tr.attempt = 1 THEN "fallback" ELSE "system"

\* https_ctx_get: the cached store, or a new one; the system's may be unusable.
CtxGet ==
    /\ At("attempt")
    /\ \/ /\ Goto("resolve")
          /\ g_https_ctx' = g_https_ctx \cup {Store} /\ UNCHANGED tr
       \/ /\ Store \notin g_https_ctx /\ UNCHANGED g_https_ctx
          /\ IF tr.attempt = 0
             THEN tr' = [tr EXCEPT !.attempt = 1] /\ Goto("attempt")
             ELSE Goto("out") /\ UNCHANGED tr
    /\ UNCHANGED <<rt, l6, l4, open, late, posted, again>>

\* getaddrinfo, the split of its list in two lanes, both lanes started.
Resolve ==
    /\ At("resolve")
    /\ \/ Goto("out") /\ UNCHANGED <<l6, l4, open>>
       \/ \E n6, n4 \in 0 .. MaxAddrs :
          \E a \in LaneStart(Lane(n6, NoFd, FALSE, FALSE), open) :
          \E b \in LaneStart(Lane(n4, NoFd, FALSE, FALSE), a.o) :
             /\ n6 + n4 > 0
             /\ l6' = a.ln /\ l4' = b.ln /\ open' = b.o
             /\ Goto("lanes")
    /\ UNCHANGED <<rt, tr, g_https_ctx, late, posted, again>>

WinKeepsLoser(fd, a, b, o) == o
\* The loser's socket is closed, or both when nobody won.
Win(fd, a, b, o) == o \ ({a.fd, b.fd} \ {fd})

\* The end of https_connect_tcp for the lanes a (IPv6) and b: only the winner
\* fd survives, made blocking again; when that fails it is closed too.
Connected(fd, a, b, o) ==
    /\ \/ /\ fd # NoFd /\ Goto("ssl") /\ open' = Win(fd, a, b, o)
          /\ tr' = [tr EXCEPT !.fd = fd]
       \/ /\ Goto("out") /\ open' = Win(fd, a, b, o) \ {fd}
          /\ UNCHANGED tr
    /\ l6' = Idle /\ l4' = Idle

\* The loop's top: the deadline, then nothing left in flight.
Lanes ==
    /\ At("lanes")
    /\ IF (l6.failed /\ l4.failed) \/ late \/ ~(InFlight(l6) \/ InFlight(l4))
       THEN Connected(NoFd, l6, l4, open)
       ELSE Goto("poll") /\ UNCHANGED <<l6, l4, tr, open>>
    /\ UNCHANGED <<rt, g_https_ctx, late, posted, again>>

PollSpins == again' = ~again /\ UNCHANGED <<l6, l4, tr, open, hpc>>
\* An interrupted poll is retried while the deadline has not passed.
PollInterrupted ==
    IF late THEN Connected(NoFd, l6, l4, open) /\ UNCHANGED again
    ELSE again' = ~again /\ UNCHANGED <<l6, l4, tr, open, hpc>>

\* The poll ran out or failed: both lanes move to their next addresses.
PollEmpty ==
    /\ \E a \in IF InFlight(l6) THEN Retire(l6, open)
                ELSE {[ln |-> l6, o |-> open]} :
       \E b \in IF InFlight(l4) THEN Retire(l4, a.o)
                ELSE {[ln |-> l4, o |-> a.o]} :
          l6' = a.ln /\ l4' = b.ln /\ open' = b.o
    /\ Goto("lanes") /\ UNCHANGED tr

\* he_lane_check of a lane the poll reported: SO_ERROR 0 wins and the socket
\* stays, anything else retires it.
Checked(ln, reported, won, o) ==
    IF ~reported THEN {[ln |-> ln, o |-> o]}
    ELSE IF won THEN {[ln |-> [ln EXCEPT !.waiting = FALSE], o |-> o]}
    ELSE Retire(ln, o)

\* Sockets reported (in), of which connected ones (up): IPv4 is checked first
\* and, when it has connected, IPv6 is not looked at.
PollReports ==
    \E in \in SUBSET {6, 4} : \E up \in SUBSET in :
        /\ in # {} /\ (6 \in in => InFlight(l6)) /\ (4 \in in => InFlight(l4))
        /\ \E b \in Checked(l4, 4 \in in, 4 \in up, open) :
           \E a \in Checked(l6, 6 \in in /\ 4 \notin up, 6 \in up, b.o) :
              IF up # {}
              THEN Connected(IF 4 \in up THEN l4.fd ELSE l6.fd, a.ln, b.ln, a.o)
              ELSE /\ l4' = b.ln /\ l6' = a.ln /\ open' = a.o
                   /\ Goto("lanes") /\ UNCHANGED tr

Poll ==
    /\ At("poll")
    /\ PollInterrupted \/ ((PollEmpty \/ PollReports) /\ UNCHANGED again)
    /\ UNCHANGED <<rt, g_https_ctx, late, posted>>

SslNew ==
    /\ At("ssl")
    /\ Goto("tls") \/ Goto("out")
    /\ UNCHANGED <<rt, tr, l6, l4, open, g_https_ctx, late, posted, again>>

RetriesForgetFd == UNCHANGED open
\* Attempt 1 failed on a missing anchor: its session and socket are freed.
RetriesWithBundled == open' = open \ {tr.fd}

\* A socket timeout, a signal or a short count: the call is made again.
Retried == ~late /\ again' = ~again /\ UNCHANGED <<hpc, tr, open, posted>>

\* https_tls_connect: done, a chain whose anchor the system store lacks, or
\* another failure.
TlsConnect ==
    /\ At("tls")
    /\ \/ Retried
       \/ /\ \/ ~late /\ Goto("write") /\ UNCHANGED <<tr, open>>
             \/ /\ ~late /\ tr.attempt = 0 /\ RetriesWithBundled
                /\ tr' = [NoTransport EXCEPT !.attempt = 1] /\ Goto("attempt")
             \/ Goto("out") /\ UNCHANGED <<tr, open>>
          /\ UNCHANGED <<posted, again>>
    /\ UNCHANGED <<rt, l6, l4, g_https_ctx, late>>

\* https_tls_write: a send timeout is final.
TlsWrite ==
    /\ At("write")
    /\ \/ Retried
       \/ /\ \/ ~late /\ Goto("read") /\ posted' = posted + 1
             \/ Goto("out") /\ UNCHANGED posted
          /\ UNCHANGED <<tr, open, again>>
    /\ UNCHANGED <<rt, l6, l4, g_https_ctx, late>>

\* https_tls_read: more to read, the response, a failure.
TlsRead ==
    /\ At("read")
    /\ \/ Retried
       \/ /\ \/ ~late /\ tr' = [tr EXCEPT !.ok = TRUE]
             \/ UNCHANGED tr
          /\ Goto("out") /\ UNCHANGED <<open, posted, again>>
    /\ UNCHANGED <<rt, l6, l4, g_https_ctx, late>>

FollowsAny == TRUE
\* A redirect is followed for a GET only, even where the method is preserved.
Follows == rt.is_get

\* The out: label of https_transport, and what https_roundtrip makes of it.
Out ==
    /\ At("out")
    /\ open' = open \ {tr.fd} /\ tr' = NoTransport
    /\ \/ /\ tr.ok /\ Follows
          /\ rt' = [rt EXCEPT !.hop = @ + 1] /\ Goto("hop")
       \/ /\ tr.ok /\ Goto("done") /\ rt' = [rt EXCEPT !.rc = "ok"]
       \/ Goto("done") /\ rt' = [rt EXCEPT !.rc = "failed"]
    /\ UNCHANGED <<l6, l4, g_https_ctx, late, posted, again>>

HsReturned == At("done") /\ UNCHANGED hsVars

\* HTTPS_TIMEOUT_MS after the round trip began.
DeadlinePasses ==
    /\ ~late /\ ~At("done") /\ late' = TRUE
    /\ UNCHANGED <<rt, tr, l6, l4, hpc, open, g_https_ctx, posted, again>>

HsStep ==
    \/ Hop \/ CtxGet \/ Resolve \/ Lanes \/ Poll \/ SslNew
    \/ TlsConnect \/ TlsWrite \/ TlsRead \/ Out

HsNext == HsStep \/ DeadlinePasses \/ HsReturned

HsSpec == HsInit /\ [][HsNext]_hsVars /\ WF_hsVars(HsStep)
                 /\ WF_hsVars(DeadlinePasses)

-----------------------------------------------------------------------------
\* Every socket the round trip opens is held by a lane or by the transport,
\* which closes it: when https_roundtrip returns, none is left open, whichever
\* lane won and whichever attempt, hop or deadline ended it; and the socket of
\* a lane in flight or of a session in use is never a closed one.
SocketsOwned ==
    /\ open = {l6.fd, l4.fd, tr.fd} \ {NoFd}
    /\ At("write") \/ At("read") => open = {tr.fd}
    /\ At("done") => open = {}

\* The body of a POST (the token exchange with its one-use code) is written
\* out in full at most once per round trip: neither the retry with the bundled
\* trust store nor a redirect sends it again.
PostedOnce ==
    posted <= IF rt.is_get THEN HTTPS_MAX_REDIRECTS + 1 ELSE 1

\* A round trip leaves no socket behind and posts its body at most once
\* (https_connect_tcp, https_transport, https_roundtrip).
RoundTripSound == SocketsOwned /\ PostedOnce
=============================================================================
