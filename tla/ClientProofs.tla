---------------------------- MODULE ClientProofs ----------------------------
(* Proofs about the client's round trips, its OIDC login and the host's    *)
(* routes.                                                                 *)
EXTENDS RouteLinux, Https, OidcFetch, TLAPS

-----------------------------------------------------------------------------
\* The descriptors of one transport: none, or that of one of the lanes.
Fds == 0 .. 3

\* The state of one of the two address-family lanes.
LaneT == [next : Nat, fd : Fds, waiting : BOOLEAN, failed : BOOLEAN]

\* Where each socket is held, place by place: none at the top of a hop or of an
\* attempt, one per lane in flight while the lanes run, the winner's from there
\* to the end of the transport.
HeldAt ==
    /\ hpc \in {"hop", "attempt", "resolve", "done"} =>
          l6.fd = NoFd /\ l4.fd = NoFd /\ tr.fd = NoFd
    /\ hpc \in {"lanes", "poll"} =>
          tr.fd = NoFd /\ (l6.fd = l4.fd => l6.fd = NoFd)
    /\ hpc \in {"ssl", "tls", "write", "read"} =>
          l6.fd = NoFd /\ l4.fd = NoFd /\ tr.fd # NoFd
    /\ hpc = "out" => l6.fd = NoFd /\ l4.fd = NoFd

\* How much a round trip can have written out by then: one request per hop.
PostedAt ==
    /\ hpc \in {"hop", "attempt", "resolve", "lanes", "poll", "ssl", "tls", "write"} =>
          posted <= rt.hop
    /\ hpc \in {"read", "out", "done"} => posted <= rt.hop + 1
    /\ hpc = "hop" => rt.hop <= HTTPS_MAX_REDIRECTS + 1
    /\ hpc \notin {"hop", "done"} => rt.hop <= HTTPS_MAX_REDIRECTS
    /\ hpc = "done" => posted <= HTTPS_MAX_REDIRECTS + 1
    /\ ~rt.is_get => rt.hop = 0

\* The types of the round trip's variables.
HsType ==
    /\ hpc \in {"hop", "attempt", "resolve", "lanes", "poll", "ssl", "tls",
                "write", "read", "out", "done"}
    /\ rt \in [hop : Nat, is_get : BOOLEAN, rc : {"none", "ok", "failed"}]
    /\ tr \in [attempt : {0, 1}, fd : Fds, ok : BOOLEAN]
    /\ l6 \in LaneT /\ l4 \in LaneT
    /\ posted \in Nat

\* The strengthening of RoundTripSound.
HsInv ==
    /\ HsType /\ HeldAt /\ PostedAt
    /\ open = {l6.fd, l4.fd, tr.fd} \ {NoFd}

\* socket() with at most one descriptor open: a new one.
LEMMA NewSocketIsNew ==
    ASSUME NEW x \in Fds
    PROVE  LET o == {x} \ {NoFd}
           IN  NewSocket(o) \in Fds \ {NoFd} /\ NewSocket(o) \notin o
<1> DEFINE o == {x} \ {NoFd}
<1>1. \E f \in 1 .. 3 : f \notin o /\ 1 .. (f - 1) \subseteq o
  <2>1. CASE x = 1
    <3>1. 2 \notin o /\ 1 .. (2 - 1) \subseteq o
      BY <2>1 DEF NoFd
    <3> QED
      BY <3>1
  <2>2. CASE x # 1
    <3>1. 1 \notin o /\ 1 .. (1 - 1) \subseteq o
      BY <2>2 DEF NoFd
    <3> QED
      BY <3>1
  <2> QED
    BY <2>1, <2>2, Zenon
<1>2. NewSocket(o) \in 1 .. 3 /\ NewSocket(o) \notin o
  BY <1>1, Zenon DEF NewSocket
<1> QED
  BY <1>2 DEF Fds, NoFd

\* What a lane and the table of descriptors are after a lane was touched, x
\* being the descriptor of the other lane.
Settled(r, x) ==
    /\ r.ln \in LaneT
    /\ r.o = {x, r.ln.fd} \ {NoFd}
    /\ r.ln.fd = x => x = NoFd

\* he_lane_start leaves the lane with a socket of its own, or with none.
LEMMA LaneStarts ==
    ASSUME NEW ln \in LaneT, ln.fd = NoFd, NEW x \in Fds,
           NEW r \in LaneStart(ln, {x} \ {NoFd})
    PROVE  Settled(r, x)
<1> DEFINE o == {x} \ {NoFd}
           s == NewSocket(o)
<1>1. s \in Fds \ {NoFd} /\ s \notin o
  BY NewSocketIsNew, Zenon
<1>2. CASE r = [ln |-> Lane(0, NoFd, FALSE, TRUE), o |-> o \ {ln.fd}]
  BY <1>2, Zenon DEF Settled, Lane, LaneT, Fds, NoFd
<1>3. ASSUME NEW m \in 0 .. (ln.next - 1),
             r = [ln |-> Lane(m, s, TRUE, FALSE), o |-> o \cup {s}]
      PROVE  Settled(r, x)
  <2> HIDE DEF s
  <2>1. m \in Nat
    BY DEF LaneT
  <2> QED
    BY <1>1, <1>3, <2>1, Zenon DEF Settled, Lane, LaneT
<1> QED
  BY <1>2, <1>3, Zenon DEF LaneStart

\* A lane retired: its socket is closed before it tries the next address.
LEMMA LaneRetires ==
    ASSUME NEW ln \in LaneT, NEW x \in Fds, ln.fd = x => x = NoFd,
           NEW r \in Retire(ln, {x, ln.fd} \ {NoFd})
    PROVE  Settled(r, x)
<1> DEFINE c == [ln EXCEPT !.fd = NoFd, !.waiting = FALSE]
<1>1. c \in LaneT /\ c.fd = NoFd
  <2>1. NoFd \in Fds
    BY DEF Fds, NoFd
  <2> QED
    BY <2>1, Zenon DEF LaneT
<1>2. ({x, ln.fd} \ {NoFd}) \ {ln.fd} = {x} \ {NoFd}
  BY Zenon
<1>3. r \in LaneStart(c, {x} \ {NoFd})
  BY <1>2, Zenon DEF Retire
<1> HIDE DEF c
<1> QED
  BY <1>1, <1>3, LaneStarts, Zenon

\* A lane checked: untouched, won with its socket kept, or retired.
LEMMA LaneChecked ==
    ASSUME NEW ln \in LaneT, NEW x \in Fds, ln.fd = x => x = NoFd,
           NEW reported \in BOOLEAN, NEW won \in BOOLEAN,
           NEW r \in Checked(ln, reported, won, {x, ln.fd} \ {NoFd})
    PROVE  /\ Settled(r, x)
           /\ ~reported \/ won => r.ln.fd = ln.fd
<1>1. CASE ~reported
  BY <1>1 DEF Checked, Settled
<1>2. CASE reported /\ won
  <2> DEFINE w == [ln EXCEPT !.waiting = FALSE]
  <2>1. w \in LaneT /\ w.fd = ln.fd
    BY Zenon DEF LaneT
  <2>2. r = [ln |-> w, o |-> {x, ln.fd} \ {NoFd}]
    BY <1>2, Zenon DEF Checked
  <2> HIDE DEF w
  <2> QED
    BY <1>2, <2>1, <2>2, Zenon DEF Settled
<1>3. CASE reported /\ ~won
  BY <1>3, LaneRetires, Zenon DEF Checked
<1> QED
  BY <1>1, <1>2, <1>3, Zenon

\* A lane before its first address is of its type.
LEMMA IdleLane == Idle \in LaneT /\ Idle.fd = NoFd /\ NoFd \in Fds
  BY DEF Idle, Lane, LaneT, Fds, NoFd

\* The transport before the first attempt is of its type.
LEMMA NoTransportType ==
    /\ NoTransport \in [attempt : {0, 1}, fd : Fds, ok : BOOLEAN]
    /\ NoTransport.fd = NoFd
  BY IdleLane, Zenon DEF NoTransport

\* The end of https_connect_tcp: of the two lanes' sockets only the winner's
\* is left, and the transport has it.
LEMMA ConnectEnds ==
    ASSUME HsInv, hpc \in {"lanes", "poll"},
           NEW a \in LaneT, NEW b \in LaneT, NEW o, o = {a.fd, b.fd} \ {NoFd},
           NEW fd \in {a.fd, b.fd, NoFd}, Connected(fd, a, b, o),
           UNCHANGED <<rt, posted>>
    PROVE  HsInv'
<1>1. /\ l6' = Idle /\ l4' = Idle
      /\ tr \in [attempt : {0, 1}, fd : Fds, ok : BOOLEAN] /\ tr.fd = NoFd
      /\ fd \in Fds
  BY IdleLane, Zenon DEF Connected, HsInv, HsType, HeldAt, LaneT
<1>2. CASE /\ fd # NoFd /\ hpc' = "ssl" /\ open' = Win(fd, a, b, o)
           /\ tr' = [tr EXCEPT !.fd = fd]
  <2>1. tr' \in [attempt : {0, 1}, fd : Fds, ok : BOOLEAN] /\ tr'.fd = fd
    BY <1>1, <1>2, Zenon
  <2>2. open' = {fd}
    BY <1>2, Zenon DEF Win
  <2>3. open' = {l6'.fd, l4'.fd, tr'.fd} \ {NoFd}
    BY <1>1, <1>2, <2>1, <2>2, IdleLane, Zenon
  <2>4. HsType' /\ HeldAt'
    BY <1>1, <1>2, <2>1, IdleLane, Zenon DEF HsInv, HsType, HeldAt
  <2>5. PostedAt'
    BY <1>2, Zenon DEF HsInv, PostedAt
  <2> QED
    BY <2>3, <2>4, <2>5, Zenon DEF HsInv
<1>3. CASE /\ hpc' = "out" /\ open' = Win(fd, a, b, o) \ {fd} /\ tr' = tr
  <2>1. open' = {}
    BY <1>3, Zenon DEF Win
  <2>2. open' = {l6'.fd, l4'.fd, tr'.fd} \ {NoFd}
    BY <1>1, <1>3, <2>1, IdleLane, Zenon
  <2>3. HsType' /\ HeldAt'
    BY <1>1, <1>3, IdleLane, Zenon DEF HsInv, HsType, HeldAt
  <2>4. PostedAt'
    BY <1>3 DEF HsInv, HsType, PostedAt
  <2> QED
    BY <2>2, <2>3, <2>4, Zenon DEF HsInv
<1> QED
  BY <1>2, <1>3, Zenon DEF Connected, Goto

\* Both lanes moved on: the loop's top is entered with what they hold.
LEMMA LanesMove ==
    ASSUME HsInv, hpc \in {"resolve", "poll"}, hpc' = "lanes",
           l6' \in LaneT, l4' \in LaneT, l6'.fd = l4'.fd => l6'.fd = NoFd,
           open' = {l6'.fd, l4'.fd} \ {NoFd}, UNCHANGED <<rt, tr, posted>>
    PROVE  HsInv'
<1>1. tr.fd = NoFd
  BY Zenon DEF HsInv, HeldAt
<1>2. HsType' /\ HeldAt'
  BY <1>1, Zenon DEF HsInv, HsType, HeldAt
<1>3. PostedAt'
  BY Zenon DEF HsInv, PostedAt
<1>4. open' = {l6'.fd, l4'.fd, tr'.fd} \ {NoFd}
  BY <1>1, Zenon
<1> QED
  BY <1>2, <1>3, <1>4, Zenon DEF HsInv

\* The resolved addresses keep the accounting of descriptors.
LEMMA ResolveKeeps == ASSUME HsInv, Resolve PROVE HsInv'
<1>1. /\ hpc = "resolve" /\ UNCHANGED <<rt, tr, posted>> /\ open = {}
      /\ l6.fd = NoFd /\ l4.fd = NoFd /\ tr.fd = NoFd
  BY Zenon DEF Resolve, At, HsInv, HeldAt
<1>2. CASE hpc' = "out" /\ UNCHANGED <<l6, l4, open>>
  BY <1>1, <1>2 DEF HsInv, HsType, HeldAt, PostedAt
<1>3. ASSUME NEW n6 \in 0 .. MaxAddrs, NEW n4 \in 0 .. MaxAddrs,
             NEW a \in LaneStart(Lane(n6, NoFd, FALSE, FALSE), open),
             NEW b \in LaneStart(Lane(n4, NoFd, FALSE, FALSE), a.o),
             l6' = a.ln, l4' = b.ln, open' = b.o, hpc' = "lanes"
      PROVE  HsInv'
  <2>1. \A n \in 0 .. MaxAddrs : /\ Lane(n, NoFd, FALSE, FALSE) \in LaneT
                                 /\ Lane(n, NoFd, FALSE, FALSE).fd = NoFd
    BY HsAssumption DEF Lane, LaneT, Fds, NoFd
  <2>2. open = {NoFd} \ {NoFd} /\ NoFd \in Fds
    BY <1>1, IdleLane, Zenon
  <2>3. Settled(a, NoFd)
    BY <2>1, <2>2, LaneStarts, Zenon
  <2>4. a.ln.fd \in Fds /\ a.o = {a.ln.fd} \ {NoFd}
    BY <2>3, Zenon DEF Settled, LaneT
  <2>5. Settled(b, a.ln.fd)
    BY <2>1, <2>4, LaneStarts, Zenon
  <2> QED
    BY <1>1, <1>3, <2>3, <2>5, LanesMove, Zenon DEF Settled
<1> QED
  BY <1>2, <1>3, Zenon DEF Resolve, Goto

\* A poll over the lanes keeps the accounting: the loser is closed.
LEMMA PollKeeps == ASSUME HsInv, Poll PROVE HsInv'
<1>1. /\ hpc = "poll" /\ UNCHANGED <<rt, posted>>
      /\ l6 \in LaneT /\ l4 \in LaneT /\ l6.fd \in Fds /\ l4.fd \in Fds
      /\ l6.fd = l4.fd => l6.fd = NoFd
      /\ tr.fd = NoFd /\ open = {l6.fd, l4.fd} \ {NoFd}
  BY DEF Poll, At, HsInv, HsType, HeldAt, LaneT
<1>2. CASE Connected(NoFd, l6, l4, open)
  BY <1>1, <1>2, ConnectEnds, Zenon
<1>3. CASE UNCHANGED <<l6, l4, tr, open, hpc>>
  BY <1>1, <1>3, Zenon DEF HsInv, HsType, HeldAt, PostedAt
<1>4. CASE PollEmpty
  <2>1. PICK a \in IF InFlight(l6) THEN Retire(l6, open)
                   ELSE {[ln |-> l6, o |-> open]} :
             \E b \in IF InFlight(l4) THEN Retire(l4, a.o)
                      ELSE {[ln |-> l4, o |-> a.o]} :
                l6' = a.ln /\ l4' = b.ln /\ open' = b.o
    BY <1>4, Zenon DEF PollEmpty
  <2>2. Settled(a, l4.fd)
    <3>1. CASE InFlight(l6)
      BY <1>1, <2>1, <3>1, LaneRetires, ZenonT(60)
    <3>2. CASE ~InFlight(l6)
      BY <1>1, <2>1, <3>2 DEF Settled
    <3> QED
      BY <3>1, <3>2, Zenon
  <2>3. PICK b \in IF InFlight(l4) THEN Retire(l4, a.o)
                   ELSE {[ln |-> l4, o |-> a.o]} :
                l6' = a.ln /\ l4' = b.ln /\ open' = b.o
    BY <2>1, Zenon
  <2>4. /\ a.ln \in LaneT /\ a.ln.fd \in Fds
        /\ a.o = {a.ln.fd, l4.fd} \ {NoFd} /\ (l4.fd = a.ln.fd => a.ln.fd = NoFd)
    BY <2>2, Zenon DEF Settled, LaneT
  <2>5. Settled(b, a.ln.fd)
    <3>1. CASE InFlight(l4)
      BY <1>1, <2>3, <2>4, <3>1, LaneRetires, Zenon
    <3>2. CASE ~InFlight(l4)
      BY <1>1, <2>3, <2>4, <3>2 DEF Settled
    <3> QED
      BY <3>1, <3>2, Zenon
  <2> QED
    BY <1>1, <1>4, <2>3, <2>4, <2>5, LanesMove, Zenon DEF Settled, PollEmpty, Goto
<1>5. CASE PollReports
  <2>1. PICK in \in SUBSET {6, 4}, up \in SUBSET {6, 4} :
          up \subseteq in /\
          \E b \in Checked(l4, 4 \in in, 4 \in up, open) :
          \E a \in Checked(l6, 6 \in in /\ 4 \notin up, 6 \in up, b.o) :
             IF up # {}
             THEN Connected(IF 4 \in up THEN l4.fd ELSE l6.fd, a.ln, b.ln, a.o)
             ELSE /\ l4' = b.ln /\ l6' = a.ln /\ open' = a.o
                  /\ Goto("lanes") /\ UNCHANGED tr
    BY <1>5, Zenon DEF PollReports
  <2>2. PICK b \in Checked(l4, 4 \in in, 4 \in up, open) :
          \E a \in Checked(l6, 6 \in in /\ 4 \notin up, 6 \in up, b.o) :
             IF up # {}
             THEN Connected(IF 4 \in up THEN l4.fd ELSE l6.fd, a.ln, b.ln, a.o)
             ELSE /\ l4' = b.ln /\ l6' = a.ln /\ open' = a.o
                  /\ Goto("lanes") /\ UNCHANGED tr
    BY <2>1, Zenon
  <2>3. PICK a \in Checked(l6, 6 \in in /\ 4 \notin up, 6 \in up, b.o) :
             IF up # {}
             THEN Connected(IF 4 \in up THEN l4.fd ELSE l6.fd, a.ln, b.ln, a.o)
             ELSE /\ l4' = b.ln /\ l6' = a.ln /\ open' = a.o
                  /\ Goto("lanes") /\ UNCHANGED tr
    BY <2>2, Zenon
  <2>4. Settled(b, l6.fd) /\ (4 \in up => b.ln.fd = l4.fd)
    <3> DEFINE rep == 4 \in in
               won == 4 \in up
    <3>1. rep \in BOOLEAN /\ won \in BOOLEAN /\ b \in Checked(l4, rep, won, open)
      BY <2>2
    <3> HIDE DEF rep, won
    <3>2. Settled(b, l6.fd) /\ (won => b.ln.fd = l4.fd)
      BY <1>1, <3>1, LaneChecked
    <3> QED
      BY <3>2, Zenon DEF won
  <2>5. /\ b.ln \in LaneT /\ b.ln.fd \in Fds
        /\ b.o = {b.ln.fd, l6.fd} \ {NoFd} /\ (l6.fd = b.ln.fd => b.ln.fd = NoFd)
    BY <2>4, Zenon DEF Settled, LaneT
  <2>6. Settled(a, b.ln.fd) /\ (6 \in up => a.ln.fd = l6.fd)
    <3> DEFINE rep == 6 \in in /\ 4 \notin up
               won == 6 \in up
    <3>1. rep \in BOOLEAN /\ won \in BOOLEAN /\ a \in Checked(l6, rep, won, b.o)
      BY <2>3
    <3> HIDE DEF rep, won
    <3>2. a \in Checked(l6, rep, won, {b.ln.fd, l6.fd} \ {NoFd})
      BY <2>5, <3>1, Zenon
    <3>3. Settled(a, b.ln.fd) /\ (won => a.ln.fd = l6.fd)
      <4> DEFINE x == b.ln.fd
      <4>1. x \in Fds /\ (l6.fd = x => x = NoFd) /\ l6 \in LaneT
            /\ a \in Checked(l6, rep, won, {x, l6.fd} \ {NoFd})
        BY <1>1, <2>5, <3>2, Zenon
      <4> HIDE DEF x
      <4>2. Settled(a, x) /\ (won => a.ln.fd = l6.fd)
        BY <3>1, <4>1, LaneChecked, SMTT(60)
      <4> QED
        BY <4>2, Zenon DEF x
    <3> QED
      BY <3>3, Zenon DEF won
  <2>7. CASE up # {}
    <3> DEFINE fd == IF 4 \in up THEN l4.fd ELSE l6.fd
    <3>1. fd \in {a.ln.fd, b.ln.fd, NoFd}
      BY <2>1, <2>4, <2>6, <2>7, Zenon
    <3>2. Connected(fd, a.ln, b.ln, a.o)
      BY <2>3, <2>7, Zenon
    <3>3. a.ln \in LaneT /\ a.o = {a.ln.fd, b.ln.fd} \ {NoFd}
      BY <2>6, Zenon DEF Settled
    <3> HIDE DEF fd
    <3> QED
      BY <1>1, <2>5, <3>1, <3>2, <3>3, ConnectEnds, SMTT(60), Z3T(60)
  <2>8. CASE up = {}
    BY <1>1, <2>3, <2>5, <2>6, <2>8, LanesMove, ZenonT(60) DEF Settled, Goto
  <2> QED
    BY <2>7, <2>8, Zenon
<1> QED
  BY <1>2, <1>3, <1>4, <1>5, Zenon DEF Poll, PollInterrupted

\* Starting the lanes keeps the accounting.
LEMMA LanesKeeps == ASSUME HsInv, Lanes PROVE HsInv'
<1>1. /\ hpc = "lanes" /\ UNCHANGED <<rt, posted>>
      /\ l6 \in LaneT /\ l4 \in LaneT
      /\ tr.fd = NoFd /\ open = {l6.fd, l4.fd} \ {NoFd}
  BY Zenon DEF Lanes, At, HsInv, HsType, HeldAt
<1>2. CASE Connected(NoFd, l6, l4, open)
  BY <1>1, <1>2, ConnectEnds, Zenon
<1>3. CASE hpc' = "poll" /\ UNCHANGED <<l6, l4, tr, open>>
  BY <1>1, <1>3, Zenon DEF HsInv, HsType, HeldAt, PostedAt
<1> QED
  BY <1>2, <1>3, Zenon DEF Lanes, Goto

\* Steps that touch neither a socket nor the count of requests.
LEMMA QuietKeeps ==
    ASSUME HsInv, UNCHANGED <<l6, l4, open, posted>>,
           Hop \/ CtxGet \/ SslNew \/ TlsRead
    PROVE  HsInv'
<1>1. CASE Hop
  <2>1. rt' \in [hop : Nat, is_get : BOOLEAN, rc : {"none", "ok", "failed"}]
        /\ rt'.hop = rt.hop /\ rt'.is_get = rt.is_get
    BY <1>1, ZenonT(60) DEF Hop, HsInv, HsType
  <2>2. tr' \in [attempt : {0, 1}, fd : Fds, ok : BOOLEAN] /\ tr'.fd = NoFd
        /\ tr.fd = NoFd
    BY <1>1, NoTransportType, ZenonT(60) DEF Hop, At, HsInv, HsType, HeldAt
  <2>3. /\ hpc = "hop"
        /\ \/ hpc' = "done"
           \/ hpc' = "attempt" /\ rt.hop <= HTTPS_MAX_REDIRECTS
    BY <1>1, Zenon DEF Hop, At, Goto
  <2>4. HsType' /\ HeldAt'
    BY <2>1, <2>2, <2>3, Zenon DEF HsInv, HsType, HeldAt
  <2>5. posted \in Nat /\ rt.hop \in Nat
    BY Zenon DEF HsInv, HsType
  <2>6. PostedAt'
    BY <2>1, <2>3, <2>5, HsAssumption DEF HsInv, PostedAt
  <2> QED
    BY <2>2, <2>4, <2>6, Zenon DEF HsInv
<1>2. CASE CtxGet
  <2>1. /\ hpc = "attempt" /\ hpc' \in {"resolve", "attempt", "out"} /\ rt' = rt
        /\ tr' \in [attempt : {0, 1}, fd : Fds, ok : BOOLEAN] /\ tr'.fd = tr.fd
    BY <1>2, ZenonT(60) DEF CtxGet, At, Goto, HsInv, HsType
  <2>2. posted \in Nat /\ rt.hop \in Nat
    BY Zenon DEF HsInv, HsType
  <2>3. PostedAt'
    BY <2>1, <2>2 DEF HsInv, PostedAt
  <2>4. HsType' /\ HeldAt'
    BY <2>1, Zenon DEF HsInv, HsType, HeldAt
  <2> QED
    BY <2>1, <2>3, <2>4, Zenon DEF HsInv
<1>3. CASE SslNew
  <2>1. hpc = "ssl" /\ hpc' \in {"tls", "out"} /\ rt' = rt /\ tr' = tr
    BY <1>3, Zenon DEF SslNew, At, Goto
  <2>2. posted \in Nat /\ rt.hop \in Nat
    BY Zenon DEF HsInv, HsType
  <2>3. PostedAt'
    BY <2>1, <2>2 DEF HsInv, PostedAt
  <2>4. HsType' /\ HeldAt'
    BY <2>1, Zenon DEF HsInv, HsType, HeldAt
  <2> QED
    BY <2>1, <2>3, <2>4, Zenon DEF HsInv
<1>4. CASE TlsRead
  <2>1. /\ hpc = "read" /\ hpc' \in {"read", "out"} /\ rt' = rt
        /\ tr' \in [attempt : {0, 1}, fd : Fds, ok : BOOLEAN] /\ tr'.fd = tr.fd
    BY <1>4, Zenon DEF TlsRead, Retried, At, Goto, HsInv, HsType
  <2>2. HsType' /\ HeldAt'
    BY <2>1, Zenon DEF HsInv, HsType, HeldAt
  <2>3. PostedAt'
    BY <2>1, Zenon DEF HsInv, PostedAt
  <2> QED
    BY <2>1, <2>2, <2>3, Zenon DEF HsInv
<1> QED
  BY <1>1, <1>2, <1>3, <1>4, Zenon

\* The retry with the bundled store closes the socket of the failed handshake.
LEMMA TlsConnectKeeps == ASSUME HsInv, TlsConnect PROVE HsInv'
<1>1. /\ hpc = "tls" /\ UNCHANGED <<rt, l6, l4, posted>>
      /\ l6.fd = NoFd /\ l4.fd = NoFd /\ tr.fd # NoFd /\ open = {tr.fd}
  BY Zenon DEF TlsConnect, Retried, At, HsInv, HeldAt
<1>2. posted \in Nat /\ rt.hop \in Nat
  BY Zenon DEF HsInv, HsType
<1>3. CASE UNCHANGED <<tr, open>> /\ hpc' \in {"tls", "write", "out"}
  <2>1. PostedAt'
    BY <1>1, <1>2, <1>3 DEF HsInv, PostedAt
  <2>2. HsType' /\ HeldAt'
    BY <1>1, <1>3, Zenon DEF HsInv, HsType, HeldAt
  <2> QED
    BY <1>1, <1>3, <2>1, <2>2, Zenon DEF HsInv
<1>4. CASE /\ open' = open \ {tr.fd} /\ hpc' = "attempt"
           /\ tr' = [NoTransport EXCEPT !.attempt = 1]
  <2>1. tr' \in [attempt : {0, 1}, fd : Fds, ok : BOOLEAN] /\ tr'.fd = NoFd
    BY <1>4, NoTransportType, Zenon
  <2>2. open' = {} /\ open' = {l6'.fd, l4'.fd, tr'.fd} \ {NoFd}
    BY <1>1, <1>4, <2>1, Zenon
  <2>3. PostedAt'
    BY <1>1, <1>4, Zenon DEF HsInv, PostedAt
  <2>4. HsType' /\ HeldAt'
    BY <1>1, <1>4, <2>1, Zenon DEF HsInv, HsType, HeldAt
  <2> QED
    BY <2>2, <2>3, <2>4, Zenon DEF HsInv
<1> QED
  BY <1>1, <1>3, <1>4, Zenon DEF TlsConnect, Retried, RetriesWithBundled, Goto

\* A hop writes its request out at most once.
LEMMA TlsWriteKeeps == ASSUME HsInv, TlsWrite PROVE HsInv'
<1>1. /\ hpc = "write" /\ UNCHANGED <<rt, l6, l4, tr, open>>
      /\ \/ hpc' = "write" /\ posted' = posted
         \/ hpc' = "read" /\ posted' = posted + 1
         \/ hpc' = "out" /\ posted' = posted
  BY Zenon DEF TlsWrite, Retried, At, Goto
<1>2. posted \in Nat /\ rt.hop \in Nat
  BY Zenon DEF HsInv, HsType
<1>3. PostedAt'
  BY <1>1, <1>2 DEF HsInv, PostedAt
<1>4. HsType' /\ HeldAt'
  BY <1>1, <1>2, SMTT(60) DEF HsInv, HsType, HeldAt
<1> QED
  BY <1>1, <1>3, <1>4, Zenon DEF HsInv

\* The out: label closes the transport's socket; only a GET takes another hop.
LEMMA OutKeeps == ASSUME HsInv, Out PROVE HsInv'
<1>1. /\ hpc = "out" /\ UNCHANGED <<l6, l4, posted>>
      /\ l6.fd = NoFd /\ l4.fd = NoFd
      /\ open' = open \ {tr.fd} /\ tr' = NoTransport
  BY Zenon DEF Out, At, HsInv, HeldAt
<1>2. open' = {l6'.fd, l4'.fd, tr'.fd} \ {NoFd}
  BY <1>1, NoTransportType, Zenon DEF HsInv
<1>3. posted \in Nat /\ rt.hop \in Nat
      /\ rt \in [hop : Nat, is_get : BOOLEAN, rc : {"none", "ok", "failed"}]
  BY Zenon DEF HsInv, HsType
<1>4. /\ rt' \in [hop : Nat, is_get : BOOLEAN, rc : {"none", "ok", "failed"}]
      /\ rt'.is_get = rt.is_get
      /\ \/ rt.is_get /\ rt'.hop = rt.hop + 1 /\ hpc' = "hop"
         \/ rt'.hop = rt.hop /\ hpc' = "done"
  BY <1>3 DEF Out, Follows, Goto
<1>5. PostedAt'
  BY <1>1, <1>3, <1>4, HsAssumption DEF HsInv, PostedAt
<1>6. HsType' /\ HeldAt'
  BY <1>1, <1>4, NoTransportType, Zenon DEF HsInv, HsType, HeldAt
<1> QED
  BY <1>2, <1>5, <1>6, Zenon DEF HsInv

\* A round trip begins with no descriptor open.
LEMMA HsInitially == HsInit => HsInv
<1> SUFFICES ASSUME HsInit PROVE HsInv
  BY Zenon
<1>1. /\ rt \in [hop : Nat, is_get : BOOLEAN, rc : {"none", "ok", "failed"}]
      /\ rt.hop = 0
  BY DEF HsInit
<1>2. HsType /\ HeldAt
  BY <1>1, IdleLane, NoTransportType, Zenon DEF HsInit, HsType, HeldAt
<1>3. PostedAt
  BY <1>1, HsAssumption DEF HsInit, PostedAt
<1>4. open = {l6.fd, l4.fd, tr.fd} \ {NoFd}
  BY IdleLane, NoTransportType, Zenon DEF HsInit
<1> QED
  BY <1>2, <1>3, <1>4, Zenon DEF HsInv

\* Every step of a round trip keeps the accounting.
LEMMA HsStepKeeps == HsInv /\ [HsNext]_hsVars => HsInv'
<1> SUFFICES ASSUME HsInv, [HsNext]_hsVars PROVE HsInv'
  BY Zenon
<1>1. CASE Hop \/ CtxGet \/ SslNew
  BY <1>1, QuietKeeps, Zenon DEF Hop, CtxGet, SslNew
<1>2. CASE TlsRead
  BY <1>2, QuietKeeps, Zenon DEF TlsRead, Retried
<1>3. CASE Resolve \/ Lanes \/ Poll \/ TlsConnect \/ TlsWrite \/ Out
  BY <1>3, ResolveKeeps, LanesKeeps, PollKeeps, TlsConnectKeeps, TlsWriteKeeps, OutKeeps, Zenon
<1>4. CASE DeadlinePasses \/ UNCHANGED hsVars
  BY <1>4, ZenonT(60) DEF DeadlinePasses, hsVars, HsInv, HsType, HeldAt, PostedAt
<1> QED
  BY <1>1, <1>2, <1>3, <1>4, Zenon DEF HsNext, HsStep, HsReturned

\* https_roundtrip closes every socket it opens, on every path through the two
\* lanes, the two trust stores, the redirects and the deadline, and writes a
\* POST out at most once; for any number of addresses and redirects.
THEOREM RoundTripHolds == HsSpec => []RoundTripSound
<1>1. HsInv => RoundTripSound
  <2> SUFFICES ASSUME HsInv PROVE RoundTripSound
    BY Zenon 
  <2>1. SocketsOwned
    BY Zenon DEF SocketsOwned, At, HsInv, HeldAt
  <2>2. posted \in Nat /\ rt.hop \in Nat /\ rt.is_get \in BOOLEAN
        /\ hpc \in {"hop", "attempt", "resolve", "lanes", "poll", "ssl", "tls",
                    "write", "read", "out", "done"}
    BY Zenon DEF HsInv, HsType
  <2>3. PostedOnce
    BY <2>2, HsAssumption, SMTT(60) DEF PostedOnce, HsInv, PostedAt
  <2> QED
    BY <2>1, <2>3, Zenon DEF RoundTripSound
<1> QED
  BY <1>1, HsInitially, HsStepKeeps, PTL DEF HsSpec

-----------------------------------------------------------------------------
\* The states of servers.json.
Files == [ver : Nat, data : {"none", "part", "cache", "disk"},
          owner : {"none", "user", "root"}]

\* Where a login can be.
RunPlaces == {"off", "asked", "code", "token", "fetched", "mkdir", "write",
              "sync", "rename", "dirsync", "chown", "saved"}

\* The state of one run of the program.
Invocations == [pc : RunPlaces, id : Nat, root : BOOLEAN, have : BOOLEAN,
                code : Nat, at : Nat, created : BOOLEAN]

\* An invocation with its temporary file: a code that passed check_csrf_state
\* is the run's own, a temporary file is on the disk before it is renamed, and
\* from the rename on there is a file (of target) to sync and to hand over.
RunOK(r, t, f) ==
    /\ r \in Invocations /\ t \in Files
    /\ r.pc = "code" => r.code = r.id
    /\ t # NoFile => r.pc \in {"write", "sync", "rename"}
    /\ r.pc = "rename" => t.data = "disk"
    /\ r.pc \in {"dirsync", "chown"} => f.data = "disk"

\* servers.json, as seen and as on the disk.
FilesOK(f, d) ==
    /\ f \in Files /\ d \in Files
    /\ f.data \in {"none", "disk"} /\ d.data \in {"none", "disk"}
    /\ d # NoFile => f # NoFile

\* The strengthening of LoginSound.
LoginInv ==
    /\ CodeOwn /\ issued \subseteq Nat /\ runs \in Nat
    /\ DOMAIN run = Procs /\ run = [p \in Procs |-> run[p]]
    /\ DOMAIN tmp = Procs /\ tmp = [p \in Procs |-> tmp[p]]
    /\ FilesOK(target, dur)
    /\ \A p \in Procs : RunOK(run[p], tmp[p], target)

-----------------------------------------------------------------------------
\* What an invocation that has ended leaves.
LEMMA OffOK == \A f : RunOK(Off, NoFile, f) /\ NoFile \in Files /\ NoFile.data = "none"
BY Zenon DEF RunOK, Off, NoFile, Invocations, Files, RunPlaces

\* One invocation moves; the others keep what they had, as long as a complete
\* servers.json stays complete.
LEMMA OneMoves ==
    ASSUME LoginInv, NEW p \in Procs, NEW r, NEW t,
           run' = [run EXCEPT ![p] = r], tmp' = [tmp EXCEPT ![p] = t],
           RunOK(r, t, target'), FilesOK(target', dur'),
           target.data = "disk" => target'.data = "disk",
           CodeOwn', issued' \subseteq Nat, runs' \in Nat
    PROVE  LoginInv'
<1>1. \A q \in Procs : RunOK(run'[q], tmp'[q], target')
  <2> TAKE q \in Procs
  <2>1. CASE q = p
      BY <2>1, Zenon DEF LoginInv
  <2>2. CASE q # p
      BY <2>2, Zenon DEF LoginInv, RunOK
  <2> QED
      BY <2>1, <2>2, Zenon
<1>2. /\ DOMAIN run' = Procs /\ run' = [q \in Procs |-> run'[q]]
      /\ DOMAIN tmp' = Procs /\ tmp' = [q \in Procs |-> tmp'[q]]
    BY Zenon DEF LoginInv
<1> QED
    BY <1>1, <1>2, Zenon DEF LoginInv

\* oidc_die, wherever it is reached.
LEMMA DiesOK ==
    ASSUME LoginInv, NEW p \in Procs, LoginDies(p),
           UNCHANGED <<target, dur, issued, runs>>, CodeOwn'
    PROVE  LoginInv'
<1>1. run' = [run EXCEPT ![p] = Off] /\ tmp' = [tmp EXCEPT ![p] = NoFile]
    BY Zenon DEF LoginDies
<1> QED
    BY <1>1, OffOK, OneMoves, Zenon DEF LoginInv

\* An invocation goes on with its temporary file as it is.
LEMMA GoesOn ==
    ASSUME LoginInv, NEW p \in Procs, NEW r, run' = [run EXCEPT ![p] = r],
           UNCHANGED tmp, RunOK(r, tmp[p], target'), FilesOK(target', dur'),
           target.data = "disk" => target'.data = "disk",
           CodeOwn', issued' \subseteq Nat, runs' \in Nat
    PROVE  LoginInv'
<1>1. tmp' = [tmp EXCEPT ![p] = tmp[p]]
    BY Zenon DEF LoginInv
<1> QED
    BY <1>1, OneMoves, Zenon

-----------------------------------------------------------------------------
\* No file is there at the start.
LEMMA LoginInitially == OfInit => LoginInv
<1> SUFFICES ASSUME OfInit PROVE LoginInv
    BY Zenon
<1>1. FilesOK(NoFile, NoFile)
    BY OffOK, Zenon DEF FilesOK
<1> QED
    BY <1>1, OffOK, Zenon DEF OfInit, LoginInv, CodeOwn

\* The steps of oidc_login keep it.
LEMMA LoginStepKeeps ==
    ASSUME LoginInv, NEW p \in Procs,
           \/ BeginLogin(p) \/ Browser(p) \/ Paste(p) \/ Exchange(p)
           \/ FetchConfig(p) \/ Verify(p)
    PROVE  LoginInv'
<1>a. /\ RunOK(run[p], tmp[p], target) /\ FilesOK(target, dur)
      /\ run[p] \in Invocations
      /\ CodeOwn /\ issued \subseteq Nat /\ runs \in Nat
    BY Zenon DEF LoginInv, RunOK
<1>1. CASE BeginLogin(p)
  <2>1. PICK root \in BOOLEAN, have \in BOOLEAN :
          run' = [run EXCEPT ![p] = [Off EXCEPT !.pc = "asked", !.id = FreshLogin,
                                     !.root = root, !.have = have]]
      BY <1>1, Zenon DEF BeginLogin, StateReadBack
  <2> DEFINE r == [Off EXCEPT !.pc = "asked", !.id = FreshLogin,
                              !.root = root, !.have = have]
  <2>2. tmp[p] = NoFile /\ runs' \in Nat /\ FreshLogin \in Nat
    <3>1. run[p].pc = "off" /\ runs' = runs + 1
        BY <1>1, Zenon DEF BeginLogin, InPc
    <3>2. tmp[p] = NoFile
        BY <1>a, <3>1, Zenon DEF RunOK
    <3>3. runs + 1 \in Nat
        BY <1>a
    <3> QED
        BY <3>1, <3>2, <3>3, Zenon DEF FreshLogin
  <2>3. r \in Invocations /\ r.pc = "asked"
      BY <2>2, Zenon DEF Off, Invocations, RunPlaces
  <2>4. RunOK(r, tmp[p], target)
      BY <2>2, <2>3, OffOK, Zenon DEF RunOK
  <2>5. UNCHANGED <<issued, spent, target, dur, tmp>>
      BY <1>1, Zenon DEF BeginLogin, idp, fs
  <2> HIDE DEF r
  <2>6. CodeOwn'
      BY <1>a, <2>5, Zenon DEF CodeOwn
  <2> QED
      BY <1>a, <2>1, <2>2, <2>4, <2>5, <2>6, GoesOn, Zenon DEF r
<1>2. CASE Browser(p)
  <2>1. issued' \subseteq Nat /\ UNCHANGED <<run, spent, target, dur, tmp, runs>>
      BY <1>2, <1>a, Zenon DEF Browser, fs, Invocations
  <2> QED
      BY <2>1, Zenon DEF LoginInv, CodeOwn
<1>3. CASE Paste(p)
  <2>1. UNCHANGED <<issued, spent, target, dur, runs>> /\ CodeOwn'
      BY <1>3, <1>a, Zenon DEF Paste, idp, fs, CodeOwn
  <2>2. CASE LoginDies(p)
      BY <2>1, <2>2, DiesOK, Zenon
  <2>3. CASE ~LoginDies(p)
    <3>1. PICK c \in issued : /\ CsrfState(p, c) /\ UNCHANGED tmp
                              /\ run' = [run EXCEPT ![p].pc = "code", ![p].code = c]
        BY <1>3, <2>3, Zenon DEF Paste
    <3> DEFINE r == [run[p] EXCEPT !.pc = "code", !.code = c]
    <3>2. run' = [run EXCEPT ![p] = r]
        BY <3>1, Zenon DEF LoginInv
    <3>3. c = run[p].id /\ c \in Nat /\ run[p].pc = "asked"
        BY <1>3, <1>a, <3>1, Zenon DEF CsrfState, Paste, InPc
    <3>4. RunOK(r, tmp[p], target)
        BY <1>a, <3>3, Zenon DEF RunOK, Invocations, RunPlaces
    <3> HIDE DEF r
    <3> QED
        BY <1>a, <2>1, <3>1, <3>2, <3>4, GoesOn, Zenon
  <2> QED
      BY <2>2, <2>3, Zenon
<1>4. CASE Exchange(p)
  <2>1. UNCHANGED <<issued, target, dur, runs>>
      BY <1>4, Zenon DEF Exchange, fs
  <2>2. CodeOwn'
    <3>1. run[p].code = run[p].id
        BY <1>4, <1>a, Zenon DEF Exchange, InPc, RunOK
    <3>2. spent' = spent \cup {<<run[p].code, run[p].id>>}
        BY <1>4, Zenon DEF Exchange
    <3>3. CodeOwn
        BY <1>a, Zenon
    <3> QED
        BY <3>1, <3>2, <3>3 DEF CodeOwn
  <2>3. CASE LoginDies(p)
      BY <2>1, <2>2, <2>3, DiesOK, Zenon
  <2>4. CASE TokenTaken(p)
    <3> DEFINE r == [run[p] EXCEPT !.pc = "token"]
    <3>1. run' = [run EXCEPT ![p] = r] /\ UNCHANGED tmp
        BY <2>4, Zenon DEF TokenTaken, Moves, LoginInv
    <3>2. RunOK(r, tmp[p], target)
        BY <1>4, <1>a, Zenon DEF Exchange, InPc, RunOK, Invocations, RunPlaces
    <3> HIDE DEF r
    <3> QED
        BY <1>a, <2>1, <2>2, <3>1, <3>2, GoesOn, Zenon
  <2> QED
      BY <1>4, <2>3, <2>4, Zenon DEF Exchange
<1>5. CASE FetchConfig(p) \/ Verify(p)
  <2>1. UNCHANGED <<issued, spent, target, dur, runs>> /\ CodeOwn'
      BY <1>5, <1>a, Zenon DEF FetchConfig, Verify, idp, fs, CodeOwn
  <2>2. CASE LoginDies(p)
      BY <2>1, <2>2, DiesOK, Zenon
  <2>3. CASE ~LoginDies(p)
    <3>1. PICK w \in {"fetched", "mkdir"} :
            run' = [run EXCEPT ![p].pc = w] /\ UNCHANGED tmp
        BY <1>5, <2>3, Zenon DEF FetchConfig, Verify, DestRefused, Moves
    <3> DEFINE r == [run[p] EXCEPT !.pc = w]
    <3>2. run' = [run EXCEPT ![p] = r]
        BY <3>1, Zenon DEF LoginInv
    <3>3. RunOK(r, tmp[p], target)
        BY <1>5, <1>a, Zenon DEF FetchConfig, Verify, InPc, RunOK, Invocations, RunPlaces
    <3> HIDE DEF r
    <3> QED
        BY <1>a, <2>1, <3>1, <3>2, <3>3, GoesOn, Zenon
  <2> QED
      BY <2>2, <2>3, Zenon
<1> QED
    BY <1>1, <1>2, <1>3, <1>4, <1>5, Zenon

\* The steps of oidc_save_config keep it.
LEMMA SaveStepKeeps ==
    ASSUME LoginInv, NEW p \in Procs,
           \/ MkdirP(p) \/ OpenTmp(p) \/ WriteTmp(p) \/ SyncTmp(p) \/ Rename(p)
           \/ SyncDir(p) \/ RestoreOwner(p) \/ Exits(p)
    PROVE  LoginInv'
<1>a. /\ RunOK(run[p], tmp[p], target) /\ FilesOK(target, dur)
      /\ run[p] \in Invocations /\ tmp[p] \in Files
      /\ CodeOwn /\ issued \subseteq Nat /\ runs \in Nat
    BY Zenon  DEF LoginInv, RunOK
<1>b. UNCHANGED <<issued, spent, runs>> /\ CodeOwn'
    BY <1>a, Zenon DEF MkdirP, OpenTmp, WriteTmp, SyncTmp, Rename, SyncDir, RestoreOwner,
                Exits, idp, CodeOwn
<1>c. ASSUME LoginDies(p), UNCHANGED <<target, dur>> PROVE LoginInv'
    BY <1>b, <1>c, DiesOK, Zenon
<1>1. CASE MkdirP(p)
  <2>1. UNCHANGED <<target, dur>>
      BY <1>1, Zenon DEF MkdirP
  <2>2. CASE ~LoginDies(p)
    <3> DEFINE made == run[p].created \/ dirs[run[p].at] = "absent"
               r == [run[p] EXCEPT !.at = run[p].at + 1, !.created = made]
    <3>1. /\ run' = [run EXCEPT ![p].at = run[p].at + 1, ![p].created = made]
          /\ UNCHANGED tmp /\ run[p].pc = "mkdir"
        BY <1>1, <2>2, Zenon DEF MkdirP, InPc
    <3>2. run' = [run EXCEPT ![p] = r]
        BY <3>1, Zenon DEF LoginInv
    <3>3. made \in BOOLEAN /\ run[p].at + 1 \in Nat
        BY <1>a DEF Invocations
    <3>4. r \in Invocations /\ r.pc = "mkdir"
        BY <1>a, <3>1, <3>3, Zenon DEF Invocations
    <3> HIDE DEF r
    <3>5. RunOK(r, tmp[p], target)
        BY <1>a, <3>1, <3>4, Zenon DEF RunOK
    <3> QED
        BY <1>a, <1>b, <2>1, <3>1, <3>2, <3>5, GoesOn, Zenon
  <2> QED
      BY <1>c, <2>1, <2>2, Zenon
<1>2. CASE OpenTmp(p)
  <2>1. UNCHANGED <<target, dur>>
      BY <1>2, Zenon DEF OpenTmp, fs
  <2>2. CASE ~LoginDies(p)
    <3> DEFINE r == [run[p] EXCEPT !.pc = "write"]
               t == [ver |-> run[p].id, data |-> "part", owner |-> Owner(p)]
    <3>1. run' = [run EXCEPT ![p] = r] /\ tmp' = [tmp EXCEPT ![p] = t]
        BY <1>2, <2>2, Zenon DEF OpenTmp, DestRefused, Moves, LoginInv
    <3>2. RunOK(r, t, target)
        BY <1>a, Zenon DEF RunOK, Invocations, RunPlaces, Files, Owner
    <3> HIDE DEF r, t
    <3> QED
        BY <1>a, <1>b, <2>1, <3>1, <3>2, OneMoves, Zenon
  <2> QED
      BY <1>c, <2>1, <2>2, Zenon
<1>3. CASE WriteTmp(p) \/ SyncTmp(p)
  <2>1. UNCHANGED <<target, dur>>
      BY <1>3, Zenon DEF WriteTmp, SyncTmp, fs
  <2>2. CASE ~LoginDies(p)
    <3>1. PICK w \in {<<"sync", "cache">>, <<"rename", "disk">>} :
            run' = [run EXCEPT ![p].pc = w[1]] /\ tmp' = [tmp EXCEPT ![p].data = w[2]]
        BY <1>3, <2>2, Zenon DEF WriteTmp, SyncTmp, Synced, Moves
    <3> DEFINE r == [run[p] EXCEPT !.pc = w[1]]
               t == [tmp[p] EXCEPT !.data = w[2]]
    <3>2. run' = [run EXCEPT ![p] = r] /\ tmp' = [tmp EXCEPT ![p] = t]
        BY <3>1, Zenon DEF LoginInv
    <3>3. RunOK(r, t, target)
        BY <1>a, <3>1 DEF RunOK, Invocations, RunPlaces, Files
    <3> HIDE DEF r, t
    <3> QED
        BY <1>a, <1>b, <2>1, <3>2, <3>3, OneMoves, Zenon
  <2> QED
      BY <1>c, <2>1, <2>2, Zenon
<1>4. CASE Rename(p)
  <2>1. CASE LoginDies(p) /\ UNCHANGED target
      BY <1>4, <1>c, <2>1, Zenon DEF Rename
  <2>2. CASE ~(LoginDies(p) /\ UNCHANGED target)
    <3> DEFINE r == [run[p] EXCEPT !.pc = "dirsync"]
    <3>1. /\ run' = [run EXCEPT ![p] = r] /\ tmp' = [tmp EXCEPT ![p] = NoFile]
          /\ target' = tmp[p] /\ dur' = dur /\ run[p].pc = "rename"
        BY <1>4, <2>2, Zenon DEF Rename, DestRefused, Moves, InPc, LoginInv
    <3>2. tmp[p].data = "disk" /\ tmp[p] # NoFile
        BY <1>a, <3>1, OffOK, Zenon DEF RunOK
    <3>3. RunOK(r, NoFile, tmp[p])
        BY <1>a, <3>2, OffOK, Zenon DEF RunOK, Invocations, RunPlaces
    <3>4. FilesOK(tmp[p], dur)
        BY <1>a, <3>2, Zenon DEF FilesOK
    <3> HIDE DEF r
    <3> QED
        BY <1>a, <1>b, <3>1, <3>2, <3>3, <3>4, OneMoves, Zenon
  <2> QED
      BY <2>1, <2>2, Zenon
<1>5. CASE SyncDir(p)
  <2> DEFINE r == [run[p] EXCEPT !.pc = "chown"]
  <2>1. /\ run' = [run EXCEPT ![p] = r] /\ UNCHANGED <<tmp, target>>
        /\ dur' \in {dur, target} /\ run[p].pc = "dirsync"
      BY <1>5, Zenon DEF SyncDir, Moves, InPc, LoginInv
  <2>2. RunOK(r, tmp[p], target)
      BY <1>a, <2>1, Zenon DEF RunOK, Invocations, RunPlaces
  <2>3. FilesOK(target, dur')
      BY <1>a, <2>1, Zenon DEF FilesOK
  <2> HIDE DEF r
  <2> QED
      BY <1>a, <1>b, <2>1, <2>2, <2>3, GoesOn, Zenon
<1>6. CASE RestoreOwner(p)
  <2> DEFINE f == [target EXCEPT !.owner = "user"]
             r == [run[p] EXCEPT !.pc = "saved"]
  <2>1. dur' = dur /\ run[p].pc = "chown" /\ target' \in {target, f}
      BY <1>6, Zenon DEF RestoreOwner, InPc
  <2>2. /\ f \in Files /\ f.data = target.data /\ f.owner = "user"
        /\ target.data = "disk"
      BY <1>a, <2>1, Zenon DEF FilesOK, Files, RunOK
  <2>3. FilesOK(target', dur') /\ target'.data = "disk"
      BY <1>a, <2>1, <2>2, OffOK, Zenon DEF FilesOK
  <2> HIDE DEF f
  <2>4. CASE LoginDies(p)
    <3>1. run' = [run EXCEPT ![p] = Off] /\ tmp' = [tmp EXCEPT ![p] = NoFile]
        BY <2>4, Zenon DEF LoginDies
    <3> QED
        BY <1>a, <1>b, <2>3, <3>1, OffOK, OneMoves, Zenon
  <2>5. CASE ~LoginDies(p)
    <3>1. run' = [run EXCEPT ![p] = r] /\ UNCHANGED tmp
        BY <1>6, <2>5, Zenon DEF RestoreOwner, Moves, LoginInv
    <3>2. RunOK(r, tmp[p], target')
        BY <1>a, <2>1, Zenon DEF RunOK, Invocations, RunPlaces
    <3> HIDE DEF r
    <3> QED
        BY <1>a, <1>b, <2>3, <3>1, <3>2, GoesOn, Zenon
  <2> QED
      BY <2>4, <2>5, Zenon
<1>7. CASE Exits(p)
  <2>1. /\ run' = [run EXCEPT ![p] = Off] /\ UNCHANGED <<tmp, target, dur>>
        /\ run[p].pc = "saved"
      BY <1>7, Zenon DEF Exits, InPc, fs
  <2>2. tmp[p] = NoFile
      BY <1>a, <2>1, Zenon DEF RunOK
  <2> QED
      BY <1>a, <1>b, <2>1, <2>2, OffOK, GoesOn, Zenon
<1> QED
    BY <1>1, <1>2, <1>3, <1>4, <1>5, <1>6, <1>7, Zenon

\* So do the kernel's write-back and a power failure.
LEMMA DiskStepKeeps == LoginInv /\ (WriteBack \/ PowerFails) => LoginInv'
<1>1. ASSUME LoginInv, WriteBack PROVE LoginInv'
    BY <1>1, Zenon DEF WriteBack, LoginInv, FilesOK, idp, CodeOwn
<1>2. ASSUME LoginInv, PowerFails PROVE LoginInv'
  <2>1. /\ run' = [p \in Procs |-> Off] /\ tmp' = [p \in Procs |-> NoFile]
        /\ target' = dur /\ dur' = dur
      BY <1>2, Zenon DEF PowerFails, Survives, LoginInv, FilesOK
  <2>2. FilesOK(target', dur')
      BY <1>2, <2>1, Zenon DEF LoginInv, FilesOK
  <2>3. UNCHANGED <<issued, spent, runs>>
      BY <1>2, Zenon DEF PowerFails, idp
  <2> QED
      BY <1>2, <2>1, <2>2, <2>3, OffOK, Zenon DEF LoginInv, CodeOwn
<1> QED
    BY <1>1, <1>2, Zenon

\* However many invocations run at once, as the user or through sudo, and
\* whenever one of them fails or the power does: servers.json is absent or one
\* complete configuration, no temporary file outlives its writer, and a login
\* sends the identity provider no code but its own.
THEOREM LoginsAreSound == OfSpec => []LoginSound
<1>1. LoginInv => LoginSound
    BY Zenon DEF LoginInv, LoginSound, SaveAtomic, FilesOK, RunOK
<1>2. LoginInv /\ [OfNext]_ofVars => LoginInv'
  <2>1. LoginInv /\ UNCHANGED ofVars => LoginInv'
      BY Zenon  DEF ofVars, LoginInv, CodeOwn
  <2> QED
      BY <2>1, LoginStepKeeps, SaveStepKeeps, DiskStepKeeps, Zenon DEF OfNext, OfStep
<1> QED
    BY LoginInitially, <1>1, <1>2, PTL DEF OfSpec

-----------------------------------------------------------------------------
\* The defaults of a table that go through a gateway.
Gateways(t) == {r \in Defaults(t) : r.via # "link"}

\* What the session knows of the default it captured: it is a physical one and,
\* while the host has not moved away from it, the first of those it started with;
\* after that, the one that came for it has its place.
SavedFirst ==
    /\ saved \in Route /\ saved.dst = "default"
    /\ saved.via # "link" /\ saved.dev # "tun"
    /\ saved \in start \/ Renumbered \in start
    /\ saved \in start => \A r \in Gateways(start) : saved.prio <= r.prio

\* The tables: one route per place, and a route into the tunnel is one of
\* InTunnel's.
TablesSound ==
    /\ OnePerPlace(table) /\ OnePerPlace(start)
    /\ \A r \in table \cup start : r.dev = "tun" => r.via = "link" /\ r.prio = 0

\* A default taken over is one whose teardown is still to come: the flag is set
\* only while a "default" lies ahead of the teardown's index.
FlagAhead ==
    srv_default_installed =>
        /\ pc \in {"local", "route", "running", "unroute"}
        /\ \E j \in 1 .. Len(targets) :
              targets[j] = "default" /\ (pc = "unroute" => idx <= j)

\* What holds at each place of a session.
InSession ==
    /\ pc # "idle" => targets \in TargetLists
    /\ pc \in {"up", "pin", "local", "route", "unroute", "restore", "restore2"} =>
          idx <= Len(targets)
    /\ pc = "restore2" => ~clean

\* In an undisturbed session a default through a gateway that is not in the table
\* is one of priority 0 whose place the tunnel has, and it is about to be put
\* back; and no physical default is there that was not there before.
Displaced(r) ==
    /\ r.prio = 0
    /\ \/ srv_default_installed /\ InTunnel("default") \in table
       \/ pc = "restore"

\* While nothing foreign has happened, each default through a gateway is in
\* the table or displaced by the tunnel's, and no default is new.
UndisturbedInv ==
    clean => /\ \A r \in Gateways(start) : r \in table \/ Displaced(r)
             /\ Defaults(WithoutTun(table)) \subseteq start

\* MetricDefaultKept without the types: a default is there, or the captured one
\* is there for it.
Kept(r) == r \in table \/ (r = Renumbered /\ saved \in table)
MetricInv == \A r \in Defaults(WithoutTun(start)) : r.prio # 0 => Kept(r)

\* The inductive strengthening of RoutesKept.
RouteInv ==
    /\ RouteTypeOK /\ SavedFirst /\ TablesSound /\ FlagAhead /\ InSession
    /\ MetricInv /\ UndisturbedInv

\* capture_default: a default through a gateway exists, so the first is one.
LEMMA CapturedFirst ==
    ASSUME NEW t, t \subseteq Route, Gateways(t) # {}
    PROVE  /\ Captured(t) \in t /\ Captured(t).dst = "default"
           /\ Captured(t).via # "link"
           /\ \A q \in Gateways(t) : Captured(t).prio <= q.prio
<1>1. \A r \in Gateways(t) : r.prio \in 0 .. 2
  BY Zenon DEF Gateways, Defaults, Route
<1>2. \E r \in Gateways(t) : \A q \in Gateways(t) : r.prio <= q.prio
  <2>1. CASE \E r \in Gateways(t) : r.prio = 0
    BY <1>1, <2>1
  <2>2. CASE (\A r \in Gateways(t) : r.prio # 0) /\ \E r \in Gateways(t) : r.prio = 1
    BY <1>1, <2>2
  <2>3. CASE \A r \in Gateways(t) : r.prio # 0 /\ r.prio # 1
    <3>1. \A r \in Gateways(t) : r.prio = 2
      BY <1>1, <2>3
    <3> QED
      BY <3>1
  <2> QED
    BY <2>1, <2>2, <2>3, Zenon
<1>3. \E r \in Defaults(t) : r.via # "link" /\ \A q \in Defaults(t) : q.via # "link" => r.prio <= q.prio
  BY <1>2, Zenon DEF Gateways
<1>4. /\ Captured(t) \in Defaults(t) /\ Captured(t).via # "link"
      /\ \A q \in Defaults(t) : q.via # "link" => Captured(t).prio <= q.prio
  BY <1>3, Zenon DEF Captured
<1> QED
  BY <1>4, Zenon DEF Gateways, Defaults

\* A replaced place still has one route.
LEMMA ReplaceSound ==
    ASSUME NEW t, t \subseteq Route, OnePerPlace(t), NEW r \in Route
    PROVE  Replace(t, r) \subseteq Route /\ OnePerPlace(Replace(t, r))
  BY Zenon  DEF Replace, OnePerPlace

\* The routes the session installs are routes, and where they lead.
LEMMA RouteTypes ==
    ASSUME SavedFirst
    PROVE  /\ \A d \in Dsts : InTunnel(d) \in Route
           /\ \A d \in Dsts : InTunnel(d).dst = d /\ InTunnel(d).prio = 0
                              /\ InTunnel(d).dev = "tun" /\ InTunnel(d).via = "link"
           /\ Pin \in Route /\ Pin.dst = "srv" /\ Pin.dev # "tun"
           /\ Preserve \in Route /\ Preserve.dst = "loc" /\ Preserve.dev # "tun"
           /\ DeviceOnly \in Route /\ DeviceOnly.dst = "default" /\ DeviceOnly.prio = 0
           /\ DeviceOnly.dev # "tun"
  BY SMTT(60) DEF SavedFirst, Route, Dsts, InTunnel, Pin, Preserve, DeviceOnly

\* What the invariant says of the tables alone.
TablesInv ==
    /\ SavedFirst /\ TablesSound /\ UndisturbedInv
    /\ table \subseteq Route /\ start \subseteq Route
    /\ MetricInv

\* Commands that take no physical default with a metric.
LEMMA MetricMoves ==
    ASSUME TablesInv, UNCHANGED <<start, saved>>,
           \A q \in table : q.dst = "default" /\ q.dev # "tun" /\ q.prio # 0 => q \in table'
    PROVE  MetricInv'
<1> SUFFICES ASSUME NEW r \in Defaults(WithoutTun(start)), r.prio # 0 PROVE Kept(r)'
  BY Zenon DEF MetricInv, Defaults, WithoutTun
<1>1. Kept(r) /\ r.dst = "default" /\ r.dev # "tun" /\ saved.dst = "default" /\ saved.dev # "tun"
  BY Zenon DEF TablesInv, MetricInv, SavedFirst, Defaults, WithoutTun
<1>2. Renumbered.prio = saved.prio
  BY Zenon DEF TablesInv, SavedFirst, Route, Renumbered
<1> QED
  BY <1>1, <1>2, Zenon DEF Kept, Renumbered

\* Commands that touch no default route.
LEMMA DefaultsAlone ==
    ASSUME RouteInv, table' \subseteq Route, OnePerPlace(table'),
           \A r \in table' : r.dev = "tun" => r.via = "link" /\ r.prio = 0,
           Defaults(table') = Defaults(table),
           UNCHANGED <<start, saved>>, gateway' => gateway, clean' => clean,
           \/ srv_default_installed' = srv_default_installed
           \/ clean' => InTunnel("default") \notin table,
           pc = "restore" => pc' = "restore" \/ ~clean'
    PROVE  TablesInv'
<1>1. SavedFirst' /\ TablesSound' /\ start' \subseteq Route
  BY Zenon DEF RouteInv, SavedFirst, TablesSound, RouteTypeOK, Renumbered
<1>2. MetricInv'
  <2> SUFFICES ASSUME NEW r \in Defaults(WithoutTun(start)), r.prio # 0 PROVE Kept(r)'
    BY Zenon DEF MetricInv, Defaults, WithoutTun
  <2>1. Kept(r) /\ r.dst = "default" /\ saved.dst = "default"
    BY Zenon DEF RouteInv, MetricInv, SavedFirst, Defaults
  <2> QED
    BY <2>1, Zenon DEF Kept, Defaults, Renumbered
<1>3. InTunnel("default") \in table => InTunnel("default") \in table'
  <2>1. InTunnel("default").dst = "default"
    BY Zenon  DEF InTunnel
  <2> QED
    BY <2>1, Zenon DEF Defaults
<1>4. ASSUME clean' PROVE \A r \in Gateways(start) : r \in table' \/ Displaced(r)'
  <2> SUFFICES ASSUME NEW r \in Gateways(start), r \notin table'
               PROVE  Displaced(r)'
    BY Zenon
  <2>1. r \notin table /\ clean
    BY <1>4, Zenon DEF Gateways, Defaults
  <2>2. Displaced(r)
    BY <2>1, Zenon DEF RouteInv, UndisturbedInv
  <2> QED
    BY <1>3, <1>4, <2>2, SMTT(60) DEF Displaced
<1>5. ASSUME clean' PROVE Defaults(WithoutTun(table')) \subseteq start'
  BY <1>5, Zenon DEF RouteInv, UndisturbedInv, Defaults, WithoutTun
<1>6. UndisturbedInv'
  BY <1>4, <1>5, Zenon DEF UndisturbedInv, Gateways, Defaults
<1> QED
  BY <1>1, <1>2, <1>6, Zenon DEF TablesInv, Defaults, WithoutTun

\* What the invariant says of the program's place.
PlaceInv ==
    /\ pc \in {"idle", "up", "pin", "local", "route", "running", "unroute",
               "restore", "restore2", "unpin", "down"}
    /\ targets \in TargetLists \cup {<<>>} /\ idx \in 1 .. Len(targets) + 1
    /\ {srv_default_installed, srv_pin_installed, gateway, clean} \subseteq BOOLEAN
    /\ dev \in {"up", "down", "gone"}
    /\ FlagAhead /\ InSession

\* The strengthening is what the places and what the tables must satisfy.
LEMMA RouteInvParts ==
    /\ RouteInv => PlaceInv /\ TablesInv
    /\ PlaceInv' /\ TablesInv' => RouteInv'
<1>1. RouteInv => PlaceInv /\ TablesInv
  BY Zenon  DEF RouteInv, PlaceInv, TablesInv, RouteTypeOK
<1>2. PlaceInv' /\ TablesInv' => RouteInv'
  BY Zenon  DEF RouteInv, PlaceInv, TablesInv, RouteTypeOK, SavedFirst
<1> QED
  BY <1>1, <1>2, Zenon

\* In a session the list of targets is one the configuration gave.
LEMMA SessionTargets ==
    ASSUME PlaceInv, pc # "idle"
    PROVE  /\ targets \in TargetLists /\ Len(targets) \in Nat \ {0}
           /\ \A j \in 1 .. Len(targets) : targets[j] \in {"default", "net"}
  BY RouteConstants DEF PlaceInv, InSession

\* A session begins with the table as it is.
LEMMA BeginKeeps == ASSUME RouteInv, NEW l \in TargetLists, Begin(l) PROVE RouteInv'
<1>1. l # <<>> /\ l \in Seq({"default", "net"}) /\ Len(l) \in Nat \ {0}
  BY RouteConstants, SMTT(60)
<1>2. PlaceInv'
  <2>1. /\ targets' = l /\ idx' = 1 /\ pc' = "up" /\ dev' = dev
        /\ ~srv_default_installed' /\ ~srv_pin_installed' /\ gateway' /\ clean'
        /\ {srv_default_installed', srv_pin_installed', gateway', clean'} \subseteq BOOLEAN
        /\ dev \in {"up", "down", "gone"}
    BY Zenon DEF Begin, RouteInv, RouteTypeOK
  <2>2. idx' \in 1 .. Len(targets') + 1
    BY <1>1, <2>1, SMTT(60)
  <2>3. FlagAhead' /\ InSession'
    BY <1>1, <2>1, SMTT(60) DEF FlagAhead, InSession
  <2> QED
    BY <2>1, <2>2, <2>3, Zenon DEF PlaceInv
<1>3. /\ table \subseteq Route /\ Gateways(table) # {} /\ UNCHANGED table
      /\ start' = table /\ saved' = Captured(table)
  BY Zenon  DEF Begin, RouteInv, RouteTypeOK, Gateways
<1>4. SavedFirst'
  BY <1>3, CapturedFirst, Zenon DEF SavedFirst, RouteInv, TablesSound, Gateways, Defaults
<1>5. TablesSound'
  BY <1>3, Zenon DEF RouteInv, TablesSound
<1>6. UndisturbedInv'
  BY <1>3, Zenon DEF UndisturbedInv, Gateways, Defaults, WithoutTun
<1>7. TablesInv'
  BY <1>3, <1>4, <1>5, <1>6, Zenon DEF TablesInv, Defaults, WithoutTun, MetricInv, Kept
<1> QED
  BY <1>2, <1>7, RouteInvParts, Zenon

\* Every step of the session moves between places in order.
LEMMA PlaceMoves ==
    ASSUME RouteInv
    PROVE  (IfaceUp \/ SetPin \/ PreserveLocal \/ SetRoute \/ Stop \/ SkipDefault
            \/ Unroute \/ Restore \/ RestoreDevice \/ Unpin \/ IfaceDown) => PlaceInv'
<1>1. PlaceInv
  BY RouteInvParts, Zenon
<1>2. CASE IfaceUp
  BY <1>1, <1>2, SessionTargets, Zenon DEF IfaceUp, session, routeFlags, PlaceInv, FlagAhead, InSession
<1>3. CASE SetPin
  BY <1>1, <1>3, SessionTargets, Zenon DEF SetPin, session, PlaceInv, FlagAhead, InSession
<1>4. CASE PreserveLocal
  BY <1>1, <1>4, SessionTargets, SMTT(60) DEF PreserveLocal, Rollback, session, routeFlags, PlaceInv, FlagAhead, InSession
<1>5. CASE SetRoute
  <2>1. /\ targets \in TargetLists /\ Len(targets) \in Nat \ {0}
        /\ idx \in 1 .. Len(targets) /\ UNCHANGED targets
    BY <1>1, <1>5, SessionTargets, SMTT(60) DEF SetRoute, session, PlaceInv, InSession
  <2>2. CASE Rollback /\ UNCHANGED srv_default_installed
    BY <1>1, <1>5, <2>1, <2>2, SMTT(60) DEF SetRoute, Rollback, session, PlaceInv, FlagAhead, InSession
  <2>3. CASE /\ idx' = idx + 1 /\ pc' \in {"running", "local", "route"}
             /\ idx = Len(targets) <=> pc' = "running"
             /\ srv_default_installed' = (srv_default_installed \/ targets[idx] = "default")
    <3>1. FlagAhead'
      BY <1>1, <2>1, <2>3, Zenon DEF FlagAhead, PlaceInv
    <3>2. InSession'
      BY <2>1, <2>3, SMTT(60) DEF InSession
    <3>3. idx' \in 1 .. Len(targets) + 1
      BY <2>1, <2>3, SMTT(60)
    <3>4. {srv_default_installed', srv_pin_installed', gateway', clean'} \subseteq BOOLEAN
      BY <1>1, <1>5, <2>3, Zenon DEF PlaceInv, SetRoute
    <3> QED
      BY <1>1, <1>5, <2>1, <2>3, <3>1, <3>2, <3>3, <3>4, Zenon DEF PlaceInv, SetRoute
  <2> QED
    BY <1>5, <2>2, <2>3, Zenon DEF SetRoute
<1>6. CASE Stop
  BY <1>1, <1>6, SessionTargets, SMTT(60) DEF Stop, Rollback, session, routeFlags, PlaceInv, FlagAhead, InSession
<1>7. CASE SkipDefault
  BY <1>1, <1>7, SessionTargets, SMTT(60) DEF SkipDefault, Onward, session, routeFlags, PlaceInv, FlagAhead, InSession
<1>8. CASE Unroute
  <2>1. /\ targets \in TargetLists /\ Len(targets) \in Nat \ {0}
        /\ idx \in 1 .. Len(targets) /\ UNCHANGED targets /\ pc = "unroute"
    BY <1>1, <1>8, SessionTargets, SMTT(60) DEF Unroute, session, PlaceInv, InSession
  <2>2. /\ \/ idx' = idx + 1 /\ pc' = IF idx = Len(targets) THEN "unpin" ELSE "unroute"
           \/ idx' = idx /\ pc' = "restore" /\ targets[idx] = "default"
        /\ srv_default_installed' = (srv_default_installed /\ targets[idx] # "default")
    BY <1>8, Zenon DEF Unroute, Onward
  <2>3. FlagAhead'
    <3> SUFFICES ASSUME srv_default_installed' PROVE FlagAhead'
      BY Zenon DEF FlagAhead
    <3>1. srv_default_installed /\ targets[idx] # "default"
      BY <2>2, Zenon
    <3>2. PICK j \in 1 .. Len(targets) : targets[j] = "default" /\ idx <= j
      BY <1>1, <2>1, <3>1, Zenon DEF PlaceInv, FlagAhead
    <3>3. idx + 1 <= j /\ idx # Len(targets)
      BY <2>1, <3>1, <3>2, SMTT(60)
    <3> QED
      BY <2>1, <2>2, <3>1, <3>2, <3>3, Zenon DEF FlagAhead
  <2>4. InSession'
    BY <2>1, <2>2, SMTT(60) DEF InSession
  <2>5. idx' \in 1 .. Len(targets) + 1 /\ pc' \in {"unpin", "unroute", "restore"}
    BY <2>1, <2>2
  <2>6. {srv_default_installed', srv_pin_installed', gateway', clean'} \subseteq BOOLEAN
    BY <1>1, <1>8, <2>2, Zenon DEF PlaceInv, Unroute
  <2> QED
    BY <1>1, <1>8, <2>1, <2>3, <2>4, <2>5, <2>6, ZenonT(60) DEF PlaceInv, Unroute
<1>9. CASE Restore \/ RestoreDevice
  <2>1. /\ targets \in TargetLists /\ Len(targets) \in Nat \ {0}
        /\ idx \in 1 .. Len(targets) /\ ~srv_default_installed
        /\ UNCHANGED <<targets, routeFlags, dev, gateway>>
    BY <1>1, <1>9, SessionTargets
       DEF Restore, RestoreDevice, session, PlaceInv, InSession, FlagAhead
  <2>2. /\ \/ idx' = idx + 1 /\ pc' \in {"unpin", "unroute"}
              /\ (pc' = "unroute" => idx # Len(targets))
           \/ idx' = idx /\ pc' = "restore2" /\ ~clean'
        /\ clean' \in BOOLEAN
    BY <1>1, <1>9, Zenon DEF Restore, RestoreDevice, Onward, PlaceInv
  <2>3. idx' \in 1 .. Len(targets) + 1 /\ InSession'
    BY <2>1, <2>2 DEF InSession
  <2> QED
    BY <1>1, <2>1, <2>2, <2>3, Zenon DEF PlaceInv, FlagAhead, routeFlags
<1>10. CASE Unpin
  BY <1>1, <1>10, Zenon DEF Unpin, session, PlaceInv, FlagAhead, InSession
<1>11. CASE IfaceDown
  BY <1>1, <1>11, Zenon DEF IfaceDown, session, routeFlags, PlaceInv, FlagAhead, InSession
<1> QED
  BY <1>2, <1>3, <1>4, <1>5, <1>6, <1>7, <1>8, <1>9, <1>10, <1>11, Zenon

\* Every step of the session changes the tables soundly.
LEMMA TablesMove ==
    ASSUME RouteInv
    PROVE  (IfaceUp \/ SetPin \/ PreserveLocal \/ SetRoute \/ Stop \/ SkipDefault
            \/ Unroute \/ Restore \/ RestoreDevice \/ Unpin \/ IfaceDown) => TablesInv'
<1>1. /\ PlaceInv /\ TablesInv /\ SavedFirst /\ TablesSound
      /\ table \subseteq Route /\ OnePerPlace(table)
      /\ \A r \in table : r.dev = "tun" => r.via = "link" /\ r.prio = 0
  BY RouteInvParts, Zenon DEF TablesInv, TablesSound
\* Commands that leave the table, or every default in it, alone.
<1>2. ASSUME UNCHANGED <<table, start, saved, gateway, clean, srv_default_installed>>,
             pc # "restore"
      PROVE  TablesInv'
  BY <1>1, <1>2, DefaultsAlone, Zenon
<1>3. ASSUME NEW r \in Route, r.dst # "default", r.dev = "tun" => r.via = "link" /\ r.prio = 0,
             table' = Replace(table, r), pc # "restore",
             UNCHANGED <<start, saved, gateway, clean, srv_default_installed>>
      PROVE  TablesInv'
  <2>1. table' \subseteq Route /\ OnePerPlace(table')
    BY <1>1, <1>3, ReplaceSound, Zenon
  <2>2. Defaults(table') = Defaults(table)
    BY <1>3, Zenon DEF Defaults, Replace
  <2>3. \A q \in table' : q.dev = "tun" => q.via = "link" /\ q.prio = 0
    BY <1>1, <1>3, Zenon DEF Replace
  <2> QED
    BY <1>3, <2>1, <2>2, <2>3, DefaultsAlone, Zenon
<1>4. ASSUME NEW r, r.dst # "default",
             table' = table \ {r}, pc # "restore",
             UNCHANGED <<start, saved, gateway, clean, srv_default_installed>>
      PROVE  TablesInv'
  <2>1. Defaults(table') = Defaults(table)
    BY <1>4, Zenon DEF Defaults
  <2>2. table' \subseteq Route /\ OnePerPlace(table')
    BY <1>1, <1>4, Zenon DEF OnePerPlace
  <2> QED
    BY <1>1, <1>4, <2>1, <2>2, DefaultsAlone, Zenon
<1>5. CASE IfaceUp \/ Stop \/ SkipDefault
  BY <1>2, <1>5, Zenon DEF IfaceUp, Stop, SkipDefault, session, routeFlags
<1>6. CASE SetPin
  BY <1>1, <1>2, <1>3, <1>6, RouteTypes, Zenon DEF SetPin, session
<1>7. CASE PreserveLocal
  BY <1>1, <1>2, <1>3, <1>7, RouteTypes, Zenon DEF PreserveLocal, session, routeFlags
<1>8. CASE SetRoute
  <2>1. /\ pc = "route" /\ idx \in 1 .. Len(targets) /\ targets[idx] \in {"default", "net"}
        /\ UNCHANGED <<start, saved, gateway, clean>>
    <3>1. pc = "route" /\ UNCHANGED <<start, saved, gateway, clean>>
      BY <1>8, Zenon DEF SetRoute, session
    <3>2. /\ Len(targets) \in Nat \ {0} /\ idx \in 1 .. Len(targets) + 1 /\ idx <= Len(targets)
          /\ \A j \in 1 .. Len(targets) : targets[j] \in {"default", "net"}
      BY <1>1, <3>1, SessionTargets, Zenon DEF PlaceInv, InSession
    <3>3. idx \in 1 .. Len(targets)
      BY <3>2
    <3> QED
      BY <3>1, <3>2, <3>3, Zenon
  <2>2. CASE UNCHANGED <<table, srv_default_installed>>
    BY <1>2, <2>1, <2>2, Zenon
  <2>3. CASE targets[idx] = "net" /\ table' = Replace(table, InTunnel("net"))
             /\ UNCHANGED srv_default_installed
    BY <1>1, <1>3, <2>1, <2>3, RouteTypes, Zenon DEF Dsts
  <2>4. CASE targets[idx] = "default" /\ table' = Replace(table, InTunnel("default"))
             /\ srv_default_installed'
    <3> DEFINE r == InTunnel("default")
    <3>1. r \in Route /\ r.dst = "default" /\ r.prio = 0 /\ r.dev = "tun" /\ r.via = "link"
      BY <1>1, RouteTypes, Zenon DEF Dsts
    <3>2. r \in table' /\ table' \subseteq Route /\ OnePerPlace(table')
      BY <1>1, <2>4, <3>1, ReplaceSound, Zenon DEF Replace
    <3> HIDE DEF r
    <3>3. \A q \in table : q.prio # 0 => q \in table'
      BY <2>4, <3>1, Zenon DEF Replace, r
    <3>4. SavedFirst' /\ TablesSound'
      BY <1>1, <2>1, <2>4, <3>1, <3>2, Zenon DEF SavedFirst, TablesSound, Replace, r, Renumbered
    <3>5. MetricInv'
      BY <1>1, <2>1, <3>3, MetricMoves, Zenon
    <3>6. ASSUME clean' PROVE \A q \in Gateways(start) : q \in table' \/ Displaced(q)'
      BY <1>1, <2>1, <2>4, <3>2, <3>3, <3>6, Zenon DEF TablesInv, UndisturbedInv, Displaced, r
    <3>7. ASSUME clean' PROVE Defaults(WithoutTun(table')) \subseteq start
      BY <1>1, <2>1, <2>4, <3>1, <3>7, Zenon DEF TablesInv, UndisturbedInv, Defaults, WithoutTun, Replace, r
    <3>8. UndisturbedInv'
      BY <2>1, <3>6, <3>7, Zenon DEF UndisturbedInv, Gateways, Defaults
    <3> QED
      BY <1>1, <2>1, <3>2, <3>4, <3>5, <3>8, Zenon DEF TablesInv, Defaults, WithoutTun
  <2>5. srv_default_installed \in BOOLEAN
    BY <1>1, Zenon DEF PlaceInv
  <2>6. \/ UNCHANGED <<table, srv_default_installed>>
        \/ /\ table' = Replace(table, InTunnel(targets[idx]))
           /\ srv_default_installed' = (srv_default_installed \/ targets[idx] = "default")
    BY <1>8, Zenon DEF SetRoute
  <2>7. targets[idx] = "net" \/ targets[idx] = "default"
    BY <2>1, Zenon
  <2>8. targets[idx] = "net" => targets[idx] # "default"
    BY Zenon
  <2>9. CASE targets[idx] = "net"
    BY <2>2, <2>3, <2>5, <2>6, <2>8, <2>9, Zenon
  <2>10. CASE targets[idx] = "default"
    BY <2>2, <2>4, <2>6, <2>10, Zenon
  <2> QED
    BY <2>7, <2>9, <2>10, Zenon
<1>9. CASE Unroute
  <2>1. /\ pc = "unroute" /\ idx \in 1 .. Len(targets) /\ targets[idx] \in {"default", "net"}
        /\ UNCHANGED <<start, saved, gateway>> /\ (clean' => clean)
    BY <1>1, <1>9, SessionTargets, SMTT(60) DEF Unroute, session, PlaceInv, InSession
  <2>2. CASE UNCHANGED table /\ clean' = (clean /\ InTunnel(targets[idx]) \notin table)
    <3>1. \/ srv_default_installed' = srv_default_installed
          \/ clean' => InTunnel("default") \notin table
      BY <1>9, <1>1, <2>1, <2>2, ZenonT(60) DEF Unroute, PlaceInv
    <3> QED
      BY <1>1, <2>1, <2>2, <3>1, DefaultsAlone, Zenon
  <2>3. CASE targets[idx] = "net" /\ table' = table \ {InTunnel("net")}
             /\ UNCHANGED clean
    <3>1. srv_default_installed' = srv_default_installed
      BY <1>1, <1>9, <2>3, Zenon DEF Unroute, PlaceInv
    <3> QED
      BY <1>1, <1>4, <2>1, <2>3, <3>1, RouteTypes, Zenon DEF Dsts
  <2>4. CASE targets[idx] = "default" /\ table' = table \ {InTunnel("default")}
             /\ UNCHANGED clean /\ pc' = "restore"
    <3> DEFINE r == InTunnel("default")
    <3>1. r.dev = "tun" /\ r.prio = 0 /\ r.via = "link"
      BY <1>1, RouteTypes, Zenon DEF Dsts
    <3> HIDE DEF r
    <3>2. table' = table \ {r}
      BY <2>4, Zenon DEF r
    <3>3. SavedFirst' /\ TablesSound'
      BY <1>1, <2>1, <3>2, Zenon DEF SavedFirst, TablesSound, OnePerPlace, Renumbered
    <3>4. MetricInv'
      BY <1>1, <2>1, <3>1, <3>2, MetricMoves, Zenon
    <3>5. ASSUME clean' PROVE \A q \in Gateways(start) : q \in table' \/ Displaced(q)'
      BY <1>1, <2>1, <2>4, <3>1, <3>2, <3>5, Zenon DEF TablesInv, UndisturbedInv, Displaced, Gateways
    <3>6. ASSUME clean' PROVE Defaults(WithoutTun(table')) \subseteq start
      BY <1>1, <2>1, <3>2, <3>6, Zenon DEF TablesInv, UndisturbedInv, Defaults, WithoutTun
    <3>7. UndisturbedInv'
      BY <2>1, <3>5, <3>6, Zenon DEF UndisturbedInv, Gateways, Defaults
    <3> QED
      BY <1>1, <2>1, <3>2, <3>3, <3>4, <3>7, Zenon DEF TablesInv, Defaults, WithoutTun
  <2> QED
    BY <1>9, <2>1, <2>2, <2>3, <2>4, ZenonT(60) DEF Unroute
<1>10. CASE Restore
  <2>1. pc = "restore" /\ UNCHANGED <<start, saved, gateway, srv_default_installed>>
    BY <1>10, Zenon DEF Restore, session, routeFlags
  <2>2. CASE UNCHANGED table /\ clean' = FALSE
    BY <1>1, <2>1, <2>2, DefaultsAlone, Zenon
  <2>3. CASE table' = Replace(table, saved) /\ clean' = (clean /\ saved \in start)
    <3>1. /\ saved.dst = "default" /\ saved \in Route
          /\ saved.dev # "tun" /\ saved.via # "link"
      BY <1>1, Zenon DEF SavedFirst
    <3>2. table' \subseteq Route /\ OnePerPlace(table') /\ saved \in table'
      BY <1>1, <2>3, <3>1, ReplaceSound, Zenon DEF Replace
    <3>3. \A q \in table : q.dst # "default" \/ q.prio # saved.prio => q \in table'
      BY <2>3, <3>1, Zenon DEF Replace
    <3>4. SavedFirst' /\ TablesSound'
      BY <1>1, <2>1, <2>3, <3>1, <3>2, Zenon DEF SavedFirst, TablesSound, Replace, Renumbered
    \* Its place in the table of the start is its own or that of the one that
    \* came for it.
    <3>5. /\ Renumbered.dst = "default" /\ Renumbered.prio = saved.prio
          /\ \A q \in start : q.dst = "default" /\ q.prio = saved.prio =>
                (q = saved /\ saved \in start) \/ q = Renumbered
      <4>1. Renumbered.dst = "default" /\ Renumbered.prio = saved.prio
        BY <3>1, Zenon DEF Renumbered, Route
      <4> QED
        BY <1>1, <3>1, <4>1, Zenon DEF SavedFirst, TablesSound, OnePerPlace
    <3>6. MetricInv'
      <4> SUFFICES ASSUME NEW q \in Defaults(WithoutTun(start)), q.prio # 0 PROVE Kept(q)'
        BY <2>1, Zenon DEF MetricInv, Defaults, WithoutTun
      <4>1. q \in start /\ q.dst = "default" /\ Kept(q)
        BY <1>1, Zenon DEF TablesInv, MetricInv, Defaults, WithoutTun
      <4>2. CASE q.prio = saved.prio
        BY <2>1, <3>2, <3>5, <4>1, <4>2, Zenon DEF Kept, Renumbered
      <4>3. CASE q.prio # saved.prio
        BY <3>3, <3>5, <4>1, <4>3, Zenon DEF Kept
      <4> QED
        BY <4>2, <4>3, Zenon
    <3>7. ASSUME clean' PROVE \A q \in Gateways(start) : q \in table'
      <4> SUFFICES ASSUME NEW q \in Gateways(start) PROVE q \in table'
        BY Zenon
      <4>1. /\ saved \in start /\ q \in start /\ q.dst = "default"
            /\ (q \in table \/ q.prio = 0) /\ saved.prio <= q.prio
        BY <1>1, <2>3, <3>7, Zenon DEF TablesInv, UndisturbedInv, Displaced, SavedFirst, Gateways, Defaults
      <4>2. q.prio = saved.prio => q = saved
        BY <1>1, <3>1, <4>1, Zenon DEF TablesSound, OnePerPlace
      <4>3. saved.prio \in 0 .. 2
        BY <3>1, Zenon DEF Route
      <4>4. q.prio = 0 => q.prio = saved.prio
        BY <4>1, <4>3
      <4> QED
        BY <3>2, <3>3, <4>1, <4>2, <4>4, Zenon
    <3>8. ASSUME clean' PROVE Defaults(WithoutTun(table')) \subseteq start
      BY <1>1, <2>3, <3>1, <3>8, Zenon DEF TablesInv, UndisturbedInv, Defaults, WithoutTun, Replace
    <3>9. UndisturbedInv'
      BY <2>1, <3>7, <3>8, Zenon DEF UndisturbedInv, Gateways, Defaults
    <3> QED
      BY <1>1, <2>1, <3>2, <3>4, <3>6, <3>9, Zenon DEF TablesInv, Defaults, WithoutTun
  <2> QED
    BY <1>10, <2>2, <2>3, ZenonT(60) DEF Restore
<1>11. CASE RestoreDevice
  <2>1. /\ pc = "restore2" /\ ~clean /\ ~clean'
        /\ UNCHANGED <<start, saved, gateway, srv_default_installed>>
    BY <1>1, <1>11, Zenon DEF RestoreDevice, session, routeFlags, PlaceInv, InSession
  <2>2. CASE UNCHANGED table
    BY <1>1, <2>1, <2>2, DefaultsAlone, Zenon
  <2>3. CASE table' = Replace(table, DeviceOnly)
    <3>1. DeviceOnly \in Route /\ DeviceOnly.prio = 0 /\ DeviceOnly.dev # "tun"
      BY <1>1, RouteTypes, Zenon
    <3>2. table' \subseteq Route /\ OnePerPlace(table')
      BY <1>1, <2>3, <3>1, ReplaceSound, Zenon
    <3>3. SavedFirst' /\ TablesSound'
      BY <1>1, <2>1, <2>3, <3>1, <3>2, Zenon DEF SavedFirst, TablesSound, Replace, Renumbered
    <3>4. \A q \in table : q.prio # 0 => q \in table'
      BY <2>3, <3>1, Zenon DEF Replace
    <3>5. MetricInv'
      BY <1>1, <2>1, <3>4, MetricMoves, Zenon
    <3> QED
      BY <1>1, <2>1, <3>2, <3>3, <3>5, Zenon DEF TablesInv, UndisturbedInv, Defaults, WithoutTun
  <2> QED
    BY <1>11, <2>2, <2>3, Zenon DEF RestoreDevice
<1>12. CASE Unpin
  <2>1. pc = "unpin" /\ UNCHANGED <<start, saved, gateway, srv_default_installed>>
    BY <1>12, Zenon DEF Unpin, session
  <2>2. CASE UNCHANGED table /\ (clean' => clean)
    BY <1>1, <2>1, <2>2, DefaultsAlone, Zenon
  <2>3. CASE table' = table \ {Pin} /\ UNCHANGED clean
    BY <1>1, <1>4, <2>1, <2>3, RouteTypes, Zenon
  <2> QED
    BY <1>12, <2>2, <2>3, Zenon DEF Unpin
<1>13. CASE IfaceDown
  <2>1. /\ pc = "down" /\ UNCHANGED <<start, saved, gateway, clean, srv_default_installed>>
        /\ ~srv_default_installed
    BY <1>1, <1>13, Zenon DEF IfaceDown, session, routeFlags, PlaceInv, FlagAhead
  <2>2. CASE UNCHANGED table
    BY <1>2, <2>1, <2>2, Zenon
  <2>3. CASE table' = WithoutTun(table)
    <3>1. SavedFirst' /\ TablesSound' /\ table' \subseteq Route
      BY <1>1, <2>1, <2>3, Zenon DEF SavedFirst, TablesSound, OnePerPlace, WithoutTun, Renumbered
    <3>2. MetricInv'
      BY <1>1, <2>1, <2>3, MetricMoves, Zenon DEF WithoutTun
    <3>3. ASSUME clean' PROVE \A q \in Gateways(start) : q \in table'
      <4> SUFFICES ASSUME NEW q \in Gateways(start) PROVE q \in table'
        BY Zenon
      <4>1. q \in table
        BY <1>1, <2>1, <3>3, Zenon DEF TablesInv, UndisturbedInv, Displaced
      <4>2. q.dev # "tun"
        BY <1>1, <4>1, Zenon DEF Gateways
      <4> QED
        BY <2>3, <4>1, <4>2, Zenon DEF WithoutTun
    <3>4. ASSUME clean' PROVE Defaults(WithoutTun(table')) \subseteq start
      BY <1>1, <2>1, <2>3, <3>4, Zenon DEF TablesInv, UndisturbedInv, Defaults, WithoutTun
    <3>5. UndisturbedInv'
      BY <2>1, <3>3, <3>4, Zenon DEF UndisturbedInv, Gateways, Defaults
    <3> QED
      BY <1>1, <2>1, <3>1, <3>2, <3>5, Zenon DEF TablesInv, Defaults, WithoutTun
  <2> QED
    BY <1>13, <2>2, <2>3, Zenon DEF IfaceDown
<1> QED
  BY <1>5, <1>6, <1>7, <1>8, <1>9, <1>10, <1>11, <1>12, <1>13, Zenon

\* Another gateway: the same routes go from the table and from what the session
\* is compared with, and the same one comes.
Stays(t, moved) == {q \in t : moved => q.via # "old" \/ q.dev # saved.dev}
LEMMA RoamKeeps == ASSUME RouteInv, Roam \/ Renumber PROVE RouteInv'
<1> DEFINE new == Renumbered
<1>1. /\ PlaceInv /\ TablesInv /\ SavedFirst /\ TablesSound
      /\ table \subseteq Route /\ OnePerPlace(table)
      /\ start \subseteq Route /\ OnePerPlace(start)
  BY RouteInvParts, Zenon DEF TablesInv, TablesSound
<1>2. /\ \E moved \in BOOLEAN : /\ table' = Replace(Stays(table, moved), new)
                               /\ start' = Replace(Stays(start, moved), new)
      /\ gateway' \in {gateway, FALSE} /\ saved.via = "old"
      /\ UNCHANGED <<pc, targets, idx, saved, routeFlags, dev, clean>>
  <2>1. CASE Roam
    BY <2>1, Zenon DEF Roam, GatewayMoved, Stays
  <2>2. CASE Renumber
    <3>1. Stays(table, FALSE) = table /\ Stays(start, FALSE) = start
      BY Zenon DEF Stays
    <3> QED
      BY <2>2, <3>1, Zenon DEF Renumber
  <2> QED
    BY <2>1, <2>2, Zenon
<1>3. /\ new \in Route /\ new.dst = "default" /\ new.prio = saved.prio
      /\ new.dev # "tun" /\ new.via = "new" /\ Renumbered' = Renumbered
  BY <1>1, <1>2, Zenon DEF SavedFirst, Route, Renumbered
<1> HIDE DEF new
<1>4. PICK moved \in BOOLEAN : /\ table' = Replace(Stays(table, moved), new)
                               /\ start' = Replace(Stays(start, moved), new)
  BY <1>2, Zenon DEF new
<1>5. /\ Stays(table, moved) \subseteq Route /\ OnePerPlace(Stays(table, moved))
      /\ Stays(start, moved) \subseteq Route /\ OnePerPlace(Stays(start, moved))
      /\ Stays(table, moved) \subseteq table /\ Stays(start, moved) \subseteq start
  BY <1>1, Zenon DEF OnePerPlace, Stays
<1>6. /\ table' \subseteq Route /\ OnePerPlace(table')
      /\ start' \subseteq Route /\ OnePerPlace(start')
  BY <1>3, <1>4, <1>5, ReplaceSound, Zenon
<1>7. PlaceInv'
  BY <1>1, <1>2, Zenon DEF PlaceInv, FlagAhead, InSession, routeFlags
\* A route of either table that is not the new one was in that table before, at
\* another place than the new one.
<1>8. \A q : /\ q \in table' <=> \/ q = new
                                 \/ q \in Stays(table, moved) /\ (q.dst # "default" \/ q.prio # saved.prio)
             /\ q \in start' <=> \/ q = new
                                 \/ q \in Stays(start, moved) /\ (q.dst # "default" \/ q.prio # saved.prio)
  BY <1>3, <1>4, Zenon DEF Replace
<1>9. SavedFirst'
  <2>1. saved \notin start'
    BY <1>1, <1>2, <1>3, <1>8, Zenon DEF SavedFirst
  <2>2. Renumbered' \in start'
    BY <1>3, <1>8, Zenon DEF new
  <2> QED
    BY <1>1, <1>2, <2>1, <2>2, Zenon DEF SavedFirst
<1>10. TablesSound'
  BY <1>1, <1>3, <1>5, <1>6, <1>8, Zenon DEF TablesSound
<1>11. MetricInv'
  <2> SUFFICES ASSUME NEW q \in Defaults(WithoutTun(start')), q.prio # 0 PROVE q \in table'
    BY Zenon DEF MetricInv, Kept
  <2>1. q \in start' /\ q.dst = "default" /\ q.dev # "tun"
    BY Zenon DEF Defaults, WithoutTun
  <2>2. CASE q = new
    BY <1>8, <2>2, Zenon
  <2>3. CASE q \in Stays(start, moved) /\ q.prio # saved.prio
    <3>1. Kept(q)
      BY <1>1, <1>5, <2>1, <2>3, Zenon DEF TablesInv, MetricInv, Defaults, WithoutTun
    <3>2. q \in table
      BY <1>3, <2>3, <3>1, Zenon DEF Kept, new
    <3> QED
      BY <1>8, <2>3, <3>2, Zenon DEF Stays
  <2> QED
    BY <1>8, <2>1, <2>2, <2>3, Zenon
<1>12. ASSUME clean' PROVE \A q \in Gateways(start') : q \in table' \/ Displaced(q)'
  <2> SUFFICES ASSUME NEW q \in Gateways(start'), q \notin table'
               PROVE  Displaced(q)'
    BY Zenon
  <2>1. q \in Stays(start, moved) /\ q.dst = "default" /\ q.prio # saved.prio /\ q \in Gateways(start)
    BY <1>5, <1>8, Zenon DEF Gateways, Defaults
  <2>2. q \notin table
    BY <1>8, <2>1, Zenon DEF Stays
  <2>3. Displaced(q)
    BY <1>1, <1>2, <1>12, <2>1, <2>2, ZenonT(60) DEF TablesInv, UndisturbedInv
  <2>4. q.prio = 0 /\ saved.prio # 0
    BY <2>1, <2>3, Zenon DEF Displaced
  <2>5. InTunnel("default") \in table => InTunnel("default") \in table'
    <3>1. InTunnel("default").prio = 0 /\ InTunnel("default").via = "link"
      BY <1>1, RouteTypes, Zenon DEF Dsts
    <3> QED
      BY <1>8, <2>4, <3>1, Zenon DEF Stays
  <2> QED
    BY <1>2, <2>3, <2>5, Zenon DEF Displaced, routeFlags
<1>13. ASSUME clean' PROVE Defaults(WithoutTun(table')) \subseteq start'
  BY <1>1, <1>2, <1>8, <1>13, Zenon DEF TablesInv, UndisturbedInv, Defaults, WithoutTun, Stays
<1>14. UndisturbedInv'
  BY <1>12, <1>13, Zenon DEF UndisturbedInv
<1>15. TablesInv'
  BY <1>6, <1>9, <1>10, <1>11, <1>14, Zenon DEF TablesInv
<1> QED
  BY <1>7, <1>15, RouteInvParts, Zenon

\* What happens around the session: the device or the gateway vanishes, the
\* client is killed.
LEMMA AroundKeeps == ASSUME RouteInv, Vanish \/ GatewayLost \/ Killed PROVE RouteInv'
<1>1. /\ PlaceInv /\ TablesInv /\ SavedFirst /\ TablesSound
      /\ table \subseteq Route /\ OnePerPlace(table)
      /\ \A r \in table : r.dev = "tun" => r.via = "link" /\ r.prio = 0
  BY RouteInvParts, Zenon DEF TablesInv, TablesSound
<1>2. CASE GatewayLost
  <2>1. PlaceInv'
    BY <1>1, <1>2, Zenon DEF GatewayLost, session, routeFlags, PlaceInv, FlagAhead, InSession
  <2>2. TablesInv'
    BY <1>1, <1>2, DefaultsAlone, Zenon DEF GatewayLost, session, routeFlags
  <2> QED
    BY <2>1, <2>2, RouteInvParts, Zenon
<1>3. CASE Vanish \/ Killed
  <2>1. /\ table' = WithoutTun(table) /\ ~clean' /\ clean' \in BOOLEAN
        /\ UNCHANGED <<start, saved, gateway>>
    BY <1>3, ZenonT(60) DEF Vanish, Killed, session
  <2>2. ASSUME Vanish PROVE PlaceInv'
    BY <1>1, <2>1, <2>2, Zenon DEF Vanish, session, routeFlags, PlaceInv, FlagAhead, InSession
  <2>3. ASSUME Killed PROVE PlaceInv'
    <3>1. /\ pc' = "idle" /\ targets' = <<>> /\ idx' = 1 /\ dev' = "down"
          /\ ~srv_default_installed' /\ ~srv_pin_installed'
          /\ {srv_default_installed', srv_pin_installed'} \subseteq BOOLEAN
      BY <2>3, Zenon DEF Killed
    <3>2. idx' \in 1 .. Len(targets') + 1
      BY <3>1
    <3>3. FlagAhead' /\ InSession'
      BY <3>1, Zenon DEF FlagAhead, InSession
    <3> QED
      BY <1>1, <2>1, <3>1, <3>2, <3>3, Zenon DEF PlaceInv
  <2>4. SavedFirst' /\ TablesSound' /\ table' \subseteq Route
    BY <1>1, <2>1, Zenon DEF SavedFirst, TablesSound, OnePerPlace, WithoutTun, Renumbered
  <2>5. MetricInv'
    BY <1>1, <2>1, MetricMoves, Zenon DEF WithoutTun
  <2>6. TablesInv'
    BY <1>1, <2>1, <2>4, <2>5, Zenon DEF TablesInv, UndisturbedInv, Defaults, WithoutTun
  <2> QED
    BY <1>3, <2>2, <2>3, <2>6, RouteInvParts, Zenon
<1> QED
  BY <1>2, <1>3, Zenon

\* Before the first session.
LEMMA RouteInitially == RouteInit => RouteInv
<1> SUFFICES ASSUME RouteInit PROVE RouteInv
  BY Zenon
<1>1. /\ table \subseteq Route /\ start = table /\ OnePerPlace(table)
      /\ Gateways(table) # {} /\ saved = Captured(table)
      /\ \A r \in table : r.dev # "tun"
  BY RouteConstants, Zenon DEF RouteInit, Gateways, Defaults
<1>2. SavedFirst
  BY <1>1, CapturedFirst, Zenon DEF SavedFirst
<1>3. TablesSound
  BY <1>1, Zenon DEF TablesSound
<1>4. UndisturbedInv
  BY <1>1, Zenon DEF UndisturbedInv, Gateways, Defaults, WithoutTun
<1>5. FlagAhead /\ InSession
  BY Zenon DEF RouteInit, FlagAhead, InSession
<1>6. RouteTypeOK
  <2>1. idx \in 1 .. Len(targets) + 1
    BY DEF RouteInit
  <2> QED
    BY <1>1, <1>2, <2>1, Zenon DEF RouteInit, RouteTypeOK, SavedFirst
<1>7. MetricInv
  BY <1>1, Zenon DEF MetricInv, Kept, Defaults, WithoutTun
<1> QED
  BY <1>2, <1>3, <1>4, <1>5, <1>6, <1>7, Zenon DEF RouteInv

\* Every step keeps the strengthening.
LEMMA RouteStepKeeps == RouteInv /\ [RouteNext]_routeVars => RouteInv'
<1> SUFFICES ASSUME RouteInv, [RouteNext]_routeVars PROVE RouteInv'
  BY Zenon
<1>1. CASE \E l \in TargetLists : Begin(l)
  BY <1>1, BeginKeeps, Zenon
<1>2. CASE IfaceUp \/ SetPin \/ PreserveLocal \/ SetRoute \/ Stop \/ SkipDefault
           \/ Unroute \/ Restore \/ RestoreDevice \/ Unpin \/ IfaceDown
  BY <1>2, PlaceMoves, TablesMove, RouteInvParts, Zenon
<1>3. CASE Vanish \/ GatewayLost \/ Killed
  BY <1>3, AroundKeeps, Zenon
<1>4. CASE Roam \/ Renumber
  BY <1>4, RoamKeeps, Zenon
<1>5. CASE UNCHANGED routeVars
  BY <1>5, ZenonT(60) DEF routeVars, RouteInv, RouteTypeOK, SavedFirst, TablesSound, FlagAhead, InSession,
              MetricInv, Kept, Renumbered, UndisturbedInv, Displaced
<1> QED
  BY <1>1, <1>2, <1>3, <1>4, <1>5, Zenon DEF RouteNext

\* The strengthening holds for every list of targets and every table of the
\* host.
THEOREM RouteInvariant == RouteSpec => []RouteInv
  BY RouteInitially, RouteStepKeeps, PTL DEF RouteSpec

\* Whatever order set-ups, failures, teardowns, vanishing devices, kills and
\* moves to another network come in, an undisturbed session gives the host its
\* default routes back and no session loses one that has a metric; for any
\* lists of targets and any routing tables the host may start with.
THEOREM RoutesAreKept == RouteSpec => []RoutesKept
<1>1. RouteInv => RoutesKept
  <2> SUFFICES ASSUME RouteInv PROVE RoutesKept
    BY Zenon
  <2>1. ASSUME pc = "idle", clean, NEW r \in Defaults(start), r.via # "link"
        PROVE  r \in table
    BY <2>1, Zenon DEF RouteInv, UndisturbedInv, Gateways, Displaced, FlagAhead
  <2>2. DefaultsRestored
    BY <2>1, Zenon DEF RouteInv, UndisturbedInv, DefaultsRestored
  <2> QED
    BY <2>2, Zenon DEF RouteInv, RoutesKept, MetricDefaultKept, MetricInv, Kept
<1> QED
  BY <1>1, RouteInvariant, PTL

\* A route into the tunnel is one whose teardown is still to come.
Ahead(d) ==
    /\ pc \in {"local", "route", "running", "unroute", "restore"}
    /\ d = "default" => srv_default_installed
    /\ \E j \in 1 .. Len(targets) :
          targets[j] = d /\ (pc \in {"unroute", "restore"} => idx <= j)

\* What an undisturbed session has put in and not yet taken out, or not given
\* back.
Ours(r) ==
    \/ r = Preserve
    \/ r = Pin /\ srv_pin_installed
    \/ \E d \in {"default", "net"} : r = InTunnel(d) /\ Ahead(d)

\* The strengthening of OnlyLocalLeft.
LeftInv ==
    /\ srv_pin_installed => pc \notin {"idle", "up", "pin", "down"}
    /\ pc = "restore" => targets[idx] = "default"
    /\ clean => /\ \A r \in table \ start : Ours(r)
                /\ \A r \in start \ table : r.prio = 0

\* Steps that put nothing in, and from which whatever is there is still ahead.
LEMMA LeftMoves ==
    ASSUME LeftInv, UNCHANGED <<start, saved>>, clean' => clean,
           clean' => \A r \in table' \ start : r \in table \/ Ours(r)',
           clean' => \A r \in start \ table' : r \in table => r.prio = 0,
           clean' => \A r \in table \cap table' : r = Pin /\ srv_pin_installed => srv_pin_installed' \/ r \in start,
           clean' => \A d \in {"default", "net"} :
                        InTunnel(d) \in (table \cap table') \ start /\ Ahead(d) => Ahead(d)'
    PROVE  clean' => /\ \A r \in table' \ start' : Ours(r)'
                     /\ \A r \in start' \ table' : r.prio = 0
<1> SUFFICES ASSUME clean' PROVE /\ \A r \in table' \ start : Ours(r)'
                                 /\ \A r \in start \ table' : r.prio = 0
  BY Zenon
<1>1. /\ \A r \in table \ start : Ours(r)
      /\ \A r \in start \ table : r.prio = 0
  BY Zenon DEF LeftInv
<1>2. Preserve' = Preserve /\ Pin' = Pin
  BY Zenon DEF Preserve, Pin
<1>3. ASSUME NEW r \in table' \ start, r \in table, Ours(r) PROVE Ours(r)'
  BY <1>2, <1>3, Zenon DEF Ours, InTunnel
<1> QED
  BY <1>1, <1>3, Zenon

\* Teardown goes on to the next target: what is for another one stays ahead.
LEMMA OnwardAhead ==
    ASSUME PlaceInv, pc \in {"unroute", "restore"}, Onward, UNCHANGED targets,
           NEW d, d # targets[idx], Ahead(d), d = "default" => srv_default_installed'
    PROVE  Ahead(d)'
<1>1. PICK j \in 1 .. Len(targets) : targets[j] = d /\ idx <= j
  BY Zenon DEF Ahead
<1>2. Len(targets) \in Nat /\ idx \in 1 .. Len(targets)
  BY SessionTargets, SMTT(60) DEF PlaceInv, InSession
<1>3. j # idx
  BY <1>1, Zenon
<1>4. idx + 1 <= j /\ idx # Len(targets)
  BY <1>1, <1>2, <1>3, SMTT(60)
<1>5. pc' = "unroute" /\ idx' = idx + 1
  BY <1>4, Zenon DEF Onward
<1> QED
  BY <1>1, <1>4, <1>5, Zenon DEF Ahead

\* The steps of a set-up.
LEMMA SetUpLeaves ==
    ASSUME RouteInv, LeftInv, IfaceUp \/ SetPin \/ PreserveLocal \/ SetRoute \/ Stop
    PROVE  LeftInv'
<1>1. PlaceInv /\ SavedFirst /\ TablesSound /\ clean \in BOOLEAN
  BY RouteInvParts, Zenon DEF RouteInv, PlaceInv
<1>2. /\ InTunnel("default").prio = 0 /\ InTunnel("net").prio = 0
      /\ Pin.prio = 0 /\ Preserve.prio = 0 /\ Pin' = Pin /\ Preserve' = Preserve
  <2>1. saved' = saved
    BY Zenon DEF IfaceUp, SetPin, PreserveLocal, SetRoute, Stop, session
  <2> QED
    BY <2>1, Zenon DEF InTunnel, Pin, Preserve
<1>3. ASSUME NEW x, NEW r, r \in Replace(table, x) PROVE r \in table \/ r = x
  BY <1>3, Zenon DEF Replace
<1>4. ASSUME NEW x, NEW r, r \in table, r \notin Replace(table, x) PROVE r.prio = x.prio
  BY <1>4, Zenon DEF Replace
\* Back to the first target, everything is ahead.
<1>5. ASSUME Rollback, pc \in {"local", "route", "running"}, NEW d, Ahead(d),
             UNCHANGED <<targets, srv_default_installed>>
      PROVE  Ahead(d)'
  <2>1. PICK j \in 1 .. Len(targets) : targets[j] = d
    BY <1>5, Zenon DEF Ahead
  <2>2. 1 <= j
    BY <2>1
  <2> QED
    BY <1>5, <2>1, <2>2, Zenon DEF Ahead, Rollback
<1>6. CASE IfaceUp
  <2>1. /\ pc = "up" /\ pc' \in {"pin", "down"}
        /\ UNCHANGED <<table, targets, start, saved, srv_pin_installed, clean>>
    BY <1>6, Zenon DEF IfaceUp, session, routeFlags
  <2>2. \A d : ~Ahead(d)
    BY <2>1, Zenon DEF Ahead
  <2> QED
    BY <2>1, <2>2, LeftMoves, Zenon DEF LeftInv
<1>7. CASE SetPin
  <2>1. /\ pc = "pin" /\ UNCHANGED <<targets, start, saved, clean>> /\ ~srv_pin_installed
        /\ \/ table' = Replace(table, Pin) /\ srv_pin_installed' /\ pc' \in {"local", "route"}
           \/ UNCHANGED <<table, srv_pin_installed>> /\ pc' \in {"local", "route", "down"}
    BY <1>7, Zenon DEF SetPin, session, LeftInv
  <2>2. \A d : ~Ahead(d)
    BY <2>1, Zenon DEF Ahead
  <2>3. \A r \in table' \ start : r \in table \/ Ours(r)'
    BY <1>2, <1>3, <2>1, ZenonT(30) DEF Ours
  <2>4. \A r \in start \ table' : r \in table => r.prio = 0
    BY <1>2, <1>4, <2>1, Zenon
  <2>5. clean' => /\ \A r \in table' \ start' : Ours(r)'
                  /\ \A r \in start' \ table' : r.prio = 0
    BY <2>1, <2>2, <2>3, <2>4, LeftMoves, Zenon
  <2>6. srv_pin_installed' => pc' \in {"local", "route"}
    BY <2>1, Zenon
  <2>7. pc' # "restore"
    BY <2>1, Zenon
  <2> QED
    BY <2>5, <2>6, <2>7, Zenon DEF LeftInv
<1>8. CASE PreserveLocal
  <2>1. /\ pc = "local" /\ pc' \in {"route", "unroute"} /\ (pc' = "unroute" => Rollback)
        /\ UNCHANGED <<targets, start, saved, clean, srv_default_installed, srv_pin_installed>>
        /\ (table' = Replace(table, Preserve) \/ UNCHANGED table)
    BY <1>8, Zenon DEF PreserveLocal, session, routeFlags, Rollback
  <2>2. \A d : Ahead(d) => Ahead(d)'
    BY <1>5, <2>1, Zenon DEF Ahead
  <2>3. \A r \in table' \ start : r \in table \/ Ours(r)'
    BY <1>2, <1>3, <2>1, Zenon DEF Ours
  <2>4. \A r \in start \ table' : r \in table => r.prio = 0
    BY <1>2, <1>4, <2>1, Zenon
  <2> QED
    BY <2>1, <2>2, <2>3, <2>4, LeftMoves, Zenon DEF LeftInv
<1>9. CASE SetRoute
  <2>1. /\ pc = "route" /\ UNCHANGED <<targets, start, saved, clean, srv_pin_installed>>
    BY <1>9, Zenon DEF SetRoute, session
  <2>2. /\ Len(targets) \in Nat \ {0} /\ idx \in 1 .. Len(targets)
        /\ targets[idx] \in {"default", "net"}
    BY <1>1, <2>1, SessionTargets, SMTT(60) DEF PlaceInv, InSession
  <2>3. CASE Rollback /\ UNCHANGED <<table, srv_default_installed>>
    BY <1>5, <2>1, <2>3, LeftMoves, Zenon DEF LeftInv, Rollback
  <2>4. CASE /\ table' = Replace(table, InTunnel(targets[idx]))
             /\ pc' \in {"running", "local", "route"}
             /\ srv_default_installed' = (srv_default_installed \/ targets[idx] = "default")
    <3>1. /\ srv_default_installed => srv_default_installed'
          /\ targets[idx] = "default" => srv_default_installed'
          /\ pc' \notin {"unroute", "restore"}
      BY <2>4, Zenon
    <3>2. \A d : Ahead(d) \/ d = targets[idx] => Ahead(d)'
      BY <2>1, <2>2, <2>4, <3>1, ZenonT(30) DEF Ahead
    <3>3. ASSUME NEW r \in table' \ start, r \notin table PROVE Ours(r)'
      <4>1. PICK d \in {"default", "net"} : d = targets[idx]
        BY <2>2, Zenon
      <4>2. r = InTunnel(d) /\ Ahead(d)'
        BY <1>3, <2>4, <3>2, <3>3, <4>1, Zenon
      <4> QED
        BY <4>2, Zenon DEF Ours, InTunnel
    <3>4. \A r \in start \ table' : r \in table => r.prio = 0
      BY <1>2, <1>4, <2>2, <2>4, Zenon
    <3> QED
      BY <2>1, <2>4, <3>2, <3>3, <3>4, LeftMoves, Zenon DEF LeftInv
  <2> QED
    BY <1>9, <2>3, <2>4, Zenon DEF SetRoute
<1>10. CASE Stop
  BY <1>5, <1>10, LeftMoves, Zenon DEF Stop, LeftInv, Rollback, session, routeFlags
<1> QED
  BY <1>6, <1>7, <1>8, <1>9, <1>10, Zenon

\* The steps of a teardown.
LEMMA TearDownLeaves ==
    ASSUME RouteInv, LeftInv,
           SkipDefault \/ Unroute \/ Restore \/ RestoreDevice \/ Unpin \/ IfaceDown
    PROVE  LeftInv'
<1>1. /\ PlaceInv /\ SavedFirst /\ TablesSound /\ FlagAhead /\ InSession
      /\ clean \in BOOLEAN
  BY RouteInvParts, Zenon DEF RouteInv, PlaceInv
\* Onward to the next target or to the pin.
<1>2. Onward => pc' \in {"unroute", "unpin"}
  BY Zenon DEF Onward
<1>3. CASE SkipDefault
  <2>1. /\ pc = "unroute" /\ targets[idx] = "default" /\ ~srv_default_installed /\ Onward
        /\ UNCHANGED <<table, targets, start, saved, srv_default_installed, srv_pin_installed, clean>>
    BY <1>3, Zenon DEF SkipDefault, session, routeFlags
  <2>2. \A d : Ahead(d) => Ahead(d)'
    <3> SUFFICES ASSUME NEW d, Ahead(d) PROVE Ahead(d)'
      BY Zenon
    <3>1. d # "default"
      BY <2>1, Zenon DEF Ahead
    <3> QED
      BY <1>1, <2>1, <3>1, OnwardAhead, Zenon
  <2>3. clean' => /\ \A r \in table' \ start' : Ours(r)'
                  /\ \A r \in start' \ table' : r.prio = 0
    BY <2>1, <2>2, LeftMoves, Zenon
  <2> QED
    BY <1>2, <2>1, <2>3, Zenon DEF LeftInv
<1>4. CASE Unroute
  <2>1. /\ pc = "unroute" /\ UNCHANGED <<targets, start, saved, srv_pin_installed>>
        /\ srv_default_installed' = (srv_default_installed /\ targets[idx] # "default")
        /\ \/ /\ table' = table \ {InTunnel(targets[idx])} /\ UNCHANGED clean
              /\ IF targets[idx] = "default" THEN pc' = "restore" /\ UNCHANGED idx ELSE Onward
           \/ /\ Onward /\ UNCHANGED table
              /\ clean' = (clean /\ InTunnel(targets[idx]) \notin table)
    BY <1>4, ZenonT(60) DEF Unroute, session
  <2>2. InTunnel(targets[idx]).prio = 0
    BY Zenon DEF InTunnel
  <2>3. ASSUME clean' PROVE InTunnel(targets[idx]) \notin table'
    BY <1>1, <2>1, <2>3, Zenon
  <2>4. ASSUME NEW d, d # targets[idx], Ahead(d) PROVE Ahead(d)'
    <3>1. d = "default" => srv_default_installed'
      BY <2>1, <2>4, Zenon DEF Ahead
    <3>2. CASE Onward
      BY <1>1, <2>1, <2>4, <3>1, <3>2, OnwardAhead, Zenon
    <3>3. CASE pc' = "restore" /\ UNCHANGED idx
      BY <2>1, <2>4, <3>1, <3>3, Zenon DEF Ahead
    <3> QED
      BY <2>1, <3>2, <3>3, Zenon
  <2>5. /\ clean' => clean
        /\ \A r \in table' : r \in table
        /\ \A r \in start \ table' : r \in table => r.prio = 0
    <3>1. clean' => clean
      BY <1>1, <2>1, Zenon
    <3>2. /\ \A r \in table' : r \in table
          /\ \A r \in table : r \notin table' => r = InTunnel(targets[idx])
      BY <2>1, Zenon
    <3> QED
      BY <2>2, <3>1, <3>2, Zenon
  <2>6. clean' => \A d \in {"default", "net"} :
                     InTunnel(d) \in (table \cap table') \ start /\ Ahead(d) => Ahead(d)'
    BY <2>3, <2>4, Zenon
  <2>7. clean' => /\ \A r \in table' \ start' : Ours(r)'
                  /\ \A r \in start' \ table' : r.prio = 0
    BY <2>1, <2>5, <2>6, LeftMoves, Zenon
  <2>8. pc' \in {"unroute", "unpin", "restore"} /\ (pc' = "restore" => targets'[idx'] = "default")
    BY <1>2, <2>1, Zenon
  <2> QED
    BY <2>7, <2>8, Zenon DEF LeftInv
<1>5. CASE Restore
  <2>1. /\ pc = "restore" /\ targets[idx] = "default" /\ ~srv_default_installed
        /\ UNCHANGED <<targets, start, saved, srv_default_installed, srv_pin_installed>>
        /\ \/ /\ table' = Replace(table, saved) /\ Onward /\ clean' = (clean /\ saved \in start)
           \/ pc' = "restore2" /\ ~clean'
    BY <1>1, <1>5, ZenonT(60) DEF Restore, session, routeFlags, LeftInv, FlagAhead
  <2>2. CASE pc' = "restore2" /\ ~clean'
    BY <2>2, Zenon DEF LeftInv
  <2>3. CASE table' = Replace(table, saved) /\ Onward /\ clean' = (clean /\ saved \in start)
    <3>1. \A d : Ahead(d) => Ahead(d)'
      <4> SUFFICES ASSUME NEW d, Ahead(d) PROVE Ahead(d)'
        BY Zenon
      <4>1. d # "default"
        BY <2>1, Zenon DEF Ahead
      <4> QED
        BY <1>1, <2>1, <2>3, <4>1, OnwardAhead, Zenon
    <3>2. ASSUME clean' PROVE /\ \A r \in table' \ start : r \in table
                              /\ \A r \in start \ table' : r \notin table
      BY <1>1, <2>3, <3>2, Zenon DEF Replace, TablesSound, OnePerPlace
    <3>3. clean' => /\ \A r \in table' \ start' : Ours(r)'
                    /\ \A r \in start' \ table' : r.prio = 0
      BY <2>1, <2>3, <3>1, <3>2, LeftMoves, Zenon
    <3> QED
      BY <1>2, <2>3, <3>3, Zenon DEF LeftInv
  <2> QED
    BY <2>1, <2>2, <2>3, Zenon
<1>6. CASE RestoreDevice
  <2>1. ~clean' /\ Onward
    BY <1>1, <1>6, Zenon DEF RestoreDevice, InSession
  <2> QED
    BY <1>2, <2>1, Zenon DEF LeftInv
<1>7. CASE Unpin
  <2>1. /\ pc = "unpin" /\ pc' = "down" /\ ~srv_pin_installed'
        /\ UNCHANGED <<targets, start, saved>>
        /\ \/ table' = table \ {Pin} /\ UNCHANGED clean
           \/ UNCHANGED table /\ clean' = (clean /\ ~srv_pin_installed)
    BY <1>7, Zenon DEF Unpin, session
  <2>2. \A d : ~Ahead(d)
    BY <2>1, Zenon DEF Ahead
  <2>3. /\ clean' => clean
        /\ \A r \in table' : r \in table
        /\ \A r \in start \ table' : r \in table => r.prio = 0
        /\ clean' => \A r \in table \cap table' : ~(r = Pin /\ srv_pin_installed)
    <3>1. clean' => clean
      BY <1>1, <2>1, Zenon
    <3>2. /\ \A r \in table' : r \in table
          /\ \A r \in table : r \notin table' => r = Pin
      BY <2>1, Zenon
    <3>3. Pin.prio = 0
      BY Zenon DEF Pin
    <3>4. clean' => \A r \in table \cap table' : ~(r = Pin /\ srv_pin_installed)
      BY <1>1, <2>1, Zenon
    <3> QED
      BY <3>1, <3>2, <3>3, <3>4, Zenon
  <2>4. clean' => /\ \A r \in table' \ start' : Ours(r)'
                  /\ \A r \in start' \ table' : r.prio = 0
    BY <2>1, <2>2, <2>3, LeftMoves, Zenon
  <2> QED
    BY <2>1, <2>4, Zenon DEF LeftInv
<1>8. CASE IfaceDown
  <2>1. /\ pc = "down" /\ pc' = "idle" /\ ~srv_pin_installed
        /\ UNCHANGED <<targets, start, saved, srv_pin_installed, clean>>
        /\ (table' = WithoutTun(table) \/ UNCHANGED table)
    BY <1>8, Zenon DEF IfaceDown, session, routeFlags, LeftInv
  <2>2. \A d : ~Ahead(d)
    BY <2>1, Zenon DEF Ahead
  <2>3. /\ \A r \in table' : r \in table
        /\ \A r \in start \ table' : r \in table => r.prio = 0
    BY <1>1, <2>1, Zenon DEF WithoutTun, TablesSound
  <2>4. clean' => /\ \A r \in table' \ start' : Ours(r)'
                  /\ \A r \in start' \ table' : r.prio = 0
    BY <2>1, <2>2, <2>3, LeftMoves, Zenon
  <2> QED
    BY <2>1, <2>4, Zenon DEF LeftInv
<1> QED
  BY <1>3, <1>4, <1>5, <1>6, <1>7, <1>8, Zenon

\* A session begins, or something happens around it.
LEMMA AroundLeaves ==
    ASSUME RouteInv, LeftInv,
           (\E l \in TargetLists : Begin(l)) \/ Vanish \/ GatewayLost \/ Killed
           \/ Roam \/ Renumber
    PROVE  LeftInv'
<1>1. CASE \E l \in TargetLists : Begin(l)
  BY <1>1, Zenon DEF Begin, LeftInv
<1>2. CASE Vanish
  BY <1>2, Zenon DEF Vanish, session, routeFlags, LeftInv
<1>3. CASE Killed
  BY <1>3, Zenon DEF Killed, LeftInv
<1>4. CASE GatewayLost
  <2>1. UNCHANGED <<pc, idx, table, targets, start, saved, routeFlags, clean>>
    BY <1>4, Zenon DEF GatewayLost, session
  <2>2. \A d : Ahead(d) => Ahead(d)'
    BY <2>1, Zenon DEF Ahead, routeFlags
  <2>3. clean' => /\ \A r \in table' \ start' : Ours(r)'
                  /\ \A r \in start' \ table' : r.prio = 0
    BY <2>1, <2>2, LeftMoves, Zenon DEF routeFlags
  <2> QED
    BY <2>1, <2>3, Zenon DEF LeftInv, routeFlags
<1>5. CASE Roam \/ Renumber
  <2>1. UNCHANGED <<pc, idx, targets, saved, routeFlags, clean>>
    BY <1>5, Zenon DEF Roam, Renumber
  <2>2. /\ \A r \in table' \ start' : r \in table \ start
        /\ \A r \in start' \ table' : r \in start \ table
    BY <1>5, Zenon DEF Roam, Renumber, GatewayMoved, Replace
  <2>3. \A r : Ours(r) => Ours(r)'
    BY <2>1, Zenon DEF Ours, Preserve, Pin, InTunnel, Ahead, routeFlags
  <2> QED
    BY <2>1, <2>2, <2>3, Zenon DEF LeftInv, routeFlags
<1> QED
  BY <1>1, <1>2, <1>3, <1>4, <1>5, Zenon

\* B-1/B-2, for any lists of targets and any routing tables: a session that
\* nothing disturbed, set-up failures at any step included, leaves nothing behind
\* but the route of the local subnet, and has cost the host no route with a
\* metric.
THEOREM OnlyLocalIsLeft == RouteSpec => []OnlyLocalLeft
<1>1. RouteInit => LeftInv
  BY Zenon DEF RouteInit, LeftInv
<1>2. RouteInv /\ LeftInv /\ [RouteNext]_routeVars => LeftInv'
  <2> SUFFICES ASSUME RouteInv, LeftInv, [RouteNext]_routeVars PROVE LeftInv'
    BY Zenon
  <2>1. CASE UNCHANGED routeVars
    <3>1. UNCHANGED <<pc, idx, table, targets, start, saved, routeFlags, clean>>
      BY <2>1, Zenon DEF routeVars, routeFlags
    <3>2. \A r : Ours(r) => Ours(r)'
      BY <3>1, Zenon DEF Ours, Preserve, Pin, InTunnel, Ahead, routeFlags
    <3> QED
      BY <3>1, <3>2, Zenon DEF LeftInv, routeFlags
  <2> QED
    BY <2>1, SetUpLeaves, TearDownLeaves, AroundLeaves, Zenon DEF RouteNext
<1>3. RouteInv /\ LeftInv => OnlyLocalLeft
  BY Zenon DEF LeftInv, OnlyLocalLeft, Ours, Ahead
<1> QED
  BY <1>1, <1>2, <1>3, RouteInvariant, PTL DEF RouteSpec
=============================================================================
