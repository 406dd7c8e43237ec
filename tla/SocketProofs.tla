---------------------------- MODULE SocketProofs ----------------------------
(* Proofs about sockets and the datagrams that pass through them: the      *)
(* descriptors of the SOCKS client's sessions, its RX pool, for every      *)
(* pool, vector and budget, and the server's downlink batch, for every     *)
(* size and number of packets.                                             *)
EXTENDS SocksReauth, SocksRx, DownlinkBatch, TLAPS

-----------------------------------------------------------------------------
(* SocksReauth.                                                            *)

\* The type of the SOCKS client's session state.
CfgType ==
    [sock : Fds, sess : Fds, open : SUBSET Fds, listener : BOOLEAN,
     evfd : BOOLEAN, stack : BOOLEAN, reauth_at : {"none", "wait", "due"},
     session_lost : BOOLEAN, ka_fail : 0..SOCKS_KA_FAIL_MAX, silent : BOOLEAN,
     ka_due : BOOLEAN, reauth : BOOLEAN, alive : BOOLEAN, nfd : BOOLEAN]

\* The stages of the loop proper, in which g_stop means the user's stop.
Rounds == {"top", "retry", "drain", "keepalive", "receive", "rest"}

\* The strengthening of SessionOwned: a stop of the loop is the user's or
\* leaves session_lost set, and nothing but the socket is open at the entry.
OwnedInv ==
    /\ SessionOwned
    /\ cfg \in CfgType
    /\ stage \in Rounds \cup {"entry", "ready", "teardown", "done"}
    /\ stops \in [g : BOOLEAN, user : BOOLEAN]
    /\ stage = "entry" => ~cfg.listener /\ ~cfg.evfd
    /\ stage \in Rounds /\ stops.g => stops.user
    /\ stage = "teardown" => stops.user \/ cfg.session_lost

-----------------------------------------------------------------------------
\* The descriptor udp_connect gets is one the client has not open.
LEMMA NewFdFree ==
    ASSUME NEW c \in CfgType, c.open = {c.sock}
    PROVE  NewFd(c) \in Fds /\ NewFd(c) # c.sock
<1>1. c.sock \in {0, 1}
    BY DEF CfgType, Fds
<1>2. \E d \in Fds \ c.open : \A e \in Fds \ c.open : d <= e
    BY <1>1 DEF Fds
<1> QED
    BY <1>2 DEF NewFd

\* socks_reauth_tunnel leaves the old socket open, and the fresh one beside it
\* exactly when it returns one; a legacy caller keeps what it had.
LEMMA TunnelKeeps ==
    ASSUME NEW c \in CfgType, c.open = {c.sock}, NEW t \in Tunnel(c)
    PROVE  /\ t \in CfgType
           /\ t.sock = c.sock /\ t.reauth = c.reauth
           /\ t.nfd => t.sess # t.sock /\ t.open = {t.sock, t.sess}
           /\ ~t.nfd => t.open = {t.sock}
           /\ ~c.reauth => ~t.nfd /\ t.session_lost = c.session_lost
<1>1. CASE ~c.reauth
    BY <1>1, ZenonT(60) DEF Tunnel, CfgType
<1>2. CASE c.reauth /\ t = BackOff(c)
    BY <1>2, Zenon DEF BackOff, CfgType
<1>3. CASE c.reauth /\ t \in Carried(Authenticated(c))
  <2> DEFINE a == Authenticated(c)
  <2>1. /\ a \in CfgType
        /\ a.sock = c.sock /\ a.reauth = c.reauth /\ a.nfd
        /\ a.sess # a.sock /\ a.open = {a.sock, a.sess}
    <3> DEFINE n == NewFd(c)
    <3>1. n \in Fds /\ n # c.sock
        BY NewFdFree
    <3>2. a = [c EXCEPT !.sess = n, !.silent = FALSE, !.ka_fail = 0,
                        !.reauth_at = "none", !.session_lost = FALSE,
                        !.open = @ \cup {n}, !.alive = TRUE, !.nfd = TRUE]
        BY DEF Authenticated
    <3>3. 0 \in 0..SOCKS_KA_FAIL_MAX
        BY ReauthAssumption
    <3> HIDE DEF n, a
    <3>4. a \in CfgType
        BY <3>1, <3>2, <3>3, Zenon DEF CfgType
    <3> QED
        BY <3>1, <3>2, <3>4 DEF CfgType
  <2> HIDE DEF a
  <2>2. CASE t = a
      BY <2>1, <2>2, <1>3, Zenon
  <2>3. CASE t = [a EXCEPT !.stack = TRUE]
      BY <2>1, <2>3, <1>3, Zenon DEF CfgType
  <2>4. CASE t = BackOff([a EXCEPT !.open = @ \ {a.sess}, !.stack = FALSE])
      BY <2>1, <2>4, <1>3, ZenonT(60) DEF CfgType, BackOff
  <2> QED
      BY <1>3, <2>2, <2>3, <2>4, Zenon DEF Carried, a
<1> QED
    BY <1>1, <1>2, <1>3 DEF Tunnel

\* A re-authentication, its swap included, ends with one socket open, the one
\* sockfd names; a legacy caller still has its lost session on record.
LEMMA ReauthedKeeps ==
    ASSUME NEW c \in CfgType, c.open = {c.sock}, NEW d \in Reauthed(c)
    PROVE  /\ d \in CfgType
           /\ d.open = {d.sock} /\ d.reauth = c.reauth
           /\ ~c.reauth => ~d.nfd /\ d.session_lost = c.session_lost
<1>1. PICK t \in Tunnel(c) : d \in Swap(t)
    BY DEF Reauthed
<1>2. /\ t \in CfgType
      /\ t.sock = c.sock /\ t.reauth = c.reauth
      /\ t.nfd => t.sess # t.sock /\ t.open = {t.sock, t.sess}
      /\ ~t.nfd => t.open = {t.sock}
      /\ ~c.reauth => ~t.nfd /\ t.session_lost = c.session_lost
    BY <1>1, TunnelKeeps
<1>3. CASE ~t.nfd
    BY <1>1, <1>2, <1>3 DEF Swap
<1>4. CASE t.nfd /\ d = [t EXCEPT !.open = @ \ {t.sess}]
    BY <1>2, <1>4 DEF CfgType
<1>5. CASE t.nfd /\ d = [t EXCEPT !.open = @ \ {t.sock}, !.sock = t.sess]
    BY <1>2, <1>5, ZenonT(60) DEF CfgType
<1> QED
    BY <1>1, <1>3, <1>4, <1>5 DEF Swap

-----------------------------------------------------------------------------
\* run_socks starts with the session socket alone.
LEMMA OwnedInitially == RaInit => OwnedInv
<1> SUFFICES ASSUME RaInit PROVE OwnedInv
    OBVIOUS
<1>1. 0 \in 0..SOCKS_KA_FAIL_MAX /\ {0} \in SUBSET Fds /\ 0 \in Fds
    BY ReauthAssumption DEF Fds
<1>2. cfg \in CfgType
    BY <1>1, ReauthAssumption, Zenon DEF RaInit, CfgType
<1>3. cfg.open = {cfg.sock} /\ ~cfg.listener /\ ~cfg.evfd
    BY Zenon DEF RaInit
<1>4. stage = "entry" /\ stops \in [g : BOOLEAN, user : BOOLEAN]
    BY DEF RaInit
<1> QED
    BY <1>2, <1>3, <1>4 DEF OwnedInv, SessionOwned, CfgType, Rounds

\* The end of a round by LostOr: the loop goes on, or a legacy session is
\* recorded as lost and torn down.
LEMMA LostOrKeeps ==
    ASSUME NEW c \in CfgType, c.open = {c.sock}, NEW s \in Rounds,
           stops \in [g : BOOLEAN, user : BOOLEAN], stops.g => stops.user,
           LostOr(c, s)
    PROVE  OwnedInv'
<1>1. CASE ~c.nfd /\ ~c.reauth
    BY <1>1, ZenonT(60) DEF LostOr, Steps, OwnedInv, SessionOwned, CfgType, Rounds
<1>2. CASE ~(~c.nfd /\ ~c.reauth)
    BY <1>2 DEF LostOr, Steps, OwnedInv, SessionOwned, CfgType, Rounds
<1> QED
    BY <1>1, <1>2

\* A step of a round that leaves the stop flags alone.
LEMMA StepsKeep ==
    ASSUME NEW c \in CfgType, c.open = {c.sock}, NEW s \in Rounds,
           stops \in [g : BOOLEAN, user : BOOLEAN], stops.g => stops.user,
           Steps(c, s), UNCHANGED stops
    PROVE  OwnedInv'
BY DEF Steps, OwnedInv, SessionOwned, CfgType, Rounds

\* A return closes the socket, the listener and the wakeup descriptor, and
\* says 0 only for the user's stop.
LEMMA ReturnKeeps ==
    ASSUME NEW c \in CfgType, c.open = {}, ~c.listener, ~c.evfd,
           NEW r, r = 0 => stops.user,
           stops \in [g : BOOLEAN, user : BOOLEAN],
           Return(c, r), UNCHANGED stops
    PROVE  OwnedInv'
BY DEF Return, OwnedInv, SessionOwned, CfgType, Rounds

\* Every stage of run_socks, the signal, the server and the clock keep it.
LEMMA OwnedStepKeeps == OwnedInv /\ [RaNext]_raVars => OwnedInv'
<1> SUFFICES ASSUME OwnedInv, [RaNext]_raVars
             PROVE  OwnedInv'
    OBVIOUS
<1>a. /\ cfg \in CfgType /\ stops \in [g : BOOLEAN, user : BOOLEAN]
      /\ stage # "done" => cfg.open = {cfg.sock}
      /\ stage \in Rounds => (stops.g => stops.user)
    BY DEF OwnedInv, SessionOwned
<1>1. CASE RaStart
  <2> DEFINE closed == [cfg EXCEPT !.open = @ \ {cfg.sock}]
             set == [cfg EXCEPT !.listener = TRUE, !.stack = TRUE, !.evfd = TRUE]
  <2>1. stage = "entry" /\ ~cfg.listener /\ ~cfg.evfd
      BY <1>1 DEF RaStart, RaAt, OwnedInv
  <2>2. /\ closed \in CfgType /\ closed.open = {}
        /\ ~closed.listener /\ ~closed.evfd
      BY <1>a, <2>1 DEF CfgType
  <2>3. set \in CfgType /\ set.open = {set.sock}
      BY <1>a, <2>1, Zenon DEF CfgType
  <2>4. \/ \E r \in {0, -1} : (r = 0 => stops.user) /\ Return(closed, r)
        \/ Steps(set, "ready")
      BY <1>1 DEF RaStart
  <2>5. UNCHANGED stops
      BY <1>1 DEF RaStart
  <2> HIDE DEF closed, set
  <2>6. ASSUME Steps(set, "ready") PROVE OwnedInv'
      BY <1>a, <2>3, <2>5, <2>6 DEF Steps, OwnedInv, SessionOwned, CfgType, Rounds
  <2> QED
      BY <1>a, <2>2, <2>4, <2>5, <2>6, ReturnKeeps
<1>2. CASE Ready
  <2>1. cfg' = cfg /\ stage' = "top" /\ cfg.open = {cfg.sock}
      BY <1>2, <1>a DEF Ready, RaAt, Steps
  <2>2. stops' \in [g : BOOLEAN, user : BOOLEAN] /\ ~stops'.g
      BY <1>2, <1>a, Zenon DEF Ready
  <2> QED
      BY <1>a, <2>1, <2>2 DEF OwnedInv, SessionOwned, CfgType, Rounds
<1>3. CASE Watchdog
  <2>1. stage = "top" /\ stage \in Rounds /\ "retry" \in Rounds
      BY <1>3 DEF Watchdog, RaAt, Rounds
  <2>2. CASE ~LoopRuns(stops)
      BY <1>3, <1>a, <2>1, <2>2
         DEF Watchdog, Steps, LoopRuns, OwnedInv, SessionOwned, CfgType, Rounds
  <2>3. CASE \E c \in Reauthed(cfg) : LostOr(c, "retry")
      BY <1>a, <2>1, <2>3, ReauthedKeeps, LostOrKeeps
  <2>4. CASE Steps(cfg, "retry") /\ UNCHANGED stops
      BY <1>a, <2>1, <2>4, StepsKeep
  <2> QED
      BY <1>3, <2>2, <2>3, <2>4 DEF Watchdog
<1>4. CASE Retry
  <2>1. /\ stage = "retry" /\ stage \in Rounds /\ "drain" \in Rounds
        /\ UNCHANGED stops
      BY <1>4 DEF Retry, RaAt, Rounds
  <2>2. \E c \in Reauthed(cfg) \cup {cfg} : Steps(c, "drain")
      BY <1>4 DEF Retry
  <2> QED
      BY <1>a, <2>1, <2>2, ReauthedKeeps, StepsKeep
<1>5. CASE Drain
  <2> DEFINE l == [cfg EXCEPT !.session_lost = TRUE]
  <2>1. /\ stage = "drain" /\ stage \in Rounds /\ "keepalive" \in Rounds
        /\ UNCHANGED stops
      BY <1>5 DEF Drain, RaAt, Rounds
  <2>2. l \in CfgType /\ l.open = {l.sock} /\ l.session_lost
      BY <1>a, <2>1, Zenon DEF CfgType
  <2>3. \/ Steps(cfg, "keepalive")
        \/ \E c \in Reauthed(l) :
              \/ Steps(c, "keepalive")
              \/ ~c.nfd /\ ~c.reauth /\ Steps(c, "teardown")
              \/ Steps([c EXCEPT !.session_lost = FALSE], "keepalive")
      BY <1>5, Zenon DEF Drain
  <2> HIDE DEF l
  <2>4. CASE Steps(cfg, "keepalive")
      BY <1>a, <2>1, <2>4, StepsKeep
  <2>5. ASSUME NEW c \in Reauthed(l),
               \/ Steps(c, "keepalive")
               \/ ~c.nfd /\ ~c.reauth /\ Steps(c, "teardown")
               \/ Steps([c EXCEPT !.session_lost = FALSE], "keepalive")
        PROVE  OwnedInv'
    <3>1. /\ c \in CfgType /\ c.open = {c.sock} /\ c.reauth = l.reauth
          /\ ~l.reauth => c.session_lost
        BY <2>2, ReauthedKeeps
    <3> DEFINE k == [c EXCEPT !.session_lost = FALSE]
    <3>2. k \in CfgType /\ k.open = {k.sock}
        BY <3>1, Zenon DEF CfgType
    <3> HIDE DEF k
    <3>3. CASE Steps(c, "keepalive")
        BY <1>a, <2>1, <3>1, <3>3, StepsKeep
    <3>4. CASE Steps(k, "keepalive")
        BY <1>a, <2>1, <3>2, <3>4, StepsKeep
    <3>5. CASE ~c.reauth /\ Steps(c, "teardown")
        BY <1>a, <2>1, <3>1, <3>5 DEF Steps, OwnedInv, SessionOwned, CfgType, Rounds
    <3> QED
        BY <2>5, <3>3, <3>4, <3>5 DEF k
  <2> QED
      BY <2>3, <2>4, <2>5, Zenon
<1>6. CASE Keepalive
  <2>1. stage = "keepalive" /\ stage \in Rounds /\ "receive" \in Rounds
      BY <1>6 DEF Keepalive, RaAt, Rounds
  <2> DEFINE K(went) ==
          IF ~cfg.ka_due THEN cfg
          ELSE [cfg EXCEPT !.ka_due = FALSE,
                  !.ka_fail = IF went THEN 0
                              ELSE IF @ < SOCKS_KA_FAIL_MAX THEN @ + 1 ELSE @]
  <2>2. PICK went \in BOOLEAN :
          \/ \E c \in Reauthed(K(went)) : LostOr(c, "receive")
          \/ Steps(K(went), "receive") /\ UNCHANGED stops
      BY <1>6, Zenon DEF Keepalive
  <2>3. K(went) \in CfgType /\ K(went).open = {K(went).sock}
    <3>1. /\ 0 \in 0..SOCKS_KA_FAIL_MAX
          /\ cfg.ka_fail \in 0..SOCKS_KA_FAIL_MAX
          /\ cfg.ka_fail < SOCKS_KA_FAIL_MAX
                => cfg.ka_fail + 1 \in 0..SOCKS_KA_FAIL_MAX
        BY <1>a, ReauthAssumption DEF CfgType
    <3> DEFINE f == IF went THEN 0
                    ELSE IF cfg.ka_fail < SOCKS_KA_FAIL_MAX THEN cfg.ka_fail + 1
                    ELSE cfg.ka_fail
    <3>2. f \in 0..SOCKS_KA_FAIL_MAX
        BY <3>1
    <3>3. \/ K(went) = cfg
          \/ K(went) = [cfg EXCEPT !.ka_due = FALSE, !.ka_fail = f]
        OBVIOUS
    <3> HIDE DEF f, K
    <3>4. cfg.open = {cfg.sock}
        BY <1>a, <2>1
    <3> QED
        BY <1>a, <3>2, <3>3, <3>4, ZenonT(60) DEF CfgType
  <2> HIDE DEF K
  <2> QED
      BY <1>a, <2>1, <2>2, <2>3, ReauthedKeeps, LostOrKeeps, StepsKeep
<1>7. CASE Receive
  <2> DEFINE heard == [cfg EXCEPT !.silent = FALSE]
             gone == [cfg EXCEPT !.session_lost = TRUE]
             told == [gone EXCEPT !.session_lost = FALSE]
             Kept(c) == [c EXCEPT !.session_lost = FALSE]
  <2>1. stage \in Rounds /\ "rest" \in Rounds /\ "top" \in Rounds
      BY <1>7 DEF Receive, RaAt, Rounds
  <2>2. /\ heard \in CfgType /\ heard.open = {heard.sock}
        /\ gone \in CfgType /\ gone.open = {gone.sock}
        /\ told \in CfgType /\ told.open = {told.sock}
      BY <1>a, <2>1, Zenon DEF CfgType, Rounds
  <2>3. \/ Steps(cfg, "rest") /\ UNCHANGED stops
        \/ Steps(heard, "rest") /\ UNCHANGED stops
        \/ Steps(told, "rest") /\ UNCHANGED stops
        \/ \E c \in Reauthed(gone) : \/ Steps(c, "top") /\ UNCHANGED stops
                                     \/ LostOr(Kept(c), "rest")
      BY <1>7, Zenon DEF Receive
  <2>4. cfg.open = {cfg.sock}
      BY <1>a, <2>1 DEF Rounds
  <2> HIDE DEF heard, gone, told
  <2>5. \A c \in Reauthed(gone) :
          /\ c \in CfgType /\ c.open = {c.sock}
          /\ Kept(c) \in CfgType /\ Kept(c).open = {Kept(c).sock}
    <3> TAKE c \in Reauthed(gone)
    <3>1. c \in CfgType /\ c.open = {c.sock}
        BY <2>2, ReauthedKeeps
    <3> QED
        BY <3>1, Zenon DEF CfgType
  <2> HIDE DEF Kept
  <2> QED
      BY <1>a, <2>1, <2>2, <2>3, <2>4, <2>5, LostOrKeeps, StepsKeep
<1>8. CASE Rest
  <2>1. stage \in Rounds /\ "top" \in Rounds
      BY <1>8 DEF Rest, RaAt, Rounds
  <2>2. cfg.open = {cfg.sock} /\ cfg.sock \in cfg.open
      BY <1>a, <2>1 DEF Rounds
  <2>3. PICK h \in BOOLEAN : Steps([cfg EXCEPT !.session_lost = h], "top")
      BY <1>8, <1>a, <2>2 DEF Rest, CfgType
  <2>4. stops' = stops
      BY <1>8, <1>a, <2>2 DEF Rest
  <2> DEFINE c == [cfg EXCEPT !.session_lost = h]
  <2>5. c \in CfgType /\ c.open = {c.sock}
      BY <1>a, <2>2 DEF CfgType
  <2> HIDE DEF c
  <2>6. Steps(c, "top")
      BY <2>3 DEF c
  <2> QED
      BY <1>a, <2>1, <2>4, <2>5, <2>6, StepsKeep
<1>9. CASE Teardown
  <2>1. stage = "teardown" /\ UNCHANGED stops
      BY <1>9, SMTT(60) DEF Teardown, RaAt
  <2> DEFINE C(gone) == [cfg EXCEPT !.session_lost = gone, !.open = @ \ {cfg.sock},
                                    !.listener = FALSE, !.evfd = FALSE]
  <2>2. PICK gone \in BOOLEAN :
          (~gone => ~cfg.session_lost) /\ Return(C(gone), IF gone THEN 1 ELSE 0)
      BY <1>9, <1>a, Zenon DEF Teardown, CfgType
  <2>3. /\ C(gone) \in CfgType /\ C(gone).open = {}
        /\ ~C(gone).listener /\ ~C(gone).evfd
      BY <1>a, <2>1, Zenon DEF CfgType
  <2>4. (IF gone THEN 1 ELSE 0) = 0 => stops.user
      BY <2>1, <2>2 DEF OwnedInv
  <2> HIDE DEF C
  <2> QED
      BY <1>a, <2>1, <2>2, <2>3, <2>4, ReturnKeeps
<1>10. CASE OnSig
  <2>1. /\ stops' \in [g : BOOLEAN, user : BOOLEAN] /\ stops'.user
        /\ stage # "done" /\ UNCHANGED <<cfg, stage, rc>>
      BY <1>10 DEF OnSig
  <2> QED
      BY <2>1 DEF OwnedInv, SessionOwned
<1>11. CASE Forgets \/ BackoffEnds \/ FallsSilent \/ KeepaliveDue
  <2>1. stage # "done" /\ UNCHANGED <<stage, stops, rc>>
      BY <1>11 DEF Forgets, BackoffEnds, FallsSilent, KeepaliveDue, Elapses
  <2>2. /\ cfg' \in CfgType /\ cfg'.open = cfg.open /\ cfg'.sock = cfg.sock
        /\ cfg'.listener = cfg.listener /\ cfg'.evfd = cfg.evfd
        /\ cfg'.ka_fail = cfg.ka_fail /\ cfg'.session_lost = cfg.session_lost
    <3>1. CASE Forgets
        BY <1>a, <3>1, Zenon DEF Forgets, CfgType
    <3>2. CASE BackoffEnds
        BY <1>a, <3>2 DEF BackoffEnds, Elapses, CfgType
    <3>3. CASE FallsSilent
        BY <1>a, <3>3, Zenon DEF FallsSilent, Elapses, CfgType
    <3>4. CASE KeepaliveDue
        BY <1>a, <3>4, Zenon DEF KeepaliveDue, Elapses, CfgType
    <3> QED
        BY <1>11, <3>1, <3>2, <3>3, <3>4
  <2> QED
      BY <2>1, <2>2 DEF OwnedInv, SessionOwned
<1>12. CASE UNCHANGED raVars
    BY <1>12 DEF raVars, OwnedInv, SessionOwned
<1> QED
    BY <1>1, <1>2, <1>3, <1>4, <1>5, <1>6, <1>7, <1>8, <1>9, <1>10, <1>11,
       <1>12 DEF RaNext, RaLoop

\* For every limit on failed keepalives, with or without a callback, and
\* whatever re-authentications, rebuilds and swaps fail on the way: run_socks
\* keeps exactly one session socket open while it runs and none after, and a 0
\* it returns is the user's stop.
THEOREM RunSocksOwnsItsSession == RaSpec => []SessionOwned
<1>1. OwnedInv => SessionOwned
    BY DEF OwnedInv
<1> QED
    BY OwnedInitially, OwnedStepKeeps, <1>1, PTL DEF RaSpec

-----------------------------------------------------------------------------
(* DownlinkBatch.                                                           *)

\* The types of a batch, its frames and its datagrams.
PeerT == DlPeers \union {"none"}

\* A frame, or what an unused cell holds.
FrameT == [num : Nat, peer : PeerT]

\* What the kernel gets.
DatagramT == [hdr : FrameT, pl : FrameT, to : PeerT]

\* The batch as one value.
BatchT ==
  [hdrs : [Cells -> FrameT], pl : [Cells -> FrameT], peers : [Cells -> PeerT],
   msgs : [Cells -> [hdr : Cells, pl : Cells, name : Cells]], n : 0..SRV_DL_BATCH,
   sent : Seq(DatagramT), lost : SUBSET FrameT, drops : Nat]

\* A message names the cells at its own place, and they hold one frame.
Cellwise(b) ==
  \A i \in 0..(b.n - 1) :
    /\ b.msgs[i] = [hdr |-> i, pl |-> i, name |-> i]
    /\ b.hdrs[i] = b.pl[i] /\ b.peers[i] = b.pl[i].peer

\* What was sent is one frame each, to its peer.
SentWhole(b) ==
  \A i \in DOMAIN b.sent : b.sent[i].hdr = b.sent[i].pl /\ b.sent[i].to = b.sent[i].pl.peer

\* The frames of the three places.
SentOf(b) == {b.sent[i].pl : i \in DOMAIN b.sent}

\* The frames in the cells.
HeldOf(b) == {b.pl[i] : i \in 0..(b.n - 1)}

\* All of them.
AllOf(b) == SentOf(b) \union b.lost \union HeldOf(b)

\* No frame is in two places or twice in one.
Apart(b) ==
  /\ \A i, j \in DOMAIN b.sent : b.sent[i].pl = b.sent[j].pl => i = j
  /\ \A i, j \in 0..(b.n - 1) : b.pl[i] = b.pl[j] => i = j
  /\ SentOf(b) \intersect (b.lost \union HeldOf(b)) = {}
  /\ b.lost \intersect HeldOf(b) = {}

\* The numbers given out are those of the frames.
GivenOut(all, count) ==
  /\ {f.num : f \in all} = 1..count
  /\ \A f, g \in all : f.num = g.num => f = g

\* The batch without the numbers.
BatchOK(b) == b \in BatchT /\ Cellwise(b) /\ SentWhole(b) /\ Apart(b)

\* The inductive strengthening of FramesOnce.
DownlinkInv ==
  /\ frames \in Nat /\ BatchOK(Batch)
  /\ GivenOut(AllOf(Batch), frames)

\* Field by field.
LEMMA BatchFields ==
  ASSUME NEW b \in BatchT
  PROVE  /\ b.hdrs \in [Cells -> FrameT] /\ b.pl \in [Cells -> FrameT]
         /\ b.peers \in [Cells -> PeerT]
         /\ b.msgs \in [Cells -> [hdr : Cells, pl : Cells, name : Cells]]
         /\ b.n \in 0..SRV_DL_BATCH /\ b.n \in Nat
         /\ b.sent \in Seq(DatagramT) /\ b.lost \subseteq FrameT /\ b.drops \in Nat
         /\ \A i \in 0..(b.n - 1) : i \in Cells
<1>1. b.n \in 0..SRV_DL_BATCH
  BY DEF BatchT
<1>2. b.n \in Nat /\ \A i \in 0..(b.n - 1) : i \in Cells
  BY <1>1, BatchAssumption DEF Cells
<1> QED
  BY <1>1, <1>2 DEF BatchT

\* A join of sequences.
LEMMA SentJoin ==
  ASSUME NEW S, NEW s \in Seq(S), NEW t \in Seq(S)
  PROVE  /\ s \o t \in Seq(S) /\ Len(s \o t) = Len(s) + Len(t)
         /\ DOMAIN (s \o t) = 1..(Len(s) + Len(t))
         /\ Len(s) \in Nat /\ Len(t) \in Nat
         /\ DOMAIN s = 1..Len(s) /\ DOMAIN t = 1..Len(t)
         /\ \A k \in 1..Len(s) : (s \o t)[k] = s[k]
         /\ \A k \in (Len(s) + 1)..(Len(s) + Len(t)) : (s \o t)[k] = t[k - Len(s)]
  OBVIOUS

\* What the kernel takes of a batch in order: each a whole frame to its peer.
LEMMA Taken ==
  ASSUME NEW b, BatchOK(b), NEW k \in 0..b.n
  PROVE  LET d == [i \in 1..k |-> Datagram(b, i - 1)]
         IN /\ d \in Seq(DatagramT) /\ Len(d) = k
            /\ \A i \in 1..k : /\ d[i].hdr = b.pl[i - 1] /\ d[i].pl = b.pl[i - 1]
                               /\ d[i].to = b.pl[i - 1].peer
<1> DEFINE d == [i \in 1..k |-> Datagram(b, i - 1)]
<1>1. b \in BatchT /\ Cellwise(b)
  BY Zenon DEF BatchOK
<1>2. b.n \in Nat /\ k \in Nat /\ k <= b.n
  BY <1>1, BatchFields
<1>3. ASSUME NEW i \in 1..k
      PROVE  /\ i - 1 \in 0..(b.n - 1) /\ i - 1 \in Cells
             /\ Datagram(b, i - 1) = [hdr |-> b.pl[i - 1], pl |-> b.pl[i - 1],
                                      to |-> b.pl[i - 1].peer]
  <2>1. i - 1 \in 0..(b.n - 1)
    BY <1>2
  <2>2. i - 1 \in Cells
    BY <1>1, <2>1, BatchFields
  <2>3. /\ b.msgs[i - 1] = [hdr |-> i - 1, pl |-> i - 1, name |-> i - 1]
        /\ b.hdrs[i - 1] = b.pl[i - 1] /\ b.peers[i - 1] = b.pl[i - 1].peer
    BY <1>1, <2>1 DEF Cellwise
  <2> QED
    BY <2>1, <2>2, <2>3 DEF Datagram
<1>4. ASSUME NEW i \in 1..k PROVE Datagram(b, i - 1) \in DatagramT
  <2>1. b.pl[i - 1] \in FrameT
    BY <1>1, <1>3, BatchFields
  <2>2. b.pl[i - 1].peer \in PeerT
    BY <2>1 DEF FrameT
  <2>3. Datagram(b, i - 1) = [hdr |-> b.pl[i - 1], pl |-> b.pl[i - 1],
                              to |-> b.pl[i - 1].peer]
    BY <1>3
  <2> QED
    BY <2>1, <2>2, <2>3 DEF DatagramT
<1>5. d \in [1..k -> DatagramT]
  BY <1>4
<1>6. d \in Seq(DatagramT) /\ Len(d) = k
  <2> HIDE DEF d
  <2> QED
    BY <1>5, <1>2
<1>7. ASSUME NEW i \in 1..k
      PROVE  /\ d[i].hdr = b.pl[i - 1] /\ d[i].pl = b.pl[i - 1]
             /\ d[i].to = b.pl[i - 1].peer
  <2>1. d[i] = Datagram(b, i - 1)
    OBVIOUS
  <2>2. Datagram(b, i - 1) = [hdr |-> b.pl[i - 1], pl |-> b.pl[i - 1],
                              to |-> b.pl[i - 1].peer]
    BY <1>3
  <2> QED
    BY <2>1, <2>2
<1> QED
  BY <1>6, <1>7

\* A batch of whose frames the first k were sent.
LEMMA SendingDoes ==
  ASSUME NEW b, BatchOK(b), NEW k \in 0..b.n
  PROVE  LET c == Sending(b, k)
         IN /\ c \in BatchT /\ Cellwise(c) /\ SentWhole(c)
            /\ c.hdrs = b.hdrs /\ c.pl = b.pl /\ c.peers = b.peers /\ c.msgs = b.msgs
            /\ c.n = b.n /\ c.lost = b.lost /\ c.drops = b.drops
            /\ SentOf(c) = SentOf(b) \union {b.pl[i] : i \in 0..(k - 1)}
            /\ \A i, j \in DOMAIN c.sent : c.sent[i].pl = c.sent[j].pl => i = j
<1> DEFINE d == [i \in 1..k |-> Datagram(b, i - 1)]
           c == Sending(b, k)
           q == b.sent \o d
           m == Len(b.sent)
<1>1. b \in BatchT /\ Cellwise(b) /\ SentWhole(b) /\ Apart(b)
  BY Zenon DEF BatchOK
<1>2. b.n \in Nat /\ k \in Nat /\ k <= b.n /\ b.sent \in Seq(DatagramT)
  BY <1>1, BatchFields
<1>3. /\ d \in Seq(DatagramT) /\ Len(d) = k
      /\ \A i \in 1..k : /\ d[i].hdr = b.pl[i - 1] /\ d[i].pl = b.pl[i - 1]
                         /\ d[i].to = b.pl[i - 1].peer
  BY Taken, Zenon
<1>4. c = [b EXCEPT !.sent = q]
  BY Zenon DEF Sending
<1> HIDE DEF d
<1>5. /\ q \in Seq(DatagramT) /\ m \in Nat /\ DOMAIN q = 1..(m + k)
      /\ DOMAIN b.sent = 1..m
      /\ \A i \in 1..m : q[i] = b.sent[i]
      /\ \A i \in (m + 1)..(m + k) : q[i] = d[i - m]
  <2>1. /\ q \in Seq(DatagramT) /\ m \in Nat /\ DOMAIN q = 1..(m + Len(d))
        /\ DOMAIN b.sent = 1..m
        /\ \A i \in 1..m : q[i] = b.sent[i]
        /\ \A i \in (m + 1)..(m + Len(d)) : q[i] = d[i - m]
    <3>1. b.sent \in Seq(DatagramT) /\ d \in Seq(DatagramT)
      BY <1>2, <1>3, Zenon
    <3> QED
      BY ONLY <3>1, SentJoin
  <2> QED
    BY <2>1, <1>3, Zenon
<1> HIDE DEF q, c, m
<1>6. /\ c \in BatchT /\ c.sent = q
      /\ c.hdrs = b.hdrs /\ c.pl = b.pl /\ c.peers = b.peers /\ c.msgs = b.msgs
      /\ c.n = b.n /\ c.lost = b.lost /\ c.drops = b.drops
  BY <1>1, <1>4, <1>5 DEF BatchT
<1>7. \A i \in (m + 1)..(m + k) :
        /\ i - m \in 1..k /\ i - m - 1 \in 0..(k - 1)
        /\ q[i].hdr = b.pl[i - m - 1] /\ q[i].pl = b.pl[i - m - 1]
        /\ q[i].to = b.pl[i - m - 1].peer
  <2> TAKE i \in (m + 1)..(m + k)
  <2>1. i - m \in 1..k /\ i - m - 1 \in 0..(k - 1)
    BY <1>2, <1>5
  <2> QED
    BY <2>1, <1>3, <1>5, Zenon
<1>8. \A i \in 1..(m + k) : i \in 1..m \/ i \in (m + 1)..(m + k)
  BY <1>2, <1>5
<1>9. SentWhole(c)
  <2> SUFFICES ASSUME NEW i \in 1..(m + k) PROVE q[i].hdr = q[i].pl /\ q[i].to = q[i].pl.peer
    BY <1>5, <1>6, Zenon DEF SentWhole
  <2>1. CASE i \in 1..m
    BY <2>1, <1>1, <1>5, Zenon DEF SentWhole
  <2>2. CASE i \in (m + 1)..(m + k)
    BY <2>2, <1>7, Zenon
  <2> QED
    BY <2>1, <2>2, <1>8, Zenon
<1>10. Cellwise(c)
  BY <1>1, <1>6, ZenonT(60) DEF Cellwise
<1>11. SentOf(c) = SentOf(b) \union {b.pl[i] : i \in 0..(k - 1)}
  <2>1. ASSUME NEW i \in 1..(m + k) PROVE q[i].pl \in SentOf(b) \union {b.pl[x] : x \in 0..(k - 1)}
    <3>1. CASE i \in 1..m
      BY <3>1, <1>5, Zenon DEF SentOf
    <3>2. CASE i \in (m + 1)..(m + k)
      BY <3>2, <1>7, Zenon
    <3> QED
      BY <3>1, <3>2, <1>8, Zenon
  <2>2. ASSUME NEW i \in 1..m PROVE b.sent[i].pl \in SentOf(c)
    <3>1. i \in 1..(m + k)
      BY <1>2, <1>5
    <3> QED
      BY <3>1, <1>5, <1>6, Zenon DEF SentOf
  <2>3. ASSUME NEW x \in 0..(k - 1) PROVE b.pl[x] \in SentOf(c)
    <3>1. x + m + 1 \in (m + 1)..(m + k) /\ x + m + 1 \in 1..(m + k) /\ (x + m + 1) - m - 1 = x
      BY <1>2, <1>5
    <3>2. q[x + m + 1].pl = b.pl[x]
      BY <3>1, <1>7
    <3> QED
      BY <3>1, <3>2, <1>5, <1>6, Zenon DEF SentOf
  <2>a. SentOf(c) = {q[i].pl : i \in 1..(m + k)}
    BY <1>5, <1>6, Zenon DEF SentOf
  <2>4. SentOf(c) \subseteq SentOf(b) \union {b.pl[x] : x \in 0..(k - 1)}
    BY <2>1, <2>a, Zenon
  <2>5. SentOf(b) \subseteq SentOf(c)
    BY <2>2, <1>5, Zenon DEF SentOf
  <2> QED
    BY <2>3, <2>4, <2>5, Zenon
<1>12. \A i, j \in DOMAIN c.sent : c.sent[i].pl = c.sent[j].pl => i = j
  <2> SUFFICES ASSUME NEW i \in 1..(m + k), NEW j \in 1..(m + k), q[i].pl = q[j].pl
               PROVE  i = j
    BY <1>5, <1>6, Zenon
  <2>1. \A x, y \in 1..m : b.sent[x].pl = b.sent[y].pl => x = y
    BY <1>1, <1>5, Zenon DEF Apart
  <2>2. ASSUME NEW x \in 1..m, NEW y \in 0..(k - 1) PROVE b.sent[x].pl # b.pl[y]
    <3>1. y \in 0..(b.n - 1)
      BY <1>2
    <3>2. b.sent[x].pl \in SentOf(b)
      BY <1>5, Zenon DEF SentOf
    <3>3. b.pl[y] \in HeldOf(b)
      BY <3>1, Zenon DEF HeldOf
    <3> QED
      BY <3>2, <3>3, <1>1, Zenon DEF Apart
  <2>3. ASSUME NEW x \in 0..(k - 1), NEW y \in 0..(k - 1), b.pl[x] = b.pl[y] PROVE x = y
    <3>1. x \in 0..(b.n - 1) /\ y \in 0..(b.n - 1)
      BY <1>2
    <3> QED
      BY <3>1, <2>3, <1>1, Zenon DEF Apart
  <2>4. CASE i \in 1..m /\ j \in 1..m
    BY <2>1, <2>4, <1>5, Zenon
  <2>5. CASE i \in 1..m /\ j \in (m + 1)..(m + k)
    <3>1. q[i].pl = b.sent[i].pl
      BY <2>5, <1>5, Zenon
    <3>2. q[j].pl = b.pl[j - m - 1] /\ j - m - 1 \in 0..(k - 1)
      BY <2>5, <1>7, Zenon
    <3> QED
      BY <2>2, <2>5, <3>1, <3>2, Zenon
  <2>6. CASE j \in 1..m /\ i \in (m + 1)..(m + k)
    <3>1. q[j].pl = b.sent[j].pl
      BY <2>6, <1>5, Zenon
    <3>2. q[i].pl = b.pl[i - m - 1] /\ i - m - 1 \in 0..(k - 1)
      BY <2>6, <1>7, Zenon
    <3> QED
      BY <2>2, <2>6, <3>1, <3>2, Zenon
  <2>7. CASE i \in (m + 1)..(m + k) /\ j \in (m + 1)..(m + k)
    <3>1. i - m - 1 = j - m - 1
      BY <2>3, <2>7, <1>7, ZenonT(60)
    <3> QED
      BY <3>1, <1>5
  <2> QED
    BY <2>4, <2>5, <2>6, <2>7, <1>8, Zenon
<1> QED
  BY <1>6, <1>9, <1>10, <1>11, <1>12, Zenon DEF c

\* Both depend on what was sent alone.
LEMMA SameSent ==
  ASSUME NEW b, NEW c, b.sent = c.sent
  PROVE  SentOf(b) = SentOf(c) /\ (SentWhole(c) => SentWhole(b))
<1>1. SentOf(b) = SentOf(c)
  BY Zenon DEF SentOf
<1>2. SentWhole(c) => SentWhole(b)
  BY Zenon DEF SentWhole
<1> QED
  BY <1>1, <1>2

\* srv_dl_flush: whatever the kernel takes, every frame is in one place still.
LEMMA FlushKeeps ==
  ASSUME NEW b, BatchOK(b), NEW k \in 0..b.n, NEW hard \in BOOLEAN
  PROVE  BatchOK(Flush(b, k, hard)) /\ AllOf(Flush(b, k, hard)) = AllOf(b)
<1> DEFINE c == Sending(b, k)
           r == Flush(b, k, hard)
<1>1. b \in BatchT /\ Cellwise(b) /\ SentWhole(b) /\ Apart(b)
  BY Zenon DEF BatchOK
<1>2. b.n \in Nat /\ k \in Nat /\ k <= b.n /\ SRV_DL_BATCH \in Nat /\ b.n <= SRV_DL_BATCH
      /\ b.pl \in [Cells -> FrameT] /\ \A i \in 0..(b.n - 1) : i \in Cells
  BY <1>1, BatchFields, BatchAssumption
<1>3. /\ c \in BatchT /\ Cellwise(c) /\ SentWhole(c)
      /\ c.hdrs = b.hdrs /\ c.pl = b.pl /\ c.peers = b.peers /\ c.msgs = b.msgs
      /\ c.n = b.n /\ c.lost = b.lost /\ c.drops = b.drops
      /\ SentOf(c) = SentOf(b) \union {b.pl[i] : i \in 0..(k - 1)}
      /\ \A i, j \in DOMAIN c.sent : c.sent[i].pl = c.sent[j].pl => i = j
  BY SendingDoes
<1>4. r = IF k = b.n THEN [c EXCEPT !.n = 0]
          ELSE IF hard THEN [c EXCEPT !.n = 0, !.lost = @ \union Unsent(b, k),
                                      !.drops = @ + (b.n - k)]
          ELSE Compact(c, k)
  BY Zenon DEF Flush
<1> HIDE DEF c, r
<1>5. HeldOf(b) = {b.pl[i] : i \in 0..(k - 1)} \union {b.pl[i] : i \in k..(b.n - 1)}
  <2>1. 0..(b.n - 1) = 0..(k - 1) \union k..(b.n - 1)
    BY <1>2
  <2> QED
    BY <2>1, Zenon DEF HeldOf
<1>6. \A i \in 0..(k - 1), j \in k..(b.n - 1) : b.pl[i] # b.pl[j]
  <2> TAKE i \in 0..(k - 1), j \in k..(b.n - 1)
  <2>1. i \in 0..(b.n - 1) /\ j \in 0..(b.n - 1) /\ i # j
    BY <1>2
  <2> QED
    BY <2>1, <1>1, Zenon DEF Apart
<1>a. {b.pl[i] : i \in 0..(k - 1)} \intersect {b.pl[i] : i \in k..(b.n - 1)} = {}
  BY <1>6, Zenon
<1> DEFINE F == {b.pl[i] : i \in 0..(k - 1)}
           R == {b.pl[i] : i \in k..(b.n - 1)}
<1>b. HeldOf(b) = F \union R /\ F \intersect R = {} /\ SentOf(c) = SentOf(b) \union F
  BY <1>3, <1>5, <1>a, Zenon
<1>c. /\ SentOf(b) \intersect (b.lost \union HeldOf(b)) = {}
      /\ b.lost \intersect HeldOf(b) = {}
  BY <1>1, Zenon DEF Apart
<1>7. CASE k = b.n
  <2>1. r = [c EXCEPT !.n = 0]
    BY <1>4, <1>7, Zenon
  <2>2. /\ r \in BatchT /\ r.sent = c.sent /\ r.lost = b.lost /\ r.n = 0 /\ r.pl = b.pl
    BY <2>1, <1>2, <1>3 DEF BatchT
  <2>3. 0..(r.n - 1) = {} /\ k..(b.n - 1) = {}
    BY <2>2, <1>2, <1>7
  <2>4. Cellwise(r) /\ HeldOf(r) = {} /\ R = {}
    BY <2>3, Zenon DEF Cellwise, HeldOf
  <2>5. SentOf(r) = SentOf(b) \union F /\ SentWhole(r)
    <3>1. SentOf(r) = SentOf(c) /\ (SentWhole(c) => SentWhole(r))
      BY <2>2, SameSent, Zenon
    <3> QED
      BY <3>1, <1>3, <1>b, Zenon
  <2> HIDE DEF F, R
  <2>6. Apart(r)
    <3>1. SentOf(r) \intersect (r.lost \union HeldOf(r)) = {} /\ r.lost \intersect HeldOf(r) = {}
      BY <2>2, <2>4, <2>5, <1>b, <1>c, Zenon
    <3> QED
      BY <3>1, <2>2, <2>3, <1>3, Zenon DEF Apart
  <2>7. AllOf(r) = AllOf(b)
    BY <2>2, <2>4, <2>5, <1>b, Zenon DEF AllOf
  <2> QED
    BY <2>2, <2>4, <2>5, <2>6, <2>7, Zenon DEF BatchOK, r
<1>8. CASE k # b.n /\ hard
  <2>1. r = [c EXCEPT !.n = 0, !.lost = @ \union Unsent(b, k), !.drops = @ + (b.n - k)]
    BY <1>4, <1>8, Zenon
  <2>2. Unsent(b, k) = R
    <3>1. ASSUME NEW i \in k..(b.n - 1) PROVE b.pl[b.msgs[i].pl] = b.pl[i]
      <4>1. i \in 0..(b.n - 1)
        BY <1>2
      <4>2. b.msgs[i] = [hdr |-> i, pl |-> i, name |-> i]
        BY <4>1, <1>1, Zenon DEF Cellwise
      <4>3. b.msgs[i].pl = i
        BY <4>2
      <4> QED
        BY <4>3, Zenon
    <3> QED
      BY <3>1, Zenon DEF Unsent
  <2>3. R \subseteq FrameT
    <3>1. ASSUME NEW i \in k..(b.n - 1) PROVE b.pl[i] \in FrameT
      BY <1>2
    <3> QED
      BY <3>1, Zenon
  <2> HIDE DEF F, R
  <2>4. /\ r \in BatchT /\ r.sent = c.sent /\ r.lost = b.lost \union R /\ r.n = 0
        /\ r.pl = b.pl
    <3>1. b.n - k \in Nat
      BY <1>2
    <3>2. c.lost \subseteq FrameT /\ c.drops \in Nat
      BY <1>3, BatchFields
    <3>3. b.lost \union R \in SUBSET FrameT /\ c.drops + (b.n - k) \in Nat /\ 0 \in 0..SRV_DL_BATCH
      BY <3>1, <3>2, <2>3, <1>2, <1>3
    <3>4. r = [c EXCEPT !.n = 0, !.lost = b.lost \union R, !.drops = c.drops + (b.n - k)]
      BY <2>1, <2>2, <1>3, Zenon
    <3> QED
      BY <3>3, <3>4, <1>3, Zenon DEF BatchT
  <2>5. 0..(r.n - 1) = {}
    BY <2>4
  <2>6. Cellwise(r) /\ HeldOf(r) = {}
    BY <2>5, Zenon DEF Cellwise, HeldOf
  <2>7. SentOf(r) = SentOf(b) \union F /\ SentWhole(r)
    <3>1. SentOf(r) = SentOf(c) /\ (SentWhole(c) => SentWhole(r))
      BY <2>4, SameSent, Zenon
    <3> QED
      BY <3>1, <1>3, <1>b, Zenon
  <2>8. Apart(r)
    <3>1. SentOf(r) \intersect (r.lost \union HeldOf(r)) = {} /\ r.lost \intersect HeldOf(r) = {}
      BY <2>4, <2>6, <2>7, <1>b, <1>c, Zenon
    <3> QED
      BY <3>1, <2>4, <2>5, <1>3, Zenon DEF Apart
  <2>9. AllOf(r) = AllOf(b)
    BY <2>4, <2>6, <2>7, <1>b, Zenon DEF AllOf
  <2> QED
    BY <2>4, <2>6, <2>7, <2>8, <2>9, Zenon DEF BatchOK, r
<1>9. CASE k # b.n /\ ~hard
  <2> DEFINE kept == b.n - k
  <2>1. r = [c EXCEPT !.hdrs = Moved(@, k, kept), !.pl = Moved(@, k, kept),
               !.peers = Moved(@, k, kept), !.n = kept,
               !.msgs = [i \in Cells |-> IF i < kept THEN [hdr |-> i, pl |-> i, name |-> i]
                                         ELSE c.msgs[i]]]
    BY <1>3, <1>4, <1>9, Zenon DEF Compact
  <2>2. kept \in Nat /\ kept <= b.n /\ kept \in 0..SRV_DL_BATCH
    BY <1>2
  <2>3. \A i \in Cells : i < kept => i + k \in Cells /\ i + k \in k..(b.n - 1)
    BY <1>2, <2>2 DEF Cells
  <2>4. /\ Moved(b.hdrs, k, kept) \in [Cells -> FrameT]
        /\ Moved(b.pl, k, kept) \in [Cells -> FrameT]
        /\ Moved(b.peers, k, kept) \in [Cells -> PeerT]
    BY <1>1, <2>3, BatchFields DEF Moved
  <2>5. [i \in Cells |-> IF i < kept THEN [hdr |-> i, pl |-> i, name |-> i] ELSE b.msgs[i]]
          \in [Cells -> [hdr : Cells, pl : Cells, name : Cells]]
    BY <1>1, BatchFields
  <2> HIDE DEF F, R
  <2>6. /\ r \in BatchT /\ r.sent = c.sent /\ r.lost = b.lost /\ r.n = kept
        /\ r.pl = Moved(b.pl, k, kept) /\ r.hdrs = Moved(b.hdrs, k, kept)
        /\ r.peers = Moved(b.peers, k, kept)
        /\ r.msgs = [i \in Cells |-> IF i < kept THEN [hdr |-> i, pl |-> i, name |-> i]
                                     ELSE b.msgs[i]]
    <3> HIDE DEF kept
    <3> QED
      BY <2>1, <2>2, <2>4, <2>5, <1>3, Zenon DEF BatchT
  <2>7. ASSUME NEW i \in 0..(kept - 1)
        PROVE  /\ i \in Cells /\ i < kept /\ i + k \in k..(b.n - 1) /\ i + k \in 0..(b.n - 1)
               /\ i + k \in Cells
    BY <1>2, <2>2, SMTT(60) DEF Cells
  <2>8. ASSUME NEW i \in 0..(kept - 1)
        PROVE  /\ r.pl[i] = b.pl[i + k] /\ r.hdrs[i] = b.hdrs[i + k]
               /\ r.peers[i] = b.peers[i + k]
               /\ r.msgs[i] = [hdr |-> i, pl |-> i, name |-> i]
    <3> HIDE DEF kept
    <3> QED
      BY <2>6, <2>7 DEF Moved
  <2>9. Cellwise(r)
    <3> SUFFICES ASSUME NEW i \in 0..(kept - 1)
                 PROVE  /\ r.msgs[i] = [hdr |-> i, pl |-> i, name |-> i]
                        /\ r.hdrs[i] = r.pl[i] /\ r.peers[i] = r.pl[i].peer
      BY <2>6, Zenon DEF Cellwise
    <3>1. b.hdrs[i + k] = b.pl[i + k] /\ b.peers[i + k] = b.pl[i + k].peer
      BY <2>7, <1>1, Zenon DEF Cellwise
    <3> QED
      BY <3>1, <2>8, Zenon
  <2>10. HeldOf(r) = R
    <3>0. HeldOf(r) = {r.pl[i] : i \in 0..(kept - 1)}
      BY <2>6, Zenon DEF HeldOf
    <3>1. ASSUME NEW i \in 0..(kept - 1) PROVE r.pl[i] \in R
      BY <2>7, <2>8, Zenon DEF R
    <3>2. ASSUME NEW j \in k..(b.n - 1) PROVE b.pl[j] \in HeldOf(r)
      <4>1. j - k \in 0..(kept - 1) /\ (j - k) + k = j
        BY <1>2
      <4>2. r.pl[j - k] = b.pl[j]
        BY <4>1, <2>8, ZenonT(60)
      <4> QED
        BY <4>1, <4>2, <3>0, Zenon
    <3> QED
      BY <3>0, <3>1, <3>2, Zenon DEF R
  <2>11. SentOf(r) = SentOf(b) \union F /\ SentWhole(r)
    <3>1. SentOf(r) = SentOf(c) /\ (SentWhole(c) => SentWhole(r))
      BY <2>6, SameSent, Zenon
    <3> QED
      BY <3>1, <1>3, <1>b, Zenon
  <2>12. Apart(r)
    <3>1. SentOf(r) \intersect (r.lost \union HeldOf(r)) = {} /\ r.lost \intersect HeldOf(r) = {}
      BY <2>6, <2>10, <2>11, <1>b, <1>c, Zenon
    <3>2. ASSUME NEW i \in 0..(kept - 1), NEW j \in 0..(kept - 1), r.pl[i] = r.pl[j]
          PROVE  i = j
      <4>1. i + k = j + k
        <5>1. i + k \in 0..(b.n - 1) /\ j + k \in 0..(b.n - 1)
          BY <2>7, Zenon
        <5>2. b.pl[i + k] = b.pl[j + k]
          BY <2>8, <3>2, Zenon
        <5>3. \A x, y \in 0..(b.n - 1) : b.pl[x] = b.pl[y] => x = y
          BY <1>1, Zenon DEF Apart
        <5> QED
          BY <5>1, <5>2, <5>3, Zenon
      <4> QED
        BY <4>1, <1>2
    <3> QED
      BY <3>1, <3>2, <2>6, <1>3, Zenon DEF Apart
  <2>13. AllOf(r) = AllOf(b)
    BY <2>6, <2>10, <2>11, <1>b, Zenon DEF AllOf
  <2> QED
    BY <2>6, <2>9, <2>11, <2>12, <2>13, Zenon DEF BatchOK, r
<1> QED
  BY <1>7, <1>8, <1>9, Zenon DEF r

\* A frame given up: the batch is as it was, the frame is among the lost.
LEMMA GiveUpKeeps ==
  ASSUME NEW b, BatchOK(b), NEW f \in FrameT, f \notin AllOf(b)
  PROVE  LET r == [b EXCEPT !.lost = @ \union {f}, !.drops = @ + 1]
         IN BatchOK(r) /\ AllOf(r) = AllOf(b) \union {f} /\ r.n = b.n
<1> DEFINE r == [b EXCEPT !.lost = @ \union {f}, !.drops = @ + 1]
<1>1. b \in BatchT /\ Cellwise(b) /\ SentWhole(b) /\ Apart(b)
  BY Zenon DEF BatchOK
<1>2. b.lost \subseteq FrameT /\ b.drops \in Nat
  BY <1>1, BatchFields
<1>3. b.lost \union {f} \in SUBSET FrameT /\ b.drops + 1 \in Nat
  BY <1>2
<1>4. /\ r \in BatchT /\ r.sent = b.sent /\ r.lost = b.lost \union {f} /\ r.n = b.n
      /\ r.pl = b.pl /\ r.hdrs = b.hdrs /\ r.peers = b.peers /\ r.msgs = b.msgs
  BY <1>1, <1>3, Zenon DEF BatchT
<1> HIDE DEF r
<1>5. Cellwise(r)
  BY <1>1, <1>4, ZenonT(60) DEF Cellwise
<1>6. SentOf(r) = SentOf(b) /\ SentWhole(r)
  BY <1>1, <1>4, SameSent, Zenon
<1>7. HeldOf(r) = HeldOf(b)
  BY <1>4, Zenon DEF HeldOf
<1>8. f \notin SentOf(b) /\ f \notin HeldOf(b) /\ f \notin b.lost
  BY Zenon DEF AllOf
<1>9. Apart(r)
  <2>1. /\ SentOf(b) \intersect (b.lost \union HeldOf(b)) = {}
        /\ b.lost \intersect HeldOf(b) = {}
    BY <1>1, Zenon DEF Apart
  <2>2. /\ SentOf(r) \intersect (r.lost \union HeldOf(r)) = {}
        /\ r.lost \intersect HeldOf(r) = {}
    BY <2>1, <1>4, <1>6, <1>7, <1>8, Zenon
  <2> QED
    BY <2>2, <1>1, <1>4, ZenonT(60) DEF Apart
<1>10. AllOf(r) = AllOf(b) \union {f}
  BY <1>4, <1>6, <1>7, Zenon DEF AllOf
<1> QED
  BY <1>4, <1>5, <1>6, <1>9, <1>10, Zenon DEF BatchOK, r

\* srv_tun_pkt, a large packet: it goes out by itself, after the batch.
LEMMA SendAloneKeeps ==
  ASSUME NEW b, BatchOK(b), NEW f \in FrameT, f \notin AllOf(b)
  PROVE  LET r == [b EXCEPT !.sent = Append(@, [hdr |-> f, pl |-> f, to |-> f.peer])]
         IN BatchOK(r) /\ AllOf(r) = AllOf(b) \union {f}
<1> DEFINE d == [hdr |-> f, pl |-> f, to |-> f.peer]
           q == Append(b.sent, d)
           r == [b EXCEPT !.sent = Append(@, d)]
           m == Len(b.sent)
<1>1. b \in BatchT /\ Cellwise(b) /\ SentWhole(b) /\ Apart(b)
  BY Zenon DEF BatchOK
<1>2. b.sent \in Seq(DatagramT)
  BY <1>1, BatchFields
<1>3. d \in DatagramT /\ d.pl = f /\ d.hdr = f /\ d.to = f.peer
  BY DEF DatagramT, FrameT
<1>4. r = [b EXCEPT !.sent = q]
  BY Zenon
<1> HIDE DEF d
<1>5. /\ q \in Seq(DatagramT) /\ m \in Nat /\ DOMAIN q = 1..(m + 1) /\ DOMAIN b.sent = 1..m
      /\ \A i \in 1..m : q[i] = b.sent[i]
      /\ q[m + 1] = d
  BY <1>2, <1>3
<1> HIDE DEF q, m
<1>6. /\ r \in BatchT /\ r.sent = q /\ r.lost = b.lost /\ r.n = b.n
      /\ r.pl = b.pl /\ r.hdrs = b.hdrs /\ r.peers = b.peers /\ r.msgs = b.msgs
  BY <1>1, <1>4, <1>5, Zenon DEF BatchT
<1> HIDE DEF r
<1>7. Cellwise(r) /\ HeldOf(r) = HeldOf(b)
  BY <1>1, <1>6, ZenonT(60) DEF Cellwise, HeldOf
<1>8. \A i \in 1..(m + 1) : i \in 1..m \/ i = m + 1
  BY <1>5
<1>9. m + 1 \in 1..(m + 1) /\ m + 1 \notin 1..m /\ \A i \in 1..m : i \in 1..(m + 1)
  BY <1>5
<1>10. SentWhole(r)
  <2> SUFFICES ASSUME NEW i \in 1..(m + 1) PROVE q[i].hdr = q[i].pl /\ q[i].to = q[i].pl.peer
    BY <1>5, <1>6, Zenon DEF SentWhole
  <2>1. CASE i \in 1..m
    BY <2>1, <1>1, <1>5, Zenon DEF SentWhole
  <2>2. CASE i = m + 1
    BY <2>2, <1>3, <1>5, Zenon
  <2> QED
    BY <2>1, <2>2, <1>8, Zenon
<1>11. SentOf(r) = SentOf(b) \union {f}
  <2>1. SentOf(r) = {q[i].pl : i \in 1..(m + 1)} /\ SentOf(b) = {b.sent[i].pl : i \in 1..m}
    BY <1>5, <1>6, Zenon DEF SentOf
  <2>2. ASSUME NEW i \in 1..(m + 1) PROVE q[i].pl \in SentOf(b) \union {f}
    <3>1. CASE i \in 1..m
      BY <3>1, <2>1, <1>5, Zenon
    <3>2. CASE i = m + 1
      BY <3>2, <1>3, <1>5, Zenon
    <3> QED
      BY <3>1, <3>2, <1>8, Zenon
  <2>3. ASSUME NEW i \in 1..m PROVE b.sent[i].pl \in SentOf(r)
    <3>1. i \in 1..(m + 1) /\ q[i].pl = b.sent[i].pl
      BY <1>5, <1>9, Zenon
    <3> QED
      BY <3>1, <2>1, Zenon
  <2>4. f \in SentOf(r)
    <3>1. q[m + 1].pl = f
      BY <1>3, <1>5, Zenon
    <3> QED
      BY <3>1, <2>1, <1>9, Zenon
  <2>5. SentOf(r) \subseteq SentOf(b) \union {f}
    BY <2>1, <2>2, Zenon
  <2>6. SentOf(b) \subseteq SentOf(r)
    BY <2>1, <2>3, Zenon
  <2> QED
    BY <2>4, <2>5, <2>6, Zenon
<1>12. f \notin SentOf(b) /\ f \notin HeldOf(b) /\ f \notin b.lost
  BY Zenon DEF AllOf
<1>13. Apart(r)
  <2>1. /\ SentOf(b) \intersect (b.lost \union HeldOf(b)) = {}
        /\ b.lost \intersect HeldOf(b) = {}
    BY <1>1, Zenon DEF Apart
  <2>2. /\ SentOf(r) \intersect (r.lost \union HeldOf(r)) = {}
        /\ r.lost \intersect HeldOf(r) = {}
    BY <2>1, <1>6, <1>7, <1>11, <1>12, Zenon
  <2>3. ASSUME NEW i \in 1..m PROVE q[i].pl = b.sent[i].pl /\ q[i].pl # f
    <3>1. q[i].pl = b.sent[i].pl
      BY <1>5, Zenon
    <3>2. b.sent[i].pl \in SentOf(b)
      BY <1>5, Zenon DEF SentOf
    <3> QED
      BY <3>1, <3>2, <1>12, Zenon
  <2>4. q[m + 1].pl = f
    BY <1>3, <1>5, Zenon
  <2>5. \A i, j \in 1..m : b.sent[i].pl = b.sent[j].pl => i = j
    BY <1>1, <1>5, Zenon DEF Apart
  <2>6. ASSUME NEW i \in 1..(m + 1), NEW j \in 1..(m + 1), q[i].pl = q[j].pl PROVE i = j
    <3>1. CASE i \in 1..m /\ j \in 1..m
      BY <3>1, <2>3, <2>5, <2>6, Zenon
    <3>2. CASE i \in 1..m /\ j = m + 1
      BY <3>2, <2>3, <2>4, <2>6, Zenon
    <3>3. CASE i = m + 1 /\ j \in 1..m
      BY <3>3, <2>3, <2>4, <2>6, Zenon
    <3> QED
      BY <3>1, <3>2, <3>3, <1>8, Zenon
  <2>7. \A i, j \in DOMAIN r.sent : r.sent[i].pl = r.sent[j].pl => i = j
    BY <2>6, <1>5, <1>6, Zenon
  <2>8. \A i, j \in 0..(r.n - 1) : r.pl[i] = r.pl[j] => i = j
    BY <1>1, <1>6, ZenonT(60) DEF Apart
  <2> QED
    BY <2>2, <2>7, <2>8, Zenon DEF Apart
<1>14. AllOf(r) = AllOf(b) \union {f}
  BY <1>6, <1>7, <1>11, Zenon DEF AllOf
<1> QED
  BY <1>6, <1>7, <1>10, <1>13, <1>14, Zenon DEF BatchOK, r, d

\* srv_tun_pkt: a frame joins the batch, or is dropped when the batch is full.
LEMMA StageKeeps ==
  ASSUME NEW b, BatchOK(b), NEW f \in FrameT, f \notin AllOf(b)
  PROVE  BatchOK(Stage(b, f)) /\ AllOf(Stage(b, f)) = AllOf(b) \union {f}
<1> DEFINE r == Stage(b, f)
           k == b.n
<1>1. b \in BatchT /\ Cellwise(b) /\ SentWhole(b) /\ Apart(b)
  BY Zenon DEF BatchOK
<1>2. k \in Nat /\ SRV_DL_BATCH \in Nat /\ k <= SRV_DL_BATCH
  BY <1>1, BatchFields, BatchAssumption
<1>3. CASE k >= SRV_DL_BATCH
  <2>1. r = [b EXCEPT !.lost = @ \union {f}, !.drops = @ + 1]
    BY <1>3, Zenon DEF Stage
  <2> QED
    BY <2>1, GiveUpKeeps, Zenon
<1>4. CASE ~(k >= SRV_DL_BATCH)
  <2>1. r = [b EXCEPT !.hdrs = [b.hdrs EXCEPT ![k] = f], !.pl = [b.pl EXCEPT ![k] = f],
                      !.peers = [b.peers EXCEPT ![k] = f.peer],
                      !.msgs = [b.msgs EXCEPT ![k] = [hdr |-> k, pl |-> k, name |-> k]],
                      !.n = k + 1]
    BY <1>4, Zenon DEF Stage
  <2>2. k \in Cells /\ k + 1 \in 0..SRV_DL_BATCH
    BY <1>2, <1>4 DEF Cells
  <2>3. /\ b.hdrs \in [Cells -> FrameT] /\ b.pl \in [Cells -> FrameT]
        /\ b.peers \in [Cells -> PeerT]
        /\ b.msgs \in [Cells -> [hdr : Cells, pl : Cells, name : Cells]]
        /\ \A i \in 0..(k - 1) : i \in Cells
    BY <1>1, BatchFields
  <2>4. f.peer \in PeerT
    BY DEF FrameT
  <2>5. /\ [b.hdrs EXCEPT ![k] = f] \in [Cells -> FrameT]
        /\ [b.pl EXCEPT ![k] = f] \in [Cells -> FrameT]
        /\ [b.peers EXCEPT ![k] = f.peer] \in [Cells -> PeerT]
        /\ [b.msgs EXCEPT ![k] = [hdr |-> k, pl |-> k, name |-> k]]
             \in [Cells -> [hdr : Cells, pl : Cells, name : Cells]]
    BY <2>2, <2>3, <2>4
  <2> HIDE DEF r, k
  <2>6. /\ r \in BatchT /\ r.sent = b.sent /\ r.lost = b.lost /\ r.n = k + 1
        /\ r.hdrs = [b.hdrs EXCEPT ![k] = f] /\ r.pl = [b.pl EXCEPT ![k] = f]
        /\ r.peers = [b.peers EXCEPT ![k] = f.peer]
        /\ r.msgs = [b.msgs EXCEPT ![k] = [hdr |-> k, pl |-> k, name |-> k]]
    BY <2>1, <2>2, <2>5, <1>1, Zenon DEF BatchT
  <2>7. /\ r.hdrs[k] = f /\ r.pl[k] = f /\ r.peers[k] = f.peer
        /\ r.msgs[k] = [hdr |-> k, pl |-> k, name |-> k]
    BY <2>2, <2>3, <2>6
  <2>8. ASSUME NEW i \in 0..(k - 1)
        PROVE  /\ r.hdrs[i] = b.hdrs[i] /\ r.pl[i] = b.pl[i] /\ r.peers[i] = b.peers[i]
               /\ r.msgs[i] = b.msgs[i]
    <3>1. i \in Cells /\ i # k
      BY <2>3, <1>2
    <3> QED
      BY <3>1, <2>3, <2>6
  <2>9. /\ r.n - 1 = k /\ \A i \in 0..k : i \in 0..(k - 1) \/ i = k
        /\ k \in 0..k /\ \A i \in 0..(k - 1) : i \in 0..k
    BY <2>6, <1>2
  <2>10. Cellwise(r)
    <3> SUFFICES ASSUME NEW i \in 0..k
                 PROVE  /\ r.msgs[i] = [hdr |-> i, pl |-> i, name |-> i]
                        /\ r.hdrs[i] = r.pl[i] /\ r.peers[i] = r.pl[i].peer
      BY <2>9, Zenon DEF Cellwise
    <3>1. CASE i \in 0..(k - 1)
      <4>1. /\ b.msgs[i] = [hdr |-> i, pl |-> i, name |-> i]
            /\ b.hdrs[i] = b.pl[i] /\ b.peers[i] = b.pl[i].peer
        BY <3>1, <1>1, Zenon DEF Cellwise, k
      <4> QED
        BY <3>1, <4>1, <2>8, Zenon
    <3>2. CASE i = k
      BY <3>2, <2>7, Zenon
    <3> QED
      BY <3>1, <3>2, <2>9, Zenon
  <2>11. SentOf(r) = SentOf(b) /\ SentWhole(r)
    BY <1>1, <2>6, SameSent, Zenon
  <2>12. HeldOf(r) = {r.pl[i] : i \in 0..k} /\ HeldOf(b) = {b.pl[i] : i \in 0..(k - 1)}
    BY <2>9, Zenon DEF HeldOf, k
  <2>13. HeldOf(r) = HeldOf(b) \union {f}
    <3>1. ASSUME NEW i \in 0..k PROVE r.pl[i] \in HeldOf(b) \union {f}
      <4>1. CASE i \in 0..(k - 1)
        BY <4>1, <2>8, <2>12, Zenon
      <4>2. CASE i = k
        BY <4>2, <2>7, Zenon
      <4> QED
        BY <4>1, <4>2, <2>9, Zenon
    <3>2. ASSUME NEW i \in 0..(k - 1) PROVE b.pl[i] \in HeldOf(r)
      <4>1. i \in 0..k /\ r.pl[i] = b.pl[i]
        BY <2>8, <2>9, Zenon
      <4> QED
        BY <4>1, <2>12, Zenon
    <3>3. f \in HeldOf(r)
      BY <2>7, <2>9, <2>12, Zenon
    <3>4. HeldOf(r) \subseteq HeldOf(b) \union {f}
      BY <3>1, <2>12, Zenon
    <3>5. HeldOf(b) \subseteq HeldOf(r)
      BY <3>2, <2>12, Zenon
    <3> QED
      BY <3>3, <3>4, <3>5, Zenon
  <2>14. f \notin SentOf(b) /\ f \notin HeldOf(b) /\ f \notin b.lost
    BY Zenon DEF AllOf
  <2>15. Apart(r)
    <3>1. /\ SentOf(b) \intersect (b.lost \union HeldOf(b)) = {}
          /\ b.lost \intersect HeldOf(b) = {}
      BY <1>1, Zenon DEF Apart
    <3>2. /\ SentOf(r) \intersect (r.lost \union HeldOf(r)) = {}
          /\ r.lost \intersect HeldOf(r) = {}
      BY <3>1, <2>6, <2>11, <2>13, <2>14, ZenonT(60)
    <3>3. ASSUME NEW i \in 0..(k - 1) PROVE r.pl[i] = b.pl[i] /\ r.pl[i] # f
      <4>1. r.pl[i] = b.pl[i] /\ b.pl[i] \in HeldOf(b)
        BY <2>8, <2>12, Zenon
      <4> QED
        BY <4>1, <2>14, Zenon
    <3>4. \A i, j \in 0..(k - 1) : b.pl[i] = b.pl[j] => i = j
      BY <1>1, Zenon DEF Apart, k
    <3>5. ASSUME NEW i \in 0..k, NEW j \in 0..k, r.pl[i] = r.pl[j] PROVE i = j
      <4>1. CASE i \in 0..(k - 1) /\ j \in 0..(k - 1)
        BY <4>1, <3>3, <3>4, <3>5, Zenon
      <4>2. CASE i \in 0..(k - 1) /\ j = k
        BY <4>2, <3>3, <2>7, <3>5, Zenon
      <4>3. CASE i = k /\ j \in 0..(k - 1)
        BY <4>3, <3>3, <2>7, <3>5, Zenon
      <4> QED
        BY <4>1, <4>2, <4>3, <2>9, Zenon
    <3>6. \A i, j \in 0..(r.n - 1) : r.pl[i] = r.pl[j] => i = j
      BY <3>5, <2>9, Zenon
    <3>7. \A i, j \in DOMAIN r.sent : r.sent[i].pl = r.sent[j].pl => i = j
      BY <1>1, <2>6, Zenon DEF Apart
    <3> QED
      BY <3>2, <3>6, <3>7, Zenon DEF Apart
  <2>16. AllOf(r) = AllOf(b) \union {f}
    BY <2>6, <2>11, <2>13, Zenon DEF AllOf
  <2> QED
    BY <2>6, <2>10, <2>11, <2>15, <2>16, Zenon DEF BatchOK, r
<1> QED
  BY <1>3, <1>4, Zenon

\* The messages' frames are those of the cells.
LEMMA RestIsHeld ==
  ASSUME NEW b, Cellwise(b)
  PROVE  Unsent(b, 0) = HeldOf(b) /\ \A i \in 0..(b.n - 1) : b.msgs[i].pl = i
<1>1. ASSUME NEW i \in 0..(b.n - 1) PROVE b.msgs[i].pl = i
  <2>1. b.msgs[i] = [hdr |-> i, pl |-> i, name |-> i]
    BY Zenon DEF Cellwise
  <2> QED
    BY <2>1
<1>2. Unsent(b, 0) = HeldOf(b)
  BY <1>1, Zenon DEF Unsent, HeldOf
<1> QED
  BY <1>1, <1>2, Zenon

\* The batch a step leaves behind.
LEMMA BecomesIs ==
  ASSUME NEW b \in BatchT, Becomes(b)
  PROVE  Batch' = b
  BY DEF Batch, Becomes, BatchT

\* The fields of the batch are the variables.
LEMMA BatchIs ==
  /\ Batch.sent = sent /\ Batch.lost = lost /\ Batch.n = dl_n
  /\ Batch.pl = pl /\ Batch.msgs = msgs
  BY DEF Batch

\* The next number is nobody's yet.
LEMMA Numbered ==
  ASSUME NEW A, NEW m \in Nat, GivenOut(A, m), NEW p \in DlPeers
  PROVE  LET f == [num |-> m + 1, peer |-> p]
         IN f \in FrameT /\ f \notin A /\ f.peer = p /\ GivenOut(A \union {f}, m + 1)
<1> DEFINE f == [num |-> m + 1, peer |-> p]
<1>1. f \in FrameT /\ f.num = m + 1 /\ f.peer = p
  BY DEF FrameT, PeerT
<1> HIDE DEF f
<1>2. \A g \in A : g.num \in 1..m
  BY Zenon DEF GivenOut
<1>3. \A g \in A : g.num # m + 1
  BY <1>2
<1>4. f \notin A
  BY <1>1, <1>3, Zenon
<1>5. {g.num : g \in A \union {f}} = {g.num : g \in A} \union {m + 1}
  BY <1>1, Zenon
<1>6. 1..(m + 1) = 1..m \union {m + 1}
  OBVIOUS
<1>7. {g.num : g \in A \union {f}} = 1..(m + 1)
  BY <1>5, <1>6, Zenon DEF GivenOut
<1>8. \A g, h \in A \union {f} : g.num = h.num => g = h
  <2>1. \A g, h \in A : g.num = h.num => g = h
    BY Zenon DEF GivenOut
  <2> QED
    BY <2>1, <1>1, <1>3, Zenon
<1>9. GivenOut(A \union {f}, m + 1)
  BY <1>7, <1>8, Zenon DEF GivenOut
<1> QED
  BY <1>1, <1>4, <1>9, Zenon DEF f

\* One step keeps the batch in order.
LEMMA DownlinkStep ==
  ASSUME DownlinkInv, [DlNext]_dlVars
  PROVE  DownlinkInv'
<1>1. frames \in Nat /\ BatchOK(Batch) /\ GivenOut(AllOf(Batch), frames)
  BY Zenon DEF DownlinkInv
<1>2. ASSUME NEW r, BatchOK(r), Becomes(r), frames' \in Nat, GivenOut(AllOf(r), frames')
      PROVE  DownlinkInv'
  <2>1. Batch' = r
    BY <1>2, BecomesIs, Zenon DEF BatchOK
  <2>2. BatchOK(Batch)' = BatchOK(Batch') /\ GivenOut(AllOf(Batch), frames)' = GivenOut(AllOf(Batch'), frames')
    BY Zenon DEF BatchOK, Cellwise, SentWhole, Apart, GivenOut, AllOf, SentOf, HeldOf
  <2> QED
    BY <2>1, <2>2, <1>2, Zenon DEF DownlinkInv
<1>3. Batch.n = dl_n
  BY BatchIs, Zenon
<1>4. ASSUME NEW p \in DlPeers, NEW k \in 0..SRV_DL_BATCH, NEW hard \in BOOLEAN, Packet(p, k, hard)
      PROVE  DownlinkInv'
  <2> DEFINE f == [num |-> frames + 1, peer |-> p]
             s == Stage(Batch, f)
  <2>1. /\ frames' = frames + 1
        /\ IF FillsUp(Batch, s) THEN k <= s.n /\ Becomes(Flush(s, k, hard))
           ELSE k = 0 /\ ~hard /\ Becomes(s)
    BY <1>4, Zenon DEF Packet
  <2>2. f \in FrameT /\ f \notin AllOf(Batch) /\ GivenOut(AllOf(Batch) \union {f}, frames + 1)
    BY <1>1, Numbered, Zenon
  <2>3. BatchOK(s) /\ AllOf(s) = AllOf(Batch) \union {f}
    BY <2>2, <1>1, StageKeeps, Zenon
  <2> HIDE DEF f, s
  <2>4. frames' \in Nat
    BY <2>1, <1>1
  <2>5. CASE FillsUp(Batch, s)
    <3>1. k \in 0..s.n
      <4>1. s \in BatchT
        BY <2>3, Zenon DEF BatchOK
      <4>2. s.n \in Nat /\ SRV_DL_BATCH \in Nat
        BY <4>1, BatchFields, BatchAssumption
      <4> QED
        BY <4>2, <2>1, <2>5
    <3>2. BatchOK(Flush(s, k, hard)) /\ AllOf(Flush(s, k, hard)) = AllOf(s)
      BY <3>1, <2>3, FlushKeeps, Zenon
    <3>3. GivenOut(AllOf(Flush(s, k, hard)), frames')
      BY <3>2, <2>1, <2>2, <2>3, Zenon
    <3> QED
      BY <3>2, <3>3, <2>1, <2>4, <2>5, <1>2, Zenon
  <2>6. CASE ~FillsUp(Batch, s)
    <3>1. GivenOut(AllOf(s), frames')
      BY <2>1, <2>2, <2>3, Zenon
    <3> QED
      BY <3>1, <2>1, <2>3, <2>4, <2>6, <1>2, Zenon
  <2> QED
    BY <2>5, <2>6, Zenon
<1>5. ASSUME NEW p \in DlPeers, NEW k \in 0..SRV_DL_BATCH, NEW hard \in BOOLEAN,
             NEW t \in BOOLEAN, BigPacket(p, k, hard, t)
      PROVE  DownlinkInv'
  <2> DEFINE f == [num |-> frames + 1, peer |-> p]
             b == Flush(Batch, k, hard)
             u == [b EXCEPT !.sent = Append(@, [hdr |-> f, pl |-> f, to |-> p])]
             v == [b EXCEPT !.lost = @ \union {f}, !.drops = @ + 1]
  <2>1. frames' = frames + 1 /\ k <= dl_n /\ Becomes(IF t THEN u ELSE v)
    BY <1>5, Zenon DEF BigPacket
  <2>2. /\ f \in FrameT /\ f \notin AllOf(Batch) /\ f.peer = p
        /\ GivenOut(AllOf(Batch) \union {f}, frames + 1)
    BY <1>1, Numbered, Zenon
  <2>3. k \in 0..Batch.n
    <3>1. dl_n \in Nat
      BY <1>1, <1>3, BatchFields DEF BatchOK
    <3> QED
      BY <3>1, <2>1, <1>3
  <2>4. BatchOK(b) /\ AllOf(b) = AllOf(Batch)
    BY <2>3, <1>1, FlushKeeps, Zenon
  <2>5. frames' \in Nat
    BY <2>1, <1>1
  <2>6. u = [b EXCEPT !.sent = Append(@, [hdr |-> f, pl |-> f, to |-> f.peer])]
    BY <2>2, Zenon
  <2> HIDE DEF f, b
  <2>7. BatchOK(u) /\ AllOf(u) = AllOf(b) \union {f}
    BY <2>2, <2>4, <2>6, SendAloneKeeps, Zenon
  <2>8. BatchOK(v) /\ AllOf(v) = AllOf(b) \union {f}
    BY <2>2, <2>4, GiveUpKeeps, Zenon
  <2> HIDE DEF u, v
  <2>9. CASE t
    <3>1. GivenOut(AllOf(u), frames') /\ Becomes(u)
      BY <2>9, <2>1, <2>2, <2>4, <2>7, Zenon
    <3> QED
      BY <3>1, <2>5, <2>7, <1>2, Zenon
  <2>10. CASE ~t
    <3>1. GivenOut(AllOf(v), frames') /\ Becomes(v)
      BY <2>10, <2>1, <2>2, <2>4, <2>8, Zenon
    <3> QED
      BY <3>1, <2>5, <2>8, <1>2, Zenon
  <2> QED
    BY <2>9, <2>10, Zenon
<1>6. ASSUME NEW k \in 0..SRV_DL_BATCH, NEW hard \in BOOLEAN, LastFlush(k, hard)
      PROVE  DownlinkInv'
  <2>1. k <= dl_n /\ Becomes(Flush(Batch, k, hard)) /\ frames' = frames
    BY <1>6, Zenon DEF LastFlush
  <2>2. k \in 0..Batch.n
    <3>1. dl_n \in Nat
      BY <1>1, <1>3, BatchFields DEF BatchOK
    <3> QED
      BY <3>1, <2>1, <1>3
  <2>3. BatchOK(Flush(Batch, k, hard)) /\ AllOf(Flush(Batch, k, hard)) = AllOf(Batch)
    BY <2>2, <1>1, FlushKeeps, Zenon
  <2>4. GivenOut(AllOf(Flush(Batch, k, hard)), frames')
    BY <2>1, <2>3, <1>1, Zenon
  <2> QED
    BY <2>1, <2>3, <2>4, <1>1, <1>2, Zenon
<1>7. ASSUME DlReaderExit PROVE DownlinkInv'
  <2> DEFINE r == [Batch EXCEPT !.lost = @ \union Unsent(Batch, 0), !.n = 0]
  <2>1. /\ lost' = lost \union Unsent(Batch, 0) /\ dl_n' = 0 /\ frames' = frames
        /\ UNCHANGED <<hdrs, pl, peers, msgs, sent, drops>>
    BY <1>7, Zenon DEF DlReaderExit
  <2>2. Becomes(r)
    BY <2>1 DEF Becomes, Batch
  <2>3. Batch \in BatchT /\ Cellwise(Batch) /\ SentWhole(Batch) /\ Apart(Batch)
    BY <1>1, Zenon DEF BatchOK
  <2>4. Unsent(Batch, 0) = HeldOf(Batch)
    BY <2>3, RestIsHeld, Zenon
  <2>5. HeldOf(Batch) \subseteq FrameT /\ Batch.lost \subseteq FrameT
    <3>1. ASSUME NEW i \in 0..(Batch.n - 1) PROVE Batch.pl[i] \in FrameT
      BY <2>3, BatchFields
    <3>2. Batch.lost \subseteq FrameT
      BY <2>3, BatchFields
    <3> QED
      BY <3>1, <3>2, Zenon DEF HeldOf
  <2>6. Batch.lost \union Unsent(Batch, 0) \in SUBSET FrameT /\ 0 \in 0..SRV_DL_BATCH
    BY <2>4, <2>5, BatchAssumption
  <2>7. /\ r \in BatchT /\ r.sent = Batch.sent /\ r.lost = Batch.lost \union HeldOf(Batch)
        /\ r.n = 0 /\ r.pl = Batch.pl
    <3> DEFINE B == Batch
               L == Batch.lost \union Unsent(Batch, 0)
    <3>1. B \in BatchT /\ L \in SUBSET FrameT /\ 0 \in 0..SRV_DL_BATCH /\ r = [B EXCEPT !.lost = L, !.n = 0]
          /\ L = Batch.lost \union HeldOf(Batch)
      BY <2>3, <2>4, <2>6, Zenon
    <3> HIDE DEF B, L, r
    <3>2. r \in BatchT /\ r.sent = B.sent /\ r.lost = L /\ r.n = 0 /\ r.pl = B.pl
      BY <3>1, Zenon DEF BatchT
    <3> QED
      BY <3>1, <3>2, Zenon DEF B
  <2> HIDE DEF r
  <2>8. 0..(r.n - 1) = {}
    BY <2>7
  <2>9. Cellwise(r) /\ HeldOf(r) = {}
    BY <2>8, Zenon DEF Cellwise, HeldOf
  <2>10. SentOf(r) = SentOf(Batch) /\ SentWhole(r)
    BY <2>3, <2>7, SameSent, Zenon
  <2>11. Apart(r)
    <3>1. /\ SentOf(Batch) \intersect (Batch.lost \union HeldOf(Batch)) = {}
      BY <2>3, Zenon DEF Apart
    <3>2. /\ SentOf(r) \intersect (r.lost \union HeldOf(r)) = {}
          /\ r.lost \intersect HeldOf(r) = {}
      BY <3>1, <2>7, <2>9, <2>10, Zenon
    <3>3. \A i, j \in DOMAIN r.sent : r.sent[i].pl = r.sent[j].pl => i = j
      BY <2>3, <2>7, Zenon DEF Apart
    <3> QED
      BY <3>2, <3>3, <2>8, Zenon DEF Apart
  <2>12. AllOf(r) = AllOf(Batch)
    BY <2>7, <2>9, <2>10, Zenon DEF AllOf
  <2>13. BatchOK(r) /\ GivenOut(AllOf(r), frames')
    BY <2>1, <2>7, <2>9, <2>10, <2>11, <2>12, <1>1, Zenon DEF BatchOK
  <2> QED
    BY <2>1, <2>2, <2>13, <1>1, <1>2, Zenon
<1>8. ASSUME UNCHANGED dlVars PROVE DownlinkInv'
  <2>1. Batch \in BatchT
    BY <1>1, Zenon DEF BatchOK
  <2>2. Becomes(Batch) /\ frames' = frames
    BY <1>8 DEF dlVars, Becomes, Batch
  <2> QED
    BY <2>2, <1>1, <1>2, Zenon
<1>9. CASE DlNext
  BY <1>4, <1>5, <1>6, <1>7, <1>8, <1>9, Zenon DEF DlNext, DlQuiet
<1>10. CASE UNCHANGED dlVars
  BY <1>8, <1>10, Zenon
<1> QED
  BY <1>9, <1>10, Zenon

\* At the start the batch is empty and nothing was read.
LEMMA DownlinkStart ==
  ASSUME DlInit
  PROVE  DownlinkInv
<1>1. NoFrame \in FrameT /\ "none" \in PeerT
  BY DEF NoFrame, FrameT, PeerT
<1>2. 0 \in Cells /\ 0 \in 0..SRV_DL_BATCH
  BY BatchAssumption DEF Cells
<1>3. Batch \in BatchT
  <2>1. /\ hdrs \in [Cells -> FrameT] /\ pl \in [Cells -> FrameT] /\ peers \in [Cells -> PeerT]
        /\ msgs \in [Cells -> [hdr : Cells, pl : Cells, name : Cells]]
    BY <1>1, <1>2 DEF DlInit
  <2>2. dl_n \in 0..SRV_DL_BATCH /\ lost \in SUBSET FrameT /\ drops \in Nat
    BY <1>2 DEF DlInit
  <2>3. sent \in Seq(DatagramT)
    BY DEF DlInit
  <2> QED
    BY <2>1, <2>2, <2>3 DEF Batch, BatchT
<1>4. Batch.sent = <<>> /\ Batch.lost = {} /\ Batch.n = 0 /\ frames = 0
  BY BatchIs DEF DlInit
<1>5. DOMAIN Batch.sent = {} /\ 0..(Batch.n - 1) = {} /\ 1..frames = {}
  BY <1>4
<1>6. Cellwise(Batch) /\ SentWhole(Batch) /\ SentOf(Batch) = {} /\ HeldOf(Batch) = {}
  BY <1>5, Zenon DEF Cellwise, SentWhole, SentOf, HeldOf
<1>7. Apart(Batch)
  BY <1>4, <1>5, <1>6, Zenon DEF Apart
<1>8. AllOf(Batch) = {}
  BY <1>4, <1>6, Zenon DEF AllOf
<1>9. GivenOut(AllOf(Batch), frames)
  BY <1>5, <1>8, Zenon DEF GivenOut
<1>10. frames \in Nat
  BY <1>4
<1> QED
  BY <1>3, <1>6, <1>7, <1>9, <1>10, Zenon DEF DownlinkInv, BatchOK

\* What the invariant says of the frames.
LEMMA DownlinkMeans ==
  ASSUME DownlinkInv
  PROVE  FramesOnce
<1>1. BatchOK(Batch) /\ GivenOut(AllOf(Batch), frames)
  BY Zenon DEF DownlinkInv
<1>2. Cellwise(Batch) /\ SentWhole(Batch) /\ Apart(Batch)
  BY <1>1, Zenon DEF BatchOK
<1>3. SentToItsPeer
  BY <1>2, BatchIs, Zenon DEF SentWhole, SentToItsPeer
<1>4. SentOf(Batch) = SentFrames
  BY BatchIs, Zenon DEF SentOf, SentFrames
<1>5. Unsent(Batch, 0) = HeldOf(Batch) /\ \A i \in 0..(dl_n - 1) : msgs[i].pl = i
  BY <1>2, RestIsHeld, BatchIs, Zenon
<1>6. AllOf(Batch) = SentFrames \union lost \union Unsent(Batch, 0)
  BY <1>4, <1>5, BatchIs, Zenon DEF AllOf
<1>7. /\ \A i, j \in DOMAIN sent : sent[i].pl = sent[j].pl => i = j
      /\ \A i, j \in 0..(dl_n - 1) : pl[i] = pl[j] => i = j
      /\ SentFrames \intersect (lost \union Unsent(Batch, 0)) = {}
      /\ lost \intersect Unsent(Batch, 0) = {}
  <2>1. \A i, j \in DOMAIN sent : sent[i].pl = sent[j].pl => i = j
    BY <1>2, BatchIs, Zenon DEF Apart
  <2>2. \A i, j \in 0..(dl_n - 1) : pl[i] = pl[j] => i = j
    BY <1>2, BatchIs, Zenon DEF Apart
  <2>3. /\ SentOf(Batch) \intersect (Batch.lost \union HeldOf(Batch)) = {}
        /\ Batch.lost \intersect HeldOf(Batch) = {}
    BY <1>2, Zenon DEF Apart
  <2> QED
    BY <2>1, <2>2, <2>3, <1>4, <1>5, BatchIs, Zenon
<1>8. \A i, j \in 0..(dl_n - 1) : pl[msgs[i].pl] = pl[msgs[j].pl] => i = j
  BY <1>5, <1>7, Zenon
<1>9. EachFrameOnce
  BY <1>1, <1>6, <1>7, <1>8, Zenon DEF EachFrameOnce, GivenOut
<1> QED
  BY <1>3, <1>9, Zenon DEF FramesOnce

\* srv_tun_pkt, srv_dl_flush, srv_dl_reader_exit: for every batch size and
\* whatever part of a batch the kernel takes, each packet read from the TUN is
\* sent once, whole and to the peer its session had, or given up, or held.
THEOREM FramesGoOnce == DlSpec => []FramesOnce
<1>1. DlInit => DownlinkInv
  BY DownlinkStart
<1>2. DownlinkInv /\ [DlNext]_dlVars => DownlinkInv'
  BY DownlinkStep
<1>3. DownlinkInv => FramesOnce
  BY DownlinkMeans
<1> QED
  BY <1>1, <1>2, <1>3, PTL DEF DlSpec

-----------------------------------------------------------------------------
(* SocksRx: the buffers of the RX pool.                                    *)

\* A list of buffers, each of them once.
RxList(q) == q \in Seq(RxSlots) /\ RxOnce(q)

\* Where receive_vpn can be.
RxPlaces == {"away", "acquire", "recv", "handle", "lost"}

\* The inductive strengthening of PoolExact: what the pass has at each place.
RxInv ==
  /\ RxList(g_rx_free) /\ RxList(bufs) /\ RxList(held)
  /\ inbox \in Seq(RxKinds) /\ got \in Seq(RxKinds)
  /\ rx \in [pc : RxPlaces, budget : Int, copy : BOOLEAN, full : BOOLEAN]
  /\ PoolExact
  /\ rx.pc \in {"acquire", "recv"} => got = <<>>
  /\ rx.pc = "acquire" => bufs = <<>>
  /\ rx.pc = "recv" /\ ~rx.copy => bufs # <<>>
  /\ rx.pc = "handle" => got # <<>>

\* The elements of a join.
LEMMA RxJoinAt ==
  ASSUME NEW S, NEW s \in Seq(S), NEW t \in Seq(S)
  PROVE  /\ s \o t \in Seq(S)
         /\ DOMAIN (s \o t) = 1..(Len(s) + Len(t))
         /\ Len(s) \in Nat /\ Len(t) \in Nat
         /\ DOMAIN s = 1..Len(s) /\ DOMAIN t = 1..Len(t)
         /\ \A k \in 1..Len(s) : (s \o t)[k] = s[k]
         /\ \A k \in (Len(s) + 1)..(Len(s) + Len(t)) : (s \o t)[k] = t[k - Len(s)]
  OBVIOUS

\* Lists without a common buffer join to a list.
LEMMA RxJoin ==
  ASSUME NEW s, NEW t, RxList(s), RxList(t), RxIn(s) \intersect RxIn(t) = {}
  PROVE  RxList(s \o t) /\ RxIn(s \o t) = RxIn(s) \union RxIn(t)
<1> DEFINE q == s \o t
           m == Len(s)
           k == Len(t)
<1>1. s \in Seq(RxSlots) /\ t \in Seq(RxSlots) /\ RxOnce(s) /\ RxOnce(t)
  BY Zenon DEF RxList
<1>2. /\ q \in Seq(RxSlots) /\ DOMAIN q = 1..(m + k) /\ m \in Nat /\ k \in Nat
      /\ DOMAIN s = 1..m /\ DOMAIN t = 1..k
      /\ \A i \in 1..m : q[i] = s[i]
      /\ \A i \in (m + 1)..(m + k) : q[i] = t[i - m]
  BY ONLY <1>1, RxJoinAt
<1> HIDE DEF q, m, k
<1>3. \A i \in (m + 1)..(m + k) : i - m \in 1..k
  BY <1>2
<1>4. \A i \in 1..(m + k) : i \in 1..m \/ i \in (m + 1)..(m + k)
  BY <1>2
<1>5. \A i \in 1..m : i \in 1..(m + k)
  BY <1>2
<1>6. \A i \in 1..k : i + m \in (m + 1)..(m + k) /\ i + m \in 1..(m + k) /\ (i + m) - m = i
  BY <1>2
<1>7. RxIn(s) = {s[i] : i \in 1..m} /\ RxIn(t) = {t[i] : i \in 1..k} /\ RxIn(q) = {q[i] : i \in 1..(m + k)}
  BY <1>2, Zenon DEF RxIn
<1>8. RxIn(q) \subseteq RxIn(s) \union RxIn(t)
  <2>1. ASSUME NEW i \in 1..(m + k) PROVE q[i] \in RxIn(s) \union RxIn(t)
    <3>1. CASE i \in 1..m
      BY <3>1, <1>2, <1>7, Zenon
    <3>2. CASE i \in (m + 1)..(m + k)
      BY <3>2, <1>2, <1>3, <1>7, Zenon
    <3> QED
      BY <3>1, <3>2, <1>4, Zenon
  <2> QED
    BY <2>1, <1>7, Zenon
<1>9. RxIn(s) \subseteq RxIn(q)
  <2>1. ASSUME NEW i \in 1..m PROVE s[i] \in RxIn(q)
    BY <1>2, <1>5, <1>7, Zenon
  <2> QED
    BY <2>1, <1>7, Zenon
<1>10. RxIn(t) \subseteq RxIn(q)
  <2>1. ASSUME NEW i \in 1..k PROVE t[i] \in RxIn(q)
    <3>1. q[i + m] = t[(i + m) - m] /\ i + m \in 1..(m + k) /\ (i + m) - m = i
      BY <1>2, <1>6, Zenon
    <3>2. q[i + m] = t[i]
      BY <3>1, Zenon
    <3> QED
      BY <3>1, <3>2, <1>7, Zenon
  <2> QED
    BY <2>1, <1>7, Zenon
<1>11. ASSUME NEW i \in 1..m, NEW j \in (m + 1)..(m + k) PROVE q[i] # q[j]
  <2>1. q[i] \in RxIn(s) /\ q[j] \in RxIn(t)
    BY <1>2, <1>3, <1>7, Zenon
  <2> QED
    BY <2>1, Zenon
<1>12. ASSUME NEW i \in 1..(m + k), NEW j \in 1..(m + k), q[i] = q[j] PROVE i = j
  <2>1. CASE i \in 1..m /\ j \in 1..m
    BY <2>1, <1>1, <1>2, <1>12, Zenon DEF RxOnce
  <2>2. CASE i \in (m + 1)..(m + k) /\ j \in (m + 1)..(m + k)
    <3>1. q[i] = t[i - m] /\ q[j] = t[j - m] /\ i - m \in DOMAIN t /\ j - m \in DOMAIN t
      BY <2>2, <1>2, <1>3, Zenon
    <3>2. t[i - m] = t[j - m]
      BY <3>1, <1>12, Zenon
    <3>3. i - m = j - m
      BY <3>1, <3>2, <1>1, Zenon DEF RxOnce
    <3> QED
      BY <3>3, <1>2
  <2> QED
    BY <2>1, <2>2, <1>4, <1>11, <1>12, Zenon
<1>13. RxOnce(q)
  BY <1>12, <1>2, Zenon DEF RxOnce
<1> QED
  BY <1>2, <1>8, <1>9, <1>10, <1>13, Zenon DEF RxList, q

\* The parts of a list that is cut.
LEMMA RxCutAt ==
  ASSUME NEW S, NEW q \in Seq(S), NEW n \in 0..Len(q)
  PROVE  /\ SubSeq(q, 1, n) \in Seq(S) /\ SubSeq(q, n + 1, Len(q)) \in Seq(S)
         /\ DOMAIN SubSeq(q, 1, n) = 1..n /\ DOMAIN q = 1..Len(q) /\ Len(q) \in Nat
         /\ DOMAIN SubSeq(q, n + 1, Len(q)) = 1..(Len(q) - n)
         /\ \A i \in 1..n : SubSeq(q, 1, n)[i] = q[i]
         /\ \A i \in 1..(Len(q) - n) : SubSeq(q, n + 1, Len(q))[i] = q[i + n]
  OBVIOUS

\* A list that is cut gives two lists without a common buffer.
LEMMA RxCut ==
  ASSUME NEW q, RxList(q), NEW n \in 0..Len(q)
  PROVE  LET a == SubSeq(q, 1, n)
             b == SubSeq(q, n + 1, Len(q))
         IN /\ RxList(a) /\ RxList(b) /\ RxIn(a) \intersect RxIn(b) = {}
            /\ RxIn(a) \union RxIn(b) = RxIn(q)
<1> DEFINE a == SubSeq(q, 1, n)
           b == SubSeq(q, n + 1, Len(q))
           m == Len(q)
<1>1. q \in Seq(RxSlots) /\ RxOnce(q)
  BY Zenon DEF RxList
<1>2. /\ a \in Seq(RxSlots) /\ b \in Seq(RxSlots) /\ DOMAIN a = 1..n /\ DOMAIN q = 1..m
      /\ DOMAIN b = 1..(m - n) /\ m \in Nat
      /\ \A i \in 1..n : a[i] = q[i]
      /\ \A i \in 1..(m - n) : b[i] = q[i + n]
  BY ONLY <1>1, RxCutAt, n \in 0..Len(q)
<1> HIDE DEF a, b
<1>3. /\ \A i \in 1..n : i \in 1..m
      /\ \A i \in 1..(m - n) : i + n \in 1..m /\ i + n \notin 1..n
      /\ \A i \in 1..m : i \in 1..n \/ (i - n \in 1..(m - n) /\ (i - n) + n = i)
  BY <1>2
<1> HIDE DEF m
<1>4. RxIn(a) = {a[i] : i \in 1..n} /\ RxIn(b) = {b[i] : i \in 1..(m - n)} /\ RxIn(q) = {q[i] : i \in 1..m}
  BY <1>2, Zenon DEF RxIn
<1>5. RxIn(a) \subseteq RxIn(q)
  <2>1. ASSUME NEW i \in 1..n PROVE a[i] \in RxIn(q)
    BY <1>2, <1>3, <1>4, Zenon
  <2> QED
    BY <2>1, <1>4, Zenon
<1>6. RxIn(b) \subseteq RxIn(q)
  <2>1. ASSUME NEW i \in 1..(m - n) PROVE b[i] \in RxIn(q)
    BY <1>2, <1>3, <1>4, Zenon
  <2> QED
    BY <2>1, <1>4, Zenon
<1>7. RxIn(q) \subseteq RxIn(a) \union RxIn(b)
  <2>1. ASSUME NEW i \in 1..m PROVE q[i] \in RxIn(a) \union RxIn(b)
    <3>1. CASE i \in 1..n
      BY <3>1, <1>2, <1>4, Zenon
    <3>2. CASE i - n \in 1..(m - n) /\ (i - n) + n = i
      <4>1. b[i - n] = q[i]
        BY <3>2, <1>2, Zenon
      <4> QED
        BY <4>1, <3>2, <1>4, Zenon
    <3> QED
      BY <3>1, <3>2, <1>3, Zenon
  <2> QED
    BY <2>1, <1>4, Zenon
<1>8. RxOnce(a)
  BY <1>1, <1>2, <1>3, Zenon DEF RxOnce
<1>9. RxOnce(b)
  <2>1. ASSUME NEW i \in 1..(m - n), NEW j \in 1..(m - n), b[i] = b[j] PROVE i = j
    <3>1. i + n = j + n
      BY <2>1, <1>1, <1>2, <1>3, Zenon DEF RxOnce
    <3> QED
      BY <3>1, n \in 0..Len(q)
  <2> QED
    BY <2>1, <1>2, Zenon DEF RxOnce
<1>10. ASSUME NEW i \in 1..n, NEW j \in 1..(m - n) PROVE a[i] # b[j]
  <2>1. i \in 1..m /\ j + n \in 1..m /\ i # j + n
    BY <1>3, Zenon
  <2>2. q[i] # q[j + n]
    BY <2>1, <1>1, <1>2, Zenon DEF RxOnce
  <2> QED
    BY <2>2, <1>2, Zenon
<1>11. RxIn(a) \intersect RxIn(b) = {}
  BY <1>4, <1>10, Zenon
<1> QED
  BY <1>2, <1>5, <1>6, <1>7, <1>8, <1>9, <1>11, Zenon DEF RxList, a, b

\* The empty list.
LEMMA RxNone == RxList(<<>>) /\ RxIn(<<>>) = {}
<1>1. <<>> \in Seq(RxSlots) /\ DOMAIN <<>> = {}
  OBVIOUS
<1> QED
  BY <1>1, Zenon DEF RxList, RxIn, RxOnce

\* The two ends of a release: what is given back goes before the free list.
LEMMA RxGiveBack ==
  ASSUME NEW x, NEW y, NEW z, RxList(x), RxList(y), RxList(z),
         RxIn(x) \intersect RxIn(y) = {}, RxIn(x) \intersect RxIn(z) = {},
         RxIn(y) \intersect RxIn(z) = {}
  PROVE  /\ RxList(RxRelease(z, x \o y))
         /\ RxIn(RxRelease(z, x \o y)) = RxIn(x) \union RxIn(y) \union RxIn(z)
<1>1. RxList(x \o y) /\ RxIn(x \o y) = RxIn(x) \union RxIn(y)
  BY RxJoin, Zenon
<1>2. RxIn(x \o y) \intersect RxIn(z) = {}
  BY <1>1, Zenon
<1>3. RxList((x \o y) \o z) /\ RxIn((x \o y) \o z) = RxIn(x \o y) \union RxIn(z)
  BY <1>1, <1>2, RxJoin, Zenon
<1> QED
  BY <1>1, <1>3, Zenon DEF RxRelease

\* The free list holds every buffer at the start.
LEMMA RxInitInv == RxInit => RxInv
<1> SUFFICES ASSUME RxInit PROVE RxInv
  OBVIOUS
<1>1. NS_RX_POOL \in Nat
  BY RxConstants, Zenon
<1>2. g_rx_free = [i \in 1..NS_RX_POOL |-> NS_RX_POOL + 1 - i]
  BY Zenon DEF RxInit, RxSlots
<1>3. \A i \in 1..NS_RX_POOL : NS_RX_POOL + 1 - i \in 1..NS_RX_POOL
  BY <1>1
<1>4. g_rx_free \in Seq(RxSlots) /\ DOMAIN g_rx_free = 1..NS_RX_POOL
  BY <1>1, <1>2, <1>3 DEF RxSlots
<1>5. RxOnce(g_rx_free)
  <2>1. ASSUME NEW i \in 1..NS_RX_POOL, NEW j \in 1..NS_RX_POOL, g_rx_free[i] = g_rx_free[j]
        PROVE  i = j
    <3>1. NS_RX_POOL + 1 - i = NS_RX_POOL + 1 - j
      BY <2>1, <1>2, Zenon
    <3> QED
      BY <3>1, <1>1
  <2> QED
    BY <2>1, <1>4, Zenon DEF RxOnce
<1>6. RxIn(g_rx_free) = RxSlots
  <2>1. ASSUME NEW j \in 1..NS_RX_POOL PROVE \E i \in 1..NS_RX_POOL : g_rx_free[i] = j
    <3>1. NS_RX_POOL + 1 - j \in 1..NS_RX_POOL /\ NS_RX_POOL + 1 - (NS_RX_POOL + 1 - j) = j
      BY <1>1
    <3>2. g_rx_free[NS_RX_POOL + 1 - j] = NS_RX_POOL + 1 - (NS_RX_POOL + 1 - j)
      BY <3>1, <1>2, Zenon
    <3> QED
      BY <3>1, <3>2, Zenon
  <2>2. ASSUME NEW i \in 1..NS_RX_POOL PROVE g_rx_free[i] \in 1..NS_RX_POOL
    BY <1>2, <1>3, Zenon
  <2> QED
    BY <2>1, <2>2, <1>4, Zenon DEF RxIn, RxSlots
<1>7. inbox \in Seq(RxKinds)
  <2>1. PICK n \in 0..RxLen : inbox \in [1..n -> RxKinds]
    BY Zenon DEF RxInit
  <2> QED
    BY <2>1, RxConstants
<1>8. /\ bufs = <<>> /\ got = <<>> /\ held = <<>>
      /\ rx = [pc |-> "away", budget |-> 0, copy |-> FALSE, full |-> FALSE]
  BY Zenon DEF RxInit
<1>9. rx \in [pc : RxPlaces, budget : Int, copy : BOOLEAN, full : BOOLEAN] /\ rx.pc = "away"
  BY <1>8 DEF RxPlaces
<1>10. got \in Seq(RxKinds)
  BY <1>8
<1>11. RxList(bufs) /\ RxList(held) /\ RxIn(bufs) = {} /\ RxIn(held) = {}
  BY <1>8, RxNone, Zenon
<1>12. PoolExact
  BY <1>5, <1>6, <1>8, <1>11, Zenon DEF PoolExact, RxList
<1>13. rx.pc # "acquire" /\ rx.pc # "recv" /\ rx.pc # "handle"
  BY <1>9
<1>14. rx.pc \notin {"acquire", "recv"}
  BY <1>9
<1> QED
  BY <1>4, <1>5, <1>7, <1>9, <1>10, <1>11, <1>12, <1>13, <1>14, Zenon DEF RxInv, RxList

\* What RxInv says of the three owners.
LEMMA RxOwners ==
  ASSUME RxInv
  PROVE  /\ RxList(g_rx_free) /\ RxList(bufs) /\ RxList(held)
         /\ inbox \in Seq(RxKinds) /\ got \in Seq(RxKinds)
         /\ RxIn(g_rx_free) \intersect RxIn(bufs) = {}
         /\ RxIn(g_rx_free) \intersect RxIn(held) = {}
         /\ RxIn(bufs) \intersect RxIn(held) = {}
         /\ RxIn(g_rx_free) \union RxIn(bufs) \union RxIn(held) = RxSlots
         /\ rx.pc \in {"away", "lost"} => bufs = <<>> /\ got = <<>>
  BY Zenon DEF RxInv, PoolExact

\* An assignment of a place, and of the other fields with it.
LEMMA RxPlaced ==
  ASSUME rx \in [pc : RxPlaces, budget : Int, copy : BOOLEAN, full : BOOLEAN],
         NEW r \in RxPlaces, ReceiveReturns(r)
  PROVE  /\ rx' \in [pc : RxPlaces, budget : Int, copy : BOOLEAN, full : BOOLEAN]
         /\ rx'.pc = r
  BY DEF ReceiveReturns

\* What has to be shown of the next state.
LEMMA RxNextInv ==
  ASSUME RxList(g_rx_free'), RxList(bufs'), RxList(held'),
         inbox' \in Seq(RxKinds), got' \in Seq(RxKinds),
         rx' \in [pc : RxPlaces, budget : Int, copy : BOOLEAN, full : BOOLEAN],
         RxIn(g_rx_free') \intersect RxIn(bufs') = {},
         RxIn(g_rx_free') \intersect RxIn(held') = {},
         RxIn(bufs') \intersect RxIn(held') = {},
         RxIn(g_rx_free') \union RxIn(bufs') \union RxIn(held') = RxSlots,
         rx'.pc \in {"away", "lost"} => bufs' = <<>> /\ got' = <<>>,
         rx'.pc \in {"acquire", "recv"} => got' = <<>>,
         rx'.pc = "acquire" => bufs' = <<>>,
         rx'.pc = "recv" /\ ~rx'.copy => bufs' # <<>>,
         rx'.pc = "handle" => got' # <<>>
  PROVE  RxInv'
<1>1. RxOnce(g_rx_free') /\ RxOnce(bufs') /\ RxOnce(held')
  BY Zenon DEF RxList
<1>2. PoolExact'
  BY <1>1, Zenon DEF PoolExact, RxOnce, RxIn
<1> QED
  BY <1>2, Zenon DEF RxInv, RxList, RxOnce

\* RxCall takes nothing.
LEMMA RxCallInv == RxInv /\ RxCall => RxInv'
<1> SUFFICES ASSUME RxInv, RxCall PROVE RxInv'
  OBVIOUS
<1>1. rx.pc = "away" /\ UNCHANGED <<inbox, g_rx_free, bufs, got, held>>
      /\ rx' = [rx EXCEPT !.pc = "acquire", !.budget = RxBudget, !.copy = FALSE]
  BY Zenon DEF RxCall
<1>2. rx \in [pc : RxPlaces, budget : Int, copy : BOOLEAN, full : BOOLEAN]
  BY Zenon DEF RxInv
<1>a. rx' = [rx EXCEPT !.pc = "acquire", !.budget = RxBudget, !.copy = FALSE] /\ RxBudget \in Int
  BY <1>1, RxConstants
<1>3. rx' \in [pc : RxPlaces, budget : Int, copy : BOOLEAN, full : BOOLEAN] /\ rx'.pc = "acquire"
  BY <1>a, <1>2, Zenon DEF RxPlaces
<1>4. rx.pc \in {"away", "lost"}
  BY <1>1
<1>5. bufs = <<>> /\ got = <<>>
  BY <1>4, RxOwners, Zenon
<1>6. rx'.pc \notin {"away", "lost"} /\ rx'.pc # "recv" /\ rx'.pc # "handle"
  BY <1>3
<1>7. inbox' = inbox /\ g_rx_free' = g_rx_free /\ bufs' = bufs /\ got' = got /\ held' = held
  BY <1>1, Zenon
<1>8. RxList(g_rx_free') /\ RxList(bufs') /\ RxList(held')
  BY <1>7, RxOwners, Zenon
<1>9. /\ RxIn(g_rx_free') \intersect RxIn(bufs') = {}
      /\ RxIn(g_rx_free') \intersect RxIn(held') = {}
      /\ RxIn(bufs') \intersect RxIn(held') = {}
      /\ RxIn(g_rx_free') \union RxIn(bufs') \union RxIn(held') = RxSlots
  BY <1>7, RxOwners, Zenon
<1>10. inbox' \in Seq(RxKinds) /\ got' \in Seq(RxKinds) /\ bufs' = <<>> /\ got' = <<>>
  BY <1>5, <1>7, RxOwners, Zenon
<1> QED
  BY <1>3, <1>6, <1>8, <1>9, <1>10, RxNextInv, Zenon

\* Acquire moves the front of the free list to the pass.
LEMMA RxAcquireInv == RxInv /\ Acquire => RxInv'
<1> SUFFICES ASSUME RxInv, Acquire PROVE RxInv'
  OBVIOUS
<1>1. rx.pc = "acquire" /\ inbox' = inbox /\ got' = got /\ held' = held
  BY Zenon DEF Acquire
<1>2. rx \in [pc : RxPlaces, budget : Int, copy : BOOLEAN, full : BOOLEAN]
  BY Zenon DEF RxInv
<1>3. rx.pc \in {"acquire", "recv"}
  BY <1>1
<1>4. bufs = <<>> /\ got = <<>>
  BY <1>1, <1>3, Zenon DEF RxInv
<1>5. CASE rx.budget <= 0
  <2>1. ReceiveReturns("away") /\ g_rx_free' = g_rx_free /\ bufs' = bufs
    BY <1>5, Zenon DEF Acquire
  <2>2. "away" \in RxPlaces
    BY DEF RxPlaces
  <2>3. rx' \in [pc : RxPlaces, budget : Int, copy : BOOLEAN, full : BOOLEAN] /\ rx'.pc = "away"
    BY <2>1, <2>2, <1>2, RxPlaced, Zenon
  <2>4. rx'.pc \notin {"acquire", "recv"} /\ rx'.pc # "recv" /\ rx'.pc # "acquire" /\ rx'.pc # "handle"
    BY <2>3
  <2> QED
    BY <2>1, <2>3, <2>4, <1>1, <1>4, RxOwners, RxNextInv, Zenon
<1>6. CASE ~(rx.budget <= 0)
  <2> DEFINE n == IF rx.copy THEN 0 ELSE SmallerOf(RX_VLEN, Len(g_rx_free))
             a == SubSeq(g_rx_free, 1, n)
             b == SubSeq(g_rx_free, n + 1, Len(g_rx_free))
  <2>1. bufs' = a /\ g_rx_free' = b /\ rx' = [rx EXCEPT !.pc = "recv", !.copy = (n = 0)]
    BY <1>6, Zenon DEF Acquire, Takes
  <2>2. RxList(g_rx_free) /\ g_rx_free \in Seq(RxSlots)
    BY RxOwners, Zenon DEF RxList
  <2>3. n \in 0..Len(g_rx_free)
    <3>1. Len(g_rx_free) \in Nat
      BY <2>2
    <3> QED
      BY <3>1, RxConstants DEF SmallerOf
  <2>4. n # 0 => a # <<>>
    BY <2>2, <2>3
  <2> HIDE DEF n
  <2>5. RxList(a) /\ RxList(b) /\ RxIn(a) \intersect RxIn(b) = {} /\ RxIn(a) \union RxIn(b) = RxIn(g_rx_free)
    BY <2>2, <2>3, RxCut, Zenon
  <2> HIDE DEF a, b
  <2>6. (n = 0) \in BOOLEAN
    BY Zenon
  <2>7. rx' \in [pc : RxPlaces, budget : Int, copy : BOOLEAN, full : BOOLEAN] /\ rx'.pc = "recv"
        /\ (rx'.copy <=> n = 0)
    BY <2>1, <2>6, <1>2, Zenon DEF RxPlaces
  <2>8. rx'.pc \notin {"away", "lost"} /\ rx'.pc # "acquire" /\ rx'.pc # "handle"
    BY <2>7
  <2>9. RxIn(<<>>) = {}
    BY RxNone, Zenon
  <2>10. RxIn(a) \subseteq RxIn(g_rx_free) /\ RxIn(b) \subseteq RxIn(g_rx_free)
    BY <2>5, Zenon
  <2>11. RxIn(b) \intersect RxIn(a) = {} /\ RxIn(b) \intersect RxIn(held) = {} /\ RxIn(a) \intersect RxIn(held) = {}
    BY <2>5, <2>10, RxOwners, Zenon
  <2>12. RxIn(b) \union RxIn(a) \union RxIn(held) = RxSlots
    BY <2>5, <2>9, <1>4, RxOwners, Zenon
  <2> QED
    BY <2>1, <2>4, <2>5, <2>7, <2>8, <2>11, <2>12, <1>1, <1>4, RxOwners, RxNextInv, Zenon
<1> QED
  BY <1>5, <1>6

\* Recv fills a prefix, or gives everything back.
LEMMA RxRecvInv == RxInv /\ Recv => RxInv'
<1> SUFFICES ASSUME RxInv, Recv PROVE RxInv'
  OBVIOUS
<1>1. rx.pc = "recv" /\ held' = held
  BY Zenon DEF Recv
<1>2. rx \in [pc : RxPlaces, budget : Int, copy : BOOLEAN, full : BOOLEAN]
  BY Zenon DEF RxInv
<1>3. rx.pc \in {"acquire", "recv"}
  BY <1>1
<1>4. got = <<>> /\ (~rx.copy => bufs # <<>>)
  BY <1>1, <1>3, Zenon DEF RxInv
<1>5. RxIn(<<>>) = {} /\ RxList(<<>>)
  BY RxNone, Zenon
<1> DEFINE room == IF rx.copy THEN RX_VLEN ELSE Len(bufs)
           v == SmallerOf(room, Len(inbox))
<1>6. CASE /\ inbox # <<>> /\ g_rx_free' = g_rx_free /\ bufs' = bufs
           /\ got' = SubSeq(inbox, 1, v) /\ inbox' = SubSeq(inbox, v + 1, Len(inbox))
           /\ rx' = [rx EXCEPT !.pc = "handle", !.budget = @ - v, !.full = (v = room)]
  <2>1. bufs \in Seq(RxSlots) /\ inbox \in Seq(RxKinds)
    BY RxOwners, Zenon DEF RxList
  <2>2. room \in Nat \ {0}
    <3>1. ~rx.copy => Len(bufs) \in Nat \ {0}
      BY <2>1, <1>4
    <3> QED
      BY <3>1, RxConstants
  <2>3. Len(inbox) \in Nat \ {0}
    BY <2>1, <1>6
  <2> HIDE DEF room
  <2>4. v \in 1..Len(inbox)
    BY <2>2, <2>3 DEF SmallerOf
  <2> HIDE DEF v
  <2>5. SubSeq(inbox, 1, v) \in Seq(RxKinds) /\ SubSeq(inbox, 1, v) # <<>>
        /\ SubSeq(inbox, v + 1, Len(inbox)) \in Seq(RxKinds)
    BY <2>1, <2>3, <2>4
  <2>6. got' \in Seq(RxKinds) /\ got' # <<>> /\ inbox' \in Seq(RxKinds)
    BY <2>5, <1>6, Zenon
  <2> DEFINE w == rx.budget - v
             f == (v = room)
  <2>7. w \in Int /\ f \in BOOLEAN
    BY <2>3, <2>4, <1>2
  <2>8. rx' = [rx EXCEPT !.pc = "handle", !.budget = w, !.full = f]
    <3>1. rx' = [rx EXCEPT !.pc = "handle", !.budget = @ - v, !.full = (v = room)]
      BY <1>6, Zenon
    <3> QED
      BY <3>1, <1>2
  <2> HIDE DEF w, f
  <2>9. rx' \in [pc : RxPlaces, budget : Int, copy : BOOLEAN, full : BOOLEAN] /\ rx'.pc = "handle"
    BY <2>7, <2>8, <1>2, Zenon DEF RxPlaces
  <2>10. rx'.pc \notin {"away", "lost"} /\ rx'.pc \notin {"acquire", "recv"} /\ rx'.pc # "acquire" /\ rx'.pc # "recv"
    BY <2>9
  <2>11. RxList(g_rx_free') /\ RxList(bufs') /\ RxList(held')
    BY <1>1, <1>6, RxOwners, Zenon
  <2>12. /\ RxIn(g_rx_free') \intersect RxIn(bufs') = {}
         /\ RxIn(g_rx_free') \intersect RxIn(held') = {}
         /\ RxIn(bufs') \intersect RxIn(held') = {}
         /\ RxIn(g_rx_free') \union RxIn(bufs') \union RxIn(held') = RxSlots
    BY <1>1, <1>6, RxOwners, Zenon
  <2> QED
    BY <2>6, <2>9, <2>10, <2>11, <2>12, RxNextInv, Zenon
<1>7. CASE /\ g_rx_free' = RxRelease(g_rx_free, bufs) /\ bufs' = <<>> /\ inbox' = inbox /\ got' = got
           /\ (ReceiveReturns("away") \/ ReceiveReturns("lost"))
  <2>1. RxList(bufs \o g_rx_free) /\ RxIn(bufs \o g_rx_free) = RxIn(bufs) \union RxIn(g_rx_free)
    <3>1. RxList(g_rx_free) /\ RxList(bufs) /\ RxIn(bufs) \intersect RxIn(g_rx_free) = {}
      BY RxOwners, Zenon
    <3> QED
      BY <3>1, RxJoin, Zenon
  <2>2. RxList(g_rx_free') /\ RxIn(g_rx_free') = RxIn(bufs) \union RxIn(g_rx_free)
    BY <2>1, <1>7, Zenon DEF RxRelease
  <2>3. "away" \in RxPlaces /\ "lost" \in RxPlaces
    BY DEF RxPlaces
  <2>4. rx' \in [pc : RxPlaces, budget : Int, copy : BOOLEAN, full : BOOLEAN] /\ (rx'.pc = "away" \/ rx'.pc = "lost")
    BY <2>3, <1>2, <1>7, RxPlaced, Zenon
  <2>5. rx'.pc \notin {"acquire", "recv"} /\ rx'.pc # "acquire" /\ rx'.pc # "recv" /\ rx'.pc # "handle"
    BY <2>4
  <2>6. RxList(bufs') /\ RxList(held') /\ RxIn(bufs') = {} /\ RxIn(held') = RxIn(held)
    BY <1>1, <1>5, <1>7, RxOwners, Zenon
  <2>7. /\ RxIn(g_rx_free') \intersect RxIn(bufs') = {}
        /\ RxIn(g_rx_free') \intersect RxIn(held') = {}
        /\ RxIn(bufs') \intersect RxIn(held') = {}
    BY <2>2, <2>6, RxOwners, Zenon
  <2>8. RxIn(g_rx_free') \union RxIn(bufs') \union RxIn(held') = RxSlots
    BY <2>2, <2>6, RxOwners, Zenon
  <2>9. inbox' \in Seq(RxKinds) /\ got' \in Seq(RxKinds) /\ bufs' = <<>> /\ got' = <<>>
    BY <1>4, <1>7, RxOwners, Zenon
  <2> QED
    BY <2>2, <2>4, <2>5, <2>6, <2>7, <2>8, <2>9, RxNextInv, Zenon
<1> QED
  BY <1>6, <1>7, Zenon DEF Recv

\* Resume frees what lwIP held, or leaves it there.
LEMMA RxResumeInv == RxInv /\ Resume => RxInv'
<1> SUFFICES ASSUME RxInv, Resume PROVE RxInv'
  OBVIOUS
<1>1. rx.pc = "lost" /\ inbox' = inbox /\ bufs' = bufs /\ got' = got /\ ReceiveReturns("away")
  BY Zenon DEF Resume
<1>2. rx \in [pc : RxPlaces, budget : Int, copy : BOOLEAN, full : BOOLEAN]
  BY Zenon DEF RxInv
<1>3. "away" \in RxPlaces /\ rx.pc \in {"away", "lost"}
  BY <1>1 DEF RxPlaces
<1>4. rx' \in [pc : RxPlaces, budget : Int, copy : BOOLEAN, full : BOOLEAN] /\ rx'.pc = "away"
  BY <1>1, <1>2, <1>3, RxPlaced, Zenon
<1>5. rx'.pc \notin {"acquire", "recv"} /\ rx'.pc # "acquire" /\ rx'.pc # "recv" /\ rx'.pc # "handle"
  BY <1>4
<1>6. inbox' \in Seq(RxKinds) /\ got' \in Seq(RxKinds) /\ bufs' = <<>> /\ got' = <<>>
  BY <1>1, <1>3, RxOwners, Zenon
<1>7. RxIn(<<>>) = {} /\ RxList(<<>>)
  BY RxNone, Zenon
<1>8. RxList(bufs') /\ RxIn(bufs') = {} /\ RxIn(bufs) = {}
  BY <1>1, <1>6, <1>7, Zenon
<1>9. RxList(g_rx_free') /\ RxList(held') /\ RxIn(g_rx_free') \intersect RxIn(held') = {}
      /\ RxIn(g_rx_free') \union RxIn(held') = RxSlots
  <2>1. CASE held' = held /\ g_rx_free' = g_rx_free
    BY <2>1, <1>8, RxOwners, Zenon
  <2>2. CASE held' = <<>> /\ g_rx_free' = RxRelease(g_rx_free, held)
    <3>1. RxList(g_rx_free) /\ RxList(held) /\ RxIn(held) \intersect RxIn(g_rx_free) = {}
      BY RxOwners, Zenon
    <3>2. RxList(held \o g_rx_free) /\ RxIn(held \o g_rx_free) = RxIn(held) \union RxIn(g_rx_free)
      BY <3>1, RxJoin, Zenon
    <3>3. RxList(g_rx_free') /\ RxIn(g_rx_free') = RxIn(held) \union RxIn(g_rx_free)
      BY <3>2, <2>2, Zenon DEF RxRelease
    <3>4. RxList(held') /\ RxIn(held') = {}
      BY <2>2, <1>7, Zenon
    <3>5. RxIn(held) \union RxIn(g_rx_free) = RxSlots
      BY <1>8, RxOwners, Zenon
    <3> QED
      BY <3>3, <3>4, <3>5, Zenon
  <2> QED
    BY <2>1, <2>2, Zenon DEF Resume
<1>10. /\ RxIn(g_rx_free') \intersect RxIn(bufs') = {} /\ RxIn(bufs') \intersect RxIn(held') = {}
       /\ RxIn(g_rx_free') \union RxIn(bufs') \union RxIn(held') = RxSlots
  BY <1>8, <1>9, Zenon
<1> QED
  BY <1>4, <1>5, <1>6, <1>8, <1>9, <1>10, RxNextInv, Zenon

\* The buffer a datagram is in and the ones after it are what the pass has.
LEMMA RxFront ==
  ASSUME RxInv
  PROVE  /\ RxList(RxCurrent) /\ RxList(Others) /\ RxIn(RxCurrent) \intersect RxIn(Others) = {}
         /\ RxIn(RxCurrent) \union RxIn(Others) = RxIn(bufs)
<1> DEFINE n == IF bufs = <<>> THEN 0 ELSE 1
<1>1. RxList(bufs) /\ bufs \in Seq(RxSlots)
  BY RxOwners, Zenon DEF RxList
<1>2. CASE bufs = <<>>
  <2>1. RxCurrent = <<>> /\ Others = <<>>
    BY <1>2 DEF RxCurrent, Others
  <2> QED
    BY <2>1, <1>2, RxNone, Zenon
<1>3. CASE bufs # <<>>
  <2>1. 1 \in 0..Len(bufs) /\ 1 + 1 = 2
    BY <1>1, <1>3
  <2> DEFINE a == SubSeq(bufs, 1, 1)
             b == SubSeq(bufs, 1 + 1, Len(bufs))
  <2>2. RxList(a) /\ RxList(b) /\ RxIn(a) \intersect RxIn(b) = {} /\ RxIn(a) \union RxIn(b) = RxIn(bufs)
    BY <2>1, <1>1, RxCut, Zenon
  <2>3. RxCurrent = a /\ Others = b
    BY <2>1, <1>3, Zenon DEF RxCurrent, Others
  <2> QED
    BY <2>2, <2>3, Zenon
<1> QED
  BY <1>2, <1>3, Zenon

\* A CLOSE gives back the whole pass.
LEMMA RxClosedInv ==
  ASSUME RxInv, rx.pc = "handle", inbox' = inbox, RxClosed
  PROVE  RxInv'
<1>1. /\ g_rx_free' = RxRelease(g_rx_free, RxCurrent \o Others) /\ bufs' = <<>> /\ got' = <<>>
      /\ held' = held /\ ReceiveReturns("lost")
  BY Zenon DEF RxClosed
<1>2. rx \in [pc : RxPlaces, budget : Int, copy : BOOLEAN, full : BOOLEAN]
  BY Zenon DEF RxInv
<1>3. "lost" \in RxPlaces
  BY DEF RxPlaces
<1>4. rx' \in [pc : RxPlaces, budget : Int, copy : BOOLEAN, full : BOOLEAN] /\ rx'.pc = "lost"
  BY <1>1, <1>2, <1>3, RxPlaced, Zenon
<1>5. rx'.pc \notin {"acquire", "recv"} /\ rx'.pc # "acquire" /\ rx'.pc # "recv" /\ rx'.pc # "handle"
  BY <1>4
<1>6. RxIn(RxCurrent) \subseteq RxIn(bufs) /\ RxIn(Others) \subseteq RxIn(bufs)
  BY RxFront, Zenon
<1>7. RxIn(RxCurrent) \intersect RxIn(g_rx_free) = {} /\ RxIn(Others) \intersect RxIn(g_rx_free) = {}
  BY <1>6, RxOwners, Zenon
<1>8. /\ RxList(g_rx_free')
      /\ RxIn(g_rx_free') = RxIn(RxCurrent) \union RxIn(Others) \union RxIn(g_rx_free)
  <2>1. RxList(RxCurrent) /\ RxList(Others) /\ RxList(g_rx_free) /\ RxIn(RxCurrent) \intersect RxIn(Others) = {}
    BY RxFront, RxOwners, Zenon
  <2> DEFINE r == RxRelease(g_rx_free, RxCurrent \o Others)
  <2>2. RxList(r) /\ RxIn(r) = RxIn(RxCurrent) \union RxIn(Others) \union RxIn(g_rx_free)
    <3>1. RxIn(RxCurrent) \intersect RxIn(g_rx_free) = {} /\ RxIn(Others) \intersect RxIn(g_rx_free) = {}
      BY <1>7, Zenon
    <3> QED
      BY ONLY <2>1, <3>1, RxGiveBack
  <2>3. g_rx_free' = r
    BY <1>1, Zenon
  <2> HIDE DEF r
  <2> QED
    BY <2>2, <2>3, Zenon
<1>9. RxIn(g_rx_free') = RxIn(bufs) \union RxIn(g_rx_free)
  BY <1>8, RxFront, Zenon
<1>10. RxList(bufs') /\ RxList(held') /\ RxIn(bufs') = {} /\ RxIn(held') = RxIn(held)
  BY <1>1, RxNone, RxOwners, Zenon
<1>11. /\ RxIn(g_rx_free') \intersect RxIn(bufs') = {}
       /\ RxIn(g_rx_free') \intersect RxIn(held') = {}
       /\ RxIn(bufs') \intersect RxIn(held') = {}
  BY <1>9, <1>10, RxOwners, Zenon
<1>12. RxIn(g_rx_free') \union RxIn(bufs') \union RxIn(held') = RxSlots
  BY <1>9, <1>10, RxOwners, Zenon
<1>13. <<>> \in Seq(RxKinds)
  OBVIOUS
<1>14. inbox' \in Seq(RxKinds) /\ got' \in Seq(RxKinds)
  BY <1>1, <1>13, RxOwners, Zenon
<1> QED
  BY <1>1, <1>4, <1>5, <1>8, <1>10, <1>11, <1>12, <1>14, RxNextInv, Zenon

\* The buffer of a datagram goes to one place: the free list or lwIP.
LEMMA RxOnePlace ==
  ASSUME RxInv, NEW d \in RxKinds, Handled(d) >= 0
  PROVE  LET lw == ToLwip(d, RxCurrent)
             back == lw.freed \o (IF Handled(d) = 0 THEN RxCurrent ELSE <<>>)
         IN /\ RxList(lw.held) /\ RxList(back) /\ RxIn(lw.held) \intersect RxIn(back) = {}
            /\ RxIn(lw.held) \union RxIn(back) = RxIn(held) \union RxIn(RxCurrent)
<1> DEFINE c == RxCurrent
           lw == ToLwip(d, c)
           back == lw.freed \o (IF Handled(d) = 0 THEN c ELSE <<>>)
<1>1. RxList(c) /\ RxList(held) /\ c \in Seq(RxSlots) /\ held \in Seq(RxSlots)
  BY RxFront, RxOwners, Zenon DEF RxList
<1>2. RxIn(c) \intersect RxIn(held) = {}
  BY RxFront, RxOwners, Zenon
<1>3. RxList(<<>>) /\ RxIn(<<>>) = {}
  BY RxNone, Zenon
<1>4. d = "spent" \/ d = "nobuf" \/ d = "ahead" \/ d = "fill"
  BY DEF RxKinds, Handled
<1>n. <<>> \o <<>> = <<>> /\ <<>> \o c = c /\ c \o <<>> = c
  BY <1>1
<1>5. CASE d = "spent"
  <2>1. Handled(d) = 0 /\ ToLwip(d, c) = [held |-> held, freed |-> <<>>]
    BY <1>5 DEF Handled, ToLwip
  <2>2. lw.held = held /\ lw.freed = <<>>
    BY <2>1
  <2>3. lw.held = held /\ back = c
    BY <2>1, <2>2, <1>n, Zenon
  <2> HIDE DEF lw, back, c
  <2> QED
    BY <2>3, <1>1, <1>2, Zenon DEF lw, back, c
<1>6. CASE d = "nobuf"
  <2>1. Handled(d) = 1 /\ ToLwip(d, c) = [held |-> held, freed |-> c]
    BY <1>6 DEF Handled, ToLwip
  <2>2. lw.held = held /\ lw.freed = c /\ Handled(d) # 0
    BY <2>1
  <2>3. lw.held = held /\ back = c
    BY <2>2, <1>n, Zenon
  <2> HIDE DEF lw, back, c
  <2> QED
    BY <2>3, <1>1, <1>2, Zenon DEF lw, back, c
<1>7. CASE d = "ahead"
  <2>1. Handled(d) = 1 /\ ToLwip(d, c) = [held |-> held \o c, freed |-> <<>>]
    BY <1>7 DEF Handled, ToLwip
  <2>2. lw.held = held \o c /\ lw.freed = <<>> /\ Handled(d) # 0
    BY <2>1
  <2>3. lw.held = held \o c /\ back = <<>>
    BY <2>2, <1>n, Zenon
  <2> HIDE DEF lw, back, c
  <2>4. RxIn(held) \intersect RxIn(c) = {}
    BY <1>2, Zenon
  <2>5. RxList(held \o c) /\ RxIn(held \o c) = RxIn(held) \union RxIn(c)
    BY <2>4, <1>1, RxJoin, Zenon
  <2> QED
    BY <2>3, <2>5, <1>3, Zenon DEF lw, back, c
<1>8. CASE d = "fill"
  <2>1. Handled(d) = 1 /\ ToLwip(d, c) = [held |-> <<>>, freed |-> c \o held]
    BY <1>8 DEF Handled, ToLwip
  <2>2. lw.held = <<>> /\ lw.freed = c \o held /\ Handled(d) # 0
    BY <2>1
  <2>3. (c \o held) \o <<>> = c \o held
    BY <1>1
  <2>4. lw.held = <<>> /\ back = c \o held
    BY <2>2, <2>3, Zenon
  <2> HIDE DEF lw, back, c
  <2>5. RxList(c \o held) /\ RxIn(c \o held) = RxIn(c) \union RxIn(held)
    BY <1>1, <1>2, RxJoin, Zenon
  <2> QED
    BY <2>4, <2>5, <1>3, Zenon DEF lw, back, c
<1> QED
  BY <1>4, <1>5, <1>6, <1>7, <1>8, Zenon

\* What a datagram's handler and, after the last one, the end of the pass leave.
LEMMA RxDispatchedInv ==
  ASSUME RxInv, rx.pc = "handle", inbox' = inbox, NEW d \in RxKinds, Handled(d) >= 0, Dispatched(d)
  PROVE  RxInv'
<1> DEFINE c == RxCurrent
           o == Others
           lw == ToLwip(d, c)
           back == lw.freed \o (IF Handled(d) = 0 THEN c ELSE <<>>)
           last == Len(got) = 1
           more == IF last THEN o ELSE <<>>
           stay == IF last THEN <<>> ELSE o
           place == CASE ~last -> "handle"
                      [] last /\ rx.full -> "acquire"
                      [] OTHER -> "away"
           hl == lw.held
<1>1. /\ held' = hl /\ got' = Tail(got) /\ g_rx_free' = RxRelease(g_rx_free, back \o more)
      /\ bufs' = stay /\ ReceiveReturns(place)
  BY Zenon DEF Dispatched
<1>2. /\ RxList(hl) /\ RxList(back) /\ RxIn(hl) \intersect RxIn(back) = {}
      /\ RxIn(hl) \union RxIn(back) = RxIn(held) \union RxIn(c)
  BY RxOnePlace, Zenon
<1>3. /\ RxList(c) /\ RxList(o) /\ RxIn(c) \intersect RxIn(o) = {}
      /\ RxIn(c) \union RxIn(o) = RxIn(bufs)
  BY RxFront, Zenon
<1>4. rx \in [pc : RxPlaces, budget : Int, copy : BOOLEAN, full : BOOLEAN]
  BY Zenon DEF RxInv
<1>5. got \in Seq(RxKinds) /\ got # <<>>
  BY Zenon DEF RxInv
<1>6. Tail(got) \in Seq(RxKinds) /\ (last => Tail(got) = <<>>) /\ (~last => Tail(got) # <<>>)
  <2>1. Tail(got) \in Seq(RxKinds) /\ Len(Tail(got)) = Len(got) - 1 /\ Len(got) \in Nat
    BY <1>5
  <2>2. \A q \in Seq(RxKinds) : q = <<>> <=> Len(q) = 0
    OBVIOUS
  <2>3. last <=> Len(Tail(got)) = 0
    BY <2>1
  <2> HIDE DEF last
  <2> QED
    BY <2>1, <2>2, <2>3, Zenon
<1>7. /\ place \in RxPlaces /\ (last => place = "acquire" \/ place = "away") /\ (~last => place = "handle")
  BY <1>4 DEF RxPlaces
<1>8. /\ last => more = o /\ stay = <<>>
      /\ ~last => more = <<>> /\ stay = o
  BY Zenon
<1> HIDE DEF c, o, lw, back, last, more, stay, place, hl
<1>9. RxList(<<>>) /\ RxIn(<<>>) = {}
  BY RxNone, Zenon
<1>10. RxList(more) /\ RxList(stay) /\ RxIn(more) \intersect RxIn(stay) = {} /\ RxIn(more) \union RxIn(stay) = RxIn(o)
  BY <1>3, <1>8, <1>9, Zenon
<1>11. /\ RxIn(g_rx_free) \intersect RxIn(c) = {} /\ RxIn(g_rx_free) \intersect RxIn(o) = {}
       /\ RxIn(held) \intersect RxIn(c) = {} /\ RxIn(held) \intersect RxIn(o) = {}
       /\ RxIn(g_rx_free) \intersect RxIn(held) = {}
  <2>1. RxIn(c) \subseteq RxIn(bufs) /\ RxIn(o) \subseteq RxIn(bufs)
    BY <1>3, Zenon
  <2> QED
    BY <2>1, RxOwners, Zenon
<1>12. /\ RxIn(hl) \subseteq RxIn(held) \union RxIn(c)
       /\ RxIn(back) \subseteq RxIn(held) \union RxIn(c)
       /\ RxIn(more) \subseteq RxIn(o) /\ RxIn(stay) \subseteq RxIn(o)
  BY <1>2, <1>10, Zenon
<1>13. RxIn(back) \intersect RxIn(g_rx_free) = {} /\ RxIn(hl) \intersect RxIn(g_rx_free) = {}
  BY <1>11, <1>12, Zenon
<1>14. RxIn(more) \intersect RxIn(g_rx_free) = {} /\ RxIn(stay) \intersect RxIn(g_rx_free) = {}
  BY <1>11, <1>12, Zenon
<1>15. RxIn(back) \intersect RxIn(more) = {} /\ RxIn(back) \intersect RxIn(stay) = {}
  BY <1>3, <1>11, <1>12, Zenon
<1>16. RxIn(hl) \intersect RxIn(more) = {} /\ RxIn(hl) \intersect RxIn(stay) = {}
  BY <1>3, <1>11, <1>12, Zenon
<1>17. RxList(g_rx_free') /\ RxIn(g_rx_free') = RxIn(back) \union RxIn(more) \union RxIn(g_rx_free)
  <2> DEFINE r == RxRelease(g_rx_free, back \o more)
  <2>1. RxList(g_rx_free)
    BY RxOwners, Zenon
  <2>2. RxList(r) /\ RxIn(r) = RxIn(back) \union RxIn(more) \union RxIn(g_rx_free)
    <3>1. RxList(back) /\ RxList(more) /\ RxIn(back) \intersect RxIn(more) = {}
      BY <1>2, <1>10, <1>15, Zenon
    <3>2. RxIn(back) \intersect RxIn(g_rx_free) = {} /\ RxIn(more) \intersect RxIn(g_rx_free) = {}
      BY <1>13, <1>14, Zenon
    <3> QED
      BY ONLY <2>1, <3>1, <3>2, RxGiveBack
  <2>3. g_rx_free' = r
    BY <1>1, Zenon
  <2> HIDE DEF r
  <2> QED
    BY <2>2, <2>3, Zenon
<1>18. RxList(bufs') /\ RxList(held') /\ RxIn(bufs') = RxIn(stay) /\ RxIn(held') = RxIn(hl)
  BY <1>1, <1>2, <1>10, Zenon
<1>19. RxIn(g_rx_free') \intersect RxIn(bufs') = {}
  BY <1>10, <1>14, <1>15, <1>17, <1>18, Zenon
<1>20. RxIn(g_rx_free') \intersect RxIn(held') = {}
  BY <1>2, <1>13, <1>16, <1>17, <1>18, Zenon
<1>21. RxIn(bufs') \intersect RxIn(held') = {}
  BY <1>16, <1>18, Zenon
<1>22. RxIn(g_rx_free') \union RxIn(bufs') \union RxIn(held') = RxSlots
  <2>1. RxIn(g_rx_free') \union RxIn(bufs') \union RxIn(held')
        = RxIn(g_rx_free) \union (RxIn(hl) \union RxIn(back)) \union (RxIn(more) \union RxIn(stay))
    BY <1>17, <1>18, Zenon
  <2>2. RxIn(g_rx_free) \union (RxIn(held) \union RxIn(c)) \union RxIn(o)
        = RxIn(g_rx_free) \union (RxIn(c) \union RxIn(o)) \union RxIn(held)
    BY Zenon
  <2>3. RxIn(g_rx_free) \union (RxIn(c) \union RxIn(o)) \union RxIn(held) = RxSlots
    BY <1>3, RxOwners, Zenon
  <2> QED
    BY <2>1, <2>2, <2>3, <1>2, <1>10, Zenon
<1>23. rx' \in [pc : RxPlaces, budget : Int, copy : BOOLEAN, full : BOOLEAN] /\ rx'.pc = place
  BY <1>1, <1>4, <1>7, RxPlaced, Zenon
<1>24. inbox' \in Seq(RxKinds) /\ got' \in Seq(RxKinds)
  BY <1>1, <1>6, RxOwners, Zenon
<1>25. CASE last
  <2>1. bufs' = <<>> /\ got' = <<>>
    BY <1>25, <1>1, <1>6, <1>8, Zenon
  <2>2. rx'.pc = "acquire" \/ rx'.pc = "away"
    BY <1>25, <1>7, <1>23, Zenon
  <2>3. rx'.pc # "recv" /\ rx'.pc # "handle"
    BY <2>2
  <2> QED
    BY <2>1, <2>3, <1>17, <1>18, <1>19, <1>20, <1>21, <1>22, <1>23, <1>24, RxNextInv, Zenon
<1>26. CASE ~last
  <2>1. got' # <<>>
    BY <1>26, <1>1, <1>6, Zenon
  <2>2. rx'.pc = "handle"
    BY <1>26, <1>7, <1>23, Zenon
  <2>3. rx'.pc # "recv" /\ rx'.pc # "acquire" /\ rx'.pc \notin {"away", "lost"} /\ rx'.pc \notin {"acquire", "recv"}
    BY <2>2
  <2> QED
    BY <2>1, <2>3, <1>17, <1>18, <1>19, <1>20, <1>21, <1>22, <1>23, <1>24, RxNextInv, Zenon
<1> QED
  BY <1>25, <1>26, Zenon

\* Handle.
LEMMA RxHandleInv == RxInv /\ Handle => RxInv'
<1> SUFFICES ASSUME RxInv, Handle PROVE RxInv'
  OBVIOUS
<1>1. rx.pc = "handle" /\ inbox' = inbox
  BY Zenon DEF Handle
<1>2. got \in Seq(RxKinds) /\ got # <<>>
  BY <1>1, Zenon DEF RxInv
<1> DEFINE d == Head(got)
<1>3. d \in RxKinds
  BY <1>2
<1>4. CASE Handled(d) < 0
  <2>1. RxClosed
    BY <1>4, Zenon DEF Handle
  <2> QED
    BY <2>1, <1>1, RxClosedInv, Zenon
<1>5. CASE ~(Handled(d) < 0)
  <2>1. Dispatched(d)
    BY <1>5, Zenon DEF Handle
  <2> HIDE DEF d
  <2>2. Handled(d) \in Int
    BY <1>3 DEF Handled, RxKinds
  <2>3. Handled(d) >= 0
    BY <2>2, <1>5
  <2> QED
    BY <2>1, <2>3, <1>1, <1>3, RxDispatchedInv, Zenon
<1> QED
  BY <1>4, <1>5, Zenon

\* Every buffer of the RX pool has exactly one owner, for every pool, vector
\* and budget and whatever arrives: receive_vpn, its handlers and the rebuild
\* of the stack neither leak a buffer nor release one twice (M9).
THEOREM PoolStaysExact == RxSpec => []PoolExact
<1>1. RxInv /\ [RxNext]_rxVars => RxInv'
  <2> SUFFICES ASSUME RxInv, [RxNext]_rxVars PROVE RxInv'
    OBVIOUS
  <2>1. CASE UNCHANGED rxVars
    <3>1. inbox' = inbox /\ g_rx_free' = g_rx_free /\ bufs' = bufs /\ got' = got /\ held' = held /\ rx' = rx
      BY <2>1, Zenon DEF rxVars
    <3> QED
      <4>1. /\ RxList(g_rx_free') /\ RxList(bufs') /\ RxList(held')
            /\ inbox' \in Seq(RxKinds) /\ got' \in Seq(RxKinds)
            /\ RxIn(g_rx_free') \intersect RxIn(bufs') = {}
            /\ RxIn(g_rx_free') \intersect RxIn(held') = {}
            /\ RxIn(bufs') \intersect RxIn(held') = {}
            /\ RxIn(g_rx_free') \union RxIn(bufs') \union RxIn(held') = RxSlots
            /\ rx'.pc \in {"away", "lost"} => bufs' = <<>> /\ got' = <<>>
        BY <3>1, RxOwners, Zenon
      <4>2. /\ rx' \in [pc : RxPlaces, budget : Int, copy : BOOLEAN, full : BOOLEAN]
            /\ rx'.pc \in {"acquire", "recv"} => got' = <<>>
            /\ rx'.pc = "acquire" => bufs' = <<>>
            /\ rx'.pc = "recv" /\ ~rx'.copy => bufs' # <<>>
            /\ rx'.pc = "handle" => got' # <<>>
        BY <3>1, Zenon DEF RxInv
      <4> QED
        BY <4>1, <4>2, RxNextInv, Zenon
  <2>2. CASE RxNext
    BY <2>2, RxCallInv, RxAcquireInv, RxRecvInv, RxHandleInv, RxResumeInv, Zenon DEF RxNext
  <2> QED
    BY <2>1, <2>2
<1>2. RxInv => PoolExact
  BY Zenon DEF RxInv
<1> QED
  BY RxInitInv, <1>1, <1>2, PTL DEF RxSpec
=============================================================================
