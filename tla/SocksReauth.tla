---------------------------- MODULE SocksReauth ----------------------------
(***************************************************************************)
(* run_socks (src/common/socks.c): the event loop that owns the session    *)
(* socket of the SOCKS client, and the four places in it that authenticate *)
(* the tunnel again in place - the downlink watchdog, the scheduled retry, *)
(* a hard send error and a run of failed keepalives - plus the one after   *)
(* receive_vpn.  Flows, DNS workers and the stack's connections have their *)
(* own modules (SocksFlow, SocksDns, LwipBridge); here a round of the loop *)
(* is what it does to the session.                                         *)
(*                                                                         *)
(* A session and the socket it was opened on carry one number: the lowest  *)
(* descriptor that is free, as the kernel hands them out.  cfg.sess is the *)
(* session cfg describes; cfg.sock is sockfd; they differ after a swap     *)
(* that could not make the new socket non-blocking.  The clock is kept as  *)
(* what has elapsed: reauth_at is "none" (0), "wait" (in the future) or    *)
(* "due"; silent says no downlink came for stale_ms; ka_due that the next  *)
(* keepalive is due.                                                       *)
(***************************************************************************)
EXTENDS Integers, FiniteSets

CONSTANTS SOCKS_KA_FAIL_MAX,   \* keepalives that may fail in a row
          Callback             \* {TRUE}: cfg->reauth is set, {FALSE}: legacy

ASSUME ReauthAssumption == SOCKS_KA_FAIL_MAX \in Nat /\ Callback \subseteq BOOLEAN

VARIABLES cfg,       \* the session state of SocksConfig, run_socks's locals, and
                     \* whether the server still holds that session (alive)
          stage,     \* where in run_socks the thread is
          stops,     \* [g |-> g_stop, user |-> g_user_stop]
          rc         \* what run_socks returned

raVars == <<cfg, stage, stops, rc>>

Fds == 0..1

RaInit ==
    /\ cfg \in [sock : {0}, sess : {0}, open : {{0}}, listener : {FALSE},
                evfd : {FALSE}, stack : {FALSE}, reauth_at : {"none"},
                session_lost : {FALSE}, ka_fail : {0}, silent : {FALSE},
                ka_due : {TRUE}, reauth : Callback, alive : {TRUE}, nfd : {FALSE}]
    /\ stage = "entry"
    /\ stops \in [g : BOOLEAN, user : BOOLEAN]
    /\ rc = 99

-----------------------------------------------------------------------------
(* socks_reauth_tunnel and socks_reauth_swap, as the set of their outcomes *)

(* The descriptor udp_connect gets while c's sockets are open. *)
NewFd(c) == CHOOSE d \in Fds \ c.open : \A e \in Fds \ c.open : d <= e

(* cfg after the callback filled in the fresh session. *)
Authenticated(c) ==
    [c EXCEPT !.sess = NewFd(c), !.silent = FALSE, !.ka_fail = 0,
              !.reauth_at = "none", !.session_lost = FALSE,
              !.open = @ \cup {NewFd(c)}, !.alive = TRUE, !.nfd = TRUE]

BackOff(c) == [c EXCEPT !.reauth_at = "wait", !.nfd = FALSE]

(* A session with the inner address the client had keeps the stack as it   *)
(* is; another address rebuilds it, and a rebuild that fails closes the    *)
(* fresh socket and schedules a retry.                                     *)
Carried(c) ==
    {c, [c EXCEPT !.stack = TRUE]}
      \cup {BackOff([c EXCEPT !.open = @ \ {c.sess}, !.stack = FALSE])}

Tunnel(c) ==
    IF ~c.reauth
      THEN {[c EXCEPT !.nfd = FALSE]}
      ELSE {BackOff(c)} \cup Carried(Authenticated(c))

(* A swap that leaves the replaced socket open. *)
SwapLeaks(c) ==
    IF ~c.nfd THEN {c}
      ELSE {[c EXCEPT !.open = @ \ {c.sess}], [c EXCEPT !.sock = c.sess]}

Swap(c) ==
    IF ~c.nfd THEN {c}
      ELSE {[c EXCEPT !.open = @ \ {c.sess}],
            [c EXCEPT !.open = @ \ {c.sock}, !.sock = c.sess]}

Reauthed(c) == UNION {Swap(t) : t \in Tunnel(c)}

-----------------------------------------------------------------------------
RaAt(s) == stage = s

Steps(c, s) ==
    /\ cfg' = c
    /\ stage' = s
    /\ UNCHANGED rc

(* The end of a legacy session that is not reported as lost. *)
EndsUnlost(c, s) ==
    IF ~c.nfd /\ ~c.reauth
      THEN /\ Steps(c, "teardown")
           /\ stops' = [stops EXCEPT !.g = TRUE]
      ELSE /\ Steps(c, s)
           /\ UNCHANGED stops

(* The legacy caller has no callback: the session is lost and the loop     *)
(* ends.                                                                   *)
LostOr(c, s) ==
    IF ~c.nfd /\ ~c.reauth
      THEN /\ Steps([c EXCEPT !.session_lost = TRUE], "teardown")
           /\ stops' = [stops EXCEPT !.g = TRUE]
      ELSE /\ Steps(c, s)
           /\ UNCHANGED stops

(* A gate that waits for a schedule a success has cleared. *)
DueScheduled(c) == c.reauth_at = "due"

Due(c) == c.reauth_at # "wait"

-----------------------------------------------------------------------------
Return(c, r) ==
    /\ cfg' = c
    /\ rc' = r
    /\ stage' = "done"

(* The entry check, then every arm of the set-up that fails: each closes   *)
(* the listener, if it is open, and the session socket.                    *)
RaStart ==
    /\ RaAt("entry")
    /\ LET closed == [cfg EXCEPT !.open = @ \ {cfg.sock}]
       IN  \/ /\ stops.user
              /\ Return(closed, 0)
              /\ UNCHANGED stops
           \/ /\ ~stops.user
              /\ Return(closed, -1)
              /\ UNCHANGED stops
           \/ /\ ~stops.user
              /\ Steps([cfg EXCEPT !.listener = TRUE, !.stack = TRUE, !.evfd = TRUE], "ready")
              /\ UNCHANGED stops

(* The stale stop flag is cleared before the handlers are installed. *)
Ready ==
    /\ RaAt("ready")
    /\ stops' = [stops EXCEPT !.g = FALSE]
    /\ Steps(cfg, "top")

LoopIgnoresUser(s) == ~s.g
LoopRuns(s) == ~s.g /\ ~s.user

(* The loop condition, then the downlink-silence watchdog. *)
Watchdog ==
    /\ RaAt("top")
    /\ IF ~LoopRuns(stops)
         THEN Steps(cfg, "teardown") /\ UNCHANGED stops
         ELSE IF cfg.silent /\ Due(cfg)
                THEN \E c \in Reauthed(cfg) : LostOr(c, "retry")
                ELSE Steps(cfg, "retry") /\ UNCHANGED stops

Retry ==
    /\ RaAt("retry")
    /\ UNCHANGED stops
    /\ IF cfg.reauth_at = "due"
         THEN \E c \in Reauthed(cfg) : Steps(c, "drain")
         ELSE Steps(cfg, "drain")

(* sock_drain_tx, which a broken socket makes the loss of the session; the *)
(* re-authentication that follows looks at no schedule.                    *)
Drain ==
    /\ RaAt("drain")
    /\ UNCHANGED stops
    /\ \E hard \in BOOLEAN :
         IF cfg.session_lost \/ hard
           THEN \E c \in Reauthed([cfg EXCEPT !.session_lost = TRUE]) :
                  IF c.nfd THEN Steps(c, "keepalive")
                    ELSE IF ~c.reauth THEN Steps(c, "teardown")
                    ELSE Steps([c EXCEPT !.session_lost = FALSE], "keepalive")
           ELSE Steps(cfg, "keepalive")

(* send_vpn_keepalive, then the gate on keepalives failed in a row. *)
Keepalive ==
    /\ RaAt("keepalive")
    /\ \E sent \in BOOLEAN :
         LET k == IF ~cfg.ka_due THEN cfg
                  ELSE [cfg EXCEPT !.ka_due = FALSE,
                          !.ka_fail = IF sent THEN 0
                                      ELSE IF @ < SOCKS_KA_FAIL_MAX THEN @ + 1 ELSE @]
         IN  /\ (~cfg.ka_due => sent)
             /\ IF k.ka_fail >= SOCKS_KA_FAIL_MAX /\ Due(k)
                  THEN \E c \in Reauthed(k) : LostOr(c, "receive")
                  ELSE Steps(k, "receive") /\ UNCHANGED stops

Carrying == cfg.alive /\ cfg.sock = cfg.sess

(* accept_connections touches no session state; receive_vpn refreshes      *)
(* last_rx with a frame of the session, or reports a CLOSE or a hard error.*)
Receive ==
    /\ RaAt("receive")
    /\ \/ /\ Steps(cfg, "rest")
          /\ UNCHANGED stops
       \/ /\ Carrying
          /\ Steps([cfg EXCEPT !.silent = FALSE], "rest")
          /\ UNCHANGED stops
       \/ LET lost == [cfg EXCEPT !.session_lost = TRUE]
          IN  IF Due(cfg)
                THEN \E c \in Reauthed(lost) :
                       IF c.nfd THEN Steps(c, "top") /\ UNCHANGED stops
                         ELSE LostOr([c EXCEPT !.session_lost = FALSE], "rest")
                ELSE /\ Steps([lost EXCEPT !.session_lost = FALSE], "rest")
                     /\ UNCHANGED stops

(* The flows, the second sock_drain_tx, and wait_events, which takes a     *)
(* session socket the kernel does not know for a lost session.             *)
Rest ==
    /\ RaAt("rest")
    /\ \E hard \in BOOLEAN :
         LET gone == cfg.sock \notin cfg.open
         IN  /\ Steps([cfg EXCEPT !.session_lost = @ \/ hard \/ gone], "top")
             /\ stops' = [stops EXCEPT !.g = @ \/ gone]

(* The farewell drain may lose the session too; then everything is closed. *)
Teardown ==
    /\ RaAt("teardown")
    /\ UNCHANGED stops
    /\ \E hard \in BOOLEAN :
         LET lost == cfg.session_lost \/ hard
         IN  Return([cfg EXCEPT !.session_lost = lost, !.open = @ \ {cfg.sock},
                                !.listener = FALSE, !.evfd = FALSE],
                    IF lost THEN 1 ELSE 0)

RaLoop == RaStart \/ Ready \/ Watchdog \/ Retry \/ Drain \/ Keepalive \/ Receive
            \/ Rest \/ Teardown

-----------------------------------------------------------------------------
(* on_sig, at any time; the server forgets the session; time passes.       *)
OnSig ==
    /\ stage # "done"
    /\ ~stops.user
    /\ stops' = [g |-> TRUE, user |-> TRUE]
    /\ UNCHANGED <<cfg, stage, rc>>

Forgets ==
    /\ stage # "done"
    /\ cfg.alive
    /\ cfg' = [cfg EXCEPT !.alive = FALSE]
    /\ UNCHANGED <<stage, stops, rc>>

Elapses(c) ==
    /\ stage \notin {"entry", "ready", "teardown", "done"}
    /\ cfg' = c
    /\ cfg' # cfg
    /\ UNCHANGED <<stage, stops, rc>>

BackoffEnds == cfg.reauth_at = "wait" /\ Elapses([cfg EXCEPT !.reauth_at = "due"])
FallsSilent == Elapses([cfg EXCEPT !.silent = TRUE])
KeepaliveDue == Elapses([cfg EXCEPT !.ka_due = TRUE])

RaNext == RaLoop \/ OnSig \/ Forgets \/ BackoffEnds \/ FallsSilent \/ KeepaliveDue

RaFairness ==
    /\ WF_raVars(RaLoop)
    /\ WF_raVars(BackoffEnds)
    /\ WF_raVars(~Carrying /\ FallsSilent)
    /\ SF_raVars(RaLoop /\ Carrying')

RaSpec == RaInit /\ [][RaNext]_raVars /\ RaFairness

-----------------------------------------------------------------------------
(* run_socks owns the session socket from its entry to its return: between *)
(* two stages of the loop exactly one session socket is open and it is the *)
(* one sockfd names, whatever re-authentications, failed rebuilds and      *)
(* failed swaps came before; a return leaves neither it, nor the listener, *)
(* nor the wakeup descriptor open; and a 0, which the caller takes for the *)
(* user's stop, is never returned for a session that was lost (the A-1 and *)
(* R13-M-1 contracts).                                                     *)
SessionOwned ==
    /\ cfg.ka_fail \in 0..SOCKS_KA_FAIL_MAX
    /\ stage # "done" => cfg.open = {cfg.sock}
    /\ stage = "done" => cfg.open = {} /\ ~cfg.listener /\ ~cfg.evfd
    /\ stage = "done" /\ rc = 0 => stops.user

(* The session carries what the user has not ended, or run_socks is over.  *)
Healed == (Carrying /\ ~stops.user) \/ stage = "done"
=============================================================================
