----------------------------- MODULE ClientPump -----------------------------
(***************************************************************************)
(* The TUN client: cmd_proxy's authenticate/run/reconnect loop             *)
(* (iwan_client.c), run_pump with its uplink readers and its downlink      *)
(* thread udp2tun_thread (common/proxy.c), and the process-wide stop       *)
(* handler on_signal, which may run between any two steps of any thread.   *)
(*                                                                         *)
(* A thread that finds the session unusable stores session_lost and then   *)
(* g_stop; the handler stores g_stop and then g_user_stop.  Each store is  *)
(* a step.  Time is the age of the last genuine downlink frame and of the  *)
(* last keepalive, in keepalive periods, both saturating.                  *)
(***************************************************************************)
EXTENDS Integers, FiniteSets

CONSTANTS
    Readers,      \* uplink reader threads of the TUN pool
    KaFailMax,    \* PUMP_KA_FAIL_MAX
    ErrPollMax,   \* PUMP_ERR_POLL_MAX
    StaleMax,     \* IWAN_RX_STALE_MS in keepalive periods; 0 disables
    RxBatch,      \* RX_BATCH, datagrams drained by one recvmmsg
    LocalRoutes   \* {"local"} when the default is among the route targets and
                  \* its device has a subnet to preserve, else {}

ASSUME PumpConstants ==
    /\ IsFiniteSet(Readers)
    /\ KaFailMax \in Nat \ {0} /\ RxBatch \in Nat \ {0}
    /\ ErrPollMax \in Nat /\ StaleMax \in Nat
    /\ LocalRoutes \subseteq {"local"}

VARIABLES
    main,          \* where cmd_proxy / run_pump stands
    reconnecting,  \* cmd_proxy's flag: a session has run before
    rc,            \* run_pump's return value, then the exit code
    handler,       \* on_signal is installed
    sig,           \* the one stop request: "none", "half" (one store), "done"
    g_stop, g_user_stop, session_lost,
    routes,        \* what route_setup put into the host's table: "tunnel", the
                   \* routes that teardown walks (default, server pin, CIDRs);
                   \* "local", the route that preserves the local subnet
    tun,           \* the TUN device exists
    sock,          \* the session socket is open
    alive,         \* frames of this session can still come from the server
    reader,        \* state of each reader thread
    quit,          \* tun_pool_destroy has told the readers to stop
    rx,            \* where udp2tun_thread stands
    left,          \* datagrams of the current batch still to handle
    age, kaAge,    \* time since the last genuine frame, the last keepalive
    kaFail, kaResFail, errPoll   \* consecutive failures

flags   == <<g_stop, g_user_stop, session_lost>>
rxData  == <<left, age, kaAge, kaFail, kaResFail, errPoll>>
env     == <<handler, sig, g_user_stop>>
outside == <<routes, tun, sock, alive, reconnecting, rc>>
vars == <<main, reconnecting, rc, handler, sig, g_stop, g_user_stop,
          session_lost, routes, tun, sock, alive, reader, quit, rx, left,
          age, kaAge, kaFail, kaResFail, errPoll>>

MainStates == {"open", "auth", "entry", "setup", "check", "clear", "create",
               "spawn", "undo", "loop", "probe", "destroy", "pool", "join",
               "finish", "ret", "wait", "backoff", "exited"}

TypeOK ==
    /\ main \in MainStates /\ rc \in -1..1
    /\ {reconnecting, handler, g_stop, g_user_stop, session_lost,
        tun, sock, alive, quit} \subseteq BOOLEAN
    /\ routes \subseteq {"tunnel", "local"}
    /\ sig \in {"none", "half", "done"}
    /\ reader \in [Readers -> {"off", "run", "lost", "done"}]
    /\ rx \in {"off", "start", "top", "recv", "dgram", "lost", "done"}
    /\ left \in 0..RxBatch /\ age \in 0..StaleMax + 1 /\ kaAge \in 0..1
    /\ kaFail \in 0..KaFailMax - 1 /\ kaResFail \in 0..KaFailMax - 1
    /\ errPoll \in 0..ErrPollMax

Init ==
    /\ main = "open" /\ reconnecting = FALSE /\ rc = 0
    /\ handler = FALSE /\ sig = "none"
    /\ g_stop = FALSE /\ g_user_stop = FALSE /\ session_lost = FALSE
    /\ routes = {} /\ tun = FALSE /\ sock = FALSE /\ alive = FALSE
    /\ reader = [r \in Readers |-> "off"] /\ quit = FALSE
    /\ rx = "off" /\ left = 0 /\ age = 0 /\ kaAge = 1
    /\ kaFail = 0 /\ kaResFail = 0 /\ errPoll = 0

ReadersIdle == \A r \in Readers : reader[r] \in {"off", "done"}
Process     == main # "exited"

-----------------------------------------------------------------------------
(* cmd_proxy, around run_pump.                                             *)

Exit(code) == main' = "exited" /\ rc' = code /\ tun' = FALSE

\* open_tun, once, before the reconnect loop.
OpenTun ==
    /\ main = "open"
    /\ \/ main' = "auth" /\ tun' = TRUE /\ UNCHANGED rc
       \/ Exit(1)
    /\ UNCHANGED <<reconnecting, env, g_stop, session_lost, routes, sock,
                   alive, reader, quit, rx, rxData>>

\* authenticate: a failed first attempt ends the client, a failed later one
\* backs off; an ACK with an unusable address ends the client too.
Authenticate ==
    /\ main = "auth"
    /\ \/ main' = "entry" /\ sock' = TRUE /\ alive' = TRUE
          /\ UNCHANGED <<rc, tun>>
       \/ Exit(1) /\ UNCHANGED <<sock, alive>>
       \/ /\ reconnecting
          /\ main' = "backoff" /\ UNCHANGED <<rc, tun, sock, alive>>
    /\ UNCHANGED <<reconnecting, env, g_stop, session_lost, routes, reader,
                   quit, rx, rxData>>

\* The sleeps before another attempt, 3 s after a failed authentication and
\* 1 s after a lost session, and the g_user_stop test that follows each.
Retry ==
    /\ main \in {"backoff", "wait"}
    /\ IF g_user_stop THEN Exit(1) ELSE main' = "auth" /\ UNCHANGED <<rc, tun>>
    /\ UNCHANGED <<reconnecting, env, g_stop, session_lost, routes, sock,
                   alive, reader, quit, rx, rxData>>

\* port_close(sockfd) and the three-state contract of run_pump's result.
Returned ==
    /\ main = "ret"
    /\ sock' = FALSE
    /\ \/ rc = 0 /\ Exit(0) /\ UNCHANGED reconnecting
       \/ rc < 0 /\ Exit(1) /\ UNCHANGED reconnecting
       \/ rc > 0 /\ main' = "wait" /\ reconnecting' = TRUE /\ UNCHANGED <<rc, tun>>
    /\ UNCHANGED <<env, g_stop, session_lost, routes, alive, reader, quit, rx,
                   rxData>>

-----------------------------------------------------------------------------
(* run_pump.                                                               *)

PumpReturns(code) == main' = "ret" /\ rc' = code

\* install_signals comes before any blocking set-up work.
InstallSignals ==
    /\ main = "entry"
    /\ handler' = TRUE /\ main' = "setup"
    /\ UNCHANGED <<sig, flags, outside, reader, quit, rx, rxData>>

\* teardown_routes, and route_setup's own rollback: every list they walk leaves
\* out the route that preserves the local subnet (route_linux.c:238-239).
TeardownRoutes == routes' = routes \ {"tunnel"}

\* The blocking route or interface set-up; every failure rolls itself back.
\* It cannot succeed on a device that is gone.  The local subnet gets a route
\* of its own before the default is taken; set-up may fail before or after.
RouteSetup ==
    /\ main = "setup"
    /\ \/ /\ tun /\ main' = "check" /\ UNCHANGED rc
          /\ routes' = routes \cup {"tunnel"} \cup LocalRoutes
       \/ PumpReturns(-1) /\ routes' \in {routes, routes \cup LocalRoutes}
    /\ UNCHANGED <<env, g_stop, session_lost, reconnecting, tun, sock, alive,
                   reader, quit, rx, rxData>>

\* Mutant: the stop requested during set-up is not looked at.
CheckForgotten ==
    /\ main = "check"
    /\ main' = "clear" /\ UNCHANGED <<rc, routes>>
    /\ UNCHANGED <<env, g_stop, session_lost, reconnecting, tun, sock, alive,
                   reader, quit, rx, rxData>>

\* A stop requested during set-up: tear down and report a user stop.
CheckUserStop ==
    /\ main = "check"
    /\ IF g_user_stop
       THEN PumpReturns(0) /\ TeardownRoutes
       ELSE main' = "clear" /\ UNCHANGED <<rc, routes>>
    /\ UNCHANGED <<env, g_stop, session_lost, reconnecting, tun, sock, alive,
                   reader, quit, rx, rxData>>

\* g_stop = 0 and the fresh pump context.
ClearStop ==
    /\ main = "clear"
    /\ main' = "create" /\ g_stop' = FALSE /\ session_lost' = FALSE
    /\ quit' = FALSE
    /\ UNCHANGED <<env, outside, reader, rx, rxData>>

\* tun_pool_create starts the readers, or fails and undoes the routes (an
\* unusable tunnel address, tested just before it, does the same).
CreatePool ==
    /\ main = "create"
    /\ \/ /\ reader' = [r \in Readers |-> "run"]
          /\ main' = "spawn" /\ UNCHANGED <<rc, routes>>
       \/ PumpReturns(-1) /\ TeardownRoutes /\ UNCHANGED reader
    /\ UNCHANGED <<env, g_stop, session_lost, reconnecting, tun, sock, alive,
                   quit, rx, rxData>>

\* pthread_create of udp2tun_thread; failing stops and destroys the pool.
SpawnRx ==
    /\ main = "spawn"
    /\ \/ /\ main' = "loop" /\ rx' = "start"
          /\ age' = 0 /\ kaAge' = 1 /\ kaFail' = 0 /\ kaResFail' = 0
          /\ errPoll' = 0 /\ left' = 0
          /\ UNCHANGED <<g_stop, quit>>
       \/ main' = "undo" /\ g_stop' = TRUE /\ quit' = TRUE
          /\ UNCHANGED <<rx, rxData>>
    /\ UNCHANGED <<env, session_lost, outside, reader>>

\* Mutants: the failure path forgets the routes; it does not join the pool.
UndoKeepsRoutes ==
    /\ main = "undo" /\ ReadersIdle
    /\ PumpReturns(-1)
    /\ UNCHANGED <<env, g_stop, session_lost, routes, reconnecting, tun, sock,
                   alive, reader, quit, rx, rxData>>

UndoKeepsPool ==
    /\ main = "undo"
    /\ PumpReturns(-1) /\ TeardownRoutes
    /\ UNCHANGED <<env, g_stop, session_lost, reconnecting, tun, sock, alive,
                   reader, quit, rx, rxData>>

\* The failure path: the pool has joined its readers, the routes go.
UndoSpawn ==
    /\ main = "undo" /\ ReadersIdle
    /\ PumpReturns(-1) /\ TeardownRoutes
    /\ UNCHANGED <<env, g_stop, session_lost, reconnecting, tun, sock, alive,
                   reader, quit, rx, rxData>>

\* while (!g_stop && !g_user_stop) and its 100 ms sleep.
LoopTest ==
    /\ main = "loop"
    /\ main' = IF g_stop \/ g_user_stop THEN "destroy" ELSE "probe"
    /\ UNCHANGED <<env, g_stop, session_lost, outside, reader, quit, rx, rxData>>

\* if_nametoindex: a device that is gone is a lost session.
ProbeDevice ==
    /\ main = "probe"
    /\ main' = "loop"
    /\ IF ~session_lost /\ ~tun
       THEN session_lost' = TRUE /\ g_stop' = TRUE
       ELSE UNCHANGED <<session_lost, g_stop>>
    /\ UNCHANGED <<env, outside, reader, quit, rx, rxData>>

\* tun_pool_destroy marks every queue stopped, then joins the readers.
DestroyPool ==
    /\ \/ main = "destroy" /\ main' = "pool" /\ quit' = TRUE
       \/ main = "pool" /\ ReadersIdle /\ main' = "join" /\ UNCHANGED quit
    /\ UNCHANGED <<env, g_stop, session_lost, outside, reader, rx, rxData>>

\* pthread_join(t2).
JoinRx ==
    /\ main = "join" /\ rx = "done"
    /\ main' = "finish"
    /\ UNCHANGED <<env, g_stop, session_lost, outside, reader, quit, rx, rxData>>

\* teardown_routes, then CLOSE to the server, then the result.
FinishPump ==
    /\ main = "finish"
    /\ PumpReturns(IF session_lost THEN 1 ELSE 0)
    /\ TeardownRoutes /\ alive' = FALSE
    /\ UNCHANGED <<env, g_stop, session_lost, reconnecting, tun, sock, reader,
                   quit, rx, rxData>>

Main ==
    \/ OpenTun \/ Authenticate \/ Retry \/ Returned \/ InstallSignals
    \/ RouteSetup \/ CheckUserStop \/ ClearStop \/ CreatePool \/ SpawnRx
    \/ UndoSpawn \/ LoopTest \/ ProbeDevice \/ DestroyPool \/ JoinRx
    \/ FinishPump

-----------------------------------------------------------------------------
(* Uplink readers: pump_tun_pkt, pump_tx_send, send_batch.                 *)

\* A hard sendmmsg error or a failed batch allocation stores session_lost;
\* transient errors and refused datagrams only drop frames.  The stop flag
\* was read before the send, so it may be set by now.
ReaderFatal(r) ==
    /\ reader[r] = "run"
    /\ session_lost' = TRUE
    /\ reader' = [reader EXCEPT ![r] = "lost"]
    /\ UNCHANGED <<main, env, g_stop, outside, quit, rx, rxData>>

\* ... and then g_stop, which its own loop sees next.
ReaderStops(r) ==
    /\ reader[r] = "lost"
    /\ g_stop' = TRUE
    /\ reader' = [reader EXCEPT ![r] = "done"]
    /\ UNCHANGED <<main, env, session_lost, outside, quit, rx, rxData>>

\* The reader loop ends on g_stop, on its queue's stop mark, or with the
\* device (which is not reported as a loss here: ProbeDevice does that).
ReaderExit(r) ==
    /\ reader[r] = "run" /\ (g_stop \/ quit \/ ~tun)
    /\ reader' = [reader EXCEPT ![r] = "done"]
    /\ UNCHANGED <<main, env, g_stop, session_lost, outside, quit, rx, rxData>>

Reader(r) == ReaderFatal(r) \/ ReaderStops(r) \/ ReaderExit(r)

-----------------------------------------------------------------------------
(* udp2tun_thread.                                                         *)

rest == <<main, env, g_stop, outside, reader, quit>>

\* Mutant: a stop without its reason.
RxLosesUnsaid == rx' = "lost" /\ UNCHANGED <<session_lost, rxData>>

\* The first of the two stores of a detected loss; RxStops is the second.
RxLoses == rx' = "lost" /\ session_lost' = TRUE /\ UNCHANGED rxData

RxStops ==
    /\ rx = "lost"
    /\ g_stop' = TRUE /\ rx' = "done"
    /\ UNCHANGED <<main, env, session_lost, outside, reader, quit, rxData>>

\* The receive buffers.
RxStart ==
    /\ rx = "start"
    /\ \/ rx' = "top" /\ UNCHANGED <<session_lost, rxData>>
       \/ RxLoses
    /\ UNCHANGED rest

Stale == StaleMax # 0 /\ age > StaleMax

\* One more failure of a send that tolerates KaFailMax - 1 in a row.
Fails(n) == n + 1 >= KaFailMax

\* The loop head: the stop flag, the stale watchdog, then the keepalive.
RxTop ==
    /\ rx = "top"
    /\ \/ g_stop /\ rx' = "done" /\ UNCHANGED <<session_lost, rxData>>
       \/ ~g_stop /\ Stale /\ RxLoses
       \/ /\ ~g_stop /\ ~Stale /\ kaAge = 0
          /\ rx' = "recv" /\ UNCHANGED <<session_lost, rxData>>
       \/ /\ ~g_stop /\ ~Stale /\ kaAge > 0
          /\ rx' = "recv" /\ kaAge' = 0 /\ kaFail' = 0
          /\ UNCHANGED <<session_lost, left, age, kaResFail, errPoll>>
       \/ /\ ~g_stop /\ ~Stale /\ kaAge > 0
          /\ IF Fails(kaFail)
             THEN RxLoses
             ELSE /\ rx' = "recv" /\ kaAge' = 0 /\ kaFail' = kaFail + 1
                  /\ UNCHANGED <<session_lost, left, age, kaResFail, errPoll>>
    /\ UNCHANGED rest

\* recvmmsg: a batch; an empty queue and the poll that follows (clean, error
\* bits without data, or fatal); a one-shot error; or a fatal error.
RxRecv ==
    /\ rx = "recv"
    /\ \/ /\ rx' = "dgram" /\ left' \in 1..RxBatch /\ errPoll' = 0
          /\ UNCHANGED <<session_lost, age, kaAge, kaFail, kaResFail>>
       \/ /\ rx' = "top" /\ errPoll' = 0
          /\ UNCHANGED <<session_lost, left, age, kaAge, kaFail, kaResFail>>
       \/ IF errPoll + 1 > ErrPollMax
          THEN RxLoses
          ELSE /\ rx' = "top" /\ errPoll' = errPoll + 1
               /\ UNCHANGED <<session_lost, left, age, kaAge, kaFail, kaResFail>>
       \/ rx' = "top" /\ UNCHANGED <<session_lost, rxData>>
       \/ RxLoses
    /\ UNCHANGED rest

\* The next datagram of the batch, or back to the loop head.
NextDatagram == rx' = (IF left = 1 THEN "top" ELSE "dgram") /\ left' = left - 1

\* Mutant: any datagram refreshes the stale clock.
RxForeignCounts ==
    /\ rx = "dgram"
    /\ NextDatagram /\ age' = 0
    /\ UNCHANGED <<session_lost, kaAge, kaFail, kaResFail, errPoll, rest>>

\* A datagram that fails the length, session id or token test.
RxForeign ==
    /\ rx = "dgram"
    /\ NextDatagram
    /\ UNCHANGED <<session_lost, age, kaAge, kaFail, kaResFail, errPoll, rest>>

\* A genuine frame refreshes the stale clock, whatever it is; one with a bad
\* signature, type, encryption state or inner header does nothing more, and
\* one whose TUN write succeeds or finds the device busy neither.
RxGenuine ==
    /\ rx = "dgram" /\ alive
    /\ NextDatagram /\ age' = 0
    /\ UNCHANGED <<session_lost, kaAge, kaFail, kaResFail, errPoll, rest>>

\* A TUN write that gave up because of a stop flag leaves the batch.
RxWriteStopped ==
    /\ rx = "dgram" /\ alive /\ (g_stop \/ g_user_stop)
    /\ rx' = "top" /\ left' = 0 /\ age' = 0
    /\ UNCHANGED <<session_lost, kaAge, kaFail, kaResFail, errPoll, rest>>

\* ECHO_REQ from the server: the answer is sent, or fails once more.
RxEcho ==
    /\ rx = "dgram" /\ alive
    /\ \/ /\ NextDatagram /\ age' = 0 /\ kaResFail' = 0
          /\ UNCHANGED <<session_lost, kaAge, kaFail, errPoll>>
       \/ /\ ~Fails(kaResFail)
          /\ NextDatagram /\ age' = 0 /\ kaResFail' = kaResFail + 1
          /\ UNCHANGED <<session_lost, kaAge, kaFail, errPoll>>
       \/ Fails(kaResFail) /\ RxLoses
    /\ UNCHANGED rest

\* A verified CLOSE, or a TUN write the device refused for good.
RxEnds ==
    /\ rx = "dgram" /\ alive
    /\ RxLoses
    /\ UNCHANGED rest

Rx == \/ RxStart \/ RxTop \/ RxRecv \/ RxForeign \/ RxGenuine
      \/ RxWriteStopped \/ RxEcho \/ RxEnds \/ RxStops

-----------------------------------------------------------------------------
(* Around the process.                                                     *)

\* SIGINT, SIGTERM or SIGHUP.  Without the handler the process dies at once;
\* on_signal's first store is g_stop.
Signal ==
    /\ sig = "none"
    /\ IF handler
       THEN /\ sig' = "half" /\ g_stop' = TRUE
            /\ UNCHANGED <<main, rc, tun>>
       ELSE sig' = "done" /\ Exit(1) /\ UNCHANGED g_stop
    /\ UNCHANGED <<reconnecting, handler, g_user_stop, session_lost, routes,
                   sock, alive, reader, quit, rx, rxData>>

\* on_signal's second store.
SignalUser ==
    /\ sig = "half"
    /\ sig' = "done" /\ g_user_stop' = TRUE
    /\ UNCHANGED <<main, handler, g_stop, session_lost, outside, reader, quit,
                   rx, rxData>>

\* The server purges the session or reboots, and its last frames are read.
ServerForgets ==
    /\ alive /\ alive' = FALSE
    /\ UNCHANGED <<main, env, g_stop, session_lost, routes, tun, sock,
                   reconnecting, rc, reader, quit, rx, rxData>>

\* ip link del, a network namespace going away, the driver unloading.
DeviceVanishes ==
    /\ tun /\ tun' = FALSE
    /\ UNCHANGED <<main, env, g_stop, session_lost, routes, alive, sock,
                   reconnecting, rc, reader, quit, rx, rxData>>

\* A keepalive period passes.
Tick ==
    /\ rx \notin {"off", "done"}
    /\ kaAge' = 1
    /\ age' = IF age > StaleMax THEN age ELSE age + 1
    /\ UNCHANGED <<session_lost, left, kaFail, kaResFail, errPoll, rx, rest>>

Exited == main = "exited" /\ UNCHANGED vars

Next ==
    \/ /\ Process
       /\ \/ Main \/ Rx \/ \E r \in Readers : Reader(r)
          \/ Signal \/ SignalUser
          \/ ServerForgets \/ DeviceVanishes \/ Tick
    \/ Exited

Spec == Init /\ [][Next]_vars

\* Every thread keeps running, a handler that began ends, and time passes.
\* Nothing is assumed of the server, of the network or of the user.
Fairness ==
    /\ WF_vars(Process /\ Main)
    /\ WF_vars(Process /\ Rx)
    /\ \A r \in Readers : WF_vars(Process /\ (ReaderStops(r) \/ ReaderExit(r)))
    /\ WF_vars(Process /\ SignalUser)
    /\ WF_vars(Process /\ Tick)

FairSpec == Spec /\ Fairness

-----------------------------------------------------------------------------
(* Properties.                                                             *)

\* No teardown is skipped: once the client is gone, by whatever way (cmd_proxy's
\* breaks, run_pump's failure paths, the default disposition of a signal before
\* install_signals), none of the routes that route_teardown walks is left.  The
\* route that preserves the local subnet may be, although proxy.c:1484-1486 has
\* it rolled back with the others.
RoutesRestored == main = "exited" => routes \subseteq {"local"}

\* The three-state contract of run_pump: exit code 0 means the user asked.
\* A pump that stopped by itself never passes for a user stop, so every
\* writer of g_stop other than on_signal has stored session_lost first, or
\* returns -1.
CleanExitIsUserStop == main = "exited" /\ rc = 0 => sig # "none"

\* Nobody uses the session socket after cmd_proxy has closed it: the readers
\* and udp2tun_thread are over on every path that returns from run_pump.  With the types.
SocketOutlivesThreads ==
    /\ TypeOK
    /\ ~sock => ReadersIdle /\ rx \in {"off", "done"}

\* run_pump undoes what it did: the routes come back, no thread outlives the
\* socket it uses, and the exit code is 0 only for a stop the user asked for
\* (run_pump, cmd_proxy).
PumpAccounted == RoutesRestored /\ CleanExitIsUserStop /\ SocketOutlivesThreads

\* A stop that both flags record outside the window between run_pump's test
\* of g_user_stop and its g_stop = 0 ends the client.
StopHonoured ==
    (g_stop /\ g_user_stop /\ main # "clear") ~> (main = "exited")

\* No zombie: a session the server has forgotten is noticed, even while
\* frames of other sessions keep arriving at the socket.
ForgottenNoticed ==
    (main = "loop" /\ ~alive) ~> (main \notin {"loop", "probe"})

\* proxy.c:1479-1481: "The loop condition also watches g_user_stop, so even a
\* stop that lands in the tiny window between this check and the loop start
\* is honored."
WindowStopHonoured == g_user_stop ~> (main = "exited")
=============================================================================
