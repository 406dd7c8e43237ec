---------------------------- MODULE ConnectLoop ----------------------------
(***************************************************************************)
(* The reconnect loops around run_socks and run_pump that ClientPump does  *)
(* not have: cmd_socks (iwan_client.c) and oidc_connect_server             *)
(* (oidc/oidc_connect.c) in its SOCKS and its TUN mode.  What matters is   *)
(* who owns the session socket, which disposition Ctrl-C meets while the   *)
(* loop authenticates, runs or sleeps, and the exit code.                  *)
(*                                                                         *)
(* The session itself is SocksReauth's and ClientPump's: here run_socks    *)
(* and run_pump start, run, and return 0, 1 or -1 by their contracts.  The *)
(* user may press Ctrl-C between any two steps.                            *)
(***************************************************************************)
EXTENDS Integers

CONSTANTS MaxLoops      \* sessions started, after which none starts again

VARIABLES prog,         \* "socks", "oidc_socks", "oidc_tun"
          lpc,          \* where the loop stands
          disp,         \* the disposition of SIGINT
          old_sa,       \* [loop, run]: dispositions saved by the two installs
          user_stop,    \* g_user_stop
          session_sock, \* "none", "open", or "twice" once closed twice
          sess,         \* run_socks/run_pump's result and cmd_socks's flags
          res,          \* [tun, rp] held by oidc_connect_server
          loops,        \* sessions started so far
          code          \* exit code, -1 while the process lives

clVars == <<prog, lpc, disp, old_sa, user_stop, session_sock, sess, res, loops, code>>

Handled == {"on_sig", "on_signal"}

ClInit ==
    /\ prog \in {"socks", "oidc_socks", "oidc_tun"} /\ lpc = "enter"
    /\ disp \in {"default", "ignored"}
    /\ old_sa = [loop |-> disp, run |-> disp]
    /\ user_stop = FALSE /\ session_sock = "none" /\ loops = 0 /\ code = -1
    /\ sess = [rc |-> 0, reconnecting |-> FALSE, ran |-> FALSE,
               saw_fail |-> FALSE]
    /\ res = [tun |-> FALSE, rp |-> FALSE]

\* Process exit; the kernel takes back what is still open.
Leaves(c) == lpc' = "exited" /\ code' = c

PortClose == session_sock' = IF session_sock = "open" THEN "none" ELSE "twice"

\* The TUN device and the optional side-car of oidc_connect_server, which the
\* tunnel does without when it cannot start.
Prepare ==
    /\ lpc = "enter"
    /\ IF prog = "oidc_tun"
       THEN \/ Leaves(1) /\ UNCHANGED res
            \/ /\ \E side \in BOOLEAN : res' = [tun |-> TRUE, rp |-> side]
               /\ lpc' = "install" /\ UNCHANGED code
       ELSE lpc' = "install" /\ UNCHANGED <<res, code>>
    /\ UNCHANGED <<prog, disp, old_sa, user_stop, session_sock, sess, loops>>

InstallNone == UNCHANGED <<disp, old_sa>>
\* R36-L01: on_sig is held across the whole loop.
Install == disp' = "on_sig" /\ old_sa' = [old_sa EXCEPT !.loop = disp]

EnterLoop ==
    /\ lpc = "install" /\ Install /\ lpc' = "auth"
    /\ UNCHANGED <<prog, user_stop, session_sock, sess, res, loops, code>>

\* authenticate: a failed first attempt ends the client, a failed later one
\* backs off.  OIDC first decrypts the stored password, which may fail.
AuthStep ==
    /\ lpc = "auth"
    /\ \/ lpc' = "run" /\ session_sock' = "open" /\ UNCHANGED code
       \/ (prog # "socks" \/ ~sess.reconnecting) /\ Leaves(1) /\ UNCHANGED session_sock
       \/ sess.reconnecting /\ lpc' = "backoff" /\ UNCHANGED <<session_sock, code>>
    /\ UNCHANGED <<prog, disp, old_sa, user_stop, sess, res, loops>>

BackoffIgnoresStop == lpc' = "auth" /\ UNCHANGED code
\* The 3 s sleep after a failed authentication, and the test after it.
BackoffEnds ==
    IF user_stop
    THEN IF prog = "socks" THEN Leaves(1) ELSE lpc' = "end" /\ UNCHANGED code
    ELSE lpc' = "auth" /\ UNCHANGED code

Backoff ==
    /\ lpc = "backoff" /\ BackoffEnds
    /\ UNCHANGED <<prog, disp, old_sa, user_stop, session_sock, sess, res, loops>>

Returns(rc) == lpc' = "ret" /\ sess' = [sess EXCEPT !.rc = rc]

\* An ACK with an unusable address: cmd_socks closes the socket and returns,
\* run_socks_mode closes it and reports a failure, run_pump's caller closes it.
BadAddress ==
    /\ lpc = "run"
    /\ \/ prog = "socks" /\ PortClose /\ Leaves(1) /\ UNCHANGED sess
       \/ prog = "oidc_socks" /\ PortClose /\ Returns(-1) /\ UNCHANGED code
       \/ prog = "oidc_tun" /\ Returns(-1) /\ UNCHANGED <<session_sock, code>>
    /\ UNCHANGED <<prog, disp, old_sa, user_stop, res, loops>>

\* run_socks owns the socket from its entry: a stop already pressed, a failed
\* start, or the session runs under its own handler.
RunSocks ==
    /\ lpc = "run" /\ prog # "oidc_tun"
    /\ \/ user_stop /\ PortClose /\ Returns(0) /\ UNCHANGED <<disp, old_sa, loops>>
       \/ /\ ~user_stop /\ PortClose /\ Returns(-1)
          /\ UNCHANGED <<disp, old_sa, loops>>
       \/ /\ ~user_stop /\ loops < MaxLoops
          /\ disp' = "on_sig" /\ old_sa' = [old_sa EXCEPT !.run = disp]
          /\ UNCHANGED sess
          /\ lpc' = "running" /\ loops' = loops + 1 /\ UNCHANGED session_sock
    /\ UNCHANGED <<prog, user_stop, res, code>>

\* Its loop ended, on the user's stop or on a lost session.
SocksEnds ==
    /\ lpc = "running" /\ prog # "oidc_tun"
    /\ PortClose /\ disp' = old_sa.run
    /\ \/ user_stop /\ Returns(0)
       \/ Returns(1)
    /\ UNCHANGED <<prog, old_sa, user_stop, res, loops, code>>

\* run_pump installs a handler for the process's life and leaves the socket
\* to its caller.
RunPump ==
    /\ lpc = "run" /\ prog = "oidc_tun"
    /\ disp' = "on_signal"
    /\ \/ Returns(-1) /\ UNCHANGED loops
       \/ user_stop /\ Returns(0) /\ UNCHANGED loops
       \/ /\ ~user_stop /\ loops < MaxLoops
          /\ UNCHANGED sess
          /\ lpc' = "running" /\ loops' = loops + 1
    /\ UNCHANGED <<prog, old_sa, user_stop, session_sock, res, code>>

RunPumpEnds ==
    /\ lpc = "running" /\ prog = "oidc_tun"
    /\ \/ user_stop /\ Returns(0)
       \/ Returns(1)
    /\ UNCHANGED <<prog, disp, old_sa, user_stop, session_sock, res, loops, code>>

CallerAlwaysCloses == PortClose
\* Only run_pump's caller closes the socket.
CallerCloses == IF prog = "oidc_tun" THEN PortClose ELSE UNCHANGED session_sock

\* The three-state result: a clean stop, a lost session, a failed start, which
\* only cmd_socks tries again.
Judge ==
    /\ lpc = "ret" /\ CallerCloses
    /\ sess' = [sess EXCEPT !.ran = @ \/ sess.rc >= 0,
                            !.saw_fail = @ \/ sess.rc < 0,
                            !.reconnecting = @ \/ sess.rc # 0]
    /\ \/ sess.rc = 0 /\ lpc' = "end" /\ UNCHANGED code
       \/ sess.rc < 0 /\ prog # "socks" /\ Leaves(1)
       \/ /\ sess.rc = 1 \/ (sess.rc < 0 /\ prog = "socks")
          /\ lpc' = "wait" /\ UNCHANGED code
    /\ UNCHANGED <<prog, disp, old_sa, user_stop, res, loops>>

\* The 1 s sleep, and the test of g_user_stop after it.
WaitStep ==
    /\ lpc = "wait" /\ lpc' = IF user_stop THEN "end" ELSE "auth"
    /\ UNCHANGED <<prog, disp, old_sa, user_stop, session_sock, sess, res, loops, code>>

\* After the loop: the dispositions, then the side-car and the device.
EndLoop ==
    /\ lpc = "end" /\ lpc' = "teardown" /\ disp' = old_sa.loop
    /\ UNCHANGED <<prog, old_sa, user_stop, session_sock, sess, res, loops, code>>

Teardown ==
    /\ lpc = "teardown" /\ res' = [tun |-> FALSE, rp |-> FALSE]
    /\ Leaves(IF prog = "socks" /\ sess.saw_fail /\ ~sess.ran THEN 1 ELSE 0)
    /\ UNCHANGED <<prog, disp, old_sa, user_stop, session_sock, sess, loops>>

\* The user presses Ctrl-C.
CtrlC ==
    /\ code = -1
    /\ \/ /\ disp \in Handled /\ ~user_stop
          /\ user_stop' = TRUE /\ UNCHANGED <<lpc, code>>
       \/ disp = "default" /\ Leaves(130) /\ UNCHANGED user_stop
    /\ UNCHANGED <<prog, disp, old_sa, session_sock, sess, res, loops>>

ClStep ==
    \/ Prepare \/ EnterLoop \/ AuthStep \/ Backoff \/ BadAddress \/ RunSocks
    \/ SocksEnds \/ RunPump \/ RunPumpEnds \/ Judge \/ WaitStep \/ EndLoop
    \/ Teardown

ClNext == ClStep \/ CtrlC

\* The loop's own steps happen; the session ends when the user stops it.
ClSpec ==
    /\ ClInit /\ [][ClNext]_clVars
    /\ WF_clVars(lpc # "running" /\ ClStep)
    /\ WF_clVars(user_stop /\ ClStep)

-----------------------------------------------------------------------------
\* The session socket is closed exactly once, by run_socks or by run_pump's
\* caller, before the loop sleeps or ends; from the first authentication to
\* the end of the loop Ctrl-C meets a handler, in the sleeps too; the exit
\* code is 0 only if the user stopped the client, and then the device and the
\* side-car are gone.
LoopOwns ==
    /\ session_sock \in {"none", "open"}
    /\ lpc \in {"auth", "backoff", "wait", "end"} => session_sock = "none"
    /\ lpc \in {"auth", "run", "running", "ret", "backoff", "wait", "end"}
          => disp \in Handled
    /\ code = 0 => /\ user_stop /\ disp \notin Handled
                   /\ res = [tun |-> FALSE, rp |-> FALSE]
=============================================================================
