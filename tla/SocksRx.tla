------------------------------ MODULE SocksRx ------------------------------
(***************************************************************************)
(* The downlink of the SOCKS client: receive_vpn and its handlers          *)
(* (src/common/socks.c) over the zero-copy RX pool of the lwIP bridge      *)
(* (src/common/lwip_bridge.c).  receive_vpn takes buffers from the pool,   *)
(* lets recvmmsg fill some of them, and for every one of them decides      *)
(* whether it goes back to the pool or to lwIP, which frees it later.      *)
(*                                                                         *)
(* A datagram is what the code makes of it.  "spent": it ends with its     *)
(* handler - too short or truncated, another session's sid or token, a     *)
(* control frame with a wrong signature, an echo, data the mode, length or *)
(* address checks refuse, or a tunnel DNS answer.  "close": the session's  *)
(* CLOSE.  The rest reaches lwIP: "nobuf" finds no pbuf, "ahead" is a      *)
(* segment out of order, which lwIP keeps until the gap before it is       *)
(* filled, "fill" fills it.                                                *)
(***************************************************************************)
EXTENDS Integers, Sequences

CONSTANTS NS_RX_POOL,  \* buffers of the pool
          RX_VLEN,     \* buffers one recvmmsg may fill
          RxBudget,    \* datagrams one call handles before it yields
          RxLen        \* bound on the datagrams that arrive

VARIABLES inbox,       \* datagrams waiting in the session socket
          g_rx_free,   \* the free list, as a sequence
          bufs,        \* rx_bufs: what this pass acquired
          got,         \* the datagrams recvmmsg put into a prefix of bufs
          held,        \* slots in lwIP's out-of-order queues, as a sequence
          rx           \* [pc, budget, copy, full]: where receive_vpn is

rxVars == <<inbox, g_rx_free, bufs, got, held, rx>>

RxKinds == {"spent", "close", "nobuf", "ahead", "fill"}

RxSlots == 1..NS_RX_POOL

ASSUME RxConstants ==
    NS_RX_POOL \in Nat /\ RX_VLEN \in Nat \ {0} /\ RxBudget \in Nat /\ RxLen \in Nat

\* rx_pool_init pushes the slots in turn.
RxInit ==
    /\ inbox \in UNION {[1..n -> RxKinds] : n \in 0..RxLen}
    /\ g_rx_free = [i \in RxSlots |-> NS_RX_POOL + 1 - i]
    /\ bufs = <<>>
    /\ got = <<>>
    /\ held = <<>>
    /\ rx = [pc |-> "away", budget |-> 0, copy |-> FALSE, full |-> FALSE]

-----------------------------------------------------------------------------
(* ns_rx_buf_release pushes on the free list; nothing checks whether the   *)
(* slot is there already.                                                  *)
RxRelease(free, s) == s \o free

Takes(n) == SubSeq(g_rx_free, 1, n)

SmallerOf(a, b) == IF a < b THEN a ELSE b

ReceiveReturns(r) == rx' = [rx EXCEPT !.pc = r]

(* The event loop calls receive_vpn every round. *)
RxCall ==
    /\ rx.pc = "away"
    /\ inbox # <<>>
    /\ rx' = [rx EXCEPT !.pc = "acquire", !.budget = RxBudget, !.copy = FALSE]
    /\ UNCHANGED <<inbox, g_rx_free, bufs, got, held>>

(* With the pool exhausted the call gives up until lwIP frees a slot. *)
AcquireOrLeave ==
    /\ rx.pc = "acquire"
    /\ UNCHANGED <<inbox, got, held>>
    /\ LET n == SmallerOf(RX_VLEN, Len(g_rx_free))
       IN  /\ bufs' = Takes(n)
           /\ g_rx_free' = SubSeq(g_rx_free, n + 1, Len(g_rx_free))
           /\ IF rx.budget <= 0 \/ n = 0
                THEN ReceiveReturns("away")
                ELSE ReceiveReturns("recv")

(* ns_rx_buf_acquire, or the scratch buffers of the copying drain, which a *)
(* call that finds the pool empty keeps to until it returns.               *)
Acquire ==
    /\ rx.pc = "acquire"
    /\ UNCHANGED <<inbox, got, held>>
    /\ IF rx.budget <= 0
         THEN ReceiveReturns("away") /\ UNCHANGED <<g_rx_free, bufs>>
         ELSE LET n == IF rx.copy THEN 0 ELSE SmallerOf(RX_VLEN, Len(g_rx_free))
              IN  /\ bufs' = Takes(n)
                  /\ g_rx_free' = SubSeq(g_rx_free, n + 1, Len(g_rx_free))
                  /\ rx' = [rx EXCEPT !.pc = "recv", !.copy = (n = 0)]

(* recvmmsg: it fills a prefix of the buffers, finds nothing, or fails     *)
(* hard; the last two give back everything that was acquired.              *)
Recv ==
    /\ rx.pc = "recv"
    /\ UNCHANGED held
    /\ \/ /\ inbox # <<>>
          /\ LET room == IF rx.copy THEN RX_VLEN ELSE Len(bufs)
                 v == SmallerOf(room, Len(inbox))
             IN  /\ got' = SubSeq(inbox, 1, v)
                 /\ inbox' = SubSeq(inbox, v + 1, Len(inbox))
                 /\ rx' = [rx EXCEPT !.pc = "handle", !.budget = @ - v,
                                     !.full = (v = room)]
          /\ UNCHANGED <<g_rx_free, bufs>>
       \/ /\ g_rx_free' = RxRelease(g_rx_free, bufs)
          /\ bufs' = <<>>
          /\ UNCHANGED <<inbox, got>>
          /\ \/ inbox = <<>> /\ ReceiveReturns("away")
             \/ ReceiveReturns("lost")

-----------------------------------------------------------------------------
(* A handler that leaves a buffer lwIP refused to its caller as well. *)
HandledTwice(d) == CASE d = "close" -> -1
                     [] d \in {"ahead", "fill"} -> 1
                     [] OTHER -> 0

(* vpn_handle_datagram: -1 the session is over, 0 the caller releases the  *)
(* buffer, 1 it has gone to lwIP, or was released on the way there.        *)
Handled(d) == CASE d = "close" -> -1
                [] d \in {"nobuf", "ahead", "fill"} -> 1
                [] OTHER -> 0

(* ns_rx_packet_ref: what lwIP keeps of the buffers b and what it frees. A *)
(* copying drain has no buffer to give.                                    *)
ToLwip(d, b) ==
    CASE d = "nobuf" -> [held |-> held, freed |-> b]
      [] d = "ahead" -> [held |-> held \o b, freed |-> <<>>]
      [] d = "fill"  -> [held |-> <<>>, freed |-> b \o held]
      [] OTHER       -> [held |-> held, freed |-> <<>>]

RxCurrent == SubSeq(bufs, 1, IF bufs = <<>> THEN 0 ELSE 1)
Others == SubSeq(bufs, 2, Len(bufs))

(* A CLOSE that leaks the buffer it came in. *)
RxClosedLeaks ==
    /\ g_rx_free' = RxRelease(g_rx_free, Others)
    /\ bufs' = <<>>
    /\ got' = <<>>
    /\ UNCHANGED held
    /\ ReceiveReturns("lost")

(* The session is over: this buffer and all the others are released. *)
RxClosed ==
    /\ g_rx_free' = RxRelease(g_rx_free, RxCurrent \o Others)
    /\ bufs' = <<>>
    /\ got' = <<>>
    /\ UNCHANGED held
    /\ ReceiveReturns("lost")

(* After the last datagram what recvmmsg did not fill is released; only a  *)
(* pass that filled everything is followed by another.                     *)
Dispatched(d) ==
    LET lw == ToLwip(d, RxCurrent)
        back == lw.freed \o (IF Handled(d) = 0 THEN RxCurrent ELSE <<>>)
        last == Len(got) = 1
    IN  /\ held' = lw.held
        /\ got' = Tail(got)
        /\ g_rx_free' = RxRelease(g_rx_free, back \o (IF last THEN Others ELSE <<>>))
        /\ bufs' = IF last THEN <<>> ELSE Others
        /\ ReceiveReturns(CASE ~last -> "handle"
                            [] last /\ rx.full -> "acquire"
                            [] OTHER -> "away")

Handle ==
    /\ rx.pc = "handle"
    /\ UNCHANGED inbox
    /\ IF Handled(Head(got)) < 0 THEN RxClosed ELSE Dispatched(Head(got))

(* The event loop authenticates again; a rebuilt stack frees what it held, *)
(* one that is kept does not.  The pool is the process's, not a session's. *)
Resume ==
    /\ rx.pc = "lost"
    /\ UNCHANGED <<inbox, bufs, got>>
    /\ ReceiveReturns("away")
    /\ \/ UNCHANGED <<held, g_rx_free>>
       \/ /\ held # <<>>
          /\ held' = <<>>
          /\ g_rx_free' = RxRelease(g_rx_free, held)

RxNext == RxCall \/ Acquire \/ Recv \/ Handle \/ Resume

(* The event loop goes round, and the socket does not fail every time.     *)
RxFairness == WF_rxVars(RxNext) /\ SF_rxVars(Recv /\ inbox' # inbox)

RxSpec == RxInit /\ [][RxNext]_rxVars /\ RxFairness

-----------------------------------------------------------------------------
\* The slots of a sequence, and that none is in it twice.
RxIn(q) == {q[i] : i \in DOMAIN q}
RxOnce(q) == \A i, j \in DOMAIN q : q[i] = q[j] => i = j

(* Every buffer of the RX pool has exactly one owner - the free list, the  *)
(* pass of receive_vpn that acquired it, or lwIP - and is there once,      *)
(* whatever the datagrams were and wherever a CLOSE or a socket error      *)
(* ended the pass (M9); nothing stays with receive_vpn when it returns.    *)
PoolExact ==
    /\ RxOnce(g_rx_free) /\ RxOnce(bufs) /\ RxOnce(held)
    /\ RxIn(g_rx_free) \intersect RxIn(bufs) = {}
    /\ RxIn(g_rx_free) \intersect RxIn(held) = {}
    /\ RxIn(bufs) \intersect RxIn(held) = {}
    /\ RxIn(g_rx_free) \union RxIn(bufs) \union RxIn(held) = RxSlots
    /\ rx.pc \in {"away", "lost"} => bufs = <<>> /\ got = <<>>
=============================================================================
