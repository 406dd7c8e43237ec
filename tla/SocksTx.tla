------------------------------ MODULE SocksTx ------------------------------
(***************************************************************************)
(* The uplink queue of the SOCKS client: the device queue of the lwIP      *)
(* bridge (src/common/lwip_bridge.c) that bridge_output_frame fills, and   *)
(* sock_drain_tx (src/common/socks.c), which empties it and puts back what *)
(* the socket would not take.                                              *)
(*                                                                         *)
(* The ring tx_queue holds items that point into a pool of framed packets; *)
(* a slot of the pool is free when no item points to it.  sock_drain_tx    *)
(* keeps POINTERS INTO THE RING while it pops, sends, and re-enqueues, so  *)
(* the ring is modelled position by position and an item stays readable    *)
(* after it is popped.  A frame is its connection, its number, the session *)
(* header it was sealed with and whether it is too big for the path.       *)
(***************************************************************************)
EXTENDS Integers, Sequences, FiniteSets, FiniteSetsExt

CONSTANTS TxConns,         \* connections of the stack
          NS_TX_MAX,       \* items in the ring, and slots in the pool
          NS_TX_CONN_CAP,  \* data items one connection may have queued
          MaxTxSession     \* bound on re-authentications

CTL == "ctl"               \* NS_TX_CONN_CTL: a frame of no connection

VARIABLES ring,       \* tx_queue: [position -> [seg, conn]]
          txhead,     \* tx_head
          txcount,    \* tx_count
          pkt,        \* [slot -> the frame in it]
          refs,       \* [slot -> items that point to it]
          q_used,     \* [connection -> its items in the queue]
          tx_outer,   \* the session the outer header is for
          made,       \* [connection -> number of its last frame]
          want        \* the frames lwIP was told are queued, in order

txVars == <<ring, txhead, txcount, pkt, refs, q_used, tx_outer, made, want>>

TxSlots == 0..(NS_TX_MAX - 1)
NoSegment == [conn |-> CTL, n |-> 0, data |-> FALSE, big |-> FALSE, hdr |-> 0]

TxInit ==
    /\ ring = [p \in TxSlots |-> [seg |-> 0, conn |-> CTL]]
    /\ txhead = 0
    /\ txcount = 0
    /\ pkt = [s \in TxSlots |-> NoSegment]
    /\ refs = [s \in TxSlots |-> 0]
    /\ q_used = [c \in TxConns |-> 0]
    /\ tx_outer = 0
    /\ made = [c \in TxConns |-> 0]
    /\ want = <<>>

-----------------------------------------------------------------------------
(* The queue as one record, for the operations that run in a row. *)
Q == [ring |-> ring, head |-> txhead, count |-> txcount, refs |-> refs, q_used |-> q_used]

(* Positions outside the queue and slots nothing points to are never read  *)
(* again between two operations: they are kept blank.                      *)
Installs(q) ==
    /\ ring' = [p \in TxSlots |-> IF (p - q.head) % NS_TX_MAX < q.count
                                  THEN q.ring[p] ELSE [seg |-> 0, conn |-> CTL]]
    /\ txhead' = q.head
    /\ txcount' = q.count
    /\ refs' = q.refs
    /\ q_used' = q.q_used

Blanks(pool) == pkt' = [s \in TxSlots |-> IF refs'[s] = 0 THEN NoSegment ELSE pool[s]]

Counted(q, c, d) ==
    IF c = CTL THEN q ELSE [q EXCEPT !.q_used[c] = @ + d]

TxEnqueue(q, seg, c) ==
    IF q.count >= NS_TX_MAX THEN q
    ELSE Counted([q EXCEPT !.ring[(q.head + q.count) % NS_TX_MAX] = [seg |-> seg, conn |-> c],
                           !.count = @ + 1,
                           !.refs[seg] = @ + 1], c, 1)

(* A pop that leaves the connection's share taken. *)
TxPopKeepsShare(q) ==
    [q EXCEPT !.refs[q.ring[q.head].seg] = @ - 1,
              !.head = (@ + 1) % NS_TX_MAX, !.count = @ - 1]

TxPop(q) ==
    LET it == q.ring[q.head]
    IN  Counted([q EXCEPT !.refs[it.seg] = @ - 1,
                          !.head = (@ + 1) % NS_TX_MAX, !.count = @ - 1], it.conn, -1)

(* The queue after everything in it was popped. *)
Popped(q) ==
    LET after[i \in 0..q.count] == IF i = 0 THEN q ELSE TxPop(after[i - 1])
    IN  after[q.count]

(* ns_tx_rearm_seg for all but the first `sent' of the n items drained     *)
(* from position h on: each is read from the ring when its turn comes.     *)
Rearmed(q, h, sent, n) ==
    LET after[i \in sent..n] ==
          IF i = sent THEN q
          ELSE LET r == after[i - 1]
                   it == r.ring[(h + i - 1) % NS_TX_MAX]
               IN  TxEnqueue(r, it.seg, it.conn)
    IN  after[n]

-----------------------------------------------------------------------------
TxFree == {s \in TxSlots : refs[s] = 0}

(* bridge_output_frame: a data segment of a connection that has its share  *)
(* queued, or any frame when the pool is exhausted, is refused (ERR_MEM)   *)
(* and lwIP offers it again; a control segment is exempt from the share.   *)
ShareIgnored(c, data) == TRUE
ShareLeft(c, data) == ~data \/ q_used[c] < NS_TX_CONN_CAP

BridgeOutput(c, data, big) ==
    /\ ShareLeft(c, data)
    /\ TxFree # {}
    /\ LET s == Min(TxFree)
           f == [conn |-> c, n |-> made[c], data |-> data, big |-> big, hdr |-> tx_outer]
       IN  /\ pkt' = [pkt EXCEPT ![s] = f]
           /\ Installs(TxEnqueue(Q, s, c))
           /\ want' = Append(want, f)
    /\ made' = [made EXCEPT ![c] = (@ + 1) % (NS_TX_MAX + 1)]
    /\ UNCHANGED tx_outer

(* What the socket takes: a prefix of the items.  It stops at a frame too  *)
(* big for the path (EMSGSIZE), and may stop anywhere for a full buffer or *)
(* a hard error.                                                           *)
Sendable(k) == \A i \in 1..k : ~want[i].big

(* sock_drain_tx: pop everything, send, re-enqueue what was not sent, in   *)
(* order.  Runs of equal length only decide the system call.               *)
DrainTx ==
    /\ txcount > 0
    /\ \E sent \in 0..txcount :
         /\ Sendable(sent)
         /\ Installs(Rearmed(Popped(Q), txhead, sent, txcount))
         /\ want' = SubSeq(want, sent + 1, Len(want))
    /\ Blanks(pkt)
    /\ UNCHANGED <<tx_outer, made>>

ReauthKeepsQueue ==
    /\ tx_outer < MaxTxSession
    /\ tx_outer' = tx_outer + 1
    /\ UNCHANGED <<ring, txhead, txcount, refs, q_used, pkt, made, want>>

(* An in-place re-authentication that keeps the stack: new outer header,   *)
(* and the queued frames, sealed with the old one, are popped.             *)
ReauthDrops ==
    /\ tx_outer < MaxTxSession
    /\ tx_outer' = tx_outer + 1
    /\ Installs(Popped(Q))
    /\ Blanks(pkt)
    /\ want' = <<>>
    /\ UNCHANGED made

TxNext ==
    \/ \E c \in TxConns, data \in BOOLEAN, big \in BOOLEAN :
         (big => data) /\ BridgeOutput(c, data, big)
    \/ DrainTx
    \/ ReauthDrops

TxSpec == TxInit /\ [][TxNext]_txVars

-----------------------------------------------------------------------------
Queued(i) == ring[(txhead + i - 1) % NS_TX_MAX]

(* The queue is exactly the frames lwIP was told are on their way, in that *)
(* order: every item still points to the slot with its frame - also after  *)
(* any number of partial drains, whose re-enqueued items are read through  *)
(* ring positions the re-enqueueing itself may be overwriting -, a slot is *)
(* free when no item points to it, a connection's share counts its items,  *)
(* no connection has more data queued than its share, and no frame sealed  *)
(* for an earlier session is left to send.                                 *)
QueueExact ==
    /\ txcount = Len(want)
    /\ \A i \in 1..txcount :
         /\ pkt[Queued(i).seg] = want[i]
         /\ Queued(i).conn = want[i].conn
         /\ want[i].hdr = tx_outer
    /\ \A s \in TxSlots : refs[s] = Cardinality({i \in 1..txcount : Queued(i).seg = s})
    /\ \A c \in TxConns :
         /\ q_used[c] = Cardinality({i \in 1..txcount : Queued(i).conn = c})
         /\ Cardinality({i \in 1..txcount : want[i].conn = c /\ want[i].data})
              <= NS_TX_CONN_CAP
=============================================================================
