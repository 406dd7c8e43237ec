--------------------------- MODULE DownlinkBatch ----------------------------
(***************************************************************************)
(* The downlink batch of one TUN queue (srv_dl_batch, srv_tun_pkt and      *)
(* srv_dl_flush in iwan_server.c).  The header, payload and peer of a      *)
(* staged frame live in cells; a message names its cells by reference.     *)
(* After a partial send the cells and the messages move to the front, and  *)
(* the references must follow.  A frame is its number and the peer its     *)
(* session had when it was prepared (tun_prep_downlink); sent and lost     *)
(* record what became of it.                                               *)
(***************************************************************************)
EXTENDS Integers, Sequences

CONSTANTS
  DlPeers,      \* client addresses
  SRV_DL_BATCH, \* cells of a batch
  MaxFrames     \* bound on the packets read from the TUN

ASSUME BatchAssumption == SRV_DL_BATCH \in Nat \ {0} /\ MaxFrames \in Nat

VARIABLES
  hdrs, pl, peers,  \* the cells: the frame whose part each one holds
  msgs,             \* mmsghdr and iovec: references to the three cells
  dl_n,             \* frames in the batch
  frames,           \* packets read so far
  sent,             \* history: datagrams handed to the kernel, in order
  lost,             \* history: frames given up
  drops             \* g_send_drops

dlVars == <<hdrs, pl, peers, msgs, dl_n, frames, sent, lost, drops>>

Cells == 0..(SRV_DL_BATCH - 1)

NoFrame == [num |-> 0, peer |-> "none"]

DlInit ==
  /\ hdrs = [i \in Cells |-> NoFrame]
  /\ pl = [i \in Cells |-> NoFrame]
  /\ peers = [i \in Cells |-> "none"]
  /\ msgs = [i \in Cells |-> [hdr |-> 0, pl |-> 0, name |-> 0]]
  /\ dl_n = 0 /\ frames = 0 /\ sent = <<>> /\ lost = {} /\ drops = 0

\* The batch as a value, so that staging and flushing compose in one packet.
Batch == [hdrs |-> hdrs, pl |-> pl, peers |-> peers, msgs |-> msgs, n |-> dl_n,
          sent |-> sent, lost |-> lost, drops |-> drops]

\* What sendmmsg sends for message i: the cells as they are now.
Datagram(b, i) ==
  [hdr |-> b.hdrs[b.msgs[i].hdr], pl |-> b.pl[b.msgs[i].pl], to |-> b.peers[b.msgs[i].name]]

Sending(b, k) ==
  [b EXCEPT !.sent = @ \o [i \in 1..k |-> Datagram(b, i - 1)]]

\* The frames of messages k .. n - 1.
Unsent(b, k) == {b.pl[b.msgs[i].pl] : i \in k..(b.n - 1)}

\* memmove by k cells.
Moved(f, k, kept) == [i \in Cells |-> IF i < kept THEN f[i + k] ELSE f[i]]

CompactNamesKept(b, k) ==
  LET kept == b.n - k
  IN [b EXCEPT !.hdrs = Moved(@, k, kept), !.pl = Moved(@, k, kept),
               !.peers = Moved(@, k, kept), !.n = kept,
               !.msgs = [i \in Cells |-> IF i < kept
                           THEN [hdr |-> i, pl |-> i, name |-> Moved(b.msgs, k, kept)[i].name]
                           ELSE b.msgs[i]]]

\* The remainder moves to the front, and every message is re-pointed.
Compact(b, k) ==
  LET kept == b.n - k
  IN [b EXCEPT !.hdrs = Moved(@, k, kept), !.pl = Moved(@, k, kept),
               !.peers = Moved(@, k, kept), !.n = kept,
               !.msgs = [i \in Cells |-> IF i < kept THEN [hdr |-> i, pl |-> i, name |-> i]
                                         ELSE b.msgs[i]]]

FlushKeepsAll(b, k, hard) ==
  IF k = b.n THEN [Sending(b, k) EXCEPT !.n = 0] ELSE Sending(b, k)

\* srv_dl_flush: the kernel takes k messages; the rest is kept on EAGAIN and
\* given up, and counted, on a hard error.
Flush(b, k, hard) ==
  IF k = b.n THEN [Sending(b, k) EXCEPT !.n = 0]
  ELSE IF hard THEN [Sending(b, k) EXCEPT !.n = 0, !.lost = @ \union Unsent(b, k),
                                          !.drops = @ + (b.n - k)]
  ELSE Compact(Sending(b, k), k)

\* srv_tun_pkt: a frame joins the batch, or is dropped when the batch is full.
Stage(b, f) ==
  IF b.n >= SRV_DL_BATCH THEN [b EXCEPT !.lost = @ \union {f}, !.drops = @ + 1]
  ELSE [b EXCEPT !.hdrs[b.n] = f, !.pl[b.n] = f, !.peers[b.n] = f.peer,
                 !.msgs[b.n] = [hdr |-> b.n, pl |-> b.n, name |-> b.n], !.n = @ + 1]

\* Staging that fills the batch flushes it.
FillsUp(b, staged) == b.n < SRV_DL_BATCH /\ staged.n = SRV_DL_BATCH

Becomes(b) ==
  /\ hdrs' = b.hdrs /\ pl' = b.pl /\ peers' = b.peers /\ msgs' = b.msgs
  /\ dl_n' = b.n /\ sent' = b.sent /\ lost' = b.lost /\ drops' = b.drops

\* A packet of at most SRV_DL_SLOT bytes for a session at peer p.
Packet(p, k, hard) ==
  LET f == [num |-> frames + 1, peer |-> p]
      staged == Stage(Batch, f)
  IN /\ frames < MaxFrames
     /\ frames' = frames + 1
     /\ IF FillsUp(Batch, staged) THEN k <= staged.n /\ Becomes(Flush(staged, k, hard))
        ELSE k = 0 /\ ~hard /\ Becomes(staged)

\* A larger packet: the batch is flushed and the packet sent by itself.
BigPacket(p, k, hard, taken) ==
  LET f == [num |-> frames + 1, peer |-> p]
      b == Flush(Batch, k, hard)
  IN /\ frames < MaxFrames /\ k <= dl_n
     /\ frames' = frames + 1
     /\ Becomes(IF taken THEN [b EXCEPT !.sent = Append(@, [hdr |-> f, pl |-> f, to |-> p])]
                ELSE [b EXCEPT !.lost = @ \union {f}, !.drops = @ + 1])

\* The reader's burst is over.
LastFlush(k, hard) ==
  /\ dl_n > 0 /\ k <= dl_n
  /\ Becomes(Flush(Batch, k, hard))
  /\ UNCHANGED frames

\* srv_dl_reader_exit: what is still held is given up with the reader.
DlReaderExit ==
  /\ dl_n > 0
  /\ lost' = lost \union Unsent(Batch, 0)
  /\ dl_n' = 0
  /\ UNCHANGED <<hdrs, pl, peers, msgs, frames, sent, drops>>

\* All packets of the bound are read and nothing is held.
DlQuiet == frames = MaxFrames /\ dl_n = 0 /\ UNCHANGED dlVars

DlNext ==
  \/ \E p \in DlPeers, k \in 0..SRV_DL_BATCH, hard \in BOOLEAN : Packet(p, k, hard)
  \/ \E p \in DlPeers, k \in 0..SRV_DL_BATCH, hard \in BOOLEAN, t \in BOOLEAN : BigPacket(p, k, hard, t)
  \/ \E k \in 0..SRV_DL_BATCH, hard \in BOOLEAN : LastFlush(k, hard)
  \/ DlReaderExit
  \/ DlQuiet

DlSpec == DlInit /\ [][DlNext]_dlVars

-----------------------------------------------------------------------------
(* Properties.                                                             *)

SentFrames == {sent[i].pl : i \in DOMAIN sent}

\* The parts of a datagram belong to one frame and it goes to that frame's
\* peer, however often the batch was compacted and refilled.
SentToItsPeer ==
  \A i \in DOMAIN sent : sent[i].hdr = sent[i].pl /\ sent[i].to = sent[i].pl.peer

\* Every frame read is sent once, given up, or held, and never two of these:
\* the numbers given out are those of the frames in the three places.
EachFrameOnce ==
  LET heldNow == Unsent(Batch, 0)
      all == SentFrames \union lost \union heldNow
  IN /\ \A i, j \in DOMAIN sent : sent[i].pl = sent[j].pl => i = j
     /\ \A i, j \in 0..(dl_n - 1) : pl[msgs[i].pl] = pl[msgs[j].pl] => i = j
     /\ SentFrames \intersect (lost \union heldNow) = {}
     /\ lost \intersect heldNow = {}
     /\ {f.num : f \in all} = 1..frames
     /\ \A f, g \in all : f.num = g.num => f = g

\* Every packet the server takes from the TUN goes to its session's peer, once,
\* or is given up (srv_tun_pkt, srv_dl_flush, srv_dl_reader_exit).
FramesOnce == SentToItsPeer /\ EachFrameOnce
=============================================================================
