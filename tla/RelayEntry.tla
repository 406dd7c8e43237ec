----------------------------- MODULE RelayEntry -----------------------------
(***************************************************************************)
(* One direction of one relayed connection (rp_ent in common/              *)
(* relay_proxy.c): bytes read from a nonblocking socket are written to     *)
(* another one, straight through while nothing is pending and through the  *)
(* pend buffer otherwise.  Bytes are numbered in the order their source    *)
(* sent them; the handshake has forwarded the first few (the tail of the   *)
(* request) before the entry exists.                                       *)
(***************************************************************************)
EXTENDS Naturals, Sequences

CONSTANTS
  RP_BUF, RP_PEND_LIMIT,
  StreamLen,     \* bound on the bytes of the source
  PcapFirst,     \* the first allocation of pend
  Doublings      \* how often it is doubled at most

\* The sizes pend is allocated with.
Capacities == {PcapFirst * 2^k : k \in 0..Doublings}

ASSUME EntryConstants ==
  /\ {RP_BUF, RP_PEND_LIMIT, StreamLen, PcapFirst, Doublings} \subseteq Nat \ {0}
  /\ RP_BUF <= RP_PEND_LIMIT
  /\ Capacities \subseteq Nat /\ \E c \in Capacities : RP_PEND_LIMIT <= c

VARIABLES
  rd,            \* bytes read so far
  pend, pcap,    \* rp_ent.pend[0 .. plen) and its capacity
  out,           \* the bytes the far socket accepted, in order
  from_eof, wr_closed,
  inLoop,        \* the pass is in its read loop
  gone           \* a hard error or the teardown dropped bytes (history)

entVars == <<rd, pend, pcap, out, from_eof, wr_closed, inLoop, gone>>

EntBytes(a, b) == [i \in 1..(b - a) |-> a + i]

EntInit ==
  /\ rd \in 0..RP_BUF /\ out = EntBytes(0, rd)
  /\ pend = <<>> /\ pcap = 0
  /\ from_eof = FALSE /\ wr_closed = FALSE /\ inLoop = FALSE /\ gone = FALSE

EntHasRoom == Len(pend) + RP_BUF <= RP_PEND_LIMIT

\* poll reports the source readable.
EntReadable ==
  /\ ~inLoop /\ ~wr_closed /\ ~from_eof /\ EntHasRoom
  /\ inLoop' = TRUE
  /\ UNCHANGED <<rd, pend, pcap, out, from_eof, wr_closed, gone>>

\* The capacity doubles until the bytes fit.
EntGrown(need) ==
  LET fit == {c \in Capacities : need <= c}
  IN IF need <= pcap THEN UNCHANGED pcap
     ELSE \E c \in fit : (\A d \in fit : c <= d) /\ pcap' = c

\* rp_pend.
EntPended(new) == pend' = pend \o new /\ EntGrown(Len(pend) + Len(new))

\* rp_pend cannot allocate, or a send fails hard: the rest is dropped.
EntDropped == pend' = <<>> /\ from_eof' = TRUE /\ gone' = TRUE

EntAlwaysStraight == TRUE

\* Nothing is queued ahead of the bytes just read.
EntStraight == pend = <<>>

\* recv gives n bytes: the fast path sends w of them and pends the rest, the
\* backlog path pends all.
EntRecv(n, w) ==
  /\ inLoop /\ EntHasRoom /\ rd + n <= StreamLen
  /\ LET new == EntBytes(rd, rd + n)
     IN /\ IF EntStraight THEN w <= n ELSE w = 0
        /\ out' = out \o SubSeq(new, 1, w)
        /\ rd' = rd + n
        /\ \/ /\ IF w < n THEN EntPended(SubSeq(new, w + 1, n)) ELSE UNCHANGED <<pend, pcap>>
              /\ UNCHANGED <<from_eof, gone, inLoop>>
           \/ w < n /\ EntDropped /\ inLoop' = FALSE /\ UNCHANGED pcap
  /\ UNCHANGED wr_closed

\* The loop ends: the source is drained or under pressure, or pend is full;
\* or the source ended or failed.
EntLoopEnds ==
  /\ inLoop
  /\ inLoop' = FALSE
  /\ \/ from_eof' = FALSE
     \/ EntHasRoom /\ from_eof' = TRUE
  /\ UNCHANGED <<rd, pend, pcap, out, wr_closed, gone>>

EntFlushForgets(w) ==
  /\ ~inLoop /\ pend # <<>> /\ w <= Len(pend)
  /\ out' = out \o SubSeq(pend, 1, w)
  /\ pend' = <<>>
  /\ UNCHANGED <<rd, pcap, from_eof, wr_closed, inLoop, gone>>

\* rp_flush: w bytes go, the rest waits for POLLOUT; or a hard error.
EntFlush(w) ==
  /\ ~inLoop /\ pend # <<>> /\ w <= Len(pend)
  /\ out' = out \o SubSeq(pend, 1, w)
  /\ \/ pend' = SubSeq(pend, w + 1, Len(pend)) /\ UNCHANGED <<from_eof, gone>>
     \/ w < Len(pend) /\ EntDropped
  /\ UNCHANGED <<rd, pcap, wr_closed, inLoop>>

EntRetireEarly ==
  /\ ~inLoop /\ from_eof /\ ~wr_closed
  /\ wr_closed' = TRUE
  /\ UNCHANGED <<rd, pend, pcap, out, from_eof, inLoop, gone>>

\* The bottom of the loop: an ended and flushed entry is half-closed.
EntRetire ==
  /\ ~inLoop /\ from_eof /\ pend = <<>> /\ ~wr_closed
  /\ wr_closed' = TRUE
  /\ UNCHANGED <<rd, pend, pcap, out, from_eof, inLoop, gone>>

\* rp_dir_retire_all: the relay is taken down, what is pending is not sent.
EntTornDown ==
  /\ ~inLoop /\ ~wr_closed
  /\ wr_closed' = TRUE /\ gone' = TRUE
  /\ UNCHANGED <<rd, pend, pcap, out, from_eof, inLoop>>

EntNext ==
  \/ EntReadable \/ EntLoopEnds \/ EntRetire \/ EntTornDown
  \/ \E n \in 1..RP_BUF, w \in 0..RP_BUF : EntRecv(n, w)
  \/ \E w \in 0..RP_PEND_LIMIT : EntFlush(w)

EntSpec == EntInit /\ [][EntNext]_entVars

\* Bytes keep their order across the handshake's tail, the fast path and pend;
\* while nothing failed every byte read is sent or pending, pend stays within
\* RP_PEND_LIMIT and its allocation, and the far side sees the end only after
\* the last byte.
InOrder ==
  /\ out = EntBytes(0, Len(out))
  /\ ~gone => out \o pend = EntBytes(0, rd)
  /\ Len(pend) <= RP_PEND_LIMIT /\ Len(pend) <= pcap
  /\ wr_closed /\ ~gone => out = EntBytes(0, rd)
=============================================================================
