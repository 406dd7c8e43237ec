----------------------------- MODULE EchoMirror -----------------------------
(***************************************************************************)
(* The --no-tun echo mirror of the server (common/server.c): every inner   *)
(* TCP segment is sent back with its addresses and numbers swapped, at the *)
(* sequence number a table of connections computes.  The receiver threads  *)
(* share the table under g_echo_mu; a segment takes the lock twice, once   *)
(* to find or create its entry and once to advance it, and reads the clock *)
(* before the first.  Sequence numbers keep their wrap-around: they are    *)
(* numbers modulo EchoMod, 2^32 in the code, and so does the unsigned      *)
(* difference of two clock readings.                                       *)
(***************************************************************************)
EXTENDS Integers, FiniteSets

CONSTANTS
  EchoThreads,
  Tuples,        \* the connections (4-tuples) clients may open
  EchoSlots,     \* the entries of g_echo
  EchoMod, ECHO_IDLE,
  MaxClock,      \* bound on the clock
  EchoLen        \* bound on the sequence numbers a client uses, FIN included

ASSUME EchoConstants ==
  /\ {ECHO_IDLE, MaxClock, EchoLen} \subseteq Nat \ {0}
  /\ EchoMod \in Nat /\ EchoMod > 2 * EchoLen

VARIABLES
  eclock, ent, eth,
  isn, upto,     \* per client: its first number, and how much it has sent
  echo           \* the last mirrored segment: its connection, number and place

echoVars == <<eclock, ent, eth, isn, upto, echo>>

Nobody == "nobody"
IdleThread == [pc |-> "idle", now |-> 0, tup |-> Nobody, pos |-> 0, len |-> 0, syn |-> FALSE,
               slot |-> Nobody]

EchoInit ==
  /\ eclock = 1
  /\ ent = [s \in EchoSlots |-> [key |-> Nobody, last_ms |-> 0, client_max |-> 0,
                                  emit_seq |-> 0, seeded |-> FALSE]]
  /\ eth = [t \in EchoThreads |-> IdleThread]
  /\ isn \in [Tuples -> 0..EchoMod - 1]
  /\ upto = [c \in Tuples |-> 0]
  /\ echo = [tup |-> Nobody, pos |-> 0, seq |-> 0]

EchoTick == eclock < MaxClock /\ eclock' = eclock + 1 /\ UNCHANGED <<ent, eth, isn, upto, echo>>

\* echo_mirror, echo_mirror6: a well-formed TCP segment of client c arrives, a
\* new one or one it sends again (the SYN only while nothing followed it), and
\* the thread reads the clock.  A segment of no length is a pure ACK.
EchoArrives(t, c, pos, len) ==
  /\ eth[t].pc = "idle"
  /\ pos + len <= EchoLen
  /\ \/ pos = upto[c]                          \* new, or an ACK
     \/ pos < upto[c] /\ pos + len <= upto[c]  \* sent again
  /\ pos = 0 => upto[c] <= 1
  /\ pos = 0 => len = 1
  /\ eth' = [eth EXCEPT ![t] = [pc |-> "lookup", now |-> eclock, tup |-> c, pos |-> pos,
                                 len |-> len, syn |-> pos = 0, slot |-> Nobody]]
  /\ upto' = [upto EXCEPT ![c] = IF pos + len > @ THEN pos + len ELSE @]
  /\ UNCHANGED <<eclock, ent, isn, echo>>

\* now - ec->last_ms > 60000, unsigned.
EchoIdle(now, e) == now < e.last_ms \/ now - e.last_ms > ECHO_IDLE

\* echo_lookup.  The scan stops at a match, so only entries ahead of it are
\* reclaimed; entries behind it may or may not be, which slot is free being
\* left open.
EchoLookup(t) ==
  LET th == eth[t]
      hit == {s \in EchoSlots : ent[s].last_ms # 0 /\ ent[s].key = th.tup}
      stale == {s \in EchoSlots : ent[s].last_ms # 0 /\ EchoIdle(th.now, ent[s])}
      swept == [s \in EchoSlots |-> IF s \in stale THEN [ent[s] EXCEPT !.last_ms = 0] ELSE ent[s]]
      free == {s \in EchoSlots : swept[s].last_ms = 0}
  IN /\ th.pc = "lookup"
     /\ \/ \E s \in hit : \E ahead \in SUBSET (stale \ hit) :
             /\ ent' = [x \in EchoSlots |-> IF x = s THEN [ent[x] EXCEPT !.last_ms = th.now]
                                            ELSE IF x \in ahead THEN swept[x] ELSE ent[x]]
             /\ eth' = [eth EXCEPT ![t].pc = "advance", ![t].slot = s]
        \/ /\ hit = {} /\ th.syn
           /\ \E s \in free :
                /\ ent' = [swept EXCEPT ![s] = [key |-> th.tup, last_ms |-> th.now,
                                                 client_max |-> 0, emit_seq |-> 0, seeded |-> FALSE]]
                /\ eth' = [eth EXCEPT ![t].pc = "advance", ![t].slot = s]
        \/ /\ hit = {} /\ (~th.syn \/ free = {})
           /\ ent' = swept /\ eth' = [eth EXCEPT ![t] = IdleThread]
     /\ UNCHANGED <<eclock, isn, upto, echo>>

Wrap(n) == n % EchoMod

EchoAdvanceUnseeded(t) ==
  LET th == eth[t]  e == ent[th.slot]  s_orig == Wrap(isn[th.tup] + th.pos)
      back == Wrap(e.client_max - s_orig)
      again == back # 0 /\ back < EchoMod \div 2
  IN /\ th.pc = "advance"
     /\ echo' = [tup |-> th.tup, pos |-> th.pos,
                 seq |-> IF again THEN Wrap(e.emit_seq - back) ELSE e.emit_seq]
     /\ ent' = [ent EXCEPT ![th.slot] =
                  IF again THEN e
                  ELSE [e EXCEPT !.seeded = TRUE, !.client_max = Wrap(s_orig + th.len),
                                 !.emit_seq = Wrap(@ + th.len)]]
     /\ eth' = [eth EXCEPT ![t] = IdleThread]
     /\ UNCHANGED <<eclock, isn, upto>>

\* echo_seq_advance after the lookup, echo_mirror_ack and the send: a segment
\* behind client_max goes to the place its content had, another one to emit_seq.
EchoAdvance(t) ==
  LET th == eth[t]  e == ent[th.slot]  s_orig == Wrap(isn[th.tup] + th.pos)
      back == Wrap(e.client_max - s_orig)
      again == e.seeded /\ back # 0 /\ back < EchoMod \div 2
  IN /\ th.pc = "advance"
     /\ echo' = [tup |-> th.tup, pos |-> th.pos,
                 seq |-> IF again THEN Wrap(e.emit_seq - back) ELSE e.emit_seq]
     /\ ent' = [ent EXCEPT ![th.slot] =
                  IF again THEN e
                  ELSE [e EXCEPT !.seeded = TRUE, !.client_max = Wrap(s_orig + th.len),
                                 !.emit_seq = Wrap(@ + th.len)]]
     /\ eth' = [eth EXCEPT ![t] = IdleThread]
     /\ UNCHANGED <<eclock, isn, upto>>

EchoNext ==
  \/ EchoTick
  \/ \E t \in EchoThreads :
       \/ \E c \in Tuples, pos \in 0..EchoLen, len \in 0..2 : EchoArrives(t, c, pos, len)
       \/ EchoLookup(t) \/ EchoAdvance(t)

EchoSpec == EchoInit /\ [][EchoNext]_echoVars

\* While one thread serves a connection, every segment is mirrored at the place
\* of its content, whatever the first number, the retransmissions and the
\* reclaimed entries: the mirror's number of a byte is the byte's distance from
\* the client's first one (echo_seq_advance).
EchoInPlace == echo.tup # Nobody => echo.seq = Wrap(echo.pos)
=============================================================================
