------------------------------ MODULE PumpGso ------------------------------
(***************************************************************************)
(* UDP segmentation offload on the TUN client's session socket:            *)
(* pump_tx_send, send_gso, send_batch and send_ctrl (common/proxy.c) and   *)
(* the helpers udp_gso_prepare and udp_gso_clear (common/udp_send.c).      *)
(*                                                                         *)
(* While UDP_SEGMENT is armed with a size, the kernel cuts every longer    *)
(* datagram into pieces of that size.  The code keeps its own record of    *)
(* what is armed.  All senders hold send_lock, so a call is one step; the  *)
(* kernel may refuse to arm a size, never to clear it.                     *)
(***************************************************************************)
EXTENDS SocksGso

CONSTANTS
    CtrlLen,  \* size of a control frame, IWAN_CTRL_LEN
    Hyst      \* IWAN_GSO_HYST

ASSUME GsoConstants ==
    CtrlLen \in Nat \ {0} /\ Hyst \in Nat /\ Hyst > 1

VARIABLES
    g,      \* ok (-1 untried, 0 refused, 1 usable), mss, pending, streak: the
            \* pump context; seg: what the kernel has armed, 0 for nothing
    wire    \* the last send (GsoWire)

pumpVars == <<g, wire>>

PumpTypeOK ==
    /\ g \in [ok : -1..1, mss : {0} \cup Sizes, pending : {0} \cup Sizes,
              streak : 0..Hyst, seg : {0} \cup Sizes]
    /\ wire \in Sends({CtrlLen})

PumpInit ==
    /\ g = [ok |-> -1, mss |-> 0, pending |-> 0, streak |-> 0, seg |-> 0]
    /\ wire = Quiet

\* Mutant: the option is cleared but the record is kept.
ClearKeepsRecord(c) == IF c.mss = 0 THEN c ELSE [c EXCEPT !.seg = 0]

\* udp_gso_clear: the option is touched only when the record says it is armed.
Clear(c) == IF c.mss = 0 THEN c ELSE [c EXCEPT !.seg = 0, !.mss = 0]

\* Arming m for a batch of that size.
Arm(c, m) ==
    [c EXCEPT !.ok = 1, !.mss = m, !.seg = m, !.pending = m, !.streak = 0]

Refused(c) == [use |-> FALSE, c |-> c]
Usable(c)  == [use |-> TRUE, c |-> c]

\* The hysteresis tracker counts batches of the same new size.
Track(c, m) ==
    IF c.pending = m
    THEN [c EXCEPT !.streak = c.streak + 1]
    ELSE [c EXCEPT !.pending = m, !.streak = 1]

\* When the tracked size is armed.
Due(t) == t.mss = 0 \/ t.streak >= Hyst

\* udp_gso_prepare: what it may leave and answer.  A refused socket is tried
\* again at most once a second, so this batch may not be the one that tries.
Prepare(c, m) ==
    IF c.ok = -1 THEN {Usable(Arm(c, m)), Refused([c EXCEPT !.ok = 0, !.mss = 0])}
    ELSE IF c.ok = 0 THEN {Usable(Arm(c, m)), Refused(c)}
    ELSE IF c.mss = m THEN {Usable([c EXCEPT !.pending = m, !.streak = 0])}
    ELSE LET t == Track(c, m)
         IN IF Due(t)
            THEN {Usable([t EXCEPT !.mss = m, !.seg = m, !.streak = 0]),
                  Refused([t EXCEPT !.ok = 0, !.mss = 0])}
            ELSE {Refused(t)}

\* send_batch: clear, then every datagram by itself; some may be dropped.
SendBatch(c, lens) ==
    /\ g' = Clear(c)
    /\ wire' = [unit |-> FALSE, lens |-> lens, seg |-> Clear(c).seg]

\* A uniform batch that qualifies for one unit: send_gso sends it, yields
\* without sending, or disables the feature and falls back to send_batch.
UniformBatch(m) ==
    /\ m >= MssMin
    /\ \E p \in Prepare(g, m) :
        \/ /\ p.use
           /\ g' = p.c /\ wire' = [unit |-> TRUE, lens |-> {m}, seg |-> p.c.seg]
        \/ p.use /\ g' = p.c /\ wire' = Quiet
        \/ p.use /\ SendBatch([Clear(p.c) EXCEPT !.ok = 0], {m})
        \/ ~p.use /\ SendBatch(p.c, {m})

\* Any other batch: mixed sizes, a single datagram, below the floor, or too
\* long for one unit.
PlainBatch(lens) ==
    /\ lens # {}
    /\ SendBatch(g, lens)

\* send_ctrl: clear, send, arm what was armed before, which may fail.
SendCtrl ==
    /\ wire' = [unit |-> FALSE, lens |-> {CtrlLen}, seg |-> Clear(g).seg]
    /\ \/ g' = g
       \/ g' = Clear(g)

PumpNext ==
    \/ \E m \in Sizes : UniformBatch(m)
    \/ \E lens \in SUBSET Sizes : PlainBatch(lens)
    \/ SendCtrl

PumpSpec == PumpInit /\ [][PumpNext]_pumpVars

\* Frames reach the server whole: a datagram sent by itself is never longer
\* than an armed segment size, and a unit is cut exactly at its frames
\* (proxy.c: "a lingering UDP_SEGMENT value would silently split any datagram
\* longer than the mss").  With the types.
Unsplit == PumpTypeOK /\ Whole(wire)

\* The kernel never cuts a train of datagrams anywhere but between datagrams
\* (pump_tx_send, socks_send_batch2).
TrainsWhole == Unsplit /\ SocksUnsplit
=============================================================================
