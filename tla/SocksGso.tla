------------------------------ MODULE SocksGso ------------------------------
(***************************************************************************)
(* UDP segmentation offload on the SOCKS client's session socket:          *)
(* socks_send_batch2 and socks_reauth_swap (common/socks.c).  The machine  *)
(* is written out in the send path, and unlike the TUN pump's it lives     *)
(* across an exchange of the socket under it.  One event loop sends, so a  *)
(* call is one step; short frames (keepalives, tunnel DNS) are sent on the *)
(* same socket without looking at the record.                              *)
(***************************************************************************)
EXTENDS GsoWire

CONSTANT
    ShortLens       \* sizes of the frames sent past the batch path

ASSUME SocksGsoConstants ==
    /\ ShortLens \subseteq Nat
    /\ \A l \in ShortLens : l < MssMin

VARIABLES
    ok,    \* cfg->gso_ok: 0 untried, 1 usable, -1 failed
    mss,   \* cfg->gso_mss: the recorded size, 0 for none
    seg,   \* what the kernel has armed on the current socket
    sockWire,  \* the last send (GsoWire)
    kept   \* an exchange of this socket has been rolled back (history)

socksVars == <<ok, mss, seg, sockWire, kept>>

SocksTypeOK ==
    /\ ok \in -1..1 /\ mss \in {0} \cup Sizes /\ seg \in {0} \cup Sizes
    /\ sockWire \in Sends(ShortLens)
    /\ kept \in BOOLEAN

SocksInit ==
    /\ ok = 0 /\ mss = 0 /\ seg = 0
    /\ sockWire = Quiet /\ kept = FALSE

\* per_msg, with record k and kernel size s: clear what the record knows of,
\* then send each datagram by itself.
PerMessage(k, s, lens) ==
    /\ mss' = 0
    /\ seg' = IF k = 0 THEN s ELSE 0
    /\ sockWire' = [unit |-> FALSE, lens |-> lens, seg |-> seg']

\* The unit itself: sent; given up within the retry budget; or refused for
\* good, which disables the offload and falls through to per_msg.
SendUnit(m, s) ==
    \/ /\ ok' = 1 /\ mss' = m /\ seg' = s
       /\ sockWire' = [unit |-> TRUE, lens |-> {m}, seg |-> s]
    \/ ok' = 1 /\ mss' = m /\ seg' = s /\ UNCHANGED sockWire
    \/ ok' = -1 /\ PerMessage(0, 0, {m})

\* A uniform batch that qualifies: try, re-arm for another size, or re-probe
\* a failed offload (at most once a second); the kernel may refuse each.
SocksUniform(m) ==
    /\ m >= MssMin
    /\ IF ok = 1 /\ mss = m
       THEN SendUnit(m, seg)
       ELSE \/ SendUnit(m, m)
            \/ ok' = -1 /\ PerMessage(mss, seg, {m})
    /\ UNCHANGED kept

\* Any other batch.
SocksPlain(lens) ==
    /\ lens # {}
    /\ PerMessage(mss, seg, lens) /\ UNCHANGED <<ok, kept>>

\* A keepalive or a DNS query.
ShortFrame(l) ==
    /\ sockWire' = [unit |-> FALSE, lens |-> {l}, seg |-> seg]
    /\ UNCHANGED <<ok, mss, seg, kept>>

\* Mutant: the record survives the socket it describes.
ReauthSwapKeeps ==
    seg' = 0 /\ sockWire' = Quiet /\ kept' = FALSE /\ UNCHANGED <<ok, mss>>

\* socks_reauth_swap: the record is reset, and the new socket, on which
\* nothing is armed, takes the place of the old.
ReauthSwap ==
    ok' = 0 /\ mss' = 0 /\ seg' = 0 /\ sockWire' = Quiet /\ kept' = FALSE

\* ... or cannot be made non-blocking, and the old socket stays.
ReauthRollback ==
    /\ ok' = 0 /\ mss' = 0 /\ kept' = TRUE /\ UNCHANGED <<seg, sockWire>>

SocksNext ==
    \/ \E m \in Sizes : SocksUniform(m)
    \/ \E lens \in SUBSET Sizes : SocksPlain(lens)
    \/ \E l \in ShortLens : ShortFrame(l)
    \/ ReauthSwap
    \/ ReauthRollback

SocksSpec == SocksInit /\ [][SocksNext]_socksVars

\* Frames reach the server whole: a datagram sent by itself is never longer
\* than an armed size (that includes the short frames, which nothing clears
\* the option for), and a unit is cut exactly at its frames, also on a socket
\* that has just been exchanged.  A socket kept by a failed exchange is left
\* out: see RollbackHarmless.  With the types.
SocksUnsplit == SocksTypeOK /\ (~kept => Whole(sockWire))

\* socks.c:1511-1512, of the exchange that is rolled back: the record is
\* "merely back to "untried" for the old socket and the next batch re-probes
\* it"; so frames still go whole.
RollbackHarmless == Whole(sockWire)
=============================================================================
