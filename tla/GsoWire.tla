------------------------------ MODULE GsoWire -------------------------------
(***************************************************************************)
(* What UDP_SEGMENT does to a send, for the two state machines that arm it *)
(* (PumpGso, SocksGso): the datagrams of the last call, as one unit or     *)
(* singly, and the segment size the kernel had armed, 0 for none.  The     *)
(* kernel cuts everything longer than that size into pieces of it.         *)
(***************************************************************************)
EXTENDS Integers, FiniteSets

CONSTANTS
    Sizes,    \* sizes of data datagrams
    MssMin    \* IWAN_GSO_MSS_MIN

ASSUME WireConstants ==
    Sizes \subseteq Nat \ {0} /\ IsFiniteSet(Sizes) /\ MssMin \in Nat

\* Sends of data and of other frames, of the sizes in extra.
Sends(extra) ==
    [unit : BOOLEAN, lens : SUBSET (Sizes \cup extra), seg : {0} \cup Sizes]

Quiet == [unit |-> FALSE, lens |-> {}, seg |-> 0]

\* A unit is cut exactly at its frames; no single datagram is cut at all.
Whole(w) ==
    IF w.unit
    THEN w.lens = {w.seg}
    ELSE w.seg = 0 \/ \A l \in w.lens : l <= w.seg
=============================================================================
