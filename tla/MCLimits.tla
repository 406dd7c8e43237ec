------------------------------ MODULE MCLimits ------------------------------
(* One instance of the server-side tables that hold something about a       *)
(* source: the lockout table of the forwarding proxy, the rate limits of    *)
(* the server and its table of mirrored connections.  They share no state;  *)
(* `part' says which of them moves, so that their state spaces add up and   *)
(* do not multiply.  The rate limits come twice: with one bucket, where     *)
(* every new source evicts another, and with two to probe and one frame at  *)
(* a time (buckets change under the mutex only).  Sources and threads are   *)
(* interchangeable.                                                         *)
EXTENDS Lockout, ServerRate, EchoMirror, TLC

CONSTANTS k1, k2, k3, c1, c2

VARIABLE part

ThreeSources == {k1, k2, k3}

TwoThreads == {c1, c2}

OneGate == <<"miss">>

OneEach == [k \in Kinds |-> 1]

Sym == Permutations(ThreeSources) \union Permutations(TwoThreads)

MCInit ==
  /\ Init
  /\ \/ part \in {"lockout", "gates", "echo"} /\ RateStart(1)
     \/ part = "probe" /\ RateStart(2)
  /\ EchoInit /\ (part # "echo" => \A c \in Tuples : isn[c] = 0)

MCNext ==
  \/ part = "lockout" /\ Next /\ UNCHANGED <<rateVars, echoVars, part>>
  \/ part = "gates" /\ RateNext /\ UNCHANGED <<vars, echoVars, part>>
  \/ /\ part = "probe" /\ RateNext /\ UNCHANGED <<vars, echoVars, part>>
     /\ Cardinality({t \in Threads : th'[t].at # "idle"}) <= 1
  \/ part = "echo" /\ EchoNext /\ UNCHANGED <<vars, rateVars, part>>

MCSpec == MCInit /\ [][MCNext]_<<vars, rateVars, echoVars, part>>

=============================================================================
