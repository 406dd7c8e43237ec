----------------------------- MODULE ServerRate -----------------------------
(***************************************************************************)
(* The per-source rate limits of the server (common/server_rate.c), seen   *)
(* by the recv threads: one shard of buckets under its mutex, and the      *)
(* over-budget gates that are read without it.  All sources of the model   *)
(* hash to the same bucket and the same gate set, the case in which they   *)
(* meet.  Gates are two relaxed atomics (address, end of the window), so a *)
(* reader can see one store without the other, in either order; every      *)
(* writer holds the shard mutex, because the gate slot determines the      *)
(* shard.                                                                  *)
(***************************************************************************)
EXTENDS Integers, Sequences

CONSTANTS
  Threads,    \* recv threads
  Ips,        \* source addresses
  NoIp,       \* 0
  Plain,      \* kinds counted without a gate (OPEN, PING, ECHO)
  Gates,      \* kinds with a gate (unknown sid, wrong token, wrong CLOSE), in turn
  NB,         \* buckets a source can probe (RATE_PROBE_MAX)
  NW,         \* ways of a gate set (RATE_GATE_WAYS)
  Budget,     \* budget of each kind per window
  RateWindow, \* RATE_WINDOW_MS
  MaxMs       \* bound on ms

NoThread == "none"

Gated == {Gates[n] : n \in DOMAIN Gates}

ASSUME RateAssumption ==
  /\ {NB, NW, RateWindow, MaxMs} \subseteq Nat \ {0}
  /\ Budget \in [Plain \union Gated -> Nat \ {0}]
  /\ NoIp \notin Ips /\ Gates \in Seq(Gated) /\ Plain \intersect Gated = {}
  /\ NoThread \notin Threads

VARIABLES
  ms,         \* now_ms()
  bkt,        \* rate_shard.buckets
  gate,       \* g_rate_gate, g_tokbad_gate, g_close_gate: one set each
  mu,         \* the thread that holds rate_shard.mu
  th,         \* each thread inside server_rate_allow_*
  claimed     \* history: end of the last gate completed for a source

rateVars == <<ms, bkt, gate, mu, th, claimed>>

Kinds == Plain \union Gated

Buckets == DOMAIN bkt

Ways == 1..NW

Resting == [at |-> "idle", ip |-> NoIp, kind |-> "none", now |-> 0, way |-> 1,
            claims |-> <<>>, ends |-> 0]

\* Tables of nb buckets.
RateStart(nb) ==
  /\ ms = 1
  /\ bkt = [b \in 1..nb |-> [ip |-> NoIp, win |-> 0, cnt |-> [k \in Kinds |-> 0]]]
  /\ gate = [k \in Gated |-> [w \in Ways |-> [ip |-> NoIp, until |-> 0]]]
  /\ mu = NoThread
  /\ th = [t \in Threads |-> Resting]
  /\ claimed = [k \in Gated |-> [ip \in Ips |-> 0]]

RateInit == RateStart(NB)

\* Types, and who is between rate_bucket_enter and rate_shard_unlock holds mu.
RateTypeOK ==
  /\ ms \in 1..MaxMs
  /\ bkt \in [Buckets -> [ip : Ips \union {NoIp}, win : 0..MaxMs,
                          cnt : [Kinds -> Nat]]]
  /\ gate \in [Gated -> [Ways -> [ip : Ips \union {NoIp}, until : Nat]]]
  /\ mu \in Threads \union {NoThread}
  /\ \A t \in Threads :
       /\ th[t].at \in {"idle", "ip", "until", "enter", "claim", "store"}
       /\ th[t].at \in {"claim", "store"} <=> mu = t
  /\ claimed \in [Gated -> [Ips -> Nat]]

-----------------------------------------------------------------------------
(* The bucket under the mutex.                                             *)

Oldest(b) ==
  \A c \in Buckets : bkt[b].win < bkt[c].win \/ (bkt[b].win = bkt[c].win /\ b <= c)

FindIgnoresLater(b, ip) ==
  IF bkt[1].ip = ip \/ bkt[1].win = 0 THEN b = 1 ELSE Oldest(b)

\* rate_bucket_find returns b: the source's own bucket or an unused one, the
\* first of them, else the one with the oldest window.
Find(b, ip) ==
  LET hits == {c \in Buckets : bkt[c].ip = ip \/ (bkt[c].ip = NoIp /\ bkt[c].win = 0)}
  IN IF hits # {} THEN b \in hits /\ \A c \in hits : b <= c ELSE Oldest(b)

WindowOver(b) == ms - bkt[b].win >= RateWindow

\* rate_evict_publish: what the bucket's old source still owes goes to its
\* three gates until that window ends.
Published(b, ip) ==
  IF bkt[b].ip \in {NoIp, ip} \/ WindowOver(b) \/ \A k \in Kinds : bkt[b].cnt[k] = 0
  THEN <<>>
  ELSE [n \in DOMAIN Gates |-> [kind |-> Gates[n], ip |-> bkt[b].ip,
                                until |-> bkt[b].win + RateWindow, now |-> ms]]

\* rate_bucket_touch: the bucket belongs to ip and its window is current.
Touched(b, ip) ==
  IF bkt[b].ip # ip \/ WindowOver(b)
  THEN [ip |-> ip, win |-> ms, cnt |-> [k \in Kinds |-> 0]]
  ELSE bkt[b]

\* Counters are told apart only up to one over the budget.
Bumped(c, k) == IF c > Budget[k] THEN c ELSE c + 1

-----------------------------------------------------------------------------
(* The lock-free gate.                                                     *)

ClaimWaysTakeAny(set, c) == Ways

\* rate_gate_claim: the first way that is free, the source's own, or over.
\* Without one the claim is dropped.
ClaimWays(set, c) ==
  {w \in Ways : set[w].ip = NoIp \/ set[w].ip = c.ip \/ set[w].until <= c.now}

\* A frame of source ip arrives; kinds without a gate go to the bucket.
Frame(t, ip, k) ==
  /\ th[t].at = "idle"
  /\ th' = [th EXCEPT ![t] =
              [at |-> IF k \in Gated THEN "ip" ELSE "enter", ip |-> ip, kind |-> k, now |-> ms,
               way |-> 1, claims |-> <<>>, ends |-> IF k \in Gated THEN claimed[k][ip] ELSE 0]]
  /\ UNCHANGED <<ms, bkt, gate, mu, claimed>>

NextWayIsLast(r) == [r EXCEPT !.at = "enter"]

\* rate_gate_check goes on to the next way, after the last one to the bucket.
NextWay(r) == IF r.way < NW THEN [r EXCEPT !.at = "ip", !.way = @ + 1]
              ELSE [r EXCEPT !.at = "enter"]

\* rate_gate_check: load the address of a way.
ReadIp(t) ==
  /\ th[t].at = "ip"
  /\ th' = [th EXCEPT ![t] =
              IF gate[@.kind][@.way].ip = @.ip THEN [@ EXCEPT !.at = "until"]
              ELSE NextWay(@)]
  /\ UNCHANGED <<ms, bkt, gate, mu, claimed>>

\* rate_gate_check: load its end; a running gate refuses the frame.
ReadUntil(t) ==
  /\ th[t].at = "until"
  /\ th' = [th EXCEPT ![t] =
              IF gate[@.kind][@.way].until > @.now THEN Resting ELSE NextWay(@)]
  /\ UNCHANGED <<ms, bkt, gate, mu, claimed>>

\* rate_bucket_enter and the count, under the mutex.  A plain kind is refused
\* at its limit; a gated kind is counted and, over its limit, claims its gate.
Enter(t) ==
  LET ip == th[t].ip
      k == th[t].kind
  IN /\ th[t].at = "enter" /\ mu = NoThread
     /\ mu' = t
     /\ \E b \in Buckets :
          LET new == Touched(b, ip)
              over == new.cnt[k] >= Budget[k]
              own == [kind |-> k, ip |-> ip, until |-> new.win + RateWindow, now |-> th[t].now]
          IN /\ Find(b, ip)
             /\ bkt' = [bkt EXCEPT ![b] = IF k \in Plain /\ over THEN new
                                          ELSE [new EXCEPT !.cnt[k] = Bumped(@, k)]]
             /\ th' = [th EXCEPT ![t].at = "claim",
                                 ![t].claims = Published(b, ip) \o
                                               (IF k \in Gated /\ over THEN <<own>> ELSE <<>>)]
     /\ UNCHANGED <<ms, gate, claimed>>

\* rate_gate_claim finds no way.
ClaimNone(t) ==
  /\ th[t].at = "claim" /\ th[t].claims # <<>>
  /\ ClaimWays(gate[Head(th[t].claims).kind], Head(th[t].claims)) = {}
  /\ th' = [th EXCEPT ![t].claims = Tail(@)]
  /\ UNCHANGED <<ms, bkt, gate, mu, claimed>>

\* rate_gate_claim: one of the two relaxed stores becomes visible ...
ClaimStore(t) ==
  LET c == Head(th[t].claims)
      ways == ClaimWays(gate[c.kind], c)
  IN /\ th[t].at = "claim" /\ th[t].claims # <<>>
     /\ \E w \in ways :
          /\ \A v \in ways : w <= v
          /\ \E half \in {[gate[c.kind][w] EXCEPT !.ip = c.ip],
                          [gate[c.kind][w] EXCEPT !.until = c.until]} :
               gate' = [gate EXCEPT ![c.kind][w] = half]
          /\ th' = [th EXCEPT ![t].at = "store", ![t].way = w]
     /\ UNCHANGED <<ms, bkt, mu, claimed>>

\* ... and then the other.
ClaimDone(t) ==
  LET c == Head(th[t].claims)
  IN /\ th[t].at = "store"
     /\ gate' = [gate EXCEPT ![c.kind][th[t].way] = [ip |-> c.ip, until |-> c.until]]
     /\ claimed' = [claimed EXCEPT ![c.kind][c.ip] = c.until]
     /\ th' = [th EXCEPT ![t].at = "claim", ![t].claims = Tail(@)]
     /\ UNCHANGED <<ms, bkt, mu>>

\* rate_shard_unlock.
Unlock(t) ==
  /\ th[t].at = "claim" /\ th[t].claims = <<>>
  /\ mu' = NoThread
  /\ th' = [th EXCEPT ![t] = Resting]
  /\ UNCHANGED <<ms, bkt, gate, claimed>>

MsTick ==
  /\ ms < MaxMs
  /\ ms' = ms + 1
  /\ UNCHANGED <<bkt, gate, mu, th, claimed>>

RateNext ==
  \/ \E t \in Threads, ip \in Ips, k \in Kinds : Frame(t, ip, k)
  \/ \E t \in Threads : ReadIp(t) \/ ReadUntil(t) \/ Enter(t) \/ ClaimNone(t)
                        \/ ClaimStore(t) \/ ClaimDone(t) \/ Unlock(t)
  \/ MsTick

RateSpec == RateInit /\ [][RateNext]_rateVars

-----------------------------------------------------------------------------
(* Properties.                                                             *)

\* Whatever the probe meets, a source has one bucket: its counts are never
\* split (the budget is per source, not per thread or flow).  With the types.
OneBucket ==
  /\ RateTypeOK
  /\ \A b, c \in Buckets : bkt[b].ip # NoIp /\ bkt[b].ip = bkt[c].ip => b = c

\* A completed gate stands until its window ends: no other source's claim,
\* and no half-done claim, takes its way.
GateStands ==
  \A k \in Gated, ip \in Ips :
    claimed[k][ip] > ms
      => \E w \in Ways : gate[k][w].ip = ip /\ gate[k][w].until >= claimed[k][ip]

\* A frame that began while its source's gate was complete gets to the bucket
\* and its mutex only after the gate's time is over: a source over its budget,
\* or evicted in mid-window, has no fresh budget to draw on.
GatedStaysOut ==
  \A t \in Threads : th[t].at = "enter" => ms >= th[t].ends

\* The limits hold against the threads that race for them: a source has one
\* bucket, a gate stands while its window lasts, and what is gated stays out
\* (rate_bucket_find, rate_gate_claim, rate_gate_check).
GatesStand == OneBucket /\ GateStands /\ GatedStaysOut
=============================================================================
