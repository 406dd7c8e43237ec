----------------------------- MODULE RateProofs -----------------------------
(* Proofs about the server's rate limiter, for every number of sources,    *)
(* buckets, ways and threads.                                              *)
EXTENDS ServerRate, TLAPS

\* Sequences, as the claims of a thread use them.
LEMMA SeqOf ==
  ASSUME NEW S, NEW q \in Seq(S)
  PROVE  /\ Len(q) \in Nat /\ DOMAIN q = 1..Len(q) /\ (q = <<>> <=> Len(q) = 0)
         /\ \A n \in DOMAIN q : q[n] \in S
  OBVIOUS

\* A sequence of claims is one of any larger set.
LEMMA SeqOfMore ==
  ASSUME NEW S, NEW T, S \subseteq T, NEW q \in Seq(S)
  PROVE  q \in Seq(T)
  OBVIOUS

\* The first claim of a sequence and the ones after it.
LEMMA FirstAndRest ==
  ASSUME NEW S, NEW q \in Seq(S), q # <<>>
  PROVE  /\ Tail(q) \in Seq(S) /\ Head(q) \in S /\ Head(q) = q[1] /\ Len(q) > 0
         /\ Len(Tail(q)) = Len(q) - 1 /\ \A n \in 1..Len(Tail(q)) : Tail(q)[n] = q[n + 1]
  OBVIOUS

\* Claims behind claims.
LEMMA Joined ==
  ASSUME NEW S, NEW q \in Seq(S), NEW r \in Seq(S)
  PROVE  q \o r \in Seq(S) /\ q \o <<>> = q
  OBVIOUS

\* The claims a thread takes along from the bucket to the gates.
Claims == [kind : Gated, ip : Ips, until : Nat, now : 0..MaxMs]

\* The state of a thread inside the rate limiter.
ThreadRec ==
  [at : {"idle", "ip", "until", "enter", "claim", "store"}, ip : Ips \union {NoIp},
   kind : Kinds \union {"none"}, now : 0..MaxMs, way : Ways, claims : Seq(Claims), ends : Nat]

\* The types of the variables.
RTypes ==
  /\ ms \in 1..MaxMs
  /\ bkt \in [Buckets -> [ip : Ips \union {NoIp}, win : 0..MaxMs, cnt : [Kinds -> Nat]]]
  /\ gate \in [Gated -> [Ways -> [ip : Ips \union {NoIp}, until : Nat]]]
  /\ mu \in Threads \union {NoThread}
  /\ th \in [Threads -> ThreadRec]
  /\ claimed \in [Gated -> [Ips -> Nat]]

\* Where a thread stands tells what it holds.
RPlaces ==
  /\ \A t \in Threads : th[t].at \in {"claim", "store"} <=> mu = t
  /\ \A t \in Threads : th[t].at # "idle" => th[t].ip \in Ips /\ th[t].kind \in Kinds
  /\ \A t \in Threads : th[t].at \in {"ip", "until"} => th[t].kind \in Gated
  /\ \A t \in Threads : th[t].at \notin {"claim", "store"} => th[t].claims = <<>>
  /\ \A t \in Threads : th[t].at = "store" => th[t].claims # <<>>
  /\ \A t \in Threads : th[t].now <= ms

\* Buckets fill from the first one on, one per source.
RBuckets ==
  /\ \A b, c \in Buckets : bkt[b].ip # NoIp /\ bkt[b].ip = bkt[c].ip => b = c
  /\ \A b, c \in Buckets : b < c /\ bkt[c].ip # NoIp => bkt[b].ip # NoIp
  /\ \A b \in Buckets : bkt[b].win <= ms /\ (bkt[b].ip = NoIp => bkt[b].win = 0)

\* A claim ends with a window of its source, and the windows of a source only
\* grow: no later claim ends before an earlier one.
Due(c) ==
  /\ c.now <= ms /\ c.until <= ms + RateWindow
  /\ claimed[c.kind][c.ip] <= c.until
  /\ \A b \in Buckets : bkt[b].ip = c.ip => c.until <= bkt[b].win + RateWindow

\* No claim reaches beyond the window of its source, and a thread's gate
\* readings are not ahead of what was claimed.
ROwed ==
  /\ \A k \in Gated, ip \in Ips :
       /\ claimed[k][ip] <= ms + RateWindow
       /\ \A b \in Buckets : bkt[b].ip = ip => claimed[k][ip] <= bkt[b].win + RateWindow
  /\ \A t \in Threads : \A n \in DOMAIN th[t].claims : Due(th[t].claims[n])
  /\ \A t \in Threads : \A n, m \in DOMAIN th[t].claims :
       th[t].claims[n].ip = th[t].claims[m].ip
         => th[t].claims[n].until = th[t].claims[m].until
  /\ \A t \in Threads : th[t].at \in {"ip", "until"} =>
       th[t].ends <= claimed[th[t].kind][th[t].ip]

\* A way that carries the gate of ip and that no half-done claim is taking from it.
Carries(k, w, ip, e) ==
  /\ gate[k][w].ip = ip /\ gate[k][w].until >= e
  /\ \A t \in Threads :
       th[t].at = "store" /\ Head(th[t].claims).kind = k /\ th[t].way = w
         => Head(th[t].claims).ip = ip

\* The time e is over, or one of the ways from `from' on carries it.
Covered(k, ip, e, from) == ms >= e \/ \E w \in Ways : w >= from /\ Carries(k, w, ip, e)

\* Every claim owed to a source is in a gate or in the hands of a thread; a
\* thread that has read ways has not passed one by; one that goes on to the
\* bucket does so after the claims it saw have run out.
RStands ==
  /\ \A k \in Gated, ip \in Ips : Covered(k, ip, claimed[k][ip], 1)
  /\ \A t \in Threads : th[t].at \in {"ip", "until"} =>
       Covered(th[t].kind, th[t].ip, th[t].ends, th[t].way)
  /\ \A t \in Threads : th[t].at = "enter" => ms >= th[t].ends

\* The inductive strengthening of GatesStand.
RateInv ==
  /\ Buckets = 1..NB
  /\ RTypes /\ RPlaces /\ RBuckets /\ ROwed /\ RStands

-----------------------------------------------------------------------------
\* What a bucket holds.
LEMMA BucketTypes ==
  ASSUME RTypes, NEW b \in Buckets
  PROVE  /\ bkt[b] \in [ip : Ips \union {NoIp}, win : 0..MaxMs, cnt : [Kinds -> Nat]]
         /\ bkt[b].ip \in Ips \union {NoIp} /\ bkt[b].win \in 0..MaxMs /\ bkt[b].win \in Nat
<1>1. bkt \in [Buckets -> [ip : Ips \union {NoIp}, win : 0..MaxMs, cnt : [Kinds -> Nat]]]
  BY Zenon DEF RTypes
<1>2. bkt[b] \in [ip : Ips \union {NoIp}, win : 0..MaxMs, cnt : [Kinds -> Nat]]
  BY <1>1, Zenon
<1> QED
  BY <1>2

\* rate_bucket_find returns the source's own bucket when it has one, and leaves
\* no unused bucket before the one it returns.
LEMMA FindFinds ==
  ASSUME RTypes, Buckets = 1..NB, RBuckets, NEW ip \in Ips, NEW b \in Buckets, Find(b, ip)
  PROVE  /\ \A c \in Buckets : bkt[c].ip = ip => c = b
         /\ \A c \in Buckets : c < b => bkt[c].ip # NoIp
<1> DEFINE hits == {c \in Buckets : bkt[c].ip = ip \/ (bkt[c].ip = NoIp /\ bkt[c].win = 0)}
<1>1. \A c \in Buckets : bkt[c].ip = NoIp => c \in hits
  BY Zenon DEF RBuckets
<1>2. ip # NoIp /\ b \in Nat /\ \A c \in Buckets : c \in Nat
  BY RateAssumption
<1>3. CASE hits # {}
  <2>1. b \in hits /\ \A c \in hits : b <= c
    BY <1>3, Zenon DEF Find
  <2>2. ASSUME NEW c \in Buckets, bkt[c].ip = ip PROVE c = b
    <3>1. b <= c
      BY <2>1, <2>2, Zenon
    <3>2. CASE bkt[b].ip = ip
      BY <1>2, <2>2, <3>2, Zenon DEF RBuckets
    <3>3. CASE bkt[b].ip = NoIp
      <4>1. ~(b < c)
        BY <1>2, <2>2, <3>3, Zenon DEF RBuckets
      <4> QED
        BY <1>2, <3>1, <4>1
    <3> QED
      BY <2>1, <3>2, <3>3, Zenon
  <2>3. \A c \in Buckets : c < b => bkt[c].ip # NoIp
    BY <1>1, <1>2, <2>1
  <2> QED
    BY <2>2, <2>3, Zenon
<1>4. CASE hits = {}
  BY <1>1, <1>4, Zenon
<1> QED
  BY <1>3, <1>4, Zenon

\* What an evicted source owes: one claim per gate, to the end of its window.
Owing(b, ip) ==
  IF bkt[b].ip \in {NoIp, ip} THEN {}
  ELSE {[kind |-> k, ip |-> bkt[b].ip, until |-> bkt[b].win + RateWindow, now |-> ms] : k \in Gated}

\* What a full bucket publishes are claims on its source.
LEMMA PublishedOwes ==
  ASSUME NEW b, NEW ip PROVE Published(b, ip) \in Seq(Owing(b, ip))
<1>1. CASE bkt[b].ip \in {NoIp, ip} \/ WindowOver(b) \/ \A k \in Kinds : bkt[b].cnt[k] = 0
  <2>1. Published(b, ip) = <<>>
    BY <1>1, Zenon DEF Published
  <2> QED
    BY <2>1
<1>2. CASE ~(bkt[b].ip \in {NoIp, ip} \/ WindowOver(b) \/ \A k \in Kinds : bkt[b].cnt[k] = 0)
  <2> DEFINE claim(k) == [kind |-> k, ip |-> bkt[b].ip, until |-> bkt[b].win + RateWindow, now |-> ms]
             S == {claim(k) : k \in Gated}
             q == [n \in DOMAIN Gates |-> claim(Gates[n])]
  <2>1. Published(b, ip) = q /\ Owing(b, ip) = S
    BY <1>2, Zenon DEF Published, Owing
  <2>2. DOMAIN Gates = 1..Len(Gates) /\ Len(Gates) \in Nat
    BY RateAssumption
  <2>3. \A n \in DOMAIN Gates : claim(Gates[n]) \in S
    BY Zenon DEF Gated
  <2>4. q \in [1..Len(Gates) -> S]
    <3> HIDE DEF S, claim
    <3> QED
      BY <2>2, <2>3, Zenon
  <2>5. q \in Seq(S)
    <3> HIDE DEF S, q
    <3> QED
      BY <2>2, <2>4
  <2> HIDE DEF S, q
  <2> QED
    BY <2>1, <2>5, Zenon
<1> QED
  BY <1>1, <1>2, Zenon

\* rate_bucket_touch.
LEMMA TouchedIs ==
  ASSUME RTypes, RBuckets, NEW b \in Buckets, NEW ip \in Ips
  PROVE  /\ Touched(b, ip) \in [ip : Ips \union {NoIp}, win : 0..MaxMs, cnt : [Kinds -> Nat]]
         /\ Touched(b, ip).ip = ip /\ Touched(b, ip).win <= ms
         /\ Touched(b, ip).win = ms \/ (bkt[b].ip = ip /\ Touched(b, ip).win = bkt[b].win)
<1>1. ms \in 1..MaxMs /\ MaxMs \in Nat
  BY RateAssumption, Zenon DEF RTypes
<1>2. CASE bkt[b].ip # ip \/ WindowOver(b)
  <2>1. Touched(b, ip) = [ip |-> ip, win |-> ms, cnt |-> [k \in Kinds |-> 0]]
    BY <1>2, Zenon DEF Touched
  <2> QED
    BY <1>1, <2>1
<1>3. CASE bkt[b].ip = ip /\ ~WindowOver(b)
  <2>1. Touched(b, ip) = bkt[b]
    BY <1>3, Zenon DEF Touched
  <2>2. bkt[b].win <= ms
    BY Zenon DEF RBuckets
  <2> QED
    BY <1>3, <2>1, <2>2, BucketTypes, Zenon
<1> QED
  BY <1>2, <1>3, Zenon

\* The claims of a source whose window began at win, made by a frame of time now.
OwnClaims(ip, win, now) ==
  {c \in Claims : c.ip = ip /\ c.now = now /\ c.until = win + RateWindow}

\* All that rate_bucket_enter and the count do, in the terms of the invariant.
LEMMA EnterDoes ==
  ASSUME RTypes, RPlaces, RBuckets, Buckets = 1..NB, NEW t \in Threads, Enter(t)
  PROVE  \E b \in Buckets :
    /\ \A c \in Buckets : bkt[c].ip = th[t].ip => c = b
    /\ \A c \in Buckets : c < b => bkt[c].ip # NoIp
    /\ bkt' \in [Buckets -> [ip : Ips \union {NoIp}, win : 0..MaxMs, cnt : [Kinds -> Nat]]]
    /\ bkt'[b].ip = th[t].ip /\ bkt'[b].win <= ms
    /\ bkt'[b].win = ms \/ (bkt[b].ip = th[t].ip /\ bkt'[b].win = bkt[b].win)
    /\ \A c \in Buckets \ {b} : bkt'[c] = bkt[c]
    /\ th[t].at = "enter" /\ th'[t].at = "claim" /\ mu = NoThread /\ mu' = t
    /\ th' = [th EXCEPT ![t] = [th[t] EXCEPT !.at = "claim", !.claims = th'[t].claims]]
    /\ th'[t].claims \in Seq(Owing(b, th[t].ip) \union OwnClaims(th[t].ip, bkt'[b].win, th[t].now))
    /\ UNCHANGED <<ms, gate, claimed>>
<1> DEFINE ip == th[t].ip
           k == th[t].kind
           touched(b) == Touched(b, ip)
           full(b) == touched(b).cnt[k] >= Budget[k]
           one(b) == [kind |-> k, ip |-> ip, until |-> touched(b).win + RateWindow, now |-> th[t].now]
           counted(b) == IF k \in Plain /\ full(b) THEN touched(b)
                         ELSE [touched(b) EXCEPT !.cnt[k] = Bumped(@, k)]
           owed(b) == Published(b, ip) \o (IF k \in Gated /\ full(b) THEN <<one(b)>> ELSE <<>>)
<1>0. PICK b \in Buckets :
        /\ Find(b, ip)
        /\ bkt' = [bkt EXCEPT ![b] = counted(b)]
        /\ th' = [th EXCEPT ![t].at = "claim", ![t].claims = owed(b)]
  BY Zenon DEF Enter
<1> DEFINE new == touched(b)
           over == full(b)
           mine == one(b)
           put == counted(b)
           due == owed(b)
<1>1. /\ th[t].at = "enter" /\ mu = NoThread /\ mu' = t
      /\ bkt' = [bkt EXCEPT ![b] = put]
      /\ th' = [th EXCEPT ![t].at = "claim", ![t].claims = due]
      /\ UNCHANGED <<ms, gate, claimed>>
  <2> HIDE DEF counted, owed
  <2>1. th[t].at = "enter" /\ mu = NoThread /\ mu' = t /\ UNCHANGED <<ms, gate, claimed>>
    BY Zenon DEF Enter
  <2> QED
    BY <1>0, <2>1, Zenon
<1>2. ip \in Ips /\ k \in Kinds
  BY <1>1, Zenon DEF RPlaces
<1> HIDE DEF ip, k
<1>3. b \in Buckets /\ (\A c \in Buckets : bkt[c].ip = ip => c = b)
      /\ \A c \in Buckets : c < b => bkt[c].ip # NoIp
  BY <1>0, <1>2, FindFinds, Zenon
<1>4. /\ new \in [ip : Ips \union {NoIp}, win : 0..MaxMs, cnt : [Kinds -> Nat]]
      /\ new.ip = ip /\ new.win <= ms
      /\ new.win = ms \/ (bkt[b].ip = ip /\ new.win = bkt[b].win)
  BY <1>2, <1>3, TouchedIs, Zenon
<1> HIDE DEF touched
<1>5. put \in [ip : Ips \union {NoIp}, win : 0..MaxMs, cnt : [Kinds -> Nat]]
      /\ put.ip = new.ip /\ put.win = new.win
  <2>1. new.cnt[k] \in Nat
    BY <1>2, <1>4, Zenon
  <2>2. Bumped(new.cnt[k], k) \in Nat
    BY <2>1 DEF Bumped
  <2> QED
    BY <1>2, <1>4, <2>2, Zenon
<1> HIDE DEF counted
<1>6. th[t] \in [at : {"idle", "ip", "until", "enter", "claim", "store"},
                 ip : Ips \union {NoIp}, kind : Kinds \union {"none"},
                 now : 0..MaxMs, way : Ways, claims : Seq(Claims), ends : Nat]
  BY Zenon DEF RTypes, ThreadRec
<1>7. mine.until \in Nat
  BY <1>4, RateAssumption
<1>8. due \in Seq(Owing(b, ip) \union OwnClaims(ip, new.win, th[t].now))
  <2> DEFINE U == Owing(b, ip) \union OwnClaims(ip, new.win, th[t].now)
  <2>1. Published(b, ip) \in Seq(Owing(b, ip))
    BY PublishedOwes, Zenon
  <2>2. Published(b, ip) \in Seq(U)
    <3>1. Owing(b, ip) \subseteq U
      BY Zenon
    <3> HIDE DEF U
    <3> QED
      BY <2>1, <3>1, SeqOfMore, Zenon
  <2>3. CASE k \in Gated /\ over
    <3>1. mine \in U
      BY <1>2, <1>6, <1>7, <2>3, Zenon DEF Claims, OwnClaims
    <3>2. due = Published(b, ip) \o <<mine>>
      BY <2>3, Zenon
    <3> HIDE DEF mine, U
    <3>3. <<mine>> \in Seq(U)
      BY <3>1
    <3>4. due \in Seq(U)
      BY <2>2, <3>2, <3>3, Joined, Zenon
    <3> QED
      BY <3>4, Zenon DEF U
  <2>4. CASE ~(k \in Gated /\ over)
    <3>1. due = Published(b, ip) \o <<>>
      BY <2>4, Zenon
    <3> HIDE DEF U
    <3>2. due = Published(b, ip)
      BY <2>2, <3>1, Joined, Zenon
    <3>3. due \in Seq(U)
      BY <2>2, <3>2, Zenon
    <3> QED
      BY <3>3, Zenon DEF U
  <2> QED
    BY <2>3, <2>4, Zenon
<1>9. th'[t].claims = due /\ th'[t].at = "claim"
      /\ th' = [th EXCEPT ![t] = [th[t] EXCEPT !.at = "claim", !.claims = due]]
  <2> HIDE DEF owed
  <2>1. th' = [th EXCEPT ![t] = [th[t] EXCEPT !.at = "claim", !.claims = due]]
    BY <1>1, <1>6, Zenon DEF RTypes
  <2> QED
    BY <1>6, <2>1, Zenon DEF RTypes
<1> HIDE DEF owed
<1>10. bkt'[b] = put /\ (\A c \in Buckets \ {b} : bkt'[c] = bkt[c])
       /\ bkt' \in [Buckets -> [ip : Ips \union {NoIp}, win : 0..MaxMs, cnt : [Kinds -> Nat]]]
  BY <1>1, <1>3, <1>5, Zenon DEF RTypes
<1>11. /\ \A c \in Buckets : bkt[c].ip = th[t].ip => c = b
       /\ \A c \in Buckets : c < b => bkt[c].ip # NoIp
  BY <1>3, Zenon DEF ip
<1>12. /\ bkt'[b].ip = th[t].ip /\ bkt'[b].win <= ms
       /\ bkt'[b].win = ms \/ (bkt[b].ip = th[t].ip /\ bkt'[b].win = bkt[b].win)
  BY <1>4, <1>5, <1>10, Zenon DEF ip
<1>13. th'[t].claims \in Seq(Owing(b, th[t].ip) \union OwnClaims(th[t].ip, bkt'[b].win, th[t].now))
  <2>1. bkt'[b].win = new.win
    BY <1>5, <1>10, Zenon
  <2> QED
    BY <1>8, <1>9, <2>1, Zenon DEF ip
<1>14. th' = [th EXCEPT ![t] = [th[t] EXCEPT !.at = "claim", !.claims = th'[t].claims]]
  BY <1>9, Zenon
<1> QED
  BY <1>1, <1>3, <1>9, <1>10, <1>11, <1>12, <1>13, <1>14, Zenon

-----------------------------------------------------------------------------
(* What each step makes of its thread.                                     *)

\* The first way, the first time, and the types of the constants.
LEMMA OneOfEach == 1 \in Ways /\ 0 \in 0..MaxMs /\ RateWindow \in Nat /\ MaxMs \in Nat
  BY RateAssumption DEF Ways

\* A thread that is done is of its type.
LEMMA RestingIs ==
  /\ Resting \in ThreadRec
  /\ Resting.at = "idle" /\ Resting.claims = <<>> /\ Resting.now = 0
  BY OneOfEach DEF Resting, ThreadRec

\* What a frame's arrival changes (rate_check).
LEMMA FrameDoes ==
  ASSUME RTypes, NEW t \in Threads, NEW ip \in Ips, NEW k \in Kinds, Frame(t, ip, k)
  PROVE  /\ th' = [th EXCEPT ![t] = th'[t]] /\ th'[t] \in ThreadRec
         /\ th[t].at = "idle" /\ th'[t].at = (IF k \in Gated THEN "ip" ELSE "enter")
         /\ th'[t].ip = ip /\ th'[t].kind = k /\ th'[t].now = ms /\ th'[t].way = 1
         /\ th'[t].claims = <<>>
         /\ th'[t].ends = IF k \in Gated THEN claimed[k][ip] ELSE 0
         /\ UNCHANGED <<ms, bkt, gate, mu, claimed>>
<1> DEFINE r == [at |-> IF k \in Gated THEN "ip" ELSE "enter", ip |-> ip, kind |-> k, now |-> ms,
                 way |-> 1, claims |-> <<>>, ends |-> IF k \in Gated THEN claimed[k][ip] ELSE 0]
<1>1. th' = [th EXCEPT ![t] = r] /\ th[t].at = "idle" /\ UNCHANGED <<ms, bkt, gate, mu, claimed>>
  BY Zenon DEF Frame
<1>2. (IF k \in Gated THEN claimed[k][ip] ELSE 0) \in Nat /\ ms \in 0..MaxMs
  BY OneOfEach DEF RTypes
<1>3. r \in ThreadRec
  BY <1>2, OneOfEach DEF ThreadRec
<1>4. th'[t] = r
  BY <1>1, Zenon DEF RTypes
<1>5. /\ r.at = (IF k \in Gated THEN "ip" ELSE "enter") /\ r.ip = ip /\ r.kind = k /\ r.now = ms
      /\ r.way = 1 /\ r.claims = <<>> /\ r.ends = (IF k \in Gated THEN claimed[k][ip] ELSE 0)
  BY Zenon
<1> HIDE DEF r
<1> QED
  BY <1>1, <1>3, <1>4, <1>5, Zenon

\* What going on to the next way changes.
LEMMA NextWayIs ==
  ASSUME NEW r \in ThreadRec
  PROVE  /\ NextWay(r) \in ThreadRec
         /\ NextWay(r).ip = r.ip /\ NextWay(r).kind = r.kind /\ NextWay(r).now = r.now /\ NextWay(r).claims = r.claims /\ NextWay(r).ends = r.ends
         /\ IF r.way < NW THEN NextWay(r).at = "ip" /\ NextWay(r).way = r.way + 1
            ELSE NextWay(r).at = "enter" /\ NextWay(r).way = r.way
<1>1. NW \in Nat
  BY RateAssumption, Zenon
<1>2. r.way < NW => r.way + 1 \in Ways
  BY <1>1, SMTT(60) DEF ThreadRec, Ways
<1> QED
  BY <1>2, Zenon DEF NextWay, ThreadRec

\* rate_gate_check's loads.
LEMMA ReadIpDoes ==
  ASSUME RTypes, NEW t \in Threads, ReadIp(t)
  PROVE  /\ th' = [th EXCEPT ![t] = th'[t]] /\ th'[t] \in ThreadRec
         /\ th[t].at = "ip" /\ th'[t].at \in {"ip", "until", "enter"}
         /\ IF gate[th[t].kind][th[t].way].ip = th[t].ip
            THEN th'[t].at = "until" /\ th'[t].way = th[t].way
            ELSE th'[t] = NextWay(th[t])
         /\ th'[t].ip = th[t].ip /\ th'[t].kind = th[t].kind /\ th'[t].now = th[t].now /\ th'[t].claims = th[t].claims /\ th'[t].ends = th[t].ends
         /\ UNCHANGED <<ms, bkt, gate, mu, claimed>>
<1>1. th[t] \in ThreadRec
  BY Zenon DEF RTypes
<1>2. CASE gate[th[t].kind][th[t].way].ip = th[t].ip
  <2> DEFINE r == [th[t] EXCEPT !.at = "until"]
  <2>1. th' = [th EXCEPT ![t] = r] /\ th[t].at = "ip" /\ UNCHANGED <<ms, bkt, gate, mu, claimed>>
    BY <1>2, Zenon DEF ReadIp
  <2>2. r \in ThreadRec /\ r.at = "until" /\ r.way = th[t].way
        /\ r.ip = th[t].ip /\ r.kind = th[t].kind /\ r.now = th[t].now /\ r.claims = th[t].claims /\ r.ends = th[t].ends
    BY <1>1, Zenon DEF ThreadRec
  <2>3. th'[t] = r
    BY <2>1, Zenon DEF RTypes
  <2> QED
    BY <1>2, <2>1, <2>2, <2>3, Zenon
<1>3. CASE ~(gate[th[t].kind][th[t].way].ip = th[t].ip)
  <2> DEFINE r == NextWay(th[t])
  <2>1. th' = [th EXCEPT ![t] = r] /\ th[t].at = "ip" /\ UNCHANGED <<ms, bkt, gate, mu, claimed>>
    BY <1>3, Zenon DEF ReadIp
  <2>2. r \in ThreadRec /\ r.at \in {"ip", "enter"} /\ r.ip = th[t].ip /\ r.kind = th[t].kind /\ r.now = th[t].now /\ r.claims = th[t].claims /\ r.ends = th[t].ends
    BY <1>1, NextWayIs, Zenon
  <2> HIDE DEF r
  <2>3. th'[t] = r
    BY <2>1, Zenon DEF RTypes
  <2> QED
    BY <1>3, <2>1, <2>2, <2>3, Zenon DEF r
<1> QED
  BY <1>2, <1>3, Zenon

\* What the read of a way's deadline changes.
LEMMA ReadUntilDoes ==
  ASSUME RTypes, NEW t \in Threads, ReadUntil(t)
  PROVE  /\ th' = [th EXCEPT ![t] = th'[t]] /\ th'[t] \in ThreadRec
         /\ th[t].at = "until" /\ th'[t].at \in {"idle", "ip", "enter"}
         /\ IF gate[th[t].kind][th[t].way].until > th[t].now
            THEN th'[t] = Resting
            ELSE /\ th'[t] = NextWay(th[t])
                 /\ th'[t].ip = th[t].ip /\ th'[t].kind = th[t].kind /\ th'[t].now = th[t].now /\ th'[t].claims = th[t].claims /\ th'[t].ends = th[t].ends
         /\ UNCHANGED <<ms, bkt, gate, mu, claimed>>
<1>1. th[t] \in ThreadRec
  BY Zenon DEF RTypes
<1>2. CASE gate[th[t].kind][th[t].way].until > th[t].now
  <2>1. th' = [th EXCEPT ![t] = Resting] /\ th[t].at = "until" /\ UNCHANGED <<ms, bkt, gate, mu, claimed>>
    BY <1>2, Zenon DEF ReadUntil
  <2>2. th'[t] = Resting
    BY <2>1, Zenon DEF RTypes
  <2> QED
    BY <1>2, <2>1, <2>2, RestingIs, Zenon
<1>3. CASE ~(gate[th[t].kind][th[t].way].until > th[t].now)
  <2> DEFINE r == NextWay(th[t])
  <2>1. th' = [th EXCEPT ![t] = r] /\ th[t].at = "until" /\ UNCHANGED <<ms, bkt, gate, mu, claimed>>
    BY <1>3, Zenon DEF ReadUntil
  <2>2. r \in ThreadRec /\ r.at \in {"ip", "enter"} /\ r.ip = th[t].ip /\ r.kind = th[t].kind /\ r.now = th[t].now /\ r.claims = th[t].claims /\ r.ends = th[t].ends
    BY <1>1, NextWayIs, Zenon
  <2> HIDE DEF r
  <2>3. th'[t] = r
    BY <2>1, Zenon DEF RTypes
  <2> QED
    BY <1>3, <2>1, <2>2, <2>3, Zenon DEF r
<1> QED
  BY <1>2, <1>3, Zenon

\* The rest of a list of claims.
LEMMA TailOfClaims ==
  ASSUME NEW r \in ThreadRec, r.claims # <<>>
  PROVE  /\ Tail(r.claims) \in Seq(Claims)
         /\ 1 \in DOMAIN r.claims /\ Head(r.claims) = r.claims[1] /\ Head(r.claims) \in Claims
         /\ \A n \in DOMAIN Tail(r.claims) :
              n + 1 \in DOMAIN r.claims /\ Tail(r.claims)[n] = r.claims[n + 1]
<1> DEFINE s == r.claims
<1>1. s \in Seq(Claims) /\ s # <<>>
  BY Zenon DEF ThreadRec
<1> HIDE DEF s
<1>2. /\ Tail(s) \in Seq(Claims) /\ Head(s) \in Claims
      /\ Len(Tail(s)) = Len(s) - 1 /\ \A n \in 1..Len(Tail(s)) : Tail(s)[n] = s[n + 1]
  BY <1>1, FirstAndRest, Zenon
<1>3. DOMAIN s = 1..Len(s) /\ DOMAIN Tail(s) = 1..Len(Tail(s)) /\ Len(s) \in Nat /\ Len(s) > 0
  BY <1>1, <1>2, SeqOf, FirstAndRest, Zenon
<1>4. Head(s) = s[1]
  BY <1>1
<1> QED
  BY <1>2, <1>3, <1>4 DEF s

\* What a claim that finds no way changes.
LEMMA ClaimNoneDoes ==
  ASSUME RTypes, NEW t \in Threads, ClaimNone(t)
  PROVE  /\ th' = [th EXCEPT ![t] = th'[t]] /\ th'[t] \in ThreadRec
         /\ th[t].at = "claim" /\ th'[t].at = "claim" /\ th[t].claims # <<>>
         /\ th'[t].claims = Tail(th[t].claims)
         /\ th'[t].ip = th[t].ip /\ th'[t].kind = th[t].kind /\ th'[t].now = th[t].now /\ th'[t].way = th[t].way /\ th'[t].ends = th[t].ends
         /\ UNCHANGED <<ms, bkt, gate, mu, claimed>>
<1>1. th[t] \in ThreadRec
  BY Zenon DEF RTypes
<1> DEFINE r == [th[t] EXCEPT !.claims = Tail(th[t].claims)]
<1>2. /\ th' = [th EXCEPT ![t] = r] /\ th[t].at = "claim" /\ th[t].claims # <<>>
      /\ UNCHANGED <<ms, bkt, gate, mu, claimed>>
  BY <1>1, Zenon DEF ClaimNone, RTypes
<1>3. Tail(th[t].claims) \in Seq(Claims)
  BY <1>1, <1>2, TailOfClaims, Zenon
<1>4. r \in ThreadRec /\ r.at = th[t].at /\ r.claims = Tail(th[t].claims)
      /\ r.ip = th[t].ip /\ r.kind = th[t].kind /\ r.now = th[t].now /\ r.way = th[t].way /\ r.ends = th[t].ends
  BY <1>1, <1>3, Zenon DEF ThreadRec
<1> HIDE DEF r
<1>5. th'[t] = r
  BY <1>2, Zenon DEF RTypes
<1> QED
  BY <1>2, <1>4, <1>5, Zenon

\* What the release of the mutex changes.
LEMMA UnlockDoes ==
  ASSUME RTypes, NEW t \in Threads, Unlock(t)
  PROVE  /\ th' = [th EXCEPT ![t] = th'[t]] /\ th'[t] = Resting
         /\ th[t].at = "claim" /\ th[t].claims = <<>> /\ mu' = NoThread
         /\ UNCHANGED <<ms, bkt, gate, claimed>>
  BY Zenon DEF Unlock, RTypes

\* rate_gate_claim: the way it takes, and what the first store makes of it.
LEMMA ClaimStoreDoes ==
  ASSUME RTypes, NEW t \in Threads, ClaimStore(t)
  PROVE  \E w \in Ways, half \in [ip : Ips \union {NoIp}, until : Nat] :
         LET c == Head(th[t].claims)
             old == gate[c.kind][w]
         IN  /\ c \in Claims
             /\ old.ip = NoIp \/ old.ip = c.ip \/ old.until <= c.now
             /\ \/ half.ip = c.ip /\ half.until = old.until
                \/ half.ip = old.ip /\ half.until = c.until
             /\ gate' = [gate EXCEPT ![c.kind][w] = half]
             /\ th' = [th EXCEPT ![t] = th'[t]] /\ th'[t] \in ThreadRec
             /\ th[t].at = "claim" /\ th'[t].at = "store" /\ th[t].claims # <<>> /\ th'[t].way = w
             /\ th'[t].ip = th[t].ip /\ th'[t].kind = th[t].kind /\ th'[t].now = th[t].now /\ th'[t].claims = th[t].claims /\ th'[t].ends = th[t].ends
             /\ UNCHANGED <<ms, bkt, mu, claimed>>
<1>1. th[t] \in ThreadRec
  BY Zenon DEF RTypes
<1> DEFINE c == Head(th[t].claims)
           ways == ClaimWays(gate[c.kind], c)
<1>2. /\ th[t].at = "claim" /\ th[t].claims # <<>> /\ UNCHANGED <<ms, bkt, mu, claimed>>
      /\ \E w \in ways :
           /\ \E half \in {[gate[c.kind][w] EXCEPT !.ip = c.ip], [gate[c.kind][w] EXCEPT !.until = c.until]} :
                gate' = [gate EXCEPT ![c.kind][w] = half]
           /\ th' = [th EXCEPT ![t].at = "store", ![t].way = w]
  BY Zenon DEF ClaimStore
<1>3. c \in Claims
  BY <1>1, <1>2, TailOfClaims, Zenon
<1> HIDE DEF c
<1>4. PICK w \in ways :
        /\ \E half \in {[gate[c.kind][w] EXCEPT !.ip = c.ip], [gate[c.kind][w] EXCEPT !.until = c.until]} :
             gate' = [gate EXCEPT ![c.kind][w] = half]
        /\ th' = [th EXCEPT ![t].at = "store", ![t].way = w]
  BY <1>2, Zenon
<1> DEFINE r == [th[t] EXCEPT !.at = "store", !.way = w]
<1>6. w \in Ways /\ (gate[c.kind][w].ip = NoIp \/ gate[c.kind][w].ip = c.ip \/ gate[c.kind][w].until <= c.now)
  BY Zenon DEF ClaimWays
<1>7. gate[c.kind][w] \in [ip : Ips \union {NoIp}, until : Nat]
  BY <1>3, <1>6 DEF RTypes, Claims
<1>8. \E half \in [ip : Ips \union {NoIp}, until : Nat] :
        /\ \/ half.ip = c.ip /\ half.until = gate[c.kind][w].until
           \/ half.ip = gate[c.kind][w].ip /\ half.until = c.until
        /\ gate' = [gate EXCEPT ![c.kind][w] = half]
  <2> DEFINE h1 == [gate[c.kind][w] EXCEPT !.ip = c.ip]
             h2 == [gate[c.kind][w] EXCEPT !.until = c.until]
  <2>1. h1 \in [ip : Ips \union {NoIp}, until : Nat] /\ h1.ip = c.ip /\ h1.until = gate[c.kind][w].until
    BY <1>3, <1>7, Zenon DEF Claims
  <2>2. h2 \in [ip : Ips \union {NoIp}, until : Nat] /\ h2.ip = gate[c.kind][w].ip /\ h2.until = c.until
    BY <1>3, <1>7, Zenon DEF Claims
  <2>3. gate' = [gate EXCEPT ![c.kind][w] = h1] \/ gate' = [gate EXCEPT ![c.kind][w] = h2]
    BY <1>4, Zenon
  <2> HIDE DEF h1, h2
  <2> QED
    BY <2>1, <2>2, <2>3, Zenon
<1>9. th' = [th EXCEPT ![t] = r]
  BY <1>1, <1>4, Zenon DEF RTypes
<1>10. r \in ThreadRec /\ r.at = "store" /\ r.way = w
      /\ r.ip = th[t].ip /\ r.kind = th[t].kind /\ r.now = th[t].now /\ r.claims = th[t].claims /\ r.ends = th[t].ends
  BY <1>1, <1>6, Zenon DEF ThreadRec
<1> HIDE DEF r
<1>11. th'[t] = r
  BY <1>9, Zenon DEF RTypes
<1>12. PICK half \in [ip : Ips \union {NoIp}, until : Nat] :
        /\ \/ half.ip = c.ip /\ half.until = gate[c.kind][w].until
           \/ half.ip = gate[c.kind][w].ip /\ half.until = c.until
        /\ gate' = [gate EXCEPT ![c.kind][w] = half]
  BY <1>8, Zenon
<1>13. /\ th' = [th EXCEPT ![t] = th'[t]] /\ th'[t] \in ThreadRec /\ th'[t].at = "store" /\ th'[t].way = w
       /\ th'[t].ip = th[t].ip /\ th'[t].kind = th[t].kind /\ th'[t].now = th[t].now /\ th'[t].claims = th[t].claims /\ th'[t].ends = th[t].ends
  BY <1>9, <1>10, <1>11, Zenon
<1> QED
  BY <1>2, <1>3, <1>6, <1>12, <1>13, Zenon DEF c

\* ... and the second one.
LEMMA ClaimDoneDoes ==
  ASSUME RTypes, RPlaces, NEW t \in Threads, ClaimDone(t)
  PROVE  LET c == Head(th[t].claims)
         IN  /\ c \in Claims
             /\ gate' = [gate EXCEPT ![c.kind][th[t].way] = [ip |-> c.ip, until |-> c.until]]
             /\ claimed' = [claimed EXCEPT ![c.kind][c.ip] = c.until]
             /\ th' = [th EXCEPT ![t] = th'[t]] /\ th'[t] \in ThreadRec
             /\ th[t].at = "store" /\ th'[t].at = "claim" /\ th[t].claims # <<>>
             /\ th'[t].claims = Tail(th[t].claims)
             /\ th'[t].ip = th[t].ip /\ th'[t].kind = th[t].kind /\ th'[t].now = th[t].now /\ th'[t].way = th[t].way /\ th'[t].ends = th[t].ends
             /\ UNCHANGED <<ms, bkt, mu>>
<1>1. th[t] \in ThreadRec
  BY Zenon  DEF RTypes
<1> DEFINE c == Head(th[t].claims)
           r == [th[t] EXCEPT !.at = "claim", !.claims = Tail(th[t].claims)]
<1>2. /\ th[t].at = "store"
      /\ gate' = [gate EXCEPT ![c.kind][th[t].way] = [ip |-> c.ip, until |-> c.until]]
      /\ claimed' = [claimed EXCEPT ![c.kind][c.ip] = c.until]
      /\ th' = [th EXCEPT ![t].at = "claim", ![t].claims = Tail(@)]
      /\ UNCHANGED <<ms, bkt, mu>>
  BY Zenon  DEF ClaimDone
<1>3. th[t].claims # <<>>
  BY <1>2, Zenon DEF RPlaces
<1>4. c \in Claims /\ Tail(th[t].claims) \in Seq(Claims)
  BY <1>1, <1>3, TailOfClaims, Zenon
<1>5. th' = [th EXCEPT ![t] = r]
  BY <1>1, <1>2, Zenon DEF RTypes
<1>6. r \in ThreadRec /\ r.at = "claim" /\ r.claims = Tail(th[t].claims)
      /\ r.ip = th[t].ip /\ r.kind = th[t].kind /\ r.now = th[t].now /\ r.way = th[t].way /\ r.ends = th[t].ends
  BY <1>1, <1>4, Zenon DEF ThreadRec
<1> HIDE DEF r
<1>7. th'[t] = r
  BY <1>5, Zenon DEF RTypes
<1> QED
  BY <1>2, <1>3, <1>4, <1>5, <1>6, <1>7, Zenon

-----------------------------------------------------------------------------
(* Every step keeps the invariant.                                         *)

\* A frame arrives.
LEMMA FrameKeeps ==
  ASSUME RateInv, NEW t \in Threads, NEW src \in Ips, NEW kd \in Kinds, Frame(t, src, kd)
  PROVE  RateInv'
<1>0. RTypes /\ RPlaces /\ RBuckets /\ ROwed /\ RStands /\ Buckets = 1..NB
  BY Zenon DEF RateInv
<1>1. /\ UNCHANGED <<ms, bkt, gate, claimed>> /\ th' = [th EXCEPT ![t] = th'[t]] /\ th'[t] \in ThreadRec
      /\ th[t].at # "store" /\ th'[t].at # "store"
  BY <1>0, FrameDoes, Zenon
<1>2. Buckets' = Buckets
  BY <1>1, Zenon DEF Buckets
<1>3. \A s \in Threads \ {t} : th'[s] = th[s]
  BY <1>0, <1>1, Zenon DEF RTypes
<1>4. RTypes'
  <2>1. mu' \in Threads \union {NoThread}
    BY <1>0, FrameDoes, Zenon DEF RTypes
  <2> QED
    BY <1>0, <1>1, <1>2, <2>1, Zenon DEF RTypes
<1>5. RBuckets'
  BY <1>0, <1>1, <1>2, Zenon DEF RBuckets
<1>6. RPlaces'
  <2>1. /\ th'[t].at \in {"claim", "store"} <=> mu' = t
        /\ \A s \in Threads \ {t} : mu' = s <=> mu = s
    BY <1>0, FrameDoes, RateAssumption, Zenon DEF RPlaces
  <2>2. /\ th'[t].at # "idle" => th'[t].ip \in Ips /\ th'[t].kind \in Kinds
        /\ th'[t].at \in {"ip", "until"} => th'[t].kind \in Gated
    BY <1>0, FrameDoes, RateAssumption, SMTT(60) DEF RPlaces
  <2>3. /\ th'[t].at \notin {"claim", "store"} => th'[t].claims = <<>>
        /\ th'[t].now <= ms
    BY <1>0, FrameDoes, RateAssumption, SMTT(60) DEF RPlaces, RTypes
  <2> QED
    BY <1>0, <1>1, <1>3, <2>1, <2>2, <2>3, SMTT(60) DEF RPlaces
<1>7. ROwed'
  <2>1. \A n \in DOMAIN th'[t].claims : Due(th'[t].claims[n])
    BY <1>0, FrameDoes, SMTT(60)
  <2>2. \A n, m \in DOMAIN th'[t].claims :
          th'[t].claims[n].ip = th'[t].claims[m].ip => th'[t].claims[n].until = th'[t].claims[m].until
    BY <1>0, FrameDoes, SMTT(60)
  <2>3. th'[t].at \in {"ip", "until"} => th'[t].ends <= claimed[th'[t].kind][th'[t].ip]
    BY <1>0, FrameDoes, SMTT(60) DEF RTypes
  <2>4. \A k \in Gated, ip \in Ips :
          /\ claimed'[k][ip] <= ms' + RateWindow
          /\ \A b \in Buckets' : bkt'[b].ip = ip => claimed'[k][ip] <= bkt'[b].win + RateWindow
    BY <1>0, <1>1, <1>2, Zenon DEF ROwed
  <2>5. \A s \in Threads : \A n \in DOMAIN th'[s].claims : Due(th'[s].claims[n])
    BY <1>0, <1>3, <2>1, Zenon DEF ROwed
  <2>6. \A s \in Threads : \A n \in DOMAIN th'[s].claims : Due(th[s].claims[n])'
    BY <1>1, <1>2, <2>5, Zenon DEF Due
  <2>7. \A s \in Threads : \A n, m \in DOMAIN th'[s].claims :
          th'[s].claims[n].ip = th'[s].claims[m].ip => th'[s].claims[n].until = th'[s].claims[m].until
    BY <1>0, <1>3, <2>2, SMTT(60) DEF ROwed
  <2>8. \A s \in Threads : th'[s].at \in {"ip", "until"} => th'[s].ends <= claimed'[th'[s].kind][th'[s].ip]
    BY <1>0, <1>1, <1>3, <2>3, Zenon DEF ROwed
  <2> QED
    BY <2>4, <2>6, <2>7, <2>8, Zenon DEF ROwed
<1>8. RStands'
  <2>1. th'[t].at \in {"ip", "until"} =>
          Covered(th'[t].kind, th'[t].ip, th'[t].ends, th'[t].way)
    BY <1>0, FrameDoes DEF RStands
  <2>2. th'[t].at = "enter" => ms >= th'[t].ends
    BY <1>0, FrameDoes DEF RTypes
  <2>3. \A s \in Threads : th'[s].at = "store" => th'[s] = th[s] /\ th[s].at = "store"
    BY <1>1, <1>3, Zenon
  <2>4. \A k \in Gated, ip \in Ips : Covered(k, ip, claimed[k][ip], 1)'
    BY <1>0, <1>1, <2>3, SMTT(60) DEF RStands, Covered, Carries
  <2>5. ASSUME NEW s \in Threads, th'[s].at \in {"ip", "until"}
        PROVE  Covered(th[s].kind, th[s].ip, th[s].ends, th[s].way)'
    <3>1. Covered(th'[s].kind, th'[s].ip, th'[s].ends, th'[s].way)
      BY <1>0, <1>3, <2>1, <2>5, Zenon DEF RStands
    <3> QED
      BY <1>1, <2>3, <3>1, SMTT(60) DEF Covered, Carries
  <2>6. \A s \in Threads : th'[s].at = "enter" => ms >= th'[s].ends
    BY <1>0, <1>3, <2>2, Zenon DEF RStands
  <2> QED
    BY <1>1, <2>4, <2>5, <2>6, Zenon DEF RStands
<1> QED
  BY <1>0, <1>2, <1>4, <1>5, <1>6, <1>7, <1>8, Zenon DEF RateInv

\* rate_gate_check loads an address.
LEMMA ReadIpKeeps ==
  ASSUME RateInv, NEW t \in Threads, ReadIp(t)
  PROVE  RateInv'
<1>0. RTypes /\ RPlaces /\ RBuckets /\ ROwed /\ RStands /\ Buckets = 1..NB
  BY Zenon  DEF RateInv
<1>1. /\ UNCHANGED <<ms, bkt, gate, claimed>> /\ th' = [th EXCEPT ![t] = th'[t]] /\ th'[t] \in ThreadRec
      /\ th[t].at # "store" /\ th'[t].at # "store"
  BY <1>0, ReadIpDoes, Zenon
<1>2. Buckets' = Buckets
  BY <1>1, Zenon DEF Buckets
<1>3. \A s \in Threads \ {t} : th'[s] = th[s]
  BY <1>0, <1>1, Zenon DEF RTypes
<1>9. /\ th[t].at = "ip" /\ th[t].ip \in Ips /\ th[t].kind \in Gated /\ th[t].claims = <<>>
      /\ th[t] \in ThreadRec /\ th[t].way \in Ways
      /\ th'[t].ip = th[t].ip /\ th'[t].kind = th[t].kind /\ th'[t].claims = th[t].claims
      /\ th'[t].ends = th[t].ends /\ th'[t].now = th[t].now /\ mu' = mu
      /\ th'[t].at \in {"ip", "until", "enter"}
  BY <1>0, ReadIpDoes, NextWayIs, ZenonT(60) DEF RPlaces, RTypes, ThreadRec
<1>4. RTypes'
  <2>1. mu' \in Threads \union {NoThread}
    BY <1>0, ReadIpDoes, ZenonT(60) DEF RTypes
  <2> QED
    BY <1>0, <1>1, <1>2, <2>1, Zenon DEF RTypes
<1>5. RBuckets'
  BY <1>0, <1>1, <1>2, Zenon DEF RBuckets
<1>6. RPlaces'
  <2>1. /\ th'[t].at \in {"claim", "store"} <=> mu' = t
        /\ \A s \in Threads \ {t} : mu' = s <=> mu = s
    BY <1>0, ReadIpDoes, <1>9, Zenon DEF RPlaces
  <2>2. /\ th'[t].at # "idle" => th'[t].ip \in Ips /\ th'[t].kind \in Kinds
        /\ th'[t].at \in {"ip", "until"} => th'[t].kind \in Gated
    BY <1>0, ReadIpDoes, <1>9, Zenon DEF RPlaces
  <2>3. /\ th'[t].at \notin {"claim", "store"} => th'[t].claims = <<>>
        /\ th'[t].now <= ms
    BY <1>0, ReadIpDoes, <1>9, Zenon DEF RPlaces, RTypes
  <2> QED
    BY <1>0, <1>1, <1>3, <2>1, <2>2, <2>3, SMTT(60) DEF RPlaces
<1>7. ROwed'
  <2>1. \A n \in DOMAIN th'[t].claims : Due(th'[t].claims[n])
    BY <1>9, SMTT(60)
  <2>2. \A n, m \in DOMAIN th'[t].claims :
          th'[t].claims[n].ip = th'[t].claims[m].ip => th'[t].claims[n].until = th'[t].claims[m].until
    BY <1>9, SMTT(60)
  <2>3. th'[t].at \in {"ip", "until"} => th'[t].ends <= claimed[th'[t].kind][th'[t].ip]
    BY <1>0, <1>9, Zenon DEF ROwed
  <2>4. \A k \in Gated, ip \in Ips :
          /\ claimed'[k][ip] <= ms' + RateWindow
          /\ \A b \in Buckets' : bkt'[b].ip = ip => claimed'[k][ip] <= bkt'[b].win + RateWindow
    BY <1>0, <1>1, <1>2, Zenon DEF ROwed
  <2>5. \A s \in Threads : \A n \in DOMAIN th'[s].claims : Due(th'[s].claims[n])
    BY <1>0, <1>3, <2>1, Zenon DEF ROwed
  <2>6. \A s \in Threads : \A n \in DOMAIN th'[s].claims : Due(th[s].claims[n])'
    BY <1>1, <1>2, <2>5, Zenon DEF Due
  <2>7. \A s \in Threads : \A n, m \in DOMAIN th'[s].claims :
          th'[s].claims[n].ip = th'[s].claims[m].ip => th'[s].claims[n].until = th'[s].claims[m].until
    BY <1>0, <1>3, <2>2, SMTT(60) DEF ROwed
  <2>8. \A s \in Threads : th'[s].at \in {"ip", "until"} => th'[s].ends <= claimed'[th'[s].kind][th'[s].ip]
    BY <1>0, <1>1, <1>3, <2>3, Zenon DEF ROwed
  <2> QED
    BY <2>4, <2>6, <2>7, <2>8, Zenon DEF ROwed
<1>8. RStands'
  <2>1. th'[t].at \in {"ip", "until"} =>
          Covered(th'[t].kind, th'[t].ip, th'[t].ends, th'[t].way)
    <3>1. Covered(th[t].kind, th[t].ip, th[t].ends, th[t].way)
      BY <1>0, <1>9, Zenon DEF RStands
    <3>2. CASE gate[th[t].kind][th[t].way].ip = th[t].ip
      <4>1. th'[t].way = th[t].way
        BY <1>0, <3>2, ReadIpDoes, Zenon
      <4> QED
        BY <1>9, <3>1, <4>1, Zenon
    <3>3. CASE gate[th[t].kind][th[t].way].ip # th[t].ip
      <4>1. \A w \in Ways : w >= th[t].way /\ Carries(th[t].kind, w, th[t].ip, th[t].ends) => w >= th[t].way + 1
        BY <1>9, <3>3, SMTT(60) DEF Carries, Ways
      <4>2. th'[t].at = "ip" => th'[t].way = th[t].way + 1
        BY <1>0, <1>9, <3>3, ReadIpDoes, NextWayIs, SMTT(60)
      <4>3. th'[t].at # "until"
        BY <1>0, <1>9, <3>3, ReadIpDoes, NextWayIs, Zenon
      <4> QED
        BY <1>9, <3>1, <4>1, <4>2, <4>3, Zenon DEF Covered
    <3> QED
      BY <3>2, <3>3, Zenon
  <2>2. th'[t].at = "enter" => ms >= th'[t].ends
    <3> SUFFICES ASSUME th'[t].at = "enter" PROVE ms >= th[t].ends
      BY <1>9, Zenon
    <3>1. gate[th[t].kind][th[t].way].ip # th[t].ip /\ ~(th[t].way < NW)
      BY <1>0, <1>9, ReadIpDoes, NextWayIs, Zenon
    <3>2. Covered(th[t].kind, th[t].ip, th[t].ends, th[t].way)
      BY <1>0, <1>9, Zenon DEF RStands
    <3>3. \A w \in Ways : w >= th[t].way => w = th[t].way
      BY <1>9, <3>1, RateAssumption, SMTT(60) DEF Ways
    <3> QED
      BY <3>1, <3>2, <3>3, Zenon DEF Covered, Carries
  <2>3. \A s \in Threads : th'[s].at = "store" => th'[s] = th[s] /\ th[s].at = "store"
    BY <1>1, <1>3, Zenon
  <2>4. \A k \in Gated, ip \in Ips : Covered(k, ip, claimed[k][ip], 1)'
    BY <1>0, <1>1, <2>3, SMTT(60) DEF RStands, Covered, Carries
  <2>5. ASSUME NEW s \in Threads, th'[s].at \in {"ip", "until"}
        PROVE  Covered(th[s].kind, th[s].ip, th[s].ends, th[s].way)'
    <3>1. Covered(th'[s].kind, th'[s].ip, th'[s].ends, th'[s].way)
      BY <1>0, <1>3, <2>1, <2>5, Zenon DEF RStands
    <3> QED
      BY <1>1, <2>3, <3>1, SMTT(60) DEF Covered, Carries
  <2>6. \A s \in Threads : th'[s].at = "enter" => ms >= th'[s].ends
    BY <1>0, <1>3, <2>2, Zenon DEF RStands
  <2> QED
    BY <1>1, <2>4, <2>5, <2>6, Zenon DEF RStands
<1> QED
  BY <1>0, <1>2, <1>4, <1>5, <1>6, <1>7, <1>8, Zenon DEF RateInv

\* rate_gate_check loads the end of a gate.
LEMMA ReadUntilKeeps ==
  ASSUME RateInv, NEW t \in Threads, ReadUntil(t)
  PROVE  RateInv'
<1>0. RTypes /\ RPlaces /\ RBuckets /\ ROwed /\ RStands /\ Buckets = 1..NB
  BY Zenon DEF RateInv
<1>1. /\ UNCHANGED <<ms, bkt, gate, claimed>> /\ th' = [th EXCEPT ![t] = th'[t]] /\ th'[t] \in ThreadRec
      /\ th[t].at # "store" /\ th'[t].at # "store"
  BY <1>0, ReadUntilDoes, ZenonT(60)
<1>2. Buckets' = Buckets
  BY <1>1, ZenonT(60) DEF Buckets
<1>3. \A s \in Threads \ {t} : th'[s] = th[s]
  BY <1>0, <1>1, Zenon DEF RTypes
<1>9. /\ th[t].at = "until" /\ th[t].ip \in Ips /\ th[t].kind \in Gated /\ th[t].claims = <<>>
      /\ th[t] \in ThreadRec /\ th[t].way \in Ways /\ th[t].now <= ms /\ th[t].now \in Nat
      /\ th[t].ends \in Nat /\ ms \in Nat /\ gate[th[t].kind][th[t].way].until \in Nat
      /\ mu' = mu
  BY <1>0, ReadUntilDoes, SMTT(60), Z3T(60) DEF RPlaces, RTypes, ThreadRec
<1>10. \/ th'[t] = Resting
       \/ /\ ~(gate[th[t].kind][th[t].way].until > th[t].now)
          /\ th'[t].ip = th[t].ip /\ th'[t].kind = th[t].kind /\ th'[t].claims = <<>>
          /\ th'[t].ends = th[t].ends /\ th'[t].now = th[t].now
          /\ IF th[t].way < NW THEN th'[t].at = "ip" /\ th'[t].way = th[t].way + 1
             ELSE th'[t].at = "enter"
  BY <1>0, <1>9, ReadUntilDoes, NextWayIs, SMTT(60)
<1>11. th'[t].claims = <<>> /\ (th'[t].at \notin {"ip", "enter"} => th'[t] = Resting)
  BY <1>10, RestingIs, Zenon
<1>4. RTypes'
  <2>1. mu' \in Threads \union {NoThread}
    BY <1>0, ReadUntilDoes, Zenon DEF RTypes
  <2> QED
    BY <1>0, <1>1, <1>2, <2>1, Zenon DEF RTypes
<1>5. RBuckets'
  BY <1>0, <1>1, <1>2, ZenonT(60) DEF RBuckets
<1>6. RPlaces'
  <2>1. /\ th'[t].at \in {"claim", "store"} <=> mu' = t
        /\ \A s \in Threads \ {t} : mu' = s <=> mu = s
    BY <1>0, ReadUntilDoes, <1>9, <1>10, <1>11, RestingIs, OneOfEach, Zenon DEF RPlaces
  <2>2. /\ th'[t].at # "idle" => th'[t].ip \in Ips /\ th'[t].kind \in Kinds
        /\ th'[t].at \in {"ip", "until"} => th'[t].kind \in Gated
    BY <1>0, ReadUntilDoes, <1>9, <1>10, <1>11, RestingIs, OneOfEach, ZenonT(60) DEF RPlaces
  <2>3. /\ th'[t].at \notin {"claim", "store"} => th'[t].claims = <<>>
        /\ th'[t].now <= ms
    BY <1>0, ReadUntilDoes, <1>9, <1>10, <1>11, RestingIs, OneOfEach, SMTT(60) DEF RPlaces, RTypes
  <2> QED
    BY <1>0, <1>1, <1>3, <2>1, <2>2, <2>3 DEF RPlaces
<1>7. ROwed'
  <2>1. \A n \in DOMAIN th'[t].claims : Due(th'[t].claims[n])
    BY <1>11
  <2>2. \A n, m \in DOMAIN th'[t].claims :
          th'[t].claims[n].ip = th'[t].claims[m].ip => th'[t].claims[n].until = th'[t].claims[m].until
    BY <1>11, SMTT(60)
  <2>3. th'[t].at \in {"ip", "until"} => th'[t].ends <= claimed[th'[t].kind][th'[t].ip]
    BY <1>0, <1>9, <1>10, RestingIs, Zenon DEF ROwed
  <2>4. \A k \in Gated, ip \in Ips :
          /\ claimed'[k][ip] <= ms' + RateWindow
          /\ \A b \in Buckets' : bkt'[b].ip = ip => claimed'[k][ip] <= bkt'[b].win + RateWindow
    BY <1>0, <1>1, <1>2, Zenon DEF ROwed
  <2>5. \A s \in Threads : \A n \in DOMAIN th'[s].claims : Due(th'[s].claims[n])
    BY <1>0, <1>3, <2>1, Zenon DEF ROwed
  <2>6. \A s \in Threads : \A n \in DOMAIN th'[s].claims : Due(th[s].claims[n])'
    BY <1>1, <1>2, <2>5, Zenon DEF Due
  <2>7. \A s \in Threads : \A n, m \in DOMAIN th'[s].claims :
          th'[s].claims[n].ip = th'[s].claims[m].ip => th'[s].claims[n].until = th'[s].claims[m].until
    BY <1>0, <1>3, <2>2 DEF ROwed
  <2>8. \A s \in Threads : th'[s].at \in {"ip", "until"} => th'[s].ends <= claimed'[th'[s].kind][th'[s].ip]
    BY <1>0, <1>1, <1>3, <2>3, Zenon DEF ROwed
  <2> QED
    BY <2>4, <2>6, <2>7, <2>8, Zenon DEF ROwed
<1>8. RStands'
  <2>1. th'[t].at \in {"ip", "until"} =>
          Covered(th'[t].kind, th'[t].ip, th'[t].ends, th'[t].way)
    <3> SUFFICES ASSUME th'[t].at \in {"ip", "until"}
                 PROVE Covered(th'[t].kind, th'[t].ip, th'[t].ends, th'[t].way)
      BY Zenon 
    <3>1. Covered(th[t].kind, th[t].ip, th[t].ends, th[t].way)
      BY <1>0, <1>9, Zenon DEF RStands
    <3>2. /\ gate[th[t].kind][th[t].way].until <= ms
          /\ th'[t].ip = th[t].ip /\ th'[t].kind = th[t].kind /\ th'[t].ends = th[t].ends
          /\ th'[t].way = th[t].way + 1
      BY <1>9, <1>10, RestingIs, SMTT(60)
    <3>3. \A w \in Ways : w >= th[t].way /\ Carries(th[t].kind, w, th[t].ip, th[t].ends)
                            => w >= th[t].way + 1 \/ ms >= th[t].ends
      BY <1>9, <3>2, SMTT(60) DEF Carries, Ways
    <3> QED
      BY <3>1, <3>2, <3>3, Zenon DEF Covered
  <2>2. th'[t].at = "enter" => ms >= th'[t].ends
    <3> SUFFICES ASSUME th'[t].at = "enter" PROVE ms >= th'[t].ends
      BY Zenon
    <3>1. Covered(th[t].kind, th[t].ip, th[t].ends, th[t].way)
      BY <1>0, <1>9, Zenon DEF RStands
    <3>2. /\ gate[th[t].kind][th[t].way].until <= ms /\ th'[t].ends = th[t].ends
          /\ ~(th[t].way < NW)
      BY <1>9, <1>10, RestingIs, SMTT(60)
    <3>3. \A w \in Ways : w >= th[t].way => w = th[t].way
      BY <1>9, <3>2, RateAssumption, SMTT(60) DEF Ways
    <3> QED
      BY <1>9, <3>1, <3>2, <3>3, SMTT(60) DEF Covered, Carries
  <2>3. \A s \in Threads : th'[s].at = "store" => th'[s] = th[s] /\ th[s].at = "store"
    BY <1>1, <1>3, Zenon
  <2>4. \A k \in Gated, ip \in Ips : Covered(k, ip, claimed[k][ip], 1)'
    BY <1>0, <1>1, <2>3 DEF RStands, Covered, Carries
  <2>5. ASSUME NEW s \in Threads, th'[s].at \in {"ip", "until"}
        PROVE  Covered(th[s].kind, th[s].ip, th[s].ends, th[s].way)'
    <3>1. Covered(th'[s].kind, th'[s].ip, th'[s].ends, th'[s].way)
      BY <1>0, <1>3, <2>1, <2>5, Zenon DEF RStands
    <3> QED
      BY <1>1, <2>3, <3>1 DEF Covered, Carries
  <2>6. \A s \in Threads : th'[s].at = "enter" => ms >= th'[s].ends
    BY <1>0, <1>3, <2>2, Zenon DEF RStands
  <2> QED
    BY <1>1, <2>4, <2>5, <2>6, Zenon DEF RStands
<1> QED
  BY <1>0, <1>2, <1>4, <1>5, <1>6, <1>7, <1>8, Zenon DEF RateInv

\* rate_gate_claim gives up.
LEMMA ClaimNoneKeeps ==
  ASSUME RateInv, NEW t \in Threads, ClaimNone(t)
  PROVE  RateInv'
<1>0. RTypes /\ RPlaces /\ RBuckets /\ ROwed /\ RStands /\ Buckets = 1..NB
  BY Zenon DEF RateInv
<1>1. /\ UNCHANGED <<ms, bkt, gate, claimed>> /\ th' = [th EXCEPT ![t] = th'[t]] /\ th'[t] \in ThreadRec
      /\ th[t].at # "store" /\ th'[t].at # "store"
  BY <1>0, ClaimNoneDoes, Zenon
<1>2. Buckets' = Buckets
  BY <1>1, Zenon DEF Buckets
<1>3. \A s \in Threads \ {t} : th'[s] = th[s]
  BY <1>0, <1>1, Zenon DEF RTypes
<1>9. /\ th[t].at = "claim" /\ th'[t].at = "claim" /\ mu' = mu
      /\ th'[t].claims = Tail(th[t].claims) /\ th'[t].now = th[t].now
      /\ th'[t].ip = th[t].ip /\ th'[t].kind = th[t].kind
      /\ \A n \in DOMAIN Tail(th[t].claims) :
           n + 1 \in DOMAIN th[t].claims /\ Tail(th[t].claims)[n] = th[t].claims[n + 1]
  BY <1>0, ClaimNoneDoes, TailOfClaims, Zenon DEF RTypes
<1>4. RTypes'
  <2>1. mu' \in Threads \union {NoThread}
    BY <1>0, ClaimNoneDoes, Zenon DEF RTypes
  <2> QED
    BY <1>0, <1>1, <1>2, <2>1, Zenon DEF RTypes
<1>5. RBuckets'
  BY <1>0, <1>1, <1>2, Zenon DEF RBuckets
<1>6. RPlaces'
  <2>1. /\ th'[t].at \in {"claim", "store"} <=> mu' = t
        /\ \A s \in Threads \ {t} : mu' = s <=> mu = s
    BY <1>0, ClaimNoneDoes, <1>9, Zenon DEF RPlaces
  <2>2. /\ th'[t].at # "idle" => th'[t].ip \in Ips /\ th'[t].kind \in Kinds
        /\ th'[t].at \in {"ip", "until"} => th'[t].kind \in Gated
    BY <1>0, ClaimNoneDoes, <1>9, Zenon DEF RPlaces
  <2>3. /\ th'[t].at \notin {"claim", "store"} => th'[t].claims = <<>>
        /\ th'[t].now <= ms
    BY <1>0, ClaimNoneDoes, <1>9, Zenon DEF RPlaces, RTypes
  <2> QED
    BY <1>0, <1>1, <1>3, <2>1, <2>2, <2>3 DEF RPlaces
<1>7. ROwed'
  <2>1. \A n \in DOMAIN th'[t].claims : Due(th'[t].claims[n])
    BY <1>0, <1>9, Zenon DEF ROwed
  <2>2. \A n, m \in DOMAIN th'[t].claims :
          th'[t].claims[n].ip = th'[t].claims[m].ip => th'[t].claims[n].until = th'[t].claims[m].until
    BY <1>0, <1>9, SMTT(60) DEF ROwed
  <2>3. th'[t].at \in {"ip", "until"} => th'[t].ends <= claimed[th'[t].kind][th'[t].ip]
    BY <1>9, Zenon
  <2>4. \A k \in Gated, ip \in Ips :
          /\ claimed'[k][ip] <= ms' + RateWindow
          /\ \A b \in Buckets' : bkt'[b].ip = ip => claimed'[k][ip] <= bkt'[b].win + RateWindow
    BY <1>0, <1>1, <1>2, Zenon DEF ROwed
  <2>5. \A s \in Threads : \A n \in DOMAIN th'[s].claims : Due(th'[s].claims[n])
    BY <1>0, <1>3, <2>1, Zenon DEF ROwed
  <2>6. \A s \in Threads : \A n \in DOMAIN th'[s].claims : Due(th[s].claims[n])'
    BY <1>1, <1>2, <2>5, Zenon DEF Due
  <2>7. \A s \in Threads : \A n, m \in DOMAIN th'[s].claims :
          th'[s].claims[n].ip = th'[s].claims[m].ip => th'[s].claims[n].until = th'[s].claims[m].until
    BY <1>0, <1>3, <2>2 DEF ROwed
  <2>8. \A s \in Threads : th'[s].at \in {"ip", "until"} => th'[s].ends <= claimed'[th'[s].kind][th'[s].ip]
    BY <1>0, <1>1, <1>3, <2>3, Zenon DEF ROwed
  <2> QED
    BY <2>4, <2>6, <2>7, <2>8, Zenon DEF ROwed
<1>8. RStands'
  <2>1. th'[t].at \in {"ip", "until"} =>
          Covered(th'[t].kind, th'[t].ip, th'[t].ends, th'[t].way)
    BY <1>9, Zenon
  <2>2. th'[t].at = "enter" => ms >= th'[t].ends
    BY <1>9, Zenon
  <2>3. \A s \in Threads : th'[s].at = "store" => th'[s] = th[s] /\ th[s].at = "store"
    BY <1>1, <1>3, Zenon
  <2>4. \A k \in Gated, ip \in Ips : Covered(k, ip, claimed[k][ip], 1)'
    BY <1>0, <1>1, <2>3 DEF RStands, Covered, Carries
  <2>5. ASSUME NEW s \in Threads, th'[s].at \in {"ip", "until"}
        PROVE  Covered(th[s].kind, th[s].ip, th[s].ends, th[s].way)'
    <3>1. Covered(th'[s].kind, th'[s].ip, th'[s].ends, th'[s].way)
      BY <1>0, <1>3, <2>1, <2>5, Zenon DEF RStands
    <3> QED
      BY <1>1, <2>3, <3>1 DEF Covered, Carries
  <2>6. \A s \in Threads : th'[s].at = "enter" => ms >= th'[s].ends
    BY <1>0, <1>3, <2>2, Zenon DEF RStands
  <2> QED
    BY <1>1, <2>4, <2>5, <2>6, Zenon DEF RStands
<1> QED
  BY <1>0, <1>2, <1>4, <1>5, <1>6, <1>7, <1>8, Zenon DEF RateInv

\* rate_shard_unlock.
LEMMA UnlockKeeps ==
  ASSUME RateInv, NEW t \in Threads, Unlock(t)
  PROVE  RateInv'
<1>0. RTypes /\ RPlaces /\ RBuckets /\ ROwed /\ RStands /\ Buckets = 1..NB
  BY Zenon DEF RateInv
<1>1. /\ UNCHANGED <<ms, bkt, gate, claimed>> /\ th' = [th EXCEPT ![t] = th'[t]] /\ th'[t] \in ThreadRec
      /\ th[t].at # "store" /\ th'[t].at # "store"
  BY <1>0, UnlockDoes, RestingIs, Zenon
<1>2. Buckets' = Buckets
  BY <1>1, Zenon DEF Buckets
<1>3. \A s \in Threads \ {t} : th'[s] = th[s]
  BY <1>0, <1>1, Zenon DEF RTypes
<1>9. th[t].at = "claim" /\ th'[t] = Resting /\ mu' = NoThread /\ mu = t
  BY <1>0, UnlockDoes, Zenon DEF RPlaces
<1>4. RTypes'
  <2>1. mu' \in Threads \union {NoThread}
    BY <1>0, UnlockDoes, RestingIs, Zenon DEF RTypes
  <2> QED
    BY <1>0, <1>1, <1>2, <2>1, Zenon DEF RTypes
<1>5. RBuckets'
  BY <1>0, <1>1, <1>2, Zenon DEF RBuckets
<1>6. RPlaces'
  <2>1. /\ th'[t].at \in {"claim", "store"} <=> mu' = t
        /\ \A s \in Threads \ {t} : mu' = s <=> mu = s
    BY <1>0, UnlockDoes, RestingIs, <1>9, OneOfEach, RateAssumption, Zenon DEF RPlaces
  <2>2. /\ th'[t].at # "idle" => th'[t].ip \in Ips /\ th'[t].kind \in Kinds
        /\ th'[t].at \in {"ip", "until"} => th'[t].kind \in Gated
    BY <1>0, UnlockDoes, RestingIs, <1>9, OneOfEach, RateAssumption, Zenon DEF RPlaces
  <2>3. /\ th'[t].at \notin {"claim", "store"} => th'[t].claims = <<>>
        /\ th'[t].now <= ms
    BY <1>0, UnlockDoes, RestingIs, <1>9, OneOfEach, RateAssumption, SMTT(60) DEF RPlaces, RTypes
  <2> QED
    BY <1>0, <1>1, <1>3, <2>1, <2>2, <2>3 DEF RPlaces
<1>7. ROwed'
  <2>1. \A n \in DOMAIN th'[t].claims : Due(th'[t].claims[n])
    BY <1>9, RestingIs
  <2>2. \A n, m \in DOMAIN th'[t].claims :
          th'[t].claims[n].ip = th'[t].claims[m].ip => th'[t].claims[n].until = th'[t].claims[m].until
    BY <1>9, RestingIs
  <2>3. th'[t].at \in {"ip", "until"} => th'[t].ends <= claimed[th'[t].kind][th'[t].ip]
    BY <1>9, RestingIs, Zenon
  <2>4. \A k \in Gated, ip \in Ips :
          /\ claimed'[k][ip] <= ms' + RateWindow
          /\ \A b \in Buckets' : bkt'[b].ip = ip => claimed'[k][ip] <= bkt'[b].win + RateWindow
    BY <1>0, <1>1, <1>2, Zenon DEF ROwed
  <2>5. \A s \in Threads : \A n \in DOMAIN th'[s].claims : Due(th'[s].claims[n])
    BY <1>0, <1>3, <2>1, Zenon DEF ROwed
  <2>6. \A s \in Threads : \A n \in DOMAIN th'[s].claims : Due(th[s].claims[n])'
    BY <1>1, <1>2, <2>5, Zenon DEF Due
  <2>7. \A s \in Threads : \A n, m \in DOMAIN th'[s].claims :
          th'[s].claims[n].ip = th'[s].claims[m].ip => th'[s].claims[n].until = th'[s].claims[m].until
    BY <1>0, <1>3, <2>2 DEF ROwed
  <2>8. \A s \in Threads : th'[s].at \in {"ip", "until"} => th'[s].ends <= claimed'[th'[s].kind][th'[s].ip]
    BY <1>0, <1>1, <1>3, <2>3, Zenon DEF ROwed
  <2> QED
    BY <2>4, <2>6, <2>7, <2>8, Zenon DEF ROwed
<1>8. RStands'
  <2>1. th'[t].at \in {"ip", "until"} =>
          Covered(th'[t].kind, th'[t].ip, th'[t].ends, th'[t].way)
    BY <1>9, RestingIs, Zenon
  <2>2. th'[t].at = "enter" => ms >= th'[t].ends
    BY <1>9, RestingIs, Zenon
  <2>3. \A s \in Threads : th'[s].at = "store" => th'[s] = th[s] /\ th[s].at = "store"
    BY <1>1, <1>3, Zenon
  <2>4. \A k \in Gated, ip \in Ips : Covered(k, ip, claimed[k][ip], 1)'
    BY <1>0, <1>1, <2>3 DEF RStands, Covered, Carries
  <2>5. ASSUME NEW s \in Threads, th'[s].at \in {"ip", "until"}
        PROVE  Covered(th[s].kind, th[s].ip, th[s].ends, th[s].way)'
    <3>1. Covered(th'[s].kind, th'[s].ip, th'[s].ends, th'[s].way)
      BY <1>0, <1>3, <2>1, <2>5, Zenon DEF RStands
    <3> QED
      BY <1>1, <2>3, <3>1 DEF Covered, Carries
  <2>6. \A s \in Threads : th'[s].at = "enter" => ms >= th'[s].ends
    BY <1>0, <1>3, <2>2, Zenon DEF RStands
  <2> QED
    BY <1>1, <2>4, <2>5, <2>6, Zenon DEF RStands
<1> QED
  BY <1>0, <1>2, <1>4, <1>5, <1>6, <1>7, <1>8, Zenon DEF RateInv

\* rate_bucket_enter and the count.
LEMMA EnterKeeps ==
  ASSUME RateInv, NEW t \in Threads, Enter(t)
  PROVE  RateInv'
<1>0. RTypes /\ RPlaces /\ RBuckets /\ ROwed /\ RStands /\ Buckets = 1..NB
  BY Zenon DEF RateInv
<1> DEFINE ip == th[t].ip
           U(b) == Owing(b, ip) \union OwnClaims(ip, bkt'[b].win, th[t].now)
<1>1. PICK b \in Buckets :
    /\ \A c \in Buckets : bkt[c].ip = ip => c = b
    /\ \A c \in Buckets : c < b => bkt[c].ip # NoIp
    /\ bkt' \in [Buckets -> [ip : Ips \union {NoIp}, win : 0..MaxMs, cnt : [Kinds -> Nat]]]
    /\ bkt'[b].ip = ip /\ bkt'[b].win <= ms
    /\ bkt'[b].win = ms \/ (bkt[b].ip = ip /\ bkt'[b].win = bkt[b].win)
    /\ \A c \in Buckets \ {b} : bkt'[c] = bkt[c]
    /\ th[t].at = "enter" /\ th'[t].at = "claim" /\ mu = NoThread /\ mu' = t
    /\ th' = [th EXCEPT ![t] = [th[t] EXCEPT !.at = "claim", !.claims = th'[t].claims]]
    /\ th'[t].claims \in Seq(U(b))
    /\ UNCHANGED <<ms, gate, claimed>>
  BY <1>0, EnterDoes, Zenon
<1>2. ip \in Ips /\ th[t].kind \in Kinds /\ ip # NoIp /\ t # NoThread
  BY <1>0, <1>1, RateAssumption DEF RPlaces
<1>3. Buckets' = Buckets /\ ms \in Nat /\ RateWindow \in Nat
  BY <1>0, <1>1, RateAssumption, SMTT(60) DEF Buckets, RTypes
<1>4. bkt[b].win \in Nat /\ bkt'[b].win \in Nat /\ bkt[b].ip \in Ips \union {NoIp} /\ bkt[b].win <= ms
  BY <1>0, <1>1, BucketTypes, SMTT(60) DEF RBuckets
<1>5. U(b) \subseteq Claims
  <2>1. bkt[b].win + RateWindow \in Nat /\ ms \in 0..MaxMs
    BY <1>0, <1>3, <1>4, SMTT(60) DEF RTypes
  <2>2. Owing(b, ip) \subseteq Claims
    BY <1>4, <2>1, SMTT(60) DEF Owing, Claims
  <2> QED
    BY <2>2, Zenon DEF OwnClaims
<1>6. ASSUME NEW c \in U(b)
      PROVE  c.until = IF c.ip = ip THEN bkt'[b].win + RateWindow ELSE bkt[b].win + RateWindow
  BY <1>6, SMTT(60) DEF Owing, OwnClaims
<1>7. ASSUME NEW c \in U(b) PROVE Due(c)'
  <2>1. c \in Claims /\ c.kind \in Gated /\ c.ip \in Ips /\ c.until \in Nat
    BY <1>5, <1>7, Zenon DEF Claims
  <2>2. claimed[c.kind][c.ip] \in Nat /\ claimed[c.kind][c.ip] <= ms + RateWindow
    BY <1>0, <2>1, ZenonT(60) DEF RTypes, ROwed
  <2>3. CASE c \in Owing(b, ip)
    <3>1. c.ip = bkt[b].ip /\ c.ip # ip /\ c.now = ms /\ c.until = bkt[b].win + RateWindow
      BY <2>3, SMTT(60) DEF Owing
    <3>2. c.now <= ms /\ c.until <= ms + RateWindow
      BY <1>3, <1>4, <3>1, SMTT(60)
    <3>3. claimed[c.kind][c.ip] <= c.until
      BY <1>0, <2>1, <3>1, Zenon DEF ROwed
    <3>4. \A d \in Buckets : bkt'[d].ip # c.ip
      <4>1. \A d \in Buckets \ {b} : bkt[d].ip # bkt[b].ip
        BY <1>0, <2>1, <3>1, RateAssumption, Zenon DEF RBuckets
      <4> QED
        BY <1>1, <3>1, <4>1, Zenon
    <3> QED
      BY <1>1, <1>3, <3>2, <3>3, <3>4, Zenon DEF Due
  <2>4. CASE c \in OwnClaims(ip, bkt'[b].win, th[t].now)
    <3>1. c.ip = ip /\ c.now = th[t].now /\ c.until = bkt'[b].win + RateWindow
      BY <2>4, Zenon DEF OwnClaims
    <3>2. c.now <= ms /\ c.until <= ms + RateWindow
      BY <1>0, <1>1, <1>3, <1>4, <3>1, SMTT(60) DEF RPlaces
    <3>3. claimed[c.kind][c.ip] <= c.until
      <4>1. bkt[b].ip = ip => claimed[c.kind][c.ip] <= bkt[b].win + RateWindow
        BY <1>0, <2>1, <3>1, Zenon DEF ROwed
      <4> QED
        BY <1>1, <2>2, <3>1, <4>1, SMTT(60)
    <3>4. \A d \in Buckets : bkt'[d].ip = c.ip => d = b
      BY <1>1, <3>1, Zenon
    <3>5. \A d \in Buckets : bkt'[d].ip = c.ip => c.until <= bkt'[d].win + RateWindow
      BY <1>3, <1>4, <3>1, <3>4, SMTT(60)
    <3> QED
      BY <1>1, <1>3, <3>2, <3>3, <3>5, Zenon DEF Due
  <2> QED
    BY <1>7, <2>3, <2>4, Zenon
<1>8. th'[t].claims \in Seq(Claims) /\ \A n \in DOMAIN th'[t].claims : th'[t].claims[n] \in U(b)
  <2> DEFINE q == th'[t].claims
             V == U(b)
  <2>1. q \in Seq(V) /\ V \subseteq Claims
    BY <1>1, <1>5, Zenon
  <2> HIDE DEF q, V
  <2>2. q \in Seq(Claims)
    BY <2>1, SeqOfMore, Zenon
  <2>3. \A n \in DOMAIN q : q[n] \in V
    BY <2>1, SeqOf, Zenon
  <2> QED
    BY <2>2, <2>3, Zenon DEF q, V
<1> HIDE DEF U
<1>9. /\ th'[t] \in ThreadRec /\ th'[t].ip = ip /\ th'[t].kind = th[t].kind /\ th'[t].now = th[t].now
      /\ \A s \in Threads \ {t} : th'[s] = th[s]
      /\ th' = [th EXCEPT ![t] = th'[t]]
  <2>1. th[t] \in ThreadRec
    BY <1>0, Zenon DEF RTypes
  <2>2. th'[t] = [th[t] EXCEPT !.at = "claim", !.claims = th'[t].claims]
    BY <1>0, <1>1, Zenon DEF RTypes
  <2>3. \A s \in Threads \ {t} : th'[s] = th[s]
    BY <1>0, <1>1, Zenon DEF RTypes
  <2>4. th'[t] \in ThreadRec /\ th'[t].ip = ip /\ th'[t].kind = th[t].kind /\ th'[t].now = th[t].now
    BY <1>8, <2>1, <2>2, Zenon DEF ThreadRec
  <2>5. th' = [th EXCEPT ![t] = th'[t]]
    BY <1>1, <2>2, Zenon
  <2> QED
    BY <2>3, <2>4, <2>5, Zenon
<1>10. \A s \in Threads \ {t} : th'[s].claims = <<>> /\ th[s].at \notin {"claim", "store"}
  BY <1>0, <1>1, <1>9, RateAssumption DEF RPlaces
<1>11. RTypes'
  <2>1. th' \in [Threads -> ThreadRec]
    BY <1>0, <1>9, Zenon DEF RTypes
  <2> QED
    BY <1>0, <1>1, <1>3, <2>1, Zenon DEF RTypes
<1>12. RPlaces'
  <2>1. \A s \in Threads : th'[s].at \in {"claim", "store"} <=> mu' = s
    BY <1>1, <1>9, <1>10, Zenon
  <2>2. /\ th'[t].now <= ms /\ ms' = ms /\ th'[t].at = "claim"
        /\ th'[t].ip \in Ips /\ th'[t].kind \in Kinds
    BY <1>0, <1>1, <1>2, <1>9, Zenon DEF RPlaces
  <2>3. \A s \in Threads \ {t} : th'[s] = th[s]
    BY <1>9, Zenon
  <2> QED
    BY <1>0, <2>1, <2>2, <2>3, Zenon DEF RPlaces
<1>13. RBuckets'
  <2>1. ASSUME NEW c \in Buckets, NEW d \in Buckets, bkt'[c].ip # NoIp, bkt'[c].ip = bkt'[d].ip
        PROVE c = d
    <3>1. \A x \in Buckets \ {b} : bkt'[x] = bkt[x] /\ bkt[x].ip # ip
      BY <1>1, Zenon
    <3>2. bkt'[b].ip = ip
      BY <1>1, Zenon
    <3> QED
      BY <1>0, <2>1, <3>1, <3>2 DEF RBuckets
  <2>2. ASSUME NEW c \in Buckets, NEW d \in Buckets, c < d, bkt'[d].ip # NoIp PROVE bkt'[c].ip # NoIp
    BY <1>0, <1>1, <1>2, <2>2, ZenonT(60) DEF RBuckets
  <2>3. \A c \in Buckets : bkt'[c].win <= ms /\ (bkt'[c].ip = NoIp => bkt'[c].win = 0)
    BY <1>0, <1>1, <1>2, ZenonT(60) DEF RBuckets
  <2> QED
    BY <1>1, <1>3, <2>1, <2>2, <2>3, ZenonT(60) DEF RBuckets
<1>14. ROwed'
  <2>1. ASSUME NEW k \in Gated, NEW a \in Ips, NEW c \in Buckets, bkt'[c].ip = a
        PROVE  claimed[k][a] <= bkt'[c].win + RateWindow
    <3>1. CASE c # b
      BY <1>0, <1>1, <2>1, <3>1, Zenon DEF ROwed
    <3>2. CASE c = b
      <4>1. claimed[k][a] <= ms + RateWindow /\ (bkt[b].ip = a => claimed[k][a] <= bkt[b].win + RateWindow)
        BY <1>0, <2>1, Zenon DEF ROwed
      <4> QED
        BY <1>1, <2>1, <3>2, <4>1, Zenon
    <3> QED
      BY <3>1, <3>2, Zenon
  <2>2. \A k \in Gated, a \in Ips : claimed[k][a] <= ms + RateWindow
    BY <1>0, Zenon DEF ROwed
  <2>3. \A s \in Threads : \A n \in DOMAIN th'[s].claims : Due(th[s].claims[n])'
    <3>1. ASSUME NEW s \in Threads, NEW n \in DOMAIN th'[s].claims PROVE Due(th[s].claims[n])'
      <4>1. s = t
        BY <1>10, <3>1
      <4>2. th'[t].claims[n] \in U(b)
        BY <1>8, <3>1, <4>1, Zenon
      <4> QED
        BY <1>7, <4>1, <4>2, Zenon DEF Due
    <3> QED
      BY <3>1, Zenon
  <2>4. \A n, m \in DOMAIN th'[t].claims :
          th'[t].claims[n].ip = th'[t].claims[m].ip => th'[t].claims[n].until = th'[t].claims[m].until
    BY <1>6, <1>8, Zenon
  <2>5. \A s \in Threads : \A n, m \in DOMAIN th'[s].claims :
          th'[s].claims[n].ip = th'[s].claims[m].ip => th'[s].claims[n].until = th'[s].claims[m].until
    BY <1>10, <2>4, SMTT(60)
  <2>6. \A s \in Threads : th'[s].at \in {"ip", "until"} => th'[s].ends <= claimed[th'[s].kind][th'[s].ip]
    BY <1>0, <1>1, <1>9, Zenon DEF ROwed
  <2> QED
    BY <1>1, <1>3, <2>1, <2>2, <2>3, <2>5, <2>6, Zenon DEF ROwed
<1>15. RStands'
  <2>1. \A s \in Threads : th'[s].at # "store"
    <3>1. th'[t].at = "claim"
      BY <1>1, Zenon
    <3>2. \A s \in Threads \ {t} : th'[s] = th[s]
      BY <1>9, Zenon
    <3> QED
      BY <1>10, <3>1, <3>2, Zenon
  <2>2. \A s \in Threads : th'[s].at \in {"ip", "until", "enter"} => th'[s] = th[s]
    BY <1>1, <1>9, Zenon
  <2>3. \A k \in Gated, a \in Ips : Covered(k, a, claimed[k][a], 1)'
    BY <1>0, <1>1, <2>1, SMTT(60) DEF RStands, Covered, Carries
  <2>4. ASSUME NEW s \in Threads, th'[s].at \in {"ip", "until"}
        PROVE  Covered(th[s].kind, th[s].ip, th[s].ends, th[s].way)'
    <3>1. Covered(th'[s].kind, th'[s].ip, th'[s].ends, th'[s].way)
      BY <1>0, <2>2, <2>4, Zenon DEF RStands
    <3> QED
      BY <1>1, <2>1, <3>1, Zenon DEF Covered, Carries
  <2>5. \A s \in Threads : th'[s].at = "enter" => ms >= th'[s].ends
    BY <1>0, <2>2, Zenon DEF RStands
  <2> QED
    BY <1>1, <2>3, <2>4, <2>5, Zenon DEF RStands
<1> QED
  BY <1>0, <1>3, <1>11, <1>12, <1>13, <1>14, <1>15, Zenon DEF RateInv

\* The types of the clock, the claims and the gates, instance by instance.
LEMMA RateTyped ==
  ASSUME RTypes
  PROVE  /\ ms \in Nat
         /\ \A k \in Gated, ip \in Ips : claimed[k][ip] \in Nat
         /\ \A k \in Gated, w \in Ways : gate[k][w].until \in Nat
  BY DEF RTypes

\* The fields of a claim.
LEMMA ClaimFields ==
  ASSUME NEW c \in Claims
  PROVE  c.kind \in Gated /\ c.ip \in Ips /\ c.until \in Nat /\ c.now \in Nat
  BY OneOfEach DEF Claims

\* Ends only grow: the order of claims is transitive.
LEMMA AtLeast ==
  ASSUME NEW a \in Nat, NEW b \in Nat, NEW e \in Nat, e <= b
  PROVE  b <= a => a >= e
  OBVIOUS

\* An end that is not over yet is after every earlier reading of the clock.
LEMMA NotOver ==
  ASSUME NEW m \in Nat, NEW e \in Nat, ~(m >= e), NEW x \in Nat, NEW y \in Nat, y <= m, x >= e
  PROVE  ~(x <= y)
  OBVIOUS

\* What both stores of rate_gate_claim leave of a standing gate: the way they
\* write carries no gate of another source whose time is not over.
LEMMA StillCovered ==
  ASSUME RateInv, NEW t \in Threads, NEW w \in Ways, NEW new,
         th[t].claims # <<>>, th[t].at \in {"claim", "store"},
         gate' = [gate EXCEPT ![Head(th[t].claims).kind][w] = new],
         new.ip \in Ips \union {NoIp}, new.until \in Nat,
         LET c == Head(th[t].claims)
             old == gate[c.kind][w]
         IN  /\ old.ip \in Ips => old.ip = c.ip \/ old.until <= c.now
                                  \/ (th[t].at = "store" /\ th[t].way = w)
             /\ new.ip = c.ip \/ new.ip = old.ip
             /\ new.until = c.until \/ new.until = old.until,
         \A s \in Threads \ {t} : th'[s] = th[s],
         th'[t].at = "store" => th'[t].way = w /\ Head(th'[t].claims) = Head(th[t].claims),
         ms' = ms,
         NEW k \in Gated, NEW ip \in Ips, NEW e \in Nat, NEW from, e <= claimed[k][ip],
         Covered(k, ip, e, from)
  PROVE  Covered(k, ip, e, from)'
<1> DEFINE c == Head(th[t].claims)
           old == gate[c.kind][w]
<1>0. RTypes /\ RPlaces /\ ROwed
  BY Zenon DEF RateInv
<1>1. CASE ms >= e
  BY <1>1, Zenon DEF Covered
<1>2. CASE ~(ms >= e)
  <2>1. PICK v \in Ways : v >= from /\ Carries(k, v, ip, e)
    BY <1>2, Zenon DEF Covered
  <2>2. /\ c \in Claims /\ c.kind \in Gated /\ c.ip \in Ips /\ c.until \in Nat /\ c.now \in Nat
        /\ 1 \in DOMAIN th[t].claims /\ c = th[t].claims[1]
    <3>1. th[t] \in ThreadRec
      BY <1>0, Zenon DEF RTypes
    <3>2. /\ c \in Claims /\ 1 \in DOMAIN th[t].claims /\ c = th[t].claims[1]
      BY <3>1, TailOfClaims, Zenon
    <3> HIDE DEF c
    <3>3. c.kind \in Gated /\ c.ip \in Ips /\ c.until \in Nat /\ c.now \in Nat
      BY <3>2, ClaimFields, Zenon
    <3> QED
      BY <3>2, <3>3, Zenon
  <2>3. /\ c.now <= ms
        /\ claimed[c.kind][c.ip] <= c.until
    BY <1>0, <2>2, Zenon DEF ROwed, Due
  <2> HIDE DEF c
  <2>4. claimed[k][ip] \in Nat /\ ms \in Nat
    BY <1>0, RateTyped, Zenon
  <2>5. gate[k][v].ip = ip /\ gate[k][v].until >= e /\ gate[k][v].until \in Nat /\ ip # NoIp
    BY <1>0, <2>1, RateAssumption, RateTyped, Zenon DEF Carries
  <2>6. CASE k = c.kind /\ v = w
    <3>1. ip = c.ip
      <4>1. ip = c.ip \/ old.until <= c.now \/ (th[t].at = "store" /\ th[t].way = w)
        BY <2>5, <2>6, Zenon DEF c
      <4>2. ~(old.until <= c.now)
        <5>1. old.until = gate[k][v].until
          BY <2>6, Zenon
        <5> HIDE DEF old
        <5> QED
          BY <1>2, <2>2, <2>3, <2>4, <2>5, <5>1, NotOver, Zenon
      <4>3. th[t].at = "store" /\ th[t].way = w => ip = c.ip
        BY <2>1, <2>6, Zenon DEF Carries, c
      <4> QED
        BY <4>1, <4>2, <4>3, Zenon
    <3>2. c.until >= e
      <4>1. claimed[c.kind][c.ip] = claimed[k][ip]
        BY <2>6, <3>1, Zenon
      <4> QED
        <5>1. claimed[k][ip] <= c.until
          BY <2>3, <4>1, Zenon
        <5> QED
          BY <2>2, <2>4, <5>1, AtLeast, Zenon
    <3>3. gate'[k][v] = new
      BY <1>0, <2>6, Zenon DEF RTypes, c
    <3>4. new.ip = ip /\ new.until >= e
      BY <2>5, <2>6, <3>1, <3>2, Zenon DEF c
    <3>5. \A s \in Threads :
            th'[s].at = "store" /\ Head(th'[s].claims).kind = k /\ th'[s].way = v
              => Head(th'[s].claims).ip = ip
      <4>1. \A s \in Threads \ {t} : th[s].at # "store"
        BY <1>0, Zenon DEF RPlaces
      <4> QED
        BY <3>1, <4>1, Zenon DEF c
    <3>6. Carries(k, v, ip, e)'
      BY <3>3, <3>4, <3>5, Zenon DEF Carries
    <3> QED
      BY <2>1, <3>6, Zenon DEF Covered
  <2>7. CASE ~(k = c.kind /\ v = w)
    <3>1. gate'[k][v] = gate[k][v]
      BY <1>0, <2>7, Zenon DEF RTypes, c
    <3>2. \A s \in Threads :
            th'[s].at = "store" /\ Head(th'[s].claims).kind = k /\ th'[s].way = v
              => Head(th'[s].claims).ip = ip
      <4>1. \A s \in Threads \ {t} : th[s].at # "store"
        BY <1>0, Zenon DEF RPlaces
      <4> QED
        BY <2>7, <4>1, ZenonT(60) DEF c
    <3>3. Carries(k, v, ip, e)'
      BY <2>5, <3>1, <3>2, Zenon DEF Carries
    <3> QED
      BY <2>1, <3>3, Zenon DEF Covered
  <2> QED
    BY <2>6, <2>7, Zenon
<1> QED
  BY <1>1, <1>2, Zenon

\* A gate set stays one under a store to a way.
LEMMA GateTyped ==
  ASSUME RTypes, NEW k \in Gated, NEW w \in Ways, NEW new \in [ip : Ips \union {NoIp}, until : Nat],
         gate' = [gate EXCEPT ![k][w] = new]
  PROVE  gate' \in [Gated -> [Ways -> [ip : Ips \union {NoIp}, until : Nat]]]
  BY Zenon DEF RTypes

\* rate_gate_claim's first store.
LEMMA ClaimStoreKeeps ==
  ASSUME RateInv, NEW t \in Threads, ClaimStore(t)
  PROVE  RateInv'
<1>0. RTypes /\ RPlaces /\ RBuckets /\ ROwed /\ RStands /\ Buckets = 1..NB
  BY Zenon DEF RateInv
<1> DEFINE c == Head(th[t].claims)
<1>1. PICK w \in Ways, half \in [ip : Ips \union {NoIp}, until : Nat] :
         /\ c \in Claims
         /\ gate[c.kind][w].ip = NoIp \/ gate[c.kind][w].ip = c.ip \/ gate[c.kind][w].until <= c.now
         /\ \/ half.ip = c.ip /\ half.until = gate[c.kind][w].until
            \/ half.ip = gate[c.kind][w].ip /\ half.until = c.until
         /\ gate' = [gate EXCEPT ![c.kind][w] = half]
         /\ th' = [th EXCEPT ![t] = th'[t]] /\ th'[t] \in ThreadRec
         /\ th[t].at = "claim" /\ th'[t].at = "store" /\ th[t].claims # <<>> /\ th'[t].way = w
         /\ th'[t].ip = th[t].ip /\ th'[t].kind = th[t].kind /\ th'[t].now = th[t].now
         /\ th'[t].claims = th[t].claims /\ th'[t].ends = th[t].ends
         /\ UNCHANGED <<ms, bkt, mu, claimed>>
  BY <1>0, ClaimStoreDoes, ZenonT(60)
<1>2. Buckets' = Buckets /\ \A s \in Threads \ {t} : th'[s] = th[s]
  BY <1>0, <1>1, Zenon DEF Buckets, RTypes
<1>3. /\ c.kind \in Gated /\ half.ip \in Ips \union {NoIp} /\ half.until \in Nat
  BY <1>1, Zenon DEF Claims
<1>4. RTypes'
  <2>1. gate' \in [Gated -> [Ways -> [ip : Ips \union {NoIp}, until : Nat]]]
    <3> HIDE DEF c
    <3> QED
      BY <1>0, <1>1, <1>3, GateTyped, Zenon
  <2>2. th' \in [Threads -> ThreadRec]
    BY <1>0, <1>1, Zenon DEF RTypes
  <2> QED
    BY <1>0, <1>1, <1>2, <2>1, <2>2, Zenon DEF RTypes
<1>5. RPlaces'
  <2>1. /\ th[t].at = "claim" /\ th'[t].at = "store" /\ th[t].claims # <<>>
        /\ th'[t].ip = th[t].ip /\ th'[t].kind = th[t].kind /\ th'[t].now = th[t].now
        /\ th'[t].claims = th[t].claims /\ ms' = ms /\ mu' = mu
    BY <1>1, Zenon
  <2> QED
    BY <1>0, <1>2, <2>1 DEF RPlaces
<1>6. RBuckets'
  BY <1>0, <1>1, <1>2, Zenon DEF RBuckets
<1>7. \A s \in Threads : th'[s].claims = th[s].claims
  BY <1>1, <1>2, Zenon
<1>8. ROwed'
  <2>1. \A s \in Threads : \A n \in DOMAIN th'[s].claims : Due(th[s].claims[n])'
    <3>1. \A s \in Threads : \A n \in DOMAIN th'[s].claims : Due(th'[s].claims[n])
      BY <1>0, <1>7, Zenon DEF ROwed
    <3>2. UNCHANGED <<ms, bkt, claimed>>
      BY <1>1, Zenon
    <3> QED
      BY <1>2, <3>1, <3>2, Zenon DEF Due
  <2>2. \A s \in Threads : th'[s].at \in {"ip", "until"} => th'[s].ends <= claimed[th'[s].kind][th'[s].ip]
    BY <1>0, <1>1, <1>2, ZenonT(60) DEF ROwed
  <2>3. \A s \in Threads : \A n, m \in DOMAIN th'[s].claims :
          th'[s].claims[n].ip = th'[s].claims[m].ip => th'[s].claims[n].until = th'[s].claims[m].until
    BY <1>0, <1>7 DEF ROwed
  <2> QED
    BY <1>0, <1>1, <1>2, <2>1, <2>2, <2>3, ZenonT(60) DEF ROwed
<1>9. ASSUME NEW k \in Gated, NEW ip \in Ips, NEW e \in Nat, NEW from, e <= claimed[k][ip],
             Covered(k, ip, e, from)
      PROVE  Covered(k, ip, e, from)'
  <2>1. th'[t].at = "store" => th'[t].way = w /\ Head(th'[t].claims) = Head(th[t].claims)
    BY <1>1, Zenon
  <2>2. /\ gate[c.kind][w].ip \in Ips => gate[c.kind][w].ip = c.ip \/ gate[c.kind][w].until <= c.now
                                         \/ (th[t].at = "store" /\ th[t].way = w)
        /\ half.ip = c.ip \/ half.ip = gate[c.kind][w].ip
        /\ half.until = c.until \/ half.until = gate[c.kind][w].until
    BY <1>1, RateAssumption, Zenon
  <2>3. th[t].claims # <<>> /\ th[t].at \in {"claim", "store"} /\ ms' = ms
        /\ gate' = [gate EXCEPT ![Head(th[t].claims).kind][w] = half]
    BY <1>1, Zenon
  <2> QED
    BY <1>2, <1>3, <1>9, <2>1, <2>2, <2>3, StillCovered, Zenon
<1>10. RStands'
  <2>1. \A s \in Threads : th'[s].at \in {"ip", "until", "enter"} => th'[s] = th[s]
    BY <1>1, <1>2, Zenon
  <2>2. ASSUME NEW k \in Gated, NEW ip \in Ips PROVE Covered(k, ip, claimed[k][ip], 1)'
    <3> DEFINE e == claimed[k][ip]
    <3>1. e \in Nat /\ e <= claimed[k][ip] /\ Covered(k, ip, e, 1)
      BY <1>0 DEF RTypes, RStands
    <3>2. e' = e
      BY <1>1, ZenonT(60)
    <3>3. Covered(k, ip, e, 1)'
      BY <1>9, <3>1, <3>2, SMTT(60) DEF Covered, Carries
    <3> QED
      BY <3>3, Zenon
  <2>3. ASSUME NEW s \in Threads, th'[s].at \in {"ip", "until"}
        PROVE  Covered(th[s].kind, th[s].ip, th[s].ends, th[s].way)'
    <3>1. /\ th[s].kind \in Gated /\ th[s].ip \in Ips /\ th[s].ends \in Nat
          /\ th[s].ends <= claimed[th[s].kind][th[s].ip]
          /\ Covered(th[s].kind, th[s].ip, th[s].ends, th[s].way)
      BY <1>0, <2>1, <2>3, Zenon DEF RTypes, ThreadRec, RPlaces, ROwed, RStands
    <3>2. th'[s] = th[s]
      BY <2>1, <2>3, Zenon
    <3>3. PICK k \in Gated, ip \in Ips, e \in Nat, from \in {th[s].way} :
            k = th[s].kind /\ ip = th[s].ip /\ e = th[s].ends
      BY <3>1, Zenon
    <3>4. Covered(k, ip, e, from)'
      BY <1>9, <3>1, <3>3, Zenon
    <3>5. k = th'[s].kind /\ ip = th'[s].ip /\ e = th'[s].ends /\ from = th'[s].way
      BY <3>2, <3>3, Zenon
    <3> QED
      BY <3>4, <3>5, Zenon
  <2>4. \A s \in Threads : th'[s].at = "enter" => ms >= th'[s].ends
    BY <1>0, <2>1, Zenon DEF RStands
  <2> QED
    BY <1>1, <2>2, <2>3, <2>4, Zenon DEF RStands
<1> QED
  BY <1>0, <1>2, <1>4, <1>5, <1>6, <1>8, <1>10, Zenon DEF RateInv

\* ... and the second one, which completes the gate.
LEMMA ClaimDoneKeeps ==
  ASSUME RateInv, NEW t \in Threads, ClaimDone(t)
  PROVE  RateInv'
<1>0. RTypes /\ RPlaces /\ RBuckets /\ ROwed /\ RStands /\ Buckets = 1..NB
  BY Zenon DEF RateInv
<1> DEFINE c == Head(th[t].claims)
           w == th[t].way
           full == [ip |-> c.ip, until |-> c.until]
<1>1. /\ c \in Claims
      /\ gate' = [gate EXCEPT ![c.kind][w] = full]
      /\ claimed' = [claimed EXCEPT ![c.kind][c.ip] = c.until]
      /\ th' = [th EXCEPT ![t] = th'[t]] /\ th'[t] \in ThreadRec
      /\ th[t].at = "store" /\ th'[t].at = "claim" /\ th[t].claims # <<>>
      /\ th'[t].claims = Tail(th[t].claims)
      /\ th'[t].ip = th[t].ip /\ th'[t].kind = th[t].kind /\ th'[t].now = th[t].now
      /\ UNCHANGED <<ms, bkt, mu>>
  BY <1>0, ClaimDoneDoes, ZenonT(60)
<1>2. Buckets' = Buckets /\ \A s \in Threads \ {t} : th'[s] = th[s]
  BY <1>0, <1>1, Zenon DEF Buckets, RTypes
<1>3. /\ c.kind \in Gated /\ c.ip \in Ips /\ c.until \in Nat /\ c.now \in Nat /\ w \in Ways
      /\ full \in [ip : Ips \union {NoIp}, until : Nat] /\ full.ip = c.ip /\ full.until = c.until
  <2>1. c.kind \in Gated /\ c.ip \in Ips /\ c.until \in Nat /\ c.now \in Nat
    BY <1>1, ClaimFields, Zenon
  <2>2. w \in Ways
    BY <1>0, Zenon DEF RTypes, ThreadRec
  <2> QED
    BY <2>1, <2>2, Zenon
<1>4. /\ 1 \in DOMAIN th[t].claims /\ c = th[t].claims[1]
      /\ \A n \in DOMAIN th'[t].claims :
           n + 1 \in DOMAIN th[t].claims /\ th'[t].claims[n] = th[t].claims[n + 1]
  <2>1. th[t] \in ThreadRec
    BY <1>0, Zenon DEF RTypes
  <2> QED
    BY <1>1, <2>1, TailOfClaims, Zenon
<1>5. \A s \in Threads \ {t} : th[s].at \notin {"claim", "store"} /\ th[s].claims = <<>>
  <2>1. mu = t
    BY <1>0, <1>1, Zenon DEF RPlaces
  <2> QED
    BY <1>0, <2>1, Zenon DEF RPlaces
<1>6. Due(c)
  BY <1>0, <1>4, Zenon DEF ROwed
<1>20. /\ gate' = [gate EXCEPT ![Head(th[t].claims).kind][w] = full]
       /\ \A k \in Gated, ip \in Ips :
            claimed'[k][ip] = IF k = c.kind /\ ip = c.ip THEN c.until ELSE claimed[k][ip]
       /\ ms' = ms /\ th[t].claims # <<>> /\ th[t].at \in {"claim", "store"} /\ th'[t].at = "claim"
  BY <1>0, <1>1, <1>3, Zenon DEF RTypes
<1> HIDE DEF c, full, w
<1>7. \A k \in Gated, ip \in Ips : claimed[k][ip] \in Nat /\ claimed[k][ip] <= claimed'[k][ip]
  <2>1. \A k \in Gated, ip \in Ips : claimed[k][ip] \in Nat
    BY <1>0, RateTyped, Zenon
  <2>2. claimed[c.kind][c.ip] <= c.until
    BY <1>6, Zenon DEF Due
  <2> QED
    BY <1>20, <2>1, <2>2, SMTT(60)
<1>8. RTypes'
  <2>1. gate' \in [Gated -> [Ways -> [ip : Ips \union {NoIp}, until : Nat]]]
    BY <1>0, <1>1, <1>3, GateTyped, ZenonT(60)
  <2>2. th' \in [Threads -> ThreadRec]
    BY <1>0, <1>1, Zenon DEF RTypes
  <2>3. claimed' \in [Gated -> [Ips -> Nat]]
    BY <1>0, <1>1, <1>3, Zenon DEF RTypes
  <2> QED
    BY <1>0, <1>1, <1>2, <2>1, <2>2, <2>3, Zenon DEF RTypes
<1>9. RPlaces'
  <2>1. /\ th[t].at = "store" /\ th'[t].at = "claim"
        /\ th'[t].ip = th[t].ip /\ th'[t].kind = th[t].kind /\ th'[t].now = th[t].now
        /\ ms' = ms /\ mu' = mu
    BY <1>1, Zenon
  <2> QED
    BY <1>0, <1>2, <2>1, SMTT(60) DEF RPlaces
<1>10. RBuckets'
  BY <1>0, <1>1, <1>2, Zenon DEF RBuckets
<1>11. ROwed'
  <2>1. ASSUME NEW k \in Gated, NEW ip \in Ips
        PROVE  /\ claimed'[k][ip] <= ms + RateWindow
               /\ \A b \in Buckets : bkt[b].ip = ip => claimed'[k][ip] <= bkt[b].win + RateWindow
    BY <1>0, <1>6, <1>20, ZenonT(60) DEF ROwed, Due
  <2>2. ASSUME NEW n \in DOMAIN th'[t].claims PROVE Due(th[t].claims[n])'
    <3>0. th[t].claims \in Seq(Claims)
      BY <1>0, Zenon DEF RTypes, ThreadRec
    <3>1. PICK d \in Claims : /\ d = th'[t].claims[n]
                              /\ d = th[t].claims[n + 1] /\ n + 1 \in DOMAIN th[t].claims
      BY <1>4, <2>2, <3>0, SeqOf, Zenon
    <3>2. Due(d)
      BY <1>0, <3>1, Zenon DEF ROwed
    <3>3. d.ip = c.ip => d.until = c.until
      BY <1>0, <1>4, <3>1, ZenonT(60) DEF ROwed
    <3>5. d.kind \in Gated /\ d.ip \in Ips /\ d.until \in Nat
      BY ClaimFields, Zenon
    <3>6. claimed'[d.kind][d.ip] <= d.until
      BY <1>3, <1>20, <3>2, <3>3, <3>5, SMTT(60) DEF Due
    <3>7. UNCHANGED <<ms, bkt>>
      BY <1>1, Zenon
    <3>8. /\ d.now <= ms' /\ d.until <= ms' + RateWindow
          /\ \A b \in Buckets' : bkt'[b].ip = d.ip => d.until <= bkt'[b].win + RateWindow
      BY <1>2, <3>2, <3>7, Zenon DEF Due
    <3>9. Due(d)'
      BY <3>6, <3>8, Zenon DEF Due
    <3> QED
      BY <3>1, <3>9, Zenon
  <2>3. \A s \in Threads : \A n \in DOMAIN th'[s].claims : Due(th[s].claims[n])'
    BY <1>2, <1>5, <2>2, SMTT(60)
  <2>4. \A n, m \in DOMAIN th'[t].claims :
          th'[t].claims[n].ip = th'[t].claims[m].ip => th'[t].claims[n].until = th'[t].claims[m].until
    BY <1>0, <1>4, SMTT(60) DEF ROwed
  <2>5. \A s \in Threads : \A n, m \in DOMAIN th'[s].claims :
          th'[s].claims[n].ip = th'[s].claims[m].ip => th'[s].claims[n].until = th'[s].claims[m].until
    BY <1>2, <1>5, <2>4, SMTT(60)
  <2>6. ASSUME NEW s \in Threads, th'[s].at \in {"ip", "until"}
        PROVE  th'[s].ends <= claimed'[th'[s].kind][th'[s].ip]
    <3>1. s # t /\ th'[s] = th[s]
      BY <1>2, <1>20, <2>6, Zenon
    <3>2. /\ th[s].kind \in Gated /\ th[s].ip \in Ips /\ th[s].ends \in Nat
          /\ th[s].ends <= claimed[th[s].kind][th[s].ip]
      BY <1>0, <2>6, <3>1, ZenonT(60) DEF RTypes, ThreadRec, RPlaces, ROwed
    <3>3. /\ claimed'[th[s].kind][th[s].ip] \in Nat
          /\ claimed[th[s].kind][th[s].ip] <= claimed'[th[s].kind][th[s].ip]
          /\ claimed[th[s].kind][th[s].ip] \in Nat
      BY <1>3, <1>7, <1>20, <3>2, SMTT(60)
    <3> QED
      BY <3>1, <3>2, <3>3, SMTT(60)
  <2>7. UNCHANGED <<ms, bkt>>
    BY <1>1, Zenon
  <2> QED
    BY <1>2, <2>1, <2>3, <2>5, <2>6, <2>7, Zenon DEF ROwed
<1>12. ASSUME NEW k \in Gated, NEW ip \in Ips, NEW e \in Nat, NEW from, e <= claimed[k][ip],
              Covered(k, ip, e, from)
       PROVE  Covered(k, ip, e, from)'
  <2>1. full.ip \in Ips \union {NoIp} /\ full.until \in Nat
    BY <1>3, Zenon
  <2>2. /\ th[t].at = "store" /\ th[t].way = w
        /\ full.ip = c.ip /\ full.until = c.until
    BY <1>1, <1>3, Zenon DEF w
  <2> QED
    BY <1>2, <1>3, <1>12, <1>20, <2>1, <2>2, StillCovered, Zenon DEF c
<1>14. RStands'
  <2>1. \A s \in Threads : th'[s].at \in {"ip", "until", "enter"} => th'[s] = th[s]
    BY <1>2, <1>20, Zenon
  <2>2. ASSUME NEW k \in Gated, NEW ip \in Ips PROVE Covered(k, ip, claimed[k][ip], 1)'
    <3>1. CASE k = c.kind /\ ip = c.ip
      <4>1. claimed'[k][ip] = c.until
        BY <1>20, <3>1, Zenon
      <4>2. PICK v \in Ways, e \in Nat : v = w /\ e = c.until
        BY <1>3, Zenon
      <4>3. gate'[k][v].ip = ip /\ gate'[k][v].until >= e /\ \A s \in Threads : th'[s].at # "store"
        <5>1. gate'[c.kind][w] = full
          BY <1>0, <1>1, <1>3, Zenon DEF RTypes
        <5>2. \A s \in Threads : th'[s].at # "store"
          BY <1>2, <1>5, <1>20, SMTT(60)
        <5> QED
          BY <1>3, <3>1, <4>2, <5>1, <5>2, SMTT(60)
      <4>4. Carries(k, v, ip, e)'
        BY <4>3, Zenon DEF Carries
      <4>5. v >= 1
        BY DEF Ways
      <4>6. Covered(k, ip, e, 1)'
        BY <4>4, <4>5, Zenon DEF Covered
      <4>7. e = claimed'[k][ip]
        BY <4>1, <4>2, Zenon
      <4> QED
        BY <4>6, <4>7, Zenon
    <3>2. CASE ~(k = c.kind /\ ip = c.ip)
      <4>1. PICK e \in Nat : e = claimed[k][ip]
        BY <1>7, Zenon
      <4>2. e <= claimed[k][ip] /\ Covered(k, ip, e, 1)
        BY <1>0, <4>1, SMTT(60) DEF RStands
      <4>3. Covered(k, ip, e, 1)'
        BY <1>12, <4>2, Zenon
      <4>4. e = claimed'[k][ip]
        BY <1>20, <3>2, <4>1, Zenon
      <4> QED
        BY <4>3, <4>4, Zenon
    <3> QED
      BY <3>1, <3>2, Zenon
  <2>3. ASSUME NEW s \in Threads, th'[s].at \in {"ip", "until"}
        PROVE  Covered(th[s].kind, th[s].ip, th[s].ends, th[s].way)'
    <3>1. /\ th[s].kind \in Gated /\ th[s].ip \in Ips /\ th[s].ends \in Nat
          /\ th[s].ends <= claimed[th[s].kind][th[s].ip]
          /\ Covered(th[s].kind, th[s].ip, th[s].ends, th[s].way)
      BY <1>0, <2>1, <2>3, Zenon DEF RTypes, ThreadRec, RPlaces, ROwed, RStands
    <3>2. th'[s] = th[s]
      BY <2>1, <2>3, Zenon
    <3>3. PICK k \in Gated, ip \in Ips, e \in Nat, from \in {th[s].way} :
            k = th[s].kind /\ ip = th[s].ip /\ e = th[s].ends
      BY <3>1, Zenon
    <3>4. Covered(k, ip, e, from)'
      BY <1>12, <3>1, <3>3, Zenon
    <3>5. k = th'[s].kind /\ ip = th'[s].ip /\ e = th'[s].ends /\ from = th'[s].way
      BY <3>2, <3>3, Zenon
    <3> QED
      BY <3>4, <3>5, Zenon
  <2>4. \A s \in Threads : th'[s].at = "enter" => ms >= th'[s].ends
    BY <1>0, <2>1, Zenon DEF RStands
  <2> QED
    BY <1>20, <2>2, <2>3, <2>4, Zenon DEF RStands
<1> QED
  BY <1>0, <1>2, <1>8, <1>9, <1>10, <1>11, <1>14, Zenon DEF RateInv

\* The clock only makes ends more over, and claims more in time.
LEMMA MsTickKeeps ==
  ASSUME RateInv, MsTick
  PROVE  RateInv'
<1>0. RTypes /\ RPlaces /\ RBuckets /\ ROwed /\ RStands /\ Buckets = 1..NB
  BY Zenon  DEF RateInv
<1>1. /\ UNCHANGED <<bkt, gate, mu, th, claimed>> /\ ms < MaxMs /\ ms' = ms + 1
      /\ ms \in Nat /\ MaxMs \in Nat /\ RateWindow \in Nat /\ Buckets' = Buckets
  BY <1>0, OneOfEach, RateTyped, Zenon DEF MsTick, Buckets
<1>2. /\ \A s \in Threads : th[s].now \in Nat /\ th[s].ends \in Nat /\ th[s].claims \in Seq(Claims)
      /\ \A b \in Buckets : bkt[b].win \in Nat
      /\ \A k \in Gated, ip \in Ips : claimed[k][ip] \in Nat
  <2>1. \A s \in Threads : th[s] \in ThreadRec
    BY <1>0, Zenon DEF RTypes
  <2>2. \A s \in Threads : th[s].now \in Nat /\ th[s].ends \in Nat /\ th[s].claims \in Seq(Claims)
    BY <1>1, <2>1, SMTT(60) DEF ThreadRec
  <2> QED
    BY <1>0, <2>2, RateTyped, BucketTypes, Zenon
<1>3. RTypes'
  BY <1>0, <1>1, SMTT(60) DEF RTypes
<1>4. RPlaces'
  BY <1>0, <1>1, <1>2, SMTT(60) DEF RPlaces
<1>5. RBuckets'
  BY <1>0, <1>1, <1>2, SMTT(60) DEF RBuckets
<1>6. ROwed'
  <2>1. ASSUME NEW s \in Threads, NEW n \in DOMAIN th[s].claims PROVE Due(th[s].claims[n])'
    <3> DEFINE d == th[s].claims[n]
    <3>1. d \in Claims
      BY <1>2, <2>1, SeqOf, Zenon
    <3>2. Due(d)
      BY <1>0, <2>1, Zenon DEF ROwed
    <3>3. d.now \in Nat /\ d.until \in Nat
      BY <3>1, ClaimFields, Zenon
    <3>4. d' = d
      BY <1>1, Zenon
    <3> HIDE DEF d
    <3>5. Due(d)'
      BY <1>1, <3>2, <3>3, <3>4, SMTT(60) DEF Due
    <3> QED
      BY <3>5, Zenon DEF d
  <2>2. \A k \in Gated, ip \in Ips : claimed[k][ip] <= ms' + RateWindow
    BY <1>0, <1>1, <1>2, SMTT(60) DEF ROwed
  <2> QED
    BY <1>0, <1>1, <2>1, <2>2 DEF ROwed
<1>7. ASSUME NEW k, NEW ip, NEW e \in Nat, NEW from, Covered(k, ip, e, from)
      PROVE  Covered(k, ip, e, from)'
  BY <1>1, <1>7, SMTT(60) DEF Covered, Carries
<1>8. RStands'
  <2>1. ASSUME NEW k \in Gated, NEW ip \in Ips PROVE Covered(k, ip, claimed[k][ip], 1)'
    <3>1. PICK e \in Nat : e = claimed[k][ip]
      BY <1>2, Zenon
    <3>2. Covered(k, ip, e, 1)
      BY <1>0, <3>1, Zenon DEF RStands
    <3>3. Covered(k, ip, e, 1)' /\ e = claimed'[k][ip]
      BY <1>1, <1>7, <3>1, <3>2, Zenon
    <3> QED
      BY <3>3, Zenon
  <2>2. ASSUME NEW s \in Threads, th[s].at \in {"ip", "until"}
        PROVE  Covered(th[s].kind, th[s].ip, th[s].ends, th[s].way)'
    <3>1. PICK k \in {th[s].kind}, ip \in {th[s].ip}, e \in Nat, from \in {th[s].way} : e = th[s].ends
      BY <1>2, Zenon
    <3>2. Covered(k, ip, e, from)
      BY <1>0, <2>2, <3>1, Zenon DEF RStands
    <3>3. Covered(k, ip, e, from)'
      BY <1>7, <3>2, Zenon
    <3>4. k = th'[s].kind /\ ip = th'[s].ip /\ e = th'[s].ends /\ from = th'[s].way
      BY <1>1, <3>1, Zenon
    <3> QED
      BY <3>3, <3>4, Zenon
  <2>3. \A s \in Threads : th[s].at = "enter" => ms' >= th[s].ends
    BY <1>0, <1>1, <1>2 DEF RStands
  <2> QED
    BY <1>1, <2>1, <2>2, <2>3, Zenon DEF RStands
<1> QED
  BY <1>0, <1>1, <1>3, <1>4, <1>5, <1>6, <1>8, Zenon DEF RateInv

\* server_rate_init leaves empty tables.
LEMMA RateInitially == RateInit => RateInv
<1> SUFFICES ASSUME RateInit PROVE RateInv
  BY Zenon 
<1>1. /\ ms = 1
      /\ bkt = [b \in 1..NB |-> [ip |-> NoIp, win |-> 0, cnt |-> [k \in Kinds |-> 0]]]
      /\ gate = [k \in Gated |-> [w \in Ways |-> [ip |-> NoIp, until |-> 0]]]
      /\ mu = NoThread
      /\ th = [t \in Threads |-> Resting]
      /\ claimed = [k \in Gated |-> [ip \in Ips |-> 0]]
  BY Zenon  DEF RateInit, RateStart
<1>2. Buckets = 1..NB
  BY <1>1, Zenon DEF Buckets
<1>3. /\ \A t \in Threads : th[t] = Resting
      /\ \A b \in Buckets : bkt[b].ip = NoIp /\ bkt[b].win = 0
      /\ \A k \in Gated, ip \in Ips : claimed[k][ip] = 0
      /\ MaxMs \in Nat /\ MaxMs > 0 /\ RateWindow \in Nat /\ ms = 1
  BY <1>1, <1>2, RateAssumption, SMTT(60)
<1>4. RTypes
  <2>1. [k \in Kinds |-> 0] \in [Kinds -> Nat]
    BY Zenon 
  <2>2. bkt \in [Buckets -> [ip : Ips \union {NoIp}, win : 0..MaxMs, cnt : [Kinds -> Nat]]]
    BY <1>1, <1>2, <2>1, OneOfEach, Zenon
  <2>3. ms \in 1..MaxMs
    BY <1>1, <1>3, SMTT(60)
  <2> QED
    BY <1>1, <2>2, <2>3, RestingIs, Zenon DEF RTypes
<1>5. RPlaces
  BY <1>1, <1>3, RestingIs, RateAssumption, SMTT(60) DEF RPlaces
<1>6. RBuckets
  BY <1>3, SMTT(60) DEF RBuckets
<1>7. ROwed
  <2>1. \A t \in Threads : th[t].at = "idle" /\ DOMAIN th[t].claims = {}
    <3>1. DOMAIN <<>> = {}
      OBVIOUS
    <3>2. \A t \in Threads : th[t] = Resting
      BY <1>3, Zenon
    <3> QED
      BY <3>1, <3>2, RestingIs, Zenon
  <2>2. \A k \in Gated, ip \in Ips :
          /\ claimed[k][ip] <= ms + RateWindow
          /\ \A b \in Buckets : claimed[k][ip] <= bkt[b].win + RateWindow
    BY <1>3, SMTT(60)
  <2> QED
    BY <2>1, <2>2, Zenon DEF ROwed
<1>8. RStands
  BY <1>1, <1>3, RestingIs DEF RStands, Covered
<1> QED
  BY <1>2, <1>4, <1>5, <1>6, <1>7, <1>8, Zenon DEF RateInv

\* RateInv is inductive.
THEOREM RateInvariant == RateSpec => []RateInv
<1>1. RateInv /\ [RateNext]_rateVars => RateInv'
  <2> SUFFICES ASSUME RateInv, [RateNext]_rateVars PROVE RateInv'
    BY Zenon
  <2>1. ASSUME NEW t \in Threads, NEW ip \in Ips, NEW k \in Kinds, Frame(t, ip, k) PROVE RateInv'
    BY <2>1, FrameKeeps, Zenon
  <2>2. ASSUME NEW t \in Threads, ReadIp(t) PROVE RateInv'
    BY <2>2, ReadIpKeeps, Zenon
  <2>3. ASSUME NEW t \in Threads, ReadUntil(t) PROVE RateInv'
    BY <2>3, ReadUntilKeeps, Zenon
  <2>4. ASSUME NEW t \in Threads, Enter(t) PROVE RateInv'
    BY <2>4, EnterKeeps, Zenon
  <2>5. ASSUME NEW t \in Threads, ClaimNone(t) PROVE RateInv'
    BY <2>5, ClaimNoneKeeps, Zenon
  <2>6. ASSUME NEW t \in Threads, ClaimStore(t) PROVE RateInv'
    BY <2>6, ClaimStoreKeeps, Zenon
  <2>7. ASSUME NEW t \in Threads, ClaimDone(t) PROVE RateInv'
    BY <2>7, ClaimDoneKeeps, Zenon
  <2>8. ASSUME NEW t \in Threads, Unlock(t) PROVE RateInv'
    BY <2>8, UnlockKeeps, Zenon
  <2>9. CASE MsTick
    BY <2>9, MsTickKeeps, Zenon
  <2>10. CASE UNCHANGED rateVars
    <3>0. RTypes /\ RPlaces /\ RBuckets /\ ROwed /\ RStands /\ Buckets = 1..NB /\ Buckets' = Buckets
      BY <2>10, Zenon DEF RateInv, rateVars, Buckets
    <3>1. RTypes' /\ RPlaces' /\ RBuckets'
      BY <2>10, <3>0, Zenon DEF rateVars, RTypes, RPlaces, RBuckets
    <3>2. ROwed'
      BY <2>10, <3>0, ZenonT(60) DEF rateVars, ROwed, Due
    <3>3. RStands'
      BY <2>10, <3>0 DEF rateVars, RStands, Covered, Carries
    <3> QED
      BY <3>0, <3>1, <3>2, <3>3, Zenon DEF RateInv
  <2> QED
    BY <2>1, <2>2, <2>3, <2>4, <2>5, <2>6, <2>7, <2>8, <2>9, <2>10, Zenon DEF RateNext
<1> QED
  BY <1>1, RateInitially, PTL DEF RateSpec

\* One bucket per source, gates that stand while their window lasts, and no
\* gated frame at the bucket: what rate_bucket_find, rate_gate_claim and
\* rate_gate_check promise, for any number of threads, sources and ways.
THEOREM GatesDoStand == RateSpec => []GatesStand
<1>1. RateInv => GatesStand
  <2> SUFFICES ASSUME RateInv PROVE GatesStand
    BY Zenon
  <2>0. RTypes /\ RPlaces /\ RBuckets /\ ROwed /\ RStands
    BY Zenon DEF RateInv
  <2>1. OneBucket
    <3>1. \A t \in Threads : th[t].at \in {"idle", "ip", "until", "enter", "claim", "store"}
      BY <2>0, Zenon DEF RTypes, ThreadRec
    <3> QED
      BY <2>0, <3>1, Zenon DEF RTypes, RPlaces, RBuckets, OneBucket, RateTypeOK
  <2>2. GateStands
    <3> SUFFICES ASSUME NEW k \in Gated, NEW ip \in Ips, claimed[k][ip] > ms
                 PROVE  \E w \in Ways : gate[k][w].ip = ip /\ gate[k][w].until >= claimed[k][ip]
      BY Zenon  DEF GateStands
    <3>1. Covered(k, ip, claimed[k][ip], 1) /\ claimed[k][ip] \in Nat /\ ms \in Nat
      BY <2>0, RateTyped, Zenon DEF RStands
    <3> QED
      BY <3>1, SMTT(60) DEF Covered, Carries
  <2>3. GatedStaysOut
    BY <2>0, Zenon DEF RStands, GatedStaysOut
  <2> QED
    BY <2>1, <2>2, <2>3, Zenon DEF GatesStand
<1> QED
  BY <1>1, RateInvariant, PTL
==============================================================================
