---------------------------- MODULE RelayProofs -----------------------------
(* Proofs about a request that the relay proxy forwards: the target it is  *)
(* connected to, its rewritten head, and the bytes that follow.            *)
EXTENDS RelayHead, FiniteSetTheorems, TLAPS

\* A join of two sequences holds the first and then the second.
LEMMA SeqJoin ==
  ASSUME NEW S, NEW s \in Seq(S), NEW t \in Seq(S)
  PROVE  /\ s \o t \in Seq(S) /\ Len(s \o t) = Len(s) + Len(t)
         /\ \A k \in 1..Len(s) + Len(t) :
              (s \o t)[k] = IF k <= Len(s) THEN s[k] ELSE t[k - Len(s)]
  OBVIOUS

\* Nothing joined on either side changes nothing.
LEMMA SeqJoinNone ==
  ASSUME NEW S, NEW s \in Seq(S)
  PROVE  s \o <<>> = s /\ <<>> \o s = s /\ (s = <<>> <=> Len(s) = 0)
  OBVIOUS

\* A cut of a sequence of numbers.
LEMMA SeqCut ==
  ASSUME NEW S, NEW s \in Seq(S), NEW m \in Nat, NEW n \in Nat, m >= 1, n <= Len(s)
  PROVE  /\ SubSeq(s, m, n) \in Seq(S)
         /\ Len(SubSeq(s, m, n)) = IF m <= n THEN n - m + 1 ELSE 0
         /\ \A k \in 1..n - m + 1 : SubSeq(s, m, n)[k] = s[m + k - 1]
  OBVIOUS

\* The elements of a sequence are of its set.
LEMMA SeqAt ==
  ASSUME NEW S, NEW s \in Seq(S), NEW k \in 1..Len(s)
  PROVE  s[k] \in S
  OBVIOUS

-----------------------------------------------------------------------------
(* RelayTarget.                                                             *)

\* The gate lets candidate j pass.
Passes(j) == ~(tg.guard /\ Local(tg.cands[j].addr))

\* What the loop has found about the candidates it has gone past.
TargetWalk ==
  /\ tg.guard \in BOOLEAN /\ tg.literal \in BOOLEAN
  /\ tg.cands \in Seq([addr : Addrs, res : Outcomes]) /\ tg.cands # <<>>
  /\ ai \in 1..Len(tg.cands) + 1
  /\ {blocked, real_fail} \subseteq BOOLEAN
  /\ tg.literal => ai = 1 /\ Len(tg.cands) = 1 /\ (rc = "running" => last = 0)
  /\ \A j \in 1..ai - 1 : Passes(j) => tg.cands[j].res # "connects"
  /\ blocked <=> \E j \in 1..ai - 1 : ~Passes(j)
  /\ last = 0 /\ ~tg.literal => (real_fail <=> \E j \in 1..ai - 1 : Passes(j))
  /\ last = 0 => sock = {}
  /\ last # 0 => /\ last = ai /\ sock = {ai} /\ ai \in 1..Len(tg.cands)
                 /\ Passes(ai) /\ tg.cands[ai].res = "connects"

\* The inductive strengthening of TargetJudged.
TargetInv == TargetWalk /\ TargetJudged

\* The two ways to say that an address is not to be connected to agree.
LEMMA BlockedIsLocal ==
  ASSUME NEW a \in Addrs, NEW g \in BOOLEAN
  PROVE  TargetBlocked(g, a) <=> g /\ Local(a)
  BY DEF Addrs, TargetBlocked, Local

\* A list of n elements is a sequence of length n.
LEMMA ListIsSeq ==
  ASSUME NEW S, NEW n \in Nat, NEW f \in [1..n -> S]
  PROVE  f \in Seq(S) /\ Len(f) = n
  OBVIOUS

\* Before the first candidate.
LEMMA TargetInitially == TgInit => TargetInv
<1> SUFFICES ASSUME TgInit PROVE TargetInv
  OBVIOUS
<1>1. PICK n \in 1..MaxCandidates, cands \in UNION {[1..m -> [addr : Addrs, res : Outcomes]] : m \in Nat},
           guard \in BOOLEAN, literal \in BOOLEAN :
        /\ cands \in [1..n -> [addr : Addrs, res : Outcomes]]
        /\ literal => n = 1
        /\ tg = [guard |-> guard, literal |-> literal, cands |-> cands]
  BY TargetConstants, SMTT(60) DEF TgInit
<1>2. /\ tg.cands \in Seq([addr : Addrs, res : Outcomes]) /\ Len(tg.cands) = n /\ n \in Nat \ {0}
  <2>1. n \in Nat \ {0} /\ tg.cands = cands
    BY <1>1, TargetConstants
  <2> QED
    BY <1>1, <2>1, ListIsSeq, Zenon
<1>3. tg.guard \in BOOLEAN /\ tg.literal \in BOOLEAN /\ (tg.literal => n = 1)
  BY <1>1
<1>4. ai = 1 /\ sock = {} /\ last = 0 /\ blocked = FALSE /\ real_fail = FALSE /\ rc = "running"
  BY DEF TgInit
<1>5. ai \in 1..Len(tg.cands) + 1 /\ 1..ai - 1 = {} /\ tg.cands # <<>>
  BY <1>2, <1>4
<1>6. TargetWalk
  BY <1>2, <1>3, <1>4, <1>5, Zenon DEF TargetWalk
<1> QED
  BY <1>4, <1>6 DEF TargetInv, TargetJudged

\* A step of rp_connect_target keeps what the walk has found.
LEMMA TargetStepKeeps == TargetInv /\ [TgNext]_tgVars => TargetInv'
<1> SUFFICES ASSUME TargetInv, [TgNext]_tgVars PROVE TargetInv'
  OBVIOUS
<1> USE DEF TargetInv
<1> DEFINE n == Len(tg.cands)
<1>1. /\ n \in Nat \ {0} /\ DOMAIN tg.cands = 1..n /\ ai \in Nat /\ 1 <= ai /\ ai <= n + 1
      /\ \A j \in 1..n : tg.cands[j].addr \in Addrs /\ tg.cands[j].res \in Outcomes
  <2> DEFINE c == tg.cands
  <2>1. c \in Seq([addr : Addrs, res : Outcomes]) /\ c # <<>> /\ ai \in 1..Len(c) + 1
    BY DEF TargetWalk
  <2> HIDE DEF c
  <2>2. Len(c) \in Nat \ {0} /\ DOMAIN c = 1..Len(c) /\ ai \in Nat /\ 1 <= ai /\ ai <= Len(c) + 1
    BY <2>1
  <2>3. \A j \in 1..Len(c) : c[j].addr \in Addrs /\ c[j].res \in Outcomes
    <3> TAKE j \in 1..Len(c)
    <3>1. c[j] \in [addr : Addrs, res : Outcomes]
      BY <2>1, SeqAt, Zenon
    <3> QED
      BY <3>1
  <2> QED
    BY <2>2, <2>3 DEF c
<1>2. \A j \in 1..n : TargetBlocked(tg.guard, tg.cands[j].addr) <=> ~Passes(j)
  BY <1>1, BlockedIsLocal DEF TargetWalk, Passes
<1>3. ASSUME rc = "running", ai <= n, last = 0, tg' = tg,
             \/ /\ ~Passes(ai) /\ blocked' = TRUE /\ UNCHANGED real_fail
             \/ /\ Passes(ai) /\ tg.cands[ai].res # "connects" /\ real_fail' = TRUE /\ UNCHANGED blocked,
             ai' = ai + 1, ~tg.literal, UNCHANGED <<sock, last, rc>>
      PROVE  TargetInv'
  <2>1. \A j : j \in 1..ai' - 1 <=> j \in 1..ai - 1 \/ j = ai
    BY <1>1, <1>3
  <2>2. \A j \in 1..ai' - 1 : Passes(j) => tg.cands[j].res # "connects"
    BY <1>3, <2>1 DEF TargetWalk
  <2>3. blocked' <=> \E j \in 1..ai' - 1 : ~Passes(j)
    BY <1>3, <2>1 DEF TargetWalk
  <2>4. real_fail' <=> \E j \in 1..ai' - 1 : Passes(j)
    BY <1>3, <2>1 DEF TargetWalk
  <2>5. ai' \in 1..n + 1 /\ {blocked', real_fail'} \subseteq BOOLEAN
    <3>1. ai' \in 1..n + 1
      BY <1>1, <1>3
    <3>2. {blocked', real_fail'} \subseteq BOOLEAN
      BY <1>3, Zenon DEF TargetWalk
    <3> QED
      BY <3>1, <3>2
  <2>6. Passes(ai)' = Passes(ai') /\ \A j : Passes(j)' = Passes(j)
    BY <1>3 DEF Passes
  <2>7. TargetWalk'
    BY <1>3, <2>2, <2>3, <2>4, <2>5, <2>6, SMTT(60) DEF TargetWalk
  <2> QED
    BY <1>3, <2>7 DEF TargetJudged
<1>4. CASE LiteralBlocked
  <2>1. tg.literal /\ ~Passes(1) /\ n = 1 /\ last = 0 /\ sock = {} /\ 1 \in 1..n
        /\ UNCHANGED <<tg, ai, sock, last, fail_rep, blocked, real_fail>> /\ rc' = "denied"
    BY <1>1, <1>2, <1>4 DEF LiteralBlocked, TargetWalk, Cand
  <2>2. TargetWalk'
    BY <2>1, Zenon DEF TargetWalk, Passes
  <2>3. \A j \in DOMAIN tg.cands : j = 1
    BY <1>1, <2>1
  <2> QED
    BY <2>1, <2>2, <2>3 DEF TargetJudged, Passes
<1>5. CASE LiteralTried
  <2>1. tg.literal /\ Passes(1) /\ ai = 1 /\ n = 1 /\ last = 0 /\ sock = {} /\ 1 \in 1..n
        /\ UNCHANGED <<tg, ai, blocked, real_fail>>
    BY <1>1, <1>2, <1>5 DEF LiteralTried, TargetWalk, Cand
  <2>2. \A j \in DOMAIN tg.cands : j = 1
    BY <1>1, <2>1, SMTT(60)
  <2>3. CASE tg.cands[1].res = "connects"
    <3>1. rc' = "connected" /\ last' = 1 /\ sock' = {1}
      BY <1>5, <2>1, <2>3 DEF LiteralTried, Cand
    <3>2. TargetWalk'
      BY <1>1, <2>1, <2>3, <3>1, Zenon DEF TargetWalk, Passes
    <3> QED
      BY <1>1, <2>1, <2>2, <2>3, <3>1, <3>2, SMTT(60) DEF TargetJudged, Passes
  <2>4. CASE tg.cands[1].res # "connects"
    <3>1. rc' = "failed" /\ UNCHANGED <<last, sock>>
      BY <1>5, <2>1, <2>4 DEF LiteralTried, Cand
    <3>2. TargetWalk'
      BY <1>1, <2>1, <2>4, <3>1, Zenon DEF TargetWalk, Passes
    <3> QED
      BY <1>1, <2>1, <2>2, <2>4, <3>1, <3>2, SMTT(60) DEF TargetJudged, Passes
  <2> QED
    BY <2>3, <2>4
<1>6. CASE CandidateBlocked
  <2>1. ~Passes(ai)
    BY <1>1, <1>2, <1>6 DEF CandidateBlocked, Cand
  <2> QED
    BY <1>3, <1>6, <2>1 DEF CandidateBlocked
<1>7. CASE CandidateTried
  <2>1. /\ Passes(ai) /\ ai \in 1..n /\ real_fail' = TRUE /\ ~tg.literal /\ last = 0
        /\ rc = "running" /\ UNCHANGED <<tg, blocked, rc>>
    BY <1>1, <1>2, <1>7 DEF CandidateTried, Cand
  <2>2. CASE tg.cands[ai].res = "connects"
    <3>1. last' = ai /\ sock' = {ai} /\ ai' = ai
      BY <1>7, <2>1, <2>2, SMTT(60) DEF CandidateTried, Cand, TargetWalk
    <3>2. TargetWalk'
      BY <1>1, <2>1, <2>2, <3>1, SMTT(60) DEF TargetWalk, Passes
    <3> QED
      BY <2>1, <3>2, SMTT(60) DEF TargetJudged
  <2>3. CASE tg.cands[ai].res # "connects"
    BY <1>3, <1>7, <2>1, <2>3 DEF CandidateTried, Cand
  <2> QED
    BY <2>2, <2>3, SMTT(60)
<1>8. CASE CandidatesEnd
  <2>1. /\ rc' = IF last # 0 THEN "connected" ELSE IF blocked /\ ~real_fail THEN "denied" ELSE "failed"
        /\ ~tg.literal /\ (last # 0 \/ ai > n)
        /\ UNCHANGED <<tg, ai, sock, last, fail_rep, blocked, real_fail>>
    BY <1>8, SMTT(60) DEF CandidatesEnd
  <2>2. TargetWalk'
    BY <2>1, SMTT(60), Z3T(60) DEF TargetWalk, Passes
  <2>3. CASE last # 0
    <3>1. \A j \in 1..n : Passes(j) /\ tg.cands[j].res = "connects" => last <= j
      BY <1>1, <2>3, SMTT(60) DEF TargetWalk
    <3> QED
      BY <1>1, <2>1, <2>2, <2>3, <3>1 DEF TargetJudged, TargetWalk, Passes
  <2>4. CASE last = 0
    <3>1. 1..ai - 1 = 1..n /\ 1 \in 1..n
      BY <1>1, <2>1, <2>4
    <3>2. /\ \A j \in 1..n : Passes(j) => tg.cands[j].res # "connects"
          /\ blocked <=> \E j \in 1..n : ~Passes(j)
          /\ real_fail <=> \E j \in 1..n : Passes(j)
          /\ sock = {}
      BY <2>1, <2>4, <3>1 DEF TargetWalk
    <3> QED
      BY <1>1, <2>1, <2>2, <2>4, <3>1, <3>2, SMTT(60), Z3T(60) DEF TargetJudged, Passes
  <2> QED
    BY <2>3, <2>4
<1>9. CASE UNCHANGED tgVars
  BY <1>9 DEF tgVars, TargetWalk, TargetJudged, Passes
<1> QED
  BY <1>4, <1>5, <1>6, <1>7, <1>8, <1>9 DEF TgNext

\* A guarded client reaches no address of the host itself, the first address
\* that may be tried and connects is the upstream, and "not allowed" means the
\* gate refused them all: for lists of any length.
THEOREM TargetIsJudged == TgSpec => []TargetJudged
<1>1. TargetInv => TargetJudged
  BY DEF TargetInv
<1> QED
  BY <1>1, TargetInitially, TargetStepKeeps, PTL DEF TgSpec

-----------------------------------------------------------------------------
(* RelayEntry.                                                              *)

\* The bytes of s are numbered on from a.
Numbered(s, a) == s \in Seq(Nat) /\ \A k \in 1..Len(s) : s[k] = a + k

\* The bytes accepted and pending are the first of the stream, numbered on
\* from one to the other; a direction that lost bytes reads no more.
EntryInv ==
  /\ rd \in Nat /\ pcap \in Nat
  /\ {from_eof, wr_closed, inLoop, gone} \subseteq BOOLEAN
  /\ Numbered(out, 0) /\ Numbered(pend, Len(out))
  /\ ~gone => rd = Len(out) + Len(pend)
  /\ Len(pend) <= RP_PEND_LIMIT /\ Len(pend) <= pcap
  /\ gone => ~inLoop /\ (from_eof \/ wr_closed)
  /\ wr_closed => ~inLoop
  /\ wr_closed /\ ~gone => pend = <<>>

\* Bytes joined to the bytes before them are numbered on.
LEMMA NumberedJoin ==
  ASSUME NEW s, NEW t, NEW a \in Nat, Numbered(s, a), Numbered(t, a + Len(s))
  PROVE  /\ Len(s) \in Nat /\ Len(t) \in Nat
         /\ Numbered(s \o t, a) /\ Len(s \o t) = Len(s) + Len(t)
<1>1. s \in Seq(Nat) /\ t \in Seq(Nat)
  BY DEF Numbered
<1> DEFINE n == Len(s) m == Len(t) st == s \o t
<1>2. n \in Nat /\ m \in Nat
  BY <1>1
<1>3. /\ st \in Seq(Nat) /\ Len(st) = n + m
      /\ \A k \in 1..n + m : st[k] = IF k <= n THEN s[k] ELSE t[k - n]
  BY <1>1, SeqJoin
<1>4. (\A k \in 1..n : s[k] = a + k) /\ \A k \in 1..m : t[k] = (a + n) + k
  BY DEF Numbered
<1> HIDE DEF n, m, st
<1>5. \A k \in 1..n + m : st[k] = a + k
  <2> TAKE k \in 1..n + m
  <2>1. CASE k <= n
    <3>1. k \in 1..n /\ st[k] = s[k]
      BY <1>2, <1>3, <2>1
    <3> QED
      BY <1>4, <3>1
  <2>2. CASE ~(k <= n)
    <3>1. k - n \in 1..m
      BY <1>2, <2>2
    <3>2. t[k - n] = (a + n) + (k - n)
      BY <1>4, <3>1
    <3> QED
      BY <1>2, <1>3, <2>2, <3>2
  <2> QED
    BY <2>1, <2>2
<1> QED
  BY <1>2, <1>3, <1>5 DEF Numbered, n, m, st

\* Both parts of a cut are numbered where they begin.
LEMMA NumberedCut ==
  ASSUME NEW s, NEW a \in Nat, NEW w \in Nat, Numbered(s, a), w <= Len(s)
  PROVE  /\ Len(s) \in Nat
         /\ Numbered(SubSeq(s, 1, w), a) /\ Len(SubSeq(s, 1, w)) = w
         /\ Numbered(SubSeq(s, w + 1, Len(s)), a + w)
         /\ Len(SubSeq(s, w + 1, Len(s))) = Len(s) - w
<1> DEFINE n == Len(s) l == SubSeq(s, 1, w) r == SubSeq(s, w + 1, n)
<1>1. s \in Seq(Nat) /\ n \in Nat /\ w <= n /\ \A k \in 1..n : s[k] = a + k
  BY DEF Numbered
<1> HIDE DEF n
<1>2. \A k \in 1..n : s[k] \in Nat
  BY <1>1
<1>3. /\ l \in Seq(Nat) /\ Len(l) = (IF 1 <= w THEN w - 1 + 1 ELSE 0)
      /\ \A k \in 1..w - 1 + 1 : l[k] = s[1 + k - 1]
  <2>1. \A k \in 1..w : s[k] \in Nat
    BY <1>1, <1>2
  <2> QED
    BY <2>1, SeqCut
<1>4. /\ r \in Seq(Nat) /\ Len(r) = (IF w + 1 <= n THEN n - (w + 1) + 1 ELSE 0)
      /\ \A k \in 1..n - (w + 1) + 1 : r[k] = s[(w + 1) + k - 1]
  <2>1. \A k \in w + 1..n : s[k] \in Nat
    BY <1>1, <1>2
  <2> QED
    BY <1>1, <2>1, SeqCut
<1> HIDE DEF l, r
<1>5. Len(l) = w /\ Len(r) = n - w
  BY <1>1, <1>3, <1>4
<1>6. \A k \in 1..w : l[k] = a + k
  BY <1>1, <1>3
<1>7. \A k \in 1..n - w : r[k] = (a + w) + k
  BY <1>1, <1>4
<1> QED
  BY <1>1, <1>3, <1>4, <1>5, <1>6, <1>7, SMTT(60), Z3T(60) DEF Numbered, n, l, r

\* Bytes numbered from zero are the first bytes of the stream.
LEMMA NumberedIs ==
  ASSUME NEW s, Numbered(s, 0) PROVE s = EntBytes(0, Len(s))
<1> DEFINE n == Len(s)
<1>1. s \in Seq(Nat) /\ n \in Nat /\ \A k \in 1..n : s[k] = 0 + k
  BY DEF Numbered
<1>2. s = [k \in 1..n |-> s[k]]
  BY <1>1
<1> HIDE DEF n
<1>3. n - 0 = n
  BY <1>1
<1> QED
  BY <1>1, <1>2, <1>3 DEF EntBytes, n

\* The bytes of a recv are numbered on from what has been read.
LEMMA NewBytes ==
  ASSUME NEW a \in Nat, NEW n \in Nat
  PROVE  Numbered(EntBytes(a, a + n), a) /\ Len(EntBytes(a, a + n)) = n
<1> DEFINE b == [k \in 1..n |-> a + k]
<1>1. EntBytes(a, a + n) = b
  BY DEF EntBytes
<1>2. b \in [1..n -> Nat] /\ \A k \in 1..n : b[k] = a + k
  OBVIOUS
<1> HIDE DEF b
<1>3. b \in Seq(Nat) /\ Len(b) = n
  BY <1>2
<1> QED
  BY <1>1, <1>2, <1>3, SMTT(60) DEF Numbered

\* No bytes are numbered from anywhere.
LEMMA NoneNumbered == ASSUME NEW a PROVE Numbered(<<>>, a) /\ Len(<<>>) = 0
  BY DEF Numbered

\* The strengthening gives the order.
LEMMA EntryInOrder == EntryInv => InOrder
<1> SUFFICES ASSUME EntryInv PROVE InOrder
  OBVIOUS
<1>1. out = EntBytes(0, Len(out))
  BY NumberedIs DEF EntryInv
<1>2. Len(out) \in Nat /\ out \in Seq(Nat)
  BY DEF EntryInv, Numbered
<1>3. ~gone => out \o pend = EntBytes(0, rd)
  <2> DEFINE both == out \o pend
  <2>1. Numbered(out, 0) /\ Numbered(pend, 0 + Len(out))
    BY <1>2 DEF EntryInv
  <2>2. Numbered(both, 0) /\ Len(both) = Len(out) + Len(pend)
    BY <2>1, NumberedJoin
  <2> HIDE DEF both
  <2>3. both = EntBytes(0, Len(both))
    BY <2>2, NumberedIs
  <2> QED
    BY <2>2, <2>3 DEF EntryInv, both
<1>4. out \o <<>> = out
  BY <1>2, SeqJoinNone
<1>5. ASSUME wr_closed, ~gone PROVE out = EntBytes(0, rd)
  BY <1>3, <1>4, <1>5, Zenon DEF EntryInv
<1> QED
  BY <1>1, <1>3, <1>5 DEF EntryInv, InOrder

\* The handshake's tail is the beginning of the stream.
LEMMA EntryInitially == EntInit => EntryInv
<1> SUFFICES ASSUME EntInit PROVE EntryInv
  OBVIOUS
<1>1. /\ rd \in Nat /\ out = EntBytes(0, rd) /\ pend = <<>> /\ pcap = 0
      /\ from_eof = FALSE /\ wr_closed = FALSE /\ inLoop = FALSE /\ gone = FALSE
      /\ RP_PEND_LIMIT \in Nat
  BY EntryConstants DEF EntInit
<1>2. Numbered(out, 0) /\ Len(out) = rd
  <2>1. 0 + rd = rd
    BY <1>1
  <2>2. Numbered(EntBytes(0, 0 + rd), 0) /\ Len(EntBytes(0, 0 + rd)) = rd
    BY <1>1, NewBytes
  <2> QED
    BY <1>1, <2>1, <2>2
<1>3. Numbered(pend, Len(out)) /\ Len(pend) = 0
  BY <1>1, NoneNumbered
<1>4. rd = Len(out) + Len(pend) /\ Len(pend) <= RP_PEND_LIMIT /\ Len(pend) <= pcap
  BY <1>1, <1>2, <1>3
<1> HIDE DEF Numbered
<1> QED
  BY <1>1, <1>2, <1>3, <1>4, Zenon DEF EntryInv

\* pend is given room for what it holds.
LEMMA GrownFits ==
  ASSUME pcap \in Nat, NEW want \in Nat, EntGrown(want)
  PROVE  pcap' \in Nat /\ want <= pcap'
<1>1. Capacities \subseteq Nat
  BY EntryConstants
<1> QED
  BY <1>1 DEF EntGrown

\* A receive: what the socket took goes behind out, the rest behind pend.
LEMMA RecvKeeps ==
  ASSUME EntryInv, NEW n \in 1..RP_BUF, NEW w \in 0..RP_BUF, EntRecv(n, w)
  PROVE  EntryInv'
<1> DEFINE new == EntBytes(rd, rd + n)
           sent == SubSeq(new, 1, w)
           rest == SubSeq(new, w + 1, n)
<1>1. /\ n \in Nat /\ w \in Nat /\ 1 <= n /\ n <= RP_BUF /\ RP_BUF \in Nat /\ RP_PEND_LIMIT \in Nat
  BY EntryConstants
<1>2. /\ rd \in Nat /\ pcap \in Nat /\ Len(out) \in Nat /\ Len(pend) \in Nat
      /\ inLoop /\ ~gone /\ ~wr_closed /\ rd = Len(out) + Len(pend)
      /\ Len(pend) + RP_BUF <= RP_PEND_LIMIT /\ Len(pend) <= pcap
      /\ Numbered(out, 0) /\ Numbered(pend, Len(out))
  BY DEF EntryInv, EntRecv, EntHasRoom, Numbered
<1>3. /\ (pend = <<>> /\ w <= n) \/ w = 0
      /\ out' = out \o sent /\ rd' = rd + n /\ wr_closed' = wr_closed
  BY DEF EntRecv, EntStraight
<1>4. Numbered(new, rd) /\ Len(new) = n
  BY <1>1, <1>2, NewBytes, Zenon
<1> HIDE DEF new
<1>5. w <= n /\ (w # 0 => pend = <<>>)
  BY <1>1, <1>3
<1>6. /\ Numbered(sent, rd) /\ Len(sent) = w
      /\ Numbered(rest, rd + w) /\ Len(rest) = n - w
  BY <1>1, <1>2, <1>4, <1>5, NumberedCut, SMTT(60)
<1> HIDE DEF sent, rest
<1>7. Numbered(out', 0) /\ Len(out') = Len(out) + w
  <2>1. CASE w = 0
    <3>1. sent = <<>>
      BY <1>6, <2>1, SeqJoinNone DEF Numbered
    <3>2. Numbered(sent, 0 + Len(out))
      BY <3>1, NoneNumbered
    <3> QED
      BY <1>2, <1>3, <1>6, <3>2, NumberedJoin, Zenon
  <2>2. CASE w # 0
    <3>1. 0 + Len(out) = rd
      BY <1>2, <1>5, <2>2, SMTT(60)
    <3> QED
      BY <1>2, <1>3, <1>6, <3>1, NumberedJoin, Zenon
  <2> QED
    BY <2>1, <2>2
<1>8. CASE w < n /\ EntPended(rest) /\ UNCHANGED <<from_eof, gone, inLoop>>
  <2> DEFINE m == Len(pend) + Len(rest)
  <2>1. pend' = pend \o rest /\ EntGrown(m)
    BY <1>8 DEF EntPended
  <2>2. m \in Nat /\ m <= RP_PEND_LIMIT /\ m = Len(pend) + n - w
    BY <1>1, <1>2, <1>5, <1>6, SMTT(60)
  <2>3. Numbered(pend', Len(out')) /\ Len(pend') = m
    <3>1. CASE w = 0
      <4>1. Len(out') = Len(out) /\ Len(out) + Len(pend) = rd + w
        BY <1>2, <1>7, <3>1
      <4> QED
        BY <1>2, <1>6, <2>1, <4>1, NumberedJoin, Zenon
    <3>2. CASE w # 0
      <4>1. pend = <<>> /\ Len(pend) = 0 /\ Len(out') = rd + w
        BY <1>2, <1>5, <1>7, <3>2, SMTT(60)
      <4>2. pend \o rest = rest
        BY <1>6, <4>1, SeqJoinNone DEF Numbered
      <4> QED
        BY <1>1, <1>6, <2>1, <2>2, <4>1, <4>2, SMTT(60)
    <3> QED
      BY <3>1, <3>2
  <2> HIDE DEF m
  <2>4. pcap' \in Nat /\ m <= pcap'
    BY <1>2, <2>1, <2>2, GrownFits, SMTT(60)
  <2>5. rd' \in Nat /\ rd' = Len(out') + m
    BY <1>1, <1>2, <1>3, <1>7, <2>2, SMTT(60), Z3T(60)
  <2> QED
    BY <1>2, <1>3, <1>7, <1>8, <2>2, <2>3, <2>4, <2>5, SMTT(60) DEF EntryInv
<1>9. CASE w = n /\ UNCHANGED <<pend, pcap, from_eof, gone, inLoop>>
  <2>1. pend' = <<>> /\ Len(pend') = 0 /\ pend' = pend
    BY <1>1, <1>5, <1>9
  <2>2. rd' \in Nat /\ rd' = Len(out') + 0
    BY <1>1, <1>2, <1>3, <1>7, <1>9, <2>1, SMTT(60)
  <2>3. Numbered(pend', Len(out'))
    BY <2>1, NoneNumbered
  <2> QED
    BY <1>1, <1>2, <1>3, <1>7, <1>9, <2>1, <2>2, <2>3 DEF EntryInv
<1>10. CASE EntDropped /\ inLoop' = FALSE /\ UNCHANGED pcap
  <2>1. pend' = <<>> /\ from_eof' = TRUE /\ gone' = TRUE
    BY <1>10 DEF EntDropped
  <2>2. rd' \in Nat
    BY <1>1, <1>2, <1>3, SMTT(60)
  <2>3. Numbered(pend', Len(out')) /\ Len(pend') = 0
    BY <2>1, NoneNumbered
  <2>4. Len(pend') <= RP_PEND_LIMIT /\ Len(pend') <= pcap'
    BY <1>1, <1>2, <1>10, <2>3
  <2> QED
    BY <1>2, <1>3, <1>7, <1>10, <2>1, <2>2, <2>3, <2>4, Zenon DEF EntryInv
<1>11. \/ w < n /\ EntPended(rest) /\ UNCHANGED <<from_eof, gone, inLoop>>
       \/ ~(w < n) /\ UNCHANGED <<pend, pcap, from_eof, gone, inLoop>>
       \/ EntDropped /\ inLoop' = FALSE /\ UNCHANGED pcap
  BY Zenon DEF EntRecv, rest, new
<1>12. ~(w < n) => w = n
  BY <1>1, <1>5
<1> QED
  BY <1>8, <1>9, <1>10, <1>11, <1>12, Zenon

\* A flush keeps the order: what was sent goes behind out, the rest stays.
LEMMA FlushKeeps ==
  ASSUME EntryInv, NEW w \in 0..RP_PEND_LIMIT, EntFlush(w)
  PROVE  EntryInv'
<1> DEFINE sent == SubSeq(pend, 1, w) rest == SubSeq(pend, w + 1, Len(pend))
<1>1. /\ w \in Nat /\ w <= Len(pend) /\ rd \in Nat /\ pcap \in Nat
      /\ Len(pend) \in Nat /\ Len(out) \in Nat
      /\ Numbered(out, 0) /\ Numbered(pend, Len(out)) /\ RP_PEND_LIMIT \in Nat
  <2>1. RP_PEND_LIMIT \in Nat
    BY EntryConstants
  <2>2. /\ w \in Nat /\ w <= Len(pend) /\ rd \in Nat /\ pcap \in Nat
        /\ Numbered(out, 0) /\ Numbered(pend, Len(out))
    BY <2>1 DEF EntryInv, EntFlush
  <2>3. Len(pend) \in Nat /\ Len(out) \in Nat
    BY <2>2 DEF Numbered
  <2> QED
    BY <2>1, <2>2, <2>3
<1>2. /\ out' = out \o sent /\ ~inLoop /\ pend # <<>>
      /\ UNCHANGED <<rd, pcap, wr_closed, inLoop>>
  BY DEF EntFlush
<1>3. /\ Numbered(sent, Len(out)) /\ Len(sent) = w
      /\ Numbered(rest, Len(out) + w) /\ Len(rest) = Len(pend) - w
  BY <1>1, NumberedCut, SMTT(60)
<1>4. CASE pend' = rest /\ UNCHANGED <<from_eof, gone>>
  <2> HIDE DEF sent, rest
  <2>1. Numbered(out', 0) /\ Len(out') = Len(out) + w
    <3>1. 0 + Len(out) = Len(out)
      BY <1>1
    <3> QED
      BY <1>1, <1>2, <1>3, <3>1, NumberedJoin, Zenon
  <2>2. Numbered(pend', Len(out')) /\ Len(pend') = Len(pend) - w
    BY <1>3, <1>4, <2>1
  <2>3. ~gone => rd = Len(out') + Len(pend')
    BY <1>1, <2>1, <2>2, SMTT(60) DEF EntryInv
  <2>4. Len(pend') <= RP_PEND_LIMIT /\ Len(pend') <= pcap
    BY <1>1, <2>2, SMTT(60) DEF EntryInv
  <2> QED
    BY <1>1, <1>2, <1>4, <2>1, <2>2, <2>3, <2>4, SMTT(60) DEF EntryInv
<1>5. CASE EntDropped
  <2> HIDE DEF sent, rest
  <2>1. pend' = <<>> /\ from_eof' = TRUE /\ gone' = TRUE
    BY <1>5 DEF EntDropped
  <2>2. Numbered(out', 0)
    <3>1. 0 + Len(out) = Len(out)
      BY <1>1
    <3> QED
      BY <1>1, <1>2, <1>3, <3>1, NumberedJoin
  <2>3. Numbered(pend', Len(out')) /\ Len(pend') = 0
    BY <2>1, NoneNumbered
  <2>4. Len(pend') <= RP_PEND_LIMIT /\ Len(pend') <= pcap'
    BY <1>1, <1>2, <2>3
  <2> QED
    BY <1>1, <1>2, <2>1, <2>2, <2>3, <2>4 DEF EntryInv
<1> QED
  BY <1>4, <1>5 DEF EntFlush

\* Every step of an entry keeps the order.
LEMMA EntryStepKeeps == EntryInv /\ [EntNext]_entVars => EntryInv'
<1> SUFFICES ASSUME EntryInv, [EntNext]_entVars PROVE EntryInv'
  OBVIOUS
<1>1. CASE EntReadable
  BY <1>1 DEF EntryInv, EntReadable
<1>2. CASE EntLoopEnds
  <2>1. from_eof' \in BOOLEAN
    BY <1>2, Zenon DEF EntLoopEnds
  <2> QED
    BY <1>2, <2>1, Zenon DEF EntryInv, EntLoopEnds
<1>3. CASE EntRetire
  BY <1>3 DEF EntryInv, EntRetire
<1>4. CASE EntTornDown
  BY <1>4 DEF EntryInv, EntTornDown
<1>5. CASE UNCHANGED entVars
  BY <1>5 DEF EntryInv, entVars
<1> QED
  BY <1>1, <1>2, <1>3, <1>4, <1>5, RecvKeeps, FlushKeeps, SMTT(60) DEF EntNext

\* Bytes keep their order, none is lost before a failure, and the far side sees
\* the end only after the last of them: for every buffer size, limit and
\* length of the stream.
THEOREM EntryKeepsOrder == EntSpec => []InOrder
  BY EntryInitially, EntryStepKeeps, EntryInOrder, PTL DEF EntSpec

-----------------------------------------------------------------------------
(* RelayHead.                                                               *)

\* The lines of a head.
LineT == [kind : Kinds \cup {"blank"}, len : Nat, eol : {1, 2}]

\* What a walk counts for a line, and the running total S of the lines up to p.
Cost(ln) == IF head[ln].kind = "connection" THEN 0 ELSE head[ln].len + 2

\* S adds up the bytes the prescan counts for the lines before each line up
\* to p.
Totals(S, p) ==
  /\ S[1] = 0
  /\ \A ln \in 1..p - 1 : S[ln + 1] = S[ln] + Cost(ln)
  /\ \A ln, j \in 1..p : ln <= j => S[ln] <= S[j]

\* No line ends the head before p; the lines kept before p.
NoneBlank(p) == \A ln \in 1..p - 1 : head[ln].kind # "blank"

\* The lines before p that a rewrite keeps.
KeptTo(p) == {ln \in 1..p - 1 : head[ln].kind # "connection"}

\* hout is what the kept lines before p are rewritten to.
Emitted(p) ==
  /\ Len(hout) = Cardinality(KeptTo(p))
  /\ \A ln \in KeptTo(p) :
       /\ Cardinality(KeptTo(ln + 1)) \in 1..Len(hout)
       /\ hout[Cardinality(KeptTo(ln + 1))] = [head[ln] EXCEPT !.eol = 2]

\* The types of the rewrite's variables.
HeadTypes ==
  /\ head \in Seq(LineT) /\ head # <<>> /\ head[Len(head)].kind = "blank"
  /\ walk \in {"scan", "emit", "rewritten", "verbatim"}
  /\ need \in Nat /\ o \in Nat /\ hout \in Seq(LineT)
  /\ pos \in 1..Len(head) + 1

\* The prescan has counted the lines before its position.
Scanning ==
  walk = "scan" =>
    /\ pos <= Len(head) /\ NoneBlank(pos) /\ o = 0 /\ hout = <<>>
    /\ \E S \in [Nat -> Nat] : Totals(S, pos) /\ need = S[pos]

\* The emitting walk has written the kept lines before its position, and what
\* the prescan counted for them is what they took.
Emitting ==
  walk = "emit" =>
    \E b \in 1..Len(head), S \in [Nat -> Nat] :
      /\ head[b].kind = "blank" /\ NoneBlank(b) /\ pos <= b /\ Totals(S, b)
      /\ need = S[b] + CLOSE_LEN + 2 + 2 /\ need <= HeadCap
      /\ o = S[pos] /\ Emitted(pos)

\* The inductive strengthening of HeadRewritten.
HeadInv == HeadTypes /\ Scanning /\ Emitting /\ HeadRewritten

\* One more line is kept, or none.
LEMMA KeptGrows ==
  ASSUME NEW p \in Nat \ {0}
  PROVE  /\ KeptTo(p + 1) = KeptTo(p) \cup (IF head[p].kind = "connection" THEN {} ELSE {p})
         /\ p \notin KeptTo(p)
         /\ IsFiniteSet(KeptTo(p)) /\ Cardinality(KeptTo(p)) \in Nat
         /\ Cardinality(KeptTo(p + 1)) = Cardinality(KeptTo(p)) + (IF head[p].kind = "connection" THEN 0 ELSE 1)
<1>1. KeptTo(p + 1) = KeptTo(p) \cup (IF head[p].kind = "connection" THEN {} ELSE {p})
  BY DEF KeptTo
<1>2. p \notin KeptTo(p)
  BY DEF KeptTo
<1>3. IsFiniteSet(KeptTo(p))
  <2>1. IsFiniteSet(1..p - 1) /\ KeptTo(p) \subseteq 1..p - 1
    BY FS_Interval DEF KeptTo
  <2> QED
    BY <2>1, FS_Subset
<1>4. Cardinality(KeptTo(p)) \in Nat
  BY <1>3, FS_CardinalityType, SMTT(60)
<1>5. CASE head[p].kind = "connection"
  BY <1>1, <1>2, <1>3, <1>4, <1>5, SMTT(60)
<1>6. CASE head[p].kind # "connection"
  <2>1. KeptTo(p + 1) = KeptTo(p) \cup {p}
    BY <1>1, <1>6, SMTT(60)
  <2>2. Cardinality(KeptTo(p) \cup {p}) = Cardinality(KeptTo(p)) + 1
    BY <1>2, <1>3, FS_AddElement, SMTT(60)
  <2> QED
    BY <1>1, <1>2, <1>3, <1>4, <1>6, <2>1, <2>2, SMTT(60)
<1> QED
  BY <1>5, <1>6

\* The lines of a head are of their type, and so is what they cost.
LEMMA LineTyped ==
  ASSUME HeadTypes, NEW ln \in 1..Len(head)
  PROVE  head[ln] \in LineT /\ head[ln].len \in Nat /\ Cost(ln) \in Nat
<1>1. head[ln] \in LineT
  BY SeqAt, SMTT(60) DEF HeadTypes
<1> QED
  BY <1>1, SMTT(60) DEF LineT, Cost

\* The total is carried on by one line.
LEMMA TotalsGrow ==
  ASSUME NEW S \in [Nat -> Nat], NEW p \in Nat \ {0}, Totals(S, p), Cost(p) \in Nat
  PROVE  \E T \in [Nat -> Nat] : Totals(T, p + 1) /\ T[p + 1] = S[p] + Cost(p)
<1> DEFINE T == [S EXCEPT ![p + 1] = S[p] + Cost(p)]
<1>1. T \in [Nat -> Nat] /\ T[p + 1] = S[p] + Cost(p) /\ \A ln \in Nat : ln # p + 1 => T[ln] = S[ln]
  OBVIOUS
<1> HIDE DEF T
<1>2. T[1] = 0
  BY <1>1 DEF Totals
<1>3. ASSUME NEW ln \in 1..(p + 1) - 1 PROVE T[ln + 1] = T[ln] + Cost(ln)
  <2>1. CASE ln = p
    <3>1. T[p] = S[p]
      BY <1>1
    <3> QED
      BY <1>1, <2>1, <3>1, SMTT(60)
  <2>2. CASE ln # p
    <3>1. ln \in 1..p - 1 /\ ln + 1 \in Nat /\ ln + 1 # p + 1 /\ ln # p + 1 /\ ln \in Nat
      BY <2>2
    <3>2. S[ln + 1] = S[ln] + Cost(ln)
      BY <3>1 DEF Totals
    <3> QED
      BY <1>1, <3>1, <3>2, SMTT(60)
  <2> QED
    BY <2>1, <2>2
<1>4. ASSUME NEW ln \in 1..p + 1, NEW j \in 1..p + 1, ln <= j PROVE T[ln] <= T[j]
  <2>1. CASE j \in 1..p
    <3>1. ln \in 1..p /\ S[ln] <= S[j]
      BY <1>4, <2>1 DEF Totals
    <3> QED
      BY <1>1, <2>1, <3>1, SMTT(60)
  <2>2. CASE j = p + 1 /\ ln \in 1..p
    <3>1. S[ln] <= S[p] /\ T[ln] = S[ln] /\ S[ln] \in Nat /\ S[p] \in Nat
      BY <1>1, <2>2 DEF Totals
    <3> QED
      BY <1>1, <2>2, <3>1, SMTT(60)
  <2>3. CASE j = p + 1 /\ ln = p + 1
    <3>1. T[p + 1] \in Nat
      BY <1>1, SMTT(60)
    <3> QED
      BY <2>3, <3>1
  <2> QED
    BY <2>1, <2>2, <2>3, SMTT(60)
<1>5. Totals(T, p + 1)
  BY <1>2, <1>3, <1>4 DEF Totals
<1> QED
  BY <1>1, <1>5, SMTT(60)

\* The walk begins with nothing counted.
LEMMA HeadInitially == HeadInit => HeadInv
<1> SUFFICES ASSUME HeadInit PROVE HeadInv
  OBVIOUS
<1> DEFINE first == [kind |-> "other", len |-> 2, eol |-> 2]
<1>1. PICK n \in 0..MaxLines : \E mid \in [1..n -> Lines] : head = <<first>> \o mid \o <<Blank>>
  BY Zenon DEF HeadInit
<1>2. PICK mid \in [1..n -> Lines] : head = <<first>> \o mid \o <<Blank>>
  BY <1>1, SMTT(60)
<1>3. Lines \subseteq LineT /\ first \in LineT /\ Blank \in LineT /\ Blank.kind = "blank"
  BY DEF Lines, LineT, Kinds, Blank
<1>4. mid \in Seq(LineT)
  <2>1. n \in Nat /\ mid \in [1..n -> LineT]
    BY <1>3, HeadConstants, SMTT(60)
  <2> QED
    BY <2>1
<1>5. <<first>> \in Seq(LineT) /\ <<Blank>> \in Seq(LineT) /\ Len(<<first>>) = 1 /\ Len(<<Blank>>) = 1
      /\ <<Blank>>[1] = Blank
  BY <1>3
<1> DEFINE l == <<first>> \o mid
           blk == <<Blank>>
<1> HIDE DEF first
<1>6. l \in Seq(LineT) /\ Len(l) = 1 + Len(mid) /\ Len(mid) \in Nat
  BY <1>4, <1>5, SeqJoin
<1> HIDE DEF l, blk
<1>7. /\ head \in Seq(LineT) /\ Len(head) = Len(l) + Len(blk)
      /\ \A k \in 1 .. Len(l) + Len(blk) : head[k] = IF k <= Len(l) THEN l[k] ELSE blk[k - Len(l)]
  <2>1. head = l \o blk /\ blk \in Seq(LineT)
    BY <1>2, <1>5 DEF l, blk
  <2>2. /\ l \o blk \in Seq(LineT) /\ Len(l \o blk) = Len(l) + Len(blk)
        /\ \A k \in 1 .. Len(l) + Len(blk) : (l \o blk)[k] = IF k <= Len(l) THEN l[k] ELSE blk[k - Len(l)]
    BY <1>6, <2>1, SeqJoin, ZenonT(60)
  <2> QED
    BY <2>1, <2>2, Zenon
<1>8. Len(head) \in Nat /\ Len(head) = Len(l) + 1 /\ Len(head) >= 2 /\ blk[1] = Blank /\ Len(blk) = 1
  BY <1>5, <1>6, <1>7 DEF blk
<1>9. head[Len(head)] = Blank
  <2>1. Len(head) \in 1 .. Len(l) + Len(blk) /\ ~(Len(head) <= Len(l)) /\ Len(head) - Len(l) = 1
    BY <1>6, <1>7, <1>8
  <2> QED
    BY <1>7, <1>8, <2>1
<1>10. pos = 1 /\ walk = "scan" /\ need = 0 /\ o = 0 /\ hout = <<>>
  BY DEF HeadInit
<1>11. HeadTypes
  <2>1. pos \in 1..Len(head) + 1 /\ head # <<>>
    BY <1>8, <1>10
  <2> QED
    BY <1>3, <1>7, <1>9, <1>10, <2>1 DEF HeadTypes
<1>12. Scanning
  <2> DEFINE S == [ln \in Nat |-> 0]
  <2>1. S \in [Nat -> Nat] /\ S[1] = 0
    OBVIOUS
  <2>2. 1..1 - 1 = {} /\ \A ln, j \in 1..1 : ln = 1 /\ j = 1
    OBVIOUS
  <2>3. Totals(S, 1)
    BY <2>1, <2>2 DEF Totals
  <2>4. NoneBlank(1) /\ pos <= Len(head)
    BY <1>8, <1>10, <2>2 DEF NoneBlank
  <2> QED
    BY <1>10, <2>1, <2>3, <2>4, SMTT(60) DEF Scanning
<1>13. Emitting /\ HeadRewritten
  BY <1>10 DEF Emitting, HeadRewritten
<1> QED
  BY <1>11, <1>12, <1>13 DEF HeadInv

\* The prescan at a line before the end.
LEMMA ScanLineKeeps == ASSUME HeadInv, ScanLine PROVE HeadInv'
<1>1. /\ walk = "scan" /\ walk' = "scan" /\ Line.kind # "blank" /\ pos' = pos + 1
      /\ UNCHANGED <<head, o, hout>> /\ HeadTypes /\ pos <= Len(head) /\ NoneBlank(pos) /\ o = 0 /\ hout = <<>>
      /\ need' = need + Cost(pos)
  BY DEF HeadInv, Scanning, ScanLine, Line, Cost
<1>2. pos \in 1..Len(head) /\ pos \in Nat \ {0} /\ Len(head) \in Nat /\ need \in Nat
  BY <1>1 DEF HeadTypes
<1>3. Cost(pos) \in Nat
  BY <1>1, <1>2, LineTyped, SMTT(60)
<1>4. pos # Len(head)
  BY <1>1 DEF HeadTypes, Line
<1>5. pos' \in 1..Len(head) + 1 /\ pos' <= Len(head) /\ need' \in Nat
  BY <1>1, <1>2, <1>3, <1>4, SMTT(60)
<1>6. HeadTypes'
  BY <1>1, <1>5, SMTT(60) DEF HeadTypes, LineT
<1>7. NoneBlank(pos)'
  <2>1. \A ln \in 1..pos' - 1 : ln = pos \/ ln \in 1..pos - 1
    BY <1>1, <1>2
  <2> QED
    BY <1>1, <2>1 DEF NoneBlank, Line
<1>8. PICK S \in [Nat -> Nat] : Totals(S, pos) /\ need = S[pos]
  BY <1>1, Zenon DEF HeadInv, Scanning
<1>9. PICK T \in [Nat -> Nat] : Totals(T, pos + 1) /\ T[pos + 1] = S[pos] + Cost(pos)
  BY <1>2, <1>3, <1>8, TotalsGrow, Zenon
<1>10. Totals(T, pos') /\ need' = T[pos']
  BY <1>1, <1>8, <1>9, SMTT(60)
<1>11. \A U : Totals(U, pos)' = Totals(U, pos')
  BY <1>1 DEF Totals, Cost
<1>12. Scanning'
  BY <1>1, <1>5, <1>7, <1>10, <1>11, Zenon DEF Scanning
<1> QED
  BY <1>1, <1>6, <1>12, SMTT(60) DEF HeadInv, Emitting, HeadRewritten

\* The prescan at the end of the head: the rewrite begins, or the head goes
\* out as it is.
LEMMA ScanEndsKeeps == ASSUME HeadInv, ScanEnds PROVE HeadInv'
<1>1. /\ walk = "scan" /\ Line.kind = "blank" /\ pos' = 1
      /\ walk' = IF is_upgrade \/ need' > HeadCap THEN "verbatim" ELSE "emit"
      /\ UNCHANGED <<head, o, hout>> /\ HeadTypes /\ pos <= Len(head) /\ NoneBlank(pos) /\ o = 0 /\ hout = <<>>
      /\ need' = need + CLOSE_LEN + 2 + 2
  BY DEF HeadInv, Scanning, ScanEnds, Line
<1>2. pos \in 1..Len(head) /\ Len(head) \in Nat /\ need \in Nat /\ need' \in Nat /\ 1 <= pos
      /\ HeadCap \in Nat /\ 1 \in 1..Len(head) + 1
  BY <1>1, HeadConstants, SMTT(60) DEF HeadTypes
<1>3. HeadTypes'
  BY <1>1, <1>2 DEF HeadTypes, LineT
<1>4. PICK S \in [Nat -> Nat] : Totals(S, pos) /\ need = S[pos]
  BY <1>1, Zenon DEF HeadInv, Scanning
<1>5. Emitting'
  <2> SUFFICES ASSUME walk' = "emit" PROVE Emitting'
    BY Zenon DEF Emitting
  <2>1. need' <= HeadCap
    BY <1>1, <1>2, SMTT(60)
  <2>2. need' = S[pos] + CLOSE_LEN + 2 + 2 /\ o' = S[1]
    BY <1>1, <1>4 DEF Totals
  <2>3. Emitted(1)'
    <3>1. KeptTo(1)' = {}
      BY DEF KeptTo
    <3>2. Cardinality({}) = 0
      BY FS_EmptySet, SMTT(60)
    <3> QED
      BY <1>1, <3>1, <3>2, Zenon DEF Emitted
  <2>4. head[pos].kind = "blank"
    BY <1>1, SMTT(60) DEF Line
  <2>5. \A p : NoneBlank(p)' = NoneBlank(p) /\ \A U : Totals(U, p)' = Totals(U, p)
    BY <1>1 DEF NoneBlank, Totals, Cost
  <2>6. \E b \in 1..Len(head'), U \in [Nat -> Nat] :
          /\ head'[b].kind = "blank" /\ NoneBlank(b)' /\ pos' <= b /\ Totals(U, b)'
          /\ need' = U[b] + CLOSE_LEN + 2 + 2 /\ need' <= HeadCap
          /\ o' = U[pos'] /\ Emitted(pos)'
    <3>1. Emitted(pos)'
      BY <1>1, <2>3, SMTT(60) DEF Emitted, KeptTo
    <3>2. pos \in 1..Len(head')
      BY <1>1, <1>2
    <3> QED
      BY <1>1, <1>2, <1>4, <2>1, <2>2, <2>4, <2>5, <3>1, <3>2, Zenon
  <2> QED
    BY <2>6, Zenon DEF Emitting, NoneBlank, Totals, Cost
<1>6. HeadRewritten'
  <2>1. walk' = "emit" => o' <= need' /\ need' <= HeadCap
    BY <1>1, <1>2, SMTT(60)
  <2> QED
    BY <1>1, <2>1, SMTT(60) DEF HeadRewritten
<1>7. Scanning'
  BY <1>1, SMTT(60) DEF Scanning
<1> QED
  BY <1>3, <1>5, <1>6, <1>7, SMTT(60) DEF HeadInv

\* The emitting walk at a line before the end: the prescan counted it.
LEMMA EmitLineKeeps == ASSUME HeadInv, EmitLine PROVE HeadInv'
<1>1. /\ walk = "emit" /\ Line.kind # "blank" /\ UNCHANGED <<head, is_upgrade, need>> /\ HeadTypes
      /\ HeadRewritten
  BY DEF HeadInv, EmitLine
<1>2. PICK b \in 1..Len(head), S \in [Nat -> Nat] :
        /\ head[b].kind = "blank" /\ NoneBlank(b) /\ pos <= b /\ Totals(S, b)
        /\ need = S[b] + CLOSE_LEN + 2 + 2 /\ need <= HeadCap
        /\ o = S[pos] /\ Emitted(pos)
  BY <1>1, Zenon DEF HeadInv, Emitting
<1>3. /\ Len(head) \in Nat /\ pos \in Nat \ {0} /\ b \in Nat /\ b <= Len(head) /\ need \in Nat /\ o \in Nat
      /\ HeadCap \in Nat /\ CLOSE_LEN \in Nat
  <2>1. Len(head) \in Nat /\ pos \in 1..Len(head) + 1 /\ need \in Nat /\ o \in Nat
    BY <1>1 DEF HeadTypes
  <2>2. b \in Nat /\ b <= Len(head) /\ pos \in Nat \ {0}
    BY <2>1
  <2> QED
    BY <2>1, <2>2, HeadConstants, SMTT(60)
<1>4. pos # b
  BY <1>1, <1>2, Zenon DEF Line
<1>5. pos \in 1..b - 1 /\ pos + 1 \in 1..b /\ b \in 1..b /\ pos + 1 <= b /\ pos \in 1..Len(head)
  <2>1. pos <= b
    BY <1>2, Zenon
  <2>2. pos + 1 <= b /\ 1 <= pos
    BY <1>3, <1>4, <2>1
  <2> QED
    BY <1>3, <2>2
<1>6. Cost(pos) \in Nat /\ head[pos] \in LineT
  BY <1>1, <1>5, LineTyped, Zenon
<1>7. S[pos + 1] = o + Cost(pos) /\ S[pos + 1] <= S[b] /\ S[b] \in Nat /\ S[pos + 1] \in Nat
  <2>1. S[pos + 1] = S[pos] + Cost(pos)
    BY <1>2, <1>5, SMTT(60) DEF Totals
  <2>2. S[pos + 1] <= S[b]
    BY <1>2, <1>5 DEF Totals
  <2>3. o = S[pos]
    BY <1>2, Zenon
  <2>4. S[b] \in Nat /\ S[pos + 1] \in Nat
    BY <1>3, SMTT(60), Z3T(60)
  <2> QED
    BY <2>1, <2>2, <2>3, <2>4, Zenon
<1>8. ~(o + Cost(pos) > HeadCap) /\ o + Cost(pos) <= need
  <2>1. need = S[b] + CLOSE_LEN + 2 + 2 /\ need <= HeadCap
    BY <1>2
  <2> DEFINE sb == S[b] sp == S[pos + 1] cp == Cost(pos)
  <2>2. sb \in Nat /\ sp \in Nat /\ sp <= sb /\ need = sb + CLOSE_LEN + 2 + 2 /\ sp = o + cp /\ cp \in Nat
    BY <1>6, <1>7, <2>1
  <2> HIDE DEF sb, sp, cp
  <2>3. sp <= need
    BY <1>3, <2>2
  <2>4. ~(o + cp > HeadCap) /\ o + cp <= need
    BY <1>3, <2>1, <2>2, <2>3
  <2> QED
    BY <2>4 DEF cp
<1> DEFINE lines == IF Line.kind = "connection" THEN <<>> ELSE <<[Line EXCEPT !.eol = 2]>>
<1>9. /\ o' = o + Cost(pos) /\ hout' = hout \o lines /\ pos' = pos + 1 /\ walk' = "emit"
  <2>1. Emit(lines, Cost(pos))
    <3>1. CASE Line.kind = "connection"
      BY <3>1 DEF EmitLine, Cost, Line
    <3>2. CASE Line.kind # "connection"
      BY <3>2 DEF EmitLine, Cost, Line
    <3> QED
      BY <3>1, <3>2, SMTT(60), Z3T(60)
  <2> HIDE DEF lines
  <2> QED
    BY <1>1, <1>8, <2>1, Zenon DEF Emit
<1>10. lines \in Seq(LineT) /\ Len(lines) = IF Line.kind = "connection" THEN 0 ELSE 1
  <2>1. [Line EXCEPT !.eol = 2] \in LineT
    BY <1>6, Zenon DEF LineT, Line
  <2> QED
    BY <2>1
<1> DEFINE n == Cardinality(KeptTo(pos))
<1>11. /\ n \in Nat /\ Len(hout) = n /\ hout \in Seq(LineT)
       /\ Cardinality(KeptTo(pos + 1)) = n + Len(lines)
  BY <1>1, <1>2, <1>3, <1>10, KeptGrows, Zenon DEF Emitted, HeadTypes, Line
<1> DEFINE h == hout \o lines
<1>12. /\ h \in Seq(LineT) /\ Len(h) = n + Len(lines)
       /\ \A k \in 1..n + Len(lines) : h[k] = IF k <= n THEN hout[k] ELSE lines[k - n]
  <2> HIDE DEF lines
  <2>1. hout \in Seq(LineT) /\ lines \in Seq(LineT) /\ Len(hout) = n
    BY <1>10, <1>11
  <2>2. /\ h \in Seq(LineT) /\ Len(h) = Len(hout) + Len(lines)
        /\ \A k \in 1..Len(hout) + Len(lines) : h[k] = IF k <= Len(hout) THEN hout[k] ELSE lines[k - Len(hout)]
    BY <2>1, SeqJoin, Zenon
  <2> QED
    BY <2>1, <2>2, Zenon
<1> HIDE DEF h
<1>13. Emitted(pos)'
  <2>1. \A q : KeptTo(q)' = KeptTo(q)
    BY <1>1 DEF KeptTo
  <2>2. KeptTo(pos + 1) = KeptTo(pos) \cup (IF Line.kind = "connection" THEN {} ELSE {pos})
    BY <1>3, KeptGrows, Zenon DEF Line
  <2>3. hout' = h
    BY <1>9 DEF h
  <2>4. ASSUME NEW ln \in KeptTo(pos)
        PROVE  /\ Cardinality(KeptTo(ln + 1)) \in 1..Len(h)
               /\ h[Cardinality(KeptTo(ln + 1))] = [head[ln] EXCEPT !.eol = 2]
    <3> DEFINE c == Cardinality(KeptTo(ln + 1))
    <3>1. c \in 1..n /\ hout[c] = [head[ln] EXCEPT !.eol = 2]
      BY <1>2, <1>11, <2>4, Zenon DEF Emitted
    <3> HIDE DEF c, n, lines
    <3>2. Len(lines) \in Nat
      BY <1>10
    <3>3. c \in 1..n + Len(lines) /\ c <= n
      BY <1>11, <3>1, <3>2
    <3> QED
      BY <1>12, <3>1, <3>3, Zenon DEF c
  <2>5. ASSUME Line.kind # "connection"
        PROVE  /\ Cardinality(KeptTo(pos + 1)) \in 1..Len(h)
               /\ h[Cardinality(KeptTo(pos + 1))] = [head[pos] EXCEPT !.eol = 2]
    <3>1. Len(lines) = 1 /\ lines[1] = [head[pos] EXCEPT !.eol = 2]
      BY <2>5 DEF Line
    <3> HIDE DEF n, lines
    <3>2. n \in Nat /\ Cardinality(KeptTo(pos + 1)) = n + 1
      BY <1>11, <3>1
    <3>3. n + 1 \in 1..n + 1 /\ ~(n + 1 <= n) /\ (n + 1) - n = 1
      BY <3>2
    <3> QED
      BY <1>12, <3>1, <3>2, <3>3, Zenon
  <2>6. \A ln \in KeptTo(pos + 1) :
            /\ Cardinality(KeptTo(ln + 1)) \in 1..Len(h)
            /\ h[Cardinality(KeptTo(ln + 1))] = [head[ln] EXCEPT !.eol = 2]
    BY <2>2, <2>4, <2>5, Zenon
  <2>7. Len(h) = Cardinality(KeptTo(pos + 1))
    BY <1>11, <1>12, SMTT(60)
  <2> QED
    BY <1>1, <1>9, <2>1, <2>3, <2>6, <2>7, Zenon DEF Emitted
<1>14. HeadTypes'
  <2>1. o' \in Nat /\ pos' \in 1..Len(head) + 1
    <3>1. o' = o + Cost(pos) /\ pos' = pos + 1 /\ pos + 1 <= Len(head) + 1
      BY <1>3, <1>5, <1>9, SMTT(60)
    <3> DEFINE cp == Cost(pos)
    <3>2. o' = o + cp /\ cp \in Nat
      BY <1>6, <3>1
    <3> HIDE DEF cp
    <3>3. o \in Nat /\ pos \in Nat /\ Len(head) \in Nat
      BY <1>3
    <3>4. o' \in Nat
      BY <3>2, <3>3
    <3>5. pos' \in 1..Len(head) + 1
      BY <3>1, <3>3
    <3> QED
      BY <3>4, <3>5, SMTT(60)
  <2>2. hout' \in Seq(LineT)
    BY <1>9, <1>12 DEF h
  <2> QED
    BY <1>1, <1>9, <2>1, <2>2, SMTT(60) DEF HeadTypes, LineT
<1>15. Emitting'
  <2>1. \A p : NoneBlank(p)' = NoneBlank(p) /\ \A U : Totals(U, p)' = Totals(U, p)
    BY <1>1 DEF NoneBlank, Totals, Cost
  <2>2. o' = S[pos'] /\ pos' <= b
    BY <1>5, <1>7, <1>9
  <2>3. \E c \in 1..Len(head'), U \in [Nat -> Nat] :
          /\ head'[c].kind = "blank" /\ NoneBlank(c)' /\ pos' <= c /\ Totals(U, c)'
          /\ need' = U[c] + CLOSE_LEN + 2 + 2 /\ need' <= HeadCap
          /\ o' = U[pos'] /\ Emitted(pos)'
    BY <1>1, <1>2, <1>13, <2>1, <2>2, Zenon
  <2> QED
    BY <2>3, Zenon DEF Emitting, NoneBlank, Totals, Cost
<1>16. HeadRewritten'
  <2>1. o' <= need' /\ need' <= HeadCap
    BY <1>1, <1>2, <1>8, <1>9, SMTT(60)
  <2> QED
    BY <1>9, <2>1, SMTT(60) DEF HeadRewritten
<1> QED
  BY <1>9, <1>14, <1>15, <1>16 DEF HeadInv, Scanning

\* The emitting walk at the first blank line: all the pre-scan counted is out.
LEMMA EmitEndsKeeps == ASSUME HeadInv, EmitEnds PROVE HeadInv'
<1>1. /\ walk = "emit" /\ Line.kind = "blank" /\ UNCHANGED <<head, is_upgrade, need>> /\ HeadTypes
      /\ Emit(<<CloseLine, Blank>>, CLOSE_LEN + 2 + 2)
  BY DEF HeadInv, EmitEnds
<1>2. PICK b \in 1..Len(head), S \in [Nat -> Nat] :
        /\ head[b].kind = "blank" /\ NoneBlank(b) /\ pos <= b /\ Totals(S, b)
        /\ need = S[b] + CLOSE_LEN + 2 + 2 /\ need <= HeadCap
        /\ o = S[pos] /\ Emitted(pos)
  BY <1>1, Zenon DEF HeadInv, Emitting
<1>3. /\ Len(head) \in Nat /\ pos \in Nat \ {0} /\ b \in Nat /\ b <= Len(head) /\ need \in Nat /\ o \in Nat
      /\ HeadCap \in Nat /\ CLOSE_LEN \in Nat /\ hout \in Seq(LineT)
  <2>1. /\ Len(head) \in Nat /\ pos \in 1..Len(head) + 1 /\ need \in Nat /\ o \in Nat
        /\ hout \in Seq(LineT)
    BY <1>1 DEF HeadTypes
  <2>2. b \in Nat /\ b <= Len(head) /\ pos \in Nat \ {0}
    BY <2>1
  <2> QED
    BY <2>1, <2>2, HeadConstants, SMTT(60)
<1>4. pos = b
  <2>1. pos \notin 1..b - 1
    BY <1>1, <1>2, Zenon DEF NoneBlank, Line
  <2>2. pos <= b
    BY <1>2
  <2> QED
    BY <1>3, <2>1, <2>2
<1>5. o + (CLOSE_LEN + 2 + 2) = need /\ ~(o + (CLOSE_LEN + 2 + 2) > HeadCap)
  <2>1. need = o + CLOSE_LEN + 2 + 2 /\ need <= HeadCap
    BY <1>2, <1>4
  <2> QED
    BY <1>3, <2>1, SMTT(60)
<1> DEFINE end == <<CloseLine, Blank>>
<1>6. o' = need /\ hout' = hout \o end /\ pos' = pos + 1 /\ walk' = "rewritten"
  BY <1>1, <1>5, Zenon DEF Emit
<1>7. end \in Seq(LineT) /\ Len(end) = 2 /\ end[1] = CloseLine /\ end[2] = Blank
  <2>1. CloseLine \in LineT /\ Blank \in LineT
    BY <1>3 DEF CloseLine, Blank, LineT, Kinds
  <2> QED
    BY <2>1, SMTT(60)
<1> HIDE DEF end
<1>8. /\ hout' \in Seq(LineT) /\ Len(hout') = Len(hout) + Len(end)
      /\ \A k \in 1..Len(hout) + Len(end) :
           hout'[k] = IF k <= Len(hout) THEN hout[k] ELSE end[k - Len(hout)]
  <2> DEFINE h == hout \o end
  <2>1. /\ h \in Seq(LineT) /\ Len(h) = Len(hout) + Len(end)
        /\ \A k \in 1..Len(hout) + Len(end) : h[k] = IF k <= Len(hout) THEN hout[k] ELSE end[k - Len(hout)]
    BY <1>3, <1>7, SeqJoin, Zenon
  <2> QED
    BY <1>6, <2>1, Zenon
<1> DEFINE n == Len(hout)
<1>9. n \in Nat
  BY <1>3
<1>10. HeadKept' = KeptTo(pos)
  <2>1. DOMAIN head = 1..Len(head)
    BY <1>1, SMTT(60) DEF HeadTypes
  <2>2. ASSUME NEW ln \in 1..Len(head)
        PROVE  (\A j \in 1..ln : head[j].kind # "blank") <=> ln \in 1..pos - 1
    <3>1. CASE ln < pos
      <4>1. ln \in 1..pos - 1 /\ 1..ln \subseteq 1..pos - 1
        BY <1>3, <3>1, SMTT(60)
      <4>2. \A j \in 1..pos - 1 : head[j].kind # "blank"
        BY <1>2, <1>4, Zenon DEF NoneBlank
      <4> QED
        BY <4>1, <4>2
    <3>2. CASE ~(ln < pos)
      <4>1. pos \in 1..ln /\ ln \notin 1..pos - 1
        BY <1>3, <3>2
      <4>2. head[pos].kind = "blank"
        BY <1>1 DEF Line
      <4> QED
        BY <4>1, <4>2, Zenon
    <3> QED
      BY <3>1, <3>2, SMTT(60)
  <2>3. 1..pos - 1 \subseteq 1..Len(head)
    BY <1>3, <1>4
  <2>4. HeadKept = KeptTo(pos)
    BY <2>1, <2>2, <2>3, Zenon DEF HeadKept, KeptTo
  <2> QED
    BY <1>1, <2>4, Zenon DEF HeadKept
<1>11. \A ln \in KeptTo(pos) : {j \in KeptTo(pos) : j <= ln} = KeptTo(ln + 1)
  <2> TAKE ln \in KeptTo(pos)
  <2>1. ln \in Nat /\ ln <= pos - 1
    BY <1>3 DEF KeptTo
  <2>2. pos \in Nat
    BY <1>3
  <2>3. 1..(ln + 1) - 1 \subseteq 1..pos - 1
    BY <2>1, <2>2
  <2>4. \A j \in 1..pos - 1 : j <= ln <=> j \in 1..(ln + 1) - 1
    BY <2>1, <2>2
  <2> QED
    BY <2>3, <2>4, Zenon DEF KeptTo
<1>12. n = Cardinality(KeptTo(pos))
  BY <1>2 DEF Emitted
<1>13. ASSUME NEW ln \in KeptTo(pos)
       PROVE  hout'[Cardinality({j \in KeptTo(pos) : j <= ln})] = [head[ln] EXCEPT !.eol = 2]
  <2> DEFINE c == Cardinality(KeptTo(ln + 1))
  <2>1. c \in 1..n /\ hout[c] = [head[ln] EXCEPT !.eol = 2]
    BY <1>2, <1>13, Zenon DEF Emitted
  <2>2. Cardinality({j \in KeptTo(pos) : j <= ln}) = c
    BY <1>11, <1>13, Zenon
  <2> HIDE DEF c, n
  <2>3. c \in 1..n + Len(end) /\ c <= n
    BY <1>7, <1>9, <2>1, SMTT(60)
  <2> QED
    BY <1>8, <2>1, <2>2, <2>3, Zenon DEF n
<1>14. Len(hout') = n + 2 /\ hout'[n + 1] = CloseLine /\ hout'[n + 2] = Blank
  <2>1. n + 1 \in 1..n + Len(end) /\ n + 2 \in 1..n + Len(end) /\ ~(n + 1 <= n) /\ ~(n + 2 <= n)
        /\ (n + 1) - n = 1 /\ (n + 2) - n = 2
    <3> HIDE DEF n
    <3>1. Len(end) = 2
      BY <1>7
    <3> QED
      BY <1>9, <3>1
  <2> HIDE DEF n
  <2>2. hout'[n + 1] = end[(n + 1) - n] /\ hout'[n + 2] = end[(n + 2) - n]
    BY <1>8, <2>1, Zenon DEF n
  <2> QED
    BY <1>7, <1>8, <2>1, <2>2, SMTT(60) DEF n
<1>15. HeadRewritten'
  <2>1. (n + 2) - 1 = n + 1 /\ need <= need /\ need <= HeadCap
    BY <1>2, <1>3, <1>9, SMTT(60)
  <2>2. (HeadKept)' = KeptTo(pos) /\ head' = head /\ need' = need /\ o' = need /\ walk' = "rewritten"
    BY <1>1, <1>6, <1>10, SMTT(60)
  <2> HIDE DEF n
  <2> QED
    BY <1>12, <1>13, <1>14, <2>1, <2>2, Zenon DEF HeadRewritten
<1>16. HeadTypes'
  <2>1. pos' \in 1..Len(head) + 1
    BY <1>3, <1>4, <1>6, SMTT(60)
  <2> QED
    BY <1>1, <1>3, <1>6, <1>8, <2>1, SMTT(60) DEF HeadTypes, LineT
<1> QED
  BY <1>6, <1>15, <1>16 DEF HeadInv, Scanning, Emitting

\* Every step of the two walks keeps the strengthening.
LEMMA HeadStepKeeps == HeadInv /\ [HeadNext]_headVars => HeadInv'
<1> SUFFICES ASSUME HeadInv, [HeadNext]_headVars PROVE HeadInv'
  OBVIOUS
<1>1. CASE UNCHANGED headVars
  <2>1. HeadTypes' /\ HeadRewritten'
    BY <1>1, SMTT(60) DEF headVars, HeadInv, HeadTypes, HeadRewritten, HeadKept
  <2>2. Scanning'
    BY <1>1, Zenon DEF headVars, HeadInv, Scanning, NoneBlank, Totals, Cost
  <2>3. Emitting'
    <3>1. Emitted(pos)' = Emitted(pos)
      BY <1>1 DEF headVars, Emitted, KeptTo
    <3> QED
      BY <1>1, <3>1, Zenon DEF headVars, HeadInv, Emitting, NoneBlank, Totals, Cost
  <2> QED
    BY <2>1, <2>2, <2>3, SMTT(60) DEF HeadInv
<1> QED
  BY <1>1, ScanLineKeeps, ScanEndsKeeps, EmitLineKeeps, EmitEndsKeeps, SMTT(60) DEF HeadNext

\* A request head is rewritten whole or forwarded as it came, and the rewrite
\* keeps every other line in its order: for heads of any length.
THEOREM HeadIsRewritten == HeadSpec => []HeadRewritten
<1>1. HeadInv => HeadRewritten
  BY DEF HeadInv
<1> QED
  BY <1>1, HeadInitially, HeadStepKeeps, PTL DEF HeadSpec

\* The three stages of a proxied connection together.
THEOREM RelayIsExact == EntSpec /\ TgSpec /\ HeadSpec => []RelayExact
<1>1. InOrder /\ TargetJudged /\ HeadRewritten => RelayExact
  BY DEF RelayExact
<1> QED
  BY <1>1, EntryKeepsOrder, TargetIsJudged, HeadIsRewritten, PTL
=============================================================================
