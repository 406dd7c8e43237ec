---------------------------- MODULE RelayTarget -----------------------------
(***************************************************************************)
(* How the relay chooses an upstream (rp_target_blocked,                   *)
(* rp_connect_literal and rp_connect_target in common/relay_proxy.c): the  *)
(* resolved addresses are judged and tried in order, each on a socket of   *)
(* its own, and the first that connects is handed on.  When none does, the *)
(* client is told why.  An address is reduced to the class the gate judges *)
(* it by, an attempt to its outcome ("no_socket": no socket, or none that   *)
(* can be made nonblocking; "timeout": that, or unreachable).              *)
(***************************************************************************)
EXTENDS Naturals, Sequences

CONSTANT MaxCandidates   \* bound on the addresses of a name

ASSUME TargetConstants == MaxCandidates \in Nat \ {0}

VARIABLES
  tg,            \* the call: [guard, literal, cands]
  ai,            \* the candidate the loop is at
  sock,          \* the candidates whose socket is open
  last,          \* the connected candidate, or 0
  fail_rep,      \* the answer stored for the caller
  blocked, real_fail,
  rc             \* "running", then 0, -1 or -2 as text

tgVars == <<tg, ai, sock, last, fail_rep, blocked, real_fail, rc>>

\* An address: its family ("6in4" is the IPv6 spelling of an IPv4 address) and
\* the range it lies in.
Addrs == [af : {"4", "6", "6in4"}, range : {"public", "unspecified", "loopback", "linklocal"}]
Outcomes == {"connects", "timeout", "refused", "no_socket", "no_restore"}

\* The ranges the gate is there for, whatever the spelling.
Local(addr) == addr.range # "public"

TgInit ==
  /\ \E n \in 1..MaxCandidates : \E cands \in [1..n -> [addr : Addrs, res : Outcomes]] :
       \E guard, literal \in BOOLEAN :
         /\ literal => n = 1
         /\ tg = [guard |-> guard, literal |-> literal, cands |-> cands]
  /\ ai = 1 /\ sock = {} /\ last = 0 /\ fail_rep = 5
  /\ blocked = FALSE /\ real_fail = FALSE /\ rc = "running"

TargetBlockedUnmapped(guard, addr) ==
  guard /\ addr.af # "6in4" /\ addr.range \in {"unspecified", "loopback", "linklocal"}

\* rp_target_blocked: the v4 rules, the v6 ones, and the v4 ones again for the
\* mapped spelling.
TargetBlocked(guard, addr) ==
  guard /\ \/ addr.af = "4" /\ addr.range \in {"unspecified", "loopback", "linklocal"}
           \/ addr.af = "6" /\ addr.range \in {"unspecified", "loopback", "linklocal"}
           \/ addr.af = "6in4" /\ addr.range \in {"unspecified", "loopback", "linklocal"}

\* rp_conn_err_rep, and the causes that are no errno.
ErrRep(res) == IF res \in {"timeout"} THEN 4 ELSE 5

Cand == tg.cands[ai]

\* A literal is judged before anything else.
LiteralBlocked ==
  /\ rc = "running" /\ tg.literal /\ TargetBlocked(tg.guard, Cand.addr)
  /\ rc' = "denied"
  /\ UNCHANGED <<tg, ai, sock, last, fail_rep, blocked, real_fail>>

\* A literal that may be tried: one socket, one attempt.
LiteralTried ==
  /\ rc = "running" /\ tg.literal /\ ~TargetBlocked(tg.guard, Cand.addr)
  /\ IF Cand.res = "connects" THEN /\ rc' = "connected" /\ last' = ai /\ sock' = {ai}
                                   /\ UNCHANGED fail_rep
     ELSE /\ rc' = "failed" /\ fail_rep' = ErrRep(Cand.res)
          /\ UNCHANGED <<last, sock>>
  /\ UNCHANGED <<tg, ai, blocked, real_fail>>

\* The gate refuses a resolved address: the next one is looked at.
CandidateBlocked ==
  /\ rc = "running" /\ ~tg.literal /\ last = 0 /\ ai <= Len(tg.cands)
  /\ TargetBlocked(tg.guard, Cand.addr)
  /\ blocked' = TRUE /\ ai' = ai + 1
  /\ UNCHANGED <<tg, sock, last, fail_rep, real_fail, rc>>

\* An attempt: a socket that cannot be made or set up is skipped without its
\* cause being stored; one that does not connect is closed and it is.
CandidateTried ==
  /\ rc = "running" /\ ~tg.literal /\ last = 0 /\ ai <= Len(tg.cands)
  /\ ~TargetBlocked(tg.guard, Cand.addr)
  /\ real_fail' = TRUE
  /\ \/ /\ Cand.res = "connects"
        /\ last' = ai /\ sock' = sock \union {ai} /\ UNCHANGED <<fail_rep, ai>>
     \/ /\ Cand.res \in {"no_socket", "no_restore"}
        /\ ai' = ai + 1 /\ UNCHANGED <<last, sock, fail_rep>>
     \/ /\ Cand.res \in {"timeout", "refused"}
        /\ ai' = ai + 1 /\ fail_rep' = ErrRep(Cand.res) /\ UNCHANGED <<last, sock>>
  /\ UNCHANGED <<tg, blocked, rc>>

EndedLatched ==
  /\ rc = "running" /\ ~tg.literal /\ (last # 0 \/ ai > Len(tg.cands))
  /\ rc' = IF last # 0 THEN "connected" ELSE IF blocked THEN "denied" ELSE "failed"
  /\ UNCHANGED <<tg, ai, sock, last, fail_rep, blocked, real_fail>>

\* The end of the list, or a connected candidate.
CandidatesEnd ==
  /\ rc = "running" /\ ~tg.literal /\ (last # 0 \/ ai > Len(tg.cands))
  /\ rc' = IF last # 0 THEN "connected" ELSE IF blocked /\ ~real_fail THEN "denied" ELSE "failed"
  /\ UNCHANGED <<tg, ai, sock, last, fail_rep, blocked, real_fail>>

TgNext == LiteralBlocked \/ LiteralTried \/ CandidateBlocked \/ CandidateTried \/ CandidatesEnd

TgSpec == TgInit /\ [][TgNext]_tgVars

\* Over every list of candidates: the upstream is the first address that
\* connects and that the gate lets pass, only its socket stays open, no
\* guarded client reaches the host itself under any spelling, and "not
\* allowed" is answered exactly when the gate refused every address
\* (rp_connect_target, R47-FIXA-L1).
TargetJudged ==
  LET passes == {i \in DOMAIN tg.cands : ~(tg.guard /\ Local(tg.cands[i].addr))}
      good == {i \in passes : tg.cands[i].res = "connects"}
  IN /\ rc = "connected" => /\ last \in good /\ \A i \in good : last <= i
                            /\ sock = {last}
     /\ rc \in {"failed", "denied"} => good = {} /\ sock = {}
     /\ rc = "denied" <=> rc # "running" /\ passes = {}
=============================================================================
