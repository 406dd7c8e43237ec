------------------------------ MODULE Lockout ------------------------------
(***************************************************************************)
(* The failed-authentication lockout table (common/lockout.c) as the local *)
(* forwarding proxy uses it (relay_proxy.c: rp_fail_note, rp_fail_blocked):*)
(* one accept thread asks whether a source is banned, connection threads   *)
(* report the outcome of the RFC 1929 exchange.  Both functions read the   *)
(* clock BEFORE they take the table mutex, so a thread may work under the  *)
(* mutex with a `now' that another thread's record already lies ahead of.  *)
(* Times are now_ms() ticks; 0 is "not blocked" in blocked_until_ms.       *)
(***************************************************************************)
EXTENDS Integers, FiniteSets

CONSTANTS
  Keys,       \* source addresses (rp_fail_key_of)
  Conns,      \* handshake threads (rp_conn_main)
  N,          \* slots of the table (RP_FAIL_TRACK_MAX)
  MaxFails,   \* RP_FAIL_MAX
  Window,     \* RP_FAIL_WINDOW_MS
  MaxTime,    \* bound on the clock
  NoKey       \* the zeroed key of an empty slot

ASSUME LockoutAssumption ==
  /\ N \in Nat \ {0}
  /\ MaxFails \in Nat \ {0}
  /\ Window \in Nat \ {0}
  /\ MaxTime \in Nat \ {0}
  /\ NoKey \notin Keys

VARIABLES
  clock,      \* now_ms()
  tbl,        \* lockout_rec tbl[n]
  accept,     \* the accept thread, inside lockout_blocked or idle
  conn        \* each handshake thread: idle, handshaking, inside lockout_note

vars == <<clock, tbl, accept, conn>>

Slots == 1..N

Time == 0..MaxTime

Rec == [key : Keys \union {NoKey}, fail : Nat, first_fail_ms : Nat,
        blocked_until_ms : Nat, in_use : BOOLEAN]

\* One call of lockout_blocked by the accept thread.
AcceptState == [at : {"idle", "check"}, key : Keys \union {NoKey}, now : Time]

\* One connection thread, up to and including its call of lockout_note.
ConnState == [at : {"idle", "handshake", "note"}, key : Keys \union {NoKey},
              now : Time, success : BOOLEAN]

\* memset(&tbl[i], 0, sizeof tbl[i]).
EmptyRec == [key |-> NoKey, fail |-> 0, first_fail_ms |-> 0,
             blocked_until_ms |-> 0, in_use |-> FALSE]

Idle == [at |-> "idle", key |-> NoKey, now |-> 0, success |-> FALSE]

NotChecking == [at |-> "idle", key |-> NoKey, now |-> 0]

Init ==
  /\ clock = 1
  /\ tbl = [i \in Slots |-> EmptyRec]
  /\ accept = NotChecking
  /\ conn = [c \in Conns |-> Idle]

-----------------------------------------------------------------------------
(* Searching the table.                                                    *)

\* The records the key compare of lockout_note accepts.
Match(t, k) == {i \in Slots : t[i].in_use /\ t[i].key = k}

\* First in array order among S with the least first_fail_ms.
Earliest(t, S) ==
  CHOOSE i \in S : \A j \in S :
    \/ t[i].first_fail_ms < t[j].first_fail_ms
    \/ t[i].first_fail_ms = t[j].first_fail_ms /\ i <= j

Empty(t) == {i \in Slots : ~t[i].in_use}

NotBlocked(t, now) == {i \in Slots : t[i].blocked_until_ms <= now}

\* `oldest != NULL ? oldest : earliest'.  An empty slot replaces any
\* candidate and, its first_fail_ms being 0, is never replaced by a used one.
Victim(t, now) ==
  IF Empty(t) # {} THEN CHOOSE i \in Empty(t) : \A j \in Empty(t) : j <= i
  ELSE IF NotBlocked(t, now) # {} THEN Earliest(t, NotBlocked(t, now))
  ELSE Earliest(t, Slots)

\* `now - e->first_fail_ms >= window_ms' in uint64: a `now' behind the
\* record wraps around and counts as an aged-out window.
AgedOut(r, now) == now < r.first_fail_ms \/ now - r.first_fail_ms >= Window

\* The record of a key's first failure in a window.
Fresh(k, now) ==
  [key |-> k, fail |-> 1, first_fail_ms |-> now,
   blocked_until_ms |-> IF 1 >= MaxFails THEN now + Window ELSE 0,
   in_use |-> TRUE]

\* One more failure inside the window.
Counted(r, now) ==
  [r EXCEPT !.fail = @ + 1,
            !.blocked_until_ms = IF r.fail + 1 >= MaxFails THEN now + Window ELSE @]

AfterFailureClearsBan(r, k, now) ==
  IF AgedOut(r, now) THEN Fresh(k, now) ELSE Counted(r, now)

\* What a failure does to the key's own record: an aged-out window restarts
\* the count, and leaves a running ban alone (M-1).
AfterFailure(r, k, now) ==
  IF ~AgedOut(r, now) THEN Counted(r, now)
  ELSE IF r.blocked_until_ms > now
       THEN [r EXCEPT !.fail = 1, !.first_fail_ms = now]
       ELSE Fresh(k, now)

\* lockout_note(success = false), under the mutex.
NoteFailure(t, k, now) ==
  IF Match(t, k) = {}
  THEN [t EXCEPT ![Victim(t, now)] = Fresh(k, now)]
  ELSE LET e == CHOOSE i \in Match(t, k) : \A j \in Match(t, k) : i <= j
       IN [t EXCEPT ![e] = AfterFailure(t[e], k, now)]

NoteSuccessZeroesCount(t, k) ==
  [i \in Slots |-> IF i \in Match(t, k) THEN [t[i] EXCEPT !.fail = 0] ELSE t[i]]

\* lockout_note(success = true): the key's record is wiped.
NoteSuccess(t, k) ==
  IF Match(t, k) = {} THEN t
  ELSE LET e == CHOOSE i \in Match(t, k) : \A j \in Match(t, k) : i <= j
       IN [t EXCEPT ![e] = EmptyRec]

BlockedWhenCounting(t, k, now) ==
  \E i \in Slots : t[i].key = k /\ t[i].fail >= MaxFails /\ t[i].blocked_until_ms > now

\* lockout_blocked, under the mutex: the first record with a ban on the key
\* decides.
Blocked(t, k, now) ==
  LET B == {i \in Slots : t[i].blocked_until_ms # 0 /\ t[i].key = k}
  IN B # {} /\ t[CHOOSE i \in B : \A j \in B : i <= j].blocked_until_ms > now

-----------------------------------------------------------------------------
(* The threads.                                                            *)

\* accept() returned a connection of source k: lockout_blocked reads the
\* clock (the only accept thread, so one at a time).
AcceptSample(k) ==
  /\ accept.at = "idle"
  /\ accept' = [at |-> "check", key |-> k, now |-> clock]
  /\ UNCHANGED <<clock, tbl, conn>>

\* lockout_blocked under the mutex; a banned source is dropped, any other
\* goes to a handshake thread, unless the thread cap, malloc or
\* pthread_create refuses one.
AcceptBlocked ==
  /\ accept.at = "check"
  /\ Blocked(tbl, accept.key, accept.now)
  /\ accept' = NotChecking
  /\ UNCHANGED <<clock, tbl, conn>>

AcceptShed ==
  /\ accept.at = "check"
  /\ ~Blocked(tbl, accept.key, accept.now)
  /\ accept' = NotChecking
  /\ UNCHANGED <<clock, tbl, conn>>

AcceptAdmit(c) ==
  /\ accept.at = "check"
  /\ ~Blocked(tbl, accept.key, accept.now)
  /\ conn[c].at = "idle"
  /\ conn' = [conn EXCEPT ![c] = [at |-> "handshake", key |-> accept.key,
                                   now |-> 0, success |-> FALSE]]
  /\ accept' = NotChecking
  /\ UNCHANGED <<clock, tbl>>

\* The credentials were compared: lockout_note reads the clock.
NoteSample(c, ok) ==
  /\ conn[c].at = "handshake"
  /\ conn' = [conn EXCEPT ![c] = [at |-> "note", key |-> conn[c].key,
                                   now |-> clock, success |-> ok]]
  /\ UNCHANGED <<clock, tbl, accept>>

\* The connection ends without an authentication attempt.
Abandon(c) ==
  /\ conn[c].at = "handshake"
  /\ conn' = [conn EXCEPT ![c] = Idle]
  /\ UNCHANGED <<clock, tbl, accept>>

\* lockout_note under the mutex.
Note(c) ==
  /\ conn[c].at = "note"
  /\ tbl' = IF conn[c].success THEN NoteSuccess(tbl, conn[c].key)
            ELSE NoteFailure(tbl, conn[c].key, conn[c].now)
  /\ conn' = [conn EXCEPT ![c] = Idle]
  /\ UNCHANGED <<clock, accept>>

\* Time passes; at the bound it stays.
Tick ==
  /\ clock < MaxTime
  /\ clock' = clock + 1
  /\ UNCHANGED <<tbl, accept, conn>>

Next ==
  \/ \E k \in Keys : AcceptSample(k)
  \/ AcceptBlocked \/ AcceptShed
  \/ \E c \in Conns : AcceptAdmit(c) \/ Abandon(c) \/ Note(c)
  \/ \E c \in Conns, ok \in BOOLEAN : NoteSample(c, ok)
  \/ Tick

Spec == Init /\ [][Next]_vars

-----------------------------------------------------------------------------
(* Properties.                                                             *)

\* Types of the table and of what the threads carry between their steps.
TypeOK ==
  /\ clock \in Time
  /\ tbl \in [Slots -> Rec]
  /\ accept \in AcceptState
  /\ conn \in [Conns -> ConnState]

\* What the threads hold: a source to work for, and a clock reading that is
\* not ahead of the clock.
SamplesBehind ==
  /\ accept.now <= clock
  /\ accept.at # "idle" => accept.key \in Keys
  /\ \A c \in Conns :
       conn[c].now <= clock /\ (conn[c].at # "idle" => conn[c].key \in Keys)

\* A source has at most one record, whatever slots eviction, success and
\* restart leave behind: the first match of lockout_note and the first ban of
\* lockout_blocked are then the same record.
OneRecordPerKey ==
  \A i, j \in Slots :
    tbl[i].in_use /\ tbl[j].in_use /\ tbl[i].key = tbl[j].key => i = j

\* A record that holds MaxFails failures carries a ban that outlasts its
\* first failure, also when the restart of the count met a running ban.
CountImpliesBan ==
  \A i \in Slots :
    tbl[i].in_use /\ tbl[i].fail >= MaxFails
      => tbl[i].blocked_until_ms > tbl[i].first_fail_ms

\* The inductive strengthening: an unused slot is blank (memset), a used one
\* counts at least one failure of a real source.
IndInv ==
  /\ TypeOK
  /\ SamplesBehind
  /\ OneRecordPerKey
  /\ CountImpliesBan
  /\ \A i \in Slots : IF tbl[i].in_use THEN tbl[i].key \in Keys /\ tbl[i].fail >= 1
                      ELSE tbl[i] = EmptyRec

\* Under a ban at time t.
Banned(t, k, at) == \E i \in Slots : t[i].in_use /\ t[i].key = k /\ t[i].blocked_until_ms > at

\* The accept thread never admits a source whose ban is running when it looks,
\* however long ago it read the clock.
AdmitsUnbanned ==
  [][\A c \in Conns :
       conn[c].at = "idle" /\ conn'[c].at = "handshake"
         => ~Banned(tbl, conn'[c].key, clock)]_vars

\* Ways a note by connection c can end the ban of k: k authenticated; every
\* slot is in use and banned in c's eyes and the record is evicted; or c
\* failed as k with a clock reading a whole window old.
EndsBan(c, k) ==
  /\ conn[c].at = "note" /\ conn'[c].at = "idle"
  /\ \/ conn[c].key = k /\ conn[c].success
     \/ /\ conn[c].key # k /\ ~conn[c].success
        /\ \A i \in Slots : tbl[i].in_use /\ tbl[i].blocked_until_ms > conn[c].now
     \/ conn[c].key = k /\ ~conn[c].success /\ conn[c].now + Window <= clock

\* A running ban is not lost: while its time lasts it ends only by success of
\* its own source or, for lack of any unbanned slot, by eviction (L-1); a
\* further failure of the source restarts the count and not the ban (M-1).
BanEndsOnlyBy ==
  [][\A k \in Keys :
       Banned(tbl, k, clock) /\ ~Banned(tbl', k, clock)
         => \E c \in Conns : EndsBan(c, k)]_vars
=============================================================================
