----------------------------- MODULE RelayPlane -----------------------------
(***************************************************************************)
(* The data plane of the local relay proxy (common/relay_proxy.c): two     *)
(* direction threads serve every connection.  A thread copies its array    *)
(* under g_rp_mu and takes a reference on each entry, polls and moves data *)
(* without the lock, and retires ended entries under it again.  The second *)
(* direction to retire a connection marks it, and the last reference       *)
(* closes and frees it.                                                    *)
(*                                                                         *)
(* A step is one section under g_rp_mu with the work on the thread's own   *)
(* entries before it; what that work does to the bytes is RelayEntry, here *)
(* an entry goes on or ends.  The generation counter g_rp_arr_gen is kept  *)
(* as what the threads ask of it: have the arrays moved since my snapshot? *)
(***************************************************************************)
EXTENDS Naturals, Sequences, SequencesExt, FiniteSets

CONSTANTS
  RpConns,       \* client connections
  MaxFaults      \* bound on allocation failures and hard poll errors

Dirs == {"up", "dn"}

ASSUME PlaneConstants == MaxFaults \in Nat

VARIABLES
  est_n,         \* g_rp_est_n
  rpStop,        \* g_rp_stop
  dead,          \* the directions whose g_rp_dir_dead_gen is this instance's
  arr,           \* g_rp_up and g_rp_dn
  moved,         \* the directions whose last g_rp_arr_gen is out of date
  cn,            \* rp_conn: [dirs, in_use, mem]
  fds,           \* the open ones of the client's and the upstream's socket
  dir,           \* the direction threads: [pc, snap, cap, pf, dirty]
  faults         \* failures so far

planeVars == <<est_n, rpStop, dead, arr, moved, cn, fds, dir, faults>>
table == <<est_n, arr, moved, cn, fds>>

DirOff == [pc |-> "off", snap |-> <<>>, cap |-> 0, pf |-> <<>>, dirty |-> TRUE]

PlaneInit ==
  /\ est_n = 0 /\ rpStop = FALSE /\ dead = {}
  /\ arr = [d \in Dirs |-> <<>>] /\ moved = {}
  /\ cn = [c \in RpConns |-> [dirs |-> 0, in_use |-> 0, mem |-> "none"]]
  /\ fds = [c \in RpConns |-> {}]
  /\ dir = [d \in Dirs |-> DirOff] /\ faults = 0

Fault == faults < MaxFaults /\ faults' = faults + 1

-----------------------------------------------------------------------------
(* The table, under g_rp_mu.                                               *)

\* rp_arr_add twice, in rp_add.
Register(c) ==
  /\ arr' = [d \in Dirs |-> Append(arr[d], c)]
  /\ moved' = Dirs
  /\ cn' = [cn EXCEPT ![c] = [dirs |-> 2, in_use |-> 0, mem |-> "live"]]

\* (*arrp)[j] = (*arrp)[--*np].
SwapOut(s, c) ==
  LET j == CHOOSE i \in DOMAIN s : s[i] = c
      n == Len(s)
  IN SubSeq([s EXCEPT ![j] = s[n]], 1, n - 1)

\* rp_reap_maybe: both directions have retired it and no pass holds it.
Reapable(c, now) == cn[c].mem = "live" /\ now[c].dirs = 0 /\ now[c].in_use = 0

\* rp_release for the connections R, rp_snap_unref_all for those of U.
Leave(R, U) ==
  LET now == [c \in RpConns |-> [cn[c] EXCEPT !.dirs = @ - (IF c \in R THEN 1 ELSE 0),
                                              !.in_use = @ - (IF c \in U THEN 1 ELSE 0)]]
      gone == {c \in RpConns : Reapable(c, now)}
  IN /\ cn' = [c \in RpConns |-> IF c \in gone THEN [now[c] EXCEPT !.mem = "freed"] ELSE now[c]]
     /\ fds' = [c \in RpConns |-> IF c \in gone THEN {} ELSE fds[c]]
     /\ est_n' = est_n - Cardinality(gone)

-----------------------------------------------------------------------------
(* rp_dir_main.                                                            *)

OutdatedByCount(d) == dir[d].dirty \/ Len(arr[d]) # Len(dir[d].pf)

\* The pollset is rebuilt when a registration or the arrays changed since it
\* was built, or a buffer grew.
Outdated(d) == dir[d].dirty \/ d \in moved \/ Len(arr[d]) > dir[d].cap

\* The top of the loop: stop is read, the array copied and a reference taken
\* on every entry; a buffer grows with the array.
DirSnap(d) ==
  /\ dir[d].pc = "top" /\ ~rpStop
  /\ dir' = [dir EXCEPT ![d].pc = "pass", ![d].snap = arr[d],
                        ![d].cap = IF Len(arr[d]) > @ THEN Len(arr[d]) ELSE @,
                        ![d].dirty = Outdated(d)]
  /\ moved' = moved \ {d}
  /\ cn' = [c \in RpConns |-> [cn[c] EXCEPT !.in_use = @ + IF c \in Range(arr[d]) THEN 1 ELSE 0]]
  /\ UNCHANGED <<est_n, rpStop, dead, arr, fds, faults>>

\* No memory for the snapshot, before a reference is taken; or the stop.
DirLeaves(d) ==
  /\ dir[d].pc = "top"
  /\ \/ rpStop /\ UNCHANGED faults
     \/ ~rpStop /\ Len(arr[d]) > dir[d].cap /\ Fault
  /\ dir' = [dir EXCEPT ![d].pc = "cleanup", ![d].snap = <<>>]
  /\ UNCHANGED <<table, rpStop, dead>>

\* The pollset as this pass uses it: cached, or built from the snapshot.
Pollset(d) == IF dir[d].dirty THEN dir[d].snap ELSE dir[d].pf

\* EINTR: the references are dropped and the loop starts again.
DirPollInterrupted(d) ==
  /\ dir[d].pc = "pass"
  /\ Leave({}, Range(dir[d].snap))
  /\ dir' = [dir EXCEPT ![d].pc = "top", ![d].pf = Pollset(d), ![d].dirty = FALSE, ![d].snap = <<>>]
  /\ UNCHANGED <<rpStop, dead, arr, moved, faults>>

\* The pollset cannot grow, or poll fails: cleanup has the references.
DirPollFails(d) ==
  /\ dir[d].pc = "pass"
  /\ Fault
  /\ dir' = [dir EXCEPT ![d].pc = "cleanup"]
  /\ UNCHANGED <<table, rpStop, dead>>

\* The array without the entries of R, swapped out in the snapshot's order.
Retired(d, R) ==
  IF R = {} THEN arr[d]
  ELSE FoldLeft(LAMBDA s, c : IF c \in R THEN SwapOut(s, c) ELSE s, arr[d], dir[d].snap)

\* poll, the entry loop, and the bottom of the loop under the lock: the
\* entries R have ended and leave the array, the references are dropped.
\* The pollset is out of date when an entry's registration changed.
DirPass(d, R) ==
  /\ dir[d].pc = "pass" /\ R \subseteq Range(dir[d].snap)
  /\ arr' = [arr EXCEPT ![d] = Retired(d, R)]
  /\ moved' = IF R = {} THEN moved ELSE Dirs
  /\ Leave(R, Range(dir[d].snap))
  /\ \E dirty \in BOOLEAN :
       dir' = [dir EXCEPT ![d].pc = "top", ![d].pf = Pollset(d), ![d].snap = <<>>, ![d].dirty = dirty]
  /\ UNCHANGED <<rpStop, dead, faults>>

KeepsEntries(d) == {}

\* rp_dir_retire_all walks the live array, not the snapshot.
RetireAll(d) == Range(arr[d])

\* cleanup: every entry is retired, the references are dropped and the
\* direction's death is published, in one section.
DirCleanup(d) ==
  /\ dir[d].pc = "cleanup"
  /\ LET R == RetireAll(d)
     IN /\ arr' = [arr EXCEPT ![d] = <<>>]
        /\ moved' = IF R = {} THEN moved ELSE Dirs
        /\ Leave(R, Range(dir[d].snap))
  /\ dead' = dead \union {d}
  /\ dir' = [dir EXCEPT ![d] = [DirOff EXCEPT !.pc = IF rpStop THEN "gone" ELSE "leaving"]]
  /\ UNCHANGED <<rpStop, faults>>

\* A thread that was not told to stop takes the other one down.
DirGone(d) ==
  /\ dir[d].pc = "leaving"
  /\ rpStop' = TRUE
  /\ dir' = [dir EXCEPT ![d].pc = "gone"]
  /\ UNCHANGED <<table, dead, faults>>

DirStep(d) ==
  \/ DirSnap(d) \/ DirLeaves(d) \/ DirPollInterrupted(d) \/ DirPollFails(d)
  \/ (\E R \in SUBSET RpConns : DirPass(d, R))
  \/ DirCleanup(d) \/ DirGone(d)
=============================================================================
