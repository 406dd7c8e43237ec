------------------------------ MODULE MCRelay -------------------------------
(* One instance of the relay proxy.                                        *)
EXTENDS RelayProxy

\* The plane was told to stop and its threads have ended.
Over ==
  /\ rpStop
  /\ \A d \in Dirs : dir[d].pc \in {"off", "gone"}
  /\ \A c \in RpConns : hs[c].pc \in {"away", "done"}
  /\ UNCHANGED rpVars

MCSpec == RpInit /\ [][RpNext \/ Over]_rpVars /\ RpFairness

-----------------------------------------------------------------------------
\* Every slot, reference and cached pollset is accounted for: the counters of
\* established and resolving clients are exact, a pair that a thread may still
\* touch is live, and a poll result is read for the entry it was asked for
\* (rp_est_reserve, rp_add, rp_conn_reap, rp_dir_main).
RelayAccounted == EstExact /\ RefsLive /\ PollsetCurrent
=============================================================================
