------------------------ MODULE ServerSessionProofs -------------------------
(* Proofs about the server's session table: the inductive invariant, who    *)
(* may end or gate a session, and that the table implements the registry   *)
(* of SessionRegistry, for every number of accounts, slots, peers and      *)
(* threads.                                                                *)
EXTENDS ServerSession, TLAPS

-----------------------------------------------------------------------------
\* A tunnel address gives a session id (sid_of_ip).
LEMMA SidOfType ==
    ASSUME NEW ip \in Pool PROVE SidOf(ip) \in Sids
  BY ConstAssumption DEF SidOf, Sids, Pool

(* With an exact map the lookup is the map itself; the scan never decides. *)
LEMMA FindIsMap ==
    ASSUME TypeOK, SidMapExact, NEW sid \in Sids
    PROVE  /\ Find(sid) = sidMap[sid]
           /\ Find(sid) # NoSlot => Find(sid) \in Slots /\ Matches(Find(sid), sid)
  BY DEF TypeOK, SidMapExact, Find, Slots, NoSlot

(* c is the same session as s, whatever became of its counters and times.  *)
Same(c, s) ==
    /\ c \in Session
    /\ c.valid = s.valid /\ c.sid = s.sid /\ c.token = s.token
    /\ c.ip = s.ip /\ c.user = s.user

(* A charge keeps a session's identity, its peer and its throttle, and its *)
(* counters stay in range.                                                 *)
LEMMA ChargedKeeps ==
    ASSUME NEW s \in Session, NEW b \in BOOLEAN, NEW now \in Nat
    PROVE  /\ Same(Charged(s, b, now), s)
           /\ Charged(s, b, now).peer = s.peer
           /\ Charged(s, b, now).thr = s.thr
  <1> DEFINE r == IF WinLive(s, now) THEN s
                  ELSE [s EXCEPT !.win = now, !.cnt = 0, !.bound = 0]
  <1>1. Same(r, s) /\ r.peer = s.peer /\ r.thr = s.thr
    <2>1. 0 \in 0..MisMax /\ 0 \in 0..BoundMax
      BY ConstAssumption
    <2>2. CASE WinLive(s, now)
      BY <2>2 DEF Same
    <2>3. CASE ~WinLive(s, now)
      <3>1. r = [s EXCEPT !.win = now, !.cnt = 0, !.bound = 0]
        BY <2>3
      <3> QED
        BY <2>1, <3>1, Zenon DEF Session, Same
    <2> QED
      BY <2>2, <2>3
  <1> HIDE DEF r
  <1>2. Charged(s, b, now) =
          IF b THEN [r EXCEPT !.bound = IF r.bound < BoundMax THEN r.bound + 1 ELSE r.bound]
          ELSE [r EXCEPT !.cnt = IF r.cnt < MisMax THEN r.cnt + 1 ELSE r.cnt]
    BY DEF Charged, r
  <1>3. r.cnt \in 0..MisMax /\ r.bound \in 0..BoundMax
    BY <1>1 DEF Same, Session
  <1>4. CASE b
    BY <1>1, <1>2, <1>3, <1>4, ConstAssumption DEF Session, Same
  <1>5. CASE ~b
    BY <1>1, <1>2, <1>3, <1>5, ConstAssumption DEF Session, Same
  <1> QED
    BY <1>4, <1>5

-----------------------------------------------------------------------------
(* A step that only refreshes, charges, rebinds or throttles one live      *)
(* session leaves every session where it is.                               *)
TableInv == SidMapExact /\ LiveDistinct /\ Bound /\ ThrottleOwn

\* A step that only refreshes a live slot's peer, stamps or throttle keeps
\* the table's invariant.
LEMMA Refresh ==
    ASSUME IndInv, NEW k \in Slots, sess[k].valid,
           NEW c, Same(c, sess[k]), c.peer \in Peers,
           c.thr = sess[k].thr \/ sess[k].token \in stalled,
           sess' = [sess EXCEPT ![k] = c],
           UNCHANGED <<sidMap, granted>>, stalled' = stalled
    PROVE  sess' \in [Slots -> Session] /\ TableInv'
  <1>1. sess \in [Slots -> Session]
    BY DEF IndInv, TypeOK
  <1>2. sess' \in [Slots -> Session]
    BY <1>1 DEF Same
  <1>3. \A j \in Slots : /\ Same(sess'[j], sess[j])
                         /\ ~sess[j].valid => sess'[j] = sess[j]
                         /\ sess[j].valid => sess'[j].peer \in Peers
                         /\ sess'[j].thr = sess[j].thr \/ sess[j].token \in stalled
    BY <1>1, Zenon DEF Same, IndInv, Bound
  <1>4. SidMapExact'
    BY <1>3 DEF IndInv, TypeOK, SidMapExact, Same, Matches
  <1>5. LiveDistinct'
    BY <1>3 DEF IndInv, LiveDistinct, Same
  <1>6. Bound'
    BY <1>3 DEF IndInv, Bound, Same, LastTok, Owner
  <1>7. ThrottleOwn'
    BY <1>3 DEF IndInv, ThrottleOwn, Same
  <1> QED
    BY <1>2, <1>4, <1>5, <1>6, <1>7 DEF TableInv

\* A step that leaves the tables alone keeps the table's invariant.
LEMMA Untouched ==
    ASSUME IndInv, UNCHANGED <<sess, sidMap, granted, stalled>>
    PROVE  sess' \in [Slots -> Session] /\ TableInv'
  BY DEF IndInv, TypeOK, TableInv, SidMapExact, LiveDistinct, Bound, ThrottleOwn,
         Matches, LastTok

(* A thread moves on: what it carries stays true because a granted OPEN    *)
(* and a failed write are never forgotten.                                 *)
LEMMA ThreadMoves ==
    ASSUME IndInv, NEW t \in Threads, NEW r \in Thread, Goto(t, r),
           granted' = granted, stalled \subseteq stalled',
           r.pc \in {"deliver", "stamp"} =>
               r.tok \in 1..LastTok /\ r.own = granted[r.tok],
           r.pc # "idle" => r.peer \in Peers,
           r.pc = "stamp" => r.tok \in stalled'
    PROVE  th' \in [Threads -> Thread] /\ DeliverOwn' /\ StampOwn'
  BY DEF IndInv, TypeOK, Goto, DeliverOwn, StampOwn, LastTok

\* A thread between two frames is of its type.
LEMMA IdleThreadType == IdleThread \in Thread /\ IdleThread.pc = "idle"
  BY ConstAssumption DEF IdleThread, Thread, PCs, Sids, Pool

\* A handler that returns keeps what the other threads hold true.
LEMMA ThreadDone ==
    ASSUME IndInv, NEW t \in Threads, Done(t),
           granted' = granted, stalled \subseteq stalled'
    PROVE  th' \in [Threads -> Thread] /\ DeliverOwn' /\ StampOwn'
  BY IdleThreadType, ThreadMoves DEF Done

\* The parts of the invariant that a handler's step must establish.
LEMMA Assemble ==
    ASSUME IndInv, UNCHANGED <<sidMap, nextIp, clock, granted>>, stalled' \subseteq Nat,
           sess' \in [Slots -> Session], TableInv',
           th' \in [Threads -> Thread], DeliverOwn', StampOwn'
    PROVE  IndInv'
  BY SMTT(60) DEF IndInv, TypeOK, TableInv

(* The session a handler's section finds.                                  *)
LEMMA Found ==
    ASSUME IndInv, NEW t \in Threads
    PROVE  LET f == th[t]
               k == Find(f.sid)
           IN  /\ f \in Thread
               /\ k # NoSlot => /\ k \in Slots /\ sess[k] \in Session
                               /\ sess[k].valid /\ sess[k].sid = f.sid
                               /\ sess[k].peer \in Peers
                               /\ sess[k].token \in 1..LastTok
                               /\ granted[sess[k].token] = Owner(sess[k])
  <1>1. th[t] \in Thread /\ th[t].sid \in Sids
    BY DEF IndInv, TypeOK, Thread
  <1> DEFINE k == Find(th[t].sid)
  <1>2. ASSUME k # NoSlot PROVE k \in Slots /\ Matches(k, th[t].sid)
    BY <1>1, <1>2, FindIsMap DEF IndInv
  <1>3. ASSUME k # NoSlot
        PROVE  /\ sess[k] \in Session /\ sess[k].peer \in Peers
               /\ sess[k].token \in 1..LastTok
               /\ granted[sess[k].token] = Owner(sess[k])
    BY <1>2, <1>3 DEF IndInv, TypeOK, Matches, Bound
  <1> QED
    BY <1>1, <1>2, <1>3 DEF Matches

\* A frame taken from a socket keeps the invariant.
LEMMA RecvStep ==
    ASSUME IndInv, NEW t \in Threads, Recv(t) PROVE IndInv'
  <1>1. PICK typ \in FrameTypes \ {"open"}, sid \in Sids, tok \in 0..LastTok, p \in Peers :
          \E e \in IF typ = "data" THEN Encs ELSE {0} :
            Goto(t, [IdleThread EXCEPT !.pc = typ, !.sid = sid, !.tok = tok,
                                       !.peer = p, !.enc = e, !.now = clock])
    BY Zenon DEF Recv
  <1>2. PICK e \in IF typ = "data" THEN Encs ELSE {0} :
            Goto(t, [IdleThread EXCEPT !.pc = typ, !.sid = sid, !.tok = tok,
                                       !.peer = p, !.enc = e, !.now = clock])
    BY <1>1, Zenon
  <1> DEFINE r == [IdleThread EXCEPT !.pc = typ, !.sid = sid, !.tok = tok,
                                     !.peer = p, !.enc = e, !.now = clock]
  <1>3. typ \in {"data", "close", "echo"} /\ e \in {0, 1}
    BY ConstAssumption
  <1>4. tok \in Nat /\ clock \in Nat
    BY DEF IndInv, TypeOK
  <1>5. r \in Thread /\ r.pc \notin {"deliver", "stamp"} /\ r.peer \in Peers
    BY <1>3, <1>4, IdleThreadType, Zenon DEF Thread, PCs
  <1>6. th' \in [Threads -> Thread] /\ DeliverOwn' /\ StampOwn'
    BY <1>2, <1>5, ThreadMoves, Zenon DEF Recv
  <1> QED
    BY <1>6, Untouched, Assemble DEF Recv, IndInv, TypeOK

(* A thread parks at its next section.                                     *)
LEMMA ThreadParks ==
    ASSUME IndInv, NEW t \in Threads, th[t].pc # "idle",
           granted' = granted, stalled' = stalled
    PROVE  \A q \in {"charge", "rebind", "wipe", "echorebind"} :
             Goto(t, [th[t] EXCEPT !.pc = q]) =>
               th' \in [Threads -> Thread] /\ DeliverOwn' /\ StampOwn'
  <1>1. th[t] \in Thread /\ th[t].peer \in Peers
    BY DEF IndInv, TypeOK, StampOwn
  <1>2. ASSUME NEW q \in {"charge", "rebind", "wipe", "echorebind"}
        PROVE  /\ [th[t] EXCEPT !.pc = q] \in Thread /\ [th[t] EXCEPT !.pc = q].pc = q
               /\ [th[t] EXCEPT !.pc = q].peer \in Peers
    BY <1>1 DEF Thread, PCs
  <1> QED
    BY <1>2, ThreadMoves, Zenon

(* A frame accepted under its session's token carries that session's       *)
(* address.                                                                *)
LEMMA ThreadDelivers ==
    ASSUME IndInv, NEW t \in Threads, th[t].pc # "idle",
           granted' = granted, stalled' = stalled,
           Find(th[t].sid) # NoSlot, sess[Find(th[t].sid)].token = th[t].tok,
           Goto(t, [th[t] EXCEPT !.pc = "deliver", !.own = Owner(sess[Find(th[t].sid)])])
    PROVE  th' \in [Threads -> Thread] /\ DeliverOwn' /\ StampOwn'
  <1> DEFINE r == [th[t] EXCEPT !.pc = "deliver", !.own = Owner(sess[Find(th[t].sid)])]
  <1>1. /\ th[t] \in Thread /\ th[t].peer \in Peers
        /\ Owner(sess[Find(th[t].sid)]) \in [user : Users \cup {"none"}, ip : Pool]
        /\ th[t].tok \in 1..LastTok
        /\ granted[th[t].tok] = Owner(sess[Find(th[t].sid)])
    BY Found DEF Session, IndInv, StampOwn, Owner
  <1>2. /\ r \in Thread /\ r.pc = "deliver" /\ r.tok = th[t].tok
        /\ r.peer \in Peers /\ r.own = Owner(sess[Find(th[t].sid)])
    BY <1>1, Zenon DEF Thread, PCs
  <1> HIDE DEF r
  <1>3. Goto(t, r)
    BY DEF r
  <1> QED
    BY <1>1, <1>2, <1>3, ThreadMoves, SMTT(60), Z3T(60)

\* The lookup of handle_data keeps the invariant.
LEMMA DataLookupStep ==
    ASSUME IndInv, NEW t \in Threads, DataLookup(t) PROVE IndInv'
  <1> DEFINE f == th[t]
             k == Find(f.sid)
  <1>1. UNCHANGED <<sidMap, nextIp, clock, granted, stalled>> /\ stalled' \subseteq Nat
        /\ f.pc # "idle"
    BY DEF DataLookup, IndInv, TypeOK
  <1>2. CASE UNCHANGED sess
    <2>1. sess' \in [Slots -> Session] /\ TableInv'
      BY <1>1, <1>2, Untouched, SMTT(60)
    <2>2. \/ Done(t)
          \/ k # NoSlot /\ Goto(t, [f EXCEPT !.pc = "charge"])
          \/ Goto(t, [f EXCEPT !.pc = "rebind"])
          \/ /\ k # NoSlot /\ sess[k].token = f.tok
             /\ Goto(t, [f EXCEPT !.pc = "deliver", !.own = Owner(sess[k])])
      BY SMTT(60) DEF DataLookup
    <2>3. k # NoSlot => sess[k].token \in Nat
      BY Found DEF Session
    <2>4. th' \in [Threads -> Thread] /\ DeliverOwn' /\ StampOwn'
      BY <1>1, <2>2, <2>3, ThreadDone, ThreadParks, ThreadDelivers, Zenon
    <2> QED
      BY <1>1, <2>1, <2>4, Assemble
  <1>3. CASE sess' # sess
    <2>1. /\ k # NoSlot /\ sess[k].token = f.tok
          /\ sess' = [sess EXCEPT ![k] = [sess[k] EXCEPT !.last = clock]]
          /\ \/ Done(t)
             \/ Goto(t, [f EXCEPT !.pc = "deliver", !.own = Owner(sess[k])])
      BY <1>3, SMTT(60) DEF DataLookup
    <2>2. /\ k \in Slots /\ sess[k] \in Session /\ sess[k].valid
          /\ sess[k].peer \in Peers /\ clock \in Nat
      BY <2>1, Found DEF IndInv, TypeOK
    <2>3. sess' \in [Slots -> Session] /\ TableInv'
      <3> DEFINE c == [sess[k] EXCEPT !.last = clock]
      <3>1. Same(c, sess[k]) /\ c.thr = sess[k].thr /\ c.peer \in Peers
        <4> HIDE DEF k
        <4> QED
          BY <2>2, Zenon DEF Same, Session
      <3> QED
        BY <1>1, <2>1, <2>2, <3>1, Refresh, Zenon
    <2>4. th' \in [Threads -> Thread] /\ DeliverOwn' /\ StampOwn'
      BY <1>1, <2>1, ThreadDone, ThreadDelivers, Zenon
    <2> QED
      BY <1>1, <2>3, <2>4, Assemble
  <1> QED
    BY <1>2, <1>3

(* A live session is refreshed and stays where it is.                      *)
Refreshed ==
    \E k \in Slots, c \in Session :
        /\ sess[k].valid /\ Same(c, sess[k]) /\ c.peer \in Peers
        /\ sess' = [sess EXCEPT ![k] = c]

(* The section that charges a mismatch to the session it finds.            *)
LEMMA ChargeTable ==
    ASSUME IndInv, NEW t \in Threads, Find(th[t].sid) # NoSlot,
           UNCHANGED <<sidMap, granted, stalled>>,
           LET k == Find(th[t].sid)
           IN  sess' = [sess EXCEPT ![k] =
                          Charged(sess[k], sess[k].peer = th[t].peer, th[t].now)]
    PROVE  sess' \in [Slots -> Session] /\ TableInv' /\ Refreshed
  <1> DEFINE k == Find(th[t].sid)
             b == (sess[k].peer = th[t].peer)
             c == Charged(sess[k], b, th[t].now)
  <1>1. /\ k \in Slots /\ sess[k] \in Session /\ sess[k].valid
        /\ sess[k].peer \in Peers /\ th[t].now \in Nat
    BY Found DEF Thread
  <1>b. b \in BOOLEAN
    OBVIOUS
  <1>2. Same(c, sess[k]) /\ c.thr = sess[k].thr /\ c.peer \in Peers
    <2> HIDE DEF b, k
    <2> QED
      BY <1>1, <1>b, ChargedKeeps, Zenon
  <1>3. Refreshed
    BY <1>1, <1>2, Zenon DEF Refreshed, Same
  <1> QED
    BY <1>1, <1>2, <1>3, Refresh, Zenon

\* The rate charge of handle_data keeps the invariant.
LEMMA ChargeStep ==
    ASSUME IndInv, NEW t \in Threads, Charge(t) PROVE IndInv'
  <1>1. UNCHANGED <<sidMap, nextIp, clock, granted, stalled>> /\ stalled' \subseteq Nat
    BY DEF Charge, IndInv, TypeOK
  <1>2. sess' \in [Slots -> Session] /\ TableInv'
    <2>1. CASE sess' = sess
      BY <1>1, <2>1, Untouched, SMTT(60)
    <2>2. CASE sess' # sess
      BY <1>1, <2>2, ChargeTable, SMTT(60) DEF Charge
    <2> QED
      BY <2>1, <2>2
  <1>3. th' \in [Threads -> Thread] /\ DeliverOwn' /\ StampOwn'
    BY <1>1, ThreadDone DEF Charge
  <1> QED
    BY <1>1, <1>2, <1>3, Assemble

(* The section that rebinds the session it finds to the frame's source.    *)
LEMMA RebindTable ==
    ASSUME IndInv, NEW t \in Threads, th[t].pc # "idle", Find(th[t].sid) # NoSlot,
           UNCHANGED <<sidMap, granted, stalled>>,
           LET k == Find(th[t].sid)
           IN  sess' = [sess EXCEPT ![k].peer = th[t].peer, ![k].last = clock]
    PROVE  sess' \in [Slots -> Session] /\ TableInv' /\ Refreshed
  <1> DEFINE k == Find(th[t].sid)
             c == [sess[k] EXCEPT !.peer = th[t].peer, !.last = clock]
  <1>1. /\ k \in Slots /\ sess[k] \in Session /\ sess[k].valid
        /\ th[t].peer \in Peers /\ clock \in Nat
    BY Found DEF StampOwn, IndInv, TypeOK
  <1>2. Same(c, sess[k]) /\ c.thr = sess[k].thr /\ c.peer \in Peers
    <2> HIDE DEF k
    <2> QED
      BY <1>1, Zenon DEF Same, Session
  <1>3. sess' = [sess EXCEPT ![k] = c]
    BY <1>1, Zenon DEF IndInv, TypeOK
  <1>4. Refreshed
    BY <1>1, <1>2, <1>3, Zenon DEF Refreshed, Same
  <1> QED
    BY <1>1, <1>2, <1>3, <1>4, Refresh, Zenon

\* The rebind of handle_data keeps the invariant: the slot is looked up again
\* and may have changed hands.
LEMMA DataRebindStep ==
    ASSUME IndInv, NEW t \in Threads, DataRebind(t) PROVE IndInv'
  <1> DEFINE f == th[t]
             k == Find(f.sid)
  <1>1. UNCHANGED <<sidMap, nextIp, clock, granted, stalled>> /\ stalled' \subseteq Nat
        /\ th[t].pc # "idle"
    BY SMTT(60), Z3T(60) DEF DataRebind, IndInv, TypeOK
  <1>2. \/ sess' = sess
        \/ k # NoSlot /\ sess' = [sess EXCEPT ![k] =
                                   Charged(sess[k], sess[k].peer = f.peer, f.now)]
        \/ k # NoSlot /\ sess' = [sess EXCEPT ![k].peer = f.peer, ![k].last = clock]
    BY SMTT(60) DEF DataRebind, StillOwns
  <1>3. sess' \in [Slots -> Session] /\ TableInv'
    BY <1>1, <1>2, Untouched, ChargeTable, RebindTable, SMTT(60)
  <1>4. \/ Done(t)
        \/ /\ k # NoSlot /\ sess[k].token = f.tok
           /\ Goto(t, [f EXCEPT !.pc = "deliver", !.own = Owner(sess[k])])
    BY DEF DataRebind, StillOwns
  <1>5. th' \in [Threads -> Thread] /\ DeliverOwn' /\ StampOwn'
    BY <1>1, <1>4, ThreadDone, ThreadDelivers, Zenon
  <1> QED
    BY <1>1, <1>3, <1>5, Assemble

\* The lookup of handle_echo keeps the invariant.
LEMMA EchoLookupStep ==
    ASSUME IndInv, NEW t \in Threads, EchoLookup(t) PROVE IndInv'
  <1> DEFINE f == th[t]
             k == Find(f.sid)
             c == [sess[k] EXCEPT !.last = clock]
  <1>1. UNCHANGED <<sidMap, nextIp, clock, granted, stalled>> /\ stalled' \subseteq Nat
        /\ th[t].pc # "idle"
    BY DEF EchoLookup, IndInv, TypeOK
  <1>2. sess' = sess \/ (k # NoSlot /\ sess' = [sess EXCEPT ![k] = c])
    BY DEF EchoLookup
  <1>3. ASSUME k # NoSlot
        PROVE  /\ k \in Slots /\ sess[k].valid
               /\ Same(c, sess[k]) /\ c.thr = sess[k].thr /\ c.peer \in Peers
    <2>1. /\ k \in Slots /\ sess[k] \in Session /\ sess[k].valid
          /\ sess[k].peer \in Peers /\ clock \in Nat
      BY <1>3, Found DEF IndInv, TypeOK
    <2> HIDE DEF k
    <2> QED
      BY <2>1, Zenon DEF Same, Session
  <1>4. sess' \in [Slots -> Session] /\ TableInv'
    BY <1>1, <1>2, <1>3, Untouched, Refresh, Zenon
  <1>5. th' \in [Threads -> Thread] /\ DeliverOwn' /\ StampOwn'
    BY <1>1, ThreadDone, ThreadParks, 0 \in Nat, Zenon DEF EchoLookup
  <1> QED
    BY <1>1, <1>4, <1>5, Assemble

\* The rebind of handle_echo keeps the invariant.
LEMMA EchoRebindStep ==
    ASSUME IndInv, NEW t \in Threads, EchoRebind(t) PROVE IndInv'
  <1>1. UNCHANGED <<sidMap, nextIp, clock, granted, stalled>> /\ stalled' \subseteq Nat
        /\ th[t].pc # "idle"
    BY DEF EchoRebind, IndInv, TypeOK
  <1>2. sess' \in [Slots -> Session] /\ TableInv'
    BY <1>1, Untouched, RebindTable, Zenon DEF EchoRebind, StillOwns
  <1>3. th' \in [Threads -> Thread] /\ DeliverOwn' /\ StampOwn'
    BY <1>1, ThreadDone DEF EchoRebind
  <1> QED
    BY <1>1, <1>2, <1>3, Assemble

\* The write into the tunnel keeps the invariant, also when it stalls.
LEMMA DeliverStep ==
    ASSUME IndInv, NEW t \in Threads, Deliver(t) PROVE IndInv'
  <1> DEFINE f == th[t]
             r == [f EXCEPT !.pc = "stamp"]
  <1>1. UNCHANGED <<sess, sidMap, nextIp, clock, granted>>
    BY DEF Deliver
  <1>2. /\ f \in Thread /\ f.tok \in 1..LastTok /\ f.own = granted[f.tok]
        /\ f.peer \in Peers /\ stalled \subseteq Nat /\ LastTok \in Nat
    BY DEF IndInv, TypeOK, DeliverOwn, StampOwn, Deliver, LastTok
  <1>3. \/ Done(t) /\ stalled' = stalled
        \/ Goto(t, r) /\ stalled' = stalled \cup {f.tok}
    BY DEF Deliver
  <1>4. stalled' \subseteq Nat /\ stalled \subseteq stalled'
    BY <1>2, <1>3
  <1>5. r \in Thread /\ r.pc = "stamp" /\ r.tok = f.tok /\ r.own = f.own /\ r.peer = f.peer
    BY <1>2 DEF Thread, PCs
  <1>6. th' \in [Threads -> Thread] /\ DeliverOwn' /\ StampOwn'
    <2>1. CASE Done(t)
      BY <1>1, <1>4, <2>1, ThreadDone
    <2>2. CASE Goto(t, r) /\ stalled' = stalled \cup {f.tok}
      <3> HIDE DEF r
      <3> QED
        BY <1>1, <1>2, <1>4, <1>5, <2>2, ThreadMoves, SMTT(60)
    <2> QED
      BY <1>3, <2>1, <2>2
  <1>7. sess' \in [Slots -> Session] /\ TableInv'
    BY <1>1, <1>4 DEF IndInv, TypeOK, TableInv, SidMapExact, LiveDistinct, Bound,
                      ThrottleOwn, Matches, LastTok
  <1> QED
    BY <1>1, <1>4, <1>6, <1>7, Assemble

\* The throttle stamp after a stalled write keeps the invariant.
LEMMA StampStep ==
    ASSUME IndInv, NEW t \in Threads, Stamp(t) PROVE IndInv'
  <1> DEFINE f == th[t]
             k == Find(f.sid)
             c == [sess[k] EXCEPT !.thr = clock + Throttle]
  <1>1. UNCHANGED <<sidMap, nextIp, clock, granted, stalled>> /\ stalled' \subseteq Nat
    BY DEF Stamp, IndInv, TypeOK
  <1>2. \/ sess' = sess
        \/ k # NoSlot /\ sess[k].token = f.tok /\ sess' = [sess EXCEPT ![k] = c]
    BY DEF Stamp, StillOwns
  <1>3. ASSUME k # NoSlot PROVE /\ k \in Slots /\ sess[k].valid
                                      /\ Same(c, sess[k]) /\ c.peer \in Peers
    <2>1. /\ k \in Slots /\ sess[k] \in Session /\ sess[k].valid
          /\ sess[k].peer \in Peers /\ clock + Throttle \in Nat
      BY <1>3, Found, ConstAssumption DEF IndInv, TypeOK
    <2> HIDE DEF k
    <2> QED
      BY <2>1, Zenon DEF Same, Session
  <1>4. f.tok \in stalled
    BY DEF IndInv, StampOwn, Stamp
  <1>5. sess' \in [Slots -> Session] /\ TableInv'
    <2>1. CASE sess' = sess
      BY <1>1, <2>1, Untouched
    <2>2. CASE k # NoSlot /\ sess[k].token = f.tok /\ sess' = [sess EXCEPT ![k] = c]
      <3> HIDE DEF k, c
      <3> QED
        BY <1>1, <1>3, <1>4, <2>2, Refresh, Zenon
    <2> QED
      BY <1>2, <2>1, <2>2
  <1>6. th' \in [Threads -> Thread] /\ DeliverOwn' /\ StampOwn'
    BY <1>1, ThreadDone DEF Stamp
  <1> QED
    BY <1>1, <1>5, <1>6, Assemble

\* The first lookup of handle_close keeps the invariant.
LEMMA CloseLookupStep ==
    ASSUME IndInv, NEW t \in Threads, CloseLookup(t) PROVE IndInv'
  <1> DEFINE f == th[t]
             k == Find(f.sid)
  <1>1. UNCHANGED <<sess, sidMap, nextIp, clock, granted, stalled>> /\ stalled' \subseteq Nat
        /\ th[t].pc # "idle"
    BY DEF CloseLookup, IndInv, TypeOK
  <1>2. \/ Done(t)
        \/ k # NoSlot /\ Goto(t, [f EXCEPT !.pc = "charge"])
        \/ Goto(t, [f EXCEPT !.pc = "wipe"])
    BY DEF CloseLookup
  <1>3. k # NoSlot => sess[k].token \in Nat
    BY Found DEF Session
  <1>4. th' \in [Threads -> Thread] /\ DeliverOwn' /\ StampOwn'
    BY <1>1, <1>2, <1>3, ThreadDone, ThreadParks, Zenon
  <1> QED
    BY <1>1, <1>4, Untouched, Assemble

(* CLOSE and the purge: the sessions of D end, and their sids with them.   *)
LEMMA WipeTable ==
    ASSUME IndInv, NEW D \in SUBSET Slots, \A k \in D : sess[k].valid,
           sess' = [k \in Slots |-> IF k \in D THEN WipedSess ELSE sess[k]],
           sidMap' = [x \in Sids |-> IF \E k \in D : sess[k].sid = x
                                    THEN NoSlot ELSE sidMap[x]],
           UNCHANGED <<granted, stalled>>
    PROVE  /\ sess' \in [Slots -> Session]
           /\ sidMap' \in [Sids -> Slots \cup {NoSlot}]
           /\ TableInv'
  <1>1. ZeroSess \in Session /\ ~ZeroSess.valid
    BY ConstAssumption DEF ZeroSess, Session, Sids, Pool
  <1>2. sess \in [Slots -> Session] /\ sidMap \in [Sids -> Slots \cup {NoSlot}]
    BY DEF IndInv, TypeOK
  <1>3. \A k \in Slots : sess'[k] = IF k \in D THEN ZeroSess ELSE sess[k]
    BY DEF WipedSess
  <1>4. sess' \in [Slots -> Session]
    BY <1>1, <1>2 DEF WipedSess
  <1>5. \A k \in Slots : sess[k].sid \in Sids
    BY <1>2 DEF Session
  <1>6. SidMapExact'
    <2>1. ASSUME NEW k \in Slots, sess'[k].valid PROVE sidMap'[sess'[k].sid] = k
      <3>1. k \notin D /\ sess'[k] = sess[k]
        BY <1>1, <1>3, <2>1
      <3>2. sidMap[sess[k].sid] = k
        BY <2>1, <3>1 DEF IndInv, SidMapExact
      <3>3. ~\E j \in D : sess[j].sid = sess[k].sid
        BY <3>1, <3>2 DEF IndInv, SidMapExact
      <3> QED
        BY <1>5, <3>1, <3>2, <3>3
    <2>2. ASSUME NEW x \in Sids, sidMap'[x] # NoSlot PROVE Matches(sidMap[x], x)'
      <3>1. sidMap'[x] = sidMap[x] /\ ~\E k \in D : sess[k].sid = x
        BY <2>2
      <3>2. Matches(sidMap[x], x) /\ sidMap[x] \in Slots
        BY <1>2, <2>2, <3>1 DEF IndInv, SidMapExact
      <3>3. sidMap[x] \notin D
        BY <3>1, <3>2, SMTT(60) DEF Matches
      <3> QED
        BY <1>3, <3>1, <3>2, <3>3 DEF Matches
    <2> QED
      BY <2>1, <2>2 DEF SidMapExact
  <1>7. LiveDistinct' /\ Bound' /\ ThrottleOwn'
    BY <1>1, <1>3, SMTT(60), Z3T(60) DEF IndInv, LiveDistinct, Bound, ThrottleOwn, LastTok
  <1> QED
    BY <1>2, <1>4, <1>6, <1>7 DEF TableInv

\* The wipe of handle_close keeps the invariant.
LEMMA CloseWipeStep ==
    ASSUME IndInv, NEW t \in Threads, CloseWipe(t) PROVE IndInv'
  <1> DEFINE f == th[t]
             k == Find(f.sid)
  <1>1. UNCHANGED <<nextIp, clock, granted, stalled>> /\ stalled' \subseteq Nat
    BY SMTT(60), Z3T(60) DEF CloseWipe, IndInv, TypeOK
  <1>2. th' \in [Threads -> Thread] /\ DeliverOwn' /\ StampOwn'
    BY <1>1, ThreadDone DEF CloseWipe
  <1>3. CASE UNCHANGED <<sess, sidMap>>
    BY <1>1, <1>2, <1>3, Untouched, Assemble
  <1>4. CASE /\ k # NoSlot /\ UNCHANGED sidMap
             /\ sess' = [sess EXCEPT ![k] =
                            Charged(sess[k], sess[k].peer = f.peer, f.now)]
    BY <1>1, <1>2, <1>4, ChargeTable, Assemble, Zenon
  <1>5. CASE /\ k # NoSlot
             /\ sess' = [sess EXCEPT ![k] = WipedSess]
             /\ sidMap' = [sidMap EXCEPT ![sess[k].sid] = NoSlot]
    <2>1. k \in Slots /\ sess[k].valid /\ {k} \in SUBSET Slots
      BY <1>5, Found
    <2>2. /\ sess' = [j \in Slots |-> IF j \in {k} THEN WipedSess ELSE sess[j]]
          /\ sidMap' = [x \in Sids |-> IF \E j \in {k} : sess[j].sid = x
                                       THEN NoSlot ELSE sidMap[x]]
      BY <1>5, <2>1, Zenon DEF IndInv, TypeOK
    <2>3. /\ sess' \in [Slots -> Session]
          /\ sidMap' \in [Sids -> Slots \cup {NoSlot}]
          /\ TableInv'
      <3> HIDE DEF k
      <3> QED
        BY <1>1, <2>1, <2>2, WipeTable, Zenon
    <2> QED
      BY <1>1, <1>2, <2>3, SMTT(60) DEF IndInv, TypeOK, TableInv
  <1> QED
    BY <1>3, <1>4, <1>5, SMTT(60) DEF CloseWipe, Unmapped, StillOwns

\* purge_expired keeps the invariant.
LEMMA PurgeStep ==
    ASSUME IndInv, PurgeExpired PROVE IndInv'
  <1> DEFINE D == {k \in Slots : Expired(k)}
  <1>1. D \in SUBSET Slots /\ \A k \in D : sess[k].valid
    BY DEF Expired
  <1>2. UNCHANGED <<nextIp, th, clock, granted, stalled>>
    BY DEF PurgeExpired
  <1>3. /\ sess' = [k \in Slots |-> IF k \in D THEN WipedSess ELSE sess[k]]
        /\ sidMap' = [x \in Sids |-> IF \E k \in D : sess[k].sid = x
                                     THEN NoSlot ELSE sidMap[x]]
    BY DEF PurgeExpired
  <1>4. /\ sess' \in [Slots -> Session]
        /\ sidMap' \in [Sids -> Slots \cup {NoSlot}]
        /\ TableInv'
    <2> HIDE DEF D
    <2> QED
      BY <1>1, <1>2, <1>3, WipeTable, Zenon
  <1> QED
    BY <1>2, <1>4 DEF IndInv, TypeOK, TableInv, DeliverOwn, StampOwn, LastTok

\* The passing of time keeps the invariant.
LEMMA TickStep ==
    ASSUME IndInv, Tick PROVE IndInv'
  BY DEF IndInv, TypeOK, Tick, SidMapExact, LiveDistinct, Bound, DeliverOwn,
         ThrottleOwn, StampOwn, Matches, LastTok

-----------------------------------------------------------------------------

\* The session handle_open writes is of its type and carries what it was
\* given.
LEMMA NewSessType ==
    ASSUME NEW u \in Users, NEW p \in Peers, NEW e \in Encs, NEW ip \in Pool,
           NEW n \in Nat, clock \in Nat
    PROVE  LET c == NewSess(u, p, e, ip, n)
           IN  /\ c \in Session /\ c.valid /\ c.sid = SidOf(ip) /\ c.token = n
               /\ c.ip = ip /\ c.user = u /\ c.thr = 0 /\ c.peer = p
  <1>1. ZeroSess \in Session /\ ZeroSess.thr = 0
    BY ConstAssumption DEF ZeroSess, Session, Sids, Pool
  <1>2. e \in {0, 1} /\ SidOf(ip) \in Sids
    BY ConstAssumption, SidOfType
  <1> QED
    BY <1>1, <1>2, Zenon DEF Session, NewSess

(* OPEN.  k is the account's slot or a free one, ip the address it keeps   *)
(* or the first free one.                                                  *)
LEMMA OpenStep ==
    ASSUME IndInv, NEW u \in Users, NEW p \in Peers, NEW e \in Encs, Open(u, p, e)
    PROVE  IndInv'
  <1> DEFINE tok == LastTok + 1
             Fresh(ip) == NewSess(u, p, e, ip, tok)
  <1>1. PICK k \in OpenSlots(u), ip \in Pool :
          /\ Assignable(k, ip)
          /\ sess' = [j \in Slots |-> IF j = k THEN Fresh(ip)
                                     ELSE IF Matches(j, SidOf(ip)) THEN WipedSess
                                     ELSE sess[j]]
          /\ sidMap' = [sidMap EXCEPT ![SidOf(ip)] = k]
          /\ nextIp' = IF sess[k].valid THEN nextIp
                       ELSE IF ip = IpEnd THEN IpBase ELSE ip + 1
          /\ granted' = Append(granted, [user |-> u, ip |-> ip])
    BY Zenon DEF Open
  <1> DEFINE sid == SidOf(ip)
             fresh == Fresh(ip)
  <1>2. UNCHANGED <<th, clock, stalled>>
    BY DEF Open
  <1>3. /\ sess \in [Slots -> Session] /\ sidMap \in [Sids -> Slots \cup {NoSlot}]
        /\ nextIp \in Pool /\ clock \in Nat \ {0}
        /\ granted \in Seq([user : Users, ip : Pool]) /\ LastTok \in Nat
    BY DEF IndInv, TypeOK, LastTok
  <1>4. k \in Slots /\ sid \in Sids
    BY SidOfType, SMTT(60) DEF OpenSlots, UserSlots, FreeSlots
  <1>5. /\ granted' \in Seq([user : Users, ip : Pool])
        /\ LastTok' = tok /\ tok \in Nat
        /\ granted'[tok] = [user |-> u, ip |-> ip]
        /\ \A n \in 1..LastTok : n \in 1..tok /\ n # tok /\ granted'[n] = granted[n]
    BY <1>1, <1>3, SMTT(60) DEF LastTok
  <1>6. /\ fresh \in Session /\ fresh.valid /\ fresh.sid = sid /\ fresh.token = tok
        /\ fresh.ip = ip /\ fresh.user = u /\ fresh.thr = 0 /\ fresh.peer = p
    <2>1. tok \in Nat /\ clock \in Nat
      BY <1>3
    <2> QED
      BY <2>1, NewSessType DEF sid
  <1>7. ZeroSess \in Session /\ ~ZeroSess.valid
    BY ConstAssumption DEF ZeroSess, Session, Sids, Pool
  <1> HIDE DEF fresh, tok, sid
  <1>8. \A j \in Slots : sess'[j] = IF j = k THEN fresh
                                   ELSE IF Matches(j, sid) THEN ZeroSess ELSE sess[j]
    BY <1>1 DEF fresh, sid, WipedSess
  <1>9. sess' \in [Slots -> Session]
    BY <1>1, <1>3, <1>6, <1>7, SMTT(60) DEF fresh, WipedSess
  <1>10. \A j \in Slots : j # k /\ sess'[j].valid =>
           sess'[j] = sess[j] /\ sess[j].valid /\ sess[j].sid # sid
    BY <1>7, <1>8 DEF Matches
  <1>11. sidMap' = [sidMap EXCEPT ![sid] = k]
    BY <1>1 DEF sid
  <1>12. sidMap' \in [Sids -> Slots \cup {NoSlot}]
    BY <1>3, <1>4, <1>11, SMTT(60), Z3T(60)
  <1>13. sess[k].valid => sess[k].sid = sid
    BY <1>1, <1>4, SMTT(60), Z3T(60) DEF Assignable, IndInv, Bound, sid
  <1>14. SidMapExact'
    <2>1. ASSUME NEW j \in Slots, sess'[j].valid PROVE sidMap'[sess'[j].sid] = j
      <3>1. CASE j = k
        BY <1>3, <1>4, <1>6, <1>8, <1>11, <3>1, SMTT(60)
      <3>2. CASE j # k
        <4>1. sess'[j] = sess[j] /\ sess[j].valid /\ sess[j].sid # sid /\ sess[j].sid \in Sids
          BY <1>3, <1>10, <2>1, <3>2 DEF Session
        <4> QED
          BY <1>3, <1>11, <4>1, SMTT(60) DEF IndInv, SidMapExact
      <3> QED
        BY <3>1, <3>2, SMTT(60)
    <2>2. ASSUME NEW x \in Sids, sidMap'[x] # NoSlot PROVE Matches(sidMap[x], x)'
      <3>1. CASE x = sid
        BY <1>3, <1>4, <1>6, <1>8, <1>11, <3>1, SMTT(60) DEF Matches
      <3>2. CASE x # sid
        <4>1. sidMap'[x] = sidMap[x] /\ sidMap[x] \in Slots /\ Matches(sidMap[x], x)
          BY <1>3, <1>11, <2>2, <3>2, SMTT(60) DEF IndInv, SidMapExact
        <4>2. sidMap[x] # k /\ ~Matches(sidMap[x], sid)
          BY <1>13, <3>2, <4>1, SMTT(60) DEF Matches
        <4> QED
          BY <1>8, <4>1, <4>2 DEF Matches
      <3> QED
        BY <3>1, <3>2, SMTT(60)
    <2> QED
      BY <2>1, <2>2, SMTT(60), Z3T(60) DEF SidMapExact
  <1>15. Bound'
    <2>1. ASSUME NEW j \in Slots, j # k, sess'[j].valid
          PROVE  /\ sess'[j].sid = SidOf(sess'[j].ip) /\ sess'[j].peer \in Peers
                 /\ sess'[j].token \in 1..LastTok'
                 /\ granted'[sess'[j].token] = Owner(sess'[j])
      BY <1>5, <1>10, <2>1, SMTT(60) DEF IndInv, Bound
    <2>2. tok \in 1..LastTok'
      BY <1>3, <1>5, SMTT(60) DEF tok
    <2>3. /\ sess'[k].sid = SidOf(sess'[k].ip) /\ sess'[k].peer \in Peers
          /\ sess'[k].token \in 1..LastTok'
          /\ granted'[sess'[k].token] = Owner(sess'[k])
      BY <1>4, <1>5, <1>6, <1>8, <2>2, SMTT(60) DEF sid, Owner
    <2>4. ASSUME NEW j \in Slots, ~sess'[j].valid PROVE sess'[j] = ZeroSess
      BY <1>6, <1>8, <2>4, SMTT(60) DEF IndInv, Bound
    <2> QED
      BY <2>1, <2>3, <2>4, SMTT(60) DEF Bound
  <1>16. LiveDistinct'
    <2>1. ASSUME NEW j \in Slots, j # k, sess'[j].valid
          PROVE  sess'[j].user # u /\ sess'[j].ip # ip /\ sess'[j].token # tok
      <3>1. sess'[j] = sess[j] /\ sess[j].valid /\ sess[j].sid # sid
        BY <1>10, <2>1, SMTT(60)
      <3>2. sess[j].user # u
        BY <1>4, <2>1, <3>1, SMTT(60) DEF IndInv, LiveDistinct, OpenSlots, UserSlots, FreeSlots
      <3>3. sess[j].ip # ip
        BY <3>1, SMTT(60) DEF IndInv, Bound, sid
      <3>4. sess[j].token # tok
        BY <1>5, <3>1, SMTT(60) DEF IndInv, Bound
      <3> QED
        BY <3>1, <3>2, <3>3, <3>4, SMTT(60)
    <2>2. sess'[k].user = u /\ sess'[k].ip = ip /\ sess'[k].token = tok
      BY <1>4, <1>6, <1>8, SMTT(60)
    <2> QED
      BY <1>10, <2>1, <2>2, SMTT(60) DEF IndInv, LiveDistinct
  <1>17. ThrottleOwn'
    BY <1>2, <1>6, <1>8, <1>10, SMTT(60), Z3T(60) DEF IndInv, ThrottleOwn
  <1>18. DeliverOwn' /\ StampOwn'
    BY <1>2, <1>5 DEF IndInv, DeliverOwn, StampOwn
  <1>19. nextIp' \in Pool
    <2>1. nextIp' \in {nextIp, IpBase, ip + 1} /\ (nextIp' = ip + 1 => ip # IpEnd \/ nextIp' \in {nextIp, IpBase})
      BY <1>1, SMTT(60), Z3T(60)
    <2> QED
      BY <1>3, <2>1, ConstAssumption, SMTT(60) DEF Pool
  <1>20. TypeOK'
    BY <1>2, <1>5, <1>9, <1>12, <1>19 DEF IndInv, TypeOK
  <1> QED
    BY <1>14, <1>15, <1>16, <1>17, <1>18, <1>20 DEF IndInv

-----------------------------------------------------------------------------

\* The empty server satisfies the invariant.
LEMMA InitEstablishes == Init => IndInv
  <1> SUFFICES ASSUME Init PROVE IndInv
    BY SMTT(60)
  <1>1. ZeroSess \in Session /\ ~ZeroSess.valid /\ ZeroSess.thr = 0
    BY ConstAssumption DEF ZeroSess, Session, Sids, Pool
  <1>2. TypeOK
    BY <1>1, IdleThreadType, ConstAssumption, SMTT(60) DEF Init, TypeOK, Pool
  <1>3. SidMapExact /\ LiveDistinct /\ Bound /\ ThrottleOwn
    BY <1>1 DEF Init, SidMapExact, LiveDistinct, Bound, ThrottleOwn
  <1>4. DeliverOwn /\ StampOwn
    BY IdleThreadType DEF Init, DeliverOwn, StampOwn
  <1> QED
    BY <1>2, <1>3, <1>4 DEF IndInv

\* Every step keeps the invariant.
LEMMA NextPreserves == IndInv /\ [Next]_vars => IndInv'
  <1> SUFFICES ASSUME IndInv, [Next]_vars PROVE IndInv'
    OBVIOUS
  <1>1. ASSUME NEW t \in Threads, Recv(t) PROVE IndInv'
    BY <1>1, RecvStep
  <1>2. ASSUME NEW t \in Threads, Handler(t) PROVE IndInv'
    BY <1>2, DataLookupStep, ChargeStep, DataRebindStep, DeliverStep, StampStep,
       CloseLookupStep, CloseWipeStep, EchoLookupStep, EchoRebindStep DEF Handler
  <1>3. ASSUME NEW u \in Users, NEW p \in Peers, NEW e \in Encs, Open(u, p, e)
        PROVE  IndInv'
    BY <1>3, OpenStep
  <1>4. CASE PurgeExpired
    BY <1>4, PurgeStep
  <1>5. CASE Tick
    BY <1>5, TickStep, SMTT(60), Z3T(60)
  <1>6. CASE UNCHANGED vars
    BY <1>6 DEF vars, IndInv, TypeOK, SidMapExact, LiveDistinct, Bound, DeliverOwn,
                ThrottleOwn, StampOwn, Matches, LastTok
  <1> QED
    BY <1>1, <1>2, <1>3, <1>4, <1>5, <1>6 DEF Next

(* The invariant of the session table holds in every reachable state, for  *)
(* any number of recv threads, accounts, slots, addresses and sids.        *)
THEOREM TableInvariant == Spec => []IndInv
  BY InitEstablishes, NextPreserves, PTL DEF Spec

(* Type correctness: in particular the mismatch counters saturate and the  *)
(* address handed out next stays in the pool.                              *)
THEOREM TypeCorrect == Spec => []TypeOK
  BY TableInvariant, PTL DEF IndInv

(* sid_map and sess[] name each other: find_session_unlocked's early       *)
(* return on an empty map entry never hides a live session.                *)
THEOREM MapIsExact == Spec => []SidMapExact
  BY TableInvariant, PTL DEF IndInv

(* handle_open never gives two live sessions one account, address or       *)
(* token.                                                                  *)
THEOREM SessionsDistinct == Spec => []LiveDistinct
  BY TableInvariant, PTL DEF IndInv

(* The key and the address a frame is handled with after the lock is       *)
(* dropped are those granted with its token.                               *)
THEOREM DeliversOwn == Spec => []DeliverOwn
  BY TableInvariant, PTL DEF IndInv

(* Only a session whose own TUN write failed is ever throttled.            *)
THEOREM ThrottlesOwn == Spec => []ThrottleOwn
  BY TableInvariant, PTL DEF IndInv

-----------------------------------------------------------------------------
(* What a handler's section does to the table: nothing, a refresh, or the  *)
(* end of the session whose token and peer the frame carries.              *)
Closes(t, k) ==
    /\ sess[k].valid
    /\ th[t].pc = "wipe" /\ th'[t].pc = "idle"
    /\ th[t].tok = sess[k].token /\ th[t].peer = sess[k].peer
    /\ sess' = [sess EXCEPT ![k] = ZeroSess]

\* What a handler other than handle_open can do to the table: nothing, a
\* refresh of one slot, or a close.
LEMMA HandlerEffect ==
    ASSUME IndInv, NEW t \in Threads, Recv(t) \/ Handler(t)
    PROVE  /\ granted' = granted
           /\ sess' = sess \/ Refreshed \/ \E k \in Slots : Closes(t, k)
  <1> DEFINE f == th[t]
             k == Find(f.sid)
             Touch(c) == sess[k].valid /\ Same(c, sess[k]) /\ c.peer \in Peers
  <1>1. k # NoSlot => /\ k \in Slots /\ sess[k] \in Session /\ sess[k].valid
                      /\ sess[k].peer \in Peers
    BY Found
  <1>2. clock \in Nat /\ clock + Throttle \in Nat
    BY ConstAssumption DEF IndInv, TypeOK
  <1>3. granted' = granted
    BY Zenon DEF Recv, Handler, DataLookup, Charge, DataRebind, Deliver, Stamp,
           CloseLookup, CloseWipe, EchoLookup, EchoRebind
  <1>4. ASSUME k # NoSlot, NEW n \in Nat,
               \/ sess' = [sess EXCEPT ![k] = [sess[k] EXCEPT !.last = n]]
               \/ sess' = [sess EXCEPT ![k] = [sess[k] EXCEPT !.thr = n]]
        PROVE  Refreshed
    <2> HIDE DEF k
    <2>1. Touch([sess[k] EXCEPT !.last = n]) /\ Touch([sess[k] EXCEPT !.thr = n])
      BY <1>1, <1>4 DEF Same, Session
    <2> QED
      BY <1>1, <1>4, <2>1, Zenon DEF Refreshed, Same
  <1>5. CASE Recv(t) \/ Deliver(t) \/ CloseLookup(t)
    BY <1>3, <1>5, Zenon DEF Recv, Deliver, CloseLookup
  <1>6. CASE DataLookup(t) \/ EchoLookup(t)
    <2>1. \/ sess' = sess
          \/ k # NoSlot /\ sess' = [sess EXCEPT ![k] = [sess[k] EXCEPT !.last = clock]]
      BY <1>6 DEF DataLookup, EchoLookup
    <2> QED
      BY <1>2, <1>3, <1>4, <2>1, ZenonT(60)
  <1>7. CASE Stamp(t)
    <2>1. \/ sess' = sess
          \/ k # NoSlot /\ sess' = [sess EXCEPT ![k] =
                                     [sess[k] EXCEPT !.thr = clock + Throttle]]
      BY <1>7, SMTT(60), Z3T(60) DEF Stamp, StillOwns
    <2> QED
      BY <1>2, <1>3, <1>4, <2>1, Zenon
  <1>8. CASE Charge(t)
    BY <1>3, <1>8, ChargeTable, SMTT(60) DEF Charge
  <1>9. CASE DataRebind(t) \/ EchoRebind(t)
    <2>1. \/ sess' = sess
          \/ k # NoSlot /\ sess' = [sess EXCEPT ![k] =
                                     Charged(sess[k], sess[k].peer = f.peer, f.now)]
          \/ k # NoSlot /\ sess' = [sess EXCEPT ![k].peer = f.peer, ![k].last = clock]
      <3>1. CASE DataRebind(t)
        BY <3>1, ZenonT(60) DEF DataRebind, StillOwns
      <3>2. CASE EchoRebind(t)
        BY <3>2, ZenonT(60) DEF EchoRebind, StillOwns
      <3> QED
        BY <1>9, <3>1, <3>2
    <2>2. f.pc # "idle" /\ UNCHANGED <<sidMap, granted, stalled>>
      BY <1>9, SMTT(60) DEF DataRebind, EchoRebind
    <2> QED
      BY <2>1, <2>2, ChargeTable, RebindTable, SMTT(60)
  <1>10. CASE CloseWipe(t)
    <2>1. /\ f.pc = "wipe" /\ th'[t].pc = "idle"
          /\ UNCHANGED <<granted, stalled>>
      BY <1>10, IdleThreadType, Zenon DEF CloseWipe, Done, Goto, IndInv, TypeOK
    <2>2. CASE sess' = sess
      BY <1>3, <2>2
    <2>3. CASE /\ k # NoSlot /\ UNCHANGED sidMap
               /\ sess' = [sess EXCEPT ![k] =
                              Charged(sess[k], sess[k].peer = f.peer, f.now)]
      BY <2>1, <2>3, ChargeTable, Zenon
    <2>4. CASE /\ k # NoSlot /\ sess[k].token = f.tok /\ sess[k].peer = f.peer
               /\ sess' = [sess EXCEPT ![k] = ZeroSess]
      BY <1>1, <1>3, <2>1, <2>4, Zenon DEF Closes
    <2> QED
      BY <1>10, <2>2, <2>3, <2>4, Zenon DEF CloseWipe, StillOwns, WipedSess
  <1> QED
    BY <1>5, <1>6, <1>7, <1>8, <1>9, <1>10, SMTT(60), Z3T(60) DEF Handler

(* What a granted OPEN does to the table: it renews the account's session, *)
(* or fills a free slot with an address nobody holds.  The wipe of other   *)
(* sessions with the same sid in handle_open never has a victim.           *)
Renews(k, u, ip, p) ==
    /\ sess[k].valid /\ sess[k].user = u /\ sess[k].ip = ip
    /\ sess[k].peer[1] = p[1] \/ IdleFor(sess[k]) > Idle

\* A new session in slot k: the slot was free, the account had none, the
\* address is nobody's.
Grants(k, u, ip) ==
    /\ ~sess[k].valid /\ UserSlots(u) = {}
    /\ \A j \in Slots : sess[j].valid => sess[j].ip # ip

\* What handle_open does to the table: it renews the account's session or
\* grants a new one, with a new token.
LEMMA OpenEffect ==
    ASSUME IndInv, NEW u \in Users, NEW p \in Peers, NEW e \in Encs, Open(u, p, e)
    PROVE  /\ LastTok' = LastTok + 1
           /\ \E k \in Slots, ip \in Pool, c \in Session :
                /\ c.valid /\ c.token = LastTok + 1
                /\ c.user = u /\ c.ip = ip /\ c.peer = p
                /\ sess' = [sess EXCEPT ![k] = c]
                /\ Renews(k, u, ip, p) \/ Grants(k, u, ip)
  <1> DEFINE Fresh(ip) == NewSess(u, p, e, ip, LastTok + 1)
  <1>1. PICK k \in OpenSlots(u), ip \in Pool :
          /\ ~ActiveElsewhere(k, p)
          /\ Assignable(k, ip)
          /\ sess' = [j \in Slots |-> IF j = k THEN Fresh(ip)
                                     ELSE IF Matches(j, SidOf(ip)) THEN WipedSess
                                     ELSE sess[j]]
          /\ granted' = Append(granted, [user |-> u, ip |-> ip])
    BY DEF Open
  <1> DEFINE sid == SidOf(ip)
             c == Fresh(ip)
  <1>2. /\ sess \in [Slots -> Session] /\ clock \in Nat
        /\ granted \in Seq([user : Users, ip : Pool]) /\ LastTok \in Nat
        /\ k \in Slots /\ sid \in Sids /\ sidMap \in [Sids -> Slots \cup {NoSlot}]
    BY SidOfType, SMTT(60) DEF IndInv, TypeOK, LastTok, OpenSlots, UserSlots, FreeSlots
  <1>3. LastTok' = LastTok + 1
    BY <1>1, <1>2, SMTT(60) DEF LastTok
  <1>4. c \in Session /\ c.valid /\ c.token = LastTok + 1 /\ c.user = u /\ c.ip = ip
        /\ c.peer = p
    <2>1. LastTok + 1 \in Nat /\ sid \in Sids /\ clock \in Nat
      BY <1>2
    <2> QED
      BY <2>1, NewSessType
  <1>5. ASSUME NEW j \in Slots, Matches(j, sid) PROVE j = k
    <2>1. sidMap[sid] = j
      BY <1>5, Zenon DEF IndInv, SidMapExact, Matches
    <2>2. Find(sid) = j
      BY <1>2, <2>1, FindIsMap DEF IndInv
    <2>3. j # NoSlot
      BY SMTT(60) DEF Slots, NoSlot
    <2>4. CASE sess[k].valid
      BY <1>1, <1>2, <2>1, <2>4, SMTT(60) DEF Assignable, IndInv, Bound, SidMapExact
    <2>5. CASE ~sess[k].valid
      BY <1>1, <2>2, <2>3, <2>5 DEF Assignable, FreeIps
    <2> QED
      BY <2>4, <2>5, SMTT(60)
  <1>6. sess' = [sess EXCEPT ![k] = c]
    <2> HIDE DEF c, sid
    <2>1. sess' = [j \in Slots |-> IF j = k THEN c
                                  ELSE IF Matches(j, sid) THEN WipedSess ELSE sess[j]]
      BY <1>1 DEF c, sid
    <2> QED
      BY <1>2, <1>5, <2>1, Zenon
  <1>7. CASE sess[k].valid
    <2>1. sess[k].user = u /\ sess[k].ip = ip
      BY <1>1, <1>7 DEF Assignable, OpenSlots, UserSlots, FreeSlots
    <2>2. sess[k].last \in Nat
      BY <1>2, SMTT(60), Z3T(60) DEF Session
    <2>3. sess[k].peer[1] = p[1] \/ ~(IdleFor(sess[k]) <= Idle)
      BY <1>1, <1>7, SMTT(60) DEF ActiveElsewhere
    <2>4. sess[k].peer[1] = p[1] \/ IdleFor(sess[k]) > Idle
      <3>1. ~(IdleFor(sess[k]) <= Idle) => IdleFor(sess[k]) > Idle
        BY <1>2, <2>2, ConstAssumption DEF IdleFor
      <3> QED
        BY <2>3, <3>1
    <2> HIDE DEF c
    <2> QED
      BY <1>2, <1>3, <1>4, <1>6, <1>7, <2>1, <2>4, Zenon DEF Renews
  <1>8. CASE ~sess[k].valid
    <2>1. UserSlots(u) = {}
      BY <1>8, SMTT(60) DEF OpenSlots, UserSlots
    <2>2. ASSUME NEW j \in Slots, sess[j].valid PROVE sess[j].ip # ip
      BY <1>5, <1>8, <2>2 DEF IndInv, Bound, Matches
    <2> HIDE DEF c
    <2> QED
      BY <1>2, <1>3, <1>4, <1>6, <1>8, <2>1, <2>2, Zenon DEF Grants
  <1> QED
    BY <1>7, <1>8, SMTT(60)

(* Both together: whatever happens between the lock sections of a handler, *)
(* it delivers and reports for its own session only.                       *)
THEOREM HandlersActOnOwn == Spec => []HandlersOwn
  BY DeliversOwn, ThrottlesOwn, PTL DEF HandlersOwn

(* A live session ends only by idling out, by its own CLOSE or by its own  *)
(* account's re-OPEN from the same host: no interleaving of recv threads   *)
(* lets an OPEN, a CLOSE or the purge take anybody else's session.         *)
THEOREM OwnerEndsSession == Spec => EndsOnlyByOwner
  <1>1. IndInv /\ [Next]_vars => [\A k \in Slots : EndedByOwner(k)]_vars
    <2> SUFFICES ASSUME IndInv, Next, NEW k \in Slots, sess[k].valid,
                        sess'[k].token # sess[k].token
                 PROVE  EndedByOwner(k)
      BY DEF EndedByOwner
    <2>1. sess \in [Slots -> Session]
      BY SMTT(60) DEF IndInv, TypeOK
    <2>2. ASSUME NEW t \in Threads, Recv(t) \/ Handler(t) PROVE EndedByOwner(k)
      <3>1. sess' # sess /\ ~Refreshed
        BY <2>1 DEF Refreshed, Same
      <3>2. PICK j \in Slots : Closes(t, j)
        BY <2>2, <3>1, HandlerEffect, SMTT(60)
      <3>3. j = k
        BY <2>1, <3>2, SMTT(60) DEF Closes
      <3> QED
        BY <3>2, <3>3 DEF Closes, EndedByOwner
    <2>3. ASSUME NEW u \in Users, NEW p \in Peers, NEW e \in Encs, Open(u, p, e)
          PROVE  EndedByOwner(k)
      <3>1. PICK j \in Slots, ip \in Pool, c \in Session :
              /\ c.valid /\ c.user = u /\ c.ip = ip /\ c.peer = p
              /\ sess' = [sess EXCEPT ![j] = c]
              /\ Renews(j, u, ip, p) \/ Grants(j, u, ip)
        BY <2>3, OpenEffect
      <3>2. j = k /\ sess'[k] = c
        BY <2>1, <3>1, SMTT(60)
      <3> QED
        BY <3>1, <3>2 DEF Renews, Grants, EndedByOwner
    <2>4. CASE PurgeExpired
      BY <2>4 DEF PurgeExpired, Expired, EndedByOwner
    <2>5. CASE Tick
      BY <2>5 DEF Tick
    <2> QED
      BY <2>2, <2>3, <2>4, <2>5, SMTT(60) DEF Next
  <1> QED
    BY <1>1, TableInvariant, PTL DEF Spec, EndsOnlyByOwner

\* A thread's reading of the clock and a session's throttle are times.
LEMMA TimesAreNat ==
    /\ \A x \in Thread : x.now \in Nat
    /\ \A x \in Session : x.thr \in Nat
  BY SMTT(60) DEF Thread, Session

(* The budget's gate never drops the peer's own DATA: whoever charged what *)
(* to the session, the step that takes such a frame out of its first       *)
(* section accepts it and refreshes the session.                           *)
THEOREM PeerIsServed == Spec => PeerNeverGated
  <1>1. IndInv /\ [Next]_vars => [\A t \in Threads : PeerAccepted(t)]_vars
    <2> SUFFICES ASSUME IndInv, Next, NEW t \in Threads,
                        th[t].pc = "data", th'[t] # th[t],
                        Find(th[t].sid) # NoSlot,
                        sess[Find(th[t].sid)].token = th[t].tok,
                        sess[Find(th[t].sid)].peer = th[t].peer,
                        sess[Find(th[t].sid)].enc = th[t].enc,
                        th[t].now >= sess[Find(th[t].sid)].thr
                 PROVE  th'[t].pc = "deliver" /\ sess'[Find(th[t].sid)].last = clock
      BY SMTT(60) DEF PeerAccepted
    <2> DEFINE k == Find(th[t].sid)
    <2>1. /\ th \in [Threads -> Thread] /\ sess \in [Slots -> Session]
          /\ th[t] \in Thread /\ k \in Slots /\ sess[k] \in Session
      BY Found, ZenonT(60) DEF IndInv, TypeOK
    <2>2. PICK w \in Threads : Recv(w) \/ Handler(w)
      BY DEF Next, Open, PurgeExpired, Tick
    <2>3. w = t
      BY <2>1, <2>2, Zenon DEF Recv, Handler, Goto, Done, DataLookup, Charge, DataRebind,
                        Deliver, Stamp, CloseLookup, CloseWipe, EchoLookup, EchoRebind
    <2>4. DataLookup(t)
      BY <2>2, <2>3, Zenon DEF Recv, Handler, Charge, DataRebind, Deliver, Stamp,
                        CloseLookup, CloseWipe, EchoLookup, EchoRebind
    <2>5. ~Gated(k, th[t]) /\ ~(th[t].now < sess[k].thr)
      <3>1. ~Gated(k, th[t])
        BY Zenon DEF Gated
      <3>2. th[t].now \in Nat /\ sess[k].thr \in Nat /\ th[t].now >= sess[k].thr
        <4>1. th[t].now \in Nat
          BY <2>1, TimesAreNat, Zenon
        <4>2. sess[k].thr \in Nat
          BY <2>1, TimesAreNat, Zenon
        <4> QED
          BY <4>1, <4>2, ZenonT(60)
      <3>3. ~(th[t].now < sess[k].thr)
        <4> HIDE DEF k
        <4> QED
          BY <3>2, SMTT(60)
      <3> QED
        BY <3>1, <3>3, Zenon
    <2>6. /\ sess' = [sess EXCEPT ![k].last = clock]
          /\ Goto(t, [th[t] EXCEPT !.pc = "deliver", !.own = Owner(sess[k])])
      BY <2>4, <2>5 DEF DataLookup
    <2>7. th'[t].pc = "deliver"
      BY <2>1, <2>6 DEF Goto, Thread
    <2>8. sess'[k].last = clock
      <3> HIDE DEF k
      <3> QED
        BY <2>1, <2>6 DEF Session
    <2> QED
      BY <2>7, <2>8, SMTT(60)
  <1> QED
    BY <1>1, TableInvariant, PTL DEF Spec, PeerNeverGated

-----------------------------------------------------------------------------
\* What the registry shows of a slot.
Shown(c) == [tok |-> c.token, ip |-> c.ip, peer |-> c.peer]

(* One account per slot makes the view of a table s well defined.          *)
LEMMA OnlySlot ==
    ASSUME NEW s, NEW u, NEW k \in Slots, s[k].valid, s[k].user = u,
           \A j \in Slots : s[j].valid /\ s[j].user = u => j = k
    PROVE  (CHOOSE j \in Slots : j \in {i \in Slots : s[i].valid /\ s[i].user = u}) = k
  BY SMTT(60)

\* The registry's entry of an account is its only live slot.
LEMMA ViewNow ==
    ASSUME IndInv, NEW u \in Users
    PROVE  /\ \A k \in Slots : sess[k].valid /\ sess[k].user = u =>
                 RegistryView[u] = Shown(sess[k])
           /\ (\A k \in Slots : ~(sess[k].valid /\ sess[k].user = u)) =>
                 RegistryView[u] = NoSession
  <1>1. ASSUME NEW k \in Slots, sess[k].valid, sess[k].user = u
        PROVE  RegistryView[u] = Shown(sess[k])
    <2>1. \A j \in Slots : sess[j].valid /\ sess[j].user = u => j = k
      BY <1>1, SMTT(60) DEF IndInv, LiveDistinct
    <2>2. (CHOOSE j \in Slots : j \in UserSlots(u)) = k
      BY <1>1, <2>1, OnlySlot, SMTT(60) DEF UserSlots
    <2> QED
      BY <1>1, <2>2, Zenon DEF RegistryView, SessionOf, Shown, UserSlots
  <1> QED
    BY <1>1 DEF RegistryView, UserSlots

\* The same after a step.
LEMMA ViewNext ==
    ASSUME IndInv', NEW u \in Users
    PROVE  /\ \A k \in Slots : sess'[k].valid /\ sess'[k].user = u =>
                 RegistryView'[u] = Shown(sess'[k])
           /\ (\A k \in Slots : ~(sess'[k].valid /\ sess'[k].user = u)) =>
                 RegistryView'[u] = NoSession
  <1>1. ASSUME NEW k \in Slots, sess'[k].valid, sess'[k].user = u
        PROVE  RegistryView'[u] = Shown(sess'[k])
    <2>1. \A j \in Slots : sess'[j].valid /\ sess'[j].user = u => j = k
      BY <1>1, SMTT(60) DEF IndInv, LiveDistinct
    <2>2. (CHOOSE j \in Slots : j \in UserSlots(u)') = k
      BY <1>1, <2>1, OnlySlot DEF UserSlots
    <2> QED
      BY <1>1, <2>2, Zenon DEF RegistryView, SessionOf, Shown, UserSlots
  <1> QED
    BY <1>1 DEF RegistryView, UserSlots, NoSession

\* The elements of a sequence are of its set.
LEMMA SeqElement ==
    ASSUME NEW T, NEW q \in Seq(T), NEW n \in 1..Len(q) PROVE q[n] \in T
  BY SMTT(60)

(* A live session shows, a free account does not.                          *)
LEMMA HeldIsLive ==
    ASSUME IndInv, NEW k \in Slots, sess[k].valid
    PROVE  sess[k].user \in Users /\ Shown(sess[k]) # NoSession
  <1> DEFINE n == sess[k].token
  <1>1. n \in 1..LastTok /\ granted[n] = [user |-> sess[k].user, ip |-> sess[k].ip]
    BY SMTT(60) DEF IndInv, Bound, Owner
  <1>2. sess[k].user \in Users
    <2>1. granted \in Seq([user : Users, ip : Pool]) /\ n \in 1..Len(granted)
      BY <1>1 DEF IndInv, TypeOK, LastTok
    <2>2. granted[n] \in [user : Users, ip : Pool]
      BY <2>1, SeqElement, Zenon
    <2> QED
      BY <1>1, <2>2, SMTT(60)
  <1> QED
    BY <1>1, <1>2, SMTT(60) DEF Shown, NoSession

(* Slots whose account, token, address and peer stay put show the same.    *)
LEMMA ViewKept ==
    ASSUME IndInv, IndInv', NEW u \in Users,
           \A k \in Slots : sess[k].user = u \/ sess'[k].user = u => sess'[k] = sess[k]
    PROVE  RegistryView'[u] = RegistryView[u]
  <1>1. CASE \E k \in Slots : sess[k].valid /\ sess[k].user = u
    <2>1. PICK k \in Slots : sess[k].valid /\ sess[k].user = u
      BY <1>1, SMTT(60)
    <2>2. sess'[k] = sess[k]
      BY <2>1, SMTT(60)
    <2> QED
      BY <2>1, <2>2, ViewNow, ViewNext, SMTT(60)
  <1>2. CASE \A k \in Slots : ~(sess[k].valid /\ sess[k].user = u)
    <2>1. \A k \in Slots : ~(sess'[k].valid /\ sess'[k].user = u)
      BY <1>2, SMTT(60)
    <2> QED
      BY <1>2, <2>1, ViewNow, ViewNext, SMTT(60)
  <1> QED
    BY <1>1, <1>2, SMTT(60)

-----------------------------------------------------------------------------
(* The steps of the table, seen from the registry.                         *)

\* A refresh of a slot is a step of the registry, or none.
LEMMA RefreshShows ==
    ASSUME IndInv, IndInv', granted' = granted, Refreshed
    PROVE  Registry!Next
  <1>1. PICK k \in Slots, c \in Session :
          /\ sess[k].valid /\ Same(c, sess[k]) /\ c.peer \in Peers
          /\ sess' = [sess EXCEPT ![k] = c]
    BY Zenon DEF Refreshed
  <1> DEFINE u == sess[k].user
  <1>2. sess \in [Slots -> Session] /\ sess'[k] = c
    BY <1>1, SMTT(60) DEF IndInv, TypeOK
  <1>3. u \in Users /\ RegistryView[u] = Shown(sess[k]) /\ RegistryView[u] # NoSession
    BY <1>1, HeldIsLive, ViewNow, SMTT(60)
  <1>4. RegistryView'[u] = [tok |-> RegistryView[u].tok, ip |-> RegistryView[u].ip,
                            peer |-> c.peer]
    <2>1. sess'[k].valid /\ sess'[k].user = u
      BY <1>1, <1>2, ZenonT(60) DEF Same
    <2>2. RegistryView'[u] = Shown(c)
      BY <1>2, <1>3, <2>1, ViewNext, SMTT(60)
    <2> QED
      BY <1>1, <1>3, <2>2 DEF Shown, Same
  <1>5. ASSUME NEW v \in Users, v # u PROVE RegistryView'[v] = RegistryView[v]
    <2>1. \A j \in Slots : sess[j].user = v \/ sess'[j].user = v => sess'[j] = sess[j]
      BY <1>1, <1>2, <1>5 DEF Same
    <2> QED
      BY <2>1, ViewKept, SMTT(60)
  <1>6. RegistryView \in [Users -> {RegistryView[v] : v \in Users}]
        /\ RegistryView' = [v \in Users |-> RegistryView'[v]]
    BY SMTT(60) DEF RegistryView
  <1>7. RegistryView' = [RegistryView EXCEPT ![u] =
                           [tok |-> RegistryView[u].tok, ip |-> RegistryView[u].ip,
                            peer |-> c.peer]]
    <2> HIDE DEF u
    <2> QED
      BY <1>3, <1>4, <1>5, <1>6, SMTT(60)
  <1>8. Registry!Rebind(u, c.peer)
    BY <1>3, <1>7, SMTT(60) DEF Registry!Rebind, Registry!Held, LastTok
  <1> QED
    BY <1>1, <1>3, <1>8 DEF Registry!Next

(* CLOSE and the purge: the accounts of the sessions in D.                 *)
LEMMA WipeShows ==
    ASSUME IndInv, IndInv', granted' = granted, NEW D \in SUBSET Slots,
           \A k \in D : sess[k].valid,
           sess' = [k \in Slots |-> IF k \in D THEN ZeroSess ELSE sess[k]]
    PROVE  Registry!Next
  <1> DEFINE S == {sess[k].user : k \in D}
  <1>1. ~ZeroSess.valid
    BY SMTT(60) DEF ZeroSess
  <1>2. S \in SUBSET Registry!Held
    BY HeldIsLive, ViewNow, SMTT(60) DEF Registry!Held
  <1>3. ASSUME NEW v \in Users
        PROVE  RegistryView'[v] = IF v \in S THEN NoSession ELSE RegistryView[v]
    <2>1. CASE v \in S
      <3>1. PICK k \in D : sess[k].user = v
        BY <2>1, SMTT(60)
      <3>2. \A j \in Slots : ~(sess'[j].valid /\ sess'[j].user = v)
        BY <1>1, <3>1, SMTT(60) DEF IndInv, LiveDistinct
      <3> QED
        BY <2>1, <3>2, ViewNext, SMTT(60)
    <2>2. CASE v \notin S
      <3>1. \A j \in Slots : sess[j].valid /\ sess[j].user = v => sess'[j] = sess[j]
        BY <2>2
      <3>2. \A j \in Slots : sess'[j].valid /\ sess'[j].user = v => sess'[j] = sess[j]
        BY <1>1, SMTT(60)
      <3>3. CASE \E j \in Slots : sess[j].valid /\ sess[j].user = v
        <4>1. PICK j \in Slots : sess[j].valid /\ sess[j].user = v
          BY <3>3, SMTT(60)
        <4>2. RegistryView[v] = Shown(sess[j]) /\ RegistryView'[v] = Shown(sess'[j])
          BY <3>1, <4>1, ViewNow, ViewNext, SMTT(60)
        <4> QED
          BY <2>2, <3>1, <4>1, <4>2, SMTT(60)
      <3>4. CASE \A j \in Slots : ~(sess[j].valid /\ sess[j].user = v)
        <4>1. \A j \in Slots : ~(sess'[j].valid /\ sess'[j].user = v)
          BY <3>2, <3>4
        <4> QED
          BY <2>2, <3>4, <4>1, ViewNow, ViewNext, SMTT(60)
      <3> QED
        BY <3>3, <3>4, SMTT(60)
    <2> QED
      BY <2>1, <2>2, SMTT(60)
  <1>4. RegistryView' = [v \in Users |-> RegistryView'[v]]
    BY DEF RegistryView
  <1>5. Registry!End(S)
    BY <1>3, <1>4, SMTT(60) DEF Registry!End, LastTok
  <1> QED
    BY <1>2, <1>5, SMTT(60), Z3T(60) DEF Registry!Next

(* A granted OPEN is a renewal of the account's session or a new one.      *)
LEMMA OpenShows ==
    ASSUME IndInv, IndInv', NEW u \in Users, NEW p \in Peers, NEW e \in Encs,
           Open(u, p, e)
    PROVE  Registry!Next
  <1>1. PICK k \in Slots, ip \in Pool, c \in Session :
          /\ c.valid /\ c.token = LastTok + 1
          /\ c.user = u /\ c.ip = ip /\ c.peer = p
          /\ sess' = [sess EXCEPT ![k] = c]
          /\ Renews(k, u, ip, p) \/ Grants(k, u, ip)
    BY OpenEffect, SMTT(60)
  <1>2. sess \in [Slots -> Session] /\ sess'[k] = c /\ LastTok' = LastTok + 1
    BY <1>1, OpenEffect, SMTT(60), Z3T(60) DEF IndInv, TypeOK
  <1> DEFINE new == [tok |-> LastTok + 1, ip |-> ip, peer |-> p]
  <1>3. RegistryView'[u] = new
    BY <1>1, <1>2, ViewNext, SMTT(60), Z3T(60) DEF Shown
  <1>4. ASSUME NEW v \in Users, v # u PROVE RegistryView'[v] = RegistryView[v]
    <2>1. \A j \in Slots : j # k => sess'[j] = sess[j]
      BY <1>1, <1>2, SMTT(60), Z3T(60)
    <2>2. ~(sess[k].valid /\ sess[k].user = v) /\ ~(sess'[k].valid /\ sess'[k].user = v)
      BY <1>1, <1>2, <1>4, SMTT(60) DEF Renews, Grants
    <2>3. CASE \E j \in Slots : sess[j].valid /\ sess[j].user = v
      <3>1. PICK j \in Slots : sess[j].valid /\ sess[j].user = v
        BY <2>3, SMTT(60)
      <3>2. sess'[j] = sess[j]
        BY <2>1, <2>2, <3>1, SMTT(60)
      <3> QED
        <4>1. RegistryView[v] = Shown(sess[j])
          BY <3>1, ViewNow, Zenon
        <4>2. RegistryView'[v] = Shown(sess'[j])
          BY <3>1, <3>2, ViewNext, ZenonT(60)
        <4> QED
          BY <3>2, <4>1, <4>2, Zenon
    <2>4. CASE \A j \in Slots : ~(sess[j].valid /\ sess[j].user = v)
      <3>1. \A j \in Slots : ~(sess'[j].valid /\ sess'[j].user = v)
        BY <2>1, <2>2, <2>4, SMTT(60)
      <3>2. RegistryView[v] = NoSession
        BY <2>4, ViewNow, Zenon
      <3>3. RegistryView'[v] = NoSession
        BY <3>1, ViewNext, Zenon
      <3> QED
        BY <3>2, <3>3, Zenon
    <2> QED
      BY <2>3, <2>4, SMTT(60)
  <1>5. /\ RegistryView = [v \in Users |-> RegistryView[v]]
        /\ RegistryView' = [v \in Users |-> RegistryView'[v]]
    BY DEF RegistryView
  <1>6. RegistryView' = [RegistryView EXCEPT ![u] = new]
    <2> HIDE DEF new
    <2> QED
      BY <1>3, <1>4, <1>5
  <1>7. CASE Renews(k, u, ip, p)
    <2>1. RegistryView[u] = Shown(sess[k]) /\ RegistryView[u] # NoSession
      BY <1>7, HeldIsLive, ViewNow, SMTT(60) DEF Renews
    <2>2. RegistryView[u].ip = ip
      <3>1. sess[k].ip = ip
        BY <1>7, Zenon DEF Renews
      <3>2. Shown(sess[k]).ip = sess[k].ip
        BY SMTT(60) DEF Shown
      <3> QED
        BY <2>1, <3>1, <3>2, Zenon
    <2>3. Registry!Renew(u, p)
      BY <1>2, <1>6, <2>1, <2>2, SMTT(60) DEF Registry!Renew, Registry!Held
    <2> QED
      BY <2>3, SMTT(60) DEF Registry!Next
  <1>8. CASE Grants(k, u, ip)
    <2>1. RegistryView[u] = NoSession
      BY <1>8, ViewNow, SMTT(60) DEF Grants, UserSlots
    <2>2. ASSUME NEW v \in Users, RegistryView[v] # NoSession PROVE RegistryView[v].ip # ip
      <3>1. PICK j \in Slots : sess[j].valid /\ sess[j].user = v
        BY <2>2, ViewNow, SMTT(60)
      <3>2. RegistryView[v] = Shown(sess[j])
        BY <3>1, ViewNow, SMTT(60)
      <3> QED
        BY <1>8, <3>1, <3>2, SMTT(60) DEF Grants, Shown
    <2>3. Registry!Grant(u, ip, p)
      BY <1>2, <1>6, <2>1, <2>2 DEF Registry!Grant, Registry!Held
    <2> QED
      BY <2>3, SMTT(60), Z3T(60) DEF Registry!Next
  <1> QED
    BY <1>1, <1>7, <1>8, SMTT(60)

(* Every behaviour of the table under any interleaving of its recv threads *)
(* is a behaviour of the registry: at most one session per account, an     *)
(* address nobody else holds, a token never issued before.                 *)
THEOREM TableImplementsRegistry == Spec => ImplementsRegistry
  <1>1. Init => Registry!Init
    <2> SUFFICES ASSUME Init PROVE Registry!Init
      OBVIOUS
    <2>1. \A u \in Users : UserSlots(u) = {}
      BY DEF Init, UserSlots, ZeroSess
    <2> QED
      BY <2>1, SMTT(60) DEF Init, Registry!Init, RegistryView, LastTok
  <1>2. IndInv /\ IndInv' /\ [Next]_vars
          => [Registry!Next]_<<RegistryView, LastTok>>
    <2> SUFFICES ASSUME IndInv, IndInv', [Next]_vars
                 PROVE  Registry!Next \/ UNCHANGED <<RegistryView, LastTok>>
      BY SMTT(60)
    <2>1. ASSUME sess' = sess, granted' = granted
          PROVE  UNCHANGED <<RegistryView, LastTok>>
      BY <2>1 DEF RegistryView, SessionOf, UserSlots, LastTok
    <2>2. ASSUME NEW t \in Threads, Recv(t) \/ Handler(t)
          PROVE  Registry!Next \/ UNCHANGED <<RegistryView, LastTok>>
      <3>1. CASE sess' = sess
        BY <2>1, <2>2, <3>1, HandlerEffect
      <3>2. CASE Refreshed
        BY <2>2, <3>2, HandlerEffect, RefreshShows
      <3>3. ASSUME NEW k \in Slots, Closes(t, k) PROVE Registry!Next
        <4>1. /\ {k} \in SUBSET Slots /\ sess[k].valid
              /\ sess' = [j \in Slots |-> IF j \in {k} THEN ZeroSess ELSE sess[j]]
          BY <3>3, Zenon DEF Closes, IndInv, TypeOK
        <4> QED
          BY <2>2, <4>1, HandlerEffect, WipeShows, Zenon
      <3> QED
        BY <2>2, <3>1, <3>2, <3>3, HandlerEffect, SMTT(60)
    <2>3. ASSUME NEW u \in Users, NEW p \in Peers, NEW e \in Encs, Open(u, p, e)
          PROVE  Registry!Next
      BY <2>3, OpenShows
    <2>4. CASE PurgeExpired
      <3> DEFINE D == {k \in Slots : Expired(k)}
      <3>1. /\ D \in SUBSET Slots /\ \A k \in D : sess[k].valid
            /\ sess' = [k \in Slots |-> IF k \in D THEN ZeroSess ELSE sess[k]]
            /\ granted' = granted
        BY <2>4 DEF PurgeExpired, Expired, WipedSess
      <3> HIDE DEF D
      <3> QED
        BY <3>1, WipeShows, SMTT(60)
    <2>5. CASE Tick \/ UNCHANGED vars
      BY <2>1, <2>5 DEF Tick, vars
    <2> QED
      BY <2>2, <2>3, <2>4, <2>5 DEF Next
  <1> QED
    BY <1>1, <1>2, TableInvariant, PTL DEF Spec, ImplementsRegistry, Registry!Spec
=============================================================================
