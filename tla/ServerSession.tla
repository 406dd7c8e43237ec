--------------------------- MODULE ServerSession ---------------------------
(***************************************************************************)
(* The session table of iwan-server (src/src/common/server.c, server.h)    *)
(* under its SO_REUSEPORT recv threads.  One thread runs handle_udp on one *)
(* datagram at a time; sess_lock is dropped and retaken inside a handler,  *)
(* so every handler is split into the lock sections the code has, and the  *)
(* sections of different threads interleave.  A read-lock section only     *)
(* reads and stores single atomics, a write-lock section is exclusive:     *)
(* each section is one step.                                               *)
(*                                                                         *)
(* Data abstraction: an address is <<host, port>>, an IP is a natural, the *)
(* session id is the IP modulo SidSpace (2^16 in the code), a token is the *)
(* number of the OPEN that minted it (rand_u32 is taken never to repeat),  *)
(* 0 stands for any token that was never issued, time is counted in ticks. *)
(***************************************************************************)
EXTENDS Integers, Sequences, FiniteSets

CONSTANTS
    Threads,       \* uplink recv threads
    Users,         \* accounts of the users file
    Hosts, Ports,  \* client addresses
    Encs,          \* T_ENCRYPT values clients ask for: a subset of {0, 1}
    FrameTypes,    \* frame types the environment sends
    NSlots,        \* SERVER_MAX_SESSIONS
    IpBase, IpEnd, \* client address pool
    SidSpace,      \* number of session ids (65536)
    Idle,          \* IDLE_TIMEOUT_MS
    Window,        \* RATE_WINDOW_MS
    MisMax,        \* RATE_TOKEN_MISMATCH_MAX
    BoundMax,      \* RATE_TOKEN_MISMATCH_BOUND_MAX
    Throttle,      \* server_rate_get_throttle_ms()
    MaxTok,        \* bound: OPENs that are granted
    MaxTime        \* bound: ticks of the clock

Slots == 0..(NSlots - 1)
NoSlot == -1
Pool == IpBase..IpEnd
PoolSize == IpEnd - IpBase + 1
Sids == 0..(SidSpace - 1)
SidOf(ip) == ip % SidSpace
Peers == Hosts \X Ports

ASSUME ConstAssumption ==
    /\ NSlots \in Nat \ {0}
    /\ IpBase \in Nat /\ IpEnd \in Nat /\ IpBase <= IpEnd
    /\ SidSpace \in Nat \ {0}
    /\ Idle \in Nat /\ Window \in Nat /\ Throttle \in Nat
    /\ MisMax \in Nat \ {0} /\ BoundMax \in Nat
    /\ MaxTok \in Nat /\ MaxTime \in Nat
    /\ Encs \subseteq {0, 1}
    /\ FrameTypes \subseteq {"open", "data", "close", "echo"}

VARIABLES
    sess,     \* ctx->sess[]
    sidMap,   \* ctx->sid_map[]
    nextIp,   \* ctx->next_ip
    th,       \* what each recv thread is in the middle of
    clock,    \* now_ms(); starts above 0
    granted,  \* history: granted[n] is the user and address of the n-th OPEN granted
    stalled   \* history: tokens whose own TUN write has failed

vars == <<sess, sidMap, nextIp, th, clock, granted, stalled>>

(* nobody is a peer outside Peers and a user outside Users: a zeroed slot. *)
Nobody == <<"none", "none">>
ZeroSess ==
    [valid |-> FALSE, sid |-> 0, token |-> 0, peer |-> Nobody, ip |-> IpBase,
     enc |-> 0, last |-> 0, cnt |-> 0, bound |-> 0, win |-> 0, thr |-> 0,
     user |-> "none"]
Session ==
    [valid : BOOLEAN, sid : Sids, token : Nat, peer : Peers \cup {Nobody},
     ip : Pool, enc : {0, 1}, last : Nat, cnt : 0..MisMax, bound : 0..BoundMax,
     win : Nat, thr : Nat, user : Users \cup {"none"}]

(* A thread is parked at the next lock section of its handler; own is the  *)
(* account (its xor_key) and the address copied out of the session.        *)
PCs == {"idle", "data", "charge", "rebind", "deliver", "stamp",
        "close", "wipe", "echo", "echorebind"}
IdleThread ==
    [pc |-> "idle", sid |-> 0, tok |-> 0, peer |-> Nobody, enc |-> 0,
     now |-> 0, own |-> [user |-> "none", ip |-> IpBase]]
Thread ==
    [pc : PCs, sid : Sids, tok : Nat, peer : Peers \cup {Nobody}, enc : {0, 1},
     now : Nat, own : [user : Users \cup {"none"}, ip : Pool]]

LastTok == Len(granted)

-----------------------------------------------------------------------------
(* Pure helpers of the handlers.                                           *)

(* find_session_unlocked: the map, then the scan.                          *)
Matches(k, sid) == sess[k].valid /\ sess[k].sid = sid
Find(sid) ==
    LET m == sidMap[sid] IN
    IF m = NoSlot THEN NoSlot
    ELSE IF Matches(m, sid) THEN m
    ELSE IF \E k \in Slots : Matches(k, sid)
         THEN CHOOSE k \in Slots : Matches(k, sid)
                                   /\ \A j \in Slots : Matches(j, sid) => k <= j
         ELSE NoSlot

(* tok_win_live: the subtraction is on uint64_t, so a time read before the *)
(* lock and older than the window start gives a huge difference.           *)
WinLive(s, now) == s.win # 0 /\ now >= s.win /\ now - s.win < Window

(* tok_budget_over                                                         *)
BudgetOver(s, now) == WinLive(s, now) /\ s.cnt >= MisMax

(* tok_rebind_allowed                                                      *)
RebindAllowed(s, now) == ~WinLive(s, now) \/ s.cnt = 0

(* tok_budget_charge                                                       *)
Charged(s, bound, now) ==
    LET r == IF WinLive(s, now) THEN s
             ELSE [s EXCEPT !.win = now, !.cnt = 0, !.bound = 0]
    IN  IF bound
        THEN [r EXCEPT !.bound = IF r.bound < BoundMax THEN r.bound + 1 ELSE r.bound]
        ELSE [r EXCEPT !.cnt = IF r.cnt < MisMax THEN r.cnt + 1 ELSE r.cnt]

(* sess_wipe: what is left in the slot.  The fields the code leaves behind *)
(* are dead (every reader tests valid first and handle_open zeroes the     *)
(* slot before it fills it), so they are zero here.                        *)
WipedSess == ZeroSess

IdleFor(s) == clock - s.last

(* sess_wipe: what is left in the map.                                     *)
UnmappedForgotten(k) == sidMap
Unmapped(k) == [sidMap EXCEPT ![sess[k].sid] = NoSlot]

(* The pre-compare gate of PT_DATA and PT_CLOSE: it exempts the peer.      *)
GatedAnySource(k, f) == BudgetOver(sess[k], f.now)
Gated(k, f) == sess[k].peer # f.peer /\ BudgetOver(sess[k], f.now)

(* The session is looked up again, and its token compared again, by every  *)
(* section that follows one.                                               *)
StillOwnsNoToken(k, f) == k # NoSlot
StillOwns(k, f) == k # NoSlot /\ sess[k].token = f.tok

(* What an accepted frame takes with it out of the lock.                   *)
Owner(s) == [user |-> s.user, ip |-> s.ip]

-----------------------------------------------------------------------------
Init ==
    /\ sess = [k \in Slots |-> ZeroSess]
    /\ sidMap = [s \in Sids |-> NoSlot]
    /\ nextIp = IpBase
    /\ th = [t \in Threads |-> IdleThread]
    /\ clock = 1
    /\ granted = <<>>
    /\ stalled = {}

Goto(t, r) == th' = [th EXCEPT ![t] = r]
Done(t) == Goto(t, IdleThread)

(* handle_udp entry: parse the header and read the clock, before any lock. *)
Recv(t) ==
    /\ th[t].pc = "idle"
    /\ \E typ \in FrameTypes \ {"open"}, sid \in Sids, tok \in 0..LastTok, p \in Peers :
       \E e \in IF typ = "data" THEN Encs ELSE {0} :
         Goto(t, [IdleThread EXCEPT !.pc = typ, !.sid = sid, !.tok = tok,
                                    !.peer = p, !.enc = e, !.now = clock])
    /\ UNCHANGED <<sess, sidMap, nextIp, clock, granted, stalled>>

(* handle_open, from the write lock on; the credentials have been checked. *)
(* It is a single section, so the thread that runs it is never parked and  *)
(* is not one of those in th.                                              *)
UserSlots(u) == {k \in Slots : sess[k].valid /\ sess[k].user = u}
FreeSlots == {k \in Slots : ~sess[k].valid}
OpenSlotsAnyFree(u) == FreeSlots
OpenSlots(u) == IF UserSlots(u) # {} THEN UserSlots(u) ELSE FreeSlots

(* an active session is not taken over from another host                   *)
ActiveElsewhere(k, p) ==
    sess[k].valid /\ sess[k].peer[1] # p[1] /\ IdleFor(sess[k]) <= Idle

(* steps of the probe loop from next_ip, wrapping at ip_end                *)
ProbeSteps(ip) == IF ip >= nextIp THEN ip - nextIp ELSE ip - nextIp + PoolSize
FreeIpsUnchecked == Pool
FreeIps == {ip \in Pool : Find(SidOf(ip)) = NoSlot}
Assignable(k, ip) ==
    IF sess[k].valid THEN ip = sess[k].ip
    ELSE /\ PoolSize <= SidSpace
         /\ ip \in FreeIps
         /\ \A j \in FreeIps : ProbeSteps(ip) <= ProbeSteps(j)

NewSess(u, p, e, ip, tok) ==
    [ZeroSess EXCEPT !.valid = TRUE, !.sid = SidOf(ip), !.token = tok, !.peer = p,
                     !.ip = ip, !.enc = e, !.last = clock, !.user = u]

Open(u, p, e) ==
    /\ "open" \in FrameTypes
    /\ LastTok < MaxTok
    /\ \E k \in OpenSlots(u), ip \in Pool :
         /\ \A j \in OpenSlots(u) : k <= j
         /\ ~ActiveElsewhere(k, p)
         /\ Assignable(k, ip)
         /\ LET sid == SidOf(ip)
            IN  /\ sess' = [j \in Slots |->
                              IF j = k THEN NewSess(u, p, e, ip, LastTok + 1)
                              ELSE IF Matches(j, sid) THEN WipedSess
                              ELSE sess[j]]
                /\ sidMap' = [sidMap EXCEPT ![sid] = k]
                /\ nextIp' = IF sess[k].valid THEN nextIp
                             ELSE IF ip = IpEnd THEN IpBase ELSE ip + 1
                /\ granted' = Append(granted, [user |-> u, ip |-> ip])
    /\ UNCHANGED <<th, clock, stalled>>

(* PT_DATA / PT_DATA_ENC, the read-lock section.                           *)
DataLookup(t) ==
    LET f == th[t]
        k == Find(f.sid)
        isPeer == sess[k].peer = f.peer
    IN
    /\ f.pc = "data"
    /\ \/ k = NoSlot /\ Done(t) /\ UNCHANGED sess
       \/ k # NoSlot /\ Gated(k, f) /\ Done(t) /\ UNCHANGED sess
       \/ /\ k # NoSlot /\ ~Gated(k, f)
          /\ sess[k].token # f.tok
          /\ \/ Goto(t, [f EXCEPT !.pc = "charge"])
             \/ isPeer /\ Done(t)      \* server_rate_allow_tokbad refuses
          /\ UNCHANGED sess
       \/ /\ k # NoSlot /\ ~Gated(k, f)
          /\ sess[k].token = f.tok
          /\ IF f.now < sess[k].thr THEN Done(t) /\ UNCHANGED sess
             ELSE IF ~isPeer THEN Goto(t, [f EXCEPT !.pc = "rebind"]) /\ UNCHANGED sess
             ELSE /\ sess' = [sess EXCEPT ![k].last = clock]
                  /\ IF sess[k].enc = f.enc
                     THEN Goto(t, [f EXCEPT !.pc = "deliver", !.own = Owner(sess[k])])
                     ELSE Done(t)
    /\ UNCHANGED <<sidMap, nextIp, clock, granted, stalled>>

(* tok_charge_upgrade, and the same section of PT_CLOSE                    *)
Charge(t) ==
    LET f == th[t]
        k == Find(f.sid)
    IN
    /\ f.pc = "charge"
    /\ sess' = IF k # NoSlot /\ sess[k].token # f.tok
               THEN [sess EXCEPT ![k] = Charged(sess[k], sess[k].peer = f.peer, f.now)]
               ELSE sess
    /\ Done(t)
    /\ UNCHANGED <<sidMap, nextIp, clock, granted, stalled>>

(* PT_DATA from a new source: the write-lock section.                      *)
DataRebind(t) ==
    LET f == th[t]
        k == Find(f.sid)
    IN
    /\ f.pc = "rebind"
    /\ \/ k = NoSlot /\ Done(t) /\ UNCHANGED sess
       \/ /\ k # NoSlot /\ ~StillOwns(k, f)
          /\ sess' = [sess EXCEPT ![k] = Charged(sess[k], sess[k].peer = f.peer, f.now)]
          /\ Done(t)
       \/ /\ StillOwns(k, f)
          /\ sess[k].peer # f.peer /\ ~RebindAllowed(sess[k], f.now)
          /\ Done(t) /\ UNCHANGED sess
       \/ /\ StillOwns(k, f)
          /\ sess[k].peer = f.peer \/ RebindAllowed(sess[k], f.now)
          /\ sess' = [sess EXCEPT ![k].peer = f.peer, ![k].last = clock]
          /\ IF sess[k].enc = f.enc
             THEN Goto(t, [f EXCEPT !.pc = "deliver", !.own = Owner(sess[k])])
             ELSE Done(t)
    /\ UNCHANGED <<sidMap, nextIp, clock, granted, stalled>>

(* The H1 gate on the inner packet, then the TUN write, with no lock held. *)
(* src is the inner source; dstOk says the destination is not host-local.  *)
H1Ok(f, src, dstOk) == src = f.own.ip /\ dstOk
Deliver(t) ==
    LET f == th[t] IN
    /\ f.pc = "deliver"
    /\ \E src \in Pool, dstOk \in BOOLEAN, wrote \in BOOLEAN :
         IF H1Ok(f, src, dstOk) /\ ~wrote
         THEN Goto(t, [f EXCEPT !.pc = "stamp"]) /\ stalled' = stalled \cup {f.tok}
         ELSE Done(t) /\ UNCHANGED stalled
    /\ UNCHANGED <<sess, sidMap, nextIp, clock, granted>>

(* The congestion throttle, stamped under a second read lock.              *)
Stamp(t) ==
    LET f == th[t]
        k == Find(f.sid)
    IN
    /\ f.pc = "stamp"
    /\ sess' = IF StillOwns(k, f)
               THEN [sess EXCEPT ![k].thr = clock + Throttle]
               ELSE sess
    /\ Done(t)
    /\ UNCHANGED <<sidMap, nextIp, clock, granted, stalled>>

(* PT_CLOSE, the read-lock probe.                                          *)
CloseLookup(t) ==
    LET f == th[t]
        k == Find(f.sid)
    IN
    /\ f.pc = "close"
    /\ \/ k = NoSlot /\ Done(t)
       \/ k # NoSlot /\ Gated(k, f) /\ Done(t)
       \/ /\ k # NoSlot /\ ~Gated(k, f)
          /\ sess[k].token # f.tok
          /\ \/ Goto(t, [f EXCEPT !.pc = "charge"])
             \/ Done(t)                \* server_rate_allow_close refuses
       \/ /\ k # NoSlot /\ ~Gated(k, f)
          /\ sess[k].token = f.tok
          /\ Goto(t, [f EXCEPT !.pc = "wipe"])
    /\ UNCHANGED <<sess, sidMap, nextIp, clock, granted, stalled>>

(* PT_CLOSE with the right token: the write-lock section.                  *)
CloseWipe(t) ==
    LET f == th[t]
        k == Find(f.sid)
    IN
    /\ f.pc = "wipe"
    /\ Done(t)
    /\ \/ k = NoSlot /\ UNCHANGED <<sess, sidMap>>
       \/ /\ k # NoSlot /\ ~StillOwns(k, f)
          /\ sess' = [sess EXCEPT ![k] = Charged(sess[k], sess[k].peer = f.peer, f.now)]
          /\ UNCHANGED sidMap
       \/ /\ StillOwns(k, f) /\ sess[k].peer # f.peer
          /\ UNCHANGED <<sess, sidMap>>
       \/ /\ StillOwns(k, f) /\ sess[k].peer = f.peer
          /\ sess' = [sess EXCEPT ![k] = WipedSess]
          /\ sidMap' = Unmapped(k)
    /\ UNCHANGED <<nextIp, clock, granted, stalled>>

(* PT_PING_REQ / PT_ECHO_REQ: the read-lock section.                       *)
EchoLookup(t) ==
    LET f == th[t]
        k == Find(f.sid)
    IN
    /\ f.pc = "echo"
    /\ IF k = NoSlot \/ sess[k].token # f.tok THEN Done(t) /\ UNCHANGED sess
       ELSE IF sess[k].peer = f.peer
            THEN Done(t) /\ sess' = [sess EXCEPT ![k].last = clock]
            ELSE Goto(t, [f EXCEPT !.pc = "echorebind"]) /\ UNCHANGED sess
    /\ UNCHANGED <<sidMap, nextIp, clock, granted, stalled>>

EchoRebind(t) ==
    LET f == th[t]
        k == Find(f.sid)
    IN
    /\ f.pc = "echorebind"
    /\ sess' = IF StillOwns(k, f) /\ RebindAllowed(sess[k], f.now)
               THEN [sess EXCEPT ![k].peer = f.peer, ![k].last = clock]
               ELSE sess
    /\ Done(t)
    /\ UNCHANGED <<sidMap, nextIp, clock, granted, stalled>>

(* purge_expired, on the primary thread, with the time re-read under the   *)
(* write lock.                                                             *)
Expired(k) == sess[k].valid /\ IdleFor(sess[k]) > Idle
PurgeExpired ==
    /\ \E k \in Slots : Expired(k)
    /\ sess' = [k \in Slots |-> IF Expired(k) THEN WipedSess ELSE sess[k]]
    /\ sidMap' = [s \in Sids |->
                    IF \E k \in Slots : Expired(k) /\ sess[k].sid = s
                    THEN NoSlot ELSE sidMap[s]]
    /\ UNCHANGED <<nextIp, th, clock, granted, stalled>>

Tick ==
    /\ clock < MaxTime
    /\ clock' = clock + 1
    /\ UNCHANGED <<sess, sidMap, nextIp, th, granted, stalled>>

Handler(t) ==
    \/ DataLookup(t) \/ Charge(t) \/ DataRebind(t) \/ Deliver(t) \/ Stamp(t)
    \/ CloseLookup(t) \/ CloseWipe(t) \/ EchoLookup(t) \/ EchoRebind(t)

Next ==
    \/ \E t \in Threads : Recv(t) \/ Handler(t)
    \/ \E u \in Users, p \in Peers, e \in Encs : Open(u, p, e)
    \/ PurgeExpired
    \/ Tick

Spec == Init /\ [][Next]_vars

-----------------------------------------------------------------------------
TypeOK ==
    /\ sess \in [Slots -> Session]
    /\ sidMap \in [Sids -> Slots \cup {NoSlot}]
    /\ nextIp \in Pool
    /\ th \in [Threads -> Thread]
    /\ clock \in Nat \ {0}
    /\ granted \in Seq([user : Users, ip : Pool])
    /\ stalled \subseteq Nat

(* find_session_unlocked answers NULL as soon as sid_map[sid] < 0, so a    *)
(* live session the map does not lead to is unreachable for its whole      *)
(* life: the map and the table name each other after every OPEN, CLOSE and *)
(* purge, in whatever order the recv threads run them.                     *)
SidMapExact ==
    /\ \A k \in Slots : sess[k].valid => sidMap[sess[k].sid] = k
    /\ \A s \in Sids : sidMap[s] # NoSlot => Matches(sidMap[s], s)

(* handle_open: one slot per account, one address and one token per        *)
(* session, whichever threads run OPENs for the same account.              *)
LiveDistinct ==
    \A j, k \in Slots :
        sess[j].valid /\ sess[k].valid /\ j # k =>
            /\ sess[j].user # sess[k].user
            /\ sess[j].ip # sess[k].ip
            /\ sess[j].token # sess[k].token

(* A frame is decrypted with a key and checked against an address copied   *)
(* out of the session before the lock was dropped: whatever is closed,     *)
(* purged or reopened meanwhile, both are those granted with the frame's   *)
(* token, never those of the session that now has its sid.                 *)
DeliverOwn ==
    \A t \in Threads : th[t].pc \in {"deliver", "stamp"} =>
        /\ th[t].tok \in 1..LastTok
        /\ th[t].own = granted[th[t].tok]

(* The throttle is stamped under a second lock, after the TUN write: a     *)
(* session is only ever slowed down for a write of its own that failed,    *)
(* never for one of the session it replaced.                               *)
ThrottleOwn ==
    \A k \in Slots :
        sess[k].valid /\ sess[k].thr # 0 => sess[k].token \in stalled

(* A handler that was overtaken between its lock sections touches only     *)
(* what is still its session's: neither the packet it delivers nor the     *)
(* failed write it reports is another's (handle_udp).                      *)
HandlersOwn == DeliverOwn /\ ThrottleOwn

(* What the others rest on.  A live slot is the session of the OPEN that   *)
(* minted its token, under the sid of its address; a dead slot is zeroed;  *)
(* a thread about to stamp a throttle has seen its own write fail.         *)
Bound ==
    \A k \in Slots :
        IF sess[k].valid
        THEN /\ sess[k].sid = SidOf(sess[k].ip)
             /\ sess[k].peer \in Peers
             /\ sess[k].token \in 1..LastTok
             /\ granted[sess[k].token] = Owner(sess[k])
        ELSE sess[k] = ZeroSess
StampOwn ==
    \A t \in Threads :
        /\ th[t].pc # "idle" => th[t].peer \in Peers
        /\ th[t].pc = "stamp" => th[t].tok \in stalled

(* The inductive invariant: every lock section of every handler, run from  *)
(* any state that satisfies it, re-establishes it.                         *)
IndInv ==
    /\ TypeOK /\ SidMapExact /\ LiveDistinct /\ Bound
    /\ DeliverOwn /\ ThrottleOwn /\ StampOwn

(* A live session ends, or changes its token, only when it has been idle   *)
(* too long, when its own peer closes it with its own token, or when its   *)
(* own account reopens it from the same host and keeps the address.  No    *)
(* OPEN evicts another account, no CLOSE that raced a re-OPEN kills the    *)
(* new session, no purge reaps a session that was just refreshed.          *)
EndedByOwner(k) ==
    sess[k].valid /\ sess'[k].token # sess[k].token =>
      \/ IdleFor(sess[k]) > Idle
      \/ \E t \in Threads : /\ th[t].pc = "wipe" /\ th'[t].pc = "idle"
                            /\ th[t].tok = sess[k].token
                            /\ th[t].peer = sess[k].peer
      \/ /\ sess'[k].valid
         /\ sess'[k].user = sess[k].user
         /\ sess'[k].ip = sess[k].ip
         /\ sess'[k].peer[1] = sess[k].peer[1]
EndsOnlyByOwner == [][\A k \in Slots : EndedByOwner(k)]_vars

(* The mismatch budget must never starve the session's own client: a DATA  *)
(* frame from the current peer with the current token and mode, and no     *)
(* congestion throttle, is always accepted, whatever other sources have    *)
(* charged to the session.                                                 *)
PeerAccepted(t) ==
    LET f == th[t]
        k == Find(f.sid)
    IN  /\ f.pc = "data" /\ th'[t] # f
        /\ k # NoSlot
        /\ sess[k].token = f.tok /\ sess[k].peer = f.peer
        /\ sess[k].enc = f.enc /\ f.now >= sess[k].thr
        => th'[t].pc = "deliver" /\ sess'[k].last = clock
PeerNeverGated == [][\A t \in Threads : PeerAccepted(t)]_vars

(* The registry the table implements: an account's session is the one in   *)
(* its slot.                                                               *)
SessionOf(u) ==
    LET k == CHOOSE j \in Slots : j \in UserSlots(u)
    IN  [tok |-> sess[k].token, ip |-> sess[k].ip, peer |-> sess[k].peer]
NoSession == [tok |-> 0, ip |-> 0, peer |-> Nobody]
RegistryView ==
    [u \in Users |-> IF UserSlots(u) # {} THEN SessionOf(u) ELSE NoSession]
Registry == INSTANCE SessionRegistry WITH
    reg <- RegistryView, minted <- LastTok

(* Every step of every recv thread and of the purge is one grant, renewal, *)
(* rebind or end of the registry, or changes nothing it shows.             *)
ImplementsRegistry == Registry!Spec

(* server.c, tok_rebind_allowed: "a new source may take over the session   *)
(* only while no unbound source has charged a mismatch against THIS        *)
(* session in the current window".                                         *)
RebindOnlyWhenClean ==
    [][\A k \in Slots :
         sess[k].valid /\ sess'[k].valid /\ sess'[k].token = sess[k].token
         /\ sess'[k].peer # sess[k].peer
            => ~(WinLive(sess[k], clock) /\ sess[k].cnt > 0)]_vars
=============================================================================
