---------------------------- MODULE AccessProofs ----------------------------
(* Proofs about getting in: the client's connect loop and authentication,  *)
(* and the lockout table of the forwarding proxy, for every number of      *)
(* sources, threads, slots, tokens and datagrams.                          *)
EXTENDS ConnectLoop, ClientAuth, Lockout, WellFoundedInduction, FiniteSetTheorems, TLAPS

-----------------------------------------------------------------------------
\* Where the connect loop can be.
Places == {"enter", "install", "auth", "run", "running", "ret", "backoff",
           "wait", "end", "teardown", "exited"}

\* The dispositions of a signal.
Dispositions == {"default", "ignored", "on_sig", "on_signal"}

\* Where the disposition the client was started with stands.
Bare == {"enter", "install", "teardown"}

\* The strengthening of LoopOwns: what each place of the loop knows of the
\* socket, which dispositions the two installs saved, that a 0 handed back by
\* the session means the user's stop, and that only an exit sets the code.
LoopInv ==
    /\ LoopOwns
    /\ prog \in {"socks", "oidc_socks", "oidc_tun"}
    /\ lpc \in Places
    /\ code # -1 <=> lpc = "exited"
    /\ sess \in [rc : {-1, 0, 1}, reconnecting : BOOLEAN, ran : BOOLEAN,
                saw_fail : BOOLEAN]
    /\ disp \in Dispositions
    /\ old_sa \in [loop : Dispositions \ Handled, run : Dispositions]
    /\ lpc \in Bare => session_sock = "none" /\ disp \notin Handled
    /\ lpc \in {"run", "running"} => session_sock = "open"
    /\ lpc = "ret" => session_sock = IF prog = "oidc_tun" THEN "open" ELSE "none"
    /\ lpc = "running" /\ prog # "oidc_tun" => old_sa.run \in Handled
    /\ lpc = "ret" /\ sess.rc = 0 => user_stop
    /\ lpc \in {"end", "teardown"} => user_stop
    /\ user_stop \in BOOLEAN

\* The loop starts without a socket, under the disposition it found.
LEMMA LoopInitially == ClInit => LoopInv
<1> SUFFICES ASSUME ClInit PROVE LoopInv
    OBVIOUS
<1>1. LoopOwns
    BY DEF ClInit, LoopOwns
<1>2. /\ sess \in [rc : {-1, 0, 1}, reconnecting : BOOLEAN, ran : BOOLEAN,
                   saw_fail : BOOLEAN]
      /\ sess.rc = 0
    BY DEF ClInit
<1>3. old_sa \in [loop : Dispositions \ Handled, run : Dispositions]
    BY DEF ClInit, Dispositions, Handled
<1>4. /\ lpc = "enter" /\ session_sock = "none" /\ code = -1
      /\ user_stop = FALSE /\ disp \in Dispositions \ Handled
      /\ prog \in {"socks", "oidc_socks", "oidc_tun"}
    BY SMTT(60), Z3T(60) DEF ClInit, Dispositions, Handled
<1> QED
    BY <1>1, <1>2, <1>3, <1>4, Zenon DEF LoopInv, Places, Bare

\* Every step of the loop and every Ctrl-C keeps the socket's owner, the
\* handler and the meaning of the exit code.
LEMMA LoopStepKeeps == LoopInv /\ [ClNext]_clVars => LoopInv'
<1> SUFFICES ASSUME LoopInv, [ClNext]_clVars
             PROVE  LoopInv'
    OBVIOUS
<1> USE DEF LoopInv, LoopOwns, Places, Bare, Handled, Dispositions
<1>1. CASE Prepare
    BY <1>1 DEF Prepare, Leaves
<1>2. CASE EnterLoop
    BY <1>2 DEF EnterLoop, Install
<1>3. CASE AuthStep
    BY <1>3 DEF AuthStep, Leaves
<1>4. CASE Backoff
    BY <1>4 DEF Backoff, BackoffEnds, Leaves
<1>5. CASE BadAddress
    BY <1>5 DEF BadAddress, PortClose, Returns, Leaves
<1>6. CASE RunSocks
    BY <1>6 DEF RunSocks, PortClose, Returns
<1>7. CASE SocksEnds
    BY <1>7 DEF SocksEnds, PortClose, Returns
<1>8. CASE RunPump
    BY <1>8 DEF RunPump, Returns
<1>9. CASE RunPumpEnds
    BY <1>9 DEF RunPumpEnds, Returns
<1>10. CASE Judge
  <2>1. /\ session_sock' = "none"
        /\ UNCHANGED <<prog, disp, old_sa, user_stop, res>>
      BY <1>10 DEF Judge, CallerCloses, PortClose
  <2>2. sess' \in [rc : {-1, 0, 1}, reconnecting : BOOLEAN, ran : BOOLEAN,
                   saw_fail : BOOLEAN]
      BY <1>10, Zenon DEF Judge
  <2>3. \/ lpc' = "end" /\ user_stop /\ code' = code
        \/ lpc' = "exited" /\ code' = 1
        \/ lpc' = "wait" /\ code' = code
      BY <1>10 DEF Judge, Leaves
  <2>4. code = -1 /\ disp \in Handled
      BY <1>10 DEF Judge
  <2> QED
      BY <2>1, <2>2, <2>3, <2>4
<1>11. CASE WaitStep
    BY <1>11 DEF WaitStep
<1>12. CASE EndLoop
    BY <1>12 DEF EndLoop
<1>13. CASE Teardown
    BY <1>13 DEF Teardown, Leaves
<1>14. CASE CtrlC
  <2>1. CASE disp \in Handled
      <3>1. user_stop' = TRUE /\ lpc' = lpc /\ code' = code
          BY <1>14, <2>1 DEF CtrlC
      <3>2. UNCHANGED <<prog, disp, old_sa, session_sock, sess, res>>
          BY <1>14 DEF CtrlC
      <3> QED
          BY <3>1, <3>2
  <2>2. CASE disp \notin Handled
      <3>1. lpc' = "exited" /\ code' = 130 /\ user_stop' = user_stop
          BY <1>14, <2>2 DEF CtrlC, Leaves
      <3>2. UNCHANGED <<prog, disp, old_sa, session_sock, sess, res>>
          BY <1>14 DEF CtrlC
      <3> QED
          BY <3>1, <3>2
  <2> QED
      BY <2>1, <2>2
<1>15. CASE UNCHANGED clVars
    BY <1>15 DEF clVars
<1> QED
    BY <1>1, <1>2, <1>3, <1>4, <1>5, <1>6, <1>7, <1>8, <1>9, <1>10, <1>11,
       <1>12, <1>13, <1>14, <1>15 DEF ClNext, ClStep

\* However many sessions cmd_socks or oidc_connect_server starts, and whenever
\* the user presses Ctrl-C: the socket is closed exactly once per session, the
\* signal meets a handler wherever the loop authenticates, runs or sleeps, and
\* exit code 0 means the user's stop with the device and the side-car gone.
THEOREM LoopsOwnTheirSocket == ClSpec => []LoopOwns
<1>1. LoopInv => LoopOwns
    BY DEF LoopInv
<1> QED
    BY LoopInitially, LoopStepKeeps, <1>1, PTL DEF ClSpec

-----------------------------------------------------------------------------
\* The datagrams of a handshake.
Datagram == [type : {"OPEN", "ACK", "REJECT"}, nonce : Nonces,
             port : AuthPorts, tok : Tokens \cup {0}]

\* The state of a client.
Client == [pc : {"idle", "send", "recv", "up", "gone"}, i : Nat,
           port : AuthPorts \cup {0}, nonce : Nonces \cup {0},
           tok : Tokens \cup {0}, for : Nonces \cup {0}]

\* An attempt under way has a socket and a nonce, a client at rest has none, and
\* a session that is up was opened for its attempt.
ClientOK(c) ==
    /\ c \in Client
    /\ c.pc \in {"send", "recv"} => c.port \in AuthPorts /\ c.nonce \in Nonces
    /\ c.pc = "idle" => c.nonce = 0 /\ c.for = 0
    /\ c.pc = "up" => c.for = c.nonce /\ c.tok # 0

\* An ACK in flight carries a token no other one carries, and at most MaxNet
\* datagrams are in flight, which is why fresh nonces and tokens exist.
NetOK(M) ==
    /\ M \subseteq Datagram
    /\ IsFiniteSet(M) /\ Cardinality(M) <= MaxNet
    /\ \A m \in M : m.type = "ACK" => m.tok # 0
    /\ \A m, n \in M : m.type = "ACK" /\ n.type = "ACK" /\ m.tok = n.tok => m = n

\* The strengthening of AdoptsOwn.
AuthInv == ClientOK(cl) /\ NetOK(net)

-----------------------------------------------------------------------------
\* Among n + 1 numbers one is not in a set of at most n.
LEMMA SomethingLeft ==
    ASSUME NEW n \in Nat, NEW X, IsFiniteSet(X), Cardinality(X) <= n
    PROVE  \E k \in 1..(n + 1) : k \notin X
<1> SUFFICES ASSUME 1..(n + 1) \subseteq X PROVE FALSE
    OBVIOUS
<1>1. Cardinality(1..(n + 1)) = n + 1
    BY FS_Interval
<1>2. Cardinality(1..(n + 1)) <= Cardinality(X)
    BY FS_Subset
<1>3. Cardinality(X) \in Nat
    BY FS_CardinalityType
<1> QED
    BY <1>1, <1>2, <1>3

\* Two more values besides those of a field leave a set of n + 2 at most.
LEMMA TwoMore ==
    ASSUME NEW n \in Nat, NEW X, IsFiniteSet(X), Cardinality(X) <= n, NEW a, NEW b
    PROVE  /\ IsFiniteSet({a, b} \cup X)
           /\ Cardinality({a, b} \cup X) <= n + 2
           /\ a = b => Cardinality({a, b} \cup X) <= n + 1
<1> DEFINE Y == X \cup {a}
           Z == Y \cup {b}
<1>0. Cardinality(X) \in Nat
    BY FS_CardinalityType
<1>1. IsFiniteSet(Y) /\ Cardinality(Y) \in {Cardinality(X), Cardinality(X) + 1}
    BY FS_AddElement
<1>2. IsFiniteSet(Z) /\ Cardinality(Z) \in {Cardinality(Y), Cardinality(Y) + 1}
  <2> HIDE DEF Y
  <2> QED
      BY <1>1, FS_AddElement
<1>3. Z = {a, b} \cup X /\ (a = b => Z = Y)
    OBVIOUS
<1> HIDE DEF Y, Z
<1>4. Cardinality(Y) \in Nat /\ Cardinality(Y) <= n + 1
    BY <1>0, <1>1
<1>5. Cardinality(Z) <= n + 2
    BY <1>2, <1>4
<1> QED
    BY <1>2, <1>3, <1>4, <1>5, Zenon

\* The tokens in flight are no more than the datagrams.
LEMMA FewTokens ==
    ASSUME IsFiniteSet(net), Cardinality(net) <= MaxNet
    PROVE  LET T == {m.tok : m \in net} IN IsFiniteSet(T) /\ Cardinality(T) <= MaxNet
<1> DEFINE T == {m.tok : m \in net}
           f == [m \in net |-> m.tok]
<1>1. f \in Surjection(net, T)
    BY DEF Surjection
<1>2. IsFiniteSet(T) /\ Cardinality(T) <= Cardinality(net)
    BY <1>1, FS_Surjection
<1> QED
    BY <1>2, FS_CardinalityType, AuthAssumption

\* The nonces in flight are no more than the datagrams.
LEMMA FewNonces ==
    ASSUME IsFiniteSet(net), Cardinality(net) <= MaxNet
    PROVE  LET T == {m.nonce : m \in net} IN IsFiniteSet(T) /\ Cardinality(T) <= MaxNet
<1> DEFINE T == {m.nonce : m \in net}
           f == [m \in net |-> m.nonce]
<1>1. f \in Surjection(net, T)
    BY DEF Surjection
<1>2. IsFiniteSet(T) /\ Cardinality(T) <= Cardinality(net)
    BY <1>1, FS_Surjection
<1> QED
    BY <1>2, FS_CardinalityType, AuthAssumption

\* handle_open's token is one that no datagram in flight carries.
LEMMA TokenIsFresh ==
    ASSUME AuthInv
    PROVE  FreshToken \in Tokens /\ \A m \in net : m.tok # FreshToken
<1> DEFINE X == {cl.tok, sv.tok} \cup {m.tok : m \in net}
<1>1. IsFiniteSet(X) /\ Cardinality(X) <= MaxNet + 2
    BY FewTokens, TwoMore, AuthAssumption, Zenon DEF AuthInv, ClientOK, NetOK
<1>2. \E t \in Tokens : t \notin X
    BY <1>1, SomethingLeft, AuthAssumption DEF Tokens
<1>3. FreshToken \in Tokens /\ FreshToken \notin X
    BY <1>2 DEF FreshToken
<1> QED
    BY <1>3

\* do_auth's nonce exists.
LEMMA NonceIsFresh ==
    ASSUME AuthInv, cl.pc = "idle"
    PROVE  FreshNonce \in Nonces
<1> DEFINE X == {cl.nonce, cl.for} \cup {m.nonce : m \in net}
<1>1. IsFiniteSet(X) /\ Cardinality(X) <= MaxNet + 1
    BY FewNonces, TwoMore, AuthAssumption, Zenon DEF AuthInv, ClientOK, NetOK
<1>2. \E t \in Nonces : t \notin X
  <2> HIDE DEF X
  <2>1. MaxNet + 1 \in Nat /\ Nonces = 1..((MaxNet + 1) + 1)
      BY AuthAssumption DEF Nonces
  <2> QED
      BY <1>1, <2>1, SomethingLeft
<1> QED
    BY <1>2 DEF FreshNonce

\* What the network holds stays within its bound when a datagram is sent,
\* delivered or lost.
LEMMA NetBounded ==
    ASSUME AuthInv, NEW m, NEW M \in SUBSET (net \cup {m}),
           M \subseteq net \/ Cardinality(M) <= MaxNet
    PROVE  IsFiniteSet(M) /\ Cardinality(M) <= MaxNet
<1>1. IsFiniteSet(net \cup {m})
    BY FS_AddElement DEF AuthInv, ClientOK, NetOK
<1>2. IsFiniteSet(M)
    BY <1>1, FS_Subset
<1>3. M \subseteq net => Cardinality(M) <= Cardinality(net)
    BY FS_Subset DEF AuthInv, ClientOK, NetOK
<1>4. Cardinality(M) \in Nat /\ Cardinality(net) \in Nat /\ Cardinality(net) <= MaxNet
    BY <1>2, FS_CardinalityType DEF AuthInv, ClientOK, NetOK
<1> QED
    BY <1>2, <1>3, <1>4, AuthAssumption

\* A client that starts over.
LEMMA StartsOver ==
    ASSUME AuthInv
    PROVE  ClientOK(AuthFails(cl)) /\ ClientOK([AuthFails(cl) EXCEPT !.pc = "gone"])
BY Zenon DEF AuthInv, ClientOK, Client, AuthFails

\* What is left of the network when datagrams are delivered or lost.
LEMMA NetShrinks ==
    ASSUME AuthInv, NEW M \in SUBSET net
    PROVE  NetOK(M)
<1>1. IsFiniteSet(M) /\ Cardinality(M) <= MaxNet
    BY NetBounded
<1> QED
    BY <1>1 DEF AuthInv, NetOK

\* A datagram joins the network: an OPEN, a REJECT, or an ACK with a token no
\* datagram in flight carries.
LEMMA NetGrows ==
    ASSUME AuthInv, NEW m \in Datagram, NEW M \in SUBSET (net \cup {m}),
           M \subseteq net \/ Cardinality(M) <= MaxNet,
           m.type = "ACK" => m.tok # 0 /\ \A n \in net : n.tok # m.tok
    PROVE  NetOK(M)
<1>1. IsFiniteSet(M) /\ Cardinality(M) <= MaxNet
    BY NetBounded
<1> QED
    BY <1>1 DEF AuthInv, NetOK

\* Nothing is in flight at the start.
LEMMA AuthInitially == CaInit => AuthInv
<1> SUFFICES ASSUME CaInit PROVE AuthInv
    OBVIOUS
<1>1. IsFiniteSet(net) /\ Cardinality(net) <= MaxNet /\ net = {}
    BY FS_EmptySet, AuthAssumption DEF CaInit
<1>2. ClientOK(cl)
    BY DEF CaInit, ClientOK, Client
<1> QED
    BY <1>1, <1>2 DEF AuthInv, NetOK

\* handle_open's answers: what stays in flight is within the bound, and the
\* answer is the only datagram that is new.
LEMMA AnswersGrow ==
    ASSUME AuthInv, NEW m \in net, NEW a \in Datagram, Answers(m, a),
           a.type = "ACK" => a.tok # 0 /\ \A n \in net : n.tok # a.tok
    PROVE  NetOK(net')
<1>1. PICK d \in Delivered(m) :
        net' \in {d.net} \cup (IF Cardinality(d.net \cup {a}) <= MaxNet
                                 THEN {d.net \cup {a}} ELSE {})
    BY SMTT(60) DEF Answers
<1>2. d.net \subseteq net
    BY DEF Delivered
<1>3. net' \in SUBSET (net \cup {a}) /\ (net' \subseteq net \/ Cardinality(net') <= MaxNet)
    BY <1>1, <1>2, Zenon
<1> QED
    BY <1>3, NetGrows

\* Every step of the client, of the server and of the network keeps it.
LEMMA AuthStepKeeps == AuthInv /\ [CaNext]_caVars => AuthInv'
<1> SUFFICES ASSUME AuthInv, [CaNext]_caVars PROVE AuthInv'
    OBVIOUS
<1>a. ClientOK(cl) /\ NetOK(net)
    BY DEF AuthInv
<1> SUFFICES ClientOK(cl') /\ NetOK(net')
    BY DEF AuthInv
<1>1. CASE Attempt
  <2>1. FreshNonce \in Nonces
      BY <1>1, NonceIsFresh DEF Attempt
  <2>2. PICK p \in AuthPorts :
          cl' = [cl EXCEPT !.pc = "send", !.i = 0, !.port = p, !.nonce = FreshNonce]
      BY <1>1, Zenon DEF Attempt
  <2>3. ClientOK(cl')
      BY <1>a, <2>1, <2>2, Zenon DEF ClientOK, Client
  <2> QED
      BY <1>1, <1>a, <2>3 DEF Attempt
<1>2. CASE AuthSendOpen
  <2>1. Open(cl) \in Datagram /\ Open(cl).type = "OPEN"
      BY <1>2, <1>a DEF AuthSendOpen, Open, Datagram, ClientOK
  <2>2. CASE Sends(Open(cl)) /\ cl' = [cl EXCEPT !.pc = "recv"]
    <3>1. /\ net' \in SUBSET (net \cup {Open(cl)})
          /\ net' \subseteq net \/ Cardinality(net') <= MaxNet
        BY <2>2, Zenon DEF Sends
    <3>2. NetOK(net')
        BY <2>1, <3>1, NetGrows
    <3>3. ClientOK(cl')
        BY <1>2, <1>a, <2>2 DEF AuthSendOpen, ClientOK, Client
    <3> QED
        BY <3>2, <3>3
  <2>3. CASE cl' = AuthFails(cl) /\ UNCHANGED net
      BY <1>a, <2>3, StartsOver
  <2> QED
      BY <1>2, <2>2, <2>3 DEF AuthSendOpen
<1>3. CASE RecvTimeout
  <2>1. net' = net
      BY <1>3 DEF RecvTimeout
  <2>2. CASE cl' = [cl EXCEPT !.pc = "send", !.i = @ + 1]
    <3>1. cl.pc = "recv" /\ cl.i \in Nat /\ cl.i + 1 \in Nat
        BY <1>3, <1>a DEF RecvTimeout, ClientOK, Client
    <3>2. ClientOK(cl')
        BY <1>a, <2>2, <3>1, Zenon DEF ClientOK, Client
    <3> QED
        BY <1>a, <2>1, <3>2
  <2> QED
      BY <1>3, <1>a, <2>1, <2>2, StartsOver DEF RecvTimeout
<1>4. CASE \E m \in net : DatagramDies(m) \/ Discarded(m)
  <2>1. net' \in SUBSET net /\ cl' = cl
      BY <1>4 DEF DatagramDies, Discarded
  <2> QED
      BY <1>a, <2>1, NetShrinks
<1>5. ASSUME NEW m \in net, Reply(m) PROVE ClientOK(cl') /\ NetOK(net')
  <2>1. net' \in SUBSET net
      BY <1>5 DEF Reply, Delivered
  <2>2. m \in Datagram /\ (m.type = "ACK" => m.tok # 0)
      BY <1>a DEF NetOK
  <2>3. CASE ParseAck(m, cl)
    <3>1. /\ cl' = [cl EXCEPT !.pc = "up", !.tok = m.tok, !.for = m.nonce, !.i = 0]
          /\ m.type = "ACK" /\ m.nonce = cl.nonce
        BY <1>5, <2>3 DEF Reply, ParseAck
    <3>2. ClientOK(cl')
        BY <1>a, <2>2, <3>1, Zenon DEF ClientOK, Client, Datagram
    <3> QED
        BY <2>1, <3>2, NetShrinks
  <2>4. CASE ~ParseAck(m, cl)
      BY <1>5, <2>1, <2>4, NetShrinks, StartsOver DEF Reply
  <2> QED
      BY <2>3, <2>4
<1>6. ASSUME NEW m \in net, HandleOpen(m) PROVE ClientOK(cl') /\ NetOK(net')
  <2> DEFINE a == Answer(m, "ACK", FreshToken)
  <2>1. FreshToken \in Tokens /\ \A n \in net : n.tok # FreshToken
      BY TokenIsFresh
  <2>2. FreshToken # 0
      BY <2>1, AuthAssumption DEF Tokens
  <2>3. a \in Datagram /\ a.tok = FreshToken
      BY <1>a, <2>1 DEF Answer, Datagram, NetOK
  <2>4. Answers(m, a) /\ cl' = cl
      BY <1>6 DEF HandleOpen
  <2> HIDE DEF a
  <2> QED
      BY <1>a, <2>1, <2>2, <2>3, <2>4, AnswersGrow
<1>7. ASSUME NEW m \in net, RejectOpen(m) PROVE ClientOK(cl') /\ NetOK(net')
  <2> DEFINE a == Answer(m, "REJECT", 0)
  <2>1. a \in Datagram /\ a.type = "REJECT"
      BY <1>a DEF Answer, Datagram, NetOK
  <2>2. Answers(m, a) /\ cl' = cl
      BY <1>7 DEF RejectOpen
  <2> HIDE DEF a
  <2> QED
      BY <1>a, <2>1, <2>2, AnswersGrow
<1>8. CASE SessionEnds \/ StaleWatchdog \/ Vanishes
    BY <1>8, <1>a, StartsOver DEF SessionEnds, StaleWatchdog, Vanishes
<1>9. CASE Purge \/ UNCHANGED caVars
    BY <1>9, <1>a DEF Purge, caVars
<1> QED
    BY <1>1, <1>2, <1>3, <1>4, <1>5, <1>6, <1>7, <1>8, <1>9, SMTT(60) DEF CaNext

\* However many datagrams are lost, delayed, reordered or duplicated, however
\* often the server restarts and whatever port the client's next socket gets:
\* a session parse_ack takes is one the server opened for this attempt, and two
\* ACKs in flight never carry the same token.
THEOREM ClientAdoptsOwnSession == CaSpec => []AdoptsOwn
<1>1. AuthInv => AdoptsOwn
    BY DEF AuthInv, ClientOK, NetOK, AdoptsOwn
<1> QED
    BY AuthInitially, AuthStepKeeps, <1>1, PTL DEF CaSpec

-----------------------------------------------------------------------------
(* Minima: the table scans choose a least element, which exists.           *)

\* A nonempty set of naturals has a least element.
LEMMA LeastNat ==
  ASSUME NEW T, T \subseteq Nat, T # {}
  PROVE  \E x \in T : \A y \in T : x <= y
<1> DEFINE Below == {0..x : x \in T}
<1>1. Below \subseteq FiniteSubsetsOf(Nat) /\ Below # {}
  <2>1. ASSUME NEW x \in T PROVE 0..x \in FiniteSubsetsOf(Nat)
    <3>1. IsFiniteSet(0..x)
      BY FS_Interval
    <3>2. 0..x \in SUBSET Nat
      OBVIOUS
    <3> QED
      BY <3>1, <3>2, Zenon DEF FiniteSubsetsOf
  <2> QED
    BY <2>1, Zenon
<1>2. PICK B \in Below : \A C \in Below : <<C, B>> \notin StrictSubsetOrdering(Nat)
  BY <1>1, FS_StrictSubsetOrderingWellFounded, WFMin, Zenon
<1>3. PICK x \in T : B = 0..x
  OBVIOUS
<1>4. ASSUME NEW y \in T PROVE x <= y
  <2>1. 0..y \in Below
    OBVIOUS
  <2>2. ~(0..y \subseteq 0..x /\ 0..y # 0..x)
    <3>1. <<0..y, 0..x>> \notin StrictSubsetOrdering(Nat)
      BY <1>2, <1>3, <2>1, Zenon
    <3>2. 0..y \in SUBSET Nat /\ 0..x \in SUBSET Nat
      OBVIOUS
    <3> QED
      BY <3>1, <3>2 DEF StrictSubsetOrdering
  <2>3. y < x => 0..y \subseteq 0..x /\ x \in 0..x /\ x \notin 0..y
    OBVIOUS
  <2> QED
    BY <2>2, <2>3
<1> QED
  BY <1>4

\* The scan for the first record with the least first_fail_ms stays in S.
LEMMA EarliestIn ==
  ASSUME NEW t \in [Slots -> Rec], NEW S \in SUBSET Slots, S # {}
  PROVE  Earliest(t, S) \in S
<1> DEFINE FF == {t[i].first_fail_ms : i \in S}
<1>1. FF \subseteq Nat /\ FF # {}
  BY DEF Rec
<1>2. PICK m \in FF : \A y \in FF : m <= y
  BY <1>1, LeastNat, Zenon
<1> DEFINE M == {i \in S : t[i].first_fail_ms = m}
<1>3. M \subseteq Nat /\ M # {}
  <2>1. M # {}
    BY <1>2
  <2>2. ASSUME NEW i \in M PROVE i \in Nat
    BY LockoutAssumption DEF Slots
  <2> QED
    BY <2>1, <2>2
<1>4. PICK i \in M : \A j \in M : i <= j
  BY <1>3, LeastNat, Zenon
<1>5. \A j \in S : \/ t[i].first_fail_ms < t[j].first_fail_ms
                   \/ t[i].first_fail_ms = t[j].first_fail_ms /\ i <= j
  <2> SUFFICES ASSUME NEW j \in S
               PROVE \/ t[i].first_fail_ms < t[j].first_fail_ms
                     \/ t[i].first_fail_ms = t[j].first_fail_ms /\ i <= j
    OBVIOUS
  <2>1. t[i].first_fail_ms = m /\ m <= t[j].first_fail_ms
    BY <1>2
  <2>2. m \in Nat /\ t[j].first_fail_ms \in Nat
    BY <1>1
  <2>3. t[j].first_fail_ms = m => i <= j
    BY <1>4
  <2> QED
    BY <2>1, <2>2, <2>3, SMTT(60)
<1> QED
  BY <1>5 DEF Earliest

\* The scan that keeps replacing its candidate by an empty slot ends on one.
LEMMA LastEmpty ==
  ASSUME NEW S \in SUBSET Slots, S # {}
  PROVE  (CHOOSE i \in S : \A j \in S : j <= i) \in S
<1> DEFINE T == {N - i : i \in S}
<1>1. T \subseteq Nat /\ T # {}
  <2>1. ASSUME NEW i \in S PROVE N - i \in Nat
    BY LockoutAssumption DEF Slots
  <2> QED
    BY <2>1
<1>2. PICK x \in T : \A y \in T : x <= y
  BY <1>1, LeastNat, Zenon
<1>3. PICK i \in S : x = N - i
  OBVIOUS
<1>4. \A j \in S : j <= i
  BY <1>2, <1>3, LockoutAssumption, SMTT(60) DEF Slots
<1> QED
  BY <1>4

-----------------------------------------------------------------------------
(* The table under lockout_note.                                           *)

\* The table part of IndInv.
TableInv(t) ==
  /\ t \in [Slots -> Rec]
  /\ \A i, j \in Slots : t[i].in_use /\ t[j].in_use /\ t[i].key = t[j].key => i = j
  /\ \A i \in Slots : t[i].in_use /\ t[i].fail >= MaxFails
                        => t[i].blocked_until_ms > t[i].first_fail_ms
  /\ \A i \in Slots : IF t[i].in_use THEN t[i].key \in Keys /\ t[i].fail >= 1
                      ELSE t[i] = EmptyRec

\* A record that a failure of k may leave behind.
Good(r, k) ==
  /\ r \in Rec /\ r.in_use /\ r.key = k /\ r.fail >= 1
  /\ r.fail >= MaxFails => r.blocked_until_ms > r.first_fail_ms

\* The scan ends on a slot, and on a live ban only if every slot is in use and
\* banned.
LEMMA VictimLast ==
  ASSUME NEW t, TableInv(t), NEW now \in Nat
  PROVE  /\ Victim(t, now) \in Slots
         /\ t[Victim(t, now)].blocked_until_ms > now
              => \A i \in Slots : t[i].in_use /\ t[i].blocked_until_ms > now
<1>1. t \in [Slots -> Rec] /\ Slots # {}
  <2>1. 1 \in Slots
    BY LockoutAssumption, SMTT(60) DEF Slots
  <2> QED
    BY <2>1 DEF TableInv
<1>2. CASE Empty(t) # {}
  <2>1. Victim(t, now) \in Empty(t)
    BY <1>2, LastEmpty, Zenon DEF Victim, Empty
  <2>2. Victim(t, now) \in Slots /\ t[Victim(t, now)] = EmptyRec
    BY <2>1 DEF Empty, TableInv
  <2> QED
    BY <2>2 DEF EmptyRec
<1>3. CASE Empty(t) = {} /\ NotBlocked(t, now) # {}
  <2>1. Victim(t, now) \in NotBlocked(t, now)
    BY <1>1, <1>3, EarliestIn, SMTT(60) DEF Victim, NotBlocked
  <2> QED
    BY <2>1, <1>1 DEF NotBlocked, Rec
<1>4. CASE Empty(t) = {} /\ NotBlocked(t, now) = {}
  <2>1. Victim(t, now) \in Slots
    BY <1>1, <1>4, EarliestIn DEF Victim
  <2>2. \A i \in Slots : t[i].in_use /\ t[i].blocked_until_ms > now
    BY <1>1, <1>4, SMTT(60) DEF Empty, NotBlocked, Rec
  <2> QED
    BY <2>1, <2>2
<1> QED
  BY <1>2, <1>3, <1>4, SMTT(60)

\* A fresh record is good.
LEMMA FreshGood ==
  ASSUME NEW k \in Keys, NEW now \in Nat
  PROVE  Good(Fresh(k, now), k)
BY LockoutAssumption, SMTT(60) DEF Good, Fresh, Rec

\* A failure leaves the source's own record good, and a ban that runs at a
\* time c not before the reading runs on unless the reading is a window old.
LEMMA AfterFailureGood ==
  ASSUME NEW r, NEW k \in Keys, Good(r, k), NEW now \in Nat
  PROVE  /\ Good(AfterFailure(r, k, now), k)
         /\ \A c \in Nat : now <= c /\ r.blocked_until_ms > c /\ now + Window > c
              => AfterFailure(r, k, now).blocked_until_ms > c
<1> DEFINE q == AfterFailure(r, k, now)
<1>1. r \in Rec /\ r.in_use /\ r.key = k /\ r.fail \in Nat /\ r.first_fail_ms \in Nat
      /\ r.blocked_until_ms \in Nat /\ r.fail >= 1
      /\ (r.fail >= MaxFails => r.blocked_until_ms > r.first_fail_ms)
  BY SMTT(60) DEF Good, Rec
<1>2. CASE ~AgedOut(r, now)
  <2>1. q = Counted(r, now)
    BY <1>2 DEF AfterFailure
  <2>2. /\ q \in Rec /\ q.in_use /\ q.key = k /\ q.fail = r.fail + 1
        /\ q.first_fail_ms = r.first_fail_ms
        /\ q.blocked_until_ms = IF r.fail + 1 >= MaxFails THEN now + Window
                                ELSE r.blocked_until_ms
    <3> DEFINE b == IF r.fail + 1 >= MaxFails THEN now + Window ELSE r.blocked_until_ms
    <3>1. b \in Nat /\ r.fail + 1 \in Nat
      BY <1>1, LockoutAssumption
    <3>2. q = [r EXCEPT !.fail = r.fail + 1, !.blocked_until_ms = b]
      BY <2>1 DEF Counted
    <3> HIDE DEF q, b
    <3>3. /\ q \in Rec /\ q.in_use /\ q.key = k /\ q.fail = r.fail + 1
          /\ q.first_fail_ms = r.first_fail_ms /\ q.blocked_until_ms = b
      BY <3>1, <3>2, <1>1, Zenon DEF Rec
    <3> QED
      BY <3>3 DEF b
  <2>3. now >= r.first_fail_ms
    BY <1>2, <1>1, SMTT(60) DEF AgedOut
  <2> HIDE DEF q
  <2>4. Good(q, k)
    BY <2>2, <2>3, <1>1, LockoutAssumption, SMTT(60) DEF Good
  <2> QED
    BY <2>2, <2>4, <1>1, LockoutAssumption DEF q
<1>3. CASE AgedOut(r, now) /\ r.blocked_until_ms > now
  <2>1. q = [r EXCEPT !.fail = 1, !.first_fail_ms = now]
    BY <1>3 DEF AfterFailure
  <2>2. /\ q \in Rec /\ q.in_use /\ q.key = k /\ q.fail = 1
        /\ q.first_fail_ms = now /\ q.blocked_until_ms = r.blocked_until_ms
    <3> HIDE DEF q
    <3> QED
      BY <2>1, <1>1, Zenon DEF Rec
  <2> QED
    BY <2>2, <1>3, <1>1 DEF Good
<1>4. CASE AgedOut(r, now) /\ ~(r.blocked_until_ms > now)
  BY <1>4, <1>1, FreshGood DEF AfterFailure
<1> QED
  BY <1>2, <1>3, <1>4, SMTT(60)

\* Record r in slot e is what a failure of k read at `now' leaves of table t.
Writes(t, k, now, e, r) ==
  /\ NoteFailure(t, k, now) = [t EXCEPT ![e] = r]
  /\ Good(r, k)
  /\ \A i \in Slots : t[i].in_use /\ t[i].key = k => i = e
  /\ \/ /\ t[e].in_use /\ t[e].key = k
        /\ \A c \in Nat :
             now <= c /\ t[e].blocked_until_ms > c /\ now + Window > c
               => r.blocked_until_ms > c
     \/ /\ ~(t[e].in_use /\ t[e].key = k)
        /\ t[e].blocked_until_ms > now
             => \A i \in Slots : t[i].in_use /\ t[i].blocked_until_ms > now

\* The whole of lockout_note(success = false).
LEMMA FailureEffect ==
  ASSUME NEW t, TableInv(t), NEW k \in Keys, NEW now \in Nat
  PROVE  \E e \in Slots, r \in Rec : Writes(t, k, now, e, r)
<1>1. CASE Match(t, k) = {}
  <2> DEFINE e == Victim(t, now)
  <2> DEFINE r == Fresh(k, now)
  <2>1. NoteFailure(t, k, now) = [t EXCEPT ![e] = r]
    BY <1>1, SMTT(60) DEF NoteFailure
  <2>2. e \in Slots /\ (t[e].blocked_until_ms > now
                          => \A i \in Slots : t[i].in_use /\ t[i].blocked_until_ms > now)
    BY VictimLast
  <2>3. Good(r, k) /\ r \in Rec
    BY FreshGood DEF Good
  <2>4. \A i \in Slots : ~(t[i].in_use /\ t[i].key = k)
    BY <1>1 DEF Match
  <2> HIDE DEF e, r
  <2> QED
    BY <2>1, <2>2, <2>3, <2>4, Zenon DEF Writes
<1>2. CASE Match(t, k) # {}
  <2>1. PICK e \in Slots : e \in Match(t, k)
    BY <1>2 DEF Match
  <2>2. \A i \in Slots : t[i].in_use /\ t[i].key = k => i = e
    BY <2>1 DEF Match, TableInv
  <2>3. (CHOOSE i \in Match(t, k) : \A j \in Match(t, k) : i <= j) = e
    <3>1. Match(t, k) = {e}
      BY <2>1, <2>2 DEF Match
    <3>2. e <= e
      BY LockoutAssumption DEF Slots
    <3> QED
      BY <3>1, <3>2, SMTT(60)
  <2> DEFINE r == AfterFailure(t[e], k, now)
  <2>4. NoteFailure(t, k, now) = [t EXCEPT ![e] = r]
    BY <1>2, <2>3, Zenon DEF NoteFailure
  <2>5. Good(t[e], k)
    BY <2>1, SMTT(60) DEF Match, TableInv, Good
  <2>6. /\ Good(r, k)
        /\ \A c \in Nat : now <= c /\ t[e].blocked_until_ms > c /\ now + Window > c
             => r.blocked_until_ms > c
    BY <2>5, AfterFailureGood, SMTT(60)
  <2>7. t[e].in_use /\ t[e].key = k /\ r \in Rec
    BY <2>1, <2>6 DEF Match, Good
  <2> HIDE DEF r
  <2> QED
    BY <2>2, <2>4, <2>6, <2>7, Zenon DEF Writes
<1> QED
  BY <1>1, <1>2

\* Writing a good record of k over the only record k may have.
LEMMA PutKeeps ==
  ASSUME NEW t, TableInv(t), NEW k \in Keys, NEW e \in Slots, NEW r, Good(r, k),
         \A i \in Slots : t[i].in_use /\ t[i].key = k => i = e
  PROVE  TableInv([t EXCEPT ![e] = r])
<1> DEFINE u == [t EXCEPT ![e] = r]
<1>1. u \in [Slots -> Rec] /\ u[e] = r /\ \A i \in Slots : i # e => u[i] = t[i]
  BY SMTT(60) DEF TableInv, Good
<1> HIDE DEF u
<1>2. \A i, j \in Slots : u[i].in_use /\ u[j].in_use /\ u[i].key = u[j].key => i = j
  BY <1>1, SMTT(60) DEF TableInv, Good
<1>3. \A i \in Slots : u[i].in_use /\ u[i].fail >= MaxFails
                         => u[i].blocked_until_ms > u[i].first_fail_ms
  BY <1>1, SMTT(60) DEF TableInv, Good
<1>4. \A i \in Slots : IF u[i].in_use THEN u[i].key \in Keys /\ u[i].fail >= 1
                       ELSE u[i] = EmptyRec
  BY <1>1, SMTT(60) DEF TableInv, Good
<1>5. TableInv(u)
  BY <1>1, <1>2, <1>3, <1>4, SMTT(60) DEF TableInv
<1> QED
  BY <1>5 DEF u

\* lockout_note(success = true) wipes at most the source's record.
LEMMA SuccessEffect ==
  ASSUME NEW t, TableInv(t), NEW k \in Keys
  PROVE  /\ TableInv(NoteSuccess(t, k))
         /\ \A i \in Slots : ~(t[i].in_use /\ t[i].key = k)
                              => NoteSuccess(t, k)[i] = t[i]
<1>1. CASE Match(t, k) = {}
  BY <1>1, SMTT(60) DEF NoteSuccess
<1>2. CASE Match(t, k) # {}
  <2> DEFINE e == CHOOSE i \in Match(t, k) : \A j \in Match(t, k) : i <= j
  <2>1. Match(t, k) \subseteq Nat
    BY LockoutAssumption DEF Match, Slots
  <2>2. e \in Match(t, k)
    <3>1. \E i \in Match(t, k) : \A j \in Match(t, k) : i <= j
      BY <1>2, <2>1, LeastNat
    <3> QED
      BY <3>1
  <2>3. NoteSuccess(t, k) = [t EXCEPT ![e] = EmptyRec]
    BY <1>2, SMTT(60) DEF NoteSuccess
  <2>4. e \in Slots /\ t[e].in_use /\ t[e].key = k
    BY <2>2 DEF Match
  <2> HIDE DEF e
  <2> DEFINE u == NoteSuccess(t, k)
  <2>5. EmptyRec \in Rec /\ ~EmptyRec.in_use
    BY DEF EmptyRec, Rec
  <2>6. u \in [Slots -> Rec] /\ u[e] = EmptyRec /\ \A i \in Slots : i # e => u[i] = t[i]
    BY <2>3, <2>4, <2>5, SMTT(60) DEF TableInv
  <2> HIDE DEF u
  <2>7. TableInv(u)
    BY <2>5, <2>6, SMTT(60) DEF TableInv
  <2> QED
    BY <2>4, <2>6, <2>7 DEF u
<1> QED
  BY <1>1, <1>2

-----------------------------------------------------------------------------
(* The invariant.                                                          *)

\* The thread part of IndInv.
ThreadInv ==
  /\ clock \in Time
  /\ accept \in AcceptState
  /\ conn \in [Conns -> ConnState]
  /\ SamplesBehind

\* IndInv is the table part and the thread part.
LEMMA Parts == IndInv <=> TableInv(tbl) /\ ThreadInv
BY DEF IndInv, TableInv, ThreadInv, TypeOK, OneRecordPerKey, CountImpliesBan

\* The empty table and idle threads.
LEMMA InitInv == Init => IndInv
<1> SUFFICES ASSUME Init PROVE TableInv(tbl) /\ ThreadInv
  BY Parts
<1>1. EmptyRec \in Rec /\ ~EmptyRec.in_use
  BY DEF EmptyRec, Rec
<1>2. TableInv(tbl)
  BY <1>1, SMTT(60) DEF Init, TableInv
<1>3. ThreadInv
  <2>1. Idle \in ConnState /\ NotChecking \in AcceptState
    BY LockoutAssumption, SMTT(60) DEF Idle, NotChecking, ConnState, AcceptState, Time
  <2>2. Idle.now = 0 /\ Idle.at = "idle" /\ NotChecking.now = 0 /\ NotChecking.at = "idle"
    BY DEF Idle, NotChecking
  <2> QED
    BY <2>1, <2>2, LockoutAssumption, SMTT(60) DEF Init, ThreadInv, SamplesBehind, Time
<1> QED
  BY <1>2, <1>3

\* What a note writes keeps the table invariant.
LEMMA NoteKeepsTable ==
  ASSUME IndInv, NEW c \in Conns, Note(c)
  PROVE  TableInv(tbl')
<1>1. TableInv(tbl) /\ ThreadInv
  BY Parts, SMTT(60)
<1>2. conn[c].key \in Keys /\ conn[c].now \in Nat
  BY <1>1, LockoutAssumption, SMTT(60) DEF ThreadInv, SamplesBehind, Note, ConnState, Time
<1>3. CASE conn[c].success
  BY <1>1, <1>2, <1>3, SuccessEffect, SMTT(60) DEF Note
<1>4. CASE ~conn[c].success
  <2>1. tbl' = NoteFailure(tbl, conn[c].key, conn[c].now)
    BY <1>4, SMTT(60) DEF Note
  <2>2. PICK e \in Slots, r \in Rec : Writes(tbl, conn[c].key, conn[c].now, e, r)
    BY <1>1, <1>2, FailureEffect, SMTT(60)
  <2>3. TableInv([tbl EXCEPT ![e] = r])
    <3> DEFINE k == conn[c].key
    <3>1. k \in Keys /\ Good(r, k) /\ \A i \in Slots : tbl[i].in_use /\ tbl[i].key = k => i = e
      BY <1>2, <2>2, SMTT(60) DEF Writes
    <3> HIDE DEF k
    <3> QED
      BY <3>1, <1>1, PutKeeps, SMTT(60)
  <2> QED
    BY <2>1, <2>2, <2>3, SMTT(60) DEF Writes
<1> QED
  BY <1>3, <1>4

\* One connection thread and the accept thread move; both hold a reading that
\* is not ahead of the clock and, unless idle, a source.
LEMMA ThreadsMove ==
  ASSUME ThreadInv, clock' = clock, accept' \in AcceptState, accept'.now <= clock,
         accept'.at # "idle" => accept'.key \in Keys,
         NEW c \in Conns, NEW q \in ConnState, q.now <= clock,
         q.at # "idle" => q.key \in Keys,
         conn' = [conn EXCEPT ![c] = q]
  PROVE  ThreadInv'
BY SMTT(60) DEF ThreadInv, SamplesBehind

\* What an idle thread holds.
LEMMA IdleThreads ==
  ASSUME clock \in Time
  PROVE  /\ Idle \in ConnState /\ Idle.now <= clock /\ Idle.at = "idle"
         /\ NotChecking \in AcceptState /\ NotChecking.now <= clock
         /\ NotChecking.at = "idle"
BY LockoutAssumption, SMTT(60) DEF Idle, NotChecking, ConnState, AcceptState, Time

\* Every step keeps the thread part.
LEMMA ThreadStep ==
  ASSUME ThreadInv, [Next]_vars
  PROVE  ThreadInv'
<1>t. clock \in Time /\ clock \in Nat /\ clock <= clock
  BY LockoutAssumption, SMTT(60) DEF ThreadInv, Time
<1>i. /\ Idle \in ConnState /\ Idle.now <= clock /\ Idle.at = "idle"
      /\ NotChecking \in AcceptState /\ NotChecking.now <= clock
      /\ NotChecking.at = "idle"
  BY <1>t, IdleThreads, SMTT(60)
<1>a. accept \in AcceptState /\ accept.now <= clock /\ (accept.at # "idle" => accept.key \in Keys)
  BY SMTT(60) DEF ThreadInv, SamplesBehind
<1>1. ASSUME NEW k \in Keys, AcceptSample(k) PROVE ThreadInv'
  <2>1. accept' \in AcceptState /\ accept'.now <= clock /\ accept'.key \in Keys
    BY <1>1, <1>t, SMTT(60) DEF AcceptSample, AcceptState
  <2> QED
    BY <1>1, <1>t, <2>1, SMTT(60) DEF AcceptSample, ThreadInv, SamplesBehind
<1>2. CASE AcceptBlocked \/ AcceptShed
  BY <1>2, <1>i DEF AcceptBlocked, AcceptShed, ThreadInv, SamplesBehind
<1>3. ASSUME NEW c \in Conns, AcceptAdmit(c) PROVE ThreadInv'
  <2> DEFINE q == [at |-> "handshake", key |-> accept.key, now |-> 0, success |-> FALSE]
  <2>1. accept.key \in Keys /\ conn' = [conn EXCEPT ![c] = q] /\ clock' = clock
        /\ accept' = NotChecking
    BY <1>3, <1>a, SMTT(60) DEF AcceptAdmit
  <2>2. q \in ConnState /\ q.now <= clock /\ q.key \in Keys
    BY <2>1, <1>t, LockoutAssumption DEF ConnState, Time
  <2> HIDE DEF q
  <2> QED
    BY <2>1, <2>2, <1>i, ThreadsMove, ZenonT(60)
<1>4. ASSUME NEW c \in Conns, NEW ok \in BOOLEAN, NoteSample(c, ok) PROVE ThreadInv'
  <2> DEFINE q == [at |-> "note", key |-> conn[c].key, now |-> clock, success |-> ok]
  <2>1. conn[c].key \in Keys /\ conn' = [conn EXCEPT ![c] = q] /\ clock' = clock
        /\ accept' = accept
    BY <1>4, SMTT(60) DEF NoteSample, ThreadInv, SamplesBehind
  <2>2. q \in ConnState /\ q.now <= clock /\ q.key \in Keys
    BY <2>1, <1>t DEF ConnState
  <2> HIDE DEF q
  <2> QED
    BY <2>1, <2>2, <1>a, ThreadsMove, ZenonT(60)
<1>5. ASSUME NEW c \in Conns, Abandon(c) \/ Note(c) PROVE ThreadInv'
  <2>1. conn' = [conn EXCEPT ![c] = Idle] /\ clock' = clock /\ accept' = accept
    BY <1>5, SMTT(60) DEF Abandon, Note
  <2> QED
    BY <2>1, <1>i, <1>a, ThreadsMove, ZenonT(60)
<1>6. CASE Tick
  BY <1>6, <1>t, <1>a, LockoutAssumption, SMTT(60)
    DEF Tick, ThreadInv, SamplesBehind, Time, ConnState, AcceptState
<1>7. CASE UNCHANGED vars
  BY <1>7, SMTT(60) DEF vars, ThreadInv, SamplesBehind
<1> QED
  BY <1>1, <1>2, <1>3, <1>4, <1>5, <1>6, <1>7, SMTT(60) DEF Next

\* Only a note writes the table.
LEMMA OnlyNoteWrites ==
  ASSUME [Next]_vars
  PROVE  tbl' = tbl \/ \E c \in Conns : Note(c)
BY DEF Next, vars, AcceptSample, AcceptBlocked, AcceptShed, AcceptAdmit, NoteSample,
       Abandon, Tick

\* IndInv is inductive.
LEMMA StepInv == IndInv /\ [Next]_vars => IndInv'
<1> SUFFICES ASSUME IndInv, [Next]_vars PROVE IndInv'
  OBVIOUS
<1>1. ThreadInv'
  BY Parts, ThreadStep
<1>2. TableInv(tbl')
  BY Parts, OnlyNoteWrites, NoteKeepsTable
<1> QED
  BY <1>1, <1>2 DEF IndInv, TableInv, ThreadInv, TypeOK, OneRecordPerKey, CountImpliesBan

\* The invariant of the lockout table and its threads.
THEOREM LockoutInvariant == Spec => []IndInv
BY InitInv, StepInv, PTL DEF Spec

\* A source has at most one record in the table.
THEOREM LockoutOneRecord == Spec => []OneRecordPerKey
<1>1. IndInv => OneRecordPerKey
  BY SMTT(60) DEF IndInv
<1> QED
  BY <1>1, LockoutInvariant, PTL

\* A record at the threshold carries its ban.
THEOREM LockoutCountBans == Spec => []CountImpliesBan
<1>1. IndInv => CountImpliesBan
  BY DEF IndInv
<1> QED
  BY <1>1, LockoutInvariant, PTL

-----------------------------------------------------------------------------
(* The action properties.                                                  *)

\* lockout_blocked with a reading not ahead of the clock sees every ban that
\* runs at the clock.
LEMMA BlockedSeesBan ==
  ASSUME TableInv(tbl), NEW k \in Keys, NEW now \in Nat, clock \in Nat, now <= clock,
         Banned(tbl, k, clock)
  PROVE  Blocked(tbl, k, now)
<1>1. PICK i \in Slots : tbl[i].in_use /\ tbl[i].key = k /\ tbl[i].blocked_until_ms > clock
  BY SMTT(60) DEF Banned
<1> DEFINE B == {j \in Slots : tbl[j].blocked_until_ms # 0 /\ tbl[j].key = k}
<1>2. tbl[i].blocked_until_ms \in Nat /\ tbl[i].blocked_until_ms > now
  BY <1>1, SMTT(60) DEF TableInv, Rec
<1>3. i \in B
  BY <1>1, <1>2, SMTT(60)
<1>4. ASSUME NEW j \in B PROVE j = i
  <2>1. tbl[j].in_use
    BY LockoutAssumption, SMTT(60) DEF TableInv, EmptyRec
  <2> QED
    BY <1>1, <2>1, SMTT(60) DEF TableInv
<1>5. B = {i} /\ i <= i
  BY <1>3, <1>4, LockoutAssumption, SMTT(60) DEF Slots
<1>6. (CHOOSE j \in B : \A m \in B : j <= m) = i
  BY <1>5
<1> QED
  BY <1>2, <1>3, <1>6, Zenon DEF Blocked

\* The accept thread never admits a source under a running ban.
THEOREM LockoutAdmitsUnbanned == Spec => AdmitsUnbanned
<1> DEFINE A == \A c \in Conns :
                  conn[c].at = "idle" /\ conn'[c].at = "handshake"
                    => ~Banned(tbl, conn'[c].key, clock)
<1>1. IndInv /\ [Next]_vars => A
  <2> SUFFICES ASSUME IndInv, [Next]_vars, NEW c \in Conns,
                      conn[c].at = "idle", conn'[c].at = "handshake"
               PROVE  ~Banned(tbl, conn'[c].key, clock)
    BY SMTT(60)
  <2>1. TableInv(tbl) /\ ThreadInv
    BY Parts, SMTT(60)
  <2>2. conn \in [Conns -> ConnState] /\ Idle.at = "idle"
    BY <2>1, SMTT(60) DEF ThreadInv, Idle
  <2>3. AcceptAdmit(c)
    <3>1. ASSUME NEW d \in Conns, AcceptAdmit(d) PROVE d = c
      BY <3>1, <2>2, SMTT(60) DEF AcceptAdmit
    <3>2. ASSUME NEW d \in Conns, Abandon(d) \/ Note(d) PROVE FALSE
      BY <3>2, <2>2, SMTT(60) DEF Abandon, Note
    <3>3. ASSUME NEW d \in Conns, NEW ok \in BOOLEAN, NoteSample(d, ok) PROVE FALSE
      BY <3>3, <2>2, SMTT(60) DEF NoteSample
    <3> QED
      BY <3>1, <3>2, <3>3, Zenon
        DEF Next, vars, AcceptSample, AcceptBlocked, AcceptShed, Tick
  <2>4. /\ ~Blocked(tbl, accept.key, accept.now) /\ conn'[c].key = accept.key
        /\ accept.key \in Keys /\ accept.now \in Nat /\ clock \in Nat /\ accept.now <= clock
    BY <2>1, <2>3, LockoutAssumption, SMTT(60)
      DEF AcceptAdmit, ThreadInv, SamplesBehind, AcceptState, Time
  <2> QED
    BY <2>1, <2>4, BlockedSeesBan, SMTT(60)
<1>2. IndInv /\ [Next]_vars => [A]_vars
  BY <1>1
<1> QED
  BY <1>2, LockoutInvariant, PTL DEF Spec, AdmitsUnbanned

\* A running ban ends only by its source's success, as the last resort of
\* eviction, or by a failure read a whole window ago.
THEOREM LockoutBanEnds == Spec => BanEndsOnlyBy
<1> DEFINE A == \A k \in Keys :
                  Banned(tbl, k, clock) /\ ~Banned(tbl', k, clock)
                    => \E c \in Conns : EndsBan(c, k)
<1>1. IndInv /\ [Next]_vars => A
  <2> SUFFICES ASSUME IndInv, [Next]_vars, NEW k \in Keys,
                      Banned(tbl, k, clock), ~Banned(tbl', k, clock)
               PROVE  \E c \in Conns : EndsBan(c, k)
    OBVIOUS
  <2>1. TableInv(tbl) /\ ThreadInv
    BY Parts
  <2>2. PICK c \in Conns : Note(c)
    BY OnlyNoteWrites, SMTT(60)
  <2>3. conn'[c].at = "idle" /\ conn[c].at = "note"
    BY <2>1, <2>2, SMTT(60), Z3T(60) DEF Note, ThreadInv, Idle
  <2>4. /\ conn[c].key \in Keys /\ conn[c].now \in Nat /\ clock \in Nat
        /\ conn[c].now <= clock
    BY <2>1, <2>3, LockoutAssumption, SMTT(60) DEF ThreadInv, SamplesBehind, ConnState, Time
  <2>5. PICK i \in Slots : tbl[i].in_use /\ tbl[i].key = k /\ tbl[i].blocked_until_ms > clock
    BY SMTT(60) DEF Banned
  <2>6. tbl[i].blocked_until_ms \in Nat /\ tbl[i].blocked_until_ms > conn[c].now
    BY <2>1, <2>4, <2>5, SMTT(60), Z3T(60) DEF TableInv, Rec
  <2>7. tbl'[i] # tbl[i]
    BY <2>5, SMTT(60) DEF Banned
  <2>8. CASE conn[c].success
    <3>1. conn[c].key = k
      BY <2>1, <2>2, <2>4, <2>5, <2>7, <2>8, SuccessEffect, SMTT(60) DEF Note
    <3> QED
      BY <3>1, <2>3, <2>8, SMTT(60), Z3T(60) DEF EndsBan
  <2>9. CASE ~conn[c].success
    <3>1. tbl' = NoteFailure(tbl, conn[c].key, conn[c].now)
      BY <2>2, <2>9, SMTT(60) DEF Note
    <3>2. PICK e \in Slots, r \in Rec : Writes(tbl, conn[c].key, conn[c].now, e, r)
      BY <2>1, <2>4, FailureEffect, SMTT(60), Z3T(60)
    <3>3. e = i /\ tbl'[i] = r
      BY <2>1, <2>7, <3>1, <3>2, SMTT(60) DEF TableInv, Writes
    <3>4. CASE conn[c].key = k
      <4>1. ~(r.blocked_until_ms > clock)
        BY <3>2, <3>3, <3>4, SMTT(60) DEF Banned, Good, Writes
      <4>2. ~(conn[c].now + Window > clock)
        BY <2>4, <2>5, <3>2, <3>3, <3>4, <4>1, SMTT(60), Z3T(60) DEF Writes
      <4>3. conn[c].now + Window <= clock
        BY <4>2, <2>4, LockoutAssumption, SMTT(60)
      <4> QED
        BY <4>3, <2>3, <2>9, <3>4, SMTT(60) DEF EndsBan
    <3>5. CASE conn[c].key # k
      <4>1. \A j \in Slots : tbl[j].in_use /\ tbl[j].blocked_until_ms > conn[c].now
        BY <2>5, <2>6, <3>2, <3>3, <3>5, SMTT(60) DEF Writes
      <4> QED
        BY <4>1, <2>3, <2>9, <3>5, SMTT(60) DEF EndsBan
    <3> QED
      BY <3>4, <3>5, SMTT(60)
  <2> QED
    BY <2>8, <2>9, SMTT(60)
<1>2. IndInv /\ [Next]_vars => [A]_vars
  BY <1>1
<1> QED
  BY <1>2, LockoutInvariant, PTL DEF Spec, BanEndsOnlyBy
=============================================================================
