----------------------------- MODULE PumpProofs -----------------------------
(* Proofs about the client's senders and about the threads of its pump.    *)
EXTENDS ClientPump, PumpGso, TLAPS

-----------------------------------------------------------------------------
(* PumpGso and SocksGso.                                                    *)

\* The record of the TUN pump's sender, with what the kernel has armed.
GsoCtx == [ok : -1..1, mss : {0} \cup Sizes, pending : {0} \cup Sizes,
           streak : 0..Hyst, seg : {0} \cup Sizes]

\* The record agrees with the kernel, and while a size is armed no other one
\* has been counted: every batch of another size clears it.
Agrees(c) ==
  /\ c \in GsoCtx /\ c.seg = c.mss
  /\ c.mss # 0 => c.streak = 0 /\ c.ok = 1
  /\ c.ok = 1 => c.streak <= 1

\* The inductive strengthening of Unsplit.
TrainInv == Agrees(g) /\ wire \in Sends({CtrlLen}) /\ Whole(wire)

\* The fields of a record.
LEMMA CtxFields ==
  ASSUME NEW c \in GsoCtx
  PROVE  /\ c.ok \in -1..1 /\ c.mss \in {0} \cup Sizes /\ c.pending \in {0} \cup Sizes
         /\ c.streak \in 0..Hyst /\ c.seg \in {0} \cup Sizes
  BY DEF GsoCtx

\* A record with its fields replaced.
LEMMA CtxMade ==
  ASSUME NEW c \in GsoCtx, NEW k \in -1..1, NEW x \in {0} \cup Sizes, NEW y \in {0} \cup Sizes,
         NEW s \in 0..Hyst, NEW z \in {0} \cup Sizes, NEW d,
         d = [c EXCEPT !.ok = k, !.mss = x, !.pending = y, !.streak = s, !.seg = z]
  PROVE  d \in GsoCtx /\ d.ok = k /\ d.mss = x /\ d.pending = y /\ d.streak = s /\ d.seg = z
  BY Zenon DEF GsoCtx

\* udp_gso_clear leaves a record that agrees with the kernel.
LEMMA ClearAgrees ==
  ASSUME NEW c \in GsoCtx, c.seg = c.mss, c.mss = 0 /\ c.ok = 1 => c.streak <= 1,
         c.mss # 0 => c.streak <= 1
  PROVE  Agrees(Clear(c)) /\ Clear(c).seg = 0
<1>1. CASE c.mss = 0
  BY <1>1 DEF Clear, Agrees
<1>2. CASE c.mss # 0
  <2>1. 0 \in {0} \cup Sizes
    OBVIOUS
  <2>2. Clear(c) = [c EXCEPT !.seg = 0, !.mss = 0]
    BY <1>2 DEF Clear
  <2>3. /\ Clear(c) \in GsoCtx /\ Clear(c).mss = 0 /\ Clear(c).seg = 0
        /\ Clear(c).streak = c.streak /\ Clear(c).ok = c.ok
    BY <2>1, <2>2, Zenon DEF GsoCtx
  <2> QED
    BY <1>2, <2>3 DEF Agrees
<1> QED
  BY <1>1, <1>2

\* What udp_gso_prepare leaves: a unit of size m can go, or nothing is armed
\* once send_batch has cleared.
LEMMA PrepareSound ==
  ASSUME NEW c, Agrees(c), NEW m \in Sizes, NEW p \in Prepare(c, m)
  PROVE  /\ p.c \in GsoCtx /\ p.c.seg = p.c.mss
         /\ p.c.ok = 1 => p.c.streak <= 1
         /\ p.c.mss # 0 => p.c.streak <= 1
         /\ p.use => Agrees(p.c) /\ p.c.seg = m
<1>1. /\ m \in {0} \cup Sizes /\ 0 \in {0} \cup Sizes /\ m # 0
      /\ 0 \in -1..1 /\ 1 \in -1..1
      /\ Hyst \in Nat /\ 0 \in 0..Hyst /\ 1 \in 0..Hyst /\ 2 \in 0..Hyst /\ ~(1 >= Hyst)
  BY GsoConstants, WireConstants
<1>2. /\ c \in GsoCtx /\ c.seg = c.mss /\ (c.mss # 0 => c.streak = 0 /\ c.ok = 1)
      /\ c.ok = 1 => c.streak <= 1
      /\ c.ok \in -1..1 /\ c.streak \in 0..Hyst
  BY CtxFields DEF Agrees
<1>3. ASSUME p = Usable(Arm(c, m)) PROVE p.use /\ Agrees(p.c) /\ p.c.seg = m
  <2>1. p.c = Arm(c, m) /\ p.use
    BY <1>3 DEF Usable
  <2>2. /\ Arm(c, m) \in GsoCtx /\ Arm(c, m).seg = m /\ Arm(c, m).mss = m /\ Arm(c, m).streak = 0
        /\ Arm(c, m).ok = 1
    BY <1>1, <1>2, Zenon DEF Arm, GsoCtx
  <2> QED
    BY <2>1, <2>2 DEF Agrees
<1>4. CASE c.ok # 1
  <2>1. c.mss = 0 /\ c.seg = 0
    BY <1>2, <1>4
  <2>2. ASSUME p = Refused([c EXCEPT !.ok = 0, !.mss = 0])
        PROVE  ~p.use /\ p.c \in GsoCtx /\ p.c.seg = 0 /\ p.c.mss = 0 /\ p.c.ok = 0
    BY <1>1, <1>2, <2>1, <2>2, Zenon DEF Refused, GsoCtx
  <2>3. ASSUME p = Refused(c)
        PROVE  ~p.use /\ p.c \in GsoCtx /\ p.c.seg = 0 /\ p.c.mss = 0 /\ p.c.ok # 1
    BY <1>2, <1>4, <2>1, <2>3 DEF Refused
  <2>4. p = Usable(Arm(c, m)) \/ p = Refused([c EXCEPT !.ok = 0, !.mss = 0]) \/ p = Refused(c)
    BY <1>2, <1>4 DEF Prepare
  <2>5. CASE p = Usable(Arm(c, m))
    BY <1>3, <2>5 DEF Agrees
  <2> QED
    BY <2>2, <2>3, <2>4, <2>5
<1>5. CASE c.ok = 1 /\ c.mss = m
  <2> DEFINE d == [c EXCEPT !.pending = m, !.streak = 0]
  <2>1. p = Usable(d)
    BY <1>5 DEF Prepare
  <2>2. d \in GsoCtx /\ d.seg = c.seg /\ d.mss = c.mss /\ d.streak = 0 /\ d.ok = c.ok
    BY <1>1, <1>2, Zenon DEF GsoCtx
  <2> HIDE DEF d
  <2> QED
    BY <1>2, <1>5, <2>1, <2>2 DEF Usable, Agrees
<1>6. CASE c.ok = 1 /\ c.mss # m
  <2> DEFINE t == Track(c, m)
  <2>1. /\ t \in GsoCtx /\ t.seg = c.seg /\ t.mss = c.mss /\ t.ok = 1 /\ t.streak \in {1, 2}
        /\ c.mss # 0 => t.streak = 1
    <3>1. c.streak \in {0, 1} /\ c.streak + 1 \in {1, 2} /\ c.streak + 1 \in 0..Hyst
          /\ (c.mss # 0 => c.streak + 1 = 1)
      BY <1>1, <1>2, <1>6
    <3>2. CASE c.pending = m
      <4>1. t = [c EXCEPT !.streak = c.streak + 1]
        BY <3>2 DEF Track
      <4>2. /\ t \in GsoCtx /\ t.seg = c.seg /\ t.mss = c.mss /\ t.ok = c.ok /\ t.streak = c.streak + 1
        BY <1>2, <3>1, <4>1 DEF GsoCtx
      <4> QED
        BY <1>6, <3>1, <4>2
    <3>3. CASE c.pending # m
      <4>1. t = [c EXCEPT !.pending = m, !.streak = 1]
        BY <3>3 DEF Track
      <4>2. /\ t \in GsoCtx /\ t.seg = c.seg /\ t.mss = c.mss /\ t.ok = c.ok /\ t.streak = 1
        BY <1>1, <1>2, <4>1, Zenon DEF GsoCtx
      <4> QED
        BY <1>6, <4>2
    <3> QED
      BY <3>2, <3>3
  <2>2. p \in IF Due(t) THEN {Usable([t EXCEPT !.mss = m, !.seg = m, !.streak = 0]),
                              Refused([t EXCEPT !.ok = 0, !.mss = 0])}
              ELSE {Refused(t)}
    BY <1>6 DEF Prepare
  <2> HIDE DEF t
  <2>3. CASE Due(t)
    <3>1. t.mss = 0 /\ t.seg = 0
      BY <1>1, <1>2, <2>1, <2>3 DEF Due
    <3>2. CASE p = Usable([t EXCEPT !.mss = m, !.seg = m, !.streak = 0])
      <4> DEFINE d == [t EXCEPT !.mss = m, !.seg = m, !.streak = 0]
      <4>1. d \in GsoCtx /\ d.seg = m /\ d.mss = m /\ d.streak = 0 /\ d.ok = t.ok
        BY <1>1, <2>1, Zenon DEF GsoCtx
      <4>2. p.use /\ p.c = d
        BY <3>2 DEF Usable
      <4> HIDE DEF d
      <4> QED
        BY <2>1, <4>1, <4>2 DEF Agrees
    <3>3. CASE p = Refused([t EXCEPT !.ok = 0, !.mss = 0])
      <4> DEFINE d == [t EXCEPT !.ok = 0, !.mss = 0]
      <4>1. d \in GsoCtx /\ d.seg = t.seg /\ d.mss = 0 /\ d.ok = 0
        BY <1>1, <2>1, Zenon DEF GsoCtx
      <4>2. ~p.use /\ p.c = d
        BY <3>3 DEF Refused
      <4> HIDE DEF d
      <4> QED
        BY <3>1, <4>1, <4>2
    <3> QED
      BY <2>2, <2>3, <3>2, <3>3
  <2>4. CASE ~Due(t)
    <3>1. p = Refused(t) /\ t.mss # 0
      BY <2>2, <2>4 DEF Due
    <3>2. ~p.use /\ p.c = t
      BY <3>1 DEF Refused
    <3> QED
      BY <1>2, <2>1, <3>1, <3>2
  <2> QED
    BY <2>3, <2>4
<1> QED
  BY <1>4, <1>5, <1>6

\* A batch sent datagram by datagram is sent whole.
LEMMA SendBatchKeeps ==
  ASSUME NEW c \in GsoCtx, c.seg = c.mss, c.ok = 1 => c.streak <= 1, c.mss # 0 => c.streak <= 1,
         NEW lens \in SUBSET Sizes, SendBatch(c, lens)
  PROVE  TrainInv'
<1>1. Agrees(Clear(c)) /\ Clear(c).seg = 0
  BY ClearAgrees
<1>2. g' = Clear(c) /\ wire' = [unit |-> FALSE, lens |-> lens, seg |-> 0]
  BY <1>1 DEF SendBatch
<1>3. wire' \in Sends({CtrlLen}) /\ Whole(wire')
  BY <1>2 DEF Sends, Whole
<1>4. Agrees(g')
  BY <1>1, <1>2
<1> QED
  BY <1>3, <1>4 DEF TrainInv, Agrees, Sends, Whole, GsoCtx

\* Every send of the TUN pump keeps the strengthening.
LEMMA PumpStepKeeps == TrainInv /\ [PumpNext]_pumpVars => TrainInv'
<1> SUFFICES ASSUME TrainInv, [PumpNext]_pumpVars PROVE TrainInv'
  OBVIOUS
<1>1. ASSUME NEW m \in Sizes, UniformBatch(m) PROVE TrainInv'
  <2>1. PICK p \in Prepare(g, m) :
        \/ /\ p.use
           /\ g' = p.c /\ wire' = [unit |-> TRUE, lens |-> {m}, seg |-> p.c.seg]
        \/ p.use /\ g' = p.c /\ wire' = Quiet
        \/ p.use /\ SendBatch([Clear(p.c) EXCEPT !.ok = 0], {m})
        \/ ~p.use /\ SendBatch(p.c, {m})
    BY <1>1, Zenon DEF UniformBatch
  <2>2. /\ p.c \in GsoCtx /\ p.c.seg = p.c.mss
        /\ p.c.ok = 1 => p.c.streak <= 1
        /\ p.c.mss # 0 => p.c.streak <= 1
        /\ p.use => Agrees(p.c) /\ p.c.seg = m
    BY PrepareSound DEF TrainInv
  <2>3. CASE p.use /\ g' = p.c /\ wire' = [unit |-> TRUE, lens |-> {m}, seg |-> p.c.seg]
    <3>1. wire' = [unit |-> TRUE, lens |-> {m}, seg |-> m] /\ {m} \in SUBSET (Sizes \cup {CtrlLen})
      BY <2>2, <2>3, Zenon
    <3>2. wire' \in Sends({CtrlLen}) /\ Whole(wire')
      BY <3>1 DEF Sends, Whole
    <3> QED
      BY <2>2, <2>3, <3>2 DEF TrainInv, Agrees, Sends, Whole, GsoCtx
  <2>4. CASE p.use /\ g' = p.c /\ wire' = Quiet
    <3>1. wire' \in Sends({CtrlLen}) /\ Whole(wire')
      BY <2>4 DEF Sends, Whole, Quiet
    <3> QED
      BY <2>2, <2>4, <3>1 DEF TrainInv, Agrees, Sends, Whole, GsoCtx
  <2>5. CASE p.use /\ SendBatch([Clear(p.c) EXCEPT !.ok = 0], {m})
    <3> DEFINE d == Clear(p.c)
               e == [d EXCEPT !.ok = 0]
    <3>1. Agrees(d) /\ d.seg = 0
      BY <2>2, ClearAgrees
    <3>2. 0 \in -1..1
      OBVIOUS
    <3> HIDE DEF d
    <3>3. e \in GsoCtx /\ e.ok = 0 /\ e.mss = d.mss /\ e.seg = d.seg
      BY <3>1, <3>2, Zenon DEF Agrees, GsoCtx
    <3>4. e.seg = e.mss /\ e.mss = 0 /\ e.ok # 1
      BY <3>1, <3>3 DEF Agrees
    <3>5. SendBatch(e, {m})
      BY <2>5 DEF d
    <3> HIDE DEF e
    <3> QED
      BY <3>3, <3>4, <3>5, SendBatchKeeps
  <2>6. CASE ~p.use /\ SendBatch(p.c, {m})
    BY <2>2, <2>6, SendBatchKeeps
  <2> QED
    BY <2>1, <2>3, <2>4, <2>5, <2>6
<1>2. ASSUME NEW lens \in SUBSET Sizes, PlainBatch(lens) PROVE TrainInv'
  <2>1. /\ g \in GsoCtx /\ g.seg = g.mss /\ (g.ok = 1 => g.streak <= 1) /\ (g.mss # 0 => g.streak <= 1)
    BY DEF TrainInv, Agrees
  <2> QED
    BY <1>2, <2>1, SendBatchKeeps DEF PlainBatch
<1>3. CASE SendCtrl
  <2>1. Agrees(Clear(g)) /\ Clear(g).seg = 0
    BY ClearAgrees DEF TrainInv, Agrees
  <2>2. wire' = [unit |-> FALSE, lens |-> {CtrlLen}, seg |-> 0]
    BY <1>3, <2>1 DEF SendCtrl
  <2>3. wire' \in Sends({CtrlLen}) /\ Whole(wire')
    BY <2>2 DEF Sends, Whole
  <2>4. Agrees(g')
    BY <1>3, <2>1 DEF SendCtrl, TrainInv
  <2> QED
    BY <2>3, <2>4 DEF TrainInv, Agrees, Sends, Whole, GsoCtx
<1>4. CASE UNCHANGED pumpVars
  BY <1>4 DEF pumpVars, TrainInv, Agrees, Sends, Whole, GsoCtx
<1> QED
  BY <1>1, <1>2, <1>3, <1>4 DEF PumpNext

\* A new socket has nothing armed.
LEMMA TrainInitially == PumpInit => TrainInv
<1> SUFFICES ASSUME PumpInit PROVE TrainInv
  OBVIOUS
<1>1. 0 \in 0..Hyst /\ -1 \in -1..1 /\ -1 # 1
  BY GsoConstants
<1>2. Agrees(g)
  BY <1>1 DEF PumpInit, Agrees, GsoCtx
<1> QED
  BY <1>2 DEF PumpInit, TrainInv, Quiet, Sends, Whole

\* The strengthening gives the property.
LEMMA PumpSound == TrainInv => Unsplit
  BY DEF TrainInv, Agrees, GsoCtx, Unsplit, PumpTypeOK

\* The TUN pump's sends reach the server whole (udp_gso_prepare, udp_gso_clear).
THEOREM PumpTrainsWhole == PumpSpec => []Unsplit
  BY TrainInitially, PumpStepKeeps, PumpSound, PTL DEF PumpSpec

-----------------------------------------------------------------------------
(* SocksGso: on a socket that no failed exchange kept, the record is what   *)
(* the kernel has armed, and it is long enough for the frames sent past it. *)

\* The inductive strengthening of SocksUnsplit.
SocksGsoInv ==
  /\ SocksTypeOK
  /\ mss # 0 => mss >= MssMin /\ ok = 1
  /\ ~kept => seg = mss /\ Whole(sockWire)

\* Nothing sent is sent whole.
LEMMA QuietWhole == Quiet \in Sends(ShortLens) /\ Whole(Quiet)
<1>1. FALSE \in BOOLEAN /\ {} \in SUBSET (Sizes \cup ShortLens) /\ 0 \in {0} \cup Sizes
  OBVIOUS
<1> QED
  BY <1>1 DEF Quiet, Sends, Whole

\* A new socket of the SOCKS client has nothing armed.
LEMMA SocksGsoInitially == SocksInit => SocksGsoInv
<1>1. 0 \in -1..1 /\ 0 \in {0} \cup Sizes
  OBVIOUS
<1> QED
  BY <1>1, QuietWhole, Zenon DEF SocksInit, SocksGsoInv, SocksTypeOK

\* Frames sent one by one keep the strengthening.
LEMMA PerMessageKeeps ==
  ASSUME SocksGsoInv, NEW lens \in SUBSET Sizes, NEW k, NEW s \in {0} \cup Sizes,
         PerMessage(k, s, lens), ok' \in -1..1, kept' = kept, ~kept => (k = 0 => s = 0)
  PROVE  SocksGsoInv'
<1>1. mss' = 0 /\ seg' \in {0} \cup Sizes /\ (~kept => seg' = 0)
      /\ sockWire' = [unit |-> FALSE, lens |-> lens, seg |-> seg']
  BY DEF PerMessage
<1>2. sockWire' \in Sends(ShortLens)
  BY <1>1 DEF Sends
<1>3. ~kept => Whole(sockWire')
  BY <1>1 DEF Whole
<1>4. SocksTypeOK'
  BY <1>1, <1>2 DEF SocksGsoInv, SocksTypeOK, Sends
<1> QED
  BY <1>1, <1>3, <1>4 DEF SocksGsoInv, Whole

\* A unit sent with its size armed keeps the strengthening.
LEMMA SendUnitKeeps ==
  ASSUME SocksGsoInv, NEW m \in Sizes, m >= MssMin, NEW s \in {0} \cup Sizes, SendUnit(m, s),
         kept' = kept, ~kept => s = m
  PROVE  SocksGsoInv'
<1>1. /\ 1 \in -1..1 /\ -1 \in -1..1 /\ m # 0 /\ {m} \in SUBSET Sizes
  BY WireConstants
<1>2. CASE ok' = 1 /\ mss' = m /\ seg' = s
           /\ (sockWire' = [unit |-> TRUE, lens |-> {m}, seg |-> s] \/ UNCHANGED sockWire)
  <2>1. sockWire' \in Sends(ShortLens)
    <3>1. {m} \in SUBSET (Sizes \cup ShortLens) /\ TRUE \in BOOLEAN
      OBVIOUS
    <3>2. [unit |-> TRUE, lens |-> {m}, seg |-> s] \in Sends(ShortLens)
      BY <3>1 DEF Sends
    <3> QED
      BY <1>2, <3>2, Zenon DEF SocksGsoInv, SocksTypeOK
  <2>2. ~kept => Whole(sockWire')
    BY <1>2 DEF Whole, SocksGsoInv
  <2>3. SocksTypeOK'
    BY <1>1, <1>2, <2>1 DEF SocksGsoInv, SocksTypeOK, Sends
  <2> QED
    BY <1>1, <1>2, <2>2, <2>3 DEF SocksGsoInv, Whole
<1>3. CASE ok' = -1 /\ PerMessage(0, 0, {m})
  <2>1. 0 \in {0} \cup Sizes /\ ok' \in -1..1
    BY <1>1, <1>3
  <2> QED
    BY <1>1, <1>3, <2>1, PerMessageKeeps
<1> QED
  BY <1>2, <1>3 DEF SendUnit

\* Every send and every exchange of the socket keeps the strengthening.
LEMMA SocksGsoStepKeeps == SocksGsoInv /\ [SocksNext]_socksVars => SocksGsoInv'
<1> SUFFICES ASSUME SocksGsoInv, [SocksNext]_socksVars PROVE SocksGsoInv'
  OBVIOUS
<1>1. /\ ok \in -1..1 /\ mss \in {0} \cup Sizes /\ seg \in {0} \cup Sizes /\ -1 \in -1..1
      /\ ~kept => seg = mss
  BY DEF SocksGsoInv, SocksTypeOK
<1>2. ASSUME NEW m \in Sizes, SocksUniform(m) PROVE SocksGsoInv'
  <2>1. m \in {0} \cup Sizes /\ {m} \in SUBSET Sizes /\ m >= MssMin /\ kept' = kept
    BY <1>2 DEF SocksUniform
  <2>2. CASE ok = 1 /\ mss = m /\ SendUnit(m, seg)
    BY <1>1, <1>2, <2>1, <2>2, SendUnitKeeps
  <2>3. CASE SendUnit(m, m)
    BY <1>1, <2>1, <2>3, SendUnitKeeps
  <2>4. CASE ok' = -1 /\ PerMessage(mss, seg, {m})
    <3>1. ok' \in -1..1 /\ (~kept => (mss = 0 => seg = 0))
      BY <1>1, <2>4
    <3> QED
      BY <1>1, <2>1, <2>4, <3>1, PerMessageKeeps
  <2> QED
    BY <1>2, <2>2, <2>3, <2>4 DEF SocksUniform
<1>3. ASSUME NEW lens \in SUBSET Sizes, SocksPlain(lens) PROVE SocksGsoInv'
  <2>1. PerMessage(mss, seg, lens) /\ ok' \in -1..1 /\ kept' = kept /\ (~kept => (mss = 0 => seg = 0))
    BY <1>1, <1>3 DEF SocksPlain
  <2> QED
    BY <1>1, <2>1, PerMessageKeeps
<1>4. ASSUME NEW l \in ShortLens, ShortFrame(l) PROVE SocksGsoInv'
  <2>1. sockWire' = [unit |-> FALSE, lens |-> {l}, seg |-> seg] /\ UNCHANGED <<ok, mss, seg, kept>>
    BY <1>4 DEF ShortFrame
  <2>2. sockWire' \in Sends(ShortLens)
    BY <1>1, <2>1 DEF Sends
  <2>3. ~kept => seg = 0 \/ l <= seg
    <3>1. l \in Nat /\ l < MssMin /\ MssMin \in Nat
      BY SocksGsoConstants, WireConstants
    <3>2. ~kept /\ seg # 0 => seg >= MssMin /\ seg \in Nat
      BY <1>1, WireConstants DEF SocksGsoInv
    <3> QED
      BY <3>1, <3>2
  <2>4. ~kept => Whole(sockWire')
    BY <2>1, <2>3 DEF Whole
  <2>5. SocksTypeOK'
    BY <2>1, <2>2 DEF SocksGsoInv, SocksTypeOK, Sends
  <2> QED
    BY <2>1, <2>4, <2>5 DEF SocksGsoInv, Whole
<1>5. CASE ReauthSwap
  <2>1. ok' = 0 /\ mss' = 0 /\ seg' = 0 /\ sockWire' = Quiet /\ kept' = FALSE
    BY <1>5 DEF ReauthSwap
  <2>2. 0 \in -1..1 /\ 0 \in {0} \cup Sizes
    OBVIOUS
  <2>3. sockWire' \in Sends(ShortLens) /\ Whole(sockWire')
    BY <2>1, QuietWhole
  <2>4. SocksTypeOK'
    BY <2>1, <2>2, <2>3, Zenon DEF SocksTypeOK, Sends
  <2> QED
    BY <2>1, <2>3, <2>4 DEF SocksGsoInv, Whole
<1>6. CASE ReauthRollback
  BY <1>6 DEF ReauthRollback, SocksGsoInv, SocksTypeOK, Sends
<1>7. CASE UNCHANGED socksVars
  BY <1>7 DEF socksVars, SocksGsoInv, SocksTypeOK, Sends, Whole
<1> QED
  BY <1>2, <1>3, <1>4, <1>5, <1>6, <1>7 DEF SocksNext

\* The SOCKS client's sends reach the server whole, unless an exchange of the
\* socket has been rolled back (socks_send_batch2, socks_reauth_swap).
THEOREM SocksTrainsWhole == SocksSpec => []SocksUnsplit
<1>1. SocksGsoInv => SocksUnsplit
  BY DEF SocksGsoInv, SocksUnsplit
<1> QED
  BY <1>1, SocksGsoInitially, SocksGsoStepKeeps, PTL DEF SocksSpec

\* Both senders together: for every set of sizes, every length of a short
\* frame and every hysteresis the kernel never cuts a train anywhere but
\* between its datagrams.
THEOREM TrainsStayWhole == PumpSpec /\ SocksSpec => []TrainsWhole
<1>1. Unsplit /\ SocksUnsplit => TrainsWhole
  BY SMTT(60) DEF TrainsWhole
<1> QED
  BY <1>1, PumpTrainsWhole, SocksTrainsWhole, PTL

-----------------------------------------------------------------------------
\* Which threads run is told by where run_pump stands.
PumpThreads ==
  /\ main \notin {"spawn", "undo", "loop", "probe", "destroy", "pool"} => ReadersIdle
  /\ main \notin {"loop", "probe", "destroy", "pool", "join"} => rx \in {"off", "done"}
  /\ ~sock => main \in {"open", "auth", "backoff", "wait", "exited"}

\* The routes into the tunnel are there only between a set-up and a teardown of
\* run_pump, and on_signal before them.
PumpRoutes ==
  /\ main \in {"setup", "check", "clear", "create", "spawn", "undo", "loop", "probe",
               "destroy", "pool", "join", "finish"} => handler
  /\ routes \subseteq {"tunnel", "local"}
  /\ "tunnel" \in routes =>
       main \in {"check", "clear", "create", "spawn", "undo", "loop", "probe",
                "destroy", "pool", "join", "finish"}

\* Every stop has its reason stored before it: a loss, or the signal.
PumpReasons ==
  /\ g_user_stop => sig = "done"
  /\ rx = "lost" => session_lost
  /\ \A r \in Readers : reader[r] = "lost" => session_lost
  /\ g_stop /\ main \in {"create", "spawn", "loop", "probe"} => session_lost \/ sig # "none"
  /\ main \in {"destroy", "pool", "join", "finish"} => session_lost \/ sig # "none"
  /\ main \in {"ret", "exited"} /\ rc = 0 => sig # "none"

\* The types of the flags.
PumpFlags ==
  /\ reconnecting \in BOOLEAN /\ handler \in BOOLEAN /\ g_stop \in BOOLEAN
  /\ g_user_stop \in BOOLEAN /\ session_lost \in BOOLEAN
  /\ tun \in BOOLEAN /\ sock \in BOOLEAN /\ alive \in BOOLEAN /\ quit \in BOOLEAN

\* Where the threads of the pump can be.
PumpStates ==
  /\ main \in MainStates /\ rc \in -1..1
  /\ sig \in {"none", "half", "done"}
  /\ reader \in [Readers -> {"off", "run", "lost", "done"}]
  /\ rx \in {"off", "start", "top", "recv", "dgram", "lost", "done"}

\* The bounds of the counters.
PumpCounts ==
  /\ left \in 0..RxBatch /\ age \in 0..StaleMax + 1 /\ kaAge \in 0..1
  /\ kaFail \in 0..KaFailMax - 1 /\ kaResFail \in 0..KaFailMax - 1
  /\ errPoll \in 0..ErrPollMax
  /\ rx = "dgram" => left >= 1

\* The inductive strengthening of PumpAccounted.
PumpInv ==
  /\ PumpFlags /\ PumpStates /\ PumpCounts
  /\ PumpThreads /\ PumpRoutes /\ PumpReasons

\* Every step keeps the types of the flags.
LEMMA PumpFlagsKept == ASSUME PumpFlags, [Next]_vars PROVE PumpFlags'
<1>1. CASE OpenTun
  BY <1>1, Zenon DEF PumpFlags, OpenTun, Exit, rxData, env, outside
<1>2. CASE Authenticate
  BY <1>2, ZenonT(60) DEF PumpFlags, Authenticate, Exit, rxData, env, outside
<1>3. CASE Retry
  BY <1>3, Zenon DEF PumpFlags, Retry, Exit, rxData, env, outside
<1>4. CASE Returned
  BY <1>4, Zenon DEF PumpFlags, Returned, Exit, rxData, env, outside
<1>5. CASE InstallSignals
  BY <1>5 DEF PumpFlags, InstallSignals, flags, rxData, env, outside
<1>6. CASE RouteSetup
  BY <1>6, ZenonT(60) DEF PumpFlags, RouteSetup, PumpReturns, rxData, env, outside
<1>7. CASE CheckUserStop
  BY <1>7, Zenon DEF PumpFlags, CheckUserStop, PumpReturns, rxData, env, outside
<1>8. CASE ClearStop
  BY <1>8, Zenon DEF PumpFlags, ClearStop, rxData, env, outside
<1>9. CASE CreatePool
  BY <1>9, ZenonT(60) DEF PumpFlags, CreatePool, PumpReturns, rxData, env, outside
<1>10. CASE SpawnRx
  BY <1>10, ZenonT(60) DEF PumpFlags, SpawnRx, rxData, env, outside
<1>11. CASE UndoSpawn
  BY <1>11, Zenon DEF PumpFlags, UndoSpawn, PumpReturns, rxData, env, outside
<1>12. CASE LoopTest
  BY <1>12 DEF PumpFlags, LoopTest, rxData, env, outside
<1>13. CASE ProbeDevice
  BY <1>13, Zenon DEF PumpFlags, ProbeDevice, rxData, env, outside
<1>14. CASE DestroyPool
  BY <1>14, ZenonT(60) DEF PumpFlags, DestroyPool, rxData, env, outside
<1>15. CASE JoinRx
  BY <1>15 DEF PumpFlags, JoinRx, rxData, env, outside
<1>16. CASE FinishPump
  BY <1>16, Zenon DEF PumpFlags, FinishPump, PumpReturns, rxData, env, outside
<1>17. CASE RxStart
  BY <1>17, ZenonT(60) DEF PumpFlags, RxStart, RxLoses, rest, rxData, env, outside
<1>18. CASE RxTop
  BY <1>18, ZenonT(60) DEF PumpFlags, RxTop, RxLoses, Fails, Stale, rest, rxData, env, outside
<1>19. CASE RxRecv
  BY <1>19, ZenonT(60) DEF PumpFlags, RxRecv, RxLoses, rest, rxData, env, outside
<1>20. CASE RxForeign
  BY <1>20 DEF PumpFlags, RxForeign, NextDatagram, rest, rxData, env, outside
<1>21. CASE RxGenuine
  BY <1>21 DEF PumpFlags, RxGenuine, NextDatagram, rest, rxData, env, outside
<1>22. CASE RxWriteStopped
  BY <1>22 DEF PumpFlags, RxWriteStopped, rest, rxData, env, outside
<1>23. CASE RxEcho
  BY <1>23, Zenon DEF PumpFlags, RxEcho, RxLoses, Fails, NextDatagram, rest, rxData, env, outside
<1>24. CASE RxEnds
  BY <1>24 DEF PumpFlags, RxEnds, RxLoses, rest, rxData, env, outside
<1>25. CASE RxStops
  BY <1>25 DEF PumpFlags, RxStops, rxData, env, outside
<1>26. CASE Signal
  BY <1>26, Zenon DEF PumpFlags, Signal, Exit, rxData, env, outside
<1>27. CASE SignalUser
  BY <1>27 DEF PumpFlags, SignalUser, rxData, env, outside
<1>28. CASE ServerForgets
  BY <1>28, Zenon DEF PumpFlags, ServerForgets, rxData, env, outside
<1>29. CASE DeviceVanishes
  BY <1>29, Zenon DEF PumpFlags, DeviceVanishes, rxData, env, outside
<1>30. CASE Tick
  BY <1>30 DEF PumpFlags, Tick, rest, rxData, env, outside
<1>31. CASE Exited
  BY <1>31 DEF PumpFlags, Exited, vars, rxData, env, outside
<1>32. ASSUME NEW r \in Readers, ReaderFatal(r) PROVE PumpFlags'
  BY <1>32 DEF PumpFlags, ReaderFatal, rxData, env, outside
<1>33. ASSUME NEW r \in Readers, ReaderStops(r) PROVE PumpFlags'
  BY <1>33 DEF PumpFlags, ReaderStops, rxData, env, outside
<1>34. ASSUME NEW r \in Readers, ReaderExit(r) PROVE PumpFlags'
  BY <1>34 DEF PumpFlags, ReaderExit, rxData, env, outside
<1>35. CASE UNCHANGED vars
  BY <1>35, SMTT(60) DEF PumpFlags, vars, rxData, env, outside
<1> QED
  BY <1>1, <1>2, <1>3, <1>4, <1>5, <1>6, <1>7, <1>8, <1>9, <1>10, <1>11, <1>12, <1>13, <1>14, <1>15, <1>16, <1>17, <1>18, <1>19, <1>20, <1>21, <1>22, <1>23, <1>24, <1>25, <1>26, <1>27, <1>28, <1>29, <1>30, <1>31, <1>32, <1>33, <1>34, <1>35, SMTT(60)
  DEF Next, Main, Rx, Reader

\* Every step leaves every thread at a place of its own.
LEMMA PumpStatesKept == ASSUME PumpStates, [Next]_vars PROVE PumpStates'
<1>1. CASE OpenTun
  BY <1>1 DEF PumpStates, MainStates, OpenTun, Exit, rxData, env, outside
<1>2. CASE Authenticate
  BY <1>2 DEF PumpStates, MainStates, Authenticate, Exit, rxData, env, outside
<1>3. CASE Retry
  BY <1>3 DEF PumpStates, MainStates, Retry, Exit, rxData, env, outside
<1>4. CASE Returned
  BY <1>4 DEF PumpStates, MainStates, Returned, Exit, rxData, env, outside
<1>5. CASE InstallSignals
  BY <1>5 DEF PumpStates, MainStates, InstallSignals, flags, rxData, env, outside
<1>6. CASE RouteSetup
  BY <1>6 DEF PumpStates, MainStates, RouteSetup, PumpReturns, rxData, env, outside
<1>7. CASE CheckUserStop
  BY <1>7 DEF PumpStates, MainStates, CheckUserStop, PumpReturns, rxData, env, outside
<1>8. CASE ClearStop
  BY <1>8 DEF PumpStates, MainStates, ClearStop, rxData, env, outside
<1>9. CASE CreatePool
  BY <1>9 DEF PumpStates, MainStates, CreatePool, PumpReturns, rxData, env, outside
<1>10. CASE SpawnRx
  BY <1>10 DEF PumpStates, MainStates, SpawnRx, rxData, env, outside
<1>11. CASE UndoSpawn
  BY <1>11 DEF PumpStates, MainStates, UndoSpawn, PumpReturns, rxData, env, outside
<1>12. CASE LoopTest
  BY <1>12 DEF PumpStates, MainStates, LoopTest, rxData, env, outside
<1>13. CASE ProbeDevice
  BY <1>13 DEF PumpStates, MainStates, ProbeDevice, rxData, env, outside
<1>14. CASE DestroyPool
  BY <1>14 DEF PumpStates, MainStates, DestroyPool, rxData, env, outside
<1>15. CASE JoinRx
  BY <1>15 DEF PumpStates, MainStates, JoinRx, rxData, env, outside
<1>16. CASE FinishPump
  BY <1>16 DEF PumpStates, MainStates, FinishPump, PumpReturns, rxData, env, outside
<1>17. CASE RxStart
  BY <1>17, SMTT(60) DEF PumpStates, MainStates, RxStart, RxLoses, rest, rxData, env, outside
<1>18. CASE RxTop
  BY <1>18, SMTT(60) DEF PumpStates, MainStates, RxTop, RxLoses, Fails, Stale, rest, rxData, env, outside
<1>19. CASE RxRecv
  BY <1>19 DEF PumpStates, MainStates, RxRecv, RxLoses, rest, rxData, env, outside
<1>20. CASE RxForeign
  BY <1>20 DEF PumpStates, MainStates, RxForeign, NextDatagram, rest, rxData, env, outside
<1>21. CASE RxGenuine
  BY <1>21 DEF PumpStates, MainStates, RxGenuine, NextDatagram, rest, rxData, env, outside
<1>22. CASE RxWriteStopped
  BY <1>22 DEF PumpStates, MainStates, RxWriteStopped, rest, rxData, env, outside
<1>23. CASE RxEcho
  BY <1>23 DEF PumpStates, MainStates, RxEcho, RxLoses, Fails, NextDatagram, rest, rxData, env, outside
<1>24. CASE RxEnds
  BY <1>24 DEF PumpStates, MainStates, RxEnds, RxLoses, rest, rxData, env, outside
<1>25. CASE RxStops
  BY <1>25 DEF PumpStates, MainStates, RxStops, rxData, env, outside
<1>26. CASE Signal
  BY <1>26 DEF PumpStates, MainStates, Signal, Exit, rxData, env, outside
<1>27. CASE SignalUser
  BY <1>27 DEF PumpStates, MainStates, SignalUser, rxData, env, outside
<1>28. CASE ServerForgets
  BY <1>28 DEF PumpStates, MainStates, ServerForgets, rxData, env, outside
<1>29. CASE DeviceVanishes
  BY <1>29 DEF PumpStates, MainStates, DeviceVanishes, rxData, env, outside
<1>30. CASE Tick
  BY <1>30 DEF PumpStates, MainStates, Tick, rest, rxData, env, outside
<1>31. CASE Exited
  BY <1>31 DEF PumpStates, MainStates, Exited, vars, rxData, env, outside
<1>32. ASSUME NEW r \in Readers, ReaderFatal(r) PROVE PumpStates'
  BY <1>32 DEF PumpStates, MainStates, ReaderFatal, rxData, env, outside
<1>33. ASSUME NEW r \in Readers, ReaderStops(r) PROVE PumpStates'
  BY <1>33 DEF PumpStates, MainStates, ReaderStops, rxData, env, outside
<1>34. ASSUME NEW r \in Readers, ReaderExit(r) PROVE PumpStates'
  BY <1>34 DEF PumpStates, MainStates, ReaderExit, rxData, env, outside
<1>35. CASE UNCHANGED vars
  BY <1>35, SMTT(60) DEF PumpStates, MainStates, vars, rxData, env, outside
<1> QED
  BY <1>1, <1>2, <1>3, <1>4, <1>5, <1>6, <1>7, <1>8, <1>9, <1>10, <1>11, <1>12, <1>13, <1>14, <1>15, <1>16, <1>17, <1>18, <1>19, <1>20, <1>21, <1>22, <1>23, <1>24, <1>25, <1>26, <1>27, <1>28, <1>29, <1>30, <1>31, <1>32, <1>33, <1>34, <1>35
  DEF Next, Main, Rx, Reader

\* Every step keeps the counters within their bounds.
LEMMA PumpCountsKept == ASSUME PumpCounts, [Next]_vars PROVE PumpCounts'
<1>1. CASE OpenTun
  BY <1>1, PumpConstants, SMTT(60) DEF PumpCounts, OpenTun, Exit, rxData, env, outside
<1>2. CASE Authenticate
  BY <1>2, PumpConstants DEF PumpCounts, Authenticate, Exit, rxData, env, outside
<1>3. CASE Retry
  BY <1>3, PumpConstants DEF PumpCounts, Retry, Exit, rxData, env, outside
<1>4. CASE Returned
  BY <1>4, PumpConstants DEF PumpCounts, Returned, Exit, rxData, env, outside
<1>5. CASE InstallSignals
  BY <1>5, PumpConstants DEF PumpCounts, InstallSignals, flags, rxData, env, outside
<1>6. CASE RouteSetup
  BY <1>6, PumpConstants DEF PumpCounts, RouteSetup, PumpReturns, rxData, env, outside
<1>7. CASE CheckUserStop
  BY <1>7, PumpConstants DEF PumpCounts, CheckUserStop, PumpReturns, rxData, env, outside
<1>8. CASE ClearStop
  BY <1>8, PumpConstants DEF PumpCounts, ClearStop, rxData, env, outside
<1>9. CASE CreatePool
  BY <1>9, PumpConstants, SMTT(60) DEF PumpCounts, CreatePool, PumpReturns, rxData, env, outside
<1>10. CASE SpawnRx
  BY <1>10, PumpConstants DEF PumpCounts, SpawnRx, rxData, env, outside
<1>11. CASE UndoSpawn
  BY <1>11, PumpConstants, SMTT(60) DEF PumpCounts, UndoSpawn, PumpReturns, rxData, env, outside
<1>12. CASE LoopTest
  BY <1>12, PumpConstants DEF PumpCounts, LoopTest, rxData, env, outside
<1>13. CASE ProbeDevice
  BY <1>13, PumpConstants DEF PumpCounts, ProbeDevice, rxData, env, outside
<1>14. CASE DestroyPool
  BY <1>14, PumpConstants DEF PumpCounts, DestroyPool, rxData, env, outside
<1>15. CASE JoinRx
  BY <1>15, PumpConstants DEF PumpCounts, JoinRx, rxData, env, outside
<1>16. CASE FinishPump
  BY <1>16, PumpConstants, SMTT(60) DEF PumpCounts, FinishPump, PumpReturns, rxData, env, outside
<1>17. CASE RxStart
  BY <1>17, PumpConstants, SMTT(60) DEF PumpCounts, RxStart, RxLoses, rest, rxData, env, outside
<1>18. CASE RxTop
  BY <1>18, PumpConstants, SMTT(60) DEF PumpCounts, RxTop, RxLoses, Fails, Stale, rest, rxData, env, outside
<1>19. CASE RxRecv
  BY <1>19, PumpConstants, SMTT(60) DEF PumpCounts, RxRecv, RxLoses, rest, rxData, env, outside
<1>20. CASE RxForeign
  BY <1>20, PumpConstants, SMTT(60) DEF PumpCounts, RxForeign, NextDatagram, rest, rxData, env, outside
<1>21. CASE RxGenuine
  BY <1>21, PumpConstants, SMTT(60) DEF PumpCounts, RxGenuine, NextDatagram, rest, rxData, env, outside
<1>22. CASE RxWriteStopped
  BY <1>22, PumpConstants, SMTT(60) DEF PumpCounts, RxWriteStopped, rest, rxData, env, outside
<1>23. CASE RxEcho
  BY <1>23, PumpConstants, SMTT(60) DEF PumpCounts, RxEcho, RxLoses, Fails, NextDatagram, rest, rxData, env, outside
<1>24. CASE RxEnds
  BY <1>24, PumpConstants, SMTT(60) DEF PumpCounts, RxEnds, RxLoses, rest, rxData, env, outside
<1>25. CASE RxStops
  BY <1>25, PumpConstants, SMTT(60) DEF PumpCounts, RxStops, rxData, env, outside
<1>26. CASE Signal
  BY <1>26, PumpConstants, SMTT(60) DEF PumpCounts, Signal, Exit, rxData, env, outside
<1>27. CASE SignalUser
  BY <1>27, PumpConstants, SMTT(60) DEF PumpCounts, SignalUser, rxData, env, outside
<1>28. CASE ServerForgets
  BY <1>28, PumpConstants, SMTT(60) DEF PumpCounts, ServerForgets, rxData, env, outside
<1>29. CASE DeviceVanishes
  BY <1>29, PumpConstants, SMTT(60) DEF PumpCounts, DeviceVanishes, rxData, env, outside
<1>30. CASE Tick
  BY <1>30, PumpConstants, SMTT(60) DEF PumpCounts, Tick, rest, rxData, env, outside
<1>31. CASE Exited
  BY <1>31, PumpConstants, SMTT(60) DEF PumpCounts, Exited, vars, rxData, env, outside
<1>32. ASSUME NEW r \in Readers, ReaderFatal(r) PROVE PumpCounts'
  BY <1>32, PumpConstants, SMTT(60) DEF PumpCounts, ReaderFatal, rxData, env, outside
<1>33. ASSUME NEW r \in Readers, ReaderStops(r) PROVE PumpCounts'
  BY <1>33, PumpConstants, SMTT(60) DEF PumpCounts, ReaderStops, rxData, env, outside
<1>34. ASSUME NEW r \in Readers, ReaderExit(r) PROVE PumpCounts'
  BY <1>34, PumpConstants, SMTT(60) DEF PumpCounts, ReaderExit, rxData, env, outside
<1>35. CASE UNCHANGED vars
  BY <1>35, PumpConstants, SMTT(60) DEF PumpCounts, vars, rxData, env, outside
<1> QED
  BY <1>1, <1>2, <1>3, <1>4, <1>5, <1>6, <1>7, <1>8, <1>9, <1>10, <1>11, <1>12, <1>13, <1>14, <1>15, <1>16, <1>17, <1>18, <1>19, <1>20, <1>21, <1>22, <1>23, <1>24, <1>25, <1>26, <1>27, <1>28, <1>29, <1>30, <1>31, <1>32, <1>33, <1>34, <1>35
  DEF Next, Main, Rx, Reader

\* Every step leaves threads running only while the main thread has yet to
\* join them.
LEMMA PumpThreadsKept == ASSUME PumpStates, PumpRoutes, PumpThreads, [Next]_vars PROVE PumpThreads'
<1>1. CASE OpenTun
  BY <1>1, SMTT(60) DEF PumpStates, PumpThreads, ReadersIdle, OpenTun, Exit, rxData, env, outside
<1>2. CASE Authenticate
  BY <1>2, SMTT(60) DEF PumpStates, PumpThreads, ReadersIdle, Authenticate, Exit, rxData, env, outside
<1>3. CASE Retry
  BY <1>3, SMTT(60) DEF PumpStates, PumpThreads, ReadersIdle, Retry, Exit, rxData, env, outside
<1>4. CASE Returned
  BY <1>4 DEF PumpStates, PumpThreads, ReadersIdle, Returned, Exit, rxData, env, outside
<1>5. CASE InstallSignals
  BY <1>5, SMTT(60) DEF PumpStates, PumpThreads, ReadersIdle, InstallSignals, flags, rxData, env, outside
<1>6. CASE RouteSetup
  BY <1>6, SMTT(60) DEF PumpStates, PumpThreads, ReadersIdle, RouteSetup, PumpReturns, rxData, env, outside
<1>7. CASE CheckUserStop
  BY <1>7, SMTT(60) DEF PumpStates, PumpThreads, ReadersIdle, CheckUserStop, PumpReturns, rxData, env, outside
<1>8. CASE ClearStop
  BY <1>8, SMTT(60) DEF PumpStates, PumpThreads, ReadersIdle, ClearStop, rxData, env, outside
<1>9. CASE CreatePool
  BY <1>9, SMTT(60) DEF PumpStates, PumpThreads, ReadersIdle, CreatePool, PumpReturns, rxData, env, outside
<1>10. CASE SpawnRx
  BY <1>10, SMTT(60) DEF PumpStates, PumpThreads, ReadersIdle, SpawnRx, rxData, env, outside
<1>11. CASE UndoSpawn
  BY <1>11, SMTT(60) DEF PumpStates, PumpThreads, ReadersIdle, UndoSpawn, PumpReturns, rxData, env, outside
<1>12. CASE LoopTest
  BY <1>12, SMTT(60) DEF PumpStates, PumpThreads, ReadersIdle, LoopTest, rxData, env, outside
<1>13. CASE ProbeDevice
  BY <1>13, SMTT(60) DEF PumpStates, PumpThreads, ReadersIdle, ProbeDevice, rxData, env, outside
<1>14. CASE DestroyPool
  BY <1>14, SMTT(60) DEF PumpStates, PumpThreads, ReadersIdle, DestroyPool, rxData, env, outside
<1>15. CASE JoinRx
  BY <1>15, SMTT(60) DEF PumpStates, PumpThreads, ReadersIdle, JoinRx, rxData, env, outside
<1>16. CASE FinishPump
  BY <1>16, SMTT(60) DEF PumpStates, PumpThreads, ReadersIdle, FinishPump, PumpReturns, rxData, env, outside
<1>17. CASE RxStart
  BY <1>17, SMTT(60) DEF PumpStates, PumpThreads, ReadersIdle, RxStart, RxLoses, rest, rxData, env, outside
<1>18. CASE RxTop
  BY <1>18, SMTT(60) DEF PumpStates, PumpThreads, ReadersIdle, RxTop, RxLoses, Fails, Stale, rest, rxData, env, outside
<1>19. CASE RxRecv
  BY <1>19, SMTT(60) DEF PumpStates, PumpThreads, ReadersIdle, RxRecv, RxLoses, rest, rxData, env, outside
<1>20. CASE RxForeign
  BY <1>20, SMTT(60) DEF PumpStates, PumpThreads, ReadersIdle, RxForeign, NextDatagram, rest, rxData, env, outside
<1>21. CASE RxGenuine
  BY <1>21, SMTT(60) DEF PumpStates, PumpThreads, ReadersIdle, RxGenuine, NextDatagram, rest, rxData, env, outside
<1>22. CASE RxWriteStopped
  BY <1>22, SMTT(60) DEF PumpStates, PumpThreads, ReadersIdle, RxWriteStopped, rest, rxData, env, outside
<1>23. CASE RxEcho
  BY <1>23, SMTT(60) DEF PumpStates, PumpThreads, ReadersIdle, RxEcho, RxLoses, Fails, NextDatagram, rest, rxData, env, outside
<1>24. CASE RxEnds
  BY <1>24, SMTT(60) DEF PumpStates, PumpThreads, ReadersIdle, RxEnds, RxLoses, rest, rxData, env, outside
<1>25. CASE RxStops
  BY <1>25 DEF PumpStates, PumpThreads, ReadersIdle, RxStops, rxData, env, outside
<1>26. CASE Signal
  <2>1. CASE handler
    <3>1. UNCHANGED <<main, sock, reader, rx>>
      BY <1>26, <2>1 DEF Signal
    <3> QED
      BY <3>1 DEF PumpThreads, ReadersIdle
  <2>2. CASE ~handler
    <3>1. main \notin {"spawn", "undo", "loop", "probe", "destroy", "pool", "join"}
      BY <2>2 DEF PumpRoutes
    <3>2. main' = "exited" /\ UNCHANGED <<sock, reader, rx>>
      BY <1>26, <2>2, SMTT(60) DEF Signal, Exit
    <3> QED
      BY <3>1, <3>2 DEF PumpThreads, ReadersIdle
  <2> QED
    BY <2>1, <2>2
<1>27. CASE SignalUser
  BY <1>27, SMTT(60) DEF PumpStates, PumpThreads, ReadersIdle, SignalUser, rxData, env, outside
<1>28. CASE ServerForgets
  BY <1>28, SMTT(60) DEF PumpStates, PumpThreads, ReadersIdle, ServerForgets, rxData, env, outside
<1>29. CASE DeviceVanishes
  BY <1>29, SMTT(60) DEF PumpStates, PumpThreads, ReadersIdle, DeviceVanishes, rxData, env, outside
<1>30. CASE Tick
  BY <1>30, SMTT(60) DEF PumpStates, PumpThreads, ReadersIdle, Tick, rest, rxData, env, outside
<1>31. CASE Exited
  BY <1>31, SMTT(60) DEF PumpStates, PumpThreads, ReadersIdle, Exited, vars, rxData, env, outside
<1>32. ASSUME NEW r \in Readers, ReaderFatal(r) PROVE PumpThreads'
  BY <1>32, SMTT(60) DEF PumpStates, PumpThreads, ReadersIdle, ReaderFatal, rxData, env, outside
<1>33. ASSUME NEW r \in Readers, ReaderStops(r) PROVE PumpThreads'
  BY <1>33, SMTT(60) DEF PumpStates, PumpThreads, ReadersIdle, ReaderStops, rxData, env, outside
<1>34. ASSUME NEW r \in Readers, ReaderExit(r) PROVE PumpThreads'
  BY <1>34, SMTT(60) DEF PumpStates, PumpThreads, ReadersIdle, ReaderExit, rxData, env, outside
<1>35. CASE UNCHANGED vars
  BY <1>35, SMTT(60) DEF PumpStates, PumpThreads, ReadersIdle, vars, rxData, env, outside
<1> QED
  BY <1>1, <1>2, <1>3, <1>4, <1>5, <1>6, <1>7, <1>8, <1>9, <1>10, <1>11, <1>12, <1>13, <1>14, <1>15, <1>16, <1>17, <1>18, <1>19, <1>20, <1>21, <1>22, <1>23, <1>24, <1>25, <1>26, <1>27, <1>28, <1>29, <1>30, <1>31, <1>32, <1>33, <1>34, <1>35, SMTT(60)
  DEF Next, Main, Rx, Reader

\* Every step leaves the routes with the device and the session they belong
\* to.
LEMMA PumpRoutesKept == ASSUME PumpFlags, PumpRoutes, [Next]_vars PROVE PumpRoutes'
<1>1. CASE OpenTun
  BY <1>1, SMTT(60) DEF PumpRoutes, OpenTun, Exit, rxData, env, outside
<1>2. CASE Authenticate
  BY <1>2, SMTT(60) DEF PumpRoutes, Authenticate, Exit, rxData, env, outside
<1>3. CASE Retry
  BY <1>3, SMTT(60) DEF PumpRoutes, Retry, Exit, rxData, env, outside
<1>4. CASE Returned
  BY <1>4, SMTT(60) DEF PumpRoutes, Returned, Exit, rxData, env, outside
<1>5. CASE InstallSignals
  BY <1>5, SMTT(60) DEF PumpRoutes, InstallSignals, flags, rxData, env, outside
<1>6. CASE RouteSetup
  <2>1. /\ main = "setup" /\ UNCHANGED handler
        /\ \/ routes' = routes \cup {"tunnel"} \cup LocalRoutes /\ main' = "check"
           \/ routes' \in {routes, routes \cup LocalRoutes} /\ main' = "ret"
    BY <1>6, Zenon DEF RouteSetup, PumpReturns, env
  <2>2. "tunnel" \notin routes /\ handler /\ routes \subseteq {"tunnel", "local"}
        /\ "tunnel" \notin LocalRoutes /\ LocalRoutes \subseteq {"local"}
    BY <2>1, PumpConstants, Zenon DEF PumpRoutes
  <2>3. routes' \subseteq {"tunnel", "local"} /\ ("tunnel" \in routes' => main' = "check")
    BY <2>1, <2>2, Zenon
  <2> QED
    BY <2>1, <2>2, <2>3, Zenon DEF PumpRoutes
<1>7. CASE CheckUserStop
  <2>1. /\ main = "check" /\ UNCHANGED handler
        /\ \/ routes' = routes \ {"tunnel"} /\ main' = "ret"
           \/ routes' = routes /\ main' = "clear"
    BY <1>7, Zenon DEF CheckUserStop, TeardownRoutes, PumpReturns, env
  <2>2. CASE routes' = routes \ {"tunnel"} /\ main' = "ret"
    BY <2>2, Zenon DEF PumpRoutes
  <2>3. CASE routes' = routes /\ main' = "clear"
    BY <2>1, <2>3, Zenon DEF PumpRoutes
  <2> QED
    BY <2>1, <2>2, <2>3, Zenon
<1>8. CASE ClearStop
  BY <1>8, SMTT(60) DEF PumpRoutes, ClearStop, rxData, env, outside
<1>9. CASE CreatePool
  <2>1. /\ main = "create" /\ UNCHANGED handler
        /\ \/ routes' = routes \ {"tunnel"} /\ main' = "ret"
           \/ routes' = routes /\ main' = "spawn"
    BY <1>9, Zenon DEF CreatePool, TeardownRoutes, PumpReturns, env
  <2>2. CASE routes' = routes \ {"tunnel"} /\ main' = "ret"
    BY <2>2, Zenon DEF PumpRoutes
  <2>3. CASE routes' = routes /\ main' = "spawn"
    BY <2>1, <2>3, Zenon DEF PumpRoutes
  <2> QED
    BY <2>1, <2>2, <2>3, Zenon
<1>10. CASE SpawnRx
  BY <1>10 DEF PumpRoutes, SpawnRx, rxData, env, outside
<1>11. CASE UndoSpawn
  BY <1>11 DEF PumpRoutes, UndoSpawn, TeardownRoutes, PumpReturns, rxData, env, outside
<1>12. CASE LoopTest
  BY <1>12, SMTT(60) DEF PumpRoutes, LoopTest, rxData, env, outside
<1>13. CASE ProbeDevice
  BY <1>13, SMTT(60) DEF PumpRoutes, ProbeDevice, rxData, env, outside
<1>14. CASE DestroyPool
  BY <1>14, SMTT(60) DEF PumpRoutes, DestroyPool, rxData, env, outside
<1>15. CASE JoinRx
  BY <1>15, SMTT(60) DEF PumpRoutes, JoinRx, rxData, env, outside
<1>16. CASE FinishPump
  BY <1>16, SMTT(60) DEF PumpRoutes, FinishPump, TeardownRoutes, PumpReturns, rxData, env, outside
<1>17. CASE RxStart
  BY <1>17, SMTT(60) DEF PumpRoutes, RxStart, RxLoses, rest, rxData, env, outside
<1>18. CASE RxTop
  BY <1>18, SMTT(60) DEF PumpRoutes, RxTop, RxLoses, Fails, Stale, rest, rxData, env, outside
<1>19. CASE RxRecv
  BY <1>19, SMTT(60) DEF PumpRoutes, RxRecv, RxLoses, rest, rxData, env, outside
<1>20. CASE RxForeign
  BY <1>20, SMTT(60) DEF PumpRoutes, RxForeign, NextDatagram, rest, rxData, env, outside
<1>21. CASE RxGenuine
  BY <1>21, SMTT(60) DEF PumpRoutes, RxGenuine, NextDatagram, rest, rxData, env, outside
<1>22. CASE RxWriteStopped
  BY <1>22, SMTT(60) DEF PumpRoutes, RxWriteStopped, rest, rxData, env, outside
<1>23. CASE RxEcho
  BY <1>23, SMTT(60) DEF PumpRoutes, RxEcho, RxLoses, Fails, NextDatagram, rest, rxData, env, outside
<1>24. CASE RxEnds
  BY <1>24, SMTT(60) DEF PumpRoutes, RxEnds, RxLoses, rest, rxData, env, outside
<1>25. CASE RxStops
  BY <1>25 DEF PumpRoutes, RxStops, rxData, env, outside
<1>26. CASE Signal
  <2>1. CASE handler
    <3>1. UNCHANGED <<main, handler, routes>>
      BY <1>26, <2>1 DEF Signal
    <3> QED
      BY <3>1 DEF PumpRoutes
  <2>2. CASE ~handler
    <3>1. "tunnel" \notin routes
      BY <2>2, Zenon DEF PumpRoutes
    <3>2. main' = "exited" /\ routes' = routes
      BY <1>26, <2>2, SMTT(60) DEF Signal, Exit
    <3> QED
      BY <3>1, <3>2 DEF PumpRoutes
  <2> QED
    BY <2>1, <2>2
<1>27. CASE SignalUser
  BY <1>27, SMTT(60) DEF PumpRoutes, SignalUser, rxData, env, outside
<1>28. CASE ServerForgets
  BY <1>28, SMTT(60) DEF PumpRoutes, ServerForgets, rxData, env, outside
<1>29. CASE DeviceVanishes
  BY <1>29, SMTT(60) DEF PumpRoutes, DeviceVanishes, rxData, env, outside
<1>30. CASE Tick
  BY <1>30, SMTT(60) DEF PumpRoutes, Tick, rest, rxData, env, outside
<1>31. CASE Exited
  BY <1>31, SMTT(60) DEF PumpRoutes, Exited, vars, rxData, env, outside
<1>32. ASSUME NEW r \in Readers, ReaderFatal(r) PROVE PumpRoutes'
  BY <1>32, SMTT(60) DEF PumpRoutes, ReaderFatal, rxData, env, outside
<1>33. ASSUME NEW r \in Readers, ReaderStops(r) PROVE PumpRoutes'
  BY <1>33, SMTT(60) DEF PumpRoutes, ReaderStops, rxData, env, outside
<1>34. ASSUME NEW r \in Readers, ReaderExit(r) PROVE PumpRoutes'
  BY <1>34, SMTT(60) DEF PumpRoutes, ReaderExit, rxData, env, outside
<1>35. CASE UNCHANGED vars
  BY <1>35, SMTT(60) DEF PumpRoutes, vars, rxData, env, outside
<1> QED
  BY <1>1, <1>2, <1>3, <1>4, <1>5, <1>6, <1>7, <1>8, <1>9, <1>10, <1>11, <1>12, <1>13, <1>14, <1>15, <1>16, <1>17, <1>18, <1>19, <1>20, <1>21, <1>22, <1>23, <1>24, <1>25, <1>26, <1>27, <1>28, <1>29, <1>30, <1>31, <1>32, <1>33, <1>34, <1>35, SMTT(60), Z3T(60)
  DEF Next, Main, Rx, Reader

\* Every step leaves a reason behind whenever it makes the pump stop.
LEMMA PumpReasonsKept == ASSUME PumpStates, PumpThreads, PumpReasons, [Next]_vars PROVE PumpReasons'
<1>1. CASE OpenTun
  BY <1>1, SMTT(60) DEF PumpStates, PumpThreads, ReadersIdle, PumpReasons, OpenTun, Exit, rxData, env, outside
<1>2. CASE Authenticate
  BY <1>2, SMTT(60) DEF PumpStates, PumpThreads, ReadersIdle, PumpReasons, Authenticate, Exit, rxData, env, outside
<1>3. CASE Retry
  BY <1>3, SMTT(60) DEF PumpStates, PumpThreads, ReadersIdle, PumpReasons, Retry, Exit, rxData, env, outside
<1>4. CASE Returned
  BY <1>4, SMTT(60) DEF PumpStates, PumpThreads, ReadersIdle, PumpReasons, Returned, Exit, rxData, env, outside
<1>5. CASE InstallSignals
  BY <1>5, SMTT(60) DEF PumpStates, PumpThreads, ReadersIdle, PumpReasons, InstallSignals, flags, rxData, env, outside
<1>6. CASE RouteSetup
  BY <1>6, SMTT(60) DEF PumpStates, PumpThreads, ReadersIdle, PumpReasons, RouteSetup, PumpReturns, rxData, env, outside
<1>7. CASE CheckUserStop
  BY <1>7, SMTT(60) DEF PumpStates, PumpThreads, ReadersIdle, PumpReasons, CheckUserStop, PumpReturns, rxData, env, outside
<1>8. CASE ClearStop
  BY <1>8, SMTT(60) DEF PumpStates, PumpThreads, ReadersIdle, PumpReasons, ClearStop, rxData, env, outside
<1>9. CASE CreatePool
  BY <1>9, SMTT(60) DEF PumpStates, PumpThreads, ReadersIdle, PumpReasons, CreatePool, PumpReturns, rxData, env, outside
<1>10. CASE SpawnRx
  BY <1>10, SMTT(60) DEF PumpStates, PumpThreads, ReadersIdle, PumpReasons, SpawnRx, rxData, env, outside
<1>11. CASE UndoSpawn
  BY <1>11, SMTT(60) DEF PumpStates, PumpThreads, ReadersIdle, PumpReasons, UndoSpawn, PumpReturns, rxData, env, outside
<1>12. CASE LoopTest
  BY <1>12, SMTT(60) DEF PumpStates, PumpThreads, ReadersIdle, PumpReasons, LoopTest, rxData, env, outside
<1>13. CASE ProbeDevice
  BY <1>13, SMTT(60) DEF PumpStates, PumpThreads, ReadersIdle, PumpReasons, ProbeDevice, rxData, env, outside
<1>14. CASE DestroyPool
  BY <1>14, SMTT(60) DEF PumpStates, PumpThreads, ReadersIdle, PumpReasons, DestroyPool, rxData, env, outside
<1>15. CASE JoinRx
  BY <1>15, SMTT(60) DEF PumpStates, PumpThreads, ReadersIdle, PumpReasons, JoinRx, rxData, env, outside
<1>16. CASE FinishPump
  BY <1>16, SMTT(60) DEF PumpStates, PumpThreads, ReadersIdle, PumpReasons, FinishPump, PumpReturns, rxData, env, outside
<1>17. CASE RxStart
  BY <1>17, SMTT(60), Z3T(60) DEF PumpStates, PumpThreads, ReadersIdle, PumpReasons, RxStart, RxLoses, rest, rxData, env, outside
<1>18. CASE RxTop
  BY <1>18, SMTT(60), Z3T(60) DEF PumpStates, PumpThreads, ReadersIdle, PumpReasons, RxTop, RxLoses, Fails, Stale, rest, rxData, env, outside
<1>19. CASE RxRecv
  BY <1>19, SMTT(60) DEF PumpStates, PumpThreads, ReadersIdle, PumpReasons, RxRecv, RxLoses, rest, rxData, env, outside
<1>20. CASE RxForeign
  BY <1>20, SMTT(60) DEF PumpStates, PumpThreads, ReadersIdle, PumpReasons, RxForeign, NextDatagram, rest, rxData, env, outside
<1>21. CASE RxGenuine
  BY <1>21, SMTT(60) DEF PumpStates, PumpThreads, ReadersIdle, PumpReasons, RxGenuine, NextDatagram, rest, rxData, env, outside
<1>22. CASE RxWriteStopped
  BY <1>22, SMTT(60) DEF PumpStates, PumpThreads, ReadersIdle, PumpReasons, RxWriteStopped, rest, rxData, env, outside
<1>23. CASE RxEcho
  BY <1>23, SMTT(60) DEF PumpStates, PumpThreads, ReadersIdle, PumpReasons, RxEcho, RxLoses, Fails, NextDatagram, rest, rxData, env, outside
<1>24. CASE RxEnds
  BY <1>24, SMTT(60) DEF PumpStates, PumpThreads, ReadersIdle, PumpReasons, RxEnds, RxLoses, rest, rxData, env, outside
<1>25. CASE RxStops
  BY <1>25, SMTT(60) DEF PumpStates, PumpThreads, ReadersIdle, PumpReasons, RxStops, rxData, env, outside
<1>26. CASE Signal
  BY <1>26, SMTT(60) DEF PumpStates, PumpThreads, ReadersIdle, PumpReasons, Signal, Exit, rxData, env, outside
<1>27. CASE SignalUser
  BY <1>27, SMTT(60) DEF PumpStates, PumpThreads, ReadersIdle, PumpReasons, SignalUser, rxData, env, outside
<1>28. CASE ServerForgets
  BY <1>28, SMTT(60) DEF PumpStates, PumpThreads, ReadersIdle, PumpReasons, ServerForgets, rxData, env, outside
<1>29. CASE DeviceVanishes
  BY <1>29, SMTT(60) DEF PumpStates, PumpThreads, ReadersIdle, PumpReasons, DeviceVanishes, rxData, env, outside
<1>30. CASE Tick
  BY <1>30, SMTT(60) DEF PumpStates, PumpThreads, ReadersIdle, PumpReasons, Tick, rest, rxData, env, outside
<1>31. CASE Exited
  BY <1>31, SMTT(60) DEF PumpStates, PumpThreads, ReadersIdle, PumpReasons, Exited, vars, rxData, env, outside
<1>32. ASSUME NEW r \in Readers, ReaderFatal(r) PROVE PumpReasons'
  BY <1>32, SMTT(60) DEF PumpStates, PumpThreads, ReadersIdle, PumpReasons, ReaderFatal, rxData, env, outside
<1>33. ASSUME NEW r \in Readers, ReaderStops(r) PROVE PumpReasons'
  BY <1>33, SMTT(60) DEF PumpStates, PumpThreads, ReadersIdle, PumpReasons, ReaderStops, rxData, env, outside
<1>34. ASSUME NEW r \in Readers, ReaderExit(r) PROVE PumpReasons'
  BY <1>34, SMTT(60) DEF PumpStates, PumpThreads, ReadersIdle, PumpReasons, ReaderExit, rxData, env, outside
<1>35. CASE UNCHANGED vars
  BY <1>35 DEF PumpStates, PumpThreads, ReadersIdle, PumpReasons, vars, rxData, env, outside
<1> QED
  BY <1>1, <1>2, <1>3, <1>4, <1>5, <1>6, <1>7, <1>8, <1>9, <1>10, <1>11, <1>12, <1>13, <1>14, <1>15, <1>16, <1>17, <1>18, <1>19, <1>20, <1>21, <1>22, <1>23, <1>24, <1>25, <1>26, <1>27, <1>28, <1>29, <1>30, <1>31, <1>32, <1>33, <1>34, <1>35, SMTT(60), Z3T(60)
  DEF Next, Main, Rx, Reader

\* The first state.
LEMMA PumpInitially == ASSUME Init PROVE PumpInv
<1>1. PumpFlags
  BY Zenon DEF Init, PumpFlags
<1>2. PumpStates
  BY DEF Init, PumpStates, MainStates
<1>3. PumpCounts
  BY PumpConstants DEF Init, PumpCounts
<1>4. PumpThreads
  BY DEF Init, PumpThreads, ReadersIdle
<1>5. PumpRoutes /\ PumpReasons
  BY DEF Init, PumpRoutes, PumpReasons
<1> QED
  BY <1>1, <1>2, <1>3, <1>4, <1>5 DEF PumpInv

\* The strengthening holds for every number of readers and every bound of the
\* counters.
THEOREM PumpInvariant == Spec => []PumpInv
<1>1. ASSUME PumpInv, [Next]_vars PROVE PumpInv'
  <2>1. PumpFlags' /\ PumpStates' /\ PumpCounts'
    BY <1>1, PumpFlagsKept, PumpStatesKept, PumpCountsKept DEF PumpInv
  <2>2. PumpThreads' /\ PumpRoutes' /\ PumpReasons'
    BY <1>1, PumpThreadsKept, PumpRoutesKept, PumpReasonsKept DEF PumpInv
  <2> QED
    BY <2>1, <2>2 DEF PumpInv
<1> QED
  BY <1>1, PumpInitially, PTL DEF Spec

\* The pump is accounted for, for any number of readers and any limits: no
\* thread outlives the session's socket, no route into the tunnel outlives the
\* client, and exit code 0 means the user asked (run_pump, cmd_proxy).
THEOREM PumpIsAccounted == Spec => []PumpAccounted
<1>1. PumpInv => RoutesRestored
  BY DEF PumpInv, PumpRoutes, RoutesRestored
<1>2. PumpInv => CleanExitIsUserStop
  BY DEF PumpInv, PumpReasons, CleanExitIsUserStop
<1>3. PumpInv => SocketOutlivesThreads
  <2> SUFFICES ASSUME PumpInv PROVE SocketOutlivesThreads
    OBVIOUS
  <2>1. {reconnecting, handler, g_stop, g_user_stop, session_lost,
         tun, sock, alive, quit} \subseteq BOOLEAN
    BY SMTT(60) DEF PumpInv, PumpFlags
  <2>2. TypeOK
    BY <2>1 DEF PumpInv, PumpStates, PumpCounts, PumpRoutes, TypeOK
  <2>3. ~sock => ReadersIdle /\ rx \in {"off", "done"}
    BY DEF PumpInv, PumpThreads
  <2> QED
    BY <2>2, <2>3 DEF SocketOutlivesThreads
<1> QED
  BY <1>1, <1>2, <1>3, PumpInvariant, PTL DEF PumpAccounted
=============================================================================
