--------------------------- MODULE TunPoolProofs ----------------------------
(* Proofs about the server's pool of TUN queues, for every number of       *)
(* queues, writers, descriptors and device generations.                    *)
EXTENDS TunPool, TLAPS

\* The slots whose descriptor is the pool's: the published ones, the one about
\* to be published and the one that a shrink has not closed yet.
Filled ==
  {i \in Slots : i < nq \/ (i = nq /\ own.at \in {"publish", "join", "close"})}

\* Where the pool's owner can be.
OwnerPlaces ==
  {"create", "grow", "start", "publish", "register", "shrink", "del", "join", "close",
   "poll", "probe", "index", "tick", "readers", "closing", "done"}

\* The types of what the owner keeps.
OwnerTypes ==
  /\ up \in BOOLEAN /\ gen \in Gens /\ stop \in BOOLEAN /\ exitCb \in BOOLEAN
  /\ nq \in 1..MaxQ
  /\ ctl \in [slow : BOOLEAN, idle : Nat, stall : BOOLEAN]
  /\ own \in [at : OwnerPlaces, target : 1..MaxQ, fd : Fds, lost : BOOLEAN]
  /\ pre \in Seq(Fds)

\* The types of the descriptors, the slots, the readers and the writers.
TableTypes ==
  /\ file \in [Fds -> Gens \union {Free}]
  /\ qs \in [Slots -> [fd : Fds, stop : BOOLEAN, dead : BOOLEAN]]
  /\ rd \in [Slots -> {"none", "loop", "poll", "drain", "gone"}]
  /\ held \in [Slots -> BOOLEAN]
  /\ wr \in [Writers -> [at : {"idle", "locked", "chosen", "write", "owner", "out"},
                         i : Slots]]

\* All types.
PoolTypes == OwnerTypes /\ TableTypes

\* Where the owner stands bounds the pool.
PoolPlaces ==
  /\ own.at = "create" => nq <= Least(InitQ, MaxQ)
  /\ own.at # "create" => pre = <<>>
  /\ own.at \in {"start", "publish"} => nq < own.target
  /\ own.at \in {"shrink", "del"} => nq > own.target
  /\ own.at \in {"join", "close"} => nq < MaxQ /\ nq >= own.target
  /\ own.at = "grow" /\ ~exitCb => nq <= own.target
  /\ own.at \in {"shrink", "del", "join", "close", "poll", "probe", "index", "tick",
                 "readers", "closing", "done"} => exitCb

\* The filled slots, the pre-opened descriptors and the one just attached are
\* open and different, and nothing else is open.
PoolFds ==
  /\ \A i \in Filled : file[qs[i].fd] \in Gens
  /\ \A i, j \in Filled : i # j => qs[i].fd # qs[j].fd
  /\ \A k \in DOMAIN pre :
       /\ file[pre[k]] \in Gens
       /\ \A i \in Filled : qs[i].fd # pre[k]
       /\ \A l \in DOMAIN pre : k # l => pre[k] # pre[l]
  /\ own.at = "start" => /\ file[own.fd] \in Gens
                         /\ \A i \in Filled : qs[i].fd # own.fd
  /\ \A f \in Fds : file[f] \in Gens =>
       \/ \E i \in Filled : qs[i].fd = f
       \/ \E k \in DOMAIN pre : pre[k] = f
       \/ own.at = "start" /\ own.fd = f

\* Readers live in filled slots, and are over before the descriptors go.
PoolReaders ==
  /\ \A i \in Slots : rd[i] # "none" => i \in Filled
  /\ own.at = "close" => rd[nq] = "none"
  /\ own.at \in {"closing", "done"} => \A i \in Slots : rd[i] \in {"none", "gone"}

\* A writer inside the lock has selected a slot that nobody can close.
PoolWriters ==
  /\ \A w \in Writers : wr[w].at \in {"chosen", "write"} => 
       wr[w].i < nq \/ (wr[w].i = nq /\ own.at \in {"join", "close"})
  /\ own.at \in {"readers", "closing", "done"} => \A w \in Writers : wr[w].at = "out"

\* Frames survive their reader only before exit_cb is registered, in a slot
\* that the pool will not resize away any more.
PoolHeld ==
  /\ \A i \in Slots : rd[i] = "none" => ~held[i]
  /\ \A i \in Slots : qs[i].stop => exitCb
  /\ \A i \in Slots : rd[i] = "drain" => stop \/ qs[i].stop \/ qs[i].dead
  /\ \A i \in Slots : rd[i] = "gone" /\ held[i] =>
       /\ stop \/ qs[i].dead
       /\ own.at \notin {"shrink", "del", "join", "close"}
       /\ own.at = "grow" => nq <= own.target

\* The inductive strengthening of TunAccounted.
PoolInv ==
  /\ PoolTypes /\ PoolPlaces
  /\ IF own.at = "done" THEN \A f \in Fds : file[f] = Free ELSE PoolFds
  /\ PoolReaders /\ PoolWriters /\ PoolHeld

\* What Tail leaves of a sequence.
LEMMA SeqTail ==
  ASSUME NEW S, NEW q \in Seq(S), q # <<>>
  PROVE  /\ Head(q) \in S /\ Tail(q) \in Seq(S) /\ Len(q) \in Nat \ {0}
         /\ Len(Tail(q)) = Len(q) - 1 /\ DOMAIN q = 1..Len(q) /\ DOMAIN Tail(q) = 1..Len(Tail(q))
         /\ \A k \in 1..Len(q) - 1 : Tail(q)[k] = q[k + 1]
         /\ Head(q) = q[1]
  OBVIOUS

\* The constants in the sets that the types name.
LEMMA FirstOnes == 0 \in Slots /\ 1 \in Fds /\ 1 \in 1..MaxQ
  BY PoolAssumption DEF Slots, Fds

\* The slot that a grow fills or a shrink empties is a slot.
LEMMA NextSlot ==
  ASSUME OwnerTypes, PoolPlaces,
         own.at \in {"start", "publish", "join", "close"} \/ (own.at = "create" /\ nq < Least(InitQ, MaxQ))
  PROVE  nq \in Slots
  BY PoolAssumption DEF OwnerTypes, PoolPlaces, Slots, Least

\* The slot a shrink empties is a slot.
LEMMA LastSlot == ASSUME OwnerTypes PROVE nq - 1 \in Slots
  BY PoolAssumption, SMTT(60) DEF OwnerTypes, Slots

\* Every step keeps the types of what the owner keeps.
LEMMA OwnerTypesKept == ASSUME OwnerTypes, PoolPlaces, [Next]_vars PROVE OwnerTypes'
<1>1. CASE TakePre
  <2>1. nq + 1 \in 1..MaxQ
    BY <1>1, PoolAssumption, SMTT(60) DEF TakePre, OwnerTypes, Least
  <2>2. Tail(pre) \in Seq(Fds)
    BY <1>1, SeqTail DEF TakePre, OwnerTypes
  <2> QED
    BY <1>1, <2>1, <2>2 DEF TakePre, OwnerTypes
<1>2. CASE DropPre
  <2>1. Least(InitQ, MaxQ) \in 1..MaxQ
    BY PoolAssumption DEF Least
  <2>2. <<>> \in Seq(Fds)
    OBVIOUS
  <2> QED
    BY <1>2, <2>1, <2>2, Zenon DEF DropPre, OwnerTypes, OwnerPlaces
<1>3. CASE Attach
  <2>1. PICK f \in Fds : own' = [own EXCEPT !.at = "start", !.fd = f]
    BY <1>3, Zenon DEF Attach
  <2>2. gen' \in Gens
    BY <1>3, PoolAssumption, SMTT(60) DEF Attach, OwnerTypes, Gens
  <2> QED
    BY <1>3, <2>1, <2>2, Zenon DEF Attach, OwnerTypes, OwnerPlaces
<1>4. CASE AttachFails
  BY <1>4, FirstOnes DEF OwnerTypes, OwnerPlaces, AttachFails, Resized, At
<1>5. CASE StartReader
  BY <1>5, FirstOnes, Zenon DEF StartReader, Slot, OwnerTypes, OwnerPlaces
<1>6. CASE StartFails
  BY <1>6, FirstOnes DEF StartFails, Resized, At, OwnerTypes, OwnerPlaces
<1>7. CASE PublishQueue
  <2>1. nq + 1 \in 1..MaxQ
    BY <1>7, PoolAssumption, SMTT(60) DEF PublishQueue, OwnerTypes, PoolPlaces
  <2> QED
    BY <1>7, <2>1 DEF PublishQueue, OwnerTypes, OwnerPlaces
<1>8. CASE GrowDone
  BY <1>8, FirstOnes DEF GrowDone, Resized, At, OwnerTypes, OwnerPlaces
<1>9. CASE Register
  BY <1>9, FirstOnes DEF OwnerTypes, OwnerPlaces, Register, At
<1>10. CASE DelStop
  BY <1>10 DEF DelStop, OwnerTypes, OwnerPlaces
<1>11. CASE DelPublish
  <2>1. nq - 1 \in 1..MaxQ
    BY <1>11, PoolAssumption DEF DelPublish, OwnerTypes, PoolPlaces
  <2> QED
    BY <1>11, <2>1 DEF DelPublish, OwnerTypes, OwnerPlaces
<1>12. CASE DelJoin
  BY <1>12, FirstOnes, SMTT(60) DEF OwnerTypes, OwnerPlaces, DelJoin
<1>13. CASE DelClose
  BY <1>13, FirstOnes DEF DelClose, Resized, At, OwnerTypes, OwnerPlaces
<1>14. CASE ProbeDue
  BY <1>14, FirstOnes DEF OwnerTypes, OwnerPlaces, ProbeDue, At
<1>15. CASE TickDue
  BY <1>15, FirstOnes DEF OwnerTypes, OwnerPlaces, TickDue, At
<1>16. CASE ProbeReaders
  BY <1>16, FirstOnes, Zenon DEF ProbeReaders, At, SomeDead, OwnerTypes, OwnerPlaces
<1>17. CASE ProbeIndex
  BY <1>17, FirstOnes DEF OwnerTypes, OwnerPlaces, ProbeIndex, At
<1>18. CASE TickSkips
  BY <1>18, FirstOnes DEF OwnerTypes, OwnerPlaces, TickSkips, At
<1>19. CASE JoinWriters
  BY <1>19, FirstOnes DEF OwnerTypes, OwnerPlaces, JoinWriters, At
<1>20. CASE JoinReaders
  BY <1>20, FirstOnes DEF OwnerTypes, OwnerPlaces, JoinReaders, At, InPool
<1>21. CASE CloseAll
  BY <1>21, FirstOnes DEF OwnerTypes, OwnerPlaces, CloseAll, At, InPool, NoWriterInside
<1>22. CASE DeviceDeleted
  BY <1>22, FirstOnes, Zenon DEF OwnerTypes, OwnerPlaces, DeviceDeleted
<1>23. CASE Signal
  BY <1>23, FirstOnes DEF OwnerTypes, OwnerPlaces, Signal
<1>24. CASE Finished
  BY <1>24, FirstOnes DEF OwnerTypes, OwnerPlaces, Finished, vars
<1>25. ASSUME NEW busy \in {"high", "mid", "low"}, TickSteers(busy) PROVE OwnerTypes'
  <2> DEFINE s == Steered(busy)
  <2>1. s.slow \in BOOLEAN
    BY <1>25, Zenon DEF Steered, OwnerTypes
  <2>2. s.idle \in Nat
    BY <1>25, PoolAssumption DEF Steered, OwnerTypes, Least
  <2>3. s.target \in Nat /\ s.target >= 1
    BY <1>25, SMTT(60) DEF Steered, OwnerTypes
  <2> HIDE DEF s
  <2>4. Least(s.target, MaxQ) \in 1..MaxQ
    BY <2>3, PoolAssumption DEF Least
  <2>5. /\ ctl' = [slow |-> s.slow, idle |-> s.idle, stall |-> FALSE]
        /\ own' = [own EXCEPT !.at = "grow", !.target = Least(s.target, MaxQ)]
        /\ UNCHANGED <<up, gen, nq, pre, exitCb, stop>>
    BY <1>25 DEF TickSteers, s
  <2> QED
    BY <2>1, <2>2, <2>4, <2>5, Zenon DEF OwnerTypes, OwnerPlaces
<1>26. ASSUME NEW i \in Slots, ReaderLoop(i) PROVE OwnerTypes'
  BY <1>26 DEF ReaderLoop, OwnerTypes
<1>27. ASSUME NEW i \in Slots, ReaderServe(i) PROVE OwnerTypes'
  BY <1>27 DEF ReaderServe, OwnerTypes
<1>28. ASSUME NEW i \in Slots, ReaderLost(i) PROVE OwnerTypes'
  BY <1>28 DEF ReaderLost, OwnerTypes
<1>29. ASSUME NEW i \in Slots, ReaderExit(i) PROVE OwnerTypes'
  BY <1>29 DEF ReaderExit, OwnerTypes
<1>30. ASSUME NEW w \in Writers, WriterLock(w) PROVE OwnerTypes'
  BY <1>30 DEF WriterLock, WriterGo, OwnerTypes
<1>31. ASSUME NEW w \in Writers, WriterSelect(w) PROVE OwnerTypes'
  BY <1>31 DEF WriterSelect, WriterGo, OwnerTypes
<1>32. ASSUME NEW w \in Writers, WriterCheck(w) PROVE OwnerTypes'
  BY <1>32 DEF WriterCheck, WriterGo, OwnerTypes
<1>33. ASSUME NEW w \in Writers, WriterWrite(w) PROVE OwnerTypes'
  BY <1>33 DEF WriterWrite, WriterGo, OwnerTypes
<1>34. ASSUME NEW w \in Writers, WriterOwnerFd(w) PROVE OwnerTypes'
  BY <1>34, Zenon DEF WriterOwnerFd, WriterGo, OwnerTypes
<1>35. ASSUME NEW w \in Writers, WriterLeave(w) PROVE OwnerTypes'
  BY <1>35 DEF WriterLeave, WriterGo, OwnerTypes
<1>36. CASE UNCHANGED vars
  BY <1>36, FirstOnes DEF OwnerTypes, OwnerPlaces, vars
<1> QED
  BY <1>1, <1>2, <1>3, <1>4, <1>5, <1>6, <1>7, <1>8, <1>9, <1>10, <1>11, <1>12, <1>13, <1>14, <1>15, <1>16, <1>17, <1>18, <1>19, <1>20, <1>21, <1>22, <1>23, <1>24, <1>25, <1>26, <1>27, <1>28, <1>29, <1>30, <1>31, <1>32, <1>33, <1>34, <1>35, <1>36, SMTT(60)
  DEF Next, Owner, Reader, Writer

\* A flush leaves flags of the slots.
LEMMA FlushedType ==
  ASSUME TableTypes, NEW i \in Slots
  PROVE  /\ Flushed(i) \subseteq [Slots -> BOOLEAN]
         /\ [held EXCEPT ![i] = FALSE] \in [Slots -> BOOLEAN]
  BY PoolAssumption DEF Flushed, TableTypes

\* What a step of a writer leaves alone, and the one entry that it changes.
LEMMA WriterMoves ==
  ASSUME NEW w \in Writers, Writer(w), TableTypes, OwnerTypes
  PROVE  /\ UNCHANGED <<up, gen, file, qs, rd, held, nq, own, pre, exitCb, stop>>
         /\ \E to \in {"idle", "locked", "chosen", "write", "owner", "out"}, i \in Slots :
              wr' = [wr EXCEPT ![w] = [at |-> to, i |-> i]]
<1>1. CASE WriterLock(w)
  BY <1>1, FirstOnes, Zenon DEF WriterLock, WriterGo
<1>2. CASE WriterSelect(w)
  BY <1>2, Zenon DEF WriterSelect, WriterGo, InPool
<1>3. CASE WriterCheck(w)
  BY <1>3, Zenon DEF WriterCheck, WriterGo, TableTypes
<1>4. CASE WriterWrite(w)
  BY <1>4, FirstOnes DEF WriterWrite, WriterGo
<1>5. CASE WriterOwnerFd(w)
  BY <1>5, FirstOnes, Zenon DEF WriterOwnerFd, WriterGo
<1>6. CASE WriterLeave(w)
  BY <1>6, FirstOnes, Zenon DEF WriterLeave, WriterGo
<1> QED
  BY <1>1, <1>2, <1>3, <1>4, <1>5, <1>6 DEF Writer

\* Every step keeps the types of the table.
LEMMA TableTypesKept == ASSUME OwnerTypes, PoolPlaces, TableTypes, [Next]_vars PROVE TableTypes'
<1>1. CASE TakePre
  <2>1. nq \in Slots
    BY <1>1, NextSlot DEF TakePre
  <2>2. Head(pre) \in Fds
    BY <1>1, SeqTail DEF TakePre, OwnerTypes
  <2> QED
    BY <1>1, <2>1, <2>2 DEF TakePre, Slot, TableTypes
<1>2. CASE DropPre
  BY <1>2 DEF DropPre, TableTypes
<1>3. CASE Attach
  <2>1. gen' \in Gens
    BY <1>3, PoolAssumption, SMTT(60) DEF Attach, OwnerTypes, Gens
  <2> QED
    BY <1>3, <2>1 DEF Attach, TableTypes
<1>4. CASE AttachFails
  BY <1>4 DEF TableTypes, OwnerTypes, AttachFails, Resized, At
<1>5. CASE StartReader
  <2>1. nq \in Slots
    BY <1>5, NextSlot DEF StartReader
  <2> QED
    BY <1>5, <2>1 DEF StartReader, Slot, OwnerTypes, TableTypes
<1>6. CASE StartFails
  <2>1. nq \in Slots
    BY <1>6, NextSlot DEF StartFails
  <2>2. [qs EXCEPT ![nq] = Slot(own.fd)] \in [Slots -> [fd : Fds, stop : BOOLEAN, dead : BOOLEAN]]
    BY <2>1 DEF Slot, OwnerTypes, TableTypes
  <2>3. qs' \in [Slots -> [fd : Fds, stop : BOOLEAN, dead : BOOLEAN]]
    BY <1>6, <2>2 DEF StartFails, TableTypes
  <2> QED
    BY <1>6, <2>3, Zenon DEF StartFails, TableTypes
<1>7. CASE PublishQueue
  BY <1>7 DEF TableTypes, OwnerTypes, PublishQueue
<1>8. CASE GrowDone
  BY <1>8 DEF TableTypes, OwnerTypes, GrowDone, Resized, At
<1>9. CASE Register
  BY <1>9 DEF TableTypes, OwnerTypes, Register, At
<1>10. CASE DelStop
  BY <1>10, LastSlot, ZenonT(60) DEF DelStop, TableTypes
<1>11. CASE DelPublish
  BY <1>11 DEF TableTypes, OwnerTypes, DelPublish
<1>12. CASE DelJoin
  BY <1>12, Zenon DEF TableTypes, OwnerTypes, DelJoin
<1>13. CASE DelClose
  BY <1>13, Zenon DEF TableTypes, OwnerTypes, DelClose, Resized, At, NoWriterInside
<1>14. CASE ProbeDue
  BY <1>14 DEF TableTypes, OwnerTypes, ProbeDue, At
<1>15. CASE TickDue
  BY <1>15 DEF TableTypes, OwnerTypes, TickDue, At
<1>16. CASE ProbeReaders
  BY <1>16 DEF TableTypes, OwnerTypes, ProbeReaders, At
<1>17. CASE ProbeIndex
  BY <1>17 DEF TableTypes, OwnerTypes, ProbeIndex, At
<1>18. CASE TickSkips
  BY <1>18 DEF TableTypes, OwnerTypes, TickSkips, At
<1>19. CASE JoinWriters
  <2>1. \A i \in Slots : (IF i < nq THEN [qs[i] EXCEPT !.stop = TRUE] ELSE qs[i])
                            \in [fd : Fds, stop : BOOLEAN, dead : BOOLEAN]
    BY ZenonT(60) DEF TableTypes
  <2> QED
    BY <1>19, <2>1 DEF JoinWriters, TableTypes
<1>20. CASE JoinReaders
  BY <1>20 DEF TableTypes, OwnerTypes, JoinReaders, At, InPool
<1>21. CASE CloseAll
  BY <1>21 DEF TableTypes, OwnerTypes, CloseAll, At, InPool, NoWriterInside
<1>22. CASE DeviceDeleted
  BY <1>22 DEF TableTypes, OwnerTypes, DeviceDeleted
<1>23. CASE Signal
  BY <1>23 DEF TableTypes, OwnerTypes, Signal
<1>24. CASE Finished
  BY <1>24 DEF TableTypes, OwnerTypes, Finished, vars
<1>25. ASSUME NEW busy \in {"high", "mid", "low"}, TickSteers(busy) PROVE TableTypes'
  BY <1>25 DEF TableTypes, OwnerTypes, TickSteers, Steered, InPool, SomeDead, Least
<1>26. ASSUME NEW i \in Slots, ReaderLoop(i) PROVE TableTypes'
  BY <1>26 DEF TableTypes, OwnerTypes, ReaderLoop
<1>27. ASSUME NEW i \in Slots, ReaderServe(i) PROVE TableTypes'
  <2>1. held' \in [Slots -> BOOLEAN]
    BY <1>27, FlushedType DEF ReaderServe, TableTypes
  <2> QED
    BY <1>27, <2>1, Zenon DEF ReaderServe, TableTypes
<1>28. ASSUME NEW i \in Slots, ReaderLost(i) PROVE TableTypes'
  <2>1. held' \in [Slots -> BOOLEAN]
    BY <1>28, FlushedType DEF ReaderLost, TableTypes
  <2> QED
    BY <1>28, <2>1, ZenonT(60) DEF ReaderLost, TableTypes
<1>29. ASSUME NEW i \in Slots, ReaderExit(i) PROVE TableTypes'
  <2>1. held' \in [Slots -> BOOLEAN]
    BY <1>29, FlushedType, Zenon DEF ReaderExit, TableTypes
  <2> QED
    BY <1>29, <2>1, Zenon DEF ReaderExit, TableTypes
<1>30. ASSUME NEW w \in Writers, WriterLock(w) PROVE TableTypes'
  <2>1. Writer(w)
    BY <1>30 DEF Writer
  <2>2. UNCHANGED <<file, qs, rd, held>>
    BY <2>1, WriterMoves
  <2>3. \E to \in {"idle", "locked", "chosen", "write", "owner", "out"}, i \in Slots :
          wr' = [wr EXCEPT ![w] = [at |-> to, i |-> i]]
    BY <2>1, WriterMoves
  <2> QED
    BY <2>2, <2>3 DEF TableTypes
<1>31. ASSUME NEW w \in Writers, WriterSelect(w) PROVE TableTypes'
  <2>1. Writer(w)
    BY <1>31 DEF Writer
  <2>2. UNCHANGED <<file, qs, rd, held>>
    BY <2>1, WriterMoves
  <2>3. \E to \in {"idle", "locked", "chosen", "write", "owner", "out"}, i \in Slots :
          wr' = [wr EXCEPT ![w] = [at |-> to, i |-> i]]
    BY <2>1, WriterMoves
  <2> QED
    BY <2>2, <2>3 DEF TableTypes
<1>32. ASSUME NEW w \in Writers, WriterCheck(w) PROVE TableTypes'
  <2>1. Writer(w)
    BY <1>32 DEF Writer
  <2>2. UNCHANGED <<file, qs, rd, held>>
    BY <2>1, WriterMoves
  <2>3. \E to \in {"idle", "locked", "chosen", "write", "owner", "out"}, i \in Slots :
          wr' = [wr EXCEPT ![w] = [at |-> to, i |-> i]]
    BY <2>1, WriterMoves
  <2> QED
    BY <2>2, <2>3 DEF TableTypes
<1>33. ASSUME NEW w \in Writers, WriterWrite(w) PROVE TableTypes'
  <2>1. Writer(w)
    BY <1>33 DEF Writer
  <2>2. UNCHANGED <<file, qs, rd, held>>
    BY <2>1, WriterMoves
  <2>3. \E to \in {"idle", "locked", "chosen", "write", "owner", "out"}, i \in Slots :
          wr' = [wr EXCEPT ![w] = [at |-> to, i |-> i]]
    BY <2>1, WriterMoves
  <2> QED
    BY <2>2, <2>3 DEF TableTypes
<1>34. ASSUME NEW w \in Writers, WriterOwnerFd(w) PROVE TableTypes'
  <2>1. Writer(w)
    BY <1>34 DEF Writer
  <2>2. UNCHANGED <<file, qs, rd, held>>
    BY <2>1, WriterMoves
  <2>3. \E to \in {"idle", "locked", "chosen", "write", "owner", "out"}, i \in Slots :
          wr' = [wr EXCEPT ![w] = [at |-> to, i |-> i]]
    BY <2>1, WriterMoves
  <2> QED
    BY <2>2, <2>3 DEF TableTypes
<1>35. ASSUME NEW w \in Writers, WriterLeave(w) PROVE TableTypes'
  <2>1. Writer(w)
    BY <1>35, SMTT(60) DEF Writer
  <2>2. UNCHANGED <<file, qs, rd, held>>
    BY <2>1, WriterMoves
  <2>3. \E to \in {"idle", "locked", "chosen", "write", "owner", "out"}, i \in Slots :
          wr' = [wr EXCEPT ![w] = [at |-> to, i |-> i]]
    BY <2>1, WriterMoves
  <2> QED
    BY <2>2, <2>3 DEF TableTypes
<1>36. CASE UNCHANGED vars
  BY <1>36, SMTT(60) DEF TableTypes, OwnerTypes, vars
<1> QED
  BY <1>1, <1>2, <1>3, <1>4, <1>5, <1>6, <1>7, <1>8, <1>9, <1>10, <1>11, <1>12, <1>13, <1>14, <1>15, <1>16, <1>17, <1>18, <1>19, <1>20, <1>21, <1>22, <1>23, <1>24, <1>25, <1>26, <1>27, <1>28, <1>29, <1>30, <1>31, <1>32, <1>33, <1>34, <1>35, <1>36, SMTT(60)
  DEF Next, Owner, Reader, Writer

\* Every step leaves the owner at a place that fits the size of the pool.
LEMMA PoolPlacesKept == ASSUME OwnerTypes, PoolPlaces, [Next]_vars PROVE PoolPlaces'
<1>1. CASE TakePre
  <2>1. nq + 1 <= Least(InitQ, MaxQ)
    BY <1>1, PoolAssumption, SMTT(60) DEF TakePre, OwnerTypes, Least
  <2> QED
    BY <1>1, <2>1 DEF TakePre, OwnerTypes, PoolPlaces
<1>2. CASE DropPre
  BY <1>2, PoolAssumption DEF OwnerTypes, PoolPlaces, OwnerPlaces, DropPre
<1>3. CASE Attach
  BY <1>3, PoolAssumption DEF OwnerTypes, PoolPlaces, OwnerPlaces, Attach
<1>4. CASE AttachFails
  BY <1>4, PoolAssumption DEF OwnerTypes, PoolPlaces, OwnerPlaces, AttachFails, Resized, At
<1>5. CASE StartReader
  BY <1>5, PoolAssumption DEF OwnerTypes, PoolPlaces, OwnerPlaces, StartReader, Slot
<1>6. CASE StartFails
  BY <1>6, PoolAssumption DEF OwnerTypes, PoolPlaces, OwnerPlaces, StartFails, Resized, At, Slot
<1>7. CASE PublishQueue
  BY <1>7, PoolAssumption DEF OwnerTypes, PoolPlaces, OwnerPlaces, PublishQueue
<1>8. CASE GrowDone
  BY <1>8, PoolAssumption, SMTT(60) DEF OwnerTypes, PoolPlaces, OwnerPlaces, GrowDone, Resized, At
<1>9. CASE Register
  BY <1>9, PoolAssumption DEF OwnerTypes, PoolPlaces, OwnerPlaces, Register, At
<1>10. CASE DelStop
  BY <1>10, PoolAssumption DEF OwnerTypes, PoolPlaces, OwnerPlaces, DelStop
<1>11. CASE DelPublish
  BY <1>11, PoolAssumption, SMTT(60) DEF OwnerTypes, PoolPlaces, OwnerPlaces, DelPublish
<1>12. CASE DelJoin
  BY <1>12, PoolAssumption DEF OwnerTypes, PoolPlaces, OwnerPlaces, DelJoin
<1>13. CASE DelClose
  BY <1>13, PoolAssumption DEF OwnerTypes, PoolPlaces, OwnerPlaces, DelClose, Resized, At, NoWriterInside
<1>14. CASE ProbeDue
  BY <1>14, PoolAssumption DEF OwnerTypes, PoolPlaces, OwnerPlaces, ProbeDue, At
<1>15. CASE TickDue
  BY <1>15, PoolAssumption DEF OwnerTypes, PoolPlaces, OwnerPlaces, TickDue, At
<1>16. CASE ProbeReaders
  BY <1>16, PoolAssumption DEF OwnerTypes, PoolPlaces, OwnerPlaces, ProbeReaders, At
<1>17. CASE ProbeIndex
  BY <1>17, PoolAssumption DEF OwnerTypes, PoolPlaces, OwnerPlaces, ProbeIndex, At
<1>18. CASE TickSkips
  BY <1>18, PoolAssumption DEF OwnerTypes, PoolPlaces, OwnerPlaces, TickSkips, At
<1>19. CASE JoinWriters
  BY <1>19, PoolAssumption DEF OwnerTypes, PoolPlaces, OwnerPlaces, JoinWriters, At
<1>20. CASE JoinReaders
  BY <1>20, PoolAssumption DEF OwnerTypes, PoolPlaces, OwnerPlaces, JoinReaders, At, InPool
<1>21. CASE CloseAll
  BY <1>21, PoolAssumption DEF OwnerTypes, PoolPlaces, OwnerPlaces, CloseAll, At, InPool, NoWriterInside
<1>22. CASE DeviceDeleted
  BY <1>22, PoolAssumption DEF OwnerTypes, PoolPlaces, OwnerPlaces, DeviceDeleted
<1>23. CASE Signal
  BY <1>23, PoolAssumption DEF OwnerTypes, PoolPlaces, OwnerPlaces, Signal
<1>24. CASE Finished
  BY <1>24, PoolAssumption, SMTT(60) DEF OwnerTypes, PoolPlaces, OwnerPlaces, Finished, vars
<1>25. ASSUME NEW busy \in {"high", "mid", "low"}, TickSteers(busy) PROVE PoolPlaces'
  BY <1>25, PoolAssumption DEF OwnerTypes, PoolPlaces, OwnerPlaces, TickSteers, Steered, InPool, SomeDead, Least
<1>26. ASSUME NEW i \in Slots, ReaderLoop(i) PROVE PoolPlaces'
  BY <1>26, PoolAssumption DEF OwnerTypes, PoolPlaces, OwnerPlaces, ReaderLoop
<1>27. ASSUME NEW i \in Slots, ReaderServe(i) PROVE PoolPlaces'
  BY <1>27, PoolAssumption DEF OwnerTypes, PoolPlaces, OwnerPlaces, ReaderServe, Flushed
<1>28. ASSUME NEW i \in Slots, ReaderLost(i) PROVE PoolPlaces'
  BY <1>28, PoolAssumption DEF OwnerTypes, PoolPlaces, OwnerPlaces, ReaderLost, Flushed
<1>29. ASSUME NEW i \in Slots, ReaderExit(i) PROVE PoolPlaces'
  BY <1>29, PoolAssumption DEF OwnerTypes, PoolPlaces, OwnerPlaces, ReaderExit, Flushed
<1>30. ASSUME NEW w \in Writers, WriterLock(w) PROVE PoolPlaces'
  BY <1>30, PoolAssumption DEF OwnerTypes, PoolPlaces, OwnerPlaces, WriterLock, WriterGo
<1>31. ASSUME NEW w \in Writers, WriterSelect(w) PROVE PoolPlaces'
  BY <1>31, PoolAssumption DEF OwnerTypes, PoolPlaces, OwnerPlaces, WriterSelect, WriterGo, InPool
<1>32. ASSUME NEW w \in Writers, WriterCheck(w) PROVE PoolPlaces'
  BY <1>32, PoolAssumption, SMTT(60) DEF OwnerTypes, PoolPlaces, OwnerPlaces, WriterCheck, WriterGo
<1>33. ASSUME NEW w \in Writers, WriterWrite(w) PROVE PoolPlaces'
  BY <1>33, PoolAssumption, SMTT(60) DEF OwnerTypes, PoolPlaces, OwnerPlaces, WriterWrite, WriterGo
<1>34. ASSUME NEW w \in Writers, WriterOwnerFd(w) PROVE PoolPlaces'
  BY <1>34, PoolAssumption DEF OwnerTypes, PoolPlaces, OwnerPlaces, WriterOwnerFd, WriterGo
<1>35. ASSUME NEW w \in Writers, WriterLeave(w) PROVE PoolPlaces'
  BY <1>35, PoolAssumption DEF OwnerTypes, PoolPlaces, OwnerPlaces, WriterLeave, WriterGo
<1>36. CASE UNCHANGED vars
  BY <1>36, PoolAssumption, SMTT(60) DEF OwnerTypes, PoolPlaces, OwnerPlaces, vars
<1> QED
  BY <1>1, <1>2, <1>3, <1>4, <1>5, <1>6, <1>7, <1>8, <1>9, <1>10, <1>11, <1>12, <1>13, <1>14, <1>15, <1>16, <1>17, <1>18, <1>19, <1>20, <1>21, <1>22, <1>23, <1>24, <1>25, <1>26, <1>27, <1>28, <1>29, <1>30, <1>31, <1>32, <1>33, <1>34, <1>35, <1>36, SMTT(60)
  DEF Next, Owner, Reader, Writer

\* Every step leaves each reader thread with a slot that is its own.
LEMMA PoolReadersKept == ASSUME PoolTypes, PoolPlaces, PoolReaders, [Next]_vars PROVE PoolReaders'
<1>1. CASE TakePre
  BY <1>1, PoolAssumption, SMTT(60) DEF PoolTypes, OwnerTypes, TableTypes, PoolPlaces, PoolReaders, Filled, Slots, TakePre, Slot
<1>2. CASE DropPre
  BY <1>2, PoolAssumption DEF PoolTypes, OwnerTypes, TableTypes, PoolPlaces, PoolReaders, Filled, Slots, DropPre
<1>3. CASE Attach
  BY <1>3, PoolAssumption DEF PoolTypes, OwnerTypes, TableTypes, PoolPlaces, PoolReaders, Filled, Slots, Attach
<1>4. CASE AttachFails
  BY <1>4, PoolAssumption DEF PoolTypes, OwnerTypes, TableTypes, PoolPlaces, PoolReaders, Filled, Slots, AttachFails, Resized, At
<1>5. CASE StartReader
  BY <1>5, PoolAssumption, SMTT(60) DEF PoolTypes, OwnerTypes, TableTypes, PoolPlaces, PoolReaders, Filled, Slots, StartReader, Slot
<1>6. CASE StartFails
  BY <1>6, PoolAssumption DEF PoolTypes, OwnerTypes, TableTypes, PoolPlaces, PoolReaders, Filled, Slots, StartFails, Resized, At, Slot
<1>7. CASE PublishQueue
  <2>1. Filled' = Filled
    BY <1>7 DEF PublishQueue, Filled, PoolTypes, OwnerTypes, Slots
  <2> QED
    BY <1>7, <2>1 DEF PublishQueue, PoolTypes, OwnerTypes, PoolReaders
<1>8. CASE GrowDone
  BY <1>8, PoolAssumption, SMTT(60) DEF PoolTypes, OwnerTypes, TableTypes, PoolPlaces, PoolReaders, Filled, Slots, GrowDone, Resized, At
<1>9. CASE Register
  BY <1>9, PoolAssumption DEF PoolTypes, OwnerTypes, TableTypes, PoolPlaces, PoolReaders, Filled, Slots, Register, At
<1>10. CASE DelStop
  BY <1>10, PoolAssumption DEF PoolTypes, OwnerTypes, TableTypes, PoolPlaces, PoolReaders, Filled, Slots, DelStop
<1>11. CASE DelPublish
  <2>1. Filled' = Filled
    BY <1>11 DEF DelPublish, Filled, PoolTypes, OwnerTypes, Slots
  <2> QED
    BY <1>11, <2>1 DEF DelPublish, PoolTypes, OwnerTypes, PoolReaders
<1>12. CASE DelJoin
  BY <1>12, PoolAssumption, SMTT(60) DEF PoolTypes, OwnerTypes, TableTypes, PoolPlaces, PoolReaders, Filled, Slots, DelJoin
<1>13. CASE DelClose
  BY <1>13, PoolAssumption DEF PoolTypes, OwnerTypes, TableTypes, PoolPlaces, PoolReaders, Filled, Slots, DelClose, Resized, At, NoWriterInside
<1>14. CASE ProbeDue
  BY <1>14, PoolAssumption, SMTT(60) DEF PoolTypes, OwnerTypes, TableTypes, PoolPlaces, PoolReaders, Filled, Slots, ProbeDue, At
<1>15. CASE TickDue
  BY <1>15, PoolAssumption DEF PoolTypes, OwnerTypes, TableTypes, PoolPlaces, PoolReaders, Filled, Slots, TickDue, At
<1>16. CASE ProbeReaders
  BY <1>16, PoolAssumption, SMTT(60) DEF PoolTypes, OwnerTypes, TableTypes, PoolPlaces, PoolReaders, Filled, Slots, ProbeReaders, At
<1>17. CASE ProbeIndex
  BY <1>17, PoolAssumption, SMTT(60) DEF PoolTypes, OwnerTypes, TableTypes, PoolPlaces, PoolReaders, Filled, Slots, ProbeIndex, At
<1>18. CASE TickSkips
  BY <1>18, PoolAssumption DEF PoolTypes, OwnerTypes, TableTypes, PoolPlaces, PoolReaders, Filled, Slots, TickSkips, At
<1>19. CASE JoinWriters
  BY <1>19, PoolAssumption, SMTT(60) DEF PoolTypes, OwnerTypes, TableTypes, PoolPlaces, PoolReaders, Filled, Slots, JoinWriters, At
<1>20. CASE JoinReaders
  BY <1>20, PoolAssumption, SMTT(60) DEF PoolTypes, OwnerTypes, TableTypes, PoolPlaces, PoolReaders, Filled, Slots, JoinReaders, At, InPool
<1>21. CASE CloseAll
  BY <1>21, PoolAssumption, SMTT(60) DEF PoolTypes, OwnerTypes, TableTypes, PoolPlaces, PoolReaders, Filled, Slots, CloseAll, At, InPool, NoWriterInside
<1>22. CASE DeviceDeleted
  BY <1>22, PoolAssumption, SMTT(60) DEF PoolTypes, OwnerTypes, TableTypes, PoolPlaces, PoolReaders, Filled, Slots, DeviceDeleted
<1>23. CASE Signal
  BY <1>23, PoolAssumption, SMTT(60) DEF PoolTypes, OwnerTypes, TableTypes, PoolPlaces, PoolReaders, Filled, Slots, Signal
<1>24. CASE Finished
  BY <1>24, PoolAssumption, SMTT(60) DEF PoolTypes, OwnerTypes, TableTypes, PoolPlaces, PoolReaders, Filled, Slots, Finished, vars
<1>25. ASSUME NEW busy \in {"high", "mid", "low"}, TickSteers(busy) PROVE PoolReaders'
  BY <1>25, PoolAssumption DEF PoolTypes, OwnerTypes, TableTypes, PoolPlaces, PoolReaders, Filled, Slots, TickSteers, Steered, InPool, SomeDead, Least
<1>26. ASSUME NEW i \in Slots, ReaderLoop(i) PROVE PoolReaders'
  <2>1. rd[i] \notin {"none", "gone"}
    BY <1>26 DEF ReaderLoop
  <2>2. i \in Filled /\ own.at \notin {"closing", "done"} /\ (own.at = "close" => i # nq)
    BY <2>1 DEF PoolReaders
  <2>3. Filled' = Filled /\ UNCHANGED <<own, nq>> /\ \A j \in Slots \ {i} : rd'[j] = rd[j]
    BY <1>26 DEF ReaderLoop, Filled, PoolTypes, TableTypes
  <2>4. own.at = "close" => nq \in Slots
    BY NextSlot DEF PoolTypes
  <2> QED
    BY <2>2, <2>3, <2>4 DEF PoolReaders
<1>27. ASSUME NEW i \in Slots, ReaderServe(i) PROVE PoolReaders'
  <2>1. rd[i] \notin {"none", "gone"}
    BY <1>27, SMTT(60) DEF ReaderServe
  <2>2. i \in Filled /\ own.at \notin {"closing", "done"} /\ (own.at = "close" => i # nq)
    BY <2>1 DEF PoolReaders
  <2>3. Filled' = Filled /\ UNCHANGED <<own, nq>> /\ \A j \in Slots \ {i} : rd'[j] = rd[j]
    BY <1>27 DEF ReaderServe, Filled, PoolTypes, TableTypes
  <2>4. own.at = "close" => nq \in Slots
    BY NextSlot DEF PoolTypes
  <2> QED
    BY <2>2, <2>3, <2>4 DEF PoolReaders
<1>28. ASSUME NEW i \in Slots, ReaderLost(i) PROVE PoolReaders'
  <2>1. rd[i] \notin {"none", "gone"}
    BY <1>28 DEF ReaderLost
  <2>2. i \in Filled /\ own.at \notin {"closing", "done"} /\ (own.at = "close" => i # nq)
    BY <2>1 DEF PoolReaders
  <2>3. Filled' = Filled /\ UNCHANGED <<own, nq>> /\ \A j \in Slots \ {i} : rd'[j] = rd[j]
    BY <1>28 DEF ReaderLost, Filled, PoolTypes, TableTypes
  <2>4. own.at = "close" => nq \in Slots
    BY NextSlot DEF PoolTypes
  <2> QED
    BY <2>2, <2>3, <2>4 DEF PoolReaders
<1>29. ASSUME NEW i \in Slots, ReaderExit(i) PROVE PoolReaders'
  <2>1. rd[i] \notin {"none", "gone"}
    BY <1>29 DEF ReaderExit
  <2>2. i \in Filled /\ own.at \notin {"closing", "done"} /\ (own.at = "close" => i # nq)
    BY <2>1 DEF PoolReaders
  <2>3. Filled' = Filled /\ UNCHANGED <<own, nq>> /\ \A j \in Slots \ {i} : rd'[j] = rd[j]
    BY <1>29 DEF ReaderExit, Filled, PoolTypes, TableTypes
  <2>4. own.at = "close" => nq \in Slots
    BY NextSlot DEF PoolTypes
  <2> QED
    BY <2>2, <2>3, <2>4 DEF PoolReaders
<1>30. ASSUME NEW w \in Writers, WriterLock(w) PROVE PoolReaders'
  <2>1. Writer(w)
    BY <1>30 DEF Writer
  <2>2. UNCHANGED <<rd, nq, own>>
    BY <2>1, WriterMoves DEF PoolTypes
  <2> QED
    BY <2>2 DEF PoolReaders, Filled
<1>31. ASSUME NEW w \in Writers, WriterSelect(w) PROVE PoolReaders'
  <2>1. Writer(w)
    BY <1>31 DEF Writer
  <2>2. UNCHANGED <<rd, nq, own>>
    BY <2>1, WriterMoves DEF PoolTypes
  <2> QED
    BY <2>2 DEF PoolReaders, Filled
<1>32. ASSUME NEW w \in Writers, WriterCheck(w) PROVE PoolReaders'
  <2>1. Writer(w)
    BY <1>32 DEF Writer
  <2>2. UNCHANGED <<rd, nq, own>>
    BY <2>1, WriterMoves DEF PoolTypes
  <2> QED
    BY <2>2 DEF PoolReaders, Filled
<1>33. ASSUME NEW w \in Writers, WriterWrite(w) PROVE PoolReaders'
  <2>1. Writer(w)
    BY <1>33 DEF Writer
  <2>2. UNCHANGED <<rd, nq, own>>
    BY <2>1, WriterMoves DEF PoolTypes
  <2> QED
    BY <2>2 DEF PoolReaders, Filled
<1>34. ASSUME NEW w \in Writers, WriterOwnerFd(w) PROVE PoolReaders'
  <2>1. Writer(w)
    BY <1>34 DEF Writer
  <2>2. UNCHANGED <<rd, nq, own>>
    BY <2>1, WriterMoves DEF PoolTypes
  <2> QED
    BY <2>2 DEF PoolReaders, Filled
<1>35. ASSUME NEW w \in Writers, WriterLeave(w) PROVE PoolReaders'
  <2>1. Writer(w)
    BY <1>35, SMTT(60) DEF Writer
  <2>2. UNCHANGED <<rd, nq, own>>
    BY <2>1, WriterMoves DEF PoolTypes
  <2> QED
    BY <2>2 DEF PoolReaders, Filled
<1>36. CASE UNCHANGED vars
  BY <1>36, PoolAssumption, SMTT(60) DEF PoolTypes, OwnerTypes, TableTypes, PoolPlaces, PoolReaders, Filled, Slots, vars
<1> QED
  BY <1>1, <1>2, <1>3, <1>4, <1>5, <1>6, <1>7, <1>8, <1>9, <1>10, <1>11, <1>12, <1>13, <1>14, <1>15, <1>16, <1>17, <1>18, <1>19, <1>20, <1>21, <1>22, <1>23, <1>24, <1>25, <1>26, <1>27, <1>28, <1>29, <1>30, <1>31, <1>32, <1>33, <1>34, <1>35, <1>36, SMTT(60)
  DEF Next, Owner, Reader, Writer

\* Every step leaves a writer inside the lock only while the slots it may
\* choose stand.
LEMMA PoolWritersKept == ASSUME PoolTypes, PoolPlaces, PoolWriters, [Next]_vars PROVE PoolWriters'
<1>1. CASE TakePre
  BY <1>1, PoolAssumption, SMTT(60), Z3T(60) DEF PoolTypes, OwnerTypes, TableTypes, PoolPlaces, PoolWriters, Slots, TakePre, Slot
<1>2. CASE DropPre
  BY <1>2, PoolAssumption DEF PoolTypes, OwnerTypes, TableTypes, PoolPlaces, PoolWriters, Slots, DropPre
<1>3. CASE Attach
  BY <1>3, PoolAssumption DEF PoolTypes, OwnerTypes, TableTypes, PoolPlaces, PoolWriters, Slots, Attach
<1>4. CASE AttachFails
  BY <1>4, PoolAssumption DEF PoolTypes, OwnerTypes, TableTypes, PoolPlaces, PoolWriters, Slots, AttachFails, Resized, At
<1>5. CASE StartReader
  BY <1>5, PoolAssumption DEF PoolTypes, OwnerTypes, TableTypes, PoolPlaces, PoolWriters, Slots, StartReader, Slot
<1>6. CASE StartFails
  BY <1>6, PoolAssumption DEF PoolTypes, OwnerTypes, TableTypes, PoolPlaces, PoolWriters, Slots, StartFails, Resized, At, Slot
<1>7. CASE PublishQueue
  BY <1>7, PoolAssumption DEF PoolTypes, OwnerTypes, TableTypes, PoolPlaces, PoolWriters, Slots, PublishQueue
<1>8. CASE GrowDone
  BY <1>8, PoolAssumption, SMTT(60) DEF PoolTypes, OwnerTypes, TableTypes, PoolPlaces, PoolWriters, Slots, GrowDone, Resized, At
<1>9. CASE Register
  BY <1>9, PoolAssumption DEF PoolTypes, OwnerTypes, TableTypes, PoolPlaces, PoolWriters, Slots, Register, At
<1>10. CASE DelStop
  BY <1>10, PoolAssumption DEF PoolTypes, OwnerTypes, TableTypes, PoolPlaces, PoolWriters, Slots, DelStop
<1>11. CASE DelPublish
  <2>1. \A w \in Writers : wr[w].i \in Int /\ (wr[w].i < nq => wr[w].i < nq - 1 \/ wr[w].i = nq - 1)
    BY DEF PoolTypes, OwnerTypes, TableTypes, Slots
  <2> QED
    BY <1>11, <2>1, SMTT(60) DEF DelPublish, PoolTypes, OwnerTypes, PoolWriters
<1>12. CASE DelJoin
  BY <1>12, PoolAssumption DEF PoolTypes, OwnerTypes, TableTypes, PoolPlaces, PoolWriters, Slots, DelJoin
<1>13. CASE DelClose
  BY <1>13, PoolAssumption, SMTT(60) DEF PoolTypes, OwnerTypes, TableTypes, PoolPlaces, PoolWriters, Slots, DelClose, Resized, At, NoWriterInside
<1>14. CASE ProbeDue
  BY <1>14, PoolAssumption, SMTT(60) DEF PoolTypes, OwnerTypes, TableTypes, PoolPlaces, PoolWriters, Slots, ProbeDue, At
<1>15. CASE TickDue
  BY <1>15, PoolAssumption DEF PoolTypes, OwnerTypes, TableTypes, PoolPlaces, PoolWriters, Slots, TickDue, At
<1>16. CASE ProbeReaders
  BY <1>16, PoolAssumption, SMTT(60) DEF PoolTypes, OwnerTypes, TableTypes, PoolPlaces, PoolWriters, Slots, ProbeReaders, At
<1>17. CASE ProbeIndex
  BY <1>17, PoolAssumption, SMTT(60) DEF PoolTypes, OwnerTypes, TableTypes, PoolPlaces, PoolWriters, Slots, ProbeIndex, At
<1>18. CASE TickSkips
  BY <1>18, PoolAssumption DEF PoolTypes, OwnerTypes, TableTypes, PoolPlaces, PoolWriters, Slots, TickSkips, At
<1>19. CASE JoinWriters
  BY <1>19, PoolAssumption, SMTT(60) DEF PoolTypes, OwnerTypes, TableTypes, PoolPlaces, PoolWriters, Slots, JoinWriters, At
<1>20. CASE JoinReaders
  BY <1>20, PoolAssumption, SMTT(60) DEF PoolTypes, OwnerTypes, TableTypes, PoolPlaces, PoolWriters, Slots, JoinReaders, At, InPool
<1>21. CASE CloseAll
  BY <1>21, PoolAssumption, SMTT(60) DEF PoolTypes, OwnerTypes, TableTypes, PoolPlaces, PoolWriters, Slots, CloseAll, At, InPool, NoWriterInside
<1>22. CASE DeviceDeleted
  BY <1>22, PoolAssumption, SMTT(60) DEF PoolTypes, OwnerTypes, TableTypes, PoolPlaces, PoolWriters, Slots, DeviceDeleted
<1>23. CASE Signal
  BY <1>23, PoolAssumption, SMTT(60) DEF PoolTypes, OwnerTypes, TableTypes, PoolPlaces, PoolWriters, Slots, Signal
<1>24. CASE Finished
  BY <1>24, PoolAssumption, SMTT(60) DEF PoolTypes, OwnerTypes, TableTypes, PoolPlaces, PoolWriters, Slots, Finished, vars
<1>25. ASSUME NEW busy \in {"high", "mid", "low"}, TickSteers(busy) PROVE PoolWriters'
  BY <1>25, PoolAssumption, SMTT(60) DEF PoolTypes, OwnerTypes, TableTypes, PoolPlaces, PoolWriters, Slots, TickSteers, Steered, InPool, SomeDead, Least
<1>26. ASSUME NEW i \in Slots, ReaderLoop(i) PROVE PoolWriters'
  BY <1>26, PoolAssumption, SMTT(60) DEF PoolTypes, OwnerTypes, TableTypes, PoolPlaces, PoolWriters, Slots, ReaderLoop
<1>27. ASSUME NEW i \in Slots, ReaderServe(i) PROVE PoolWriters'
  BY <1>27, PoolAssumption DEF PoolTypes, OwnerTypes, TableTypes, PoolPlaces, PoolWriters, Slots, ReaderServe, Flushed
<1>28. ASSUME NEW i \in Slots, ReaderLost(i) PROVE PoolWriters'
  BY <1>28, PoolAssumption, SMTT(60) DEF PoolTypes, OwnerTypes, TableTypes, PoolPlaces, PoolWriters, Slots, ReaderLost, Flushed
<1>29. ASSUME NEW i \in Slots, ReaderExit(i) PROVE PoolWriters'
  BY <1>29, PoolAssumption, SMTT(60) DEF PoolTypes, OwnerTypes, TableTypes, PoolPlaces, PoolWriters, Slots, ReaderExit, Flushed
<1>30. ASSUME NEW w \in Writers, WriterLock(w) PROVE PoolWriters'
  BY <1>30, PoolAssumption, SMTT(60) DEF PoolTypes, OwnerTypes, TableTypes, PoolPlaces, PoolWriters, Slots, WriterLock, WriterGo
<1>31. ASSUME NEW w \in Writers, WriterSelect(w) PROVE PoolWriters'
  BY <1>31, PoolAssumption, SMTT(60) DEF PoolTypes, OwnerTypes, TableTypes, PoolPlaces, PoolWriters, Slots, WriterSelect, WriterGo, InPool
<1>32. ASSUME NEW w \in Writers, WriterCheck(w) PROVE PoolWriters'
  BY <1>32, PoolAssumption, SMTT(60) DEF PoolTypes, OwnerTypes, TableTypes, PoolPlaces, PoolWriters, Slots, WriterCheck, WriterGo
<1>33. ASSUME NEW w \in Writers, WriterWrite(w) PROVE PoolWriters'
  <2>1. \E to \in {"idle", "owner"} : wr' = [wr EXCEPT ![w] = [at |-> to, i |-> 0]]
    BY <1>33 DEF WriterWrite, WriterGo
  <2>2. UNCHANGED <<nq, own>> /\ wr[w].at = "write"
    BY <1>33 DEF WriterWrite, WriterGo
  <2> QED
    BY <2>1, <2>2 DEF PoolTypes, TableTypes, PoolWriters
<1>34. ASSUME NEW w \in Writers, WriterOwnerFd(w) PROVE PoolWriters'
  BY <1>34, PoolAssumption, SMTT(60) DEF PoolTypes, OwnerTypes, TableTypes, PoolPlaces, PoolWriters, Slots, WriterOwnerFd, WriterGo
<1>35. ASSUME NEW w \in Writers, WriterLeave(w) PROVE PoolWriters'
  BY <1>35, PoolAssumption, SMTT(60) DEF PoolTypes, OwnerTypes, TableTypes, PoolPlaces, PoolWriters, Slots, WriterLeave, WriterGo
<1>36. CASE UNCHANGED vars
  BY <1>36, PoolAssumption, SMTT(60) DEF PoolTypes, OwnerTypes, TableTypes, PoolPlaces, PoolWriters, Slots, vars
<1> QED
  BY <1>1, <1>2, <1>3, <1>4, <1>5, <1>6, <1>7, <1>8, <1>9, <1>10, <1>11, <1>12, <1>13, <1>14, <1>15, <1>16, <1>17, <1>18, <1>19, <1>20, <1>21, <1>22, <1>23, <1>24, <1>25, <1>26, <1>27, <1>28, <1>29, <1>30, <1>31, <1>32, <1>33, <1>34, <1>35, <1>36
  DEF Next, Owner, Reader, Writer

\* Every step leaves a held packet only with a reader that will flush it.
LEMMA PoolHeldKept == ASSUME PoolTypes, PoolPlaces, PoolReaders, PoolHeld, [Next]_vars PROVE PoolHeld'
<1>1. CASE TakePre
  BY <1>1, PoolAssumption, SMTT(60) DEF PoolTypes, OwnerTypes, TableTypes, PoolPlaces, PoolReaders, PoolHeld, Filled, Slots, TakePre, Slot
<1>2. CASE DropPre
  BY <1>2, PoolAssumption DEF PoolTypes, OwnerTypes, TableTypes, PoolPlaces, PoolReaders, PoolHeld, Filled, Slots, DropPre
<1>3. CASE Attach
  BY <1>3, PoolAssumption DEF PoolTypes, OwnerTypes, TableTypes, PoolPlaces, PoolReaders, PoolHeld, Filled, Slots, Attach
<1>4. CASE AttachFails
  BY <1>4, PoolAssumption DEF PoolTypes, OwnerTypes, TableTypes, PoolPlaces, PoolReaders, PoolHeld, Filled, Slots, AttachFails, Resized, At
<1>5. CASE StartReader
  BY <1>5, PoolAssumption, SMTT(60) DEF PoolTypes, OwnerTypes, TableTypes, PoolPlaces, PoolReaders, PoolHeld, Filled, Slots, StartReader, Slot
<1>6. CASE StartFails
  <2>1. nq \in Slots
    BY <1>6, NextSlot DEF StartFails, PoolTypes
  <2>2. rd[nq] = "none"
    BY <1>6, <2>1 DEF StartFails, PoolReaders, Filled, PoolTypes, OwnerTypes
  <2>3. \A i \in Slots \ {nq} : qs'[i] = qs[i]
    BY <1>6, <2>1, SMTT(60) DEF StartFails, PoolTypes, TableTypes
  <2>4. qs'[nq] = qs[nq] \/ qs'[nq].stop = FALSE
    BY <1>6, <2>1 DEF StartFails, Slot, PoolTypes, TableTypes
  <2>5. UNCHANGED <<rd, held, nq, exitCb, stop>> /\ own' = Resized
    BY <1>6 DEF StartFails
  <2> QED
    BY <2>1, <2>2, <2>3, <2>4, <2>5, Zenon DEF PoolHeld, Resized, At
<1>7. CASE PublishQueue
  BY <1>7, PoolAssumption, SMTT(60) DEF PoolTypes, OwnerTypes, TableTypes, PoolPlaces, PoolReaders, PoolHeld, Filled, Slots, PublishQueue
<1>8. CASE GrowDone
  BY <1>8, PoolAssumption DEF PoolTypes, OwnerTypes, TableTypes, PoolPlaces, PoolReaders, PoolHeld, Filled, Slots, GrowDone, Resized, At
<1>9. CASE Register
  BY <1>9, PoolAssumption DEF PoolTypes, OwnerTypes, TableTypes, PoolPlaces, PoolReaders, PoolHeld, Filled, Slots, Register, At
<1>10. CASE DelStop
  BY <1>10, PoolAssumption DEF PoolTypes, OwnerTypes, TableTypes, PoolPlaces, PoolReaders, PoolHeld, Filled, Slots, DelStop
<1>11. CASE DelPublish
  BY <1>11, PoolAssumption DEF PoolTypes, OwnerTypes, TableTypes, PoolPlaces, PoolReaders, PoolHeld, Filled, Slots, DelPublish
<1>12. CASE DelJoin
  BY <1>12, PoolAssumption, SMTT(60) DEF PoolTypes, OwnerTypes, TableTypes, PoolPlaces, PoolReaders, PoolHeld, Filled, Slots, DelJoin
<1>13. CASE DelClose
  BY <1>13, PoolAssumption DEF PoolTypes, OwnerTypes, TableTypes, PoolPlaces, PoolReaders, PoolHeld, Filled, Slots, DelClose, Resized, At, NoWriterInside
<1>14. CASE ProbeDue
  BY <1>14, PoolAssumption, SMTT(60) DEF PoolTypes, OwnerTypes, TableTypes, PoolPlaces, PoolReaders, PoolHeld, Filled, Slots, ProbeDue, At
<1>15. CASE TickDue
  BY <1>15, PoolAssumption DEF PoolTypes, OwnerTypes, TableTypes, PoolPlaces, PoolReaders, PoolHeld, Filled, Slots, TickDue, At
<1>16. CASE ProbeReaders
  BY <1>16, PoolAssumption, SMTT(60) DEF PoolTypes, OwnerTypes, TableTypes, PoolPlaces, PoolReaders, PoolHeld, Filled, Slots, ProbeReaders, At
<1>17. CASE ProbeIndex
  BY <1>17, PoolAssumption, SMTT(60) DEF PoolTypes, OwnerTypes, TableTypes, PoolPlaces, PoolReaders, PoolHeld, Filled, Slots, ProbeIndex, At
<1>18. CASE TickSkips
  BY <1>18, PoolAssumption DEF PoolTypes, OwnerTypes, TableTypes, PoolPlaces, PoolReaders, PoolHeld, Filled, Slots, TickSkips, At
<1>19. CASE JoinWriters
  BY <1>19, PoolAssumption, SMTT(60) DEF PoolTypes, OwnerTypes, TableTypes, PoolPlaces, PoolReaders, PoolHeld, Filled, Slots, JoinWriters, At
<1>20. CASE JoinReaders
  BY <1>20, PoolAssumption, SMTT(60) DEF PoolTypes, OwnerTypes, TableTypes, PoolPlaces, PoolReaders, PoolHeld, Filled, Slots, JoinReaders, At, InPool
<1>21. CASE CloseAll
  BY <1>21, PoolAssumption, SMTT(60) DEF PoolTypes, OwnerTypes, TableTypes, PoolPlaces, PoolReaders, PoolHeld, Filled, Slots, CloseAll, At, InPool, NoWriterInside
<1>22. CASE DeviceDeleted
  BY <1>22, PoolAssumption, SMTT(60) DEF PoolTypes, OwnerTypes, TableTypes, PoolPlaces, PoolReaders, PoolHeld, Filled, Slots, DeviceDeleted
<1>23. CASE Signal
  BY <1>23, PoolAssumption, SMTT(60) DEF PoolTypes, OwnerTypes, TableTypes, PoolPlaces, PoolReaders, PoolHeld, Filled, Slots, Signal
<1>24. CASE Finished
  BY <1>24, PoolAssumption, SMTT(60) DEF PoolTypes, OwnerTypes, TableTypes, PoolPlaces, PoolReaders, PoolHeld, Filled, Slots, Finished, vars
<1>25. ASSUME NEW busy \in {"high", "mid", "low"}, TickSteers(busy) PROVE PoolHeld'
  BY <1>25, PoolAssumption DEF PoolTypes, OwnerTypes, TableTypes, PoolPlaces, PoolReaders, PoolHeld, Filled, Slots, TickSteers, Steered, InPool, SomeDead, Least
<1>26. ASSUME NEW i \in Slots, ReaderLoop(i) PROVE PoolHeld'
  BY <1>26, PoolAssumption, ZenonT(60) DEF PoolTypes, OwnerTypes, TableTypes, PoolPlaces, PoolReaders, PoolHeld, Filled, Slots, ReaderLoop
<1>27. ASSUME NEW i \in Slots, ReaderServe(i) PROVE PoolHeld'
  <2>1. rd[i] \in {"poll", "drain"} /\ UNCHANGED <<nq, own, exitCb, stop>>
    BY <1>27 DEF ReaderServe
  <2>2. \A j \in Slots \ {i} : rd'[j] = rd[j] /\ qs'[j] = qs[j] /\ held'[j] = held[j]
    BY <1>27 DEF ReaderServe, Flushed, PoolTypes, TableTypes
  <2>3. qs'[i].stop = qs[i].stop
    BY <1>27 DEF ReaderServe, PoolTypes, TableTypes
  <2>4. rd'[i] = "loop"
    BY <1>27, SMTT(60) DEF ReaderServe, PoolTypes, TableTypes
  <2> QED
    BY <2>1, <2>2, <2>3, <2>4 DEF PoolHeld
<1>28. ASSUME NEW i \in Slots, ReaderLost(i) PROVE PoolHeld'
  <2>1. rd[i] \in {"poll", "drain"} /\ UNCHANGED <<nq, own, exitCb, stop>>
    BY <1>28 DEF ReaderLost
  <2>2. \A j \in Slots \ {i} : rd'[j] = rd[j] /\ qs'[j] = qs[j] /\ held'[j] = held[j]
    BY <1>28 DEF ReaderLost, Flushed, PoolTypes, TableTypes
  <2>3. qs'[i].stop = qs[i].stop
    BY <1>28 DEF ReaderLost, PoolTypes, TableTypes
  <2>4. rd'[i] = "drain" /\ qs'[i].dead = TRUE
    BY <1>28, SMTT(60) DEF ReaderLost, PoolTypes, TableTypes
  <2> QED
    BY <2>1, <2>2, <2>3, <2>4 DEF PoolHeld
<1>29. ASSUME NEW i \in Slots, ReaderExit(i) PROVE PoolHeld'
  <2>1. rd[i] \in {"poll", "drain"} /\ UNCHANGED <<nq, own, exitCb, stop>>
    BY <1>29 DEF ReaderExit
  <2>2. \A j \in Slots \ {i} : rd'[j] = rd[j] /\ qs'[j] = qs[j] /\ held'[j] = held[j]
    BY <1>29 DEF ReaderExit, Flushed, PoolTypes, TableTypes
  <2>3. qs'[i].stop = qs[i].stop
    BY <1>29 DEF ReaderExit, PoolTypes, TableTypes
  <2>4. rd'[i] = "gone" /\ rd[i] = "drain" /\ qs' = qs /\ (exitCb => held'[i] = FALSE)
    BY <1>29, SMTT(60) DEF ReaderExit, PoolTypes, TableTypes
  <2> QED
    BY <2>1, <2>2, <2>3, <2>4 DEF PoolHeld, PoolPlaces
<1>30. ASSUME NEW w \in Writers, WriterLock(w) PROVE PoolHeld'
  <2>1. Writer(w)
    BY <1>30 DEF Writer
  <2>2. UNCHANGED <<qs, rd, held, nq, own, exitCb, stop>>
    BY <2>1, WriterMoves DEF PoolTypes
  <2> QED
    BY <2>2 DEF PoolHeld
<1>31. ASSUME NEW w \in Writers, WriterSelect(w) PROVE PoolHeld'
  <2>1. Writer(w)
    BY <1>31 DEF Writer
  <2>2. UNCHANGED <<qs, rd, held, nq, own, exitCb, stop>>
    BY <2>1, WriterMoves DEF PoolTypes
  <2> QED
    BY <2>2 DEF PoolHeld
<1>32. ASSUME NEW w \in Writers, WriterCheck(w) PROVE PoolHeld'
  <2>1. Writer(w)
    BY <1>32 DEF Writer
  <2>2. UNCHANGED <<qs, rd, held, nq, own, exitCb, stop>>
    BY <2>1, WriterMoves DEF PoolTypes
  <2> QED
    BY <2>2 DEF PoolHeld
<1>33. ASSUME NEW w \in Writers, WriterWrite(w) PROVE PoolHeld'
  <2>1. Writer(w)
    BY <1>33 DEF Writer
  <2>2. UNCHANGED <<qs, rd, held, nq, own, exitCb, stop>>
    BY <2>1, WriterMoves DEF PoolTypes
  <2> QED
    BY <2>2 DEF PoolHeld
<1>34. ASSUME NEW w \in Writers, WriterOwnerFd(w) PROVE PoolHeld'
  <2>1. Writer(w)
    BY <1>34 DEF Writer
  <2>2. UNCHANGED <<qs, rd, held, nq, own, exitCb, stop>>
    BY <2>1, WriterMoves DEF PoolTypes
  <2> QED
    BY <2>2 DEF PoolHeld
<1>35. ASSUME NEW w \in Writers, WriterLeave(w) PROVE PoolHeld'
  <2>1. Writer(w)
    BY <1>35, SMTT(60) DEF Writer
  <2>2. UNCHANGED <<qs, rd, held, nq, own, exitCb, stop>>
    BY <2>1, WriterMoves DEF PoolTypes
  <2> QED
    BY <2>2 DEF PoolHeld
<1>36. CASE UNCHANGED vars
  BY <1>36, PoolAssumption, SMTT(60) DEF PoolTypes, OwnerTypes, TableTypes, PoolPlaces, PoolReaders, PoolHeld, Filled, Slots, vars
<1> QED
  BY <1>1, <1>2, <1>3, <1>4, <1>5, <1>6, <1>7, <1>8, <1>9, <1>10, <1>11, <1>12, <1>13, <1>14, <1>15, <1>16, <1>17, <1>18, <1>19, <1>20, <1>21, <1>22, <1>23, <1>24, <1>25, <1>26, <1>27, <1>28, <1>29, <1>30, <1>31, <1>32, <1>33, <1>34, <1>35, <1>36, SMTT(60), Z3T(60)
  DEF Next, Owner, Reader, Writer

\* Every step but the last leaves each queue's descriptor open, and nobody
\* else's.
LEMMA PoolFdsKept == ASSUME PoolTypes, PoolPlaces, PoolReaders, PoolWriters, own.at # "done", own'.at # "done", PoolFds, [Next]_vars PROVE PoolFds'
<1>1. CASE TakePre
  <2>1. nq \in Slots /\ nq \notin Filled /\ Filled' = Filled \union {nq}
    <3>1. nq \in Slots
      BY <1>1, NextSlot DEF TakePre, PoolTypes
    <3>2. own.at = "create" /\ own' = own /\ nq' = nq + 1 /\ nq \in Int
      BY <1>1, SMTT(60) DEF TakePre, PoolTypes, OwnerTypes
    <3> QED
      BY <3>1, <3>2 DEF Filled, Slots
  <2>2. /\ Len(pre) \in Nat /\ Len(pre) > 0 /\ Head(pre) = pre[1]
        /\ DOMAIN pre = 1..Len(pre) /\ DOMAIN Tail(pre) = 1..(Len(pre) - 1)
        /\ \A k \in DOMAIN Tail(pre) : Tail(pre)[k] = pre[k + 1]
    BY <1>1, SeqTail DEF TakePre, PoolTypes, OwnerTypes
  <2>3. 1 \in DOMAIN pre /\ \A k \in DOMAIN Tail(pre) : k + 1 \in DOMAIN pre /\ k + 1 # 1
    BY <2>2
  <2>4. \A k \in DOMAIN pre : k = 1 \/ \E l \in DOMAIN Tail(pre) : k = l + 1
    <3> TAKE k \in DOMAIN pre
    <3>1. k # 1 => k - 1 \in DOMAIN Tail(pre) /\ k = (k - 1) + 1
      BY <2>2, SMTT(60)
    <3> QED
      BY <3>1
  <2>5. qs'[nq].fd = pre[1] /\ \A j \in Slots \ {nq} : qs'[j] = qs[j]
    BY <1>1, <2>1, <2>2 DEF TakePre, Slot, PoolTypes, TableTypes
  <2>6. file' = file /\ own' = own /\ own.at # "start" /\ pre' = Tail(pre)
    BY <1>1 DEF TakePre
  <2>7. Filled \subseteq Slots \ {nq}
    BY <2>1, SMTT(60) DEF Filled
  <2>8. \A i \in Filled' : file'[qs'[i].fd] \in Gens
    BY <2>1, <2>3, <2>5, <2>6, <2>7, SMTT(60) DEF PoolFds
  <2>9. \A i, j \in Filled' : i # j => qs'[i].fd # qs'[j].fd
    BY <2>1, <2>3, <2>5, <2>7 DEF PoolFds
  <2>10. ASSUME NEW k \in DOMAIN pre'
         PROVE  /\ file'[pre'[k]] \in Gens
                /\ \A i \in Filled' : qs'[i].fd # pre'[k]
                /\ \A l \in DOMAIN pre' : k # l => pre'[k] # pre'[l]
    <3>1. k \in Nat /\ \A l \in DOMAIN Tail(pre) : k # l => k + 1 # l + 1
      BY <2>10, <2>2, <2>6, SMTT(60)
    <3>2. k + 1 \in DOMAIN pre /\ k + 1 # 1 /\ pre'[k] = pre[k + 1]
      BY <2>10, <2>2, <2>3, <2>6, SMTT(60)
    <3>3. file'[pre'[k]] \in Gens
      BY <3>2, <2>6, SMTT(60), Z3T(60) DEF PoolFds
    <3>4. \A i \in Filled' : qs'[i].fd # pre'[k]
      BY <3>2, <2>1, <2>3, <2>5, <2>7, SMTT(60) DEF PoolFds
    <3>5. \A l \in DOMAIN pre' : k # l => pre'[k] # pre'[l]
      BY <3>1, <3>2, <2>2, <2>3, <2>6, SMTT(60) DEF PoolFds
    <3> QED
      BY <3>3, <3>4, <3>5
  <2>11. ASSUME NEW f \in Fds, file'[f] \in Gens
         PROVE (\E i \in Filled' : qs'[i].fd = f) \/ (\E k \in DOMAIN pre' : pre'[k] = f)
    <3>1. CASE \E i \in Filled : qs[i].fd = f
      BY <3>1, <2>1, <2>5, <2>7, SMTT(60)
    <3>2. CASE \E k \in DOMAIN pre : pre[k] = f
      <4>1. PICK k \in DOMAIN pre : pre[k] = f
        BY <3>2
      <4>2. CASE k = 1
        BY <4>1, <4>2, <2>1, <2>5, SMTT(60)
      <4>3. CASE \E l \in DOMAIN Tail(pre) : k = l + 1
        BY <4>1, <4>3, <2>2, <2>6, SMTT(60)
      <4> QED
        BY <4>2, <4>3, <2>4
    <3> QED
      BY <3>1, <3>2, <2>6, <2>11, SMTT(60) DEF PoolFds
  <2> QED
    BY <2>6, <2>8, <2>9, <2>10, <2>11 DEF PoolFds
<1>2. CASE DropPre
  <2>1. Filled' = Filled /\ qs' = qs /\ pre' = <<>> /\ own'.at = "grow" /\ own.at = "create"
    BY <1>2 DEF DropPre, Filled, PoolTypes, OwnerTypes
  <2>2. DOMAIN pre' = {}
    BY <2>1
  <2>3. \A f \in Fds : file'[f] = IF \E i \in DOMAIN pre : pre[i] = f THEN Free ELSE file[f]
    BY <1>2, SMTT(60) DEF DropPre
  <2>4. \A i \in Filled : qs[i].fd \in Fds /\ ~ \E k \in DOMAIN pre : pre[k] = qs[i].fd
    BY DEF PoolFds, Filled, PoolTypes, TableTypes
  <2>5. Free \notin Gens
    BY DEF Free, Gens
  <2> QED
    BY <2>1, <2>2, <2>3, <2>4, <2>5 DEF PoolFds
<1>3. CASE Attach
  <2>1. PICK fd \in Fds : /\ file[fd] = Free /\ file' = [file EXCEPT ![fd] = gen']
                          /\ own' = [own EXCEPT !.at = "start", !.fd = fd]
    BY <1>3, Zenon DEF Attach, LowestFree
  <2>2. gen' \in Gens
    BY <1>3, PoolAssumption, SMTT(60) DEF Attach, PoolTypes, OwnerTypes, Gens
  <2>3. own.at = "grow" /\ own'.at = "start" /\ own'.fd = fd /\ UNCHANGED <<qs, nq, pre>>
    BY <1>3, <2>1, Zenon DEF Attach, PoolTypes, OwnerTypes
  <2>4. file'[fd] \in Gens /\ \A f \in Fds \ {fd} : file'[f] = file[f]
    BY <1>3, <2>1, <2>2 DEF Attach, PoolTypes, TableTypes
  <2>5. Filled' = Filled
    BY <2>3 DEF Filled
  <2>6. pre = <<>> /\ DOMAIN pre = {}
    BY <2>3 DEF PoolPlaces
  <2>7. \A i \in Filled : qs[i].fd \in Fds \ {fd}
    BY <2>1, SMTT(60) DEF PoolFds, Filled, PoolTypes, TableTypes, Free, Gens
  <2> QED
    BY <2>1, <2>3, <2>4, <2>5, <2>6, <2>7 DEF PoolFds
<1>4. CASE AttachFails
  <2>1. UNCHANGED <<file, qs, nq, pre>> /\ own.at # "start" /\ own'.at # "start"
    BY <1>4, SMTT(60) DEF AttachFails, Resized, At, PoolTypes, OwnerTypes
  <2>2. Filled' = Filled
    BY <1>4, SMTT(60) DEF AttachFails, Resized, At, Filled, PoolTypes, OwnerTypes
  <2> QED
    BY <2>1, <2>2, SMTT(60) DEF PoolFds
<1>5. CASE StartReader
  <2>1. nq \in Slots
    BY <1>5, NextSlot DEF StartReader, PoolTypes
  <2>2. own.at = "start" /\ own'.at = "publish" /\ UNCHANGED <<file, nq, pre>>
    BY <1>5, SMTT(60) DEF StartReader, PoolTypes, OwnerTypes
  <2>3. nq \notin Filled /\ Filled' = Filled \union {nq} /\ Filled \subseteq Slots
    BY <2>1, <2>2 DEF Filled, PoolTypes, OwnerTypes
  <2>4. qs'[nq].fd = own.fd /\ \A j \in Slots \ {nq} : qs'[j] = qs[j]
    BY <1>5, <2>1 DEF StartReader, Slot, PoolTypes, TableTypes
  <2>5. pre = <<>> /\ DOMAIN pre = {}
    BY <2>2, SMTT(60) DEF PoolPlaces
  <2> QED
    BY <2>1, <2>2, <2>3, <2>4, <2>5 DEF PoolFds
<1>6. CASE StartFails
  <2>1. nq \in Slots
    BY <1>6, NextSlot, SMTT(60) DEF StartFails, PoolTypes
  <2>2. own.at = "start" /\ own'.at \in {"poll", "register"} /\ UNCHANGED <<nq, pre>>
    BY <1>6, SMTT(60) DEF StartFails, Resized, At
  <2>3. nq \notin Filled /\ Filled' = Filled /\ Filled \subseteq Slots
    BY <2>1, <2>2, SMTT(60) DEF Filled, PoolTypes, OwnerTypes
  <2>4. \A j \in Slots \ {nq} : qs'[j] = qs[j]
    BY <1>6, <2>1 DEF StartFails, PoolTypes, TableTypes
  <2>5. pre = <<>> /\ DOMAIN pre = {}
    BY <2>2, SMTT(60) DEF PoolPlaces
  <2>6. own.fd \in Fds /\ file'[own.fd] = Free /\ \A f \in Fds \ {own.fd} : file'[f] = file[f]
    BY <1>6, SMTT(60) DEF StartFails, PoolTypes, OwnerTypes, TableTypes
  <2>7. Free \notin Gens
    BY DEF Free, Gens
  <2>8. \A i \in Filled : qs'[i] = qs[i] /\ qs[i].fd \in Fds \ {own.fd}
    BY <2>2, <2>3, <2>4, SMTT(60), Z3T(60) DEF PoolFds, PoolTypes, TableTypes
  <2> QED
    BY <2>2, <2>3, <2>5, <2>6, <2>7, <2>8, SMTT(60) DEF PoolFds
<1>7. CASE PublishQueue
  <2>1. UNCHANGED <<file, qs, pre>> /\ own.at # "start" /\ own'.at # "start"
    BY <1>7 DEF PublishQueue, PoolTypes, OwnerTypes
  <2>2. Filled' = Filled
    BY <1>7 DEF PublishQueue, Filled, PoolTypes, OwnerTypes, Slots
  <2> QED
    BY <2>1, <2>2 DEF PoolFds
<1>8. CASE GrowDone
  <2>1. UNCHANGED <<file, qs, nq, pre>> /\ own.at # "start" /\ own'.at # "start"
    BY <1>8 DEF GrowDone, Resized, At, PoolTypes, OwnerTypes
  <2>2. Filled' = Filled
    BY <1>8, SMTT(60) DEF GrowDone, Resized, At, Filled, PoolTypes, OwnerTypes
  <2> QED
    BY <2>1, <2>2 DEF PoolFds
<1>9. CASE Register
  <2>1. UNCHANGED <<file, qs, nq, pre>> /\ own.at # "start" /\ own'.at # "start"
    BY <1>9, SMTT(60) DEF Register, At, PoolTypes, OwnerTypes
  <2>2. Filled' = Filled
    BY <1>9, SMTT(60) DEF Register, At, Filled, PoolTypes, OwnerTypes
  <2> QED
    BY <2>1, <2>2 DEF PoolFds
<1>10. CASE DelStop
  <2>1. UNCHANGED <<file, nq, pre>> /\ own.at \notin {"start", "publish", "join", "close"}
        /\ own'.at \notin {"start", "publish", "join", "close"}
    BY <1>10 DEF DelStop, PoolTypes, OwnerTypes
  <2>2. \A j \in Slots : qs'[j].fd = qs[j].fd
    BY <1>10 DEF DelStop, PoolTypes, TableTypes
  <2>3. Filled' = Filled /\ Filled \subseteq Slots
    BY <2>1 DEF Filled
  <2> QED
    BY <2>1, <2>2, <2>3 DEF PoolFds
<1>11. CASE DelPublish
  <2>1. UNCHANGED <<file, qs, pre>> /\ own.at # "start" /\ own'.at # "start"
    BY <1>11 DEF DelPublish, PoolTypes, OwnerTypes
  <2>2. Filled' = Filled
    BY <1>11 DEF DelPublish, Filled, PoolTypes, OwnerTypes, Slots
  <2> QED
    BY <2>1, <2>2 DEF PoolFds
<1>12. CASE DelJoin
  <2>1. UNCHANGED <<file, qs, nq, pre>> /\ own.at # "start" /\ own'.at # "start"
    BY <1>12 DEF DelJoin, PoolTypes, OwnerTypes
  <2>2. Filled' = Filled
    BY <1>12, SMTT(60), Z3T(60) DEF DelJoin, Filled, PoolTypes, OwnerTypes
  <2> QED
    BY <2>1, <2>2 DEF PoolFds
<1>13. CASE DelClose
  <2>1. nq \in Slots
    BY <1>13, NextSlot DEF DelClose, PoolTypes
  <2>2. own.at = "close" /\ own'.at \in {"shrink", "poll", "register"} /\ UNCHANGED <<qs, nq, pre>>
    BY <1>13 DEF DelClose, Resized, At, PoolTypes, OwnerTypes
  <2>3. nq \in Filled /\ Filled' = Filled \ {nq} /\ Filled \subseteq Slots
    BY <2>1, <2>2 DEF Filled, PoolTypes, OwnerTypes, Slots
  <2>4. pre = <<>> /\ DOMAIN pre = {}
    BY <2>2 DEF PoolPlaces
  <2>5. /\ qs[nq].fd \in Fds /\ file'[qs[nq].fd] = Free
        /\ \A f \in Fds \ {qs[nq].fd} : file'[f] = file[f]
    BY <1>13, <2>1 DEF DelClose, PoolTypes, TableTypes
  <2>6. Free \notin Gens
    BY DEF Free, Gens
  <2>7. \A i \in Filled' : i \in Filled /\ qs[i].fd \in Fds \ {qs[nq].fd}
    BY <2>3, SMTT(60) DEF PoolFds, PoolTypes, TableTypes
  <2> QED
    BY <2>2, <2>3, <2>4, <2>5, <2>6, <2>7, SMTT(60) DEF PoolFds
<1>14. CASE ProbeDue
  <2>1. UNCHANGED <<file, qs, nq, pre>> /\ own.at # "start" /\ own'.at # "start"
    BY <1>14, SMTT(60) DEF ProbeDue, At, PoolTypes, OwnerTypes
  <2>2. Filled' = Filled
    BY <1>14, SMTT(60) DEF ProbeDue, At, Filled, PoolTypes, OwnerTypes
  <2> QED
    BY <2>1, <2>2 DEF PoolFds
<1>15. CASE TickDue
  <2>1. UNCHANGED <<file, qs, nq, pre>> /\ own.at # "start" /\ own'.at # "start"
    BY <1>15, SMTT(60) DEF TickDue, At, PoolTypes, OwnerTypes
  <2>2. Filled' = Filled
    BY <1>15 DEF TickDue, At, Filled, PoolTypes, OwnerTypes
  <2> QED
    BY <2>1, <2>2 DEF PoolFds
<1>16. CASE ProbeReaders
  <2>1. UNCHANGED <<file, qs, nq, pre>> /\ own.at # "start" /\ own'.at # "start"
    BY <1>16 DEF ProbeReaders, At, PoolTypes, OwnerTypes
  <2>2. Filled' = Filled
    BY <1>16, SMTT(60) DEF ProbeReaders, At, Filled, PoolTypes, OwnerTypes
  <2> QED
    BY <2>1, <2>2 DEF PoolFds
<1>17. CASE ProbeIndex
  <2>1. UNCHANGED <<file, qs, nq, pre>> /\ own.at # "start" /\ own'.at # "start"
    BY <1>17, SMTT(60) DEF ProbeIndex, At, PoolTypes, OwnerTypes
  <2>2. Filled' = Filled
    BY <1>17, SMTT(60) DEF ProbeIndex, At, Filled, PoolTypes, OwnerTypes
  <2> QED
    BY <2>1, <2>2 DEF PoolFds
<1>18. CASE TickSkips
  <2>1. UNCHANGED <<file, qs, nq, pre>> /\ own.at # "start" /\ own'.at # "start"
    BY <1>18, SMTT(60) DEF TickSkips, At, PoolTypes, OwnerTypes
  <2>2. Filled' = Filled
    BY <1>18 DEF TickSkips, At, Filled, PoolTypes, OwnerTypes
  <2> QED
    BY <2>1, <2>2 DEF PoolFds
<1>19. CASE JoinWriters
  <2>1. UNCHANGED <<file, nq, pre>> /\ own.at \notin {"start", "publish", "join", "close"}
        /\ own'.at \notin {"start", "publish", "join", "close"}
    BY <1>19 DEF JoinWriters, At, PoolTypes, OwnerTypes
  <2>2. \A j \in Slots : qs'[j].fd = qs[j].fd
    BY <1>19, SMTT(60) DEF JoinWriters, PoolTypes, TableTypes
  <2>3. Filled' = Filled /\ Filled \subseteq Slots
    BY <2>1 DEF Filled
  <2> QED
    BY <2>1, <2>2, <2>3 DEF PoolFds
<1>20. CASE JoinReaders
  <2>1. UNCHANGED <<file, qs, nq, pre>> /\ own.at # "start" /\ own'.at # "start"
    BY <1>20, SMTT(60) DEF JoinReaders, At, InPool, PoolTypes, OwnerTypes
  <2>2. Filled' = Filled
    BY <1>20, SMTT(60) DEF JoinReaders, At, InPool, Filled, PoolTypes, OwnerTypes
  <2> QED
    BY <2>1, <2>2 DEF PoolFds
<1>21. CASE CloseAll
  BY <1>21, SMTT(60), Z3T(60) DEF CloseAll, At
<1>22. CASE DeviceDeleted
  <2>1. UNCHANGED <<file, qs, nq, pre, own>>
    BY <1>22 DEF DeviceDeleted
  <2> QED
    BY <2>1 DEF PoolFds, Filled
<1>23. CASE Signal
  <2>1. UNCHANGED <<file, qs, nq, pre, own>>
    BY <1>23 DEF Signal
  <2> QED
    BY <2>1 DEF PoolFds, Filled
<1>24. CASE Finished
  BY <1>24, SMTT(60) DEF Finished
<1>25. ASSUME NEW busy \in {"high", "mid", "low"}, TickSteers(busy) PROVE PoolFds'
  <2>1. UNCHANGED <<file, qs, nq, pre>> /\ own.at = "tick" /\ own'.at = "grow"
    BY <1>25 DEF TickSteers, PoolTypes, OwnerTypes
  <2>2. Filled' = Filled
    BY <2>1 DEF Filled
  <2> QED
    BY <2>1, <2>2, ZenonT(60) DEF PoolFds
<1>26. ASSUME NEW i \in Slots, ReaderLoop(i) PROVE PoolFds'
  <2>1. UNCHANGED <<file, nq, pre, own>>
    BY <1>26, SMTT(60) DEF ReaderLoop
  <2>2. \A j \in Slots : qs'[j].fd = qs[j].fd
    BY <1>26 DEF ReaderLoop, PoolTypes, TableTypes
  <2>3. Filled' = Filled /\ Filled \subseteq Slots
    BY <2>1, SMTT(60) DEF Filled
  <2> QED
    BY <2>1, <2>2, <2>3 DEF PoolFds
<1>27. ASSUME NEW i \in Slots, ReaderServe(i) PROVE PoolFds'
  <2>1. UNCHANGED <<file, nq, pre, own>>
    BY <1>27, SMTT(60) DEF ReaderServe
  <2>2. \A j \in Slots : qs'[j].fd = qs[j].fd
    BY <1>27 DEF ReaderServe, PoolTypes, TableTypes
  <2>3. Filled' = Filled /\ Filled \subseteq Slots
    BY <2>1 DEF Filled
  <2> QED
    BY <2>1, <2>2, <2>3 DEF PoolFds
<1>28. ASSUME NEW i \in Slots, ReaderLost(i) PROVE PoolFds'
  <2>1. UNCHANGED <<file, nq, pre, own>>
    BY <1>28 DEF ReaderLost
  <2>2. \A j \in Slots : qs'[j].fd = qs[j].fd
    BY <1>28, SMTT(60) DEF ReaderLost, PoolTypes, TableTypes
  <2>3. Filled' = Filled /\ Filled \subseteq Slots
    BY <2>1 DEF Filled
  <2> QED
    BY <2>1, <2>2, <2>3 DEF PoolFds
<1>29. ASSUME NEW i \in Slots, ReaderExit(i) PROVE PoolFds'
  <2>1. UNCHANGED <<file, nq, pre, own>>
    BY <1>29, SMTT(60) DEF ReaderExit
  <2>2. \A j \in Slots : qs'[j].fd = qs[j].fd
    BY <1>29, SMTT(60), Z3T(60) DEF ReaderExit, PoolTypes, TableTypes
  <2>3. Filled' = Filled /\ Filled \subseteq Slots
    BY <2>1 DEF Filled
  <2> QED
    BY <2>1, <2>2, <2>3 DEF PoolFds
<1>30. ASSUME NEW w \in Writers, WriterLock(w) PROVE PoolFds'
  <2>1. Writer(w)
    BY <1>30, SMTT(60) DEF Writer
  <2>2. UNCHANGED <<file, qs, nq, pre, own>>
    BY <2>1, WriterMoves DEF PoolTypes
  <2> QED
    BY <2>2, SMTT(60) DEF PoolFds, Filled
<1>31. ASSUME NEW w \in Writers, WriterSelect(w) PROVE PoolFds'
  <2>1. Writer(w)
    BY <1>31, SMTT(60) DEF Writer
  <2>2. UNCHANGED <<file, qs, nq, pre, own>>
    BY <2>1, WriterMoves DEF PoolTypes
  <2> QED
    BY <2>2 DEF PoolFds, Filled
<1>32. ASSUME NEW w \in Writers, WriterCheck(w) PROVE PoolFds'
  <2>1. Writer(w)
    BY <1>32 DEF Writer
  <2>2. UNCHANGED <<file, qs, nq, pre, own>>
    BY <2>1, WriterMoves DEF PoolTypes
  <2> QED
    BY <2>2 DEF PoolFds, Filled
<1>33. ASSUME NEW w \in Writers, WriterWrite(w) PROVE PoolFds'
  <2>1. Writer(w)
    BY <1>33 DEF Writer
  <2>2. UNCHANGED <<file, qs, nq, pre, own>>
    BY <2>1, WriterMoves DEF PoolTypes
  <2> QED
    BY <2>2 DEF PoolFds, Filled
<1>34. ASSUME NEW w \in Writers, WriterOwnerFd(w) PROVE PoolFds'
  <2>1. Writer(w)
    BY <1>34, SMTT(60) DEF Writer
  <2>2. UNCHANGED <<file, qs, nq, pre, own>>
    BY <2>1, WriterMoves DEF PoolTypes
  <2> QED
    BY <2>2 DEF PoolFds, Filled
<1>35. ASSUME NEW w \in Writers, WriterLeave(w) PROVE PoolFds'
  <2>1. Writer(w)
    BY <1>35, SMTT(60) DEF Writer
  <2>2. UNCHANGED <<file, qs, nq, pre, own>>
    BY <2>1, WriterMoves DEF PoolTypes
  <2> QED
    BY <2>2 DEF PoolFds, Filled
<1>36. CASE UNCHANGED vars
  BY <1>36, ZenonT(60) DEF vars, PoolFds, Filled
<1> QED
  BY <1>1, <1>2, <1>3, <1>4, <1>5, <1>6, <1>7, <1>8, <1>9, <1>10, <1>11, <1>12, <1>13, <1>14, <1>15, <1>16, <1>17, <1>18, <1>19, <1>20, <1>21, <1>22, <1>23, <1>24, <1>25, <1>26, <1>27, <1>28, <1>29, <1>30, <1>31, <1>32, <1>33, <1>34, <1>35, <1>36, SMTT(60), Z3T(60)
  DEF Next, Owner, Reader, Writer

\* The pool the owner has just begun to create satisfies the invariant.
LEMMA PoolInitially == ASSUME Init PROVE PoolInv
<1>1. OwnerTypes
  <2>1. 1 \in Gens /\ pre \in Seq(Fds)
    BY PoolAssumption, SMTT(60) DEF Init, Gens, Fds
  <2> QED
    BY <2>1, FirstOnes, Zenon DEF Init, OwnerTypes, OwnerPlaces
<1>2. TableTypes
  <2>1. 1 \in Gens
    BY PoolAssumption, SMTT(60), Z3T(60) DEF Gens
  <2> QED
    BY <2>1, FirstOnes, SMTT(60) DEF Init, TableTypes
<1>3. PoolPlaces
  BY PoolAssumption, SMTT(60) DEF Init, PoolPlaces, Least
<1>4. Filled = {0}
  BY FirstOnes, SMTT(60), Z3T(60) DEF Init, Filled, Slots
<1>5. PoolFds
  <2>1. own.at = "create" /\ qs[0].fd = 1 /\ file[1] = 1 /\ 1 \in Gens
    BY FirstOnes, PoolAssumption, SMTT(60), Z3T(60) DEF Init, Gens
  <2>2. DOMAIN pre = 1..Pre /\ \A k \in 1..Pre : pre[k] = k + 1 /\ k + 1 \in Fds /\ file[k + 1] = 1
    BY PoolAssumption, SMTT(60) DEF Init, Fds
  <2>3. \A f \in Fds : file[f] \in Gens => f <= Pre + 1
    BY DEF Init, Gens, Free
  <2>4. \A f \in Fds : f <= Pre + 1 => f = 1 \/ (f - 1 \in 1..Pre /\ f = (f - 1) + 1)
    BY PoolAssumption DEF Fds
  <2>5. \A k, l \in 1..Pre : k + 1 # 1 /\ (k # l => k + 1 # l + 1)
    BY PoolAssumption
  <2>6. \A f \in Fds : file[f] \in Gens => f = 1 \/ \E k \in DOMAIN pre : pre[k] = f
    BY <2>2, <2>3, <2>4, SMTT(60), Z3T(60)
  <2> QED
    BY <1>4, <2>1, <2>2, <2>5, <2>6, SMTT(60), Z3T(60) DEF PoolFds
<1>6. PoolReaders /\ PoolWriters /\ PoolHeld
  BY <1>4, FirstOnes DEF Init, PoolReaders, PoolWriters, PoolHeld
<1> QED
  BY <1>1, <1>2, <1>3, <1>5, <1>6, Zenon DEF Init, PoolInv, PoolTypes

\* The end: CloseAll leaves no descriptor open, and nothing opens one again.
LEMMA PoolEnds ==
  ASSUME PoolInv, [Next]_vars, own'.at = "done"
  PROVE  \A f \in Fds : file'[f] = Free
<1>1. CASE own.at = "done"
  <2>1. file' = file
    <3>1. ASSUME NEW w \in Writers, Writer(w) PROVE file' = file
      BY <3>1, WriterMoves DEF PoolInv, PoolTypes
    <3>2. ASSUME NEW i \in Slots, Reader(i) PROVE file' = file
      BY <3>2 DEF Reader, ReaderLoop, ReaderServe, ReaderLost, ReaderExit
    <3>3. ~Owner
      BY <1>1 DEF Owner, TakePre, DropPre, Attach, AttachFails, StartReader, StartFails,
        PublishQueue, GrowDone, Register, DelStop, DelPublish, DelJoin, DelClose, ProbeDue,
        TickDue, ProbeReaders, ProbeIndex, TickSkips, TickSteers, JoinWriters, JoinReaders,
        CloseAll
    <3> QED
      BY <3>1, <3>2, <3>3, SMTT(60) DEF Next, DeviceDeleted, Signal, Finished, vars
  <2> QED
    BY <1>1, <2>1, SMTT(60) DEF PoolInv
<1>2. CASE own.at # "done"
  <2>1. CloseAll
    <3>1. own' # own
      BY <1>2
    <3>2. \A w \in Writers : ~Writer(w)
      BY <3>1, WriterMoves DEF PoolInv, PoolTypes
    <3>3. \A i \in Slots : ~Reader(i)
      BY <3>1, SMTT(60) DEF Reader, ReaderLoop, ReaderServe, ReaderLost, ReaderExit
    <3>4. ~DeviceDeleted /\ ~Signal /\ ~Finished /\ ~UNCHANGED vars
      BY <3>1 DEF DeviceDeleted, Signal, Finished, vars
    <3>5. Owner
      BY <3>2, <3>3, <3>4 DEF Next
    <3>6. \A busy \in {"high", "mid", "low"} : ~TickSteers(busy)
      BY <1>2, Zenon DEF TickSteers, PoolInv, PoolTypes, OwnerTypes
    <3>7. ~TakePre /\ ~DropPre /\ ~Attach /\ ~AttachFails /\ ~StartReader /\ ~StartFails
      <4>1. ~TakePre /\ ~DropPre
        BY <1>2, Zenon DEF TakePre, DropPre, PoolInv, PoolTypes, OwnerTypes
      <4>2. ~Attach /\ ~StartReader
        BY <1>2, Zenon DEF Attach, StartReader, PoolInv, PoolTypes, OwnerTypes
      <4>3. ~AttachFails /\ ~StartFails
        BY <1>2 DEF AttachFails, StartFails, Resized, At
      <4> QED
        BY <4>1, <4>2, <4>3
    <3>8. ~PublishQueue /\ ~GrowDone /\ ~Register /\ ~DelStop /\ ~DelPublish /\ ~DelJoin
      BY <1>2 DEF PublishQueue, GrowDone, Register, DelStop, DelPublish, DelJoin, Resized, At,
        PoolInv, PoolTypes, OwnerTypes
    <3>9. ~DelClose /\ ~ProbeDue /\ ~TickDue /\ ~ProbeReaders /\ ~ProbeIndex /\ ~TickSkips
      BY <1>2, SMTT(60) DEF DelClose, ProbeDue, TickDue, ProbeReaders, ProbeIndex, TickSkips, Resized, At,
        PoolInv, PoolTypes, OwnerTypes
    <3>10. ~JoinWriters /\ ~JoinReaders
      BY <1>2, SMTT(60) DEF JoinWriters, JoinReaders, At
    <3> QED
      BY <3>5, <3>6, <3>7, <3>8, <3>9, <3>10 DEF Owner
  <2>2. Filled = InPool /\ pre = <<>> /\ DOMAIN pre = {} /\ own.at # "start"
    BY <2>1 DEF CloseAll, Filled, InPool, PoolInv, PoolPlaces
  <2>3. PoolFds /\ file \in [Fds -> Gens \union {Free}]
    BY <1>2, SMTT(60) DEF PoolInv, PoolTypes, TableTypes
  <2>4. \A f \in Fds : file'[f] = IF \E i \in InPool : qs[i].fd = f THEN Free ELSE file[f]
    BY <2>1, SMTT(60) DEF CloseAll
  <2> QED
    BY <2>2, <2>3, <2>4 DEF PoolFds
<1> QED
  BY <1>1, <1>2

\* Once closed the pool stays closed.
LEMMA PoolStaysDone ==
  ASSUME PoolTypes, own.at = "done", [Next]_vars PROVE own'.at = "done"
<1>1. ASSUME NEW w \in Writers, Writer(w) PROVE own' = own
  BY <1>1, WriterMoves DEF PoolTypes
<1>2. ASSUME NEW i \in Slots, Reader(i) PROVE own' = own
  BY <1>2 DEF Reader, ReaderLoop, ReaderServe, ReaderLost, ReaderExit
<1>3. ~Owner
  BY DEF Owner, TakePre, DropPre, Attach, AttachFails, StartReader, StartFails,
    PublishQueue, GrowDone, Register, DelStop, DelPublish, DelJoin, DelClose, ProbeDue,
    TickDue, ProbeReaders, ProbeIndex, TickSkips, TickSteers, JoinWriters, JoinReaders,
    CloseAll
<1> QED
  BY <1>1, <1>2, <1>3, SMTT(60) DEF Next, DeviceDeleted, Signal, Finished, vars

\* The invariant holds for every number of queues, writers, descriptors and
\* device generations.
THEOREM PoolInvariant == Spec => []PoolInv
<1>1. ASSUME PoolInv, [Next]_vars PROVE PoolInv'
  <2>1. OwnerTypes' /\ TableTypes' /\ PoolPlaces'
    BY <1>1, OwnerTypesKept, TableTypesKept, PoolPlacesKept DEF PoolInv, PoolTypes
  <2>2. PoolReaders' /\ PoolWriters' /\ PoolHeld'
    BY <1>1, PoolReadersKept, PoolWritersKept, PoolHeldKept DEF PoolInv
  <2>3. own'.at = "done" => \A f \in Fds : file'[f] = Free
    BY <1>1, PoolEnds
  <2>4. own'.at # "done" => PoolFds'
    BY <1>1, PoolFdsKept, PoolStaysDone DEF PoolInv
  <2> QED
    BY <2>1, <2>2, <2>3, <2>4 DEF PoolInv, PoolTypes
<1> QED
  BY <1>1, PoolInitially, PTL DEF Spec

\* Every descriptor the pool opened belongs to one queue until it is closed,
\* no writer writes to a closed or a foreign one, and at the end all are
\* closed (tun_pool_add, tun_pool_del, tun_pool_close).
THEOREM TunIsAccounted == Spec => []TunAccounted
<1>1. PoolInv => TypeOK
  BY SMTT(60) DEF PoolInv, PoolTypes, OwnerTypes, TableTypes, TypeOK
<1>2. PoolInv => WritesTun
  <2> SUFFICES ASSUME PoolInv, NEW w \in Writers
               PROVE  /\ wr[w].at = "write" => file[qs[wr[w].i].fd] \in Gens
                      /\ wr[w].at = "owner" => file[qs[0].fd] \in Gens
    BY SMTT(60) DEF WritesTun
  <2>1. CASE own.at \in {"readers", "closing", "done"}
    BY <2>1, SMTT(60) DEF PoolInv, PoolWriters
  <2>2. CASE own.at \notin {"readers", "closing", "done"}
    <3>1. PoolFds
      BY <2>2 DEF PoolInv
    <3>2. 0 \in Filled
      BY FirstOnes, SMTT(60) DEF Filled, PoolInv, PoolTypes, OwnerTypes
    <3>3. wr[w].at = "write" => wr[w].i \in Filled
      BY SMTT(60) DEF Filled, PoolInv, PoolTypes, TableTypes, PoolWriters
    <3> QED
      BY <3>1, <3>2, <3>3 DEF PoolFds
  <2> QED
    BY <2>1, <2>2, SMTT(60)
<1>3. PoolInv => ReadersOwnFds
  <2> SUFFICES ASSUME PoolInv, NEW i \in Slots, rd[i] \in {"loop", "poll", "drain"}
               PROVE  /\ file[qs[i].fd] \in Gens
                      /\ \A j \in Slots \ {i} : rd[j] # "none" => qs[j].fd # qs[i].fd
    BY DEF ReadersOwnFds
  <2>1. own.at # "done" /\ PoolFds
    BY SMTT(60) DEF PoolInv, PoolReaders
  <2>2. \A j \in Slots : rd[j] # "none" => j \in Filled
    BY DEF PoolInv, PoolReaders
  <2> QED
    BY <2>1, <2>2, SMTT(60) DEF PoolFds
<1>4. PoolInv => NoQueueLeaks
  BY DEF PoolInv, NoQueueLeaks, Free, Gens
<1> QED
  BY <1>1, <1>2, <1>3, <1>4, PoolInvariant, PTL DEF TunAccounted, FdsAccounted

\* A slot that is filled again starts without the stop, dead and hold marks
\* of the queue before (tun_pool_add).
THEOREM SlotsStartEmpty == Spec => SlotStartsEmpty
<1>1. PoolInv => [\A i \in Slots : rd[i] = "none" /\ rd'[i] = "loop" => ~held[i]]_vars
  BY DEF PoolInv, PoolHeld
<1> QED
  BY <1>1, PoolInvariant, PTL DEF SlotStartsEmpty
=============================================================================
