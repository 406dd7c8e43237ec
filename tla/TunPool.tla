------------------------------ MODULE TunPool -------------------------------
(***************************************************************************)
(* The multi-queue TUN reader pool (common/tun.c) inside the server        *)
(* (iwan_server.c): the primary recv thread owns the pool and probes,      *)
(* grows, shrinks and destroys it; one reader thread per queue; the other  *)
(* recv threads write uplink packets through a queue fd they select.       *)
(*                                                                         *)
(* File descriptors are numbers that the process reuses, lowest first; the *)
(* device can be deleted from outside, and an attach to the vanished name  *)
(* creates a new device (a new generation).  Packets are left out; what is *)
(* kept of the downlink batch of a slot is whether it holds frames.        *)
(***************************************************************************)
EXTENDS Integers, FiniteSets, Sequences

CONSTANTS
  Writers,    \* the recv threads other than the primary
  MaxQ,       \* pool->maxq
  InitQ,      \* initq
  Pre,        \* number of queue fds opened before the fork
  IdleMin,    \* idle ticks before a shrink (4)
  NF,         \* bound: file descriptors of the process
  MaxGen,     \* bound: generations of the device
  Congested   \* whether a flush of the downlink batch can meet EAGAIN

ASSUME PoolAssumption ==
  /\ {MaxQ, InitQ, IdleMin, NF, MaxGen} \subseteq Nat \ {0}
  /\ Pre \in Nat /\ Pre < NF
  /\ Congested \in BOOLEAN

VARIABLES
  up,         \* a device of the server's name exists ...
  gen,        \* ... and this is its generation
  file,       \* fd -> generation of the TUN queue it refers to, or Free
  qs,         \* pool->qs: fd, stop and dead of each slot
  rd,         \* where the reader thread of each slot is
  held,       \* srv_dl_batch: frames retained for the slot
  nq,         \* pool->nq
  ctl,        \* slow_start, idle_cycles, wstall
  own,        \* the primary thread: where it is, and its locals
  pre,        \* pre-opened fds not handed out yet
  exitCb,     \* pool->exit_cb is set
  wr,         \* the writers: where they are, and the slot they selected
  stop        \* g_stop

vars == <<up, gen, file, qs, rd, held, nq, ctl, own, pre, exitCb, wr, stop>>

Slots == 0..(MaxQ - 1)

Fds == 1..NF

Free == 0

Gens == 1..MaxGen

InPool == {i \in Slots : i < nq}

\* The queue behind the fd belongs to the device as it is now.
Alive(f) == up /\ file[f] = gen

SomeDead == \E i \in InPool : qs[i].dead

NoWriterInside == \A w \in Writers : wr[w].at \notin {"locked", "chosen", "write"}

\* The descriptor the kernel hands out next.
LowestFree(f) == file[f] = Free /\ \A g \in Fds : file[g] = Free => f <= g

Least(a, b) == IF a <= b THEN a ELSE b

\* main opened fd 1 as the device and Pre more queues; tun_pool_create_pre has
\* started the reader of queue 0 and published nq = 1.
Init ==
  /\ up = TRUE /\ gen = 1
  /\ file = [f \in Fds |-> IF f <= Pre + 1 THEN 1 ELSE Free]
  /\ qs = [i \in Slots |-> [fd |-> 1, stop |-> FALSE, dead |-> FALSE]]
  /\ rd = [i \in Slots |-> IF i = 0 THEN "loop" ELSE "none"]
  /\ held = [i \in Slots |-> FALSE]
  /\ nq = 1
  /\ ctl = [slow |-> TRUE, idle |-> 0, stall |-> FALSE]
  /\ own = [at |-> "create", target |-> 1, fd |-> 1, lost |-> FALSE]
  /\ pre = [i \in 1..Pre |-> i + 1]
  /\ exitCb = FALSE
  /\ wr = [w \in Writers |-> [at |-> "idle", i |-> 0]]
  /\ stop = FALSE

-----------------------------------------------------------------------------
(* The pool owner: growing.                                                *)

\* The primary is at a point where none of its locals is in use.
At(point) == [at |-> point, target |-> 1, fd |-> 1, lost |-> FALSE]

\* A resize is over: back to tun_pool_create_pre's caller or to the poll loop.
Resized == At(IF exitCb THEN "poll" ELSE "register")

Slot(f) == [fd |-> f, stop |-> FALSE, dead |-> FALSE]

\* tun_pool_create_pre: tun_pool_add_fd of the next pre-opened fd.
TakePre ==
  /\ own.at = "create" /\ nq < Least(InitQ, MaxQ) /\ pre # <<>>
  /\ qs' = [qs EXCEPT ![nq] = Slot(Head(pre))]
  /\ rd' = [rd EXCEPT ![nq] = "loop"]
  /\ nq' = nq + 1
  /\ pre' = Tail(pre)
  /\ UNCHANGED <<up, gen, file, held, ctl, own, exitCb, wr, stop>>

\* The loop over the pre-opened fds ends, also after a failed add; the fds left
\* over are closed and attaching takes over.
DropPre ==
  /\ own.at = "create"
  /\ file' = [f \in Fds |-> IF \E i \in DOMAIN pre : pre[i] = f THEN Free ELSE file[f]]
  /\ pre' = <<>>
  /\ own' = [own EXCEPT !.at = "grow", !.target = Least(InitQ, MaxQ)]
  /\ UNCHANGED <<up, gen, qs, rd, held, nq, ctl, exitCb, wr, stop>>

\* tun_pool_add: tun_attach opens a queue, of a new device if there is none.
Attach ==
  /\ own.at = "grow" /\ nq < own.target
  /\ up \/ gen < MaxGen
  /\ gen' = IF up THEN gen ELSE gen + 1
  /\ up' = TRUE
  /\ \E f \in Fds :
       /\ LowestFree(f)
       /\ file' = [file EXCEPT ![f] = gen']
       /\ own' = [own EXCEPT !.at = "start", !.fd = f]
  /\ UNCHANGED <<qs, rd, held, nq, ctl, pre, exitCb, wr, stop>>

\* tun_attach fails (no privilege, no fd).
AttachFails ==
  /\ own.at = "grow" /\ nq < own.target
  /\ own' = Resized
  /\ UNCHANGED <<up, gen, file, qs, rd, held, nq, ctl, pre, exitCb, wr, stop>>

\* tun_pool_add_fd: the slot is filled and its reader runs before nq counts it.
StartReader ==
  /\ own.at = "start"
  /\ qs' = [qs EXCEPT ![nq] = Slot(own.fd)]
  /\ rd' = [rd EXCEPT ![nq] = "loop"]
  /\ own' = [own EXCEPT !.at = "publish", !.fd = 1]
  /\ UNCHANGED <<up, gen, file, held, nq, ctl, pre, exitCb, wr, stop>>

\* set_nonblock_checked fails (slot untouched) or pthread_create does (slot
\* filled); tun_pool_add closes the fd.
StartFails ==
  /\ own.at = "start"
  /\ qs' \in {qs, [qs EXCEPT ![nq] = Slot(own.fd)]}
  /\ file' = [file EXCEPT ![own.fd] = Free]
  /\ own' = Resized
  /\ UNCHANGED <<up, gen, rd, held, nq, ctl, pre, exitCb, wr, stop>>

PublishQueue ==
  /\ own.at = "publish"
  /\ nq' = nq + 1
  /\ own' = [own EXCEPT !.at = "grow"]
  /\ UNCHANGED <<up, gen, file, qs, rd, held, ctl, pre, exitCb, wr, stop>>

GrowDone ==
  /\ own.at = "grow" /\ nq >= own.target
  /\ own' = IF nq > own.target THEN [own EXCEPT !.at = "shrink"] ELSE Resized
  /\ UNCHANGED <<up, gen, file, qs, rd, held, nq, ctl, pre, exitCb, wr, stop>>

\* main: tun_pool_set_exit_cb; the recv threads are created after it.
Register ==
  /\ own.at = "register"
  /\ exitCb' = TRUE
  /\ own' = At("poll")
  /\ UNCHANGED <<up, gen, file, qs, rd, held, nq, ctl, pre, wr, stop>>

-----------------------------------------------------------------------------
(* The pool owner: shrinking (tun_pool_del).                               *)

DelStop ==
  /\ own.at = "shrink"
  /\ qs' = [qs EXCEPT ![nq - 1].stop = TRUE]
  /\ own' = [own EXCEPT !.at = "del"]
  /\ UNCHANGED <<up, gen, file, rd, held, nq, ctl, pre, exitCb, wr, stop>>

DelPublish ==
  /\ own.at = "del"
  /\ nq' = nq - 1
  /\ own' = [own EXCEPT !.at = "join"]
  /\ UNCHANGED <<up, gen, file, qs, rd, held, ctl, pre, exitCb, wr, stop>>

DelJoinNot ==
  /\ own.at = "join"
  /\ own' = [own EXCEPT !.at = "close"]
  /\ UNCHANGED <<up, gen, file, qs, rd, held, nq, ctl, pre, exitCb, wr, stop>>

DelJoin ==
  /\ own.at = "join" /\ rd[nq] = "gone"
  /\ rd' = [rd EXCEPT ![nq] = "none"]
  /\ own' = [own EXCEPT !.at = "close"]
  /\ UNCHANGED <<up, gen, file, qs, held, nq, ctl, pre, exitCb, wr, stop>>

DelCloseUnlocked ==
  /\ own.at = "close"
  /\ file' = [file EXCEPT ![qs[nq].fd] = Free]
  /\ own' = IF nq > own.target THEN [own EXCEPT !.at = "shrink"] ELSE Resized
  /\ UNCHANGED <<up, gen, qs, rd, held, nq, ctl, pre, exitCb, wr, stop>>

\* Detach and close under the write lock.
DelClose ==
  /\ own.at = "close" /\ NoWriterInside
  /\ file' = [file EXCEPT ![qs[nq].fd] = Free]
  /\ own' = IF nq > own.target THEN [own EXCEPT !.at = "shrink"] ELSE Resized
  /\ UNCHANGED <<up, gen, qs, rd, held, nq, ctl, pre, exitCb, wr, stop>>

-----------------------------------------------------------------------------
(* The primary's housekeeping.                                             *)

\* A pass of the poll loop in which the probe, the tick or neither is due.
ProbeDue ==
  /\ own.at = "poll" /\ ~stop
  /\ own' = At("probe")
  /\ UNCHANGED <<up, gen, file, qs, rd, held, nq, ctl, pre, exitCb, wr, stop>>

TickDue ==
  /\ own.at = "poll" /\ ~stop
  /\ own' = At("tick")
  /\ UNCHANGED <<up, gen, file, qs, rd, held, nq, ctl, pre, exitCb, wr, stop>>

ProbeReaders ==
  /\ own.at = "probe"
  /\ own' = IF stop THEN At("tick") ELSE [At("index") EXCEPT !.lost = SomeDead]
  /\ UNCHANGED <<up, gen, file, qs, rd, held, nq, ctl, pre, exitCb, wr, stop>>

ProbeIndexOnly ==
  /\ own.at = "index"
  /\ stop' = (stop \/ ~up)
  /\ own' = At("tick")
  /\ UNCHANGED <<up, gen, file, qs, rd, held, nq, ctl, pre, exitCb, wr>>

\* if_nametoindex; a lost reader or a missing device stops the server.
ProbeIndex ==
  /\ own.at = "index"
  /\ stop' = (stop \/ own.lost \/ ~up)
  /\ own' = At("tick")
  /\ UNCHANGED <<up, gen, file, qs, rd, held, nq, ctl, pre, exitCb, wr>>

TickSkips ==
  /\ own.at = "tick" /\ (stop \/ SomeDead)
  /\ own' = At("poll")
  /\ UNCHANGED <<up, gen, file, qs, rd, held, nq, ctl, pre, exitCb, wr, stop>>

\* What the busy ratio makes of the control state and the target; the ratio is
\* any of high, middling and low, and high after an uplink stall.
Steered(busy) ==
  LET ready == ctl.idle + 1 >= IdleMin /\ nq > 1
      idle == Least(ctl.idle + 1, IdleMin)
  IN CASE busy = "high" -> [slow |-> ctl.slow /\ nq * 2 < 4, idle |-> 0,
                            target |-> IF ctl.slow THEN nq * 2 ELSE nq + 1]
       [] busy = "low"  -> [slow |-> ctl.slow, idle |-> IF ready THEN 0 ELSE idle,
                            target |-> IF ready THEN nq \div 2 ELSE nq]
       [] OTHER         -> [slow |-> ctl.slow, idle |-> 0, target |-> nq]

\* tun_pool_tick: AIMD on the busy ratio.
TickSteers(busy) ==
  LET s == Steered(busy)
  IN /\ own.at = "tick" /\ ~stop /\ ~SomeDead
     /\ ctl.stall => busy = "high"
     /\ ctl' = [slow |-> s.slow, idle |-> s.idle, stall |-> FALSE]
     /\ own' = [own EXCEPT !.at = "grow", !.target = Least(s.target, MaxQ)]
     /\ UNCHANGED <<up, gen, file, qs, rd, held, nq, pre, exitCb, wr, stop>>

-----------------------------------------------------------------------------
(* The end: the primary leaves its loop, joins the recv threads and        *)
(* destroys the pool (server_shutdown, tun_pool_destroy).                  *)

JoinWriters ==
  /\ own.at = "poll" /\ stop /\ \A w \in Writers : wr[w].at = "out"
  /\ qs' = [i \in Slots |-> IF i < nq THEN [qs[i] EXCEPT !.stop = TRUE] ELSE qs[i]]
  /\ own' = At("readers")
  /\ UNCHANGED <<up, gen, file, rd, held, nq, ctl, pre, exitCb, wr, stop>>

JoinReaders ==
  /\ own.at = "readers" /\ \A i \in InPool : rd[i] = "gone"
  /\ own' = At("closing")
  /\ UNCHANGED <<up, gen, file, qs, rd, held, nq, ctl, pre, exitCb, wr, stop>>

\* The extra queues under the write lock, then tun_close of the device fd.
CloseAll ==
  /\ own.at = "closing" /\ NoWriterInside
  /\ file' = [f \in Fds |-> IF \E i \in InPool : qs[i].fd = f THEN Free ELSE file[f]]
  /\ own' = At("done")
  /\ UNCHANGED <<up, gen, qs, rd, held, nq, ctl, pre, exitCb, wr, stop>>

Finished == own.at = "done" /\ UNCHANGED vars

-----------------------------------------------------------------------------
(* A reader thread (tun_reader_main).                                      *)

ReaderLoop(i) ==
  /\ rd[i] = "loop"
  /\ rd' = [rd EXCEPT ![i] = IF qs[i].stop \/ stop THEN "drain" ELSE "poll"]
  /\ UNCHANGED <<up, gen, file, qs, held, nq, ctl, own, pre, exitCb, wr, stop>>

\* What the packet callback can leave in the batch of slot i.
Flushed(i) == {held, [held EXCEPT ![i] = Congested], [held EXCEPT ![i] = FALSE]}

\* A timeout, or packets: the batch is flushed, or retained on EAGAIN.
ReaderServe(i) ==
  /\ rd[i] = "poll" /\ Alive(qs[i].fd)
  /\ rd' = [rd EXCEPT ![i] = "loop"]
  /\ held' \in Flushed(i)
  /\ UNCHANGED <<up, gen, file, qs, nq, ctl, own, pre, exitCb, wr, stop>>

\* POLLHUP or a poll error: what was queued is delivered, the slot is dead.
ReaderLost(i) ==
  /\ rd[i] = "poll" /\ ~Alive(qs[i].fd)
  /\ qs' = [qs EXCEPT ![i].dead = TRUE]
  /\ rd' = [rd EXCEPT ![i] = "drain"]
  /\ held' \in Flushed(i)
  /\ UNCHANGED <<up, gen, file, nq, ctl, own, pre, exitCb, wr, stop>>

ReaderExitKeeps(i) ==
  /\ rd[i] = "drain"
  /\ rd' = [rd EXCEPT ![i] = "gone"]
  /\ held' \in Flushed(i)
  /\ UNCHANGED <<up, gen, file, qs, nq, ctl, own, pre, exitCb, wr, stop>>

\* The last drain and flush, then exit_cb empties the batch if it is set.
ReaderExit(i) ==
  /\ rd[i] = "drain"
  /\ rd' = [rd EXCEPT ![i] = "gone"]
  /\ held' \in IF exitCb THEN {[held EXCEPT ![i] = FALSE]}
               ELSE Flushed(i)
  /\ UNCHANGED <<up, gen, file, qs, nq, ctl, own, pre, exitCb, wr, stop>>

-----------------------------------------------------------------------------
(* A recv thread writes an uplink packet (tun_pool_write, tid % nq).       *)

WriterGo(w, from, to, i) ==
  /\ wr[w].at = from
  /\ wr' = [wr EXCEPT ![w] = [at |-> to, i |-> i]]
  /\ UNCHANGED <<up, gen, file, qs, rd, held, nq, own, pre, exitCb, stop>>

WriterLock(w) ==
  /\ exitCb /\ ~stop /\ WriterGo(w, "idle", "locked", 0) /\ UNCHANGED ctl

\* nq is loaded and the slot selected.
WriterSelect(w) ==
  \E i \in InPool : WriterGo(w, "locked", "chosen", i) /\ UNCHANGED ctl

\* A stopped queue is not written; the lock is released.
WriterCheck(w) ==
  /\ WriterGo(w, "chosen", IF qs[wr[w].i].stop THEN "owner" ELSE "write", wr[w].i)
  /\ UNCHANGED ctl

\* tun_write_retry succeeds, or gives up and handle_udp turns to the owner fd.
WriterWrite(w) ==
  /\ \/ WriterGo(w, "write", "idle", 0) /\ Alive(qs[wr[w].i].fd)
     \/ WriterGo(w, "write", "owner", 0)
  /\ UNCHANGED ctl

\* The one retry on ctx->tun_fd; when that fails too the pool notes a stall.
WriterOwnerFd(w) ==
  /\ WriterGo(w, "owner", "idle", 0)
  /\ \/ Alive(qs[0].fd) /\ UNCHANGED ctl
     \/ ctl' = [ctl EXCEPT !.stall = TRUE]

WriterLeave(w) ==
  /\ stop /\ WriterGo(w, "idle", "out", 0) /\ UNCHANGED ctl

-----------------------------------------------------------------------------
(* The world.                                                              *)

\* ip link del, a netns teardown, a driver unload.
DeviceDeleted ==
  /\ up /\ own.at # "done"
  /\ up' = FALSE
  /\ UNCHANGED <<gen, file, qs, rd, held, nq, ctl, own, pre, exitCb, wr, stop>>

\* SIGINT, SIGTERM, SIGHUP: on_signal.
Signal ==
  /\ ~stop /\ stop' = TRUE
  /\ UNCHANGED <<up, gen, file, qs, rd, held, nq, ctl, own, pre, exitCb, wr>>

Owner ==
  \/ TakePre \/ DropPre \/ Attach \/ AttachFails \/ StartReader \/ StartFails
  \/ PublishQueue \/ GrowDone \/ Register \/ DelStop \/ DelPublish \/ DelJoin
  \/ DelClose \/ ProbeDue \/ TickDue \/ ProbeReaders \/ ProbeIndex \/ TickSkips
  \/ \E busy \in {"high", "mid", "low"} : TickSteers(busy)
  \/ JoinWriters \/ JoinReaders \/ CloseAll

Reader(i) == ReaderLoop(i) \/ ReaderServe(i) \/ ReaderLost(i) \/ ReaderExit(i)

Writer(w) ==
  \/ WriterLock(w) \/ WriterSelect(w) \/ WriterCheck(w) \/ WriterWrite(w)
  \/ WriterOwnerFd(w) \/ WriterLeave(w)

Next ==
  \/ Owner
  \/ \E i \in Slots : Reader(i)
  \/ \E w \in Writers : Writer(w)
  \/ DeviceDeleted \/ Signal \/ Finished

\* Threads run, the probe comes due again and again, and the write lock is
\* granted if it is free again and again.
Fairness ==
  /\ WF_vars(Owner) /\ SF_vars(ProbeDue) /\ SF_vars(DelClose)
  /\ \A i \in Slots : WF_vars(Reader(i))
  /\ \A w \in Writers : WF_vars(Writer(w))

Spec == Init /\ [][Next]_vars

FairSpec == Spec /\ Fairness

-----------------------------------------------------------------------------
(* Properties.                                                             *)

\* Types; the pool keeps queue 0 and never has more than maxq queues.
TypeOK ==
  /\ up \in BOOLEAN /\ gen \in Gens /\ stop \in BOOLEAN /\ exitCb \in BOOLEAN
  /\ file \in [Fds -> Gens \union {Free}]
  /\ qs \in [Slots -> [fd : Fds, stop : BOOLEAN, dead : BOOLEAN]]
  /\ rd \in [Slots -> {"none", "loop", "poll", "drain", "gone"}]
  /\ held \in [Slots -> BOOLEAN]
  /\ nq \in 1..MaxQ
  /\ own.target \in 1..MaxQ /\ own.fd \in Fds

\* A writer's fd is a TUN queue for as long as it writes: tun_pool_del never
\* closes it under the writer, so the number cannot become another file's.
\* The same for the owner fd of the retry.
WritesTun ==
  \A w \in Writers :
    /\ wr[w].at = "write" => file[qs[wr[w].i].fd] \in Gens
    /\ wr[w].at = "owner" => file[qs[0].fd] \in Gens

\* A reader thread that runs reads a TUN queue of its own: its fd is open
\* until it is joined, and no other slot of the pool has the same fd.
ReadersOwnFds ==
  \A i \in Slots : rd[i] \in {"loop", "poll", "drain"} =>
    /\ file[qs[i].fd] \in Gens
    /\ \A j \in Slots \ {i} : rd[j] # "none" => qs[j].fd # qs[i].fd

\* Every queue fd that was opened, pre-opened or attached, is closed at the end.
NoQueueLeaks == own.at = "done" => \A f \in Fds : file[f] \notin Gens

\* A reader that starts in a slot used before finds an empty downlink batch:
\* no frame of the old reader is sent by the new one.
SlotStartsEmpty ==
  [][\A i \in Slots : rd[i] = "none" /\ rd'[i] = "loop" => ~held[i]]_vars

\* Both, with the types: every fd of the pool has one owner, to its close
\* (tun_pool_add, tun_pool_del, tun_pool_destroy and the reader's exit).
FdsAccounted == TypeOK /\ ReadersOwnFds /\ NoQueueLeaks

\* A packet is only ever written to or read from a queue of the TUN device, and
\* every descriptor has the one party that will close it (tun_pool_write,
\* tun_pool_add, tun_pool_del, tun_pool_destroy).
TunAccounted == WritesTun /\ FdsAccounted

\* A device deleted from outside ends the server, even when a racing grow has
\* created a device of the same name.
DeadTunnelStops == ~up ~> own.at = "done"
=============================================================================
