----------------------------- MODULE ServerHost -----------------------------
(***************************************************************************)
(* What iwan-server does to its host and how it ends: main of             *)
(* src/src/iwan_server.c from the moment it blocks the stop signals.       *)
(*                                                                         *)
(* A server enables IPv4 forwarding, adds one MASQUERADE and one FORWARD   *)
(* rule, and forks.  The root parent waits for the child, forwards stop    *)
(* signals to it, and undoes the three changes; the unprivileged child     *)
(* serves.  Without root there is no fork and the one process does both.   *)
(* Each command of the host and each system call that another process or   *)
(* a signal can come between is a step.  A server runs once; a restart is  *)
(* the start of another element of Servers.  SIGINT and SIGHUP are treated *)
(* as SIGTERM is everywhere, and Sigs holds one of the three.              *)
(***************************************************************************)
EXTENDS Integers, FiniteSets

CONSTANTS Servers,  \* the servers started on this host, one after another or not
          Subnets,  \* the client subnets; a rule is identified by its subnet
          Subnet,   \* Subnet[s]: the --subnet of s
          Cases     \* the circumstances examined, see CaseTypes

StopSignals == {"TERM", "QUIT"}

(***************************************************************************)
(* servers     the servers that are started                                *)
(* root        geteuid() == 0                                              *)
(* rules       how many such rules the host has of its own                 *)
(* sigs        the stop signals sent                                       *)
(* killing     SIGKILL, a power of the operator and of the kernel          *)
(***************************************************************************)
CaseTypes == [servers : SUBSET Servers, root : BOOLEAN, rules : {0, 1},
              sigs : SUBSET StopSignals, killing : BOOLEAN]

ASSUME ServerHostAssumption ==
    /\ Subnet \in [Servers -> Subnets]
    /\ Cases \subseteq CaseTypes

VARIABLES how,      \* which of the cases this is
          host,     \* the kernel: ip_forward and the number of our rules per chain
          pre_host, \* the host before the first server
          srv,      \* the servers' processes
          undone,   \* history: the changes a server made and has taken back
          failed,   \* history: some command of a clean-up failed
          overlap,  \* history: two servers were up at the same time
          strays    \* history: rules added by a command whose status got lost

hostVars == <<how, host, pre_host, srv, undone, failed, overlap, strays>>

Chains == {"nat", "acc"}
SetupPcs == {"save", "write", "natCheck", "natAdd", "accCheck", "accAdd", "setup", "fork",
             "install"}
CleanPcs == {"cleanFwd", "cleanNat", "cleanAcc"}
OverPcs == {"idle", "exit", "killed"}
Root == how.root

Up(s) == srv[s].pc \notin OverPcs

(***************************************************************************)
(* pc, code    the process that set the host up, and its exit status       *)
(* saved       saved_ip_forward; nat, acc: nat_rule_added, fwd_rule_added  *)
(* open, pend  its stop signals are unblocked; the pending ones            *)
(* cpc, cst    the serving role (the child, or the same process without    *)
(*             root), and its exit status                                  *)
(* copen, cpend  the same for the child                                    *)
(* stop, perr  g_stop and poll_err; wk: the second recv thread             *)
(* asked       history: a stop signal was sent to one of the processes     *)
(***************************************************************************)
Fresh == [pc |-> "idle", code |-> 1, saved |-> -1, nat |-> FALSE, acc |-> FALSE,
          open |-> FALSE, pend |-> {}, cpc |-> "none", cst |-> 1, copen |-> FALSE,
          cpend |-> {}, stop |-> FALSE, perr |-> FALSE, wk |-> "none",
          asked |-> FALSE]

SrvTypes ==
    [pc : SetupPcs \cup CleanPcs \cup OverPcs \cup {"reap"}, code : {0, 1}, saved : {-1, 0, 1},
     nat : BOOLEAN, acc : BOOLEAN, open : BOOLEAN, pend : SUBSET StopSignals,
     cpc : {"none", "drop", "handlers", "start", "serve", "join", "close", "dead"},
     cst : {0, 1}, copen : BOOLEAN, cpend : SUBSET StopSignals, stop : BOOLEAN, perr : BOOLEAN,
     wk : {"none", "run", "erred", "gone"}, asked : BOOLEAN]

HostTypes == [fwd : {0, 1}, nat : [Subnets -> Nat], acc : [Subnets -> Nat]]

HostTypeOK ==
    /\ host \in HostTypes /\ pre_host \in HostTypes
    /\ srv \in [Servers -> SrvTypes]
    /\ undone \subseteq Servers \X (Chains \cup {"fwd"})
    /\ strays \subseteq Servers \X Chains
    /\ failed \in BOOLEAN /\ overlap \in BOOLEAN /\ how \in Cases

(***************************************************************************)
(* A host on which the operator may already have enabled forwarding and    *)
(* installed rules of the same shape.                                      *)
(***************************************************************************)
HostInit ==
    /\ how \in Cases
    /\ host \in [fwd : {0, 1}, nat : [Subnets -> 0..how.rules], acc : [Subnets -> 0..how.rules]]
    /\ pre_host = host
    /\ srv = [s \in Servers |-> Fresh]
    /\ undone = {} /\ failed = FALSE /\ overlap = FALSE /\ strays = {}

\* The child ends with status st, and its memory goes with it.
Gone(r, st) == [r EXCEPT !.cpc = "dead", !.cst = st, !.copen = FALSE, !.cpend = {},
                         !.stop = FALSE, !.wk = "none"]
Over(r, pc) == [r EXCEPT !.pc = pc, !.open = FALSE, !.pend = {}]

History == UNCHANGED <<how, pre_host, undone, failed, overlap, strays>>

(***************************************************************************)
(* Set-up, with the stop signals blocked.                                  *)
(***************************************************************************)
Begin(s) ==
    /\ s \in how.servers /\ srv[s].pc = "idle"
    /\ srv' = [srv EXCEPT ![s].pc = "save"]
    /\ overlap' = (overlap \/ \E t \in Servers \ {s} : Up(t))
    /\ UNCHANGED <<how, host, pre_host, undone, failed, strays>>

SaveForward(s) ==
    /\ srv[s].pc = "save"
    /\ \E v \in {host.fwd, -1} :
          srv' = [srv EXCEPT ![s].pc = "write", ![s].saved = v]
    /\ UNCHANGED host /\ History

WriteForward(s) ==
    /\ srv[s].pc = "write"
    /\ host' \in {[host EXCEPT !.fwd = 1], host}
    /\ srv' = [srv EXCEPT ![s].pc = "natCheck"]
    /\ History

\* Mutant: iptables -C found the rule, and it is taken for ours.
RuleCheckAdopts(s, k, check, add, next) ==
    /\ srv[s].pc = check
    /\ \/ host[k][Subnet[s]] > 0 /\ srv' = [srv EXCEPT ![s].pc = next, ![s][k] = TRUE]
       \/ srv' = [srv EXCEPT ![s].pc = add]
    /\ UNCHANGED host /\ History

\* iptables -C and then -A or -I: two processes, other servers between them.
RuleCheck(s, k, check, add, next) ==
    /\ srv[s].pc = check
    /\ \/ host[k][Subnet[s]] > 0 /\ srv' = [srv EXCEPT ![s].pc = next]
       \/ srv' = [srv EXCEPT ![s].pc = add]
    /\ UNCHANGED host /\ History

\* -A or -I succeeds; it fails; or it takes effect and run_cmd, which cannot
\* learn its status, reports a failure.
RuleAdd(s, k, add, next) ==
    /\ srv[s].pc = add
    /\ \/ /\ host' = [host EXCEPT ![k][Subnet[s]] = @ + 1]
          /\ srv' = [srv EXCEPT ![s].pc = next, ![s][k] = TRUE]
          /\ UNCHANGED strays
       \/ /\ srv' = [srv EXCEPT ![s].pc = next]
          /\ UNCHANGED <<host, strays>>
       \/ /\ host' = [host EXCEPT ![k][Subnet[s]] = @ + 1]
          /\ srv' = [srv EXCEPT ![s].pc = next]
          /\ strays' = strays \cup {<<s, k>>}
    /\ UNCHANGED <<how, pre_host, undone, failed, overlap>>

setup_nat(s) ==
    \/ RuleCheck(s, "nat", "natCheck", "natAdd", "accCheck")
    \/ RuleAdd(s, "nat", "natAdd", "accCheck")
    \/ RuleCheck(s, "acc", "accCheck", "accAdd", "setup")
    \/ RuleAdd(s, "acc", "accAdd", "setup")

\* Mutant: the error path exits at once.
SetUpExits(s) ==
    /\ srv[s].pc = "setup"
    /\ \/ srv' = [srv EXCEPT ![s].pc = "fork", ![s].code = 1]
       \/ srv' = [srv EXCEPT ![s] = [Over(@, "exit") EXCEPT !.code = 1]]
    /\ UNCHANGED host /\ History

\* setup_tun and setup_udp: any failure undoes the host changes and exits 1.
SetUp(s) ==
    /\ srv[s].pc = "setup"
    /\ \E pc \in {"fork", "cleanFwd"} : srv' = [srv EXCEPT ![s].pc = pc, ![s].code = 1]
    /\ UNCHANGED host /\ History

\* A fork does not pass pending signals on; the mask is inherited.
Fork(s) ==
    /\ srv[s].pc = "fork"
    /\ \/ Root /\ srv' = [srv EXCEPT ![s].pc = "install", ![s].cpc = "drop"]
       \/ Root /\ srv' = [srv EXCEPT ![s].pc = "cleanFwd"]
       \/ ~Root /\ srv' = [srv EXCEPT ![s].pc = "reap", ![s].cpc = "handlers",
                                      ![s].cpend = srv[s].pend, ![s].pend = {}]
    /\ UNCHANGED host /\ History

\* The parent's forwarding handlers; when they cannot be installed the child is
\* killed and reaped before the rules it lives on are removed.
InstallParent(s) ==
    /\ srv[s].pc = "install"
    /\ \/ srv' = [srv EXCEPT ![s].pc = "reap", ![s].open = TRUE]
       \/ srv' = [srv EXCEPT ![s] = [Gone(@, 1) EXCEPT !.pc = "cleanFwd"]]
    /\ UNCHANGED host /\ History

\* waitpid returns (root), or server_shutdown goes on to the clean-up (no root).
Reap(s) ==
    /\ srv[s].pc = "reap" /\ srv[s].cpc = "dead"
    /\ srv' = [srv EXCEPT ![s].pc = "cleanFwd", ![s].code = srv[s].cst]
    /\ UNCHANGED host /\ History

(***************************************************************************)
(* server_cleanup_nat.                                                     *)
(***************************************************************************)
CleanForward(s) ==
    /\ srv[s].pc = "cleanFwd"
    /\ srv' = [srv EXCEPT ![s].pc = "cleanNat"]
    /\ \/ srv[s].saved < 0 /\ UNCHANGED <<host, undone, failed>>
       \/ /\ srv[s].saved >= 0
          /\ host' = [host EXCEPT !.fwd = srv[s].saved]
          /\ undone' = undone \cup {<<s, "fwd">>}
          /\ UNCHANGED failed
       \/ srv[s].saved >= 0 /\ failed' = TRUE /\ UNCHANGED <<host, undone>>
    /\ UNCHANGED <<how, pre_host, overlap, strays>>

\* iptables -D of a rule this server added; it may fail for any reason, and
\* whether it did only shows in a warning.
RuleDelete(s, k) ==
    \/ ~srv[s][k] /\ UNCHANGED <<host, undone, failed>>
    \/ /\ srv[s][k] /\ host[k][Subnet[s]] > 0
       /\ host' = [host EXCEPT ![k][Subnet[s]] = @ - 1]
       /\ undone' = undone \cup {<<s, k>>}
       /\ UNCHANGED failed
    \/ srv[s][k] /\ failed' = TRUE /\ UNCHANGED <<host, undone>>

server_cleanup_nat(s) ==
    /\ \/ srv[s].pc = "cleanNat" /\ RuleDelete(s, "nat") /\ srv' = [srv EXCEPT ![s].pc = "cleanAcc"]
       \/ srv[s].pc = "cleanAcc" /\ RuleDelete(s, "acc") /\ srv' = [srv EXCEPT ![s] = Over(@, "exit")]
    /\ UNCHANGED <<how, pre_host, overlap, strays>>

(***************************************************************************)
(* The serving role.                                                       *)
(***************************************************************************)
Role(s, from, to) ==
    /\ srv[s].cpc = from
    /\ srv' = to
    /\ UNCHANGED host /\ History

DropPrivileges(s) ==
    \/ Role(s, "drop", [srv EXCEPT ![s].cpc = "handlers"])
    \/ Role(s, "drop", [srv EXCEPT ![s] = Gone(@, 1)])

InstallServer(s) ==
    \/ Role(s, "handlers", [srv EXCEPT ![s].cpc = "start", ![s].copen = TRUE])
    \/ Role(s, "handlers",
            [srv EXCEPT ![s] = IF Root THEN Gone(@, 1) ELSE Over(Gone(@, 1), "exit")])

\* The reader pool and the second recv thread; either may fail to start.
StartServing(s) ==
    \/ Role(s, "start", [srv EXCEPT ![s] = Gone(@, 1)])
    \/ Role(s, "start", [srv EXCEPT ![s].cpc = "serve", ![s].wk = "run"])
    \/ Role(s, "start", [srv EXCEPT ![s].cpc = "serve", ![s].wk = "gone",
                                    ![s].stop = TRUE, ![s].perr = TRUE])

\* The primary recv thread: a failed poll, no memory, or the device is gone.
PrimaryFatal(s) ==
    Role(s, "serve", [srv EXCEPT ![s].cpc = "join", ![s].stop = TRUE, ![s].perr = TRUE])

PrimaryLeaves(s) ==
    srv[s].stop /\ Role(s, "serve", [srv EXCEPT ![s].cpc = "join"])

WorkerFatal(s) ==
    /\ srv[s].wk = "run" /\ srv[s].cpc \in {"serve", "join", "close"}
    /\ srv' = [srv EXCEPT ![s].wk = "erred", ![s].perr = TRUE]
    /\ UNCHANGED host /\ History

WorkerLeaves(s) ==
    /\ srv[s].cpc \in {"serve", "join", "close"}
    /\ \/ srv[s].wk = "erred"
       \/ srv[s].wk = "run" /\ srv[s].stop
    /\ srv' = [srv EXCEPT ![s].wk = "gone", ![s].stop = TRUE]
    /\ UNCHANGED host /\ History

\* Mutant: poll_err is read before the join.
JoinWorkersEarly(s) ==
    Role(s, "join", [srv EXCEPT ![s].cpc = "close", ![s].cst = IF srv[s].perr THEN 1 ELSE 0])

\* pthread_join, then the aggregated poll_err becomes the exit status.
JoinWorkers(s) ==
    /\ srv[s].wk = "gone"
    /\ Role(s, "join", [srv EXCEPT ![s].cpc = "close", ![s].cst = IF srv[s].perr THEN 1 ELSE 0])

server_shutdown(s) ==
    Role(s, "close", [srv EXCEPT ![s] = Gone(@, @.cst)])

(***************************************************************************)
(* Signals.  A stop signal goes to one process or to the whole group.      *)
(***************************************************************************)
RoleAlive(s) == srv[s].cpc \notin {"none", "dead"}

ReachesMain(s, to) == to \in {"main", "group"} /\ Up(s) /\ (Root \/ ~RoleAlive(s))
ReachesRole(s, to) == to \in {"group", IF Root THEN "child" ELSE "main"} /\ RoleAlive(s)

HostSignal(s, to, sig) ==
    /\ ReachesMain(s, to) \/ ReachesRole(s, to)
    /\ srv' = [srv EXCEPT
          ![s].asked = TRUE,
          ![s].pend = IF ReachesMain(s, to) THEN @ \cup {sig} ELSE @,
          ![s].cpend = IF ReachesRole(s, to) THEN @ \cup {sig} ELSE @]
    /\ UNCHANGED host /\ History

\* Mutant: the parent swallows the signal.
parent_fwd_signal_ignored(s, sig) ==
    /\ Root /\ Up(s) /\ srv[s].open /\ sig \in srv[s].pend
    /\ srv' = [srv EXCEPT ![s].pend = @ \ {sig}]
    /\ UNCHANGED host /\ History

\* parent_fwd_signal; a child that is gone does not hear it.
parent_fwd_signal(s, sig) ==
    /\ Root /\ Up(s) /\ srv[s].open /\ sig \in srv[s].pend
    /\ srv' = [srv EXCEPT ![s].pend = @ \ {sig},
                          ![s].cpend = IF RoleAlive(s) THEN @ \cup {sig} ELSE @]
    /\ UNCHANGED host /\ History

\* The child handles SIGINT, SIGTERM and SIGHUP; SIGQUIT ends it.
on_signal(s, sig) ==
    /\ RoleAlive(s) /\ srv[s].copen /\ sig \in srv[s].cpend
    /\ srv' = IF sig # "QUIT"
              THEN [srv EXCEPT ![s].cpend = @ \ {sig}, ![s].stop = TRUE]
              ELSE [srv EXCEPT ![s] = IF Root THEN Gone(@, 1) ELSE Over(Gone(@, 1), "killed")]
    /\ UNCHANGED host /\ History

KillMain(s) ==
    /\ how.killing /\ Up(s)
    /\ srv' = [srv EXCEPT ![s] = IF Root \/ ~RoleAlive(s) THEN Over(@, "killed")
                                  ELSE Over(Gone(@, 1), "killed")]
    /\ UNCHANGED host /\ History

KillChild(s) ==
    /\ how.killing /\ Root /\ RoleAlive(s)
    /\ srv' = [srv EXCEPT ![s] = Gone(@, 1)]
    /\ UNCHANGED host /\ History

Step(s) ==
    \/ SaveForward(s) \/ WriteForward(s) \/ setup_nat(s) \/ SetUp(s) \/ Fork(s)
    \/ InstallParent(s) \/ Reap(s) \/ CleanForward(s) \/ server_cleanup_nat(s)

RoleStep(s) ==
    \/ DropPrivileges(s) \/ InstallServer(s) \/ StartServing(s) \/ PrimaryLeaves(s)
    \/ JoinWorkers(s) \/ server_shutdown(s)

AllOver == \A s \in how.servers : srv[s].pc \in OverPcs \ {"idle"} /\ ~RoleAlive(s)
HostFinished == AllOver /\ UNCHANGED hostVars

HostNext ==
    \/ \E s \in Servers :
          \/ Begin(s) \/ Step(s) \/ RoleStep(s)
          \/ PrimaryFatal(s) \/ WorkerFatal(s) \/ WorkerLeaves(s)
          \/ KillMain(s) \/ KillChild(s)
          \/ \E sig \in how.sigs : \/ parent_fwd_signal(s, sig) \/ on_signal(s, sig)
                               \/ \E to \in {"main", "child", "group"} : HostSignal(s, to, sig)
    \/ HostFinished

HostSpec == HostInit /\ [][HostNext]_hostVars

(***************************************************************************)
(* The processes run, and the kernel delivers unblocked signals.           *)
(***************************************************************************)
HostFairness ==
    \A s \in Servers :
        /\ WF_hostVars(Step(s)) /\ WF_hostVars(RoleStep(s)) /\ WF_hostVars(WorkerLeaves(s))
        /\ \A sig \in StopSignals : WF_hostVars(parent_fwd_signal(s, sig)) /\ WF_hostVars(on_signal(s, sig))

HostFairSpec == HostSpec /\ HostFairness

(***************************************************************************)
(* Properties.                                                             *)
(***************************************************************************)

\* The host holds its own rules and, for every server that added one and has not
\* taken it back, that server's: whatever the interleaving of -C and -A of two
\* servers with one subnet, and whoever is killed, a clean-up only removes what
\* its server added (setup_nat, server_cleanup_nat).  What a command added whose
\* status was lost stays for good.  With the types.
RulesAccounted ==
    /\ HostTypeOK
    /\ \A k \in Chains, x \in Subnets :
          host[k][x] = pre_host[k][x]
            + Cardinality({s \in Servers : Subnet[s] = x /\ srv[s][k] /\ <<s, k>> \notin undone})
            + Cardinality({s \in Servers : Subnet[s] = x /\ <<s, k>> \in strays})

\* Every server has gone its way to the end: none was killed, and no command of
\* a clean-up failed.
CleanlyOver == AllOver /\ ~failed /\ \A s \in how.servers : srv[s].pc = "exit"

\* When the root servers are cleanly over, the host is as it was: every error path
\* of main between the first change and the end of the child leads through
\* server_cleanup_nat.  The rules are, unless the status of an -A was lost
\* (iwan_server.c:478).  ip_forward is, unless two servers overlapped (the second
\* saved the first one's 1) or one could not read the value: enable_ip_forward
\* then writes 1 all the same and the clean-up restores nothing (434-446, 547),
\* although 415-417 says that shutdown undoes exactly what was changed.
HostRestored ==
    (Root /\ CleanlyOver) =>
        /\ strays = {} => \A k \in Chains : host[k] = pre_host[k]
        /\ (~overlap /\ \A s \in how.servers : srv[s].saved # -1) => host.fwd = pre_host.fwd

\* Exit status 0 means that somebody asked the server to stop and no recv thread
\* met a fatal error, not even in its last round (poll_err is read after the join).
ExitStatus ==
    \A s \in Servers :
        (srv[s].pc = "exit" /\ srv[s].code = 0) => srv[s].asked /\ ~srv[s].perr

\* The server is over, or its parent was killed and cannot see to it.
HostOver(s) == srv[s].pc = "killed" \/ (~Up(s) /\ ~RoleAlive(s))
=============================================================================
