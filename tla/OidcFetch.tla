----------------------------- MODULE OidcFetch -----------------------------
(***************************************************************************)
(* iwan-client-oidc --fetch: the browser login of oidc_login               *)
(* (oidc/oidc_flow.c) and the replacement of servers.json by               *)
(* oidc_save_config (oidc/oidc_config.c), run by several processes at      *)
(* once, as the user or through sudo, with power failures in between.      *)
(*                                                                         *)
(* The file system keeps, for the config file, the entry everybody sees    *)
(* and the entry a power failure falls back to; a file's data is "part"    *)
(* while it is written, "cache" when complete, "disk" once fsynced.        *)
(* Directories the program creates are private to their owner (0700).      *)
(* A refusal of the path checks (links, special files) may come whenever   *)
(* they run; the names of the temporary files never collide.               *)
(***************************************************************************)
EXTENDS Naturals, FiniteSets

CONSTANTS Procs,        \* concurrent invocations
          Depth,        \* directory components of --config-dir below $HOME
          MaxRuns,      \* invocations in all
          MaxCrashes    \* power failures

VARIABLES run,          \* state of each invocation
          issued,       \* logins whose redirect URL the browser has shown
          spent,        \* codes the identity provider has seen: who sent it
          dirs,         \* owner of each directory component, "absent" at first
          tmp,          \* the temporary file of each invocation
          target,       \* servers.json as everybody sees it
          dur,          \* servers.json as the disk has it
          runs, crashes

ofVars == <<run, issued, spent, dirs, tmp, target, dur, runs, crashes>>

NoFile == [ver |-> 0, data |-> "none", owner |-> "none"]
Off == [pc |-> "off", id |-> 0, root |-> FALSE, have |-> FALSE, code |-> 0,
        at |-> 1, created |-> FALSE]
Levels == 1 .. Depth

OfInit ==
    /\ run = [p \in Procs |-> Off]
    /\ issued = {} /\ spent = {}
    /\ dirs = [d \in Levels |-> "absent"]
    /\ tmp = [p \in Procs |-> NoFile] /\ target = NoFile /\ dur = NoFile
    /\ runs = 0 /\ crashes = 0

InPc(p, s) == run[p].pc = s
Moves(p, s) == run' = [run EXCEPT ![p].pc = s]
\* oidc_die: the process ends, its temporary file having been unlinked.
LoginDies(p) == run' = [run EXCEPT ![p] = Off] /\ tmp' = [tmp EXCEPT ![p] = NoFile]
fs == <<dirs, target, dur>>
idp == <<issued, spent>>

\* Who a file or directory created by the invocation belongs to.
Owner(p) == IF run[p].root THEN "root" ELSE "user"
\* The directories up to d can be entered: 0700, so by their owner or root.
Enters(p, d) == run[p].root \/ \A e \in 1 .. d : dirs[e] # "root"

-----------------------------------------------------------------------------
(* oidc_login                                                              *)

\* make_pkce, make_state and make_nonce: nobody else's.
FreshLogin == runs + 1
\* save_state_file and load_state_file: is there a saved state to compare with?
StateReadBack == BOOLEAN

\* State, nonce and verifier of a fresh login; the state file is written, read
\* back and removed before the user is asked.
BeginLogin(p) ==
    /\ InPc(p, "off") /\ runs < MaxRuns
    /\ runs' = runs + 1
    /\ \E root \in BOOLEAN, have \in StateReadBack :
          run' = [run EXCEPT ![p] = [Off EXCEPT !.pc = "asked", !.id = FreshLogin,
                                     !.root = root, !.have = have]]
    /\ UNCHANGED <<idp, fs, tmp, crashes>>

\* The user completes the login in the browser.
Browser(p) ==
    /\ InPc(p, "asked") /\ run[p].id \notin issued
    /\ issued' = issued \cup {run[p].id}
    /\ UNCHANGED <<run, spent, fs, tmp, runs, crashes>>

CsrfUnchecked(p, r) == TRUE
\* check_csrf_state: the pasted response must echo the saved state.
CsrfState(p, r) == run[p].have /\ r = run[p].id

\* read_redirect_url and the checks on it; the user may paste into the wrong
\* terminal.
Paste(p) ==
    /\ InPc(p, "asked")
    /\ \/ LoginDies(p)
       \/ \E r \in issued :
             IF CsrfState(p, r)
             THEN /\ run' = [run EXCEPT ![p].pc = "code", ![p].code = r]
                  /\ UNCHANGED tmp
             ELSE LoginDies(p)
    /\ UNCHANGED <<idp, fs, runs, crashes>>

\* The provider takes a code once, and honours it only for the verifier of the
\* login it was asked with.
Honours(p) ==
    run[p].code = run[p].id /\ \A s \in spent : s[1] # run[p].code

\* take_access_token and verify_id_token on the provider's answer.
TokenTaken(p) == Moves(p, "token") /\ UNCHANGED tmp

\* exchange_code; a refused code or an unusable answer ends the run.
Exchange(p) ==
    /\ InPc(p, "code")
    /\ spent' = spent \cup {<<run[p].code, run[p].id>>}
    /\ \/ Honours(p) /\ TokenTaken(p)
       \/ LoginDies(p)
    /\ UNCHANGED <<issued, fs, runs, crashes>>

\* oidc_fetch_config: register the device, keep it alive, get the server list;
\* any request or an unusable answer ends the run.
FetchConfig(p) ==
    /\ InPc(p, "token")
    /\ LoginDies(p) \/ (Moves(p, "fetched") /\ UNCHANGED tmp)
    /\ UNCHANGED <<idp, fs, runs, crashes>>

-----------------------------------------------------------------------------
(* oidc_save_config                                                        *)

\* config_dest_verify refuses the path: a link, a special file, a component it
\* cannot inspect.
DestRefused(p) == LoginDies(p)

\* The list is empty, the path resolves to the root or is refused, or the save
\* goes on.
Verify(p) ==
    /\ InPc(p, "fetched")
    /\ DestRefused(p) \/ (Moves(p, "mkdir") /\ UNCHANGED tmp)
    /\ UNCHANGED <<idp, fs, runs, crashes>>

\* mkdir_p, one component at a time; an existing one is passed over.
MkdirP(p) ==
    /\ InPc(p, "mkdir") /\ run[p].at <= Depth
    /\ LET d == run[p].at
       IN \/ LoginDies(p) /\ UNCHANGED dirs
          \/ /\ Enters(p, d - 1)
             /\ dirs' = [dirs EXCEPT ![d] = IF @ = "absent" THEN Owner(p) ELSE @]
             /\ run' = [run EXCEPT ![p].at = d + 1,
                                   ![p].created = @ \/ dirs[d] = "absent"]
             /\ UNCHANGED tmp
    /\ UNCHANGED <<idp, target, dur, runs, crashes>>

\* The second check, then the exclusive creation of the temporary file.
OpenTmp(p) ==
    /\ InPc(p, "mkdir") /\ run[p].at > Depth
    /\ \/ DestRefused(p)
       \/ /\ Enters(p, Depth) /\ Moves(p, "write")
          /\ tmp' = [tmp EXCEPT ![p] = [ver |-> run[p].id, data |-> "part",
                                        owner |-> Owner(p)]]
    /\ UNCHANGED <<idp, fs, runs, crashes>>

\* fputs and fflush.
WriteTmp(p) ==
    /\ InPc(p, "write")
    /\ \/ LoginDies(p)
       \/ Moves(p, "sync") /\ tmp' = [tmp EXCEPT ![p].data = "cache"]
    /\ UNCHANGED <<idp, fs, runs, crashes>>

SyncSkipped(p) == UNCHANGED tmp
\* fsync of the temporary file.
Synced(p) == tmp' = [tmp EXCEPT ![p].data = "disk"]

SyncTmp(p) ==
    /\ InPc(p, "sync")
    /\ \/ LoginDies(p)
       \/ Moves(p, "rename") /\ Synced(p)
    /\ UNCHANGED <<idp, fs, runs, crashes>>

\* The last check, then rename; on a refusal or a failure the temporary file
\* is unlinked.
Rename(p) ==
    /\ InPc(p, "rename")
    /\ \/ DestRefused(p) /\ UNCHANGED target
       \/ /\ target' = tmp[p] /\ tmp' = [tmp EXCEPT ![p] = NoFile]
          /\ Moves(p, "dirsync")
    /\ UNCHANGED <<idp, dirs, dur, runs, crashes>>

\* fsync of the parent directory, best effort.
SyncDir(p) ==
    /\ InPc(p, "dirsync") /\ dur' \in {dur, target} /\ Moves(p, "chown")
    /\ UNCHANGED <<idp, dirs, target, tmp, runs, crashes>>

\* restore_owner: through sudo (with well-formed SUDO_UID and SUDO_GID) the
\* file, then a directory this run created, go to the invoking user; either
\* check or chown may fail.
RestoreOwner(p) ==
    /\ InPc(p, "chown")
    /\ \/ ~run[p].root /\ Moves(p, "saved") /\ UNCHANGED <<target, dirs, tmp>>
       \/ /\ run[p].root /\ target # NoFile /\ Moves(p, "saved") /\ UNCHANGED tmp
          /\ target' = [target EXCEPT !.owner = "user"]
          /\ dirs' = IF run[p].created THEN [dirs EXCEPT ![Depth] = "user"]
                     ELSE dirs
       \/ /\ run[p].root /\ LoginDies(p) /\ UNCHANGED dirs
          /\ \/ UNCHANGED target
             \/ run[p].created /\ target' = [target EXCEPT !.owner = "user"]
    /\ UNCHANGED <<idp, dur, runs, crashes>>

Exits(p) ==
    /\ InPc(p, "saved") /\ run' = [run EXCEPT ![p] = Off]
    /\ UNCHANGED <<idp, fs, tmp, runs, crashes>>

\* The kernel writes the directory back by itself.
WriteBack ==
    /\ dur # target /\ dur' = target
    /\ UNCHANGED <<run, idp, dirs, tmp, target, runs, crashes>>

\* What is left of a file whose data may not have reached the disk.
Survives(f) == IF f.data \in {"cache", "part"} THEN [f EXCEPT !.data = "part"] ELSE f

\* Power failure: the processes are gone, the entry is the one on disk.
PowerFails ==
    /\ crashes < MaxCrashes /\ crashes' = crashes + 1
    /\ run' = [p \in Procs |-> Off] /\ tmp' = [p \in Procs |-> NoFile]
    /\ target' = Survives(dur) /\ dur' = Survives(dur)
    /\ UNCHANGED <<idp, dirs, runs>>

OfStep(p) ==
    \/ BeginLogin(p) \/ Browser(p) \/ Paste(p) \/ Exchange(p)
    \/ FetchConfig(p) \/ Verify(p)
    \/ MkdirP(p) \/ OpenTmp(p) \/ WriteTmp(p) \/ SyncTmp(p) \/ Rename(p)
    \/ SyncDir(p) \/ RestoreOwner(p) \/ Exits(p)

OfNext == (\E p \in Procs : OfStep(p)) \/ WriteBack \/ PowerFails

OfSpec == OfInit /\ [][OfNext]_ofVars

-----------------------------------------------------------------------------
\* servers.json is at every moment, and after a power failure at any moment,
\* absent or one complete configuration, and a configuration once on the disk
\* is never lost again; a temporary file exists only while its process writes
\* it, so no refusal or failed write of oidc_save_config leaves one behind.
SaveAtomic ==
    /\ target.data \in {"none", "disk"} /\ dur.data \in {"none", "disk"}
    /\ dur # NoFile => target # NoFile
    /\ \A p \in Procs : tmp[p] # NoFile => run[p].pc \in {"write", "sync", "rename"}

\* A login redeems only the authorization code its own request obtained: a
\* response pasted into the wrong terminal is refused before the code is
\* sent, so it cannot use up the other login's code.
CodeOwn == \A s \in spent : s[1] = s[2]

\* A login spends only its own code, and the files it saves are whole whatever
\* fails (check_csrf_state, oidc_save_config).
LoginSound == SaveAtomic /\ CodeOwn
=============================================================================
