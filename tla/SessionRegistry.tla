-------------------------- MODULE SessionRegistry --------------------------
(***************************************************************************)
(* What the session table promises (server.h: "one slot per user"; "a      *)
(* session's sid is unique"; PROTOCOL.md section 4): a registry of at most *)
(* one session per account, each with an address nobody else holds and a   *)
(* token that was never issued before.  Slots, the sid map, the locks and  *)
(* time are left out.                                                      *)
(***************************************************************************)
EXTENDS Integers

CONSTANTS Users, Peers, Pool, NoSession

VARIABLES
    reg,     \* the session of each account, or NoSession
    minted   \* number of tokens issued

Held == {u \in Users : reg[u] # NoSession}

Init ==
    /\ reg = [u \in Users |-> NoSession]
    /\ minted = 0

(* A new session: a free address and a fresh token.                        *)
Grant(u, ip, p) ==
    /\ minted' = minted + 1
    /\ u \notin Held
    /\ \A v \in Held : reg[v].ip # ip
    /\ reg' = [reg EXCEPT ![u] = [tok |-> minted', ip |-> ip, peer |-> p]]

(* A re-OPEN keeps the address and replaces the token and the peer.        *)
Renew(u, p) ==
    /\ minted' = minted + 1
    /\ u \in Held
    /\ reg' = [reg EXCEPT ![u] = [tok |-> minted', ip |-> reg[u].ip, peer |-> p]]

(* The session follows its client to a new address.                        *)
Rebind(u, p) ==
    /\ UNCHANGED minted
    /\ u \in Held
    /\ reg' = [reg EXCEPT ![u] = [tok |-> reg[u].tok, ip |-> reg[u].ip, peer |-> p]]

(* CLOSE ends one session, a purge ends several at once.                   *)
End(S) ==
    /\ UNCHANGED minted
    /\ reg' = [u \in Users |-> IF u \in S THEN NoSession ELSE reg[u]]

Next ==
    \/ \E u \in Users, p \in Peers :
         \/ \E ip \in Pool : Grant(u, ip, p)
         \/ Renew(u, p)
         \/ Rebind(u, p)
    \/ \E S \in SUBSET Held : End(S)

Spec == Init /\ [][Next]_<<reg, minted>>
=============================================================================
