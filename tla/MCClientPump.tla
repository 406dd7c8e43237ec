---------------------------- MODULE MCClientPump ----------------------------
(* Instances of ClientPump for TLC.                                        *)
EXTENDS ClientPump

CONSTANTS r1, r2

OneReader  == {r1}
TwoReaders == {r1, r2}
=============================================================================
