-------------------------- MODULE MCServerSession --------------------------
(* Small instances of the session table for TLC.                           *)
EXTENDS ServerSession, TLC

CONSTANTS t1, t2, alice, bob, h1, h2, p1

ThreadSymmetry == Permutations({t1, t2})
ClientSymmetry == Permutations({alice, bob}) \cup Permutations({h1, h2})
AllSymmetry == ThreadSymmetry \cup ClientSymmetry
=============================================================================
