----------------------------- MODULE RelayHead ------------------------------
(***************************************************************************)
(* The head rewrite of a forwarded HTTP request (rp_http_force_close and   *)
(* rp_hdr_name_eq in common/relay_proxy.c): one walk over the lines counts *)
(* the bytes the rewrite would emit and looks for an Upgrade field, a      *)
(* second one emits them.  A line is reduced to what the walks tell apart, *)
(* its length and the width of its terminator.  The rewrite is the last of *)
(* the three things that happen to a request: its target is connected to   *)
(* (RelayTarget), its head goes ahead, its bytes follow (RelayEntry).      *)
(***************************************************************************)
EXTENDS Integers, FiniteSets, RelayTarget, RelayEntry

CONSTANTS
  MaxLines,      \* bound on the lines between the request line and the end
  CLOSE_LEN,     \* length of the injected line without its terminator
  HeadCap        \* outcap

ASSUME HeadConstants == MaxLines \in Nat /\ CLOSE_LEN \in Nat /\ HeadCap \in Nat

VARIABLES
  head, pos,      \* the lines of the request, and the walk's position
  walk,          \* "scan", "emit", "rewritten" or "verbatim"
  is_upgrade, need, o, hout

headVars == <<head, pos, walk, is_upgrade, need, o, hout>>

\* rp_hdr_name_eq's verdict on a line, with or without blanks before the
\* colon; a bare Upgrade has no value.
Kinds == {"connection", "upgrade", "bare_upgrade", "other"}
Blank == [kind |-> "blank", len |-> 0, eol |-> 2]
Lines == [kind : Kinds, len : {1, 2}, eol : {1, 2}] \union {[Blank EXCEPT !.eol = 1]}
CloseLine == [kind |-> "connection", len |-> CLOSE_LEN, eol |-> 2]

\* head[0 .. hlen) ends at the first CRLF CRLF; a blank line ended by a bare LF
\* may come before it.
HeadInit ==
  /\ \E n \in 0..MaxLines : \E mid \in [1..n -> Lines] :
       head = <<[kind |-> "other", len |-> 2, eol |-> 2]>> \o mid \o <<Blank>>
  /\ pos = 1 /\ walk = "scan" /\ is_upgrade = FALSE /\ need = 0 /\ o = 0 /\ hout = <<>>

Line == head[pos]

\* The pre-scan counts a kept line with a two-byte terminator.
ScanLine ==
  /\ walk = "scan" /\ Line.kind # "blank"
  /\ is_upgrade' = (Line.kind = "upgrade" \/ (Line.kind # "bare_upgrade" /\ is_upgrade))
  /\ need' = need + (IF Line.kind = "connection" THEN 0 ELSE Line.len + 2)
  /\ pos' = pos + 1
  /\ UNCHANGED <<head, walk, o, hout>>

ScanEndsShort ==
  /\ walk = "scan" /\ Line.kind = "blank"
  /\ need' = need + 2
  /\ walk' = IF is_upgrade \/ need' > HeadCap THEN "verbatim" ELSE "emit"
  /\ pos' = 1
  /\ UNCHANGED <<head, is_upgrade, o, hout>>

ScanEnds ==
  /\ walk = "scan" /\ Line.kind = "blank"
  /\ need' = need + CLOSE_LEN + 2 + 2
  /\ walk' = IF is_upgrade \/ need' > HeadCap THEN "verbatim" ELSE "emit"
  /\ pos' = 1
  /\ UNCHANGED <<head, is_upgrade, o, hout>>

\* RP_HTTP_W: a write past outcap gives the rewrite up.
Emit(lines, bytes) ==
  IF o + bytes > HeadCap THEN walk' = "verbatim" /\ UNCHANGED <<o, hout, pos>>
  ELSE /\ o' = o + bytes /\ hout' = hout \o lines /\ pos' = pos + 1
       /\ walk' = IF Line.kind = "blank" THEN "rewritten" ELSE walk

EmitLine ==
  /\ walk = "emit" /\ Line.kind # "blank"
  /\ IF Line.kind = "connection" THEN Emit(<<>>, 0)
     ELSE Emit(<<[Line EXCEPT !.eol = 2]>>, Line.len + 2)
  /\ UNCHANGED <<head, is_upgrade, need>>

EmitEnds ==
  /\ walk = "emit" /\ Line.kind = "blank"
  /\ Emit(<<CloseLine, Blank>>, CLOSE_LEN + 2 + 2)
  /\ UNCHANGED <<head, is_upgrade, need>>

HeadNext == ScanLine \/ ScanEnds \/ EmitLine \/ EmitEnds

HeadSpec == HeadInit /\ [][HeadNext]_headVars

\* The lines a rewrite keeps.
HeadKept ==
  {i \in DOMAIN head : /\ head[i].kind # "connection"
                       /\ \A j \in 1..i : head[j].kind # "blank"}

\* The two walks agree (R53-A-3): a rewrite that was started is finished with
\* exactly the bytes the pre-scan counted, so no head goes out half written;
\* the rewritten head has one Connection field, the close, as its last line, and
\* before it every other line ahead of the first blank one, in its order and
\* ended by CRLF.
HeadRewritten ==
  /\ walk \in {"emit", "rewritten"} => o <= need /\ need <= HeadCap
  /\ walk = "verbatim" => o = 0
  /\ walk = "rewritten" =>
       /\ o = need
       /\ Len(hout) = Cardinality(HeadKept) + 2
       /\ \A i \in HeadKept :
            hout[Cardinality({j \in HeadKept : j <= i})] = [head[i] EXCEPT !.eol = 2]
       /\ hout[Len(hout) - 1] = CloseLine /\ hout[Len(hout)] = Blank

\* The relay proxy forwards a side's bytes in order without a gap, connects only
\* to addresses its gate lets pass, and rewrites a request head exactly
\* (rp_entry_readable, rp_connect_target, rp_http_force_close).
RelayExact == InOrder /\ TargetJudged /\ HeadRewritten
=============================================================================
