----------------------------- MODULE HttpFrame -----------------------------
(***************************************************************************)
(* The framing of an HTTPS response: https_tls_read decides while reading  *)
(* when the response is complete (common/https.c), https_resp_parse later  *)
(* cuts the body out of the raw bytes (common/http_parser.c).              *)
(*                                                                         *)
(* The stream is a sequence of units: header lines (an unrelated one, a      *)
(* Content-Length, a chunked Transfer-Encoding), the two terminators       *)
(* (CRLFCRLF and a bare LFLF), one byte of body, and in a chunked body a   *)
(* chunk and the terminal chunk.  The peer may end the connection after    *)
(* any unit, with or without close_notify, and TLS records are split and   *)
(* joined at will: a read returns any number of units.  The status line    *)
(* is left out, so is a terminator split between two reads (the probes of  *)
(* the scan step back over it).                                            *)
(***************************************************************************)
EXTENDS Naturals, Integers, Sequences

CONSTANTS MaxHead,      \* header lines of a response
          MaxBody       \* units of its body

VARIABLES stream,         \* what the peer sends
          given,        \* what it meant: "length", "chunked", "eof"
          clen,         \* the value of its Content-Length
          resp,         \* how much of it has been read
          ended,        \* the peer ended the connection after that much
          fr,           \* https_tls_read's crlf_hit, lf_hit, body_start, ...
          ret           \* "reading", "ok", "bad"

frVars == <<stream, given, clen, resp, ended, fr, ret>>

Headers == {"line", "chunked", "length"}

\* Position of the first unit u among the first n of the stream, 0 if none.
First(u, n) ==
    LET at == {i \in 1 .. n : stream[i] = u}
    IN IF at = {} THEN 0 ELSE CHOOSE i \in at : \A j \in at : i <= j

\* https_te_header_chunked over the first n units: blank lines are skipped.
TeChunked(n) == \E i \in 1 .. n : stream[i] = "chunked"

\* https_content_length over the first n units: -1 without such a line.
ContentLength(n) ==
    IF First("length", n) = 0 THEN -1 ELSE clen

\* https_hdr_body: the first CRLFCRLF, else the first LFLF, else everything.
HdrBody(n) ==
    LET c == First("crlf", n) l == First("lf", n)
    IN IF c # 0 THEN c ELSE IF l # 0 THEN l ELSE n

\* https_hdr_value of Transfer-Encoding: the search stops at a blank line.
HdrValueChunked(b) ==
    \E i \in 1 .. b : /\ stream[i] = "chunked"
                      /\ \A j \in 1 .. i : stream[j] \notin {"lf", "crlf"}

\* What a peer sends: header lines, a terminator, the body they announce.
Bodies(k) ==
    CASE k = "chunked" -> {[i \in 1 .. m |-> "chunk"] \o <<"last">>
                              : m \in 0 .. MaxBody - 1}
      [] k = "length" -> {[i \in 1 .. clen |-> "byte"]}
      [] OTHER -> {[i \in 1 .. m |-> "byte"] : m \in 0 .. MaxBody}

Heads == UNION {[1 .. m -> Headers] : m \in 0 .. MaxHead}

KindOf(h) ==
    IF \E i \in DOMAIN h : h[i] = "chunked" THEN "chunked"
    ELSE IF \E i \in DOMAIN h : h[i] = "length" THEN "length" ELSE "eof"

\* A peer that mixes line endings sends a bare LFLF among header lines that a
\* CRLFCRLF ends.
Responses(kind) ==
    IF kind = "mixed"
    THEN {h \o <<"lf">> \o g \o <<"crlf">> \o [i \in 1 .. m |-> "byte"]
             : h \in Heads, g \in Heads, m \in 0 .. MaxBody}
    ELSE UNION {{h \o <<t>> \o b : t \in {"lf", "crlf"}, b \in Bodies(kind)}
                   : h \in {g \in Heads : KindOf(g) = kind}}

FrInit ==
    /\ clen \in 0 .. MaxBody
    /\ given \in {"length", "chunked", "eof", "mixed"}
    /\ stream \in Responses(given)
    /\ resp = 0 /\ ended = FALSE /\ ret = "reading"
    /\ fr = [crlf |-> 0, lf |-> 0, body_start |-> 0, content_len |-> -1]

\* The scan for the terminators in the first n units: CRLFCRLF decides, LFLF
\* is a fallback; a hit is permanent.
Scanned(n) ==
    LET c == IF fr.crlf # 0 THEN fr.crlf ELSE First("crlf", n)
        l == IF c # 0 \/ fr.lf # 0 THEN fr.lf ELSE First("lf", n)
    IN [fr EXCEPT !.crlf = c, !.lf = l]

LengthWins(f) ==
    LET want == IF f.crlf # 0 THEN f.crlf ELSE f.lf
    IN IF want = f.body_start THEN f
       ELSE [f EXCEPT !.body_start = want,
                      !.content_len = ContentLength(want)]

\* When the frame has moved, the length is taken from the new header block,
\* unless that one is chunked.
Framed(f) ==
    LET want == IF f.crlf # 0 THEN f.crlf ELSE f.lf
    IN IF want = f.body_start THEN f
       ELSE [f EXCEPT !.body_start = want,
                      !.content_len = IF TeChunked(want) THEN @
                                      ELSE ContentLength(want)]

\* The response is complete: an empty body declared, or all of it in hand.
Complete(f, n) ==
    \/ f.body_start # fr.body_start /\ ~TeChunked(f.body_start)
         /\ f.content_len = 0
    \/ f.content_len > 0 /\ n - f.body_start >= f.content_len

\* SSL_read returned k more units.
Read ==
    /\ ret = "reading" /\ ~ended
    /\ \E n \in (resp + 1) .. Len(stream) :
          LET f == Framed(Scanned(n))
          IN /\ resp' = n /\ fr' = f
             /\ ret' = IF Complete(f, n) THEN "ok" ELSE "reading"
    /\ UNCHANGED <<stream, given, clen, ended>>

\* The peer ends the connection, early or when it has sent everything.
Ends ==
    /\ ret = "reading" /\ ~ended /\ ended' = TRUE
    /\ UNCHANGED <<stream, given, clen, resp, fr, ret>>

\* At EOF or close_notify a declared body must be there in full.
EofClean == ~(fr.content_len > 0 /\ resp - fr.body_start < fr.content_len)

Eof ==
    /\ ret = "reading" /\ ended
    /\ ret' = IF EofClean THEN "ok" ELSE "bad"
    /\ UNCHANGED <<stream, given, clen, resp, ended, fr>>

Malformed == <<"malformed">>

\* chunk_decode of the units after b: it needs the terminal chunk.
ChunkDecode(b) ==
    IF \E i \in b + 1 .. resp : stream[i] = "last"
    THEN SelectSeq(SubSeq(stream, b + 1, resp), LAMBDA u : u = "chunk")
    ELSE Malformed

\* https_resp_parse: the body, or Malformed.
RespParse ==
    LET b == HdrBody(resp)
        cl == ContentLength(b)
        tail == resp - b
    IN CASE resp = 0 -> Malformed
         [] resp # 0 /\ HdrValueChunked(b) -> ChunkDecode(b)
         [] resp # 0 /\ ~HdrValueChunked(b) /\ cl < 0 -> SubSeq(stream, b + 1, resp)
         [] resp # 0 /\ ~HdrValueChunked(b) /\ cl >= 0 ->
               IF tail < cl THEN Malformed ELSE SubSeq(stream, b + 1, b + cl)

FrDone == ret # "reading" /\ UNCHANGED frVars

FrNext == Read \/ Ends \/ Eof \/ FrDone

-----------------------------------------------------------------------------
HeadRead == \E i \in 1 .. resp : stream[i] \in {"lf", "crlf"}

Entity ==
    LET h == HdrBody(Len(stream))
    IN SelectSeq(SubSeq(stream, h + 1, Len(stream)), LAMBDA u : u # "last")

\* However the records are cut, a response whose header block came in is
\* handed to the caller whole or not at all: a body whose length was declared,
\* or that is chunked, is never returned short or long, and one that came in
\* full is never refused.  When https_tls_read stops by itself, before the
\* peer has closed, https_resp_parse accepts what it read, so the two never
\* disagree on the frame, even where line endings are mixed.
WholeBody ==
    ret = "ok" /\ HeadRead =>
        /\ given \in {"length", "chunked"} => RespParse \in {Entity, Malformed}
        /\ given = "eof" => RespParse = SubSeq(Entity, 1, resp - HdrBody(resp))
        /\ given # "mixed" /\ (resp = Len(stream) \/ ~ended) => RespParse = Entity
        /\ ~ended => fr.body_start = HdrBody(resp) /\ RespParse # Malformed
=============================================================================
