----------------------------- MODULE HttpRange -----------------------------
(***************************************************************************)
(* HttpRangeReader: byte ranges of a file behind an HTTP server, which may *)
(* be replaced on the server between two requests, and which a proxy or a  *)
(* server without range support may answer for in other ways than asked.   *)
(* A connection may break, or carry more than it should.  What a response  *)
(* says of its own bytes is taken to be true.                              *)
(***************************************************************************)
EXTENDS Integers, SequencesExt

CONSTANTS
  Versions,     \* the files there may be at the URL: name -> length
  Asks,         \* the ranges a caller may ask for: [offset, len]
  MaxRequests   \* bound: how many requests are made

ASSUME HttpAssumption ==
  /\ \A v \in DOMAIN Versions : Versions[v] \in Nat
  /\ \A a \in Asks : a.offset \in Nat /\ a.len \in Nat
  /\ MaxRequests \in Nat

VARIABLES
  served,     \* the version at the URL now
  len,        \* HttpRangeReader::len, Unknown before it has been learnt
  call,       \* the call in progress
  response,   \* the response to its request
  returned,   \* what the last call returned
  answers,    \* history: the calls that returned Ok, with what they returned
  requested   \* history: how many requests have been made

httpVars == <<served, len, call, response, returned, answers, requested>>

Unknown == -1
None == [kind |-> "none"]
Idle == [kind |-> "idle"]

\* A byte is known by the version it is of and its place.
Slice(v, from, to) == [i \in 1 .. to - from + 1 |-> <<v, from + i - 1>>]

HttpInit ==
  /\ served \in DOMAIN Versions
  /\ len = Unknown
  /\ call = Idle /\ response = None /\ returned = "none"
  /\ answers = {} /\ requested = 0

-----------------------------------------------------------------------------
\* A new file is put at the URL.
Replace ==
  /\ served' \in DOMAIN Versions \ {served}
  /\ UNCHANGED <<len, call, response, returned, answers, requested>>

\* The bodies that come of the bytes a response announces: all of them, the
\* first few, or more than that.
Bodies(whole) ==
  {SubSeq(whole, 1, n) : n \in 0..Len(whole)} \cup {Append(whole, <<"more", 0>>)}

\* A 206 response, whose Content-Range parse_content_range accepts.
Partial(v, from, to) ==
  {[kind |-> "206", from |-> from, to |-> to, total |-> Versions[v], body |-> b]
     : b \in Bodies(Slice(v, from, to))}

\* What may come back for bytes from..to: the range, what there is of it, the
\* file from its start on; or no 206, no Content-Range, or no connection.
Responses(v, from, to) ==
  LET last == Versions[v] - 1 IN
  {[kind |-> "other"]}
    \cup (IF from <= last /\ to <= last THEN Partial(v, from, to) ELSE {})
    \cup (IF from <= last /\ last < to THEN Partial(v, from, last) ELSE {})
    \cup (IF 0 <= last /\ to <= last THEN Partial(v, 0, to) ELSE {})

\* len(): the length that has been learnt, or a probe for the first byte.
LenKnown ==
  /\ call = Idle /\ len # Unknown
  /\ returned' = "ok"
  /\ answers' = answers \cup {[offset |-> 0, bytes |-> <<>>, total |-> len]}
  /\ UNCHANGED <<served, len, call, response, requested>>

Request(c) ==
  /\ requested < MaxRequests
  /\ requested' = requested + 1
  /\ call' = c
  /\ response' = None
  /\ UNCHANGED <<served, len, returned, answers>>

AskLen == call = Idle /\ len = Unknown /\ Request([kind |-> "len", from |-> 0, to |-> 0])

ReadNothing ==
  /\ call = Idle /\ \E a \in Asks : a.len = 0
  /\ returned' = "ok"
  /\ UNCHANGED <<served, len, call, response, answers, requested>>

AskRange ==
  \E a \in Asks :
    /\ call = Idle /\ a.len > 0
    /\ Request([kind |-> "range", from |-> a.offset, to |-> a.offset + a.len - 1])

\* The server answers out of the version it has.
Respond ==
  /\ call # Idle /\ response = None
  /\ response' \in Responses(served, call.from, call.to)
  /\ UNCHANGED <<served, len, call, returned, answers, requested>>

Answered(kind) == call.kind = kind /\ response # None

Err == returned' = "err" /\ call' = Idle /\ UNCHANGED answers

\* The status, the Content-Range, and the range in it.
RangeAsFor == response.kind = "206" /\ response.from = call.from /\ response.to = call.to

\* Mutant (BodyAsFor): the body may end early.
BodyAsFor_Short == Len(response.body) <= call.to - call.from + 1

\* read_exact, and nothing behind it.
BodyAsFor == Len(response.body) = call.to - call.from + 1

\* len(): the length is kept only when the whole response is right.
EndLen ==
  /\ Answered("len")
  /\ IF RangeAsFor /\ response.total > 0 /\ BodyAsFor
       THEN /\ len' = response.total
            /\ returned' = "ok" /\ call' = Idle
            /\ answers' = answers \cup {[offset |-> 0, bytes |-> <<>>, total |-> response.total]}
       ELSE Err /\ UNCHANGED len
  /\ UNCHANGED <<served, response, requested>>

\* Mutant (SameTotal): a new length is believed.
SameTotal_Any == TRUE

SameTotal == len = Unknown \/ response.total = len

\* read_range: the length is kept as soon as the header of the response has
\* been accepted, whatever becomes of the body.
EndRange ==
  /\ Answered("range")
  /\ IF RangeAsFor /\ SameTotal
       THEN /\ len' = response.total
            /\ IF BodyAsFor
                 THEN /\ returned' = "ok" /\ call' = Idle
                      /\ answers' = answers \cup {[offset |-> call.from, bytes |-> response.body,
                                                   total |-> response.total]}
                 ELSE Err
       ELSE Err /\ UNCHANGED len
  /\ UNCHANGED <<served, response, requested>>

HttpNext ==
  \/ Replace \/ LenKnown \/ AskLen \/ ReadNothing \/ AskRange
  \/ Respond \/ EndLen \/ EndRange

HttpSpec == HttpInit /\ [][HttpNext]_httpVars

-----------------------------------------------------------------------------
\* A range read that succeeds has filled the whole buffer with the bytes
\* asked for, all of one version of the file, one as long as the reader says
\* (read_range; RangeRead: "Fill buf with the bytes at offset").
RightBytes ==
  \A a \in answers : a.bytes # <<>> =>
    /\ \E ask \in Asks : ask.offset = a.offset /\ ask.len = Len(a.bytes)
    /\ \E v \in DOMAIN Versions :
         Versions[v] = len /\ a.bytes = Slice(v, a.offset, a.offset + Len(a.bytes) - 1)

\* Every answer a reader ever gives, lengths and bytes, is about files of one
\* length, although the file may be replaced between any two requests and
\* although calls fail in between: the checks made once at the opening of a
\* file, against its length, hold for every later read.
OneLength == \A a, b \in answers : a.total = b.total
=============================================================================
