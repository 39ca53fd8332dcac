----------------------------- MODULE HttpReader -----------------------------
(***************************************************************************)
(* How the requests of a connection are read (read_line_bounded,           *)
(* read_request_from and read_request of http.rs), from what the network   *)
(* delivers in pieces of any length, by the thread that Front has in its   *)
(* state "read".  What is sent is a sequence of units: the ends of lines,  *)
(* the headers and chunk sizes that are understood, and other text.        *)
(***************************************************************************)
EXTENDS Integers, Sequences, SequencesExt, FiniteSetsExt

CONSTANTS Requests,   \* the requests clients make
          Calls,      \* bound: requests of a connection
          MaxLine,    \* MAX_LINE (8 KiB)
          HeaderLines, HeaderBytes,  \* MAX_HEADER_LINES, MAX_HEADER_BYTES
          MaxBody     \* MAX_BODY (64 MiB)

Unit(kind, n) == <<kind, n>>
Cr == Unit("cr", 0)
Lf == Unit("lf", 0)
Eol == <<Cr, Lf>>

\* Texts, and those that are lines.
Kinds == {"cr", "lf", "size", "length", "chunked", "word"}
Piece == Seq(Kinds \X Int)
Inline == {l \in Piece : ToSet(l) \cap {Cr, Lf} = {}}

\* What HTTP lets a client make: headers that are not empty, of which none
\* but those of Sent has a length or chunks, unless the length is no number;
\* chunks that are not empty, or a body in one piece without a trailer.  Of a
\* trailer that is too long the rest would be taken for a request.
Formed(r) ==
    /\ r.first \in Inline /\ r.headers \in Seq(Inline \ {<<>>}) /\ r.trailers \in Seq(Inline \ {<<>>})
    /\ \A l \in ToSet(r.headers) : l[1][1] \notin {"length", "chunked"} \/ l[1] = Unit("length", -1)
    /\ \A l \in ToSet(r.trailers) : Len(l) + 2 <= MaxLine
    /\ r.chunked \in BOOLEAN /\ r.body \in Seq(Piece)
    /\ IF r.chunked THEN <<>> \notin ToSet(r.body) ELSE Len(r.body) <= 1

ASSUME ReaderAssumption ==
    /\ Calls \in Nat /\ MaxLine \in Nat /\ MaxLine >= 3 /\ MaxBody \in Nat
    /\ HeaderLines \in Nat /\ HeaderBytes \in Nat
    /\ \A r \in Requests : Formed(r)

VARIABLES calls,    \* the requests the client makes
          leaves,   \* "no", "early": it closes the connection before it has sent
                    \* them all, or "pause": it paused within trailers
          net,      \* what it sent that has not arrived
          avail,    \* the buffer of the BufReader
          at,       \* what is read: "request", "header", "size", "data",
                    \* "ending", "trailer" or "body"; "closed": nothing any more
          line,     \* out of read_line_bounded
          need,     \* what read_exact still wants
          head,     \* what the head of the request said so far
          body,     \* its body so far
          got,      \* the requests that were read
          refusal   \* the status of the last answer, 0: none

readerVars == <<calls, leaves, net, avail, at, line, need, head, body, got, refusal>>

(***************************************************************************)
(* A client: a request is its first line, the lines of its headers, and a  *)
(* body sent whole, with its length, or in chunks, which a chunk of size   *)
(* zero and any trailers end.                                              *)
(***************************************************************************)
LinesOf(ls) == FlattenSeq([i \in DOMAIN ls |-> ls[i] \o Eol])
Chunk(c) == <<Unit("size", Len(c))>> \o Eol \o c \o Eol

Headers(r) ==
    r.headers \o (IF r.chunked THEN << <<Unit("chunked", 0)>> >>
                  ELSE IF r.body = <<>> THEN <<>> ELSE << <<Unit("length", Len(r.body[1]))>> >>)

Payload(r) ==
    IF ~r.chunked THEN FlattenSeq(r.body)
    ELSE FlattenSeq([i \in DOMAIN r.body |-> Chunk(r.body[i])])
            \o (<<Unit("size", 0)>> \o Eol \o LinesOf(r.trailers) \o Eol)

Sent(r) == r.first \o Eol \o LinesOf(Headers(r)) \o Eol \o Payload(r)

Asked(r) == [first |-> r.first, body |-> FlattenSeq(r.body)]

NoHead == [first |-> <<>>, length |-> 0, chunked |-> FALSE, bad |-> FALSE, lines |-> 0, bytes |-> 0]

\* A line without its end; trim.
Stripped(l) == SubSeq(l, 1, Max({0} \cup {i \in DOMAIN l : l[i] \notin {Cr, Lf}}))
-----------------------------------------------------------------------------
ReaderInit ==
    /\ calls \in BoundedSeq(Requests, Calls)
    /\ \E sent \in {FlattenSeq([i \in DOMAIN calls |-> Sent(calls[i])])} :
          \E k \in 0 .. Len(sent) : net = SubSeq(sent, 1, k) /\ leaves = IF k < Len(sent) THEN "early" ELSE "no"
    /\ avail = <<>> /\ at = "request" /\ line = <<>> /\ need = 0
    /\ head = NoHead /\ body = <<>> /\ got = <<>> /\ refusal = 0

AtLine == at \in {"request", "header", "size", "trailer"}
AtBytes == at \in {"data", "ending", "body"}

\* fill_buf: the buffer is empty, and some of what was sent arrives.
Arrive ==
    /\ at # "closed" /\ avail = <<>>
    /\ \E k \in 1 .. Len(net) :
          avail' = SubSeq(net, 1, k) /\ net' = SubSeq(net, k + 1, Len(net))
    /\ UNCHANGED <<calls, leaves, at, line, need, head, body, got, refusal>>

\* The request is handled and the next one read, by the same reader.
Returns(b) ==
    /\ got' = Append(got, [first |-> head.first, body |-> b])
    /\ at' = "request" /\ line' = <<>> /\ need' = 0 /\ head' = NoHead /\ body' = <<>>
    /\ UNCHANGED refusal

\* The connection ends, with an answer or without.
Refuses(status) ==
    /\ at' = "closed" /\ line' = <<>> /\ refusal' = status
    /\ UNCHANGED <<need, head, body, got>>

Awaits(place, n) == at' = place /\ need' = n /\ line' = <<>> /\ UNCHANGED <<got, refusal>>

\* The headers ended.
Headed ==
    IF head.bad THEN Refuses(400)
    ELSE IF head.chunked THEN Awaits("size", 0) /\ UNCHANGED <<head, body>>
    ELSE IF head.length > MaxBody THEN Refuses(413)
    ELSE IF head.length = 0 THEN Returns(<<>>)
    ELSE Awaits("body", head.length) /\ UNCHANGED <<head, body>>

(***************************************************************************)
(* A header: of several lengths the last counts.  Its own line is counted  *)
(* first, the empty one is not checked.                                    *)
(***************************************************************************)
Header(l) ==
    LET h == Stripped(l)
        counted == [head EXCEPT !.lines = @ + 1, !.bytes = @ + Len(l)]
    IN  IF h = <<>> THEN Headed
        ELSE IF counted.lines > HeaderLines \/ counted.bytes > HeaderBytes THEN Refuses(431)
        ELSE /\ head' = CASE h[1][1] = "length" -> IF h[1][2] >= 0 THEN [counted EXCEPT !.length = h[1][2]]
                                                   ELSE [counted EXCEPT !.bad = TRUE]
                          [] h[1][1] = "chunked" -> [counted EXCEPT !.chunked = TRUE]
                          [] OTHER -> counted
             /\ Awaits("header", 0) /\ UNCHANGED body

Size(l) ==
    LET s == Stripped(l)
    IN  IF s = <<>> \/ s[1][1] # "size" \/ s[1][2] < 0 THEN Refuses(400)
        ELSE IF s[1][2] = 0 THEN Awaits("trailer", 0) /\ UNCHANGED <<head, body>>
        ELSE IF Len(body) + s[1][2] > MaxBody THEN Refuses(413)
        ELSE Awaits("data", s[1][2]) /\ UNCHANGED <<head, body>>

\* A line was read, with its end or without at the end of what was sent.
LineRead(l) ==
    CASE at = "request" -> head' = [head EXCEPT !.first = Stripped(l)]
                             /\ Awaits("header", 0) /\ UNCHANGED body
      [] at = "header" -> Header(l)
      [] at = "size" -> Size(l)
      [] at = "trailer" -> IF Stripped(l) # <<>> THEN Awaits("trailer", 0) /\ UNCHANGED <<head, body>>
                           ELSE Returns(body)

TooLong == CASE at = "request" -> Refuses(414)
             [] at = "header" -> Refuses(431)
             [] at = "size" -> Refuses(400)
             [] at = "trailer" -> Returns(body)

UsedWhole == Len(avail)                                      \* fault

\* read_line_bounded: what the buffer has of the line is taken.
Used == Min({Len(avail)} \cup {i \in DOMAIN avail : avail[i] = Lf})

TakePiece ==
    /\ AtLine /\ avail # <<>>
    /\ avail' = SubSeq(avail, Used + 1, Len(avail))
    /\ LET out == line \o SubSeq(avail, 1, Used)
       IN  IF Len(out) > MaxLine THEN TooLong
           ELSE IF avail[Used] = Lf THEN LineRead(out)
           ELSE line' = out /\ UNCHANGED <<at, need, head, body, got, refusal>>
    /\ UNCHANGED <<calls, leaves, net>>

\* read_exact: the bytes of a body or of a chunk, or the end of a chunk.
TakeBytes ==
    /\ AtBytes /\ avail # <<>>
    /\ LET k == IF need < Len(avail) THEN need ELSE Len(avail)
           taken == SubSeq(avail, 1, k)
       IN  /\ avail' = SubSeq(avail, k + 1, Len(avail))
           /\ CASE at = "ending" ->
                     IF line \o taken = Eol THEN Awaits("size", 0) /\ UNCHANGED <<head, body>>
                     ELSE IF k = need THEN Refuses(400)
                     ELSE line' = line \o taken /\ need' = need - k
                            /\ UNCHANGED <<at, head, body, got, refusal>>
                [] at = "body" /\ k = need -> Returns(body \o taken)
                [] OTHER -> /\ body' = body \o taken
                            /\ IF k = need THEN Awaits("ending", 2)
                               ELSE need' = need - k /\ UNCHANGED <<at, line, got, refusal>>
                            /\ UNCHANGED head
    /\ UNCHANGED <<calls, leaves, net>>

(***************************************************************************)
(* The client has closed its side: a line may end there, and so may the    *)
(* headers and the trailers.                                               *)
(***************************************************************************)
MeetEof ==
    /\ at # "closed" /\ avail = <<>> /\ net = <<>>
    /\ IF AtBytes THEN Refuses(0)
       ELSE IF line # <<>> THEN LineRead(line)
       ELSE CASE at = "header" -> Headed
              [] at = "trailer" -> Returns(body)
              [] OTHER -> Refuses(0)
    /\ UNCHANGED <<calls, leaves, net, avail>>

(***************************************************************************)
(* Nothing came for two minutes, or the connection broke.  Trailers end    *)
(* there; should the rest of them still come, it is read as a request.     *)
(***************************************************************************)
BreakOff ==
    /\ at # "closed" /\ avail = <<>>
    /\ IF at = "trailer" THEN Returns(body) ELSE Refuses(0)
    /\ leaves' = IF at = "trailer" \/ leaves = "pause" THEN "pause" ELSE "early"
    /\ UNCHANGED <<calls, net, avail>>

ReaderNext == Arrive \/ TakePiece \/ TakeBytes \/ MeetEof \/ BreakOff

ReaderSpec == ReaderInit /\ [][ReaderNext]_readerVars
-----------------------------------------------------------------------------
\* A request within every limit, its length a number.
Fits(r) ==
    /\ \A l \in {r.first} \cup ToSet(r.headers) : Len(l) + 2 <= MaxLine
    /\ Unit("length", -1) \notin UNION {ToSet(h) : h \in ToSet(r.headers)}
    /\ Len(r.headers) + 1 <= HeaderLines /\ Len(LinesOf(r.headers)) + 3 <= HeaderBytes
    /\ Len(FlattenSeq(r.body)) <= MaxBody

(***************************************************************************)
(* However the network cuts what is sent, the requests are read as they    *)
(* were made, one after the other and each with its own body, and none is  *)
(* refused that keeps the limits; a connection that its client has not     *)
(* left is not closed before all were read.  Of a client that leaves, the  *)
(* last request may be read as far as it came; one that pauses for two     *)
(* minutes within its trailers is misread.                                 *)
(***************************************************************************)
ReadAsMade ==
    leaves # "pause" =>
        /\ Len(got) <= Len(calls)
        /\ \A i \in DOMAIN got : got[i] = Asked(calls[i]) \/ (i = Len(got) /\ leaves = "early")
        /\ refusal # 0 => \E r \in {calls[Len(got) + 1]} : ~Fits(r)
        /\ at = "closed" /\ refusal = 0 /\ leaves = "no" => Len(got) = Len(calls)
=============================================================================
