---------------------------- MODULE RtspConnection ----------------------------
(***************************************************************************)
(* One RTSP connection from the first request to the interleaved media:    *)
(* RtspTransportClient.cs (a request, its response, one repetition with    *)
(* credentials) as RtspClientInternal.ConnectAsync uses it, and            *)
(* TpktStream.ReadAsync, which finds the media packets in what follows the *)
(* response to PLAY.  The server is external; what it sends is on the wire *)
(* in order, and a read takes any part of it from the front.               *)
(*                                                                         *)
(* The wire has tokens <<kind, a, b>> instead of bytes: a header is four   *)
(* of them as in the code, the end of the headers of a response two.       *)
(***************************************************************************)
EXTENDS Naturals, SequencesExt

CONSTANTS
  Requests,     \* the requests up to PLAY: the length of the body of the
                \* response, the read portion (0 is no portion), and
                \* whether only "200 OK" will do
  HeadersLimit, \* MaxResponseHeadersSize
  BufferSize,   \* the size of TpktStream's _readBuffer
  Payloads,     \* the sizes of media packets
  Signs,        \* what a response to a keep-alive request may contain
  MaxPackets,   \* bound: media packets before the model stops
  MaxAnswers    \* bound: responses to keep-alive requests among them

ASSUME ConnectionAssumption ==
  /\ Requests \in Seq([body : Nat, portion : {0, 1}, ensured : BOOLEAN])
  /\ Requests # <<>>
  /\ HeadersLimit \in Nat \ {0} /\ BufferSize \in Nat \ {0}
  /\ Payloads \subseteq Nat /\ Payloads # {}
  /\ Signs \subseteq {"line", "$"}
  /\ MaxPackets \in Nat /\ MaxAnswers \in Nat

VARIABLES
  pc,            \* what the client does next
  request,       \* the request it is at
  repeated,      \* it was repeated with credentials
  authenticator, \* _authenticator is there
  wire,          \* what the server sent and the client has not read
  buffer,        \* what is in _buffer of the transport client
  status,        \* the status of the response ...
  expected,      \* ... the length of its body ...
  body,          \* ... and what the client has of it
  rest,          \* what is in _readBuffer: _nonParsedDataSize bytes or more
  received,      \* the payloads TpktStream returned
  playing,       \* the server sends media
  sent,          \* history: the sizes of the packets it sent
  answers,       \* history: the keep-alive responses it sent
  closed,        \* the server has closed the connection
  swallowed,     \* history: bytes behind a response were dropped with it
  misframed      \* history: a '$' in a response was taken for a packet

rtsp   == <<request, repeated, authenticator, buffer, status, expected, body>>
tpkt   == <<rest, received>>
server == <<playing, sent, answers, closed>>
faults == <<swallowed, misframed>>
vars == <<pc, rtsp, wire, tpkt, server, faults>>

Statuses == {"200", "401", "404"}
HeaderSize == 4
Play == Len(Requests)

Crlf == <<"crlf", 0, 0>>
Response(code, length) ==
  <<<<code, length, 0>>, Crlf, <<"line", 0, 0>>, Crlf, Crlf>>
    \o [i \in 1..length |-> <<"body", i, 0>>]

Answer(sign) == <<<<"200", 0, 0>>, Crlf, <<sign, 0, 0>>, Crlf, Crlf>>

Payload(p, size) == [i \in 1..size |-> <<"payload", p, i>>]
Packet(p, size) ==
  <<<<"$", p, 0>>, <<"channel", p, 0>>, <<"size", size, 0>>, <<"size", size, 1>>>>
    \o Payload(p, size)

Tokens == (Statuses \cup {"crlf", "line", "$", "body", "channel", "size",
                          "payload"}) \X Nat \X Nat

TypeOK ==
  /\ pc \in {"send", "read", "parse", "body", "decide", "find", "header",
             "payload", "failed"}
  /\ request \in 1..Play
  /\ repeated \in BOOLEAN /\ authenticator \in BOOLEAN
  /\ wire \in Seq(Tokens)
  /\ buffer \in Seq(Tokens) /\ Len(buffer) <= HeadersLimit
  /\ status \in Statuses /\ expected \in Nat
  /\ body \in Seq(Tokens) /\ Len(body) <= expected
  /\ rest \in Seq(Tokens)
  /\ received \in Seq(Seq(Tokens))
  /\ playing \in BOOLEAN /\ closed \in BOOLEAN
  /\ sent \in Seq(Payloads) /\ Len(sent) <= MaxPackets
  /\ answers \in 0..MaxAnswers
  /\ swallowed \in BOOLEAN /\ misframed \in BOOLEAN

Init ==
  /\ pc = "send" /\ request = 1 /\ repeated = FALSE /\ authenticator = FALSE
  /\ wire = <<>> /\ buffer = <<>>
  /\ status = "200" /\ expected = 0 /\ body = <<>>
  /\ rest = <<>> /\ received = <<>>
  /\ playing = FALSE /\ sent = <<>> /\ answers = 0 /\ closed = FALSE
  /\ swallowed = FALSE /\ misframed = FALSE

(* Some of what is on the wire, or exactly so much.                        *)
Take(n)  == SubSeq(wire, 1, n)
Leave(n) == wire' = SubSeq(wire, n + 1, Len(wire))

First(seq, kinds) ==
  SelectInSeq(seq, LAMBDA token : token[1] \in kinds)

-----------------------------------------------------------------------------
(* The server. *)

SendPacket(size) ==
  /\ playing /\ ~closed /\ Len(sent) < MaxPackets
  /\ sent' = Append(sent, size)
  /\ wire' = wire \o Packet(Len(sent'), size)
  /\ UNCHANGED <<pc, rtsp, tpkt, playing, answers, closed, faults>>

AnswerKeepAlive(sign) ==
  /\ playing /\ ~closed /\ answers < MaxAnswers
  /\ answers' = answers + 1
  /\ wire' = wire \o Answer(sign)
  /\ UNCHANGED <<pc, rtsp, tpkt, playing, sent, closed, faults>>

Close ==
  /\ ~closed
  /\ closed' = TRUE
  /\ UNCHANGED <<pc, rtsp, wire, tpkt, playing, sent, answers, faults>>

-----------------------------------------------------------------------------
(* A request and its response: ExecuteRequest and EnsureExecuteRequest.    *)

(* SendRequestAsync, which the server answers unless it has closed.        *)
SendRequest ==
  /\ pc = "send"
  /\ \E code \in Statuses :
       LET length == IF code = "200" THEN Requests[request].body ELSE 0
       IN IF closed THEN UNCHANGED <<wire, playing>>
          ELSE /\ wire' = wire \o Response(code, length)
               /\ playing' = (request = Play /\ code = "200")
  /\ buffer' = <<>> /\ body' = <<>>
  /\ pc' = "read"
  /\ UNCHANGED <<request, repeated, authenticator, status, expected, tpkt,
                 sent, answers, closed, faults>>

\* A mutant of Portion: no response is read by portions.
NoPortion == 0

(* The repetition is read without a portion.                               *)
Portion == IF repeated THEN 0 ELSE Requests[request].portion

\* A mutant of Count: the room that is left is not what is read at most.
CountOfAll == IF Portion # 0 THEN Portion ELSE HeadersLimit

Count ==
  LET room == HeadersLimit - Len(buffer)
  IN IF Portion # 0 /\ room > Portion THEN Portion ELSE room

(* The end of the headers in what is searched after a read: what is new,   *)
(* and as much before it as may belong to it.                              *)
EndIn(seq, from) ==
  { i \in from..(Len(seq) - 1) : seq[i] = Crlf /\ seq[i + 1] = Crlf }

\* A mutant of SearchFrom: only what is new is searched.
SearchNew(old) == old + 1

SearchFrom(old) == IF old < 1 THEN 1 ELSE old

(* ReadUntilEndOfHeadersAsync.                                             *)
ReadHeaders ==
  /\ pc = "read"
  /\ IF Count = 0 THEN pc' = "failed" /\ UNCHANGED <<wire, buffer>>
     ELSE \/ \E n \in 1..Count :
               /\ n <= Len(wire)
               /\ buffer' = buffer \o Take(n)
               /\ Leave(n)
               /\ pc' = IF EndIn(buffer', SearchFrom(Len(buffer))) = {}
                          THEN "read" ELSE "parse"
          \/ /\ wire = <<>> /\ closed
             /\ pc' = "failed" /\ UNCHANGED <<wire, buffer>>
  /\ UNCHANGED <<request, repeated, authenticator, status, expected, body,
                 tpkt, server, faults>>

(* GetResponseAsync: the part of the body that was read with the headers   *)
(* is what does not belong to them.                                        *)
DataPart(start, end) == Len(buffer) - (end - start + 1)

(* What lies behind the headers, and behind what was read is something an  *)
(* earlier response left.                                                  *)
Behind(end, size) ==
  [i \in 1..size |-> IF end + i <= Len(buffer) THEN buffer[end + i]
                                               ELSE <<"line", 0, 0>>]

Parse ==
  /\ pc = "parse"
  /\ LET start == First(buffer, Statuses)
         end   == Min(EndIn(buffer, 1)) + 1
         data  == DataPart(start, end)
     IN IF start = 0
          THEN pc' = "failed" /\ UNCHANGED <<status, expected, body, swallowed>>
          ELSE /\ status' = buffer[start][1]
               /\ expected' = buffer[start][2]
               /\ IF expected' = 0
                    THEN /\ body' = <<>>
                         /\ pc' = "decide"
                         /\ swallowed' = (swallowed \/ Len(buffer) > end)
                    ELSE /\ UNCHANGED swallowed
                         /\ IF expected' > HeadersLimit \/ data > expected'
                              THEN pc' = "failed" /\ body' = <<>>
                              ELSE /\ body' = Behind(end, data)
                                   /\ pc' = "body"
  /\ UNCHANGED <<request, repeated, authenticator, wire, buffer, tpkt, server,
                 misframed>>

ReadBody ==
  /\ pc = "body"
  /\ LET missing == expected - Len(body)
     IN \/ /\ missing <= Len(wire)
           /\ body' = body \o Take(missing)
           /\ Leave(missing)
           /\ pc' = "decide"
        \/ /\ missing > Len(wire) /\ closed
           /\ pc' = "failed" /\ UNCHANGED <<wire, body>>
  /\ UNCHANGED <<request, repeated, authenticator, buffer, status, expected,
                 tpkt, server, faults>>

(* The status: the first challenge of a connection is met if there are     *)
(* credentials for it, any other fails the request; after PLAY the         *)
(* connection is TpktStream's.                                             *)
Decide ==
  /\ pc = "decide"
  /\ \/ /\ status = "200" \/ (status = "404" /\ ~Requests[request].ensured)
        /\ IF request = Play THEN pc' = "find" /\ UNCHANGED request
                             ELSE pc' = "send" /\ request' = request + 1
        /\ repeated' = FALSE
        /\ UNCHANGED authenticator
     \/ /\ status = "401" /\ ~authenticator
        /\ authenticator' = TRUE /\ repeated' = TRUE
        /\ pc' = "send"
        /\ UNCHANGED request
     \/ /\ status = "401" \/ (status = "404" /\ Requests[request].ensured)
        /\ pc' = "failed"
        /\ UNCHANGED <<request, repeated, authenticator>>
  /\ UNCHANGED <<wire, buffer, status, expected, body, tpkt, server, faults>>

-----------------------------------------------------------------------------
(* TpktStream.ReadAsync. *)

(* FindNextPacketAsync: what is left of the last read is searched first,   *)
(* and every later read replaces what was searched.                        *)
FindNextPacket ==
  /\ pc = "find"
  /\ LET at == First(rest, {"$"})
     IN IF at # 0
          THEN /\ rest' = SubSeq(rest, at, Len(rest))
               /\ misframed' = (misframed \/ rest[at][2] = 0)
               /\ pc' = "header"
               /\ UNCHANGED wire
          ELSE /\ \/ \E n \in 1..BufferSize :
                       n <= Len(wire) /\ rest' = Take(n) /\ Leave(n) /\ UNCHANGED pc
                  \/ /\ wire = <<>> /\ closed
                     /\ pc' = "failed" /\ UNCHANGED <<wire, rest>>
               /\ UNCHANGED misframed
  /\ UNCHANGED <<rtsp, received, server, swallowed>>

ReadHeader ==
  /\ pc = "header"
  /\ LET missing == IF Len(rest) >= HeaderSize THEN 0 ELSE HeaderSize - Len(rest)
     IN \/ /\ missing <= Len(wire)
           /\ rest' = rest \o Take(missing)
           /\ Leave(missing)
           /\ pc' = "payload"
        \/ /\ missing > Len(wire) /\ closed
           /\ pc' = "failed" /\ UNCHANGED <<wire, rest>>
  /\ UNCHANGED <<rtsp, received, server, faults>>

(* The size in the header; of what is no header any size is read.          *)
SizesRead ==
  IF rest[3][1] = "size" /\ rest[4] = <<"size", rest[3][2], 1>>
    THEN {rest[3][2]} ELSE 0..BufferSize

\* A mutant of Beyond: what was read beyond the packet is forgotten.
NothingBeyond(size) == <<>>

(* What was read beyond the packet.                                        *)
Beyond(size) == SubSeq(rest, HeaderSize + size + 1, Len(rest))

ReadPayload ==
  /\ pc = "payload"
  /\ \E size \in SizesRead :
       LET have == Len(rest) - HeaderSize
           missing == IF have >= size THEN 0 ELSE size - have
       IN \/ /\ missing <= Len(wire)
             /\ received' = Append(received,
                  SubSeq(rest \o Take(missing), HeaderSize + 1, HeaderSize + size))
             /\ rest' = Beyond(size)
             /\ Leave(missing)
             /\ pc' = "find"
          \/ /\ missing > Len(wire) /\ closed
             /\ pc' = "failed" /\ UNCHANGED <<wire, rest, received>>
  /\ UNCHANGED <<rtsp, server, faults>>

-----------------------------------------------------------------------------
Client ==
  \/ SendRequest \/ ReadHeaders \/ Parse \/ ReadBody \/ Decide
  \/ FindNextPacket \/ ReadHeader \/ ReadPayload

Next ==
  \/ Client
  \/ \E size \in Payloads : SendPacket(size)
  \/ \E sign \in Signs : AnswerKeepAlive(sign)
  \/ Close

(* The client goes on when the wire has what it waits for.                 *)
Spec == Init /\ [][Next]_vars /\ WF_vars(Client)

-----------------------------------------------------------------------------
(* The client has the body the server sent, however the reads cut the      *)
(* response (RtspTransportClient.cs:94-134).                               *)
BodyIsWhole ==
  pc = "decide" /\ status = "200" =>
    /\ Len(body) = Requests[request].body
    /\ \A i \in 1..Len(body) : body[i] = <<"body", i, 0>>

(* The payloads TpktStream returns are those of the packets the server     *)
(* sent, whole and in order: nothing of the first is lost when the         *)
(* connection changes hands, unless PLAY was challenged, and the responses *)
(* between packets do no harm, unless they contain a '$'                   *)
(* (RtspTransportClient.cs:147-148, TpktStream.cs:27-71, 95-125).          *)
PacketsArriveWhole ==
  ~swallowed /\ ~misframed =>
    /\ Len(received) <= Len(sent)
    /\ \A p \in 1..Len(received) : received[p] = Payload(p, sent[p])

(* However TCP cuts the stream up, what the client takes from it is whole. *)
DataIsWhole == BodyIsWhole /\ PacketsArriveWhole

(* Only a challenge to PLAY itself lets bytes be dropped with a response   *)
(* (RtspTransportClient.cs:67).                                            *)
SwallowedOnlyWhenRepeated ==
  swallowed => request = Play /\ authenticator

(* A packet that was sent arrives (TpktStream.cs:27-71, 95-110).           *)
EveryPacketArrives ==
  \A p \in 1..MaxPackets :
    Len(sent) >= p ~> \/ Len(received) >= p
                      \/ swallowed \/ misframed \/ closed

=============================================================================
