----------------------------- MODULE Connection -----------------------------
(* One client (client.cpp) and the server's loop (IOLoop.cpp) on one TCP      *)
(* connection: two TCPCommunicateSockets (socket.cpp), and the reading of     *)
(* messages off their streams (proto_impl.cpp, recvRsp).  The client asks,    *)
(* then waits.  The server handles one message for each read event of an      *)
(* edge-triggered epoll, and sends from wherever _buff points; requests of    *)
(* other connections point it elsewhere in between.                           *)
(*                                                                            *)
(* A stream is a sequence of units, each knowing its message and its place    *)
(* in it; the lengths are small and stand for bytes.  What a message says is  *)
(* left to CNProtoHandler: here it is the request an answer was made for, and *)
(* whether it was made for one at all.                                        *)
EXTENDS Integers, Sequences, SequencesExt

CONSTANTS
  HdrLen,        \* sizeof(STD_HDR)
  ReqLen,        \* length of a request
  ErrLen,        \* length of a refusal or an error, header and result
  AnsLens,       \* lengths of the answers built in _response
  ListLens,      \* lengths of the transaction lists built in _dyn_buff
  OtherLens,     \* bound: what the lists of other clients claim to be long
  LenWord,       \* m_wDataLen holds 0 .. LenWord - 1
  BuffSize,      \* BUFF_SIZE
  Cuts,          \* whether a message may arrive, or be written, in part
  MaxRequests    \* bound: requests of the client

ASSUME LengthsAssumption ==
  /\ HdrLen \in Nat \ {0} /\ {ErrLen, ReqLen} \subseteq Nat
  /\ ErrLen > HdrLen /\ ReqLen >= HdrLen
  /\ AnsLens \subseteq ErrLen .. BuffSize - 1
  /\ ListLens \cup OtherLens \subseteq Nat /\ \A l \in ListLens \cup OtherLens : l > ErrLen
  /\ LenWord \in Nat /\ \A l \in AnsLens \cup {ReqLen} : l - HdrLen < LenWord
  /\ BuffSize \in Nat /\ BuffSize > ReqLen /\ BuffSize > ErrLen
  /\ Cuts \in BOOLEAN /\ MaxRequests \in Nat

VARIABLES
  client,    \* "menu"; in recv: "waiting", or "again" after a full buffer; "gone"
  asked,     \* number of the client's last request
  got,       \* what the client read last, since it asked
  c2s, s2c,  \* bytes under way
  rqS, rqC,  \* bytes in the receive queues of the two kernels
  inS, inC,  \* buff_in of the two sockets: the bytes not read yet, and failbit
  sk,        \* the server's socket: "pending", "open", "spin", "closed"
  edge,      \* epoll has something new to report of it
  fin, rst,  \* the end of the stream, or a reset, has reached the server
  handled,   \* number of the last request handled
  buff,      \* where _buff points, and the length the message there claims
  mishaps    \* history: "mute", nothing was sent; "spin", recv span; "wrap", more
             \* was sent than the header could say

streams == <<c2s, s2c, rqS, rqC>>
vars == <<client, asked, got, streams, inS, inC, sk, edge, fin, rst, handled,
          buff, mishaps>>

-----------------------------------------------------------------------------
(* Messages and streams.                                                      *)

\* n: the request it is or answers; len: its length by its header; kind: a
\* "request", an "answer" made for request n, an "error" for an INVALID message,
\* or "stale": an older message sent in place of an answer.
Kind == {"request", "answer", "error", "stale"}
Msg == [n : 0 .. MaxRequests, len : Nat \ {0}, kind : Kind]
Unit == [msg : Msg, at : Nat \ {0}]

Bytes(msg, k) == [i \in 1 .. k |-> [msg |-> msg, at |-> i]]
Request(n) == [n |-> n, len |-> ReqLen, kind |-> "request"]

Stream == [buf : Seq(Unit), fail : BOOLEAN]
EmptyStream == [buf |-> <<>>, fail |-> FALSE]

Dropped(s, k) == SubSeq(s, k + 1, Len(s))

\* sputn: what comes after failbit is stored too, and never read.
Stored(s, d) == IF s.fail THEN s ELSE [s EXCEPT !.buf = @ \o d]

NoBuff == [at |-> "NULL", len |-> 0]

\* What a reader has in the end: a message, or
Nothing == [kind |-> "nothing"]    \* not a header;
Part(msg) == [n |-> msg.n, kind |-> "part", of |-> msg.kind]  \* not a whole body;
Torn(msg) == [n |-> msg.n, kind |-> "torn", of |-> msg.kind]  \* a body of two messages;
Garbage == [kind |-> "garbage"]    \* bytes from within a message.

Read(msg, s) == [msg |-> msg, stream |-> s]

\* A variant in which a short read leaves the stream good.
ShortReadCleared(msg) == Read(msg, EmptyStream)

\* in.read of more than there is takes all, and sets failbit; after that gcount
\* is 0 for ever.
ShortRead(msg) == Read(msg, [buf |-> <<>>, fail |-> TRUE])

\* Header, then as much body as the header says.  Bytes from within a message
\* taken for a header may say any length.
Reads(s) ==
  IF s.fail \/ Len(s.buf) < HdrLen THEN {ShortRead(Nothing)}
  ELSE IF s.buf[1].at = 1
  THEN LET msg == s.buf[1].msg IN
         {IF Len(s.buf) < msg.len THEN ShortRead(Part(msg))
          ELSE Read(IF IsPrefix(Bytes(msg, msg.len), s.buf) THEN msg ELSE Torn(msg),
                    [s EXCEPT !.buf = Dropped(@, msg.len)])}
  ELSE {ShortRead(Garbage)} \cup
       {Read(Garbage, [s EXCEPT !.buf = Dropped(@, k)]) : k \in HdrLen .. Len(s.buf)}

-----------------------------------------------------------------------------

Init ==
  /\ client = "menu" /\ asked = 0 /\ got = Nothing
  /\ c2s = <<>> /\ s2c = <<>> /\ rqS = <<>> /\ rqC = <<>>
  /\ inS = EmptyStream /\ inC = EmptyStream
  /\ sk = "pending" /\ edge = FALSE /\ fin = FALSE /\ rst = FALSE
  /\ handled = 0
  /\ buff = NoBuff
  /\ mishaps = {}

-----------------------------------------------------------------------------
(* The client.                                                                *)

\* A menu, send...Req, and on to recvRsp.
Ask ==
  /\ client = "menu" /\ asked < MaxRequests
  /\ asked' = asked + 1
  /\ got' = Nothing
  /\ c2s' = c2s \o Bytes(Request(asked'), ReqLen)
  /\ client' = "waiting"
  /\ UNCHANGED <<s2c, rqS, rqC, inS, inC, sk, edge, fin, rst, handled, buff, mishaps>>

\* A turn of recv's loop on the blocking socket; recv reads on after a full buffer,
\* and recvRsp reads a message after any other.
ClientRecv ==
  /\ client \in {"waiting", "again"} /\ rqC # <<>>
  /\ LET n == IF Len(rqC) < BuffSize THEN Len(rqC) ELSE BuffSize
         s == Stored(inC, SubSeq(rqC, 1, n)) IN
       /\ rqC' = Dropped(rqC, n)
       /\ IF n = BuffSize
          THEN client' = "again" /\ inC' = s /\ UNCHANGED got
          ELSE /\ \E r \in Reads(s) : got' = r.msg /\ inC' = r.stream
               /\ client' = "menu"
  /\ UNCHANGED <<asked, c2s, s2c, rqS, inS, sk, edge, fin, rst, handled, buff, mishaps>>

\* The server has closed: recv ends with what it has, or the client with it.
ClientEOF ==
  /\ client \in {"waiting", "again"} /\ sk = "closed" /\ rqC = <<>> /\ s2c = <<>>
  /\ IF client = "again"
     THEN /\ \E r \in Reads(inC) : got' = r.msg /\ inC' = r.stream
          /\ client' = "menu"
     ELSE client' = "gone" /\ got' = Nothing /\ inC' = EmptyStream
  /\ UNCHANGED <<asked, streams, inS, sk, edge, fin, rst, handled, buff, mishaps>>

\* Exit in the menu, or the client is killed.  Closing a socket with unread data
\* resets the connection.
ClientExit ==
  /\ client # "gone"
  /\ client' = "gone" /\ got' = Nothing /\ inC' = EmptyStream /\ rqC' = <<>>
  /\ rst' = (rst \/ rqC # <<>>)
  /\ UNCHANGED <<asked, c2s, s2c, rqS, inS, sk, edge, fin, handled, buff, mishaps>>

-----------------------------------------------------------------------------
(* The network.                                                               *)

\* The next bytes to arrive: all that are under way, or some.
\* Bound: after a wrap nothing is cut any more.
Pieces(s) == IF Cuts /\ "wrap" \notin mishaps THEN 1 .. Len(s) ELSE {Len(s)} \ {0}

ToServer ==
  /\ \E k \in Pieces(c2s) :
       /\ c2s' = Dropped(c2s, k)
       /\ IF sk = "closed" THEN UNCHANGED <<rqS, edge>>
                           ELSE rqS' = rqS \o SubSeq(c2s, 1, k) /\ edge' = TRUE
  /\ UNCHANGED <<client, asked, got, s2c, rqC, inS, inC, sk, fin, rst, handled, buff, mishaps>>

\* What comes for a client that is gone is answered by a reset.
ToClient ==
  /\ \E k \in Pieces(s2c) :
       /\ s2c' = Dropped(s2c, k)
       /\ IF client = "gone" THEN rst' = TRUE /\ UNCHANGED rqC
                             ELSE rqC' = rqC \o SubSeq(s2c, 1, k) /\ UNCHANGED rst
  /\ UNCHANGED <<client, asked, got, c2s, rqS, inS, inC, sk, edge, fin, handled, buff, mishaps>>

FinArrives ==
  /\ client = "gone" /\ c2s = <<>> /\ ~ fin /\ sk # "closed"
  /\ fin' = TRUE /\ edge' = TRUE
  /\ UNCHANGED <<client, asked, got, streams, inS, inC, sk, rst, handled, buff, mishaps>>

-----------------------------------------------------------------------------
(* What the server sends for a request, or for an INVALID message (request 0). *)

\* How much of a message a non-blocking send writes, while others are under way
\* or none: what there is room for.  Nothing writes the rest, or tries again: the
\* -1 of EAGAIN is a size_t and taken for a count.
Written(size) ==
  {size} \cup (IF Cuts /\ size > BuffSize THEN HdrLen .. size ELSE {})
         \cup (IF Cuts /\ s2c # <<>> THEN {0} ELSE {})

Sends(msg, size) ==
  \E k \in Written(size) :
    /\ s2c' = IF sk' = "closed" THEN s2c ELSE s2c \o Bytes(msg, k)
    /\ mishaps' = IF size > msg.len THEN mishaps \cup {"wrap"} ELSE mishaps

\* A variant that sends from _buff without looking where it points.
SendStaleUnchecked(size) ==
  Sends([n |-> 0, len |-> buff.len, kind |-> "stale"], size)

\* `size` bytes of what _buff pointed at before.  From NULL it is an EFAULT.
SendStale(size) ==
  IF buff.at = "NULL" THEN UNCHANGED s2c /\ mishaps' = mishaps \cup {"mute"}
  ELSE Sends([n |-> 0, len |-> buff.len, kind |-> "stale"], size)

\* What the header says of a message of length l.  Of a list the part before the
\* second transaction is read whatever it says (processTransRecs).
Claimed(l) ==
  LET said == HdrLen + ((l - HdrLen) % LenWord) IN IF said < ErrLen THEN ErrLen ELSE said

\* The handlers that fill _response, or _dyn_buff, and point _buff there.
AnswersFrom(place, lens, n) ==
  \E l \in lens :
    /\ buff' = [at |-> place, len |-> Claimed(l)]
    /\ Sends([n |-> n, len |-> Claimed(l), kind |-> "answer"], l)

\* The early returns of LOGON, DEPOSIT and WITHDRAWAL, and the answer to an INVALID
\* message: _response is filled and _buff stays where it was.
AnswersUnpointed(n, kind) ==
  IF buff.at = "_response"
  THEN /\ buff' = [buff EXCEPT !.len = ErrLen]
       /\ Sends([n |-> n, len |-> ErrLen, kind |-> kind], ErrLen)
  ELSE UNCHANGED buff /\ SendStale(ErrLen)

\* A transaction query without a session: the header of what is there.
AnswersHeader == UNCHANGED buff /\ SendStale(HdrLen)

AnswersRequest(n) ==
  \/ AnswersFrom("_response", AnsLens, n)
  \/ AnswersFrom("_dyn_buff", ListLens, n)
  \/ AnswersUnpointed(n, "answer")
  \/ AnswersHeader

-----------------------------------------------------------------------------
(* The server: IOLoop::start.                                                 *)

\* accept on the listening socket; data may be there already.
Accept ==
  /\ sk = "pending" /\ sk' = "open"
  /\ UNCHANGED <<client, asked, got, streams, inS, inC, edge, fin, rst, handled, buff, mishaps>>

\* A variant that answers only what it could read.
ProcessValid(s) ==
  \E r \in Reads(s) :
    /\ inS' = r.stream
    /\ IF r.msg.kind = "request"
       THEN handled' = r.msg.n /\ AnswersRequest(r.msg.n)
       ELSE UNCHANGED <<handled, buff, s2c, mishaps>>

\* process_msg, then send: one message of the stream is handled, and answered.
Process(s) ==
  \E r \in Reads(s) :
    /\ inS' = r.stream
    /\ IF r.msg.kind = "request"
       THEN handled' = r.msg.n /\ AnswersRequest(r.msg.n)
       ELSE UNCHANGED handled /\ AnswersUnpointed(0, "error")

\* delete cl_sk: closes the connection.
Close ==
  /\ sk' = "closed"
  /\ inS' = EmptyStream /\ rqS' = <<>> /\ edge' = FALSE
  /\ UNCHANGED <<handled, s2c>>

\* An event with EPOLLIN.  recv reads full buffers until a part of one, or the end
\* of the stream; after a last full one it goes on with recv of a drained socket,
\* whose -1 is a size_t, and more than 0.
ReadEvent ==
  /\ sk = "open" /\ edge
  /\ \/ /\ rqS = <<>> /\ fin
        /\ Close /\ UNCHANGED <<buff, mishaps>>
     \/ /\ rqS # <<>>
        /\ rqS' = <<>> /\ edge' = FALSE
        /\ IF Len(rqS) % BuffSize # 0 \/ fin
           THEN sk' = sk /\ Process(Stored(inS, rqS))
           ELSE /\ sk' = "spin" /\ mishaps' = mishaps \cup {"spin"}
                /\ inS' = Stored(inS, rqS)
                /\ UNCHANGED <<handled, buff, s2c>>
  /\ UNCHANGED <<client, asked, got, c2s, rqC, inC, fin, rst>>

\* More data, or the end, while recv spins.  The number of bytes counts the turns
\* down from 0, so it may be anything: data, end, error, or none of these.
SpinEnds ==
  /\ sk = "spin"
  /\ Len(rqS) % BuffSize # 0 \/ fin \/ rst
  /\ \/ /\ sk' = "open" /\ rqS' = <<>> /\ UNCHANGED edge
        /\ \/ Process(Stored(inS, rqS))
           \/ inS' = Stored(inS, rqS) /\ UNCHANGED <<handled, buff, s2c, mishaps>>
     \/ Close /\ UNCHANGED <<buff, mishaps>>
  /\ UNCHANGED <<client, asked, got, c2s, rqC, inC, fin, rst>>

\* A variant of the loop that looks at EPOLLIN only.
HangUpIgnored == FALSE

\* An event with EPOLLHUP or EPOLLERR.
HangUp ==
  /\ sk = "open" /\ rst
  /\ Close /\ UNCHANGED buff
  /\ UNCHANGED <<client, asked, got, c2s, rqC, inC, fin, rst, mishaps>>

\* The server process dies.
Die ==
  /\ sk # "closed"
  /\ Close /\ buff' = NoBuff
  /\ UNCHANGED <<client, asked, got, c2s, rqC, inC, fin, rst, mishaps>>

\* A request of another connection is answered.  Nobody else is served while recv
\* spins.
OtherClient ==
  /\ sk \in {"pending", "open"}
  /\ buff' \in [at : {"_response"}, len : {ErrLen}] \cup
               [at : {"_dyn_buff"}, len : OtherLens]
  /\ UNCHANGED <<client, asked, got, streams, inS, inC, sk, edge, fin, rst, handled, mishaps>>

Next ==
  \/ Ask \/ ClientRecv \/ ClientEOF \/ ClientExit
  \/ ToServer \/ ToClient \/ FinArrives
  \/ Accept \/ ReadEvent \/ SpinEnds \/ HangUp \/ Die \/ OtherClient

Spec == Init /\ [][Next]_vars

\* The loops of both programs and the network go on; nobody has to ask, to exit, or
\* to be another client.
FairSpec ==
  /\ Spec
  /\ WF_vars(ClientRecv) /\ WF_vars(ClientEOF)
  /\ WF_vars(ToServer) /\ WF_vars(ToClient) /\ WF_vars(FinArrives)
  /\ WF_vars(Accept) /\ WF_vars(ReadEvent) /\ WF_vars(SpinEnds) /\ WF_vars(HangUp)

-----------------------------------------------------------------------------
(* Properties.                                                                *)

\* Streams hold bytes of messages, whoever wrote them.
TypeOK ==
  /\ client \in {"menu", "waiting", "again", "gone"}
  /\ asked \in 0 .. MaxRequests /\ handled \in 0 .. MaxRequests
  /\ \/ got \in Msg \/ got \in {Nothing, Garbage}
     \/ got \in [n : 0 .. MaxRequests, kind : {"part", "torn"}, of : Kind]
  /\ {c2s, s2c, rqS, rqC} \subseteq Seq(Unit)
  /\ inS \in Stream /\ inC \in Stream
  /\ sk \in {"pending", "open", "spin", "closed"}
  /\ {edge, fin, rst} \subseteq BOOLEAN
  /\ buff \in [at : {"NULL", "_response", "_dyn_buff"}, len : Nat]
  /\ mishaps \subseteq {"mute", "spin", "wrap"}

\* However requests are cut and run together, the server handles them one by one in
\* the order of the client, none twice, and none after one it has missed: after an
\* incomplete message it handles nothing more (read_header, read_body).
HandledInOrder == [][handled' # handled => handled' = handled + 1]_handled

\* Whatever is cut, written in part, or sent from a stale buffer: what a client has
\* read of an answer made for a request, all of it or the part it shows regardless
\* (recvRsp), is from the answer to its last one, and from no other message.  A
\* client that is out of step reads nothing any more.  The exception is a client that
\* was sent more than the header of the message could say (proto_impl.cpp:138).
ReadsOwnAnswer ==
  client = "menu" /\ "wrap" \notin mishaps =>
    /\ got.kind = "answer" => got.n = asked
    /\ got.kind = "part" => got.of = "stale" \/ got.of = "error" \/ got.n = asked
    /\ got.kind = "torn" => got.of # "answer"

\* All that was sent has come in full buffers: recv waits for more.
EndsOnFull == client = "again" /\ rqC = <<>> /\ s2c = <<>>

\* The server did not send what it could have.
Muted == mishaps \cap {"mute", "spin"} # {}

\* A client that waits gets something to read, or learns that the server is gone,
\* unless nothing was sent (_buff NULL), the server's recv span, or what was sent
\* ends with a full buffer (recvRsp, recv).
WaitEnds ==
  client \in {"waiting", "again"} ~>
    client \in {"menu", "gone"} \/ EndsOnFull \/ Muted

\* The socket of a client that is gone is deleted, also when its end came together
\* with its last request, unless the answer that would tell was never sent.
GoneNoticed == client = "gone" ~> sk = "closed" \/ Muted

\* Bytes, streams and events are a channel of whole requests and answers: what they
\* do to the two programs is what Channel allows.
Ch == INSTANCE Channel WITH
        client <- IF client = "again" THEN "waiting" ELSE client,
        read <- IF got.kind = "answer" THEN got.n ELSE 0,
        deaf <- inC.fail,
        skewed <- "wrap" \in mishaps
IsChannel == Ch!Spec

\* A message that arrives complete and alone is handled: an incomplete one before it
\* was dropped from the stream ("reset istream", proto_impl.cpp:37).
CompleteIsHandled ==
  [][\A n \in 1 .. MaxRequests :
       /\ rqS = Bytes(Request(n), ReqLen) /\ inS.buf = <<>>
       /\ sk = "open" /\ rqS' = <<>> /\ sk' = "open"
       => handled' = n]_vars
=============================================================================
