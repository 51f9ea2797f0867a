--------------------------- MODULE ConnectionProofs ---------------------------
(* Proofs about a connection, for any lengths of messages and buffers, any    *)
(* cuts, and any number of requests.                                          *)
EXTENDS Connection, SequenceTheorems, TLAPS

-----------------------------------------------------------------------------
(* Sequences.                                                                *)

LEMMA DroppedProperties ==
  ASSUME NEW S, NEW s \in Seq(S), NEW k \in 0 .. Len(s)
  PROVE  /\ Dropped(s, k) \in Seq(S) /\ Len(Dropped(s, k)) = Len(s) - k
         /\ \A i \in 1 .. Len(s) - k : Dropped(s, k)[i] = s[i + k]
<1>1. \A i \in k + 1 .. Len(s) : s[i] \in S
  OBVIOUS
<1>. QED
  BY <1>1, SubSeqProperties DEF Dropped

LEMMA Associative ==
  ASSUME NEW x \in Seq(Unit), NEW y \in Seq(Unit), NEW z \in Seq(Unit)
  PROVE  (x \o y) \o z = x \o (y \o z)
BY ConcatAssociative

LEMMA TakenProperties ==
  ASSUME NEW S, NEW s \in Seq(S), NEW k \in 0 .. Len(s)
  PROVE  /\ SubSeq(s, 1, k) \in Seq(S) /\ Len(SubSeq(s, 1, k)) = k
         /\ \A i \in 1 .. k : SubSeq(s, 1, k)[i] = s[i]
<1>1. \A i \in 1 .. k : s[i] \in S
  OBVIOUS
<1>. QED
  BY <1>1, SubSeqProperties

\* A sequence is what is taken of it and what is left.
LEMMA TakenAndDropped ==
  ASSUME NEW S, NEW s \in Seq(S), NEW k \in 0 .. Len(s)
  PROVE  SubSeq(s, 1, k) \o Dropped(s, k) = s
<1>1. 1 \in 1 .. Len(s) + 1 /\ k \in 1 - 1 .. Len(s) /\ Len(s) \in k .. Len(s)
  OBVIOUS
<1>2. SubSeq(s, 1, k) \o SubSeq(s, k + 1, Len(s)) = SubSeq(s, 1, Len(s))
  BY <1>1, ConcatAdjacentSubSeq, Zenon
<1>3. SubSeq(s, 1, Len(s)) = s
  BY SubSeqFull, Zenon
<1>. QED
  BY <1>2, <1>3, Zenon DEF Dropped

\* Three parts of a stream, of which some bytes go from the third to the second,
LEMMA ShiftedToSecond ==
  ASSUME NEW a \in Seq(Unit), NEW b \in Seq(Unit), NEW c \in Seq(Unit), NEW k \in 0 .. Len(c)
  PROVE  a \o (b \o SubSeq(c, 1, k)) \o Dropped(c, k) = a \o b \o c
<1>. DEFINE taken == SubSeq(c, 1, k)  left == Dropped(c, k)
<1>1. taken \in Seq(Unit) /\ left \in Seq(Unit) /\ taken \o left = c
  BY DroppedProperties, TakenProperties, TakenAndDropped
<1>. HIDE DEF taken, left
<1>3. a \o b \in Seq(Unit)
  BY ConcatProperties
<1>4. a \o (b \o taken) = (a \o b) \o taken
  BY <1>1, Associative, Zenon
<1>5. ((a \o b) \o taken) \o left = (a \o b) \o (taken \o left)
  BY <1>1, Associative, <1>3, Zenon
<1>6. a \o (b \o taken) \o left = a \o b \o c
  BY <1>1, <1>4, <1>5
<1>. QED
  BY <1>6 DEF taken, left

\* or from the second to the first.
LEMMA ShiftedToFirst ==
  ASSUME NEW a \in Seq(Unit), NEW b \in Seq(Unit), NEW c \in Seq(Unit), NEW k \in 0 .. Len(b)
  PROVE  (a \o SubSeq(b, 1, k)) \o Dropped(b, k) \o c = a \o b \o c
<1>. DEFINE taken == SubSeq(b, 1, k)  left == Dropped(b, k)
<1>1. taken \in Seq(Unit) /\ left \in Seq(Unit) /\ taken \o left = b
  BY DroppedProperties, TakenProperties, TakenAndDropped
<1>. HIDE DEF taken, left
<1>2. (a \o taken) \o left = a \o (taken \o left)
  BY <1>1, Associative, Zenon
<1>3. (a \o taken) \o left \o c = a \o b \o c
  BY <1>1, <1>2
<1>. QED
  BY <1>3 DEF taken, left

LEMMA BytesProperties ==
  ASSUME NEW msg \in Msg, NEW k \in Nat
  PROVE  /\ Bytes(msg, k) \in Seq(Unit) /\ Len(Bytes(msg, k)) = k
         /\ \A i \in 1 .. k : Bytes(msg, k)[i] = [msg |-> msg, at |-> i]
<1>1. Bytes(msg, k) \in [1 .. k -> Unit]
  BY DEF Bytes, Unit
<1>. QED
  BY <1>1 DEF Bytes

LEMMA Lengths ==
  /\ HdrLen \in Nat /\ ErrLen \in Nat /\ ReqLen \in Nat /\ BuffSize \in Nat
  /\ MaxRequests \in Nat /\ LenWord \in Nat
  /\ HdrLen >= 1 /\ ErrLen > HdrLen /\ ReqLen >= HdrLen /\ BuffSize > 0 /\ LenWord > 0
  /\ \A l \in AnsLens \cup ListLens \cup OtherLens : l \in Nat /\ l >= ErrLen
<1>1. ReqLen - HdrLen < LenWord
  BY LengthsAssumption
<1>2. \A l \in AnsLens : l \in Nat /\ l >= ErrLen
  BY LengthsAssumption
<1>. QED
  BY <1>1, <1>2, LengthsAssumption

-----------------------------------------------------------------------------
(* Reading.                                                                  *)

LEMMA StoredProperties ==
  ASSUME NEW s \in Stream, NEW d \in Seq(Unit)
  PROVE  /\ Stored(s, d) \in Stream /\ Stored(s, d).fail = s.fail
         /\ ~ s.fail => Stored(s, d).buf = s.buf \o d
         /\ s.fail => Stored(s, d) = s
<1>1. s.buf \in Seq(Unit) /\ s.fail \in BOOLEAN
  BY DEF Stream
<1>2. s.buf \o d \in Seq(Unit)
  BY <1>1
<1>. QED
  BY <1>1, <1>2 DEF Stored, Stream

LEMMA StreamLeft ==
  ASSUME NEW s \in Stream, ~ s.fail, NEW b
  PROVE  [s EXCEPT !.buf = b] = [buf |-> b, fail |-> FALSE]
<1>1. [s EXCEPT !.buf = b] = [buf |-> b, fail |-> s.fail]
  BY DEF Stream
<1>2. s.fail = FALSE
  <2>1. s.fail \in BOOLEAN
    BY DEF Stream
  <2>. QED
    BY <2>1
<1>. QED
  BY <1>1, <1>2, Zenon

\* What becomes of a stream, and where what is read comes from.
LEMMA ReadsCases ==
  ASSUME NEW s \in Stream, NEW r \in Reads(s)
  PROVE  \/ /\ r.stream = [buf |-> <<>>, fail |-> TRUE]
            /\ \/ r.msg \in {Nothing, Garbage}
               \/ ~ s.fail /\ s.buf # <<>> /\ r.msg = Part(s.buf[1].msg)
         \/ \E k \in 1 .. Len(s.buf) :
              /\ ~ s.fail /\ r.stream = [buf |-> Dropped(s.buf, k), fail |-> FALSE]
              /\ \/ r.msg = Garbage
                 \/ k = s.buf[1].msg.len /\ r.msg \in {s.buf[1].msg, Torn(s.buf[1].msg)}
<1>1. s.buf \in Seq(Unit) /\ s.fail \in BOOLEAN /\ Len(s.buf) \in Nat
  BY DEF Stream
<1>2. \A k : ~ s.fail => [s EXCEPT !.buf = Dropped(@, k)]
                           = [buf |-> Dropped(s.buf, k), fail |-> FALSE]
  BY StreamLeft
<1>3. CASE s.fail \/ Len(s.buf) < HdrLen
  <2>1. Reads(s) = {ShortRead(Nothing)}
    BY <1>3, Zenon DEF Reads
  <2>. QED
    BY <2>1 DEF ShortRead, Read
<1>4. CASE ~ (s.fail \/ Len(s.buf) < HdrLen) /\ s.buf[1].at = 1
  <2>. DEFINE m == s.buf[1].msg
  <2>1. 1 \in 1 .. Len(s.buf)
    BY <1>1, <1>4, Lengths
  <2>2. s.buf[1] \in Unit
    BY <1>1, <2>1
  <2>3. m.len \in Nat \ {0}
    BY <2>2 DEF Unit, Msg
  <2>4. r = IF Len(s.buf) < m.len THEN ShortRead(Part(m))
            ELSE Read(IF IsPrefix(Bytes(m, m.len), s.buf) THEN m ELSE Torn(m),
                      [s EXCEPT !.buf = Dropped(@, m.len)])
    BY <1>4 DEF Reads
  <2>5. s.buf # <<>>
    BY <1>1, <2>1
  <2>6. CASE Len(s.buf) < m.len
    BY <1>4, <2>4, <2>5, <2>6 DEF ShortRead, Read
  <2>7. CASE ~ Len(s.buf) < m.len
    <3>1. m.len \in 1 .. Len(s.buf)
      BY <1>1, <2>3, <2>7
    <3>2. r.stream = [buf |-> Dropped(s.buf, m.len), fail |-> FALSE]
      BY <1>2, <1>4, <2>4, <2>7 DEF Read
    <3>3. r.msg \in {m, Torn(m)}
      BY <2>4, <2>7 DEF Read
    <3>. QED
      BY <1>4, <3>1, <3>2, <3>3
  <2>. QED
    BY <2>6, <2>7
<1>5. CASE ~ (s.fail \/ Len(s.buf) < HdrLen) /\ s.buf[1].at # 1
  <2>1. r \in {ShortRead(Garbage)} \cup
              {Read(Garbage, [s EXCEPT !.buf = Dropped(@, k)]) : k \in HdrLen .. Len(s.buf)}
    BY <1>5 DEF Reads
  <2>2. CASE r = ShortRead(Garbage)
    BY <2>2 DEF ShortRead, Read
  <2>3. ASSUME NEW k \in HdrLen .. Len(s.buf),
               r = Read(Garbage, [s EXCEPT !.buf = Dropped(@, k)])
        PROVE  /\ k \in 1 .. Len(s.buf) /\ ~ s.fail /\ r.msg = Garbage
               /\ r.stream = [buf |-> Dropped(s.buf, k), fail |-> FALSE]
    <3>1. k \in 1 .. Len(s.buf)
      BY <1>1, Lengths
    <3>. QED
      BY <1>2, <1>5, <2>3, <3>1 DEF Read
  <2>. QED
    BY <2>1, <2>2, <2>3
<1>. QED
  BY <1>3, <1>4, <1>5

\* A reader at the first byte of a message that is not torn.
LEMMA ReadsFrame ==
  ASSUME NEW s \in Stream, NEW r \in Reads(s), ~ s.fail, s.buf # <<>>,
         NEW m \in Msg, s.buf[1] = [msg |-> m, at |-> 1],
         \A i \in 1 .. Len(s.buf) : i <= m.len => s.buf[i] = [msg |-> m, at |-> i]
  PROVE  \/ r.stream = [buf |-> <<>>, fail |-> TRUE] /\ r.msg \in {Nothing, Part(m)}
         \/ /\ m.len \in 1 .. Len(s.buf) /\ r.msg = m
            /\ r.stream = [buf |-> Dropped(s.buf, m.len), fail |-> FALSE]
<1>1. s.buf \in Seq(Unit) /\ s.fail \in BOOLEAN /\ Len(s.buf) \in Nat
  BY DEF Stream
<1>2. CASE Len(s.buf) < HdrLen
  BY <1>2 DEF Reads, ShortRead, Read
<1>3. CASE ~ Len(s.buf) < HdrLen
  <2>1. r = IF Len(s.buf) < m.len THEN ShortRead(Part(m))
            ELSE Read(IF IsPrefix(Bytes(m, m.len), s.buf) THEN m ELSE Torn(m),
                      [s EXCEPT !.buf = Dropped(@, m.len)])
    BY <1>3 DEF Reads
  <2>2. CASE Len(s.buf) < m.len
    BY <2>1, <2>2 DEF ShortRead, Read
  <2>3. CASE ~ Len(s.buf) < m.len
    <3>1. m.len \in 1 .. Len(s.buf) /\ m.len \in Nat
      BY <1>1, <2>3 DEF Msg
    <3>2. /\ Bytes(m, m.len) \in Seq(Unit) /\ Len(Bytes(m, m.len)) = m.len
          /\ \A i \in 1 .. m.len : Bytes(m, m.len)[i] = [msg |-> m, at |-> i]
      BY <3>1, BytesProperties
    <3>3. /\ SubSeq(s.buf, 1, m.len) \in Seq(Unit) /\ Len(SubSeq(s.buf, 1, m.len)) = m.len
          /\ \A i \in 1 .. m.len : SubSeq(s.buf, 1, m.len)[i] = s.buf[i]
      BY <1>1, <3>1, TakenProperties
    <3>4. ASSUME NEW i \in 1 .. m.len PROVE Bytes(m, m.len)[i] = SubSeq(s.buf, 1, m.len)[i]
      <4>1. s.buf[i] = [msg |-> m, at |-> i]
        BY <1>1, <3>1
      <4>. QED
        BY <3>2, <3>3, <4>1, Zenon
    <3>5. Bytes(m, m.len) = SubSeq(s.buf, 1, m.len)
      BY <3>2, <3>3, <3>4, SeqEqual
    <3>6. SubSeq(Bytes(m, m.len), 1, Len(Bytes(m, m.len))) = Bytes(m, m.len)
      BY <3>2, SubSeqFull
    <3>7. IsPrefix(Bytes(m, m.len), s.buf)
      BY <1>1, <3>1, <3>2, <3>5, <3>6 DEF IsPrefix
    <3>8. [s EXCEPT !.buf = Dropped(@, m.len)]
            = [buf |-> Dropped(s.buf, m.len), fail |-> FALSE]
      BY StreamLeft
    <3>. QED
      BY <2>1, <2>3, <3>1, <3>7, <3>8 DEF Read
  <2>. QED
    BY <2>2, <2>3
<1>. QED
  BY <1>2, <1>3

-----------------------------------------------------------------------------
(* What the server sends.                                                    *)

Buff == [at : {"NULL", "_response", "_dyn_buff"}, len : Nat]

\* What _buff points at says that it has a result.
BuffOK == buff.at # "NULL" => buff.len >= ErrLen

\* k bytes of m, which is made for request n, or stale.
Response(kind, n) ==
  /\ buff' \in Buff /\ BuffOK'
  /\ mishaps \subseteq mishaps' /\ mishaps' \subseteq mishaps \cup {"mute", "wrap"}
  /\ \E m \in Msg, k \in Nat :
       /\ (m.kind = kind /\ m.n = n) \/ m.kind = "stale"
       /\ "wrap" \notin mishaps' => k <= m.len
       /\ s2c' = s2c \o Bytes(m, k)

LEMMA SendsWhat ==
  ASSUME NEW msg \in Msg, NEW size \in Nat, size >= HdrLen, sk' # "closed", Sends(msg, size)
  PROVE  /\ mishaps \subseteq mishaps' /\ mishaps' \subseteq mishaps \cup {"wrap"}
         /\ size <= msg.len => mishaps' = mishaps
         /\ \E k \in Nat : /\ "wrap" \notin mishaps' => k <= msg.len
                           /\ s2c' = s2c \o Bytes(msg, k)
<1>1. PICK k \in Written(size) :
        /\ s2c' = s2c \o Bytes(msg, k)
        /\ mishaps' = IF size > msg.len THEN mishaps \cup {"wrap"} ELSE mishaps
  BY DEF Sends
<1>2. k \in Nat /\ k <= size
  BY Lengths DEF Written
<1>3. msg.len \in Nat
  BY DEF Msg
<1>4. mishaps \subseteq mishaps' /\ mishaps' \subseteq mishaps \cup {"wrap"}
  BY <1>1
<1>5. size <= msg.len => mishaps' = mishaps
  BY <1>1, <1>3
<1>6. "wrap" \notin mishaps' => k <= msg.len
  BY <1>1, <1>2, <1>3
<1>. QED
  BY <1>1, <1>2, <1>4, <1>5, <1>6

LEMMA BytesOfNone == ASSUME s2c \in Seq(Unit), NEW msg PROVE s2c = s2c \o Bytes(msg, 0)
<1>1. Bytes(msg, 0) = <<>>
  BY DEF Bytes
<1>. QED
  BY <1>1

LEMMA StaleWhat ==
  ASSUME s2c \in Seq(Unit), buff \in Buff, BuffOK, sk' # "closed",
         NEW size \in {HdrLen, ErrLen}, SendStale(size)
  PROVE  /\ mishaps \subseteq mishaps' /\ mishaps' \subseteq mishaps \cup {"mute"}
         /\ \E m \in Msg, k \in Nat : /\ m.kind = "stale"
                                      /\ "wrap" \notin mishaps' => k <= m.len
                                      /\ s2c' = s2c \o Bytes(m, k)
<1>1. CASE buff.at = "NULL"
  <2>. DEFINE m == [n |-> 0, len |-> 1, kind |-> "stale"]
  <2>1. m \in Msg /\ m.kind = "stale" /\ 0 \in Nat /\ 0 <= m.len
    BY Lengths DEF Msg, Kind
  <2>2. s2c' = s2c /\ mishaps' = mishaps \cup {"mute"}
    BY <1>1 DEF SendStale
  <2>3. s2c' = s2c \o Bytes(m, 0)
    BY <2>2, BytesOfNone
  <2>. QED
    BY <2>1, <2>2, <2>3
<1>2. CASE buff.at # "NULL"
  <2>. DEFINE m == [n |-> 0, len |-> buff.len, kind |-> "stale"]
  <2>1. buff.len \in Nat /\ buff.len >= ErrLen
    BY <1>2 DEF Buff, BuffOK
  <2>2. m \in Msg /\ m.kind = "stale" /\ m.len = buff.len
    BY <2>1, Lengths DEF Msg, Kind
  <2>3. Sends(m, size)
    BY <1>2 DEF SendStale
  <2>4. size \in Nat /\ size >= HdrLen /\ size <= m.len
    BY <2>1, <2>2, Lengths
  <2>. HIDE DEF m
  <2>. QED
    BY <2>2, <2>3, <2>4, SendsWhat
<1>. QED
  BY <1>1, <1>2

LEMMA ClaimedIsResult ==
  ASSUME NEW l \in AnsLens \cup ListLens
  PROVE  Claimed(l) \in Nat /\ Claimed(l) >= ErrLen
<1>1. l - HdrLen \in Int
  BY Lengths
<1>2. (l - HdrLen) % LenWord \in Nat
  BY <1>1, Lengths
<1>. QED
  BY <1>2, Lengths DEF Claimed

LEMMA FromResponds ==
  ASSUME s2c \in Seq(Unit), sk' # "closed", NEW n \in 0 .. MaxRequests,
         NEW place \in {"_response", "_dyn_buff"}, NEW lens \in {AnsLens, ListLens},
         AnswersFrom(place, lens, n)
  PROVE  Response("answer", n)
<1>1. PICK l \in lens : /\ buff' = [at |-> place, len |-> Claimed(l)]
                        /\ Sends([n |-> n, len |-> Claimed(l), kind |-> "answer"], l)
  BY DEF AnswersFrom
<1>. DEFINE m == [n |-> n, len |-> Claimed(l), kind |-> "answer"]
<1>2. Claimed(l) \in Nat /\ Claimed(l) >= ErrLen
  BY ClaimedIsResult
<1>3. m \in Msg /\ m.kind = "answer" /\ m.n = n
  BY <1>2, Lengths DEF Msg, Kind
<1>4. l \in Nat /\ l >= HdrLen
  BY Lengths
<1>5. Sends(m, l)
  BY <1>1
<1>6. buff' \in Buff /\ BuffOK'
  BY <1>1, <1>2 DEF Buff, BuffOK
<1>. HIDE DEF m
<1>. QED
  BY <1>3, <1>4, <1>5, <1>6, SendsWhat DEF Response

LEMMA UnpointedResponds ==
  ASSUME s2c \in Seq(Unit), buff \in Buff, BuffOK, sk' # "closed",
         NEW n \in 0 .. MaxRequests, NEW kind \in {"answer", "error"},
         AnswersUnpointed(n, kind)
  PROVE  Response(kind, n) /\ ("wrap" \in mishaps' => "wrap" \in mishaps)
<1>1. CASE buff.at = "_response"
  <2>. DEFINE m == [n |-> n, len |-> ErrLen, kind |-> kind]
  <2>1. m \in Msg /\ m.kind = kind /\ m.n = n /\ m.len = ErrLen
    BY Lengths DEF Msg, Kind
  <2>2. buff' = [buff EXCEPT !.len = ErrLen] /\ Sends(m, ErrLen)
    BY <1>1 DEF AnswersUnpointed
  <2>3. buff' \in Buff /\ BuffOK'
    BY <2>2, Lengths DEF Buff, BuffOK
  <2>. HIDE DEF m
  <2>4. /\ mishaps' = mishaps
        /\ \E k \in Nat : /\ "wrap" \notin mishaps' => k <= m.len
                          /\ s2c' = s2c \o Bytes(m, k)
    <3>1. ErrLen \in Nat /\ ErrLen >= HdrLen /\ ErrLen <= m.len
      BY <2>1, Lengths
    <3>. QED
      BY <2>1, <2>2, <3>1, SendsWhat
  <2>5. Response(kind, n)
    BY <2>1, <2>3, <2>4 DEF Response
  <2>. QED
    BY <2>4, <2>5
<1>2. CASE buff.at # "_response"
  <2>1. buff' = buff /\ SendStale(ErrLen)
    BY <1>2 DEF AnswersUnpointed
  <2>2. buff' \in Buff /\ BuffOK'
    BY <2>1 DEF BuffOK
  <2>. QED
    BY <2>1, <2>2, StaleWhat DEF Response
<1>. QED
  BY <1>1, <1>2

LEMMA RequestResponds ==
  ASSUME s2c \in Seq(Unit), buff \in Buff, BuffOK, sk' # "closed",
         NEW n \in 0 .. MaxRequests, AnswersRequest(n)
  PROVE  Response("answer", n)
<1>1. CASE AnswersHeader
  <2>1. buff' = buff /\ SendStale(HdrLen)
    BY <1>1 DEF AnswersHeader
  <2>2. buff' \in Buff /\ BuffOK'
    BY <2>1 DEF BuffOK
  <2>. QED
    BY <2>1, <2>2, StaleWhat DEF Response
<1>2. CASE AnswersUnpointed(n, "answer")
  BY <1>2, UnpointedResponds
<1>3. CASE AnswersFrom("_response", AnsLens, n) \/ AnswersFrom("_dyn_buff", ListLens, n)
  BY <1>3, FromResponds
<1>. QED
  BY <1>1, <1>2, <1>3 DEF AnswersRequest

-----------------------------------------------------------------------------
(* The requests on their way, in the three places of the stream to the server. *)

\* u holds the requests h + 1 .. a, whole, in order, and nothing else.
Queued(u, h, a) ==
  /\ Len(u) = (a - h) * ReqLen
  /\ \A j \in 1 .. Len(u) : \E n \in h + 1 .. a, k \in 1 .. ReqLen :
       u[j] = [msg |-> Request(n), at |-> k] /\ j = (n - h - 1) * ReqLen + k

LEMMA Product ==
  ASSUME NEW m \in Nat, NEW r \in Nat
  PROVE  /\ m * r \in Nat /\ 0 * r = 0 /\ (m + 1) * r = m * r + r
         /\ m >= 1 => m * r >= r
OBVIOUS

LEMMA RequestIsMsg ==
  ASSUME NEW n \in 0 .. MaxRequests
  PROVE  /\ Request(n) \in Msg /\ Request(n).n = n /\ Request(n).len = ReqLen
         /\ Request(n).kind = "request"
BY Lengths DEF Request, Msg, Kind

\* Where something is queued, the next request comes first, and all of it.
LEMMA QueuedFirst ==
  ASSUME NEW u \in Seq(Unit), NEW h \in Nat, NEW a \in Nat, h <= a, Queued(u, h, a),
         u # <<>>
  PROVE  /\ h < a /\ ReqLen <= Len(u)
         /\ \A i \in 1 .. ReqLen : u[i] = [msg |-> Request(h + 1), at |-> i]
<1>1. Len(u) \in Nat /\ Len(u) > 0 /\ Len(u) = (a - h) * ReqLen /\ ReqLen \in Nat
  BY Lengths DEF Queued
<1>2. h < a
  BY <1>1, Product
<1>3. ReqLen <= Len(u)
  <2>1. a - h \in Nat /\ a - h >= 1
    BY <1>2
  <2>. QED
    BY <1>1, <2>1, Product
<1>4. ASSUME NEW i \in 1 .. ReqLen
      PROVE  u[i] = [msg |-> Request(h + 1), at |-> i]
  <2>1. i \in 1 .. Len(u)
    BY <1>1, <1>3
  <2>2. PICK n \in h + 1 .. a, k \in 1 .. ReqLen :
          u[i] = [msg |-> Request(n), at |-> k] /\ i = (n - h - 1) * ReqLen + k
    BY <2>1 DEF Queued
  <2>3. n - h - 1 \in Nat
    OBVIOUS
  <2>4. n - h - 1 = 0
    <3>1. n - h - 1 >= 1 => (n - h - 1) * ReqLen >= ReqLen
      BY <1>1, <2>3, Product
    <3>2. (n - h - 1) * ReqLen \in Nat
      BY <1>1, <2>3, Product
    <3>. QED
      BY <1>1, <2>2, <2>3, <3>1, <3>2
  <2>5. n = h + 1 /\ i = k
    BY <1>1, <2>2, <2>4, Product
  <2>. QED
    BY <2>2, <2>5
<1>. QED
  BY <1>2, <1>3, <1>4

LEMMA QueuedDropped ==
  ASSUME NEW u \in Seq(Unit), NEW h \in Nat, NEW a \in Nat, h <= a, Queued(u, h, a),
         u # <<>>
  PROVE  Queued(Dropped(u, ReqLen), h + 1, a)
<1>. DEFINE v == Dropped(u, ReqLen)
<1>1. h < a /\ ReqLen <= Len(u) /\ ReqLen \in Nat /\ Len(u) \in Nat
  BY QueuedFirst, Lengths
<1>2. Len(v) = Len(u) - ReqLen /\ \A i \in 1 .. Len(u) - ReqLen : v[i] = u[i + ReqLen]
  BY <1>1, DroppedProperties
<1>. HIDE DEF v
<1>3. Len(v) = (a - (h + 1)) * ReqLen
  <2>1. a - h - 1 \in Nat
    BY <1>1
  <2>2. (a - h - 1 + 1) * ReqLen = (a - h - 1) * ReqLen + ReqLen
        /\ (a - h - 1) * ReqLen \in Nat
    BY <1>1, <2>1, Product
  <2>3. Len(u) = (a - h) * ReqLen
    BY DEF Queued
  <2>4. a - h - 1 + 1 = a - h /\ a - (h + 1) = a - h - 1
    OBVIOUS
  <2>. QED
    BY <1>1, <1>2, <2>2, <2>3, <2>4
<1>4. ASSUME NEW j \in 1 .. Len(v)
      PROVE  \E n \in (h + 1) + 1 .. a, k \in 1 .. ReqLen :
               v[j] = [msg |-> Request(n), at |-> k] /\ j = (n - (h + 1) - 1) * ReqLen + k
  <2>1. j + ReqLen \in 1 .. Len(u) /\ v[j] = u[j + ReqLen]
    BY <1>1, <1>2
  <2>2. PICK n \in h + 1 .. a, k \in 1 .. ReqLen :
          /\ u[j + ReqLen] = [msg |-> Request(n), at |-> k]
          /\ j + ReqLen = (n - h - 1) * ReqLen + k
    BY <2>1 DEF Queued
  <2>3. n # h + 1
    <3>1. n = h + 1 => (n - h - 1) * ReqLen = 0
      BY <1>1, Product
    <3>2. j >= 1 /\ j \in Int /\ k \in Int /\ k <= ReqLen
      BY <1>1, <1>2
    <3>3. (n - h - 1) * ReqLen # 0
      BY <1>1, <2>2, <3>2
    <3>. QED
      BY <3>1, <3>3
  <2>4. n - h - 2 \in Nat /\ n \in (h + 1) + 1 .. a
    BY <2>3
  <2>5. (n - h - 2 + 1) * ReqLen = (n - h - 2) * ReqLen + ReqLen
        /\ (n - h - 2) * ReqLen \in Nat
    BY <1>1, <2>4, Product
  <2>6. n - h - 2 + 1 = n - h - 1 /\ n - (h + 1) - 1 = n - h - 2
    BY <2>4
  <2>7. j = (n - (h + 1) - 1) * ReqLen + k
    BY <1>1, <1>2, <2>2, <2>5, <2>6
  <2>. QED
    BY <2>1, <2>2, <2>4, <2>7
<1>5. Queued(v, h + 1, a)
  BY <1>3, <1>4 DEF Queued
<1>. QED
  BY <1>5 DEF v

LEMMA QueuedAppended ==
  ASSUME NEW u \in Seq(Unit), NEW h \in Nat, NEW a \in Nat, h <= a, Queued(u, h, a),
         a + 1 \in 0 .. MaxRequests
  PROVE  Queued(u \o Bytes(Request(a + 1), ReqLen), h, a + 1)
<1>. DEFINE b == Bytes(Request(a + 1), ReqLen)  v == u \o b
<1>1. ReqLen \in Nat /\ Len(u) \in Nat /\ Len(u) = (a - h) * ReqLen /\ a - h \in Nat
  BY Lengths DEF Queued
<1>2. /\ b \in Seq(Unit) /\ Len(b) = ReqLen
      /\ \A i \in 1 .. ReqLen : b[i] = [msg |-> Request(a + 1), at |-> i]
  BY <1>1, RequestIsMsg, BytesProperties
<1>. HIDE DEF b
<1>3. /\ Len(v) = Len(u) + ReqLen
      /\ \A j \in 1 .. Len(v) : v[j] = IF j <= Len(u) THEN u[j] ELSE b[j - Len(u)]
  BY <1>1, <1>2, ConcatProperties
<1>. HIDE DEF v
<1>4. (a - h + 1) * ReqLen = (a - h) * ReqLen + ReqLen /\ a + 1 - h = a - h + 1
  BY <1>1, Product
<1>5. Len(v) = (a + 1 - h) * ReqLen
  BY <1>1, <1>3, <1>4
<1>6. ASSUME NEW j \in 1 .. Len(v)
      PROVE  \E n \in h + 1 .. a + 1, k \in 1 .. ReqLen :
               v[j] = [msg |-> Request(n), at |-> k] /\ j = (n - h - 1) * ReqLen + k
  <2>1. CASE j <= Len(u)
    <3>1. PICK n \in h + 1 .. a, k \in 1 .. ReqLen :
            u[j] = [msg |-> Request(n), at |-> k] /\ j = (n - h - 1) * ReqLen + k
      <4>1. j \in 1 .. Len(u)
        BY <1>1, <1>3, <2>1
      <4>. QED
        BY <4>1 DEF Queued
    <3>2. v[j] = u[j] /\ n \in h + 1 .. a + 1
      BY <1>3, <2>1
    <3>. QED
      BY <3>1, <3>2
  <2>2. CASE ~ j <= Len(u)
    <3>1. j - Len(u) \in 1 .. ReqLen
      BY <1>1, <1>3, <2>2
    <3>2. v[j] = [msg |-> Request(a + 1), at |-> j - Len(u)]
      BY <1>2, <1>3, <2>2, <3>1
    <3>3. a + 1 - h - 1 = a - h /\ a + 1 \in h + 1 .. a + 1
      OBVIOUS
    <3>4. j = (a + 1 - h - 1) * ReqLen + (j - Len(u))
      BY <1>1, <3>1, <3>3
    <3>. QED
      BY <3>1, <3>2, <3>3, <3>4
  <2>. QED
    BY <2>1, <2>2
<1>7. Queued(v, h, a + 1)
  BY <1>5, <1>6 DEF Queued
<1>. QED
  BY <1>7 DEF v, b

-----------------------------------------------------------------------------
(* The invariant.                                                             *)

\* The bytes on their way to the server, or to the client, and not read yet.
Up == inS.buf \o rqS \o c2s
Down == inC.buf \o rqC \o s2c

\* The server will read more; the client can tell messages apart.
Reading == sk # "closed" /\ ~ inS.fail
InStep == client # "gone" /\ ~ inC.fail /\ "wrap" \notin mishaps

\* What is on its way to the client is from the server, and what is an answer there
\* was made for a request handled.
FromServer(h) ==
  {u \in Unit : u.msg.kind # "request" /\ (u.msg.kind = "answer" => u.msg.n \in 1 .. h)}
Sent(s, h) == s \in Seq(FromServer(h))
SentOK == Sent(inC.buf, handled) /\ Sent(rqC, handled) /\ Sent(s2c, handled)

\* s is of one message, from its start, and if that is an answer it is to request n.
NoAnswer == {u \in Unit : u.msg.kind # "answer"}
Silent(s) == s \in Seq(NoAnswer)
Single(s, n) ==
  s # <<>> =>
    \E m \in Msg : /\ Len(s) <= m.len /\ (m.kind = "answer" => m.n = n)
                   /\ \A i \in 1 .. Len(s) : s[i] = [msg |-> m, at |-> i]

\* A client in step is sent one message at a time, while the server reads; and when
\* that has gone deaf, no answer after the one to the last request.
ClientServed ==
  InStep =>
    /\ \/ Silent(Down)
       \/ Single(Down, asked) /\ handled = asked /\ client # "menu"
    /\ Reading =>
         /\ Single(Down, asked) /\ handled >= asked - 1
         /\ client = "menu" => handled = asked
         /\ client = "menu" \/ handled < asked => Down = <<>>

\* A server that has gone deaf, or spins, has missed a request.
Behind == handled <= asked /\ (inS.fail \/ sk = "spin" => handled < asked)

\* As long as it reads, it has everything it has not handled before it.
UpOK == Reading => Queued(Up, handled, asked)

\* The client forgets what it read when it asks.
GotOK == client \in {"waiting", "again"} => got = Nothing

ConnInv ==
  TypeOK /\ SentOK /\ ClientServed /\ Behind /\ BuffOK /\ UpOK /\ GotOK /\ ReadsOwnAnswer

LEMMA TypeOKParts ==
  ASSUME TypeOK
  PROVE  /\ asked \in Nat /\ handled \in Nat /\ asked <= MaxRequests
         /\ c2s \in Seq(Unit) /\ s2c \in Seq(Unit) /\ rqS \in Seq(Unit) /\ rqC \in Seq(Unit)
         /\ inS.buf \in Seq(Unit) /\ inS.fail \in BOOLEAN
         /\ inC.buf \in Seq(Unit) /\ inC.fail \in BOOLEAN
         /\ edge \in BOOLEAN /\ fin \in BOOLEAN /\ rst \in BOOLEAN /\ buff \in Buff
BY Lengths DEF TypeOK, Stream, Buff

LEMMA EmptyStreamType == EmptyStream \in Stream /\ EmptyStream.buf = <<>> /\ ~ EmptyStream.fail
BY DEF EmptyStream, Stream

-----------------------------------------------------------------------------
(* The steps of the server.                                                   *)

ServerFrame == UNCHANGED <<client, asked, got, c2s, rqC, inC, fin, rst>>

\* It has read.
Serves ==
  /\ sk \in {"open", "spin"} /\ sk' = "open" /\ rqS' = <<>> /\ edge' \in BOOLEAN
  /\ ServerFrame

\* The next request, or something else.
Handles ==
  /\ Serves /\ Reading /\ handled < asked
  /\ inS.buf \o rqS # <<>> /\ ReqLen <= Len(inS.buf \o rqS)
  /\ handled' = handled + 1
  /\ inS' = [buf |-> Dropped(inS.buf \o rqS, ReqLen), fail |-> FALSE]
  /\ Response("answer", handled + 1)

Refuses ==
  /\ Serves /\ handled < asked
  /\ handled' = handled /\ inS' = [buf |-> <<>>, fail |-> TRUE]
  /\ Response("error", 0) /\ ("wrap" \in mishaps' => "wrap" \in mishaps)

\* It has taken what the kernel had, and reads on, or spins.
Takes ==
  /\ sk \in {"open", "spin"} /\ sk' \in {"open", "spin"} /\ (sk' = "spin" => handled < asked)
  /\ rqS' = <<>> /\ inS' = Stored(inS, rqS) /\ edge' \in BOOLEAN
  /\ mishaps \subseteq mishaps' /\ mishaps' \subseteq mishaps \cup {"spin"}
  /\ UNCHANGED <<handled, buff, s2c>> /\ ServerFrame

Closes ==
  /\ sk # "closed" /\ sk' = "closed" /\ inS' = EmptyStream /\ rqS' = <<>> /\ edge' = FALSE
  /\ buff' \in {buff, NoBuff}
  /\ UNCHANGED <<handled, s2c, mishaps>> /\ ServerFrame

\* While the server reads, bytes before it mean a request to come.
LEMMA SomethingMissed ==
  ASSUME TypeOK, UpOK, Behind, sk # "closed", rqS # <<>>
  PROVE  handled < asked
<1>1. CASE inS.fail
  BY <1>1 DEF Behind
<1>2. CASE ~ inS.fail
  <2>1. Queued(Up, handled, asked)
    BY <1>2 DEF UpOK, Reading
  <2>2. Up \in Seq(Unit) /\ Up # <<>>
    BY TypeOKParts DEF Up
  <2>. QED
    BY <2>1, <2>2, TypeOKParts, QueuedFirst DEF Behind
<1>. QED
  BY <1>1, <1>2

LEMMA ServerReads ==
  ASSUME TypeOK, UpOK, Behind, sk # "closed", NEW r \in Reads(Stored(inS, rqS))
  PROVE  \/ /\ r.msg = Request(handled + 1) /\ ~ inS.fail /\ handled < asked
            /\ inS.buf \o rqS # <<>> /\ ReqLen <= Len(inS.buf \o rqS)
            /\ r.stream = [buf |-> Dropped(inS.buf \o rqS, ReqLen), fail |-> FALSE]
         \/ r.msg.kind # "request" /\ r.stream = [buf |-> <<>>, fail |-> TRUE]
<1>. DEFINE s == Stored(inS, rqS)  b == inS.buf \o rqS
<1>1. /\ s \in Stream /\ s.fail = inS.fail /\ (~ inS.fail => s.buf = b)
      /\ inS.buf \in Seq(Unit) /\ rqS \in Seq(Unit) /\ c2s \in Seq(Unit)
      /\ asked \in Nat /\ handled \in Nat /\ handled <= asked /\ asked <= MaxRequests
  BY TypeOKParts, StoredProperties DEF Behind, TypeOK
<1>2. b \in Seq(Unit) /\ Len(b) \in Nat
  BY <1>1
<1>3. Nothing.kind # "request" /\ \A m : Part(m).kind # "request"
  BY DEF Nothing, Part
<1>. HIDE DEF s
<1>4. CASE s.fail \/ s.buf = <<>>
  <2>1. Reads(s) = {ShortRead(Nothing)}
    BY <1>4, Lengths DEF Reads
  <2>. QED
    BY <1>3, <2>1 DEF ShortRead, Read, s
<1>5. CASE ~ s.fail /\ s.buf # <<>>
  <2>. DEFINE m == Request(handled + 1)
  <2>1. s.buf = b /\ b # <<>> /\ ~ inS.fail
    BY <1>1, <1>5
  <2>2. Queued(Up, handled, asked)
    BY <2>1 DEF UpOK, Reading
  <2>3. /\ Up = b \o c2s /\ Up \in Seq(Unit) /\ Up # <<>> /\ Len(b) <= Len(Up)
        /\ \A i \in 1 .. Len(b) : Up[i] = b[i]
    BY <1>1, <1>2, <2>1 DEF Up
  <2>4. /\ handled < asked
        /\ \A i \in 1 .. ReqLen : Up[i] = [msg |-> m, at |-> i]
    BY <1>1, <2>2, <2>3, QueuedFirst
  <2>5. m \in Msg /\ m.len = ReqLen
    <3>1. handled + 1 \in 0 .. MaxRequests
      BY <1>1, <2>4, Lengths
    <3>. QED
      BY <3>1, RequestIsMsg
  <2>. HIDE DEF m, b
  <2>6. \A i \in 1 .. Len(b) : i <= m.len => b[i] = [msg |-> m, at |-> i]
    BY <1>2, <2>3, <2>4, <2>5, Lengths
  <2>7. b[1] = [msg |-> m, at |-> 1]
    BY <1>2, <2>1, <2>5, <2>6, Lengths
  <2>8. \/ r.stream = [buf |-> <<>>, fail |-> TRUE] /\ r.msg \in {Nothing, Part(m)}
        \/ /\ m.len \in 1 .. Len(s.buf) /\ r.msg = m
           /\ r.stream = [buf |-> Dropped(s.buf, m.len), fail |-> FALSE]
    <3>1. r \in Reads(s)
      BY DEF s
    <3>. QED
      BY <1>1, <1>5, <2>1, <2>5, <2>6, <2>7, <3>1, ReadsFrame
  <2>9. CASE r.stream = [buf |-> <<>>, fail |-> TRUE] /\ r.msg \in {Nothing, Part(m)}
    BY <1>3, <2>9
  <2>10. CASE /\ m.len \in 1 .. Len(s.buf) /\ r.msg = m
              /\ r.stream = [buf |-> Dropped(s.buf, m.len), fail |-> FALSE]
    <3>1. ReqLen <= Len(b) /\ r.stream = [buf |-> Dropped(b, ReqLen), fail |-> FALSE]
      BY <1>2, <2>1, <2>5, <2>10
    <3>. QED
      BY <2>1, <2>4, <2>10, <3>1 DEF m, b
  <2>. QED
    BY <2>8, <2>9, <2>10
<1>. QED
  BY <1>4, <1>5

LEMMA Processes ==
  ASSUME TypeOK, UpOK, Behind, BuffOK, sk \in {"open", "spin"}, rqS # <<>> \/ sk = "spin",
         sk' = "open", rqS' = <<>>, edge' \in BOOLEAN, ServerFrame,
         Process(Stored(inS, rqS))
  PROVE  Handles \/ Refuses
<1>1. PICK r \in Reads(Stored(inS, rqS)) :
        /\ inS' = r.stream
        /\ IF r.msg.kind = "request"
           THEN handled' = r.msg.n /\ AnswersRequest(r.msg.n)
           ELSE UNCHANGED handled /\ AnswersUnpointed(0, "error")
  BY DEF Process
<1>2. s2c \in Seq(Unit) /\ buff \in Buff /\ sk' # "closed" /\ sk # "closed" /\ Serves
  BY TypeOKParts DEF Serves
<1>3. handled < asked
  BY <1>2, SomethingMissed DEF Behind
<1>4. CASE r.msg.kind # "request" /\ r.stream = [buf |-> <<>>, fail |-> TRUE]
  <2>1. 0 \in 0 .. MaxRequests
    BY Lengths
  <2>2. Response("error", 0) /\ ("wrap" \in mishaps' => "wrap" \in mishaps)
    BY <1>1, <1>2, <1>4, <2>1, UnpointedResponds
  <2>. QED
    BY <1>1, <1>2, <1>3, <1>4, <2>2 DEF Refuses
<1>5. CASE /\ r.msg = Request(handled + 1) /\ ~ inS.fail
           /\ inS.buf \o rqS # <<>> /\ ReqLen <= Len(inS.buf \o rqS)
           /\ r.stream = [buf |-> Dropped(inS.buf \o rqS, ReqLen), fail |-> FALSE]
  <2>1. handled + 1 \in 0 .. MaxRequests
    BY <1>3, Lengths, TypeOKParts
  <2>2. r.msg.n = handled + 1 /\ r.msg.kind = "request"
    BY <1>5, <2>1, RequestIsMsg
  <2>3. Response("answer", handled + 1)
    BY <1>1, <1>2, <2>1, <2>2, RequestResponds
  <2>. QED
    BY <1>1, <1>2, <1>3, <1>5, <2>2, <2>3 DEF Handles, Reading
<1>. QED
  BY <1>2, <1>4, <1>5, ServerReads

\* Every step of the server is one of these.
LEMMA ReadEventSteps ==
  ASSUME TypeOK, UpOK, Behind, BuffOK, ReadEvent
  PROVE  Handles \/ Refuses \/ Takes \/ Closes
<1>1. sk = "open" /\ ServerFrame
  BY DEF ReadEvent, ServerFrame
<1>2. CASE rqS = <<>> /\ fin /\ Close /\ UNCHANGED <<buff, mishaps>>
  BY <1>1, <1>2 DEF Close, Closes
<1>3. CASE /\ rqS # <<>> /\ rqS' = <<>> /\ edge' = FALSE
           /\ sk' = sk /\ Process(Stored(inS, rqS))
  BY <1>1, <1>3, Processes
<1>4. CASE /\ rqS # <<>> /\ rqS' = <<>> /\ edge' = FALSE
           /\ sk' = "spin" /\ mishaps' = mishaps \cup {"spin"}
           /\ inS' = Stored(inS, rqS)
           /\ UNCHANGED <<handled, buff, s2c>>
  <2>1. handled < asked
    BY <1>1, <1>4, SomethingMissed
  <2>. QED
    BY <1>1, <1>4, <2>1 DEF Takes
<1>. QED
  BY <1>2, <1>3, <1>4 DEF ReadEvent

LEMMA SpinEndsSteps ==
  ASSUME TypeOK, UpOK, Behind, BuffOK, SpinEnds
  PROVE  Handles \/ Refuses \/ Takes \/ Closes
<1>1. sk = "spin" /\ ServerFrame /\ edge \in BOOLEAN
  BY TypeOKParts DEF SpinEnds, ServerFrame
<1>2. CASE Close /\ UNCHANGED <<buff, mishaps>>
  BY <1>1, <1>2 DEF Close, Closes
<1>3. CASE sk' = "open" /\ rqS' = <<>> /\ UNCHANGED edge /\ Process(Stored(inS, rqS))
  BY <1>1, <1>3, Processes
<1>4. CASE /\ sk' = "open" /\ rqS' = <<>> /\ UNCHANGED edge
           /\ inS' = Stored(inS, rqS) /\ UNCHANGED <<handled, buff, s2c, mishaps>>
  BY <1>1, <1>4 DEF Takes
<1>. QED
  BY <1>2, <1>3, <1>4 DEF SpinEnds

LEMMA HangUpSteps == ASSUME HangUp PROVE Closes
BY DEF HangUp, Close, Closes, ServerFrame

LEMMA DieSteps == ASSUME Die PROVE Closes
BY DEF Die, Close, Closes, ServerFrame

-----------------------------------------------------------------------------
(* What the client reads.                                                     *)

LEMMA PartsOf ==
  ASSUME NEW S, NEW T, NEW x \in Seq(T), NEW y \in Seq(T), x \o y \in Seq(S)
  PROVE  x \in Seq(S) /\ y \in Seq(S)
<1>. DEFINE z == x \o y
<1>1. Len(z) = Len(x) + Len(y) /\ Len(x) \in Nat /\ Len(y) \in Nat
  BY ConcatProperties
<1>2. ASSUME NEW i \in 1 .. Len(x) PROVE x[i] \in S
  BY <1>1
<1>3. ASSUME NEW i \in 1 .. Len(y) PROVE y[i] \in S
  <2>1. Len(x) + i \in 1 .. Len(z) /\ z[Len(x) + i] = y[i]
    BY <1>1
  <2>. QED
    BY <2>1
<1>. QED
  BY <1>2, <1>3, IsASeq

\* Dropping from the front of two parts.
LEMMA DroppedOfTwo ==
  ASSUME NEW S, NEW x \in Seq(S), NEW y \in Seq(S), NEW k \in 0 .. Len(x)
  PROVE  Dropped(x \o y, k) = Dropped(x, k) \o y
<1>1. x \o y \in Seq(S) /\ Len(x \o y) = Len(x) + Len(y) /\ Len(x) \in Nat /\ Len(y) \in Nat
  BY ConcatProperties
<1>. DEFINE z == x \o y  u == Dropped(z, k)  v == Dropped(x, k)
<1>2. /\ u \in Seq(S) /\ Len(u) = Len(x) + Len(y) - k
      /\ \A i \in 1 .. Len(x) + Len(y) - k : u[i] = (x \o y)[i + k]
  <2>1. z \in Seq(S) /\ k \in 0 .. Len(z) /\ Len(z) = Len(x) + Len(y)
    BY <1>1
  <2>2. z = x \o y
    OBVIOUS
  <2>. HIDE DEF z
  <2>3. /\ u \in Seq(S) /\ Len(u) = Len(z) - k
        /\ \A i \in 1 .. Len(z) - k : u[i] = z[i + k]
    BY <2>1, DroppedProperties
  <2>. QED
    BY <2>1, <2>2, <2>3
<1>3. /\ v \in Seq(S) /\ Len(v) = Len(x) - k
      /\ \A i \in 1 .. Len(x) - k : v[i] = x[i + k]
  BY DroppedProperties
<1>. HIDE DEF u, v
<1>4. v \o y \in Seq(S) /\ Len(v \o y) = Len(u)
  BY <1>1, <1>2, <1>3, ConcatProperties
<1>5. ASSUME NEW i \in 1 .. Len(u) PROVE u[i] = (v \o y)[i]
  <2>1. u[i] = (x \o y)[i + k]
    BY <1>2
  <2>2. CASE i <= Len(v)
    BY <1>1, <1>2, <1>3, <2>1, <2>2
  <2>3. CASE ~ i <= Len(v)
    BY <1>1, <1>2, <1>3, <2>1, <2>3
  <2>. QED
    BY <2>2, <2>3
<1>6. u = v \o y
  BY <1>2, <1>4, <1>5, SeqEqual
<1>. QED
  BY <1>6 DEF u, v

LEMMA Failed ==
  ASSUME NEW x, x = [buf |-> <<>>, fail |-> TRUE]
  PROVE  x.fail /\ x.buf = <<>>
OBVIOUS

\* The client reads what it has buffered and what its kernel has.
ReadsFrom(s) ==
  s \in Stream /\ s.fail = inC.fail /\ (~ inC.fail => s.buf = inC.buf \o rqC)

LEMMA ClientReadsTyped ==
  ASSUME TypeOK, SentOK, NEW s, ReadsFrom(s), NEW r \in Reads(s)
  PROVE  /\ \/ r.msg \in Msg \/ r.msg \in {Nothing, Garbage}
            \/ r.msg \in [n : 0 .. MaxRequests, kind : {"part", "torn"}, of : Kind]
         /\ r.stream \in Stream /\ Sent(r.stream.buf, handled)
         /\ r.stream.fail \in {inC.fail, TRUE}
         /\ r.msg.kind = "answer" =>
              ~ r.stream.fail /\ ~ inC.fail /\ r.msg.n \in 1 .. handled
<1>1. s \in Stream /\ inC.buf \in Seq(Unit) /\ rqC \in Seq(Unit)
  BY TypeOKParts DEF ReadsFrom
<1>2. <<>> \in Seq(Unit) /\ <<>> \in Seq(FromServer(handled))
  OBVIOUS
<1>3. ~ inC.fail => s.buf \in Seq(FromServer(handled))
  <2>1. inC.buf \o rqC \in Seq(FromServer(handled))
    BY DEF SentOK, Sent
  <2>. QED
    BY <2>1, Zenon DEF ReadsFrom
<1>4. ~ s.fail => s.buf \in Seq(FromServer(handled))
  BY <1>3 DEF ReadsFrom
<1>5. ASSUME s.buf # <<>>, ~ s.fail
      PROVE  /\ s.buf[1].msg \in Msg /\ s.buf[1].msg.kind # "request"
             /\ s.buf[1].msg.kind = "answer" => s.buf[1].msg.n \in 1 .. handled
  <2>1. s.buf[1] \in FromServer(handled)
    BY <1>4, <1>5
  <2>. QED
    BY <2>1 DEF FromServer, Unit
<1>6. ASSUME NEW m \in Msg
      PROVE  /\ Part(m) \in [n : 0 .. MaxRequests, kind : {"part", "torn"}, of : Kind]
             /\ Torn(m) \in [n : 0 .. MaxRequests, kind : {"part", "torn"}, of : Kind]
             /\ Part(m).kind # "answer" /\ Torn(m).kind # "answer"
  BY DEF Part, Torn, Msg
<1>7. Nothing.kind # "answer" /\ Garbage.kind # "answer"
  BY DEF Nothing, Garbage
<1>8. CASE /\ r.stream = [buf |-> <<>>, fail |-> TRUE]
           /\ \/ r.msg \in {Nothing, Garbage}
              \/ ~ s.fail /\ s.buf # <<>> /\ r.msg = Part(s.buf[1].msg)
  <2>1. r.stream \in Stream /\ Sent(r.stream.buf, handled) /\ r.stream.fail = TRUE
    BY <1>2, <1>8 DEF Stream, Sent
  <2>. QED
    BY <1>5, <1>6, <1>7, <1>8, <2>1
<1>9. ASSUME NEW k \in 1 .. Len(s.buf),
             ~ s.fail, r.stream = [buf |-> Dropped(s.buf, k), fail |-> FALSE],
             \/ r.msg = Garbage
             \/ k = s.buf[1].msg.len /\ r.msg \in {s.buf[1].msg, Torn(s.buf[1].msg)}
      PROVE  /\ \/ r.msg \in Msg \/ r.msg \in {Nothing, Garbage}
                \/ r.msg \in [n : 0 .. MaxRequests, kind : {"part", "torn"}, of : Kind]
             /\ r.stream \in Stream /\ Sent(r.stream.buf, handled)
             /\ r.stream.fail \in {inC.fail, TRUE}
             /\ r.msg.kind = "answer" =>
                  ~ r.stream.fail /\ ~ inC.fail /\ r.msg.n \in 1 .. handled
  <2>1. s.buf \in Seq(Unit) /\ s.buf \in Seq(FromServer(handled)) /\ Len(s.buf) \in Nat
    BY <1>1, <1>4, <1>9 DEF Stream
  <2>2. k \in 0 .. Len(s.buf) /\ s.buf # <<>>
    BY <2>1
  <2>3. Dropped(s.buf, k) \in Seq(Unit) /\ Dropped(s.buf, k) \in Seq(FromServer(handled))
    BY <2>1, <2>2, DroppedProperties
  <2>4. inC.fail = FALSE
    BY <1>9, TypeOKParts DEF ReadsFrom
  <2>5. r.stream \in Stream /\ Sent(r.stream.buf, handled) /\ r.stream.fail = FALSE
    BY <1>9, <2>3 DEF Stream, Sent
  <2>. QED
    BY <1>5, <1>6, <1>7, <1>9, <2>2, <2>4, <2>5
<1>. QED
  BY <1>1, <1>8, <1>9, ReadsCases

\* While the client is in step, it reads the one message there is, or no answer.
LEMMA ClientReadsInStep ==
  ASSUME TypeOK, SentOK, ClientServed, Behind, "wrap" \notin mishaps, ~ inC.fail,
         client \in {"waiting", "again"}, rqC # <<>> \/ sk = "closed",
         NEW s, ReadsFrom(s), NEW r \in Reads(s)
  PROVE  /\ ~ r.stream.fail =>
              /\ Silent(r.stream.buf \o s2c)
              /\ Reading => r.stream.buf \o s2c = <<>> /\ handled = asked
         /\ r.msg.kind = "answer" => r.msg.n = asked /\ handled = asked
         /\ r.msg.kind = "part" =>
              r.msg.of = "stale" \/ r.msg.of = "error" \/ r.msg.n = asked
         /\ r.msg.kind = "torn" => r.msg.of # "answer"
<1>. DEFINE b == inC.buf \o rqC
<1>1. /\ s \in Stream /\ ~ s.fail /\ s.buf = b /\ Down = b \o s2c
      /\ inC.buf \in Seq(Unit) /\ rqC \in Seq(Unit) /\ s2c \in Seq(Unit)
  BY TypeOKParts DEF ReadsFrom, Down
<1>2. b \in Seq(Unit) /\ Len(b) \in Nat /\ (rqC # <<>> => b # <<>>)
  BY <1>1
<1>3. Down \in Seq(Unit) /\ Len(Down) = Len(b) + Len(s2c) /\ Len(s2c) \in Nat
      /\ \A i \in 1 .. Len(b) : Down[i] = b[i]
  BY <1>1, <1>2, ConcatProperties
<1>4. /\ Silent(Down) \/ (Single(Down, asked) /\ handled = asked)
      /\ Reading => Single(Down, asked) /\ handled = asked
  <2>1. InStep
    BY DEF InStep
  <2>2. Reading => rqC # <<>>
    BY DEF Reading
  <2>3. Reading => Down # <<>>
    BY <1>2, <1>3, <2>2
  <2>. QED
    BY <2>1, <2>3, TypeOKParts DEF ClientServed, Behind
<1>5. Nothing.kind = "nothing" /\ Garbage.kind = "garbage"
      /\ \A m : Part(m).kind = "part" /\ Part(m).n = m.n /\ Part(m).of = m.kind
                /\ Torn(m).kind = "torn" /\ Torn(m).of = m.kind
  BY DEF Nothing, Garbage, Part, Torn
<1>6. ASSUME s.buf # <<>>
      PROVE  s.buf[1].msg \in Msg /\ s.buf[1].msg.kind \in {"answer", "error", "stale"}
  <2>1. s.buf \in Seq(FromServer(handled))
    BY <1>1 DEF SentOK, Sent
  <2>2. s.buf[1] \in FromServer(handled)
    BY <1>6, <2>1
  <2>. QED
    BY <2>2 DEF FromServer, Unit, Msg, Kind
<1>. HIDE DEF b
<1>7. ASSUME Single(Down, asked), handled = asked
      PROVE  /\ ~ r.stream.fail => r.stream.buf \o s2c = <<>>
             /\ r.msg.kind = "answer" => r.msg.n = asked
             /\ r.msg.kind = "part" =>
                  r.msg.of = "stale" \/ r.msg.of = "error" \/ r.msg.n = asked
             /\ r.msg.kind = "torn" => r.msg.of # "answer"
  <2>1. CASE b = <<>>
    <3>1. Reads(s) = {ShortRead(Nothing)}
      BY <1>1, <2>1, Lengths DEF Reads
    <3>2. r.stream = [buf |-> <<>>, fail |-> TRUE] /\ r.msg = Nothing
      BY <3>1 DEF ShortRead, Read
    <3>3. r.stream.fail /\ r.msg.kind = "nothing"
      BY <1>5, <3>2, Failed, Zenon
    <3>. QED
      BY <3>3
  <2>2. CASE b # <<>>
    <3>1. Down # <<>>
      BY <1>2, <1>3, <2>2
    <3>2. PICK m \in Msg : /\ Len(Down) <= m.len /\ (m.kind = "answer" => m.n = asked)
                           /\ \A i \in 1 .. Len(Down) : Down[i] = [msg |-> m, at |-> i]
      BY <1>7, <3>1 DEF Single
    <3>3. \A i \in 1 .. Len(b) : b[i] = [msg |-> m, at |-> i]
      BY <1>2, <1>3, <3>2
    <3>4. b[1] = [msg |-> m, at |-> 1]
      BY <1>2, <2>2, <3>3
    <3>5. m.kind \in {"answer", "error", "stale"}
      BY <1>1, <1>6, <2>2, <3>4
    <3>6. \/ r.stream = [buf |-> <<>>, fail |-> TRUE] /\ r.msg \in {Nothing, Part(m)}
          \/ /\ m.len \in 1 .. Len(b) /\ r.msg = m
             /\ r.stream = [buf |-> Dropped(b, m.len), fail |-> FALSE]
      <4>1. /\ s \in Stream /\ ~ s.fail /\ s.buf # <<>> /\ s.buf = b
            /\ s.buf[1] = [msg |-> m, at |-> 1]
            /\ \A i \in 1 .. Len(s.buf) : i <= m.len => s.buf[i] = [msg |-> m, at |-> i]
        BY <1>1, <2>2, <3>3, <3>4
      <4>2. \/ r.stream = [buf |-> <<>>, fail |-> TRUE] /\ r.msg \in {Nothing, Part(m)}
            \/ /\ m.len \in 1 .. Len(s.buf) /\ r.msg = m
               /\ r.stream = [buf |-> Dropped(s.buf, m.len), fail |-> FALSE]
        BY <4>1, ReadsFrame
      <4>. QED
        BY <4>1, <4>2, Zenon
    <3>7. CASE r.stream = [buf |-> <<>>, fail |-> TRUE] /\ r.msg \in {Nothing, Part(m)}
      <4>1. r.stream.fail
        BY <3>7, Failed, Zenon
      <4>2. CASE r.msg = Nothing
        BY <1>5, <4>1, <4>2
      <4>3. CASE r.msg = Part(m)
        <5>1. r.msg.kind = "part" /\ r.msg.n = m.n /\ r.msg.of = m.kind
          BY <1>5, <4>3, Zenon
        <5>. QED
          BY <3>2, <3>5, <4>1, <5>1
      <4>. QED
        BY <3>7, <4>2, <4>3
    <3>8. CASE /\ m.len \in 1 .. Len(b) /\ r.msg = m
               /\ r.stream = [buf |-> Dropped(b, m.len), fail |-> FALSE]
      <4>1. m.len = Len(b) /\ Len(s2c) = 0 /\ m.len \in 0 .. Len(b)
        BY <1>2, <1>3, <3>2, <3>8
      <4>2. Dropped(b, m.len) \in Seq(Unit) /\ Len(Dropped(b, m.len)) = 0
        BY <1>2, <4>1, DroppedProperties
      <4>3. Dropped(b, m.len) = <<>> /\ s2c = <<>>
        BY <1>1, <4>1, <4>2
      <4>4. r.stream.buf \o s2c = <<>>
        BY <3>8, <4>3
      <4>. QED
        BY <1>5, <3>2, <3>5, <3>8, <4>4
    <3>. QED
      BY <3>6, <3>7, <3>8
  <2>. QED
    BY <2>1, <2>2
<1>8. ASSUME Silent(Down)
      PROVE  /\ ~ r.stream.fail => Silent(r.stream.buf \o s2c)
             /\ r.msg.kind # "answer"
             /\ r.msg.kind = "part" => r.msg.of = "stale" \/ r.msg.of = "error"
             /\ r.msg.kind = "torn" => r.msg.of # "answer"
  <2>1. b \in Seq(NoAnswer) /\ s2c \in Seq(NoAnswer)
    BY <1>1, <1>2, <1>8, PartsOf DEF Silent
  <2>2. b # <<>> => b[1].msg.kind \in {"error", "stale"}
    <3>1. b # <<>> => b[1] \in NoAnswer
      BY <2>1
    <3>2. b # <<>> => b[1].msg.kind # "answer"
      BY <3>1 DEF NoAnswer
    <3>. QED
      BY <1>1, <1>6, <3>2
  <2>3. CASE /\ r.stream = [buf |-> <<>>, fail |-> TRUE]
             /\ \/ r.msg \in {Nothing, Garbage}
                \/ ~ s.fail /\ s.buf # <<>> /\ r.msg = Part(s.buf[1].msg)
    <3>1. r.stream.fail
      BY <2>3, Failed, Zenon
    <3>2. CASE r.msg \in {Nothing, Garbage}
      BY <1>5, <3>1, <3>2
    <3>3. CASE s.buf # <<>> /\ r.msg = Part(s.buf[1].msg)
      <4>1. r.msg.kind = "part" /\ r.msg.of = s.buf[1].msg.kind
        BY <1>5, <3>3, Zenon
      <4>. QED
        BY <1>1, <2>2, <3>1, <3>3, <4>1
    <3>. QED
      BY <2>3, <3>2, <3>3
  <2>4. ASSUME NEW k \in 1 .. Len(s.buf),
               r.stream = [buf |-> Dropped(s.buf, k), fail |-> FALSE],
               \/ r.msg = Garbage
               \/ k = s.buf[1].msg.len /\ r.msg \in {s.buf[1].msg, Torn(s.buf[1].msg)}
        PROVE  /\ Silent(r.stream.buf \o s2c)
               /\ r.msg.kind # "answer"
               /\ r.msg.kind = "part" => r.msg.of = "stale" \/ r.msg.of = "error"
               /\ r.msg.kind = "torn" => r.msg.of # "answer"
    <3>1. k \in 0 .. Len(b) /\ b # <<>>
      BY <1>1, <1>2
    <3>2. Dropped(b, k) \in Seq(NoAnswer)
      BY <2>1, <3>1, DroppedProperties
    <3>3. Silent(r.stream.buf \o s2c)
      BY <1>1, <2>1, <2>4, <3>2 DEF Silent
    <3>. QED
      BY <1>1, <1>5, <2>2, <2>4, <3>1, <3>3
  <2>. QED
    BY <1>1, <2>3, <2>4, ReadsCases
<1>9. Silent(<<>>)
  BY DEF Silent
<1>. QED
  BY <1>4, <1>7, <1>8, <1>9

-----------------------------------------------------------------------------
(* Every step keeps the invariant: the steps of the client.                   *)

LEMMA InitEstablishes == Init => ConnInv
<1>. SUFFICES ASSUME Init PROVE ConnInv
  OBVIOUS
<1>1. <<>> \in Seq(Unit) /\ <<>> \in Seq(FromServer(0)) /\ <<>> \in Seq(NoAnswer)
  OBVIOUS
<1>2. TypeOK
  <2>1. edge \in BOOLEAN /\ fin \in BOOLEAN /\ rst \in BOOLEAN
    BY DEF Init
  <2>2. /\ inS \in Stream /\ inC \in Stream
        /\ {c2s, s2c, rqS, rqC} \subseteq Seq(Unit)
    BY <1>1, EmptyStreamType DEF Init
  <2>3. buff \in [at : {"NULL", "_response", "_dyn_buff"}, len : Nat]
    BY DEF Init, NoBuff
  <2>4. asked \in 0 .. MaxRequests /\ handled \in 0 .. MaxRequests
    BY Lengths DEF Init
  <2>5. got \in {Nothing, Garbage} /\ mishaps \subseteq {"mute", "spin", "wrap"}
    BY DEF Init
  <2>6. client \in {"menu", "waiting", "again", "gone"}
        /\ sk \in {"pending", "open", "spin", "closed"}
    BY DEF Init
  <2>. QED
    BY <2>1, <2>2, <2>3, <2>4, <2>5, <2>6 DEF TypeOK
<1>3. Up = <<>> /\ Down = <<>> /\ EmptyStream.buf = <<>>
  BY EmptyStreamType DEF Init, Up, Down
<1>4. SentOK
  BY <1>1, EmptyStreamType DEF Init, SentOK, Sent
<1>5. ClientServed
  BY <1>1, <1>3 DEF Init, ClientServed, Silent, Single
<1>6. Behind
  BY EmptyStreamType DEF Init, Behind
<1>7. UpOK
  BY <1>3, Lengths DEF Init, UpOK, Queued
<1>8. BuffOK /\ GotOK /\ ReadsOwnAnswer
  BY DEF Init, BuffOK, NoBuff, GotOK, ReadsOwnAnswer, Nothing
<1>. QED
  BY <1>2, <1>4, <1>5, <1>6, <1>7, <1>8 DEF ConnInv

LEMMA AskKeeps == ASSUME ConnInv, Ask PROVE ConnInv'
<1>. USE DEF ConnInv
<1>1. /\ asked \in Nat /\ handled \in Nat /\ handled <= asked /\ asked + 1 \in 0 .. MaxRequests
      /\ inS.buf \in Seq(Unit) /\ rqS \in Seq(Unit) /\ c2s \in Seq(Unit)
  <2>1. TypeOK /\ handled <= asked /\ asked < MaxRequests
    BY DEF Ask, Behind
  <2>2. /\ asked \in Nat /\ handled \in Nat
        /\ inS.buf \in Seq(Unit) /\ rqS \in Seq(Unit) /\ c2s \in Seq(Unit)
    BY <2>1, TypeOKParts, Zenon
  <2>. QED
    BY <2>1, <2>2, Lengths
<1>. DEFINE b == Bytes(Request(asked + 1), ReqLen)
<1>2. b \in Seq(Unit)
  BY <1>1, Lengths, RequestIsMsg, BytesProperties
<1>3. asked' = asked + 1 /\ c2s' = c2s \o b
  BY DEF Ask
<1>. HIDE DEF b
<1>4. TypeOK'
  <2>1. c2s \o b \in Seq(Unit)
    BY <1>1, <1>2
  <2>2. /\ c2s' \in Seq(Unit) /\ asked' \in 0 .. MaxRequests
        /\ got' = Nothing /\ client' = "waiting"
    BY <1>1, <1>3, <2>1 DEF Ask
  <2>3. UNCHANGED <<s2c, rqS, rqC, inS, inC, sk, edge, fin, rst, handled, buff, mishaps>>
    BY DEF Ask
  <2>. QED
    BY <2>2, <2>3 DEF TypeOK
<1>5. SentOK'
  BY DEF Ask, SentOK
<1>6. ClientServed'
  <2>1. SUFFICES ASSUME InStep' PROVE
          /\ Silent(Down')
          /\ Reading' => Down' = <<>> /\ handled' = asked' - 1 /\ client' = "waiting"
    BY <1>1, <1>3 DEF ClientServed, Single
  <2>2. InStep /\ Down' = Down /\ (Reading' => Reading) /\ client = "menu"
    BY <2>1 DEF InStep, Down, Reading, Ask
  <2>. QED
    BY <1>1, <1>3, <2>2 DEF ClientServed, Ask
<1>7. Behind'
  BY <1>1, <1>3 DEF Behind, Ask
<1>8. UpOK'
  <2>1. Up' = Up \o b /\ Up \in Seq(Unit)
    <3>2. inS.buf \o rqS \in Seq(Unit)
      BY <1>1
    <3>3. (inS.buf \o rqS) \o (c2s \o b) = ((inS.buf \o rqS) \o c2s) \o b
      BY <1>1, <1>2, <3>2, Associative, Zenon
    <3>4. Up' = (inS.buf \o rqS) \o (c2s \o b)
      BY <1>3 DEF Up, Ask
    <3>5. Up \in Seq(Unit)
      BY <1>1, <3>2 DEF Up
    <3>. QED
      BY <3>3, <3>4, <3>5 DEF Up
  <2>2. Reading' => Queued(Up, handled, asked)
    BY DEF UpOK, Reading, Ask
  <2>3. Reading' => Queued(Up', handled, asked + 1)
    BY <1>1, <2>1, <2>2, QueuedAppended DEF b
  <2>. QED
    BY <1>3, <2>3 DEF UpOK, Ask
<1>9. BuffOK' /\ GotOK' /\ ReadsOwnAnswer'
  BY DEF Ask, BuffOK, GotOK, ReadsOwnAnswer
<1>. QED
  BY <1>4, <1>5, <1>6, <1>7, <1>8, <1>9

\* The client takes all that its kernel has, and reads.
LEMMA ClientReadsKeeps ==
  ASSUME ConnInv, client \in {"waiting", "again"}, rqC # <<>> \/ sk = "closed",
         NEW s, ReadsFrom(s), NEW r \in Reads(s), got' = r.msg, inC' = r.stream,
         client' = "menu", rqC' = <<>>,
         UNCHANGED <<asked, c2s, s2c, rqS, inS, sk, edge, fin, rst, handled, buff, mishaps>>
  PROVE  ConnInv'
<1>. USE DEF ConnInv
<1>1. /\ \/ got' \in Msg \/ got' \in {Nothing, Garbage}
         \/ got' \in [n : 0 .. MaxRequests, kind : {"part", "torn"}, of : Kind]
      /\ inC' \in Stream /\ Sent(inC'.buf, handled)
      /\ inC'.fail \in {inC.fail, TRUE}
      /\ got'.kind = "answer" => ~ inC'.fail /\ ~ inC.fail /\ got'.n \in 1 .. handled
  BY ClientReadsTyped
<1>2. <<>> \in Seq(Unit) /\ <<>> \in Seq(FromServer(handled))
  OBVIOUS
<1>3. TypeOK'
  BY <1>1, <1>2 DEF TypeOK
<1>4. SentOK'
  BY <1>1, <1>2 DEF SentOK, Sent
<1>5. Down' = inC'.buf \o s2c
  BY <1>1, TypeOKParts DEF Down, Stream
<1>6. ClientServed'
  <2>1. SUFFICES ASSUME InStep'
                 PROVE  Silent(Down') /\ (Reading' => Down' = <<>> /\ handled' = asked')
    BY TypeOKParts DEF ClientServed, Single
  <2>2. ~ inC.fail /\ "wrap" \notin mishaps /\ ~ inC'.fail
    BY <1>1, <2>1 DEF InStep
  <2>3. Silent(inC'.buf \o s2c) /\ (Reading => inC'.buf \o s2c = <<>> /\ handled = asked)
    BY <2>2, ClientReadsInStep
  <2>. QED
    BY <1>5, <2>3 DEF Reading
<1>7. ReadsOwnAnswer'
  <2>1. CASE inC.fail
    <3>1. Reads(s) = {ShortRead(Nothing)}
      BY <2>1 DEF Reads, ReadsFrom
    <3>2. got' = Nothing
      BY <3>1 DEF ShortRead, Read
    <3>. QED
      BY <3>2 DEF ReadsOwnAnswer, Nothing
  <2>2. CASE ~ inC.fail
    <3>1. SUFFICES ASSUME "wrap" \notin mishaps
                   PROVE  /\ got'.kind = "answer" => got'.n = asked
                          /\ got'.kind = "part" => got'.of = "stale" \/ got'.of = "error"
                                                     \/ got'.n = asked
                          /\ got'.kind = "torn" => got'.of # "answer"
      BY DEF ReadsOwnAnswer
    <3>. QED
      BY <2>2, <3>1, ClientReadsInStep
  <2>. QED
    BY <2>1, <2>2
<1>8. Behind' /\ BuffOK' /\ GotOK'
  BY DEF Behind, BuffOK, GotOK
<1>9. UpOK'
  BY DEF UpOK, Reading, Up
<1>. QED
  BY <1>3, <1>4, <1>6, <1>7, <1>8, <1>9

LEMMA ClientRecvKeeps == ASSUME ConnInv, ClientRecv PROVE ConnInv'
<1>. USE DEF ConnInv
<1>. DEFINE n == IF Len(rqC) < BuffSize THEN Len(rqC) ELSE BuffSize
            s == Stored(inC, SubSeq(rqC, 1, n))
<1>1. /\ rqC \in Seq(Unit) /\ s2c \in Seq(Unit) /\ inC \in Stream /\ inC.buf \in Seq(Unit)
      /\ n \in 0 .. Len(rqC) /\ Len(rqC) \in Nat
  BY TypeOKParts, Lengths DEF TypeOK
<1>2. /\ client \in {"waiting", "again"} /\ rqC # <<>>
      /\ rqC' = Dropped(rqC, n)
      /\ IF n = BuffSize
         THEN client' = "again" /\ inC' = s /\ UNCHANGED got
         ELSE /\ \E r \in Reads(s) : got' = r.msg /\ inC' = r.stream
              /\ client' = "menu"
      /\ UNCHANGED <<asked, c2s, s2c, rqS, inS, sk, edge, fin, rst, handled, buff, mishaps>>
  BY DEF ClientRecv
<1>3. n # BuffSize => n = Len(rqC)
  BY <1>1
<1>. HIDE DEF n
<1>4. SubSeq(rqC, 1, n) \in Seq(Unit)
  BY <1>1, TakenProperties
<1>5. s \in Stream /\ s.fail = inC.fail /\ (~ inC.fail => s.buf = inC.buf \o SubSeq(rqC, 1, n))
      /\ (inC.fail => s = inC)
  BY <1>1, <1>4, StoredProperties
<1>. HIDE DEF s
<1>6. CASE n = BuffSize
  <2>0. rqC' \in Seq(Unit)
    BY <1>1, <1>2, DroppedProperties
  <2>1. TypeOK'
    BY <1>2, <1>5, <1>6, <2>0 DEF TypeOK
  <2>2. SentOK'
    <3>1. SubSeq(rqC, 1, n) \in Seq(FromServer(handled)) /\ rqC' \in Seq(FromServer(handled))
      <4>1. rqC \in Seq(FromServer(handled))
        BY DEF SentOK, Sent
      <4>. QED
        BY <1>1, <1>2, <4>1, TakenProperties, DroppedProperties
    <3>2. inC.buf \o SubSeq(rqC, 1, n) \in Seq(FromServer(handled))
      BY <3>1 DEF SentOK, Sent
    <3>3. s.buf \in Seq(FromServer(handled))
      BY <1>5, <3>2, Zenon DEF SentOK, Sent
    <3>. QED
      BY <1>2, <1>6, <3>1, <3>3 DEF SentOK, Sent
  <2>3. InStep' => InStep /\ Down' = Down
    <3>1. (inC.buf \o SubSeq(rqC, 1, n)) \o Dropped(rqC, n) \o s2c = inC.buf \o rqC \o s2c
      BY <1>1, ShiftedToFirst, Zenon
    <3>2. InStep' => InStep /\ inC'.buf = inC.buf \o SubSeq(rqC, 1, n)
      BY <1>2, <1>5, <1>6 DEF InStep
    <3>. QED
      BY <1>2, <3>1, <3>2 DEF Down
  <2>4. ClientServed'
    BY <1>2, <1>6, <2>3 DEF ClientServed, Reading
  <2>5. UpOK' /\ Behind' /\ BuffOK' /\ GotOK' /\ ReadsOwnAnswer'
    BY <1>2, <1>6 DEF UpOK, Reading, Up, Behind, BuffOK, GotOK, ReadsOwnAnswer
  <2>. QED
    BY <2>1, <2>2, <2>4, <2>5
<1>7. CASE n # BuffSize
  <2>1. SubSeq(rqC, 1, n) = rqC
    BY <1>1, <1>3, <1>7, SubSeqFull
  <2>2. rqC' = <<>>
    <3>1. rqC' \in Seq(Unit) /\ Len(rqC') = 0
      BY <1>1, <1>2, <1>3, <1>7, DroppedProperties
    <3>. QED
      BY <3>1
  <2>3. ReadsFrom(s)
    BY <1>5, <2>1, Zenon DEF ReadsFrom
  <2>. QED
    BY <1>2, <1>7, <2>2, <2>3, ClientReadsKeeps
<1>. QED
  BY <1>6, <1>7

\* A client that is gone expects nothing.
LEMMA LeavingKeeps ==
  ASSUME ConnInv, client' = "gone", got' = Nothing, inC' = EmptyStream, rqC' = <<>>,
         rst' \in BOOLEAN,
         UNCHANGED <<asked, c2s, s2c, rqS, inS, sk, edge, fin, handled, buff, mishaps>>
  PROVE  ConnInv'
<1>. USE DEF ConnInv
<1>1. <<>> \in Seq(Unit) /\ <<>> \in Seq(FromServer(handled))
  OBVIOUS
<1>2. TypeOK'
  BY <1>1, EmptyStreamType DEF TypeOK
<1>3. SentOK'
  BY <1>1, EmptyStreamType DEF SentOK, Sent
<1>4. ClientServed' /\ UpOK'
  BY DEF ClientServed, InStep, UpOK, Reading, Up
<1>5. Behind' /\ BuffOK' /\ GotOK' /\ ReadsOwnAnswer'
  BY DEF Behind, BuffOK, GotOK, ReadsOwnAnswer
<1>. QED
  BY <1>2, <1>3, <1>4, <1>5

LEMMA ClientEOFKeeps == ASSUME ConnInv, ClientEOF PROVE ConnInv'
<1>1. CASE client = "again"
  <2>1. PICK r \in Reads(inC) : got' = r.msg /\ inC' = r.stream
    BY <1>1 DEF ClientEOF
  <2>2. /\ client' = "menu" /\ sk = "closed" /\ rqC' = <<>> /\ rqC = <<>>
        /\ UNCHANGED <<asked, c2s, s2c, rqS, inS, sk, edge, fin, rst, handled, buff, mishaps>>
    BY <1>1 DEF ClientEOF, streams
  <2>3. ReadsFrom(inC)
    <3>1. inC \in Stream /\ inC.buf \o rqC = inC.buf
      BY <2>2, TypeOKParts DEF TypeOK, ConnInv
    <3>. QED
      BY <3>1 DEF ReadsFrom
  <2>. QED
    BY <1>1, <2>1, <2>2, <2>3, ClientReadsKeeps
<1>2. CASE client # "again"
  <2>1. /\ client' = "gone" /\ got' = Nothing /\ inC' = EmptyStream /\ rqC' = <<>>
        /\ UNCHANGED <<asked, c2s, s2c, rqS, inS, sk, edge, fin, rst, handled, buff, mishaps>>
    BY <1>2 DEF ClientEOF, streams
  <2>2. rst' \in BOOLEAN
    BY <2>1, TypeOKParts DEF ConnInv
  <2>. QED
    BY <2>1, <2>2, LeavingKeeps
<1>. QED
  BY <1>1, <1>2

LEMMA ClientExitKeeps == ASSUME ConnInv, ClientExit PROVE ConnInv'
<1>1. rst' \in BOOLEAN
  BY TypeOKParts DEF ClientExit, ConnInv
<1>. QED
  BY <1>1, LeavingKeeps DEF ClientExit

-----------------------------------------------------------------------------
(* The steps of the network.                                                  *)

LEMMA PieceOf == ASSUME NEW x \in Seq(Unit), NEW k \in Pieces(x) PROVE k \in 0 .. Len(x)
BY DEF Pieces

LEMMA ToServerKeeps == ASSUME ConnInv, ToServer PROVE ConnInv'
<1>. USE DEF ConnInv
<1>1. inS.buf \in Seq(Unit) /\ rqS \in Seq(Unit) /\ c2s \in Seq(Unit)
  BY TypeOKParts
<1>2. PICK k \in Pieces(c2s) :
        /\ c2s' = Dropped(c2s, k)
        /\ IF sk = "closed" THEN UNCHANGED <<rqS, edge>>
                            ELSE rqS' = rqS \o SubSeq(c2s, 1, k) /\ edge' = TRUE
  BY DEF ToServer
<1>3. UNCHANGED <<client, asked, got, s2c, rqC, inS, inC, sk, fin, rst, handled, buff, mishaps>>
  BY DEF ToServer
<1>4. k \in 0 .. Len(c2s)
  BY <1>1, PieceOf
<1>5. c2s' \in Seq(Unit) /\ SubSeq(c2s, 1, k) \in Seq(Unit)
  BY <1>1, <1>2, <1>4, DroppedProperties, TakenProperties
<1>6. rqS' \in Seq(Unit) /\ edge' \in BOOLEAN
  <2>1. rqS \o SubSeq(c2s, 1, k) \in Seq(Unit)
    BY <1>1, <1>5
  <2>2. edge \in BOOLEAN
    BY TypeOKParts
  <2>. QED
    BY <1>1, <1>2, <2>1, <2>2
<1>7. TypeOK'
  BY <1>3, <1>5, <1>6 DEF TypeOK
<1>8. UpOK'
  <2>1. CASE sk = "closed"
    BY <1>3, <2>1 DEF UpOK, Reading
  <2>2. CASE sk # "closed"
    <3>1. Up' = inS.buf \o (rqS \o SubSeq(c2s, 1, k)) \o Dropped(c2s, k)
      BY <1>2, <1>3, <2>2 DEF Up
    <3>2. Up' = Up
      BY <1>1, <1>4, <3>1, ShiftedToSecond, Zenon DEF Up
    <3>. QED
      BY <1>3, <3>2 DEF UpOK, Reading
  <2>. QED
    BY <2>1, <2>2
<1>9. SentOK' /\ ClientServed'
  BY <1>3 DEF SentOK, ClientServed, InStep, Down, Reading
<1>10. Behind' /\ BuffOK' /\ GotOK' /\ ReadsOwnAnswer'
  BY <1>3 DEF Behind, BuffOK, GotOK, ReadsOwnAnswer
<1>. QED
  BY <1>7, <1>8, <1>9, <1>10

LEMMA ToClientKeeps == ASSUME ConnInv, ToClient PROVE ConnInv'
<1>. USE DEF ConnInv
<1>1. inC.buf \in Seq(Unit) /\ rqC \in Seq(Unit) /\ s2c \in Seq(Unit)
  BY TypeOKParts
<1>2. PICK k \in Pieces(s2c) :
        /\ s2c' = Dropped(s2c, k)
        /\ IF client = "gone" THEN rst' = TRUE /\ UNCHANGED rqC
                              ELSE rqC' = rqC \o SubSeq(s2c, 1, k) /\ UNCHANGED rst
  BY DEF ToClient
<1>3. UNCHANGED <<client, asked, got, c2s, rqS, inS, inC, sk, edge, fin, handled, buff, mishaps>>
  BY DEF ToClient
<1>4. k \in 0 .. Len(s2c)
  BY <1>1, PieceOf
<1>5. s2c' \in Seq(Unit) /\ SubSeq(s2c, 1, k) \in Seq(Unit)
  BY <1>1, <1>2, <1>4, DroppedProperties, TakenProperties
<1>6. rqC' \in Seq(Unit) /\ rst' \in BOOLEAN
  <2>1. rqC \o SubSeq(s2c, 1, k) \in Seq(Unit)
    BY <1>1, <1>5
  <2>2. rst \in BOOLEAN
    BY TypeOKParts
  <2>. QED
    BY <1>1, <1>2, <2>1, <2>2
<1>7. TypeOK'
  BY <1>3, <1>5, <1>6 DEF TypeOK
<1>8. SentOK'
  <2>. DEFINE S == FromServer(handled)
  <2>1. s2c \in Seq(S) /\ rqC \in Seq(S) /\ inC.buf \in Seq(S)
    BY DEF SentOK, Sent
  <2>. HIDE DEF S
  <2>2. Dropped(s2c, k) \in Seq(S) /\ SubSeq(s2c, 1, k) \in Seq(S)
    BY <1>4, <2>1, DroppedProperties, TakenProperties
  <2>3. rqC \o SubSeq(s2c, 1, k) \in Seq(S)
    BY <2>1, <2>2
  <2>4. s2c' \in Seq(S) /\ rqC' \in Seq(S) /\ inC'.buf \in Seq(S)
    BY <1>2, <1>3, <2>1, <2>2, <2>3
  <2>. QED
    BY <1>3, <2>4 DEF SentOK, Sent, S
<1>9. ClientServed'
  <2>1. CASE client = "gone"
    BY <1>3, <2>1 DEF ClientServed, InStep
  <2>2. CASE client # "gone"
    <3>1. Down' = inC.buf \o (rqC \o SubSeq(s2c, 1, k)) \o Dropped(s2c, k)
      BY <1>2, <1>3, <2>2 DEF Down
    <3>2. Down' = Down
      BY <1>1, <1>4, <3>1, ShiftedToSecond, Zenon DEF Down
    <3>. QED
      BY <1>3, <3>2 DEF ClientServed, InStep, Reading
  <2>. QED
    BY <2>1, <2>2
<1>10. UpOK' /\ Behind' /\ BuffOK' /\ GotOK' /\ ReadsOwnAnswer'
  BY <1>3 DEF UpOK, Up, Reading, Behind, BuffOK, GotOK, ReadsOwnAnswer
<1>. QED
  BY <1>7, <1>8, <1>9, <1>10

\* The steps that neither move a byte nor handle a request.
LEMMA OthersKeep ==
  ASSUME ConnInv, FinArrives \/ Accept \/ OtherClient \/ UNCHANGED vars
  PROVE  ConnInv'
<1>. USE DEF ConnInv
<1>1. CASE FinArrives
  <2>1. UNCHANGED <<client, asked, got, streams, inS, inC, sk, rst, handled, buff, mishaps>>
        /\ fin' = TRUE /\ edge' = TRUE
    BY <1>1 DEF FinArrives
  <2>2. TypeOK'
    BY <2>1 DEF TypeOK, streams
  <2>. QED
    BY <2>1, <2>2 DEF streams, SentOK, ClientServed, InStep, Down, UpOK, Up, Reading, Behind,
                      BuffOK, GotOK, ReadsOwnAnswer
<1>2. CASE Accept
  <2>1. UNCHANGED <<client, asked, got, streams, inS, inC, edge, fin, rst, handled, buff, mishaps>>
        /\ sk = "pending" /\ sk' = "open"
    BY <1>2 DEF Accept
  <2>2. TypeOK'
    BY <2>1 DEF TypeOK, streams
  <2>. QED
    BY <2>1, <2>2 DEF streams, SentOK, ClientServed, InStep, Down, UpOK, Up, Reading, Behind,
                      BuffOK, GotOK, ReadsOwnAnswer
<1>3. CASE OtherClient
  <2>1. UNCHANGED <<client, asked, got, streams, inS, inC, sk, edge, fin, rst, handled, mishaps>>
        /\ buff' \in [at : {"_response"}, len : {ErrLen}] \cup
                     [at : {"_dyn_buff"}, len : OtherLens]
    BY <1>3 DEF OtherClient
  <2>2. buff' \in Buff /\ BuffOK'
    BY <2>1, Lengths DEF Buff, BuffOK
  <2>3. TypeOK'
    BY <2>1, <2>2 DEF TypeOK, streams, Buff
  <2>. QED
    BY <2>1, <2>2, <2>3 DEF streams, SentOK, ClientServed, InStep, Down, UpOK, Up, Reading,
                            Behind, GotOK, ReadsOwnAnswer
<1>4. CASE UNCHANGED vars
  BY <1>4 DEF vars, streams, TypeOK, SentOK, ClientServed, InStep, Down, UpOK, Up, Reading,
              Behind, BuffOK, GotOK, ReadsOwnAnswer
<1>. QED
  BY <1>1, <1>2, <1>3, <1>4

-----------------------------------------------------------------------------
(* The steps of the server.                                                   *)

LEMMA ClosesKeeps == ASSUME ConnInv, Closes PROVE ConnInv'
<1>. USE DEF ConnInv
<1>1. /\ sk' = "closed" /\ inS' = EmptyStream /\ rqS' = <<>> /\ edge' = FALSE
      /\ buff' \in {buff, NoBuff}
      /\ UNCHANGED <<handled, s2c, mishaps, client, asked, got, c2s, rqC, inC, fin, rst>>
  BY DEF Closes, ServerFrame
<1>2. buff' \in Buff /\ BuffOK'
  BY <1>1, TypeOKParts DEF Buff, BuffOK, NoBuff
<1>3. <<>> \in Seq(Unit) /\ EmptyStream \in Stream /\ ~ EmptyStream.fail
  BY EmptyStreamType
<1>4. TypeOK'
  BY <1>1, <1>2, <1>3 DEF TypeOK, Buff
<1>5. SentOK' /\ UpOK' /\ GotOK' /\ ReadsOwnAnswer'
  BY <1>1 DEF SentOK, UpOK, Reading, GotOK, ReadsOwnAnswer
<1>6. ClientServed'
  BY <1>1 DEF ClientServed, InStep, Down, Reading
<1>7. Behind'
  BY <1>1, <1>3 DEF Behind
<1>. QED
  BY <1>2, <1>4, <1>5, <1>6, <1>7

LEMMA TakesKeeps == ASSUME ConnInv, Takes PROVE ConnInv'
<1>. USE DEF ConnInv
<1>1. /\ sk \in {"open", "spin"} /\ sk' \in {"open", "spin"} /\ (sk' = "spin" => handled < asked)
      /\ rqS' = <<>> /\ inS' = Stored(inS, rqS) /\ edge' \in BOOLEAN
      /\ mishaps \subseteq mishaps' /\ mishaps' \subseteq mishaps \cup {"spin"}
      /\ UNCHANGED <<handled, buff, s2c, client, asked, got, c2s, rqC, inC, fin, rst>>
  BY DEF Takes, ServerFrame
<1>2. /\ inS \in Stream /\ inS.buf \in Seq(Unit) /\ rqS \in Seq(Unit) /\ c2s \in Seq(Unit)
      /\ <<>> \in Seq(Unit)
  BY TypeOKParts DEF TypeOK
<1>3. /\ inS' \in Stream /\ inS'.fail = inS.fail
      /\ ~ inS.fail => inS'.buf = inS.buf \o rqS
  BY <1>1, <1>2, StoredProperties
<1>4. "wrap" \in mishaps' <=> "wrap" \in mishaps
  BY <1>1
<1>5. TypeOK'
  BY <1>1, <1>2, <1>3 DEF TypeOK
<1>6. Reading' => Reading /\ Up' = Up
  <2>1. Reading' => Reading
    BY <1>1, <1>3 DEF Reading
  <2>2. (inS.buf \o rqS) \o <<>> = inS.buf \o rqS
    BY <1>2, ConcatProperties
  <2>3. Reading' => Up' = inS.buf \o rqS \o <<>> \o c2s
    BY <1>1, <1>3 DEF Reading, Up
  <2>. QED
    BY <2>1, <2>2, <2>3 DEF Up
<1>7. UpOK'
  BY <1>1, <1>6 DEF UpOK
<1>8. SentOK' /\ BuffOK' /\ GotOK' /\ ReadsOwnAnswer'
  BY <1>1, <1>4 DEF SentOK, BuffOK, GotOK, ReadsOwnAnswer
<1>9. ClientServed'
  BY <1>1, <1>4, <1>6 DEF ClientServed, InStep, Down
<1>10. Behind'
  BY <1>1, <1>3 DEF Behind
<1>. QED
  BY <1>5, <1>7, <1>8, <1>9, <1>10

\* What a response does to the stream to the client.
LEMMA ResponseSent ==
  ASSUME TypeOK, NEW h \in Nat, SentOK, h >= handled, rqC' = rqC, inC' = inC,
         NEW kind \in {"answer", "error"}, NEW n \in Nat, kind = "answer" => n \in 1 .. h,
         Response(kind, n)
  PROVE  /\ s2c' \in Seq(Unit)
         /\ Sent(inC'.buf, h) /\ Sent(rqC', h) /\ Sent(s2c', h)
         /\ buff' \in Buff /\ BuffOK'
         /\ mishaps \subseteq mishaps' /\ mishaps' \subseteq {"mute", "spin", "wrap"}
         /\ \E m \in Msg, k \in Nat :
              /\ (m.kind = kind /\ m.n = n) \/ m.kind = "stale"
              /\ "wrap" \notin mishaps' => k <= m.len
              /\ Down' = Down \o Bytes(m, k)
<1>1. PICK m \in Msg, k \in Nat :
        /\ (m.kind = kind /\ m.n = n) \/ m.kind = "stale"
        /\ "wrap" \notin mishaps' => k <= m.len
        /\ s2c' = s2c \o Bytes(m, k)
  BY DEF Response
<1>2. /\ inC.buf \in Seq(Unit) /\ rqC \in Seq(Unit) /\ s2c \in Seq(Unit) /\ handled \in Nat
  BY TypeOKParts
<1>. DEFINE b == Bytes(m, k)
<1>3. b \in Seq(Unit) /\ Len(b) = k /\ \A i \in 1 .. k : b[i] = [msg |-> m, at |-> i]
  BY BytesProperties
<1>. HIDE DEF b
<1>4. b \in Seq(FromServer(h))
  <2>1. ASSUME NEW i \in 1 .. Len(b) PROVE b[i] \in FromServer(h)
    <3>1. b[i] = [msg |-> m, at |-> i] /\ b[i] \in Unit
      BY <1>3
    <3>2. m.kind # "request" /\ (m.kind = "answer" => m.n \in 1 .. h)
      BY <1>1
    <3>. QED
      BY <3>1, <3>2 DEF FromServer
  <2>. QED
    BY <1>3, <2>1, IsASeq
<1>5. ASSUME NEW x, x \in Seq(FromServer(handled)) PROVE x \in Seq(FromServer(h))
  <2>1. FromServer(handled) \subseteq FromServer(h)
    BY <1>2 DEF FromServer
  <2>. QED
    BY <1>5, <2>1
<1>6. inC.buf \in Seq(FromServer(h)) /\ rqC \in Seq(FromServer(h)) /\ s2c \in Seq(FromServer(h))
  BY <1>5 DEF SentOK, Sent
<1>7. s2c \o b \in Seq(FromServer(h)) /\ s2c \o b \in Seq(Unit)
  BY <1>2, <1>3, <1>4, <1>6
<1>8. s2c' = s2c \o b
  BY <1>1 DEF b
<1>9. Sent(inC'.buf, h) /\ Sent(rqC', h) /\ Sent(s2c', h) /\ s2c' \in Seq(Unit)
  BY <1>6, <1>7, <1>8 DEF Sent
<1>10. Down' = Down \o b
  <2>1. inC.buf \o rqC \in Seq(Unit)
    BY <1>2
  <2>2. ((inC.buf \o rqC) \o s2c) \o b = (inC.buf \o rqC) \o (s2c \o b)
    BY <1>2, <1>3, <2>1, Associative, Zenon
  <2>. QED
    BY <1>8, <2>2 DEF Down
<1>11. /\ buff' \in Buff /\ BuffOK' /\ mishaps \subseteq mishaps'
       /\ mishaps' \subseteq {"mute", "spin", "wrap"}
  BY DEF Response, TypeOK
<1>. QED
  BY <1>1, <1>9, <1>10, <1>11 DEF b

\* A request is handled while the client waits for nothing but its answer.
LEMMA HandlesKeeps == ASSUME ConnInv, Handles PROVE ConnInv'
<1>. USE DEF ConnInv
<1>. DEFINE b == inS.buf \o rqS
<1>1. /\ sk \in {"open", "spin"} /\ sk' = "open" /\ rqS' = <<>> /\ edge' \in BOOLEAN
      /\ UNCHANGED <<client, asked, got, c2s, rqC, inC, fin, rst>>
  BY DEF Handles, Serves, ServerFrame
<1>2. /\ Reading /\ handled < asked /\ b # <<>> /\ ReqLen <= Len(b)
      /\ handled' = handled + 1
      /\ inS' = [buf |-> Dropped(b, ReqLen), fail |-> FALSE]
      /\ Response("answer", handled + 1)
  BY DEF Handles
<1>3. /\ asked \in Nat /\ handled \in Nat /\ asked <= MaxRequests
      /\ inS.buf \in Seq(Unit) /\ rqS \in Seq(Unit) /\ c2s \in Seq(Unit)
      /\ inC.buf \in Seq(Unit) /\ rqC \in Seq(Unit) /\ s2c \in Seq(Unit)
  BY TypeOKParts, Zenon
<1>4. b \in Seq(Unit) /\ ReqLen \in 0 .. Len(b)
  BY <1>2, <1>3, Lengths
<1>. HIDE DEF b
<1>5. /\ s2c' \in Seq(Unit)
      /\ Sent(inC'.buf, handled + 1) /\ Sent(rqC', handled + 1) /\ Sent(s2c', handled + 1)
      /\ buff' \in Buff /\ BuffOK'
      /\ mishaps \subseteq mishaps' /\ mishaps' \subseteq {"mute", "spin", "wrap"}
      /\ \E m \in Msg, k \in Nat :
           /\ (m.kind = "answer" /\ m.n = handled + 1) \/ m.kind = "stale"
           /\ "wrap" \notin mishaps' => k <= m.len
           /\ Down' = Down \o Bytes(m, k)
  <2>1. PICK h \in Nat : h = handled + 1
    BY <1>3
  <2>2. h >= handled /\ h \in 1 .. h
    BY <1>3, <2>1
  <2>3. TypeOK /\ SentOK /\ rqC' = rqC /\ inC' = inC /\ Response("answer", h)
    BY <1>1, <1>2, <2>1
  <2>4. /\ s2c' \in Seq(Unit)
        /\ Sent(inC'.buf, h) /\ Sent(rqC', h) /\ Sent(s2c', h)
        /\ buff' \in Buff /\ BuffOK'
        /\ mishaps \subseteq mishaps' /\ mishaps' \subseteq {"mute", "spin", "wrap"}
        /\ \E m \in Msg, k \in Nat :
             /\ (m.kind = "answer" /\ m.n = h) \/ m.kind = "stale"
             /\ "wrap" \notin mishaps' => k <= m.len
             /\ Down' = Down \o Bytes(m, k)
    BY <2>2, <2>3, ResponseSent
  <2>. QED
    BY <2>1, <2>4, Zenon
<1>6. Dropped(b, ReqLen) \in Seq(Unit)
  BY <1>4, DroppedProperties
<1>7. inS' \in Stream /\ inS'.buf = Dropped(b, ReqLen) /\ ~ inS'.fail
  BY <1>2, <1>6 DEF Stream
<1>8. TypeOK'
  <2>1. handled' \in 0 .. MaxRequests
    BY <1>2, <1>3, Lengths
  <2>2. <<>> \in Seq(Unit)
    OBVIOUS
  <2>. QED
    BY <1>1, <1>5, <1>7, <2>1, <2>2 DEF TypeOK, Buff
<1>9. SentOK'
  BY <1>2, <1>5 DEF SentOK
<1>10. ClientServed'
  <2>1. SUFFICES ASSUME InStep'
                 PROVE  Single(Down', asked) /\ handled + 1 = asked /\ client # "menu"
    BY <1>1, <1>2, <1>3 DEF ClientServed
  <2>2. InStep /\ "wrap" \notin mishaps'
    BY <1>1, <1>5, <2>1 DEF InStep
  <2>3. handled + 1 = asked /\ client # "menu" /\ Down = <<>>
    BY <1>2, <1>3, <2>2 DEF ClientServed
  <2>4. PICK m \in Msg, k \in Nat :
          /\ (m.kind = "answer" /\ m.n = handled + 1) \/ m.kind = "stale"
          /\ k <= m.len
          /\ Down' = Down \o Bytes(m, k)
    BY <1>5, <2>2
  <2>5. /\ Bytes(m, k) \in Seq(Unit) /\ Len(Bytes(m, k)) = k
        /\ \A i \in 1 .. k : Bytes(m, k)[i] = [msg |-> m, at |-> i]
    BY BytesProperties
  <2>6. Down' = Bytes(m, k)
    BY <2>3, <2>4, <2>5
  <2>7. m.kind = "answer" => m.n = asked
    BY <2>3, <2>4
  <2>8. Single(Bytes(m, k), asked)
    BY <2>4, <2>5, <2>7 DEF Single
  <2>. QED
    BY <2>3, <2>6, <2>8
<1>11. UpOK'
  <2>1. Queued(Up, handled, asked) /\ Up = b \o c2s
    BY <1>2 DEF UpOK, Up, b
  <2>2. Up \in Seq(Unit) /\ Up # <<>>
    BY <1>2, <1>3, <1>4, <2>1
  <2>3. Queued(Dropped(Up, ReqLen), handled + 1, asked)
    <3>1. handled <= asked
      BY <1>2, <1>3
    <3>. QED
      BY <1>3, <2>1, <2>2, <3>1, QueuedDropped
  <2>4. Dropped(Up, ReqLen) = Dropped(b, ReqLen) \o c2s
    BY <1>3, <1>4, <2>1, DroppedOfTwo
  <2>5. Up' = (Dropped(b, ReqLen) \o <<>>) \o c2s
    BY <1>1, <1>7 DEF Up
  <2>6. Dropped(b, ReqLen) \o <<>> = Dropped(b, ReqLen)
    BY <1>6, ConcatProperties
  <2>. QED
    BY <1>1, <1>2, <2>3, <2>4, <2>5, <2>6 DEF UpOK
<1>12. Behind'
  BY <1>1, <1>2, <1>3, <1>7 DEF Behind
<1>13. GotOK' /\ ReadsOwnAnswer'
  BY <1>1, <1>5 DEF GotOK, ReadsOwnAnswer
<1>. QED
  BY <1>5, <1>8, <1>9, <1>10, <1>11, <1>12, <1>13

\* A server that could not read a request answers with an error, and is deaf.
LEMMA RefusesKeeps == ASSUME ConnInv, Refuses PROVE ConnInv'
<1>. USE DEF ConnInv
<1>1. /\ sk \in {"open", "spin"} /\ sk' = "open" /\ rqS' = <<>> /\ edge' \in BOOLEAN
      /\ UNCHANGED <<client, asked, got, c2s, rqC, inC, fin, rst>>
  BY DEF Refuses, Serves, ServerFrame
<1>2. /\ handled < asked /\ handled' = handled
      /\ inS' = [buf |-> <<>>, fail |-> TRUE]
      /\ Response("error", 0) /\ ("wrap" \in mishaps' => "wrap" \in mishaps)
  BY DEF Refuses
<1>3. /\ asked \in Nat /\ handled \in Nat
      /\ inC.buf \in Seq(Unit) /\ rqC \in Seq(Unit) /\ s2c \in Seq(Unit)
  BY TypeOKParts, Zenon
<1>4. <<>> \in Seq(Unit)
  OBVIOUS
<1>5. /\ s2c' \in Seq(Unit)
      /\ Sent(inC'.buf, handled) /\ Sent(rqC', handled) /\ Sent(s2c', handled)
      /\ buff' \in Buff /\ BuffOK'
      /\ mishaps \subseteq mishaps' /\ mishaps' \subseteq {"mute", "spin", "wrap"}
      /\ \E m \in Msg, k \in Nat :
           /\ (m.kind = "error" /\ m.n = 0) \/ m.kind = "stale"
           /\ Down' = Down \o Bytes(m, k)
  <2>1. PICK h \in Nat : h = handled
    BY <1>3
  <2>2. h >= handled /\ 0 \in Nat
    BY <1>3, <2>1
  <2>3. TypeOK /\ SentOK /\ rqC' = rqC /\ inC' = inC /\ Response("error", 0)
    BY <1>1, <1>2
  <2>4. /\ s2c' \in Seq(Unit)
        /\ Sent(inC'.buf, h) /\ Sent(rqC', h) /\ Sent(s2c', h)
        /\ buff' \in Buff /\ BuffOK'
        /\ mishaps \subseteq mishaps' /\ mishaps' \subseteq {"mute", "spin", "wrap"}
        /\ \E m \in Msg, k \in Nat :
             /\ (m.kind = "error" /\ m.n = 0) \/ m.kind = "stale"
             /\ "wrap" \notin mishaps' => k <= m.len
             /\ Down' = Down \o Bytes(m, k)
    BY <2>2, <2>3, ResponseSent
  <2>. QED
    BY <2>1, <2>4, Zenon
<1>6. inS' \in Stream /\ inS'.fail
  BY <1>2, <1>4, Failed DEF Stream
<1>7. TypeOK'
  BY <1>1, <1>2, <1>4, <1>5, <1>6 DEF TypeOK, Buff
<1>8. SentOK'
  BY <1>2, <1>5 DEF SentOK
<1>9. ~ Reading'
  BY <1>6 DEF Reading
<1>10. ClientServed'
  <2>1. SUFFICES ASSUME InStep' PROVE Silent(Down')
    BY <1>9 DEF ClientServed
  <2>2. InStep
    BY <1>1, <1>5, <2>1 DEF InStep
  <2>3. Silent(Down)
    BY <1>2, <1>3, <2>2 DEF ClientServed
  <2>4. PICK m \in Msg, k \in Nat :
          /\ (m.kind = "error" /\ m.n = 0) \/ m.kind = "stale"
          /\ Down' = Down \o Bytes(m, k)
    BY <1>5
  <2>5. /\ Bytes(m, k) \in Seq(Unit) /\ Len(Bytes(m, k)) = k
        /\ \A i \in 1 .. k : Bytes(m, k)[i] = [msg |-> m, at |-> i]
    BY BytesProperties
  <2>6. ASSUME NEW i \in 1 .. Len(Bytes(m, k)) PROVE Bytes(m, k)[i] \in NoAnswer
    <3>1. Bytes(m, k)[i] = [msg |-> m, at |-> i] /\ Bytes(m, k)[i] \in Unit
      BY <2>5
    <3>. QED
      BY <2>4, <3>1 DEF NoAnswer
  <2>7. Bytes(m, k) \in Seq(NoAnswer)
    BY <2>5, <2>6, IsASeq
  <2>8. Down \o Bytes(m, k) \in Seq(NoAnswer)
    BY <2>3, <2>7 DEF Silent
  <2>. QED
    BY <2>4, <2>8 DEF Silent
<1>11. UpOK' /\ GotOK' /\ ReadsOwnAnswer'
  BY <1>1, <1>5, <1>9 DEF UpOK, GotOK, ReadsOwnAnswer
<1>12. Behind'
  BY <1>1, <1>2, <1>3 DEF Behind
<1>. QED
  BY <1>5, <1>7, <1>8, <1>10, <1>11, <1>12

-----------------------------------------------------------------------------
(* The theorems.                                                              *)

LEMMA ServerSteps ==
  ASSUME ConnInv, ReadEvent \/ SpinEnds \/ HangUp \/ Die
  PROVE  Handles \/ Refuses \/ Takes \/ Closes
BY ReadEventSteps, SpinEndsSteps, HangUpSteps, DieSteps DEF ConnInv

LEMMA ConnInvariance == Spec => []ConnInv
<1>1. Init => ConnInv
  BY InitEstablishes
<1>2. ConnInv /\ [Next]_vars => ConnInv'
  <2>. SUFFICES ASSUME ConnInv, [Next]_vars PROVE ConnInv'
    OBVIOUS
  <2>1. CASE Ask
    BY <2>1, AskKeeps
  <2>2. CASE ClientRecv
    BY <2>2, ClientRecvKeeps
  <2>3. CASE ClientEOF
    BY <2>3, ClientEOFKeeps
  <2>4. CASE ClientExit
    BY <2>4, ClientExitKeeps
  <2>5. CASE ToServer
    BY <2>5, ToServerKeeps
  <2>6. CASE ToClient
    BY <2>6, ToClientKeeps
  <2>7. CASE ReadEvent \/ SpinEnds \/ HangUp \/ Die
    BY <2>7, ServerSteps, HandlesKeeps, RefusesKeeps, TakesKeeps, ClosesKeeps
  <2>8. CASE FinArrives \/ Accept \/ OtherClient \/ UNCHANGED vars
    BY <2>8, OthersKeep
  <2>. QED
    BY <2>1, <2>2, <2>3, <2>4, <2>5, <2>6, <2>7, <2>8 DEF Next
<1>. QED
  BY <1>1, <1>2, PTL DEF Spec

\* The streams of a connection hold nothing but bytes of messages, however they are
\* cut, and its sockets are in one of the states the two loops put them in
\* (IOLoop::start, TCPCommunicateSocket::recv).
THEOREM ConnectionTypes == Spec => []TypeOK
<1>1. ConnInv => TypeOK
  BY DEF ConnInv
<1>. QED
  BY <1>1, ConnInvariance, PTL

\* A client never takes an answer made for another request, or a part of one, for
\* the answer to its own (recvRsp), as long as nothing longer was sent than a header
\* can say: for any lengths of messages, buffers and pieces.
THEOREM OwnAnswerRead == Spec => []ReadsOwnAnswer
<1>1. ConnInv => ReadsOwnAnswer
  BY DEF ConnInv
<1>. QED
  BY <1>1, ConnInvariance, PTL

\* What a step does to the number of requests handled.
LEMMA HandledSteps ==
  ASSUME ConnInv, [Next]_vars
  PROVE  handled' = handled \/ Handles
<1>1. CASE ReadEvent \/ SpinEnds \/ HangUp \/ Die
  BY <1>1, ServerSteps DEF Refuses, Takes, Closes
<1>2. CASE Ask \/ ClientRecv \/ ClientEOF \/ ClientExit \/ ToServer \/ ToClient
            \/ FinArrives \/ Accept \/ OtherClient \/ UNCHANGED vars
  BY <1>2 DEF Ask, ClientRecv, ClientEOF, ClientExit, ToServer, ToClient, FinArrives, Accept,
              OtherClient, vars
<1>. QED
  BY <1>1, <1>2 DEF Next

\* The server handles the requests of a client one by one in the order they were
\* made, none twice and none after one it has missed (process_msg, read_header).
THEOREM RequestsInOrder == Spec => HandledInOrder
<1>1. ConnInv /\ [Next]_vars => [handled' # handled => handled' = handled + 1]_handled
  <2>. SUFFICES ASSUME ConnInv, [Next]_vars, handled' # handled
                PROVE  handled' = handled + 1
    OBVIOUS
  <2>. QED
    BY HandledSteps DEF Handles
<1>. QED
  BY <1>1, ConnInvariance, PTL DEF Spec, HandledInOrder

-----------------------------------------------------------------------------
(* A connection is a channel of requests and answers.                         *)

\* How the variables of Channel are read off a connection.
Client == IF client = "again" THEN "waiting" ELSE client
AnswerRead == IF got.kind = "answer" THEN got.n ELSE 0
Skewed == "wrap" \in mishaps

SameChannel ==
  /\ Client' = Client /\ AnswerRead' = AnswerRead /\ Skewed' = Skewed
  /\ asked' = asked /\ handled' = handled /\ inC'.fail = inC.fail

LEMMA SameChannelStutters == ASSUME SameChannel PROVE UNCHANGED Ch!vars
BY DEF SameChannel, Client, AnswerRead, Skewed, Ch!vars

LEMMA AskIsChannel == ASSUME ConnInv, Ask PROVE Ch!Ask
<1>1. /\ client = "menu" /\ asked < MaxRequests /\ asked' = asked + 1 /\ client' = "waiting"
      /\ got' = Nothing /\ handled' = handled /\ inC' = inC /\ mishaps' = mishaps
  BY DEF Ask
<1>2. got'.kind # "answer"
  BY <1>1 DEF Nothing
<1>. QED
  BY <1>1, <1>2 DEF Ch!Ask

\* Reading what there is: an answer, or none.
LEMMA ReadIsChannel ==
  ASSUME ConnInv, client \in {"waiting", "again"}, rqC # <<>> \/ sk = "closed",
         NEW s, ReadsFrom(s), NEW r \in Reads(s), got' = r.msg, inC' = r.stream,
         client' = "menu", UNCHANGED <<asked, handled, mishaps>>
  PROVE  Ch!ReadAnswer \/ Ch!ReadNone
<1>1. /\ inC'.fail \in {inC.fail, TRUE} /\ inC'.fail \in BOOLEAN /\ inC.fail \in BOOLEAN
      /\ got'.kind = "answer" => ~ inC'.fail /\ ~ inC.fail /\ got'.n \in 1 .. handled
  <2>1. /\ r.stream \in Stream /\ r.stream.fail \in {inC.fail, TRUE}
        /\ r.msg.kind = "answer" =>
             ~ r.stream.fail /\ ~ inC.fail /\ r.msg.n \in 1 .. handled
    BY ClientReadsTyped DEF ConnInv
  <2>2. inC.fail \in BOOLEAN /\ inC'.fail \in BOOLEAN
    BY <2>1, TypeOKParts DEF ConnInv, Stream
  <2>. QED
    BY <2>1, <2>2
<1>2. Client = "waiting" /\ Client' = "menu"
  BY DEF Client
<1>3. CASE got'.kind = "answer"
  <2>1. inC'.fail = inC.fail /\ ~ inC.fail
    BY <1>1, <1>3
  <2>2. "wrap" \notin mishaps => got'.n = asked /\ handled = asked
    BY <1>3, <2>1, ClientReadsInStep DEF ConnInv
  <2>3. Ch!ReadAnswer
    BY <1>1, <1>2, <1>3, <2>1, <2>2 DEF Ch!ReadAnswer, Client
  <2>. QED
    BY <2>3
<1>4. CASE got'.kind # "answer"
  BY <1>1, <1>2, <1>4 DEF Ch!ReadNone, Client
<1>. QED
  BY <1>3, <1>4

LEMMA LeavingIsChannel ==
  ASSUME client # "gone", client' = "gone", got' = Nothing, inC' = EmptyStream,
         UNCHANGED <<asked, handled, mishaps>>
  PROVE  Ch!Leave
<1>1. got'.kind # "answer" /\ inC'.fail = FALSE
  BY DEF Nothing, EmptyStream
<1>. QED
  BY <1>1 DEF Ch!Leave

LEMMA ClientRecvIsChannel ==
  ASSUME ConnInv, ClientRecv
  PROVE  Ch!ReadAnswer \/ Ch!ReadNone \/ SameChannel
<1>. DEFINE n == IF Len(rqC) < BuffSize THEN Len(rqC) ELSE BuffSize
            s == Stored(inC, SubSeq(rqC, 1, n))
<1>1. /\ rqC \in Seq(Unit) /\ inC \in Stream /\ n \in 0 .. Len(rqC) /\ Len(rqC) \in Nat
  BY TypeOKParts, Lengths DEF TypeOK, ConnInv
<1>2. /\ client \in {"waiting", "again"} /\ rqC # <<>>
      /\ IF n = BuffSize
         THEN client' = "again" /\ inC' = s /\ UNCHANGED got
         ELSE /\ \E r \in Reads(s) : got' = r.msg /\ inC' = r.stream
              /\ client' = "menu"
      /\ UNCHANGED <<asked, handled, mishaps>>
  BY DEF ClientRecv
<1>3. n # BuffSize => n = Len(rqC)
  BY <1>1
<1>. HIDE DEF n
<1>4. SubSeq(rqC, 1, n) \in Seq(Unit)
  BY <1>1, TakenProperties
<1>5. s \in Stream /\ s.fail = inC.fail /\ (~ inC.fail => s.buf = inC.buf \o SubSeq(rqC, 1, n))
  BY <1>1, <1>4, StoredProperties
<1>. HIDE DEF s
<1>6. CASE n = BuffSize
  BY <1>2, <1>5, <1>6 DEF SameChannel, Client, AnswerRead, Skewed
<1>7. CASE n # BuffSize
  <2>1. SubSeq(rqC, 1, n) = rqC
    BY <1>1, <1>3, <1>7, SubSeqFull
  <2>2. ReadsFrom(s)
    BY <1>5, <2>1, Zenon DEF ReadsFrom
  <2>. QED
    BY <1>2, <1>7, <2>2, ReadIsChannel
<1>. QED
  BY <1>6, <1>7

LEMMA ClientEOFIsChannel ==
  ASSUME ConnInv, ClientEOF
  PROVE  Ch!ReadAnswer \/ Ch!ReadNone \/ Ch!Leave
<1>1. /\ client \in {"waiting", "again"} /\ sk = "closed" /\ rqC = <<>>
      /\ UNCHANGED <<asked, handled, mishaps>>
  BY DEF ClientEOF
<1>2. CASE client = "again"
  <2>1. PICK r \in Reads(inC) : got' = r.msg /\ inC' = r.stream
    BY <1>2 DEF ClientEOF
  <2>2. client' = "menu"
    BY <1>2 DEF ClientEOF
  <2>3. ReadsFrom(inC)
    <3>1. inC \in Stream /\ inC.buf \o rqC = inC.buf
      BY <1>1, TypeOKParts DEF TypeOK, ConnInv
    <3>. QED
      BY <3>1 DEF ReadsFrom
  <2>. QED
    BY <1>1, <2>1, <2>2, <2>3, ReadIsChannel
<1>3. CASE client # "again"
  <2>1. client' = "gone" /\ got' = Nothing /\ inC' = EmptyStream /\ client # "gone"
    BY <1>1, <1>3 DEF ClientEOF
  <2>. QED
    BY <1>1, <2>1, LeavingIsChannel
<1>. QED
  BY <1>2, <1>3

LEMMA HandlesIsChannel == ASSUME ConnInv, Handles PROVE Ch!Handle
<1>1. /\ handled < asked /\ handled' = handled + 1
      /\ UNCHANGED <<client, asked, got, inC>> /\ mishaps \subseteq mishaps'
  BY DEF Handles, Serves, ServerFrame, Response
<1>2. ("wrap" \in mishaps') \in {"wrap" \in mishaps, TRUE}
  <2>1. "wrap" \in mishaps => "wrap" \in mishaps'
    BY <1>1
  <2>2. CASE "wrap" \in mishaps'
    <3>1. ("wrap" \in mishaps') = TRUE
      BY <2>2, Zenon
    <3>. QED
      BY <3>1, Zenon
  <2>3. CASE "wrap" \notin mishaps'
    <3>1. ("wrap" \in mishaps') = ("wrap" \in mishaps)
      BY <2>1, <2>3
    <3>. QED
      BY <3>1, Zenon
  <2>. QED
    BY <2>2, <2>3
<1>. QED
  BY <1>1, <1>2 DEF Ch!Handle

LEMMA ServerIsChannel ==
  ASSUME ConnInv, Refuses \/ Takes \/ Closes
  PROVE  SameChannel
<1>1. UNCHANGED <<client, asked, got, inC, handled>>
  BY DEF Refuses, Takes, Closes, Serves, ServerFrame
<1>2. "wrap" \in mishaps <=> "wrap" \in mishaps'
  BY DEF Refuses, Takes, Closes, Response
<1>. QED
  BY <1>1, <1>2 DEF SameChannel, Client, AnswerRead, Skewed

LEMMA OthersAreChannel ==
  ASSUME ToServer \/ ToClient \/ FinArrives \/ Accept \/ OtherClient \/ UNCHANGED vars
  PROVE  SameChannel
<1>1. UNCHANGED <<client, asked, got, inC, handled, mishaps>>
  BY DEF ToServer, ToClient, FinArrives, Accept, OtherClient, vars
<1>. QED
  BY <1>1 DEF SameChannel, Client, AnswerRead, Skewed

LEMMA ChannelStep == ASSUME ConnInv, [Next]_vars PROVE [Ch!Next]_Ch!vars
<1>1. CASE Ask
  BY <1>1, AskIsChannel DEF Ch!Next
<1>2. CASE ClientRecv
  BY <1>2, ClientRecvIsChannel, SameChannelStutters DEF Ch!Next
<1>3. CASE ClientEOF
  BY <1>3, ClientEOFIsChannel DEF Ch!Next
<1>4. CASE ClientExit
  <2>1. /\ client # "gone" /\ client' = "gone" /\ got' = Nothing /\ inC' = EmptyStream
        /\ UNCHANGED <<asked, handled, mishaps>>
    BY <1>4 DEF ClientExit
  <2>. QED
    BY <2>1, LeavingIsChannel DEF Ch!Next
<1>5. CASE ReadEvent \/ SpinEnds \/ HangUp \/ Die
  BY <1>5, ServerSteps, HandlesIsChannel, ServerIsChannel, SameChannelStutters DEF Ch!Next
<1>6. CASE ToServer \/ ToClient \/ FinArrives \/ Accept \/ OtherClient \/ UNCHANGED vars
  BY <1>6, OthersAreChannel, SameChannelStutters
<1>. QED
  BY <1>1, <1>2, <1>3, <1>4, <1>5, <1>6 DEF Next

LEMMA ChannelInit == Init => Ch!Init
BY DEF Init, Ch!Init, Nothing, EmptyStream

\* However its bytes are cut, run together, partly written or lost at the end of
\* either program, a connection does to them what Channel allows: requests are
\* handled in order, each at most once, and an answer is read for the last request
\* (TCPCommunicateSocket::recv and send, process_msg, recvRsp).
THEOREM ConnectionIsChannel == Spec => IsChannel
<1>1. Init => Ch!Init
  BY ChannelInit
<1>2. ConnInv /\ [Next]_vars => [Ch!Next]_Ch!vars
  BY ChannelStep
<1>. QED
  BY <1>1, <1>2, ConnInvariance, PTL DEF Spec, IsChannel, Ch!Spec

=============================================================================
