---------------------------- MODULE HandlerSteps ----------------------------
(* What one step of the server does to the client whose request it works on,  *)
(* without the way it does it: what becomes of the sessions, and what can be  *)
(* read of the answer.  AtmSystemProofs reasons from this about the service.  *)
EXTENDS CNProtoHandlerProofs

\* A request is handled at once, or its handler goes on later.
Process(req) ==
  \/ HandleConnect(req) \/ HandleLogOn(req) \/ HandleLogOff(req)
  \/ HandleCreate(req) \/ HandleDeposit(req) \/ HandleWithdraw(req)
  \/ HandleBalanceLookup(req) \/ HandleTransLookup(req)
Stage == ConnectSkip \/ ConnectGrant \/ CreateBalance \/ Record

LEMMA ProcessIsNext == ASSUME NEW req \in Requests, Process(req) PROVE Next
  BY DEF Process, Next

LEMMA StageIsNext == Stage => Next
  BY DEF Stage, Next

-----------------------------------------------------------------------------
(* The sessions.                                                             *)

\* The handler has more to do; a movement is under way on the account of the session.
Goes(req) ==
  /\ pc' # "idle" /\ job'.req = req /\ UNCHANGED <<clients, wire>>
  /\ req.type \in {"CONNECT", "CREATE_ACCOUNT", "DEPOSIT", "WITHDRAWAL"}
  /\ pc' = "connect" <=> req.type = "CONNECT"
  /\ pc' = "record" =>
       /\ req.type \in {"DEPOSIT", "WITHDRAWAL"} /\ req.cid \in Cid
       /\ clients[req.cid] = [state |-> "CL_LOGON", accnt |-> job'.accnt]

LogsOn(req) ==
  /\ pc' = "idle" /\ wire'.req = req /\ wire'.result = "CER_SUCCESS"
  /\ req.type = "LOGON" /\ req.cid \in Cid /\ clients[req.cid].state = "CL_CONNECTED"
  /\ clients' = [clients EXCEPT ![req.cid] = [state |-> "CL_LOGON", accnt |-> req.pan]]

LogsOff(req) ==
  /\ pc' = "idle" /\ wire'.req = req /\ wire'.result = "CER_SUCCESS"
  /\ req.type = "LOGOFF" /\ req.cid \in Cid /\ clients[req.cid].state = "CL_LOGON"
  /\ \E a \in AccntNo \cup {NoAccnt} :
       clients' = [clients EXCEPT ![req.cid] = [state |-> "CL_CONNECTED", accnt |-> a]]

\* Nothing happens to a session; a withdrawal of somebody logged on is not refused
\* with a result that its client does not know.
Replies(req) ==
  /\ pc' = "idle" /\ wire'.req = req /\ UNCHANGED clients
  /\ req.type # "CONNECT"
  /\ req.type = "LOGON" => wire'.result # "CER_SUCCESS"
  /\ req.type = "LOGOFF" => ~ LoggedOnAs(req)
  /\ req.type = "LOGOFF" => wire'.result # "CER_SUCCESS"
  /\ req.type = "WITHDRAWAL" /\ LoggedOnAs(req)
       => wire'.result \in {"CER_INSUFFICIENT_FUNDS", "CER_ERROR"}

Effect(req) == Goes(req) \/ LogsOn(req) \/ LogsOff(req) \/ Replies(req)

LEMMA AnswerWire ==
  ASSUME NEW req, NEW result, NEW info, Answer(req, result, info)
  PROVE  wire'.req = req /\ wire'.result = result
  BY DEF Answer, Send

LEMMA AnswerUnpointedWire ==
  ASSUME NEW type, NEW req, NEW result, AnswerUnpointed(type, req, result)
  PROVE  wire'.req = req /\ wire'.result = result
  BY DEF AnswerUnpointed, Send

LEMMA MoveEffect ==
  ASSUME CM!TypeOK, NEW req \in Requests, req.type \in {"DEPOSIT", "WITHDRAWAL"},
         req.cid \in Cid, LoggedOnAs(req), UNCHANGED clients,
         NEW v, NEW column, Move(req, v, column)
  PROVE  Effect(req)
<1>1. clients[req.cid] = [state |-> "CL_LOGON", accnt |-> AccntOf(req)]
  BY DEF LoggedOnAs, AccntOf, CM!TypeOK, CM!ClientEntity, Cid
<1>2. CASE Answer(req, "CER_ERROR", NoInfo) /\ Done
  BY <1>2, AnswerWire DEF Effect, Replies, Done
<1>3. CASE Continue("record", [req |-> req, accnt |-> AccntOf(req),
                               saved |-> accnt_balance[AccntOf(req)]])
  BY <1>1, <1>3 DEF Effect, Goes, Continue
<1>. QED
  BY <1>2, <1>3 DEF Move

LEMMA NoBalanceEffect ==
  ASSUME NEW req, req.type \in {"DEPOSIT", "WITHDRAWAL", "BALANCE_QUERY"},
         UNCHANGED clients, NoBalance(req)
  PROVE  Effect(req)
  BY AnswerWire DEF NoBalance, Effect, Replies, Done

LEMMA NotLoggedOnEffect ==
  ASSUME NEW req, req.type \in {"DEPOSIT", "WITHDRAWAL"}, UNCHANGED clients,
         NotLoggedOn(req)
  PROVE  Effect(req)
  BY AnswerUnpointedWire DEF NotLoggedOn, Effect, Replies, Done

\* What a request does.
LEMMA ProcessEffect ==
  ASSUME CM!TypeOK, NEW req \in Requests, Process(req)
  PROVE  Effect(req)
<1>1. CASE HandleConnect(req)
  BY <1>1 DEF HandleConnect, CM!NextClientID, Continue, Effect, Goes
<1>2. CASE HandleLogOn(req)
  <2>1. req.cid \in Cid /\ req.type = "LOGON" /\ pc' = "idle"
    BY <1>2, RequestFields DEF HandleLogOn, LogonRequest, Done
  <2>2. ASSUME NEW result \in {"CER_INVALID_NAME_PIN", "CER_INVALID_CLIENTID"},
               LogOnRefused(req, result)
        PROVE  Effect(req)
    BY <2>1, <2>2, AnswerUnpointedWire DEF LogOnRefused, sessions, Effect, Replies
  <2>3. CASE CM!LogOn(req.cid, req.pan) /\ Answer(req, "CER_SUCCESS", NoInfo)
    <3>1. clients' = [clients EXCEPT ![req.cid] = [state |-> "CL_LOGON", accnt |-> req.pan]]
      BY <2>1, <2>3
      DEF CM!LogOn, CM!SetClientState, CM!SetClientAcc, CM!TypeOK, CM!ClientEntity, Cid
    <3>. QED
      BY <2>1, <2>3, <3>1, AnswerWire DEF CM!LogOn, Effect, LogsOn
  <2>. QED
    BY <1>2, <2>2, <2>3 DEF HandleLogOn
<1>3. CASE HandleLogOff(req)
  <2>1. req.cid \in Cid /\ req.type = "LOGOFF" /\ pc' = "idle"
    BY <1>3, RequestFields DEF HandleLogOff, SessionRequest, Done
  <2>2. CASE /\ ~ LoggedOnAs(req) /\ Answer(req, "CER_INVALID_CLIENTID", NoInfo)
             /\ UNCHANGED sessions
    BY <2>1, <2>2, AnswerWire DEF sessions, Effect, Replies
  <2>3. CASE CM!LogOff(req.cid) /\ Answer(req, "CER_SUCCESS", NoInfo)
    <3>1. \E a \in AccntNo \cup {NoAccnt} :
            clients' = [clients EXCEPT ![req.cid] = [state |-> "CL_CONNECTED", accnt |-> a]]
      BY <2>1, <2>3
      DEF CM!LogOff, CM!SetClientState, CM!Fresh, CM!Remove, CM!Unused, CM!TypeOK, Cid
    <3>. QED
      BY <2>1, <2>3, <3>1, AnswerWire DEF CM!LogOff, Effect, LogsOff
  <2>. QED
    BY <1>3, <2>2, <2>3 DEF HandleLogOff
<1>4. CASE HandleCreate(req)
  <2>1. UNCHANGED clients
    BY <1>4 DEF HandleCreate, sessions
  <2>2. CASE Answer(req, "CER_ERROR", NoInfo) /\ Done
    BY <1>4, <2>1, <2>2, AnswerWire DEF HandleCreate, Effect, Replies, Done
  <2>3. CASE Continue("create", [req |-> req])
    BY <1>4, <2>1, <2>3 DEF HandleCreate, Effect, Goes, Continue
  <2>. QED
    BY <1>4, <2>2, <2>3 DEF HandleCreate
<1>5. CASE HandleDeposit(req)
  <2>1. req.cid \in Cid /\ req.type = "DEPOSIT" /\ UNCHANGED clients
    BY <1>5, RequestFields DEF HandleDeposit, DepositRequest, sessions
  <2>. QED
    BY <1>5, <2>1, MoveEffect, NoBalanceEffect, NotLoggedOnEffect DEF HandleDeposit
<1>6. CASE HandleWithdraw(req)
  <2>1. req.cid \in Cid /\ req.type = "WITHDRAWAL" /\ UNCHANGED clients
    BY <1>6, RequestFields DEF HandleWithdraw, WithdrawalRequest, sessions
  <2>2. CASE Answer(req, "CER_INSUFFICIENT_FUNDS", NoInfo) /\ Done
    BY <2>1, <2>2, AnswerWire DEF Effect, Replies, Done
  <2>. QED
    BY <1>6, <2>1, <2>2, MoveEffect, NoBalanceEffect, NotLoggedOnEffect DEF HandleWithdraw
<1>7. CASE HandleBalanceLookup(req)
  <2>1. req.type = "BALANCE_QUERY" /\ UNCHANGED clients
    BY <1>7 DEF HandleBalanceLookup, sessions
  <2>2. ASSUME NEW result, NEW info, Answer(req, result, info), Done PROVE Effect(req)
    BY <2>1, <2>2, AnswerWire DEF Effect, Replies, Done
  <2>. QED
    BY <1>7, <2>1, <2>2, NoBalanceEffect DEF HandleBalanceLookup
<1>8. CASE HandleTransLookup(req)
  <2>1. req.type = "TRANSACTION_QUERY" /\ UNCHANGED clients /\ pc' = "idle"
    BY <1>8 DEF HandleTransLookup, sessions, Done
  <2>2. wire'.req = req
    BY <1>8, AnswerWire DEF HandleTransLookup, TransNotLoggedOn, TransFound, Send
  <2>. QED
    BY <2>1, <2>2 DEF Effect, Replies
<1>. QED
  BY <1>1, <1>2, <1>3, <1>4, <1>5, <1>6, <1>7, <1>8 DEF Process

\* What the later steps of a handler do: CONNECT looks at one more ID, or grants it;
\* the others end.
Probes == pc = "connect" /\ UNCHANGED <<pc, job, wire, clients>>

Grants ==
  /\ pc = "connect" /\ pc' = "idle"
  /\ wire'.req = job.req /\ wire'.result = "CER_SUCCESS"
  /\ next \in Cid /\ clients[next].state = "CL_UNUSED"
  /\ \E a \in AccntNo \cup {NoAccnt} :
       clients' = [clients EXCEPT ![next] = [state |-> "CL_CONNECTED", accnt |-> a]]
  /\ wire'.msg.type = "CONNECT" /\ wire'.msg.result = "CER_SUCCESS"
  /\ wire'.msg.len = BodySize("CONNECT") /\ wire'.msg.info = next
  /\ wire'.size = HdrSize + BodySize("CONNECT") /\ wire'.msg # NoMsg

Ends ==
  /\ pc \in {"create", "record"} /\ pc' = "idle" /\ UNCHANGED clients
  /\ wire'.req = job.req /\ wire'.result \in {"CER_SUCCESS", "CER_ERROR"}

LEMMA StageEffect ==
  ASSUME CM!TypeOK, JobOK, BuffersOK, Stage
  PROVE  Probes \/ Grants \/ Ends
<1>1. CASE ConnectSkip
  BY <1>1 DEF ConnectSkip, CM!Skip, Probes
<1>2. CASE ConnectGrant
  <2>1. job.req.type = "CONNECT" /\ next # NoCid /\ pc = "connect" /\ pc' = "idle"
    BY <1>2 DEF ConnectGrant, JobOK, Done
  <2>2. next \in Cid /\ next # NoInfo
    BY <2>1, InfoAssumption DEF CM!TypeOK, Cid, CM!Cid
  <2>3. /\ clients[next].state = "CL_UNUSED"
        /\ \E a \in AccntNo \cup {NoAccnt} :
             clients' = [clients EXCEPT ![next] = [state |-> "CL_CONNECTED", accnt |-> a]]
    BY <1>2 DEF ConnectGrant, CM!Grant, CM!SetClientState, CM!Fresh
  <2>4. Answer(job.req, "CER_SUCCESS", next)
    BY <1>2 DEF ConnectGrant
  <2>5. /\ response'.type = "CONNECT" /\ response'.result = "CER_SUCCESS"
        /\ response'.len = BodySize("CONNECT") /\ response'.info = next
    BY <2>1, <2>2, <2>4 DEF Answer, Filled, BuffersOK, Message
  <2>6. wire'.msg = response' /\ wire'.size = HdrSize + BodySize("CONNECT")
    BY <2>1, <2>4 DEF Answer, Send
  <2>7. wire'.msg # NoMsg
    BY <2>5, <2>6 DEF NoMsg
  <2>. QED
    BY <2>1, <2>2, <2>3, <2>4, <2>5, <2>6, <2>7, AnswerWire DEF Grants
<1>3. CASE CreateBalance
  BY <1>3, AnswerWire DEF CreateBalance, Done, sessions, Ends
<1>4. CASE Record
  <2>1. PICK result \in {"CER_SUCCESS", "CER_ERROR"} : Answer(job.req, result, NoInfo)
    BY <1>4 DEF Record
  <2>. QED
    BY <1>4, <2>1, AnswerWire DEF Record, Done, sessions, Ends
<1>. QED
  BY <1>1, <1>2, <1>3, <1>4 DEF Stage

-----------------------------------------------------------------------------
(* The answers.  _buff may point at what an earlier request left.  Such a     *)
(* message announces a longer body than is sent, so that its reader goes deaf *)
(* and never takes it for its own.                                            *)

ReadAsSent(w) ==
  w.msg # NoMsg =>
    /\ w.size = HdrSize \/ w.size >= HdrSize + ResultSize
    /\ w.size <= HdrSize + w.msg.len
    /\ w.size = HdrSize + w.msg.len
         => w.msg.type = w.req.type /\ w.msg.result = w.result
    /\ w.msg.result = "CER_SUCCESS" /\ w.msg.type # "TRANSACTION_QUERY"
         => w.msg.type = w.req.type /\ w.msg.result = w.result

Readable ==
  /\ dyn # NoMsg => dyn.len > ResultSize
  /\ buff = "_response" => response.len > 0
  /\ wire.req.type \notin {"PURCHASE_STAMPS", "INVALID"} => ReadAsSent(wire)

LEMMA AnswerReadable ==
  ASSUME BuffersOK, Readable, NEW req, NEW result, NEW info, Answer(req, result, info)
  PROVE  Readable'
<1>1. BodySize(req.type) \in Nat /\ BodySize(req.type) >= ResultSize
  BY BodySizes
<1>2. /\ response'.type = req.type /\ response'.result = result
      /\ response'.len = BodySize(req.type)
  BY DEF Answer, Filled, BuffersOK, Message
<1>3. wire' = [req |-> req, result |-> result, info |-> info,
               size |-> HdrSize + BodySize(req.type), msg |-> response']
  BY DEF Answer, Send
<1>4. response'.len > 0 /\ dyn' = dyn
  BY <1>1, <1>2 DEF ResultSize, Answer
<1>5. ReadAsSent(wire)'
  BY <1>1, <1>2, <1>3 DEF ReadAsSent, HdrSize, ResultSize
<1>. QED
  BY <1>4, <1>5 DEF Readable

LEMMA AnswerUnpointedReadable ==
  ASSUME BuffersOK, Readable, NEW req, NEW result, result # "CER_SUCCESS",
         req.type \in {"LOGON", "DEPOSIT", "WITHDRAWAL"},
         AnswerUnpointed(req.type, req, result)
  PROVE  Readable'
<1>1. BodySize(req.type) = 8
  BY DEF BodySize
<1>2. response'.type = req.type /\ response'.result = result /\ response'.len = 8
  BY <1>1 DEF AnswerUnpointed, Filled, BuffersOK, Message
<1>3. UNCHANGED <<buff, dyn>>
  BY DEF AnswerUnpointed
<1>4. wire' = [req |-> req, result |-> result, info |-> NoInfo, size |-> HdrSize + 8,
               msg |-> CASE buff = "NULL" -> NoMsg
                         [] buff = "_response" -> response'
                         [] buff = "_dyn_buff" -> dyn]
  BY <1>1, <1>3 DEF AnswerUnpointed, Send
<1>5. wire'.req = req /\ wire'.result = result /\ wire'.size = 36
  BY <1>4 DEF HdrSize
<1>6. \/ wire'.msg = response'
      \/ (wire'.msg = dyn /\ dyn # NoMsg)
      \/ wire'.msg = NoMsg
  <2>1. buff = "NULL" => wire'.msg = NoMsg
    BY <1>4
  <2>2. buff = "_response" => wire'.msg = response'
    BY <1>4
  <2>3. buff = "_dyn_buff" => wire'.msg = dyn
    BY <1>4
  <2>. QED
    BY <2>1, <2>2, <2>3 DEF BuffersOK
<1>7. CASE wire'.msg = response'
  <2>1. ReadAsSent(wire)'
    BY <1>2, <1>5, <1>7 DEF ReadAsSent, HdrSize, ResultSize
  <2>. QED
    BY <1>2, <1>3, <2>1 DEF Readable
<1>8. CASE wire'.msg = dyn /\ dyn # NoMsg
  <2>1. dyn.type = "TRANSACTION_QUERY" /\ dyn.len > 8 /\ dyn.len \in Nat
    BY <1>8 DEF BuffersOK, Readable, Message, ResultSize
  <2>2. ReadAsSent(wire)'
    BY <1>5, <1>8, <2>1 DEF ReadAsSent, HdrSize, ResultSize
  <2>. QED
    BY <1>2, <1>3, <2>2 DEF Readable
<1>9. CASE wire'.msg = NoMsg
  BY <1>2, <1>3, <1>9 DEF ReadAsSent, Readable
<1>. QED
  BY <1>6, <1>7, <1>8, <1>9

LEMMA TransReadable ==
  ASSUME BuffersOK, Readable, NEW req, req.type = "TRANSACTION_QUERY",
         TransNotLoggedOn(req)
  PROVE  Readable'
<1>1. UNCHANGED <<buff, dyn>>
  BY DEF TransNotLoggedOn
<1>2. response'.result = "CER_CLIENT_NOT_LOGGEDON" /\ response'.len = response.len
  BY DEF TransNotLoggedOn, BuffersOK, Message
<1>3. wire' = [req |-> req, result |-> "CER_CLIENT_NOT_LOGGEDON", info |-> NoInfo,
               size |-> HdrSize, msg |-> CASE buff = "NULL" -> NoMsg
                                           [] buff = "_response" -> response'
                                           [] buff = "_dyn_buff" -> dyn]
  BY <1>1 DEF TransNotLoggedOn, Send
<1>4. response.len \in Nat
  BY DEF BuffersOK, Message
<1>5. CASE buff = "_response"
  <2>1. ReadAsSent(wire)'
    BY <1>2, <1>3, <1>4, <1>5 DEF ReadAsSent, Readable, HdrSize
  <2>. QED
    BY <1>1, <1>2, <2>1 DEF Readable
<1>6. CASE buff = "_dyn_buff"
  <2>1. dyn.type = "TRANSACTION_QUERY" /\ dyn.len > 8 /\ dyn.len \in Nat
    BY <1>6 DEF BuffersOK, Readable, Message, ResultSize
  <2>2. ReadAsSent(wire)'
    BY <1>3, <1>6, <2>1 DEF ReadAsSent, HdrSize, ResultSize
  <2>. QED
    BY <1>1, <1>2, <2>2 DEF Readable
<1>7. CASE buff = "NULL"
  BY <1>1, <1>3, <1>7 DEF ReadAsSent, Readable
<1>. QED
  BY <1>5, <1>6, <1>7 DEF BuffersOK

LEMMA TransFoundReadable ==
  ASSUME BuffersOK, Readable, NEW req, req.type = "TRANSACTION_QUERY",
         NEW a, NEW n \in Nat, TransFound(req, a, n)
  PROVE  Readable'
<1>1. CASE n <= 1
  BY <1>1, AnswerReadable DEF TransFound
<1>2. CASE ~ n <= 1
  <2>. DEFINE len == BodySize(req.type) + TransSize * (n - 1)
  <2>1. len \in Nat /\ len > ResultSize
    BY <1>2 DEF TransSize, ResultSize, BodySize
  <2>. HIDE DEF len
  <2>2. /\ dyn' = [type |-> req.type, len |-> len, result |-> "CER_SUCCESS", info |-> a]
        /\ buff' = "_dyn_buff"
        /\ Send(req, "CER_SUCCESS", a, HdrSize + len)
    BY <1>2 DEF TransFound, len
  <2>3. wire'.msg = dyn' /\ wire'.size = HdrSize + len /\ wire'.req = req
        /\ wire'.result = "CER_SUCCESS"
    BY <2>2 DEF Send
  <2>4. ReadAsSent(wire)'
    BY <2>1, <2>2, <2>3 DEF ReadAsSent, HdrSize, ResultSize
  <2>. QED
    BY <2>1, <2>2, <2>4 DEF Readable
<1>. QED
  BY <1>1, <1>2

LEMMA ReadableStep ==
  ASSUME CMP!Inv, TypeOK, Readable, [Next]_vars
  PROVE  Readable'
<1>1. BuffersOK /\ JobOK
  BY DEF TypeOK
<1>2. ASSUME UNCHANGED <<buffers, wire>> PROVE Readable'
  BY <1>2 DEF buffers, Readable, ReadAsSent
<1>3. ASSUME NEW req, NEW result, NEW info, Answer(req, result, info) PROVE Readable'
  BY <1>1, <1>3, AnswerReadable
<1>4. ASSUME NEW req \in Requests, HandleConnect(req) \/ HandleCreate(req) PROVE Readable'
  BY <1>2, <1>3, <1>4 DEF HandleConnect, HandleCreate, Continue
<1>5. CASE ConnectSkip
  BY <1>2, <1>5 DEF ConnectSkip
<1>6. CASE ConnectGrant \/ CreateBalance \/ Record
  BY <1>3, <1>6 DEF ConnectGrant, CreateBalance, Record
<1>7. ASSUME NEW req \in Requests, HandleLogOn(req) PROVE Readable'
  <2>1. ASSUME NEW result \in {"CER_INVALID_NAME_PIN", "CER_INVALID_CLIENTID"},
               LogOnRefused(req, result)
        PROVE  Readable'
    BY <1>1, <1>7, <2>1, AnswerUnpointedReadable DEF LogOnRefused, HandleLogOn
  <2>. QED
    BY <1>3, <1>7, <2>1 DEF HandleLogOn
<1>8. ASSUME NEW req \in Requests, HandleLogOff(req) \/ HandleBalanceLookup(req)
      PROVE  Readable'
  BY <1>3, <1>8 DEF HandleLogOff, HandleBalanceLookup, NoBalance
<1>9. ASSUME NEW req \in Requests, HandleDeposit(req) \/ HandleWithdraw(req)
      PROVE  Readable'
  <2>1. CASE NotLoggedOn(req)
    BY <1>1, <1>9, <2>1, AnswerUnpointedReadable
    DEF NotLoggedOn, HandleDeposit, HandleWithdraw
  <2>2. ASSUME NEW v, NEW column, Move(req, v, column) PROVE Readable'
    BY <1>2, <1>3, <2>2 DEF Move, Continue
  <2>. QED
    BY <1>3, <1>9, <2>1, <2>2 DEF HandleDeposit, HandleWithdraw, NoBalance
<1>10. ASSUME NEW req \in Requests, HandleTransLookup(req) PROVE Readable'
  <2>1. req.type = "TRANSACTION_QUERY" /\ req.cid \in Cid /\ req.count \in Nat
    BY <1>10, RequestFields, CountsAssumption DEF HandleTransLookup, TransRequest
  <2>2. CASE TransNotLoggedOn(req)
    BY <1>1, <2>1, <2>2, TransReadable
  <2>3. ASSUME LoggedOnAs(req),
               TransFound(req, AccntOf(req), DA!RecentCount(AccntOf(req), req.count))
        PROVE  Readable'
    <3>1. AccntOf(req) \in AccntNo
      BY <2>1, <2>3, SessionAccnt DEF LoggedOnAs, AccntOf
    <3>2. DA!RecentCount(AccntOf(req), req.count) \in Nat
      BY <2>1, <3>1 DEF DA!RecentCount, DA!TypeOK, TypeOK
    <3>. QED
      BY <1>1, <2>1, <2>3, <3>2, TransFoundReadable
  <2>. QED
    BY <1>3, <1>10, <2>2, <2>3 DEF HandleTransLookup
<1>11. ASSUME NEW req \in Requests, HandleUnknown(req) PROVE Readable'
  <2>1. wire'.req = req /\ req.type \in {"PURCHASE_STAMPS", "INVALID"}
    BY <1>11, AnswerUnpointedWire DEF HandleUnknown
  <2>2. UNCHANGED <<buff, dyn>> /\ response'.len = BodySize("INVALID")
    BY <1>1, <1>11 DEF HandleUnknown, AnswerUnpointed, Filled, BuffersOK, Message
  <2>. QED
    BY <2>1, <2>2 DEF Readable, BodySize
<1>12. CASE Restart
  BY <1>12 DEF Restart, Readable, ReadAsSent, NoWire
<1>13. CASE UNCHANGED vars
  BY <1>2, <1>13 DEF vars
<1>. QED
  BY <1>4, <1>5, <1>6, <1>7, <1>8, <1>9, <1>10, <1>11, <1>12, <1>13 DEF Next

LEMMA ReadableInit == Init => Readable
  BY DEF Init, Readable, ReadAsSent, NoWire

\* A message whose reader gets all that it announces is the answer to its request,
\* with the result that was reached; and a stale one never is a CONNECT, LOGON or
\* LOGOFF that succeeded.
THEOREM AnswersReadable == Spec => []Readable
<1>1. Inv /\ Readable /\ [Next]_vars => Readable'
  BY ReadableStep DEF Inv
<1>. QED
  BY <1>1, ReadableInit, Invariance, PTL DEF Spec

=============================================================================
