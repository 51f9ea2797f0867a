--------------------------- MODULE CNProtoHandler ---------------------------
(* The ATM server: CNProtoHandler (proto_impl.cpp) over the table of client   *)
(* IDs (ClientsManager) and the database (AtmDataAccess).  IOLoop is one      *)
(* thread and has one CNProtoHandler, so requests of all connections are      *)
(* handled one after the other; what interleaves with a handler is the death  *)
(* of the process, between any two statements, and the failure of statements. *)
(*                                                                            *)
(* A handler that does one change is one action.  The three that change the   *)
(* state in several steps have a stage for each (pc): CONNECT probes for a    *)
(* free ID; CREATE_ACCOUNT inserts the account, then its balance row;         *)
(* DEPOSIT and WITHDRAWAL write the balance, then the transaction record.     *)
(*                                                                            *)
(* The answer is built in _response, or in _dyn_buff when it carries more     *)
(* than one transaction, and _buff says which of the two is sent.  All three  *)
(* are members of the one handler and keep their contents from request to     *)
(* request.                                                                   *)
EXTENDS Integers, Sequences, SequencesExt, CNP_Protocol

CONSTANTS
  AccntNo, NoAccnt, MAXCID, FirstCid, NoCid, MaxConnects,  \* ClientsManager
  NoRow, Pins, SSNs, Word, RecWord, Faults,                \* AtmDataAccess
  Amounts,       \* the amounts clients ask for, each a DWORD
  Counts,        \* the numbers of transactions clients ask for
  RequestTypes,  \* bound: the kinds of request the clients of a run send
  MaxTrans,      \* bound: transactions recorded for an account
  MaxMoney,      \* bound: the balances that deposits lead to
  Crashes,       \* whether the server process may die
  NoInfo         \* the payload of an answer that carries none

\* ClientsManager's assumptions.
ASSUME SessionsAssumption ==
  /\ MAXCID \in Nat /\ FirstCid \in 0 .. MAXCID /\ NoCid \notin 0 .. MAXCID
  /\ NoAccnt \notin AccntNo
  /\ MaxConnects \in Nat
\* What AtmDataAccess needs of its constants.
ASSUME TablesAssumption ==
  /\ Word \in Nat \ {0} /\ RecWord \in Nat \ {0} /\ RecWord <= Word
  /\ NoRow \notin [pin : Pins, ssn : SSNs]
  /\ Faults \in BOOLEAN
\* A DWORD is no wider than the columns, and long long has one bit less.
ASSUME AmountsAssumption == Amounts \subseteq 0 .. Word - 1
ASSUME CountsAssumption == Counts \subseteq Nat
ASSUME BoundsAssumption == MaxTrans \in Nat /\ MaxMoney \in 0 .. Word - 1
ASSUME InfoAssumption == NoInfo \notin (0 .. MAXCID) \cup AccntNo

VARIABLES
  clients, gcid, nClients, next, granted,           \* ClientsManager
  accnt_info, accnt_balance, trans_rec, link,       \* AtmDataAccess
  pc,        \* "idle", or what the running handler does next
  job,       \* the request of a handler between two steps, and its locals
  response,  \* _response
  dyn,       \* _dyn_buff
  buff,      \* _buff: "NULL", "_response" or "_dyn_buff"
  wire,      \* the last request answered and what was sent for it
  disturbed  \* history: accounts a fault or a second balance row left uneven

CM == INSTANCE ClientsManager
DA == INSTANCE AtmDataAccess

sessions == <<clients, gcid, nClients, next, granted>>
tables == <<accnt_info, accnt_balance, trans_rec>>
buffers == <<response, dyn, buff>>
vars == <<sessions, tables, link, pc, job, buffers, wire, disturbed>>

-----------------------------------------------------------------------------
(* Requests.                                                                 *)

Cid == CM!Cid

\* PURCHASE_STAMPS has a message type and no handler; INVALID is a message that
\* read_header or read_body found incomplete, or of a type unknown to the server.
PlainRequest == [type : {"CONNECT", "PURCHASE_STAMPS", "INVALID"}]
CreateRequest == [type : {"CREATE_ACCOUNT"}, pin : Pins, ssn : SSNs]
LogonRequest == [type : {"LOGON"}, cid : Cid, pan : AccntNo, pin : Pins]
SessionRequest == [type : {"LOGOFF", "BALANCE_QUERY"}, cid : Cid]
TransRequest == [type : {"TRANSACTION_QUERY"}, cid : Cid, count : Counts]
DepositRequest == [type : {"DEPOSIT"}, cid : Cid, amount : Amounts, kind : DEPOSIT_TYPE]
WithdrawalRequest == [type : {"WITHDRAWAL"}, cid : Cid, amount : Amounts]

Requests == UNION {PlainRequest, CreateRequest, LogonRequest, SessionRequest,
                   TransRequest, DepositRequest, WithdrawalRequest}

NoReq == [type |-> "none"]
NoJob == [req |-> NoReq]

\* A variant that asks for an account number instead of the state.
HasAccnt(req) == clients[req.cid].accnt \in AccntNo

\* The account the client of a request is logged on to (getByID).
LoggedOnAs(req) == clients[req.cid].state = "CL_LOGON"
AccntOf(req) == clients[req.cid].accnt

-----------------------------------------------------------------------------
(* Messages.  A message is its header's type and length, the result code at   *)
(* the start of its body, and what its payload is about: the client ID of     *)
(* CONNECT, the account of CREATE_ACCOUNT and of the two queries.  The body   *)
(* is a union: fields no handler assigns keep what was there.                 *)

Info == Cid \cup AccntNo \cup {NoInfo}
Message == [type : MsgType, len : Nat, result : CER_TYPE, info : Info]
NoMsg == [type |-> "none"]

\* _uResponse() and the default constructors of its header and body.
EmptyResponse ==
  [type |-> "INVALID", len |-> 0, result |-> "CER_ERROR", info |-> NoInfo]

\* _response after a handler set type, length and result.
Filled(type, result) ==
  [response EXCEPT !.type = type, !.len = BodySize(type), !.result = result]

NoWire == [req |-> NoReq, result |-> "CER_ERROR", info |-> NoInfo,
           size |-> 0, msg |-> NoMsg]

\* The handler returns: IOLoop sends `size` bytes from where _buff points; a
\* NULL _buff is an EFAULT and nothing is sent.
Send(req, result, info, size) ==
  wire' = [req |-> req, result |-> result, info |-> info, size |-> size,
           msg |-> CASE buff' = "NULL" -> NoMsg
                     [] buff' = "_response" -> response'
                     [] buff' = "_dyn_buff" -> dyn']

\* A variant of the next operator that does not point _buff at _response.
AnswerInPlace(req, result, info) ==
  /\ response' = [Filled(req.type, result) EXCEPT
                    !.info = IF info = NoInfo THEN @ ELSE info]
  /\ UNCHANGED <<buff, dyn>>
  /\ Send(req, result, info, HdrSize + BodySize(req.type))

\* The answer is in _response and _buff points there.
Answer(req, result, info) ==
  /\ response' = [Filled(req.type, result) EXCEPT
                    !.info = IF info = NoInfo THEN @ ELSE info]
  /\ buff' = "_response"
  /\ dyn' = dyn
  /\ Send(req, result, info, HdrSize + BodySize(req.type))

\* The early returns of LOGON, DEPOSIT, WITHDRAWAL and of unknown types: the
\* answer is in _response, and _buff is left pointing where it did.
AnswerUnpointed(type, req, result) ==
  /\ response' = Filled(type, result)
  /\ UNCHANGED <<buff, dyn>>
  /\ Send(req, result, NoInfo, HdrSize + BodySize(type))

-----------------------------------------------------------------------------

Init ==
  /\ CM!Init
  /\ DA!Init
  /\ pc = "idle"
  /\ job = NoJob
  /\ response = EmptyResponse
  /\ dyn = NoMsg
  /\ buff = "NULL"
  /\ wire = NoWire
  /\ disturbed = {}

\* The next request reaches an idle handler.
Handles(req) == pc = "idle" /\ req.type \in RequestTypes

\* A handler of one step ends, one of several goes on in stage `stage`.
Done == pc' = "idle" /\ job' = NoJob
Continue(stage, j) == pc' = stage /\ job' = j /\ UNCHANGED <<buffers, wire>>

-----------------------------------------------------------------------------
(* _handleConnect.                                                           *)

HandleConnect(req) ==
  /\ Handles(req) /\ req.type = "CONNECT"
  /\ CM!NextClientID
  /\ Continue("connect", [req |-> req])
  /\ UNCHANGED <<tables, link, disturbed>>

ConnectSkip ==
  /\ pc = "connect"
  /\ CM!Skip
  /\ UNCHANGED <<tables, link, pc, job, buffers, wire, disturbed>>

\* A variant that does not tell the client its ID.
ConnectGrantUntold ==
  /\ pc = "connect"
  /\ CM!Grant
  /\ Answer(job.req, "CER_SUCCESS", NoInfo)
  /\ Done
  /\ UNCHANGED <<tables, link, disturbed>>

ConnectGrant ==
  /\ pc = "connect"
  /\ CM!Grant
  /\ Answer(job.req, "CER_SUCCESS", next)
  /\ Done
  /\ UNCHANGED <<tables, link, disturbed>>

-----------------------------------------------------------------------------
(* _handleLogOn.  The account is looked up and its PIN compared before the    *)
(* client ID is; only then may the session start.                             *)

LogOnRefused(req, result) ==
  /\ AnswerUnpointed("LOGON", req, result)
  /\ UNCHANGED sessions

HandleLogOn(req) ==
  /\ Handles(req) /\ req.type = "LOGON"
  /\ \/ DA!SelectFails /\ LogOnRefused(req, "CER_INVALID_NAME_PIN")
     \/ /\ "ok" \in DA!Outcomes
        /\ UNCHANGED <<tables, link>>
        /\ LET acc == accnt_info[req.pan]
               known == acc # NoRow /\ acc.pin = req.pin IN
             \/ ~ known /\ LogOnRefused(req, "CER_INVALID_NAME_PIN")
             \/ /\ known /\ clients[req.cid].state # "CL_CONNECTED"
                /\ LogOnRefused(req, "CER_INVALID_CLIENTID")
             \/ /\ known /\ CM!LogOn(req.cid, req.pan)
                /\ Answer(req, "CER_SUCCESS", NoInfo)
  /\ Done
  /\ UNCHANGED disturbed

-----------------------------------------------------------------------------
(* _handleLogOff.                                                            *)

\* A variant that does not put the entry of the client back.
LogOffRemoves(req) ==
  /\ Handles(req) /\ req.type = "LOGOFF"
  /\ LoggedOnAs(req)
  /\ clients' = CM!Remove(clients, req.cid)
  /\ nClients' = nClients - 1
  /\ UNCHANGED <<gcid, next, granted>>
  /\ Answer(req, "CER_SUCCESS", NoInfo)
  /\ Done
  /\ UNCHANGED <<tables, link, disturbed>>

HandleLogOff(req) ==
  /\ Handles(req) /\ req.type = "LOGOFF"
  /\ \/ /\ ~ LoggedOnAs(req)
        /\ Answer(req, "CER_INVALID_CLIENTID", NoInfo)
        /\ UNCHANGED sessions
     \/ CM!LogOff(req.cid) /\ Answer(req, "CER_SUCCESS", NoInfo)
  /\ Done
  /\ UNCHANGED <<tables, link, disturbed>>

-----------------------------------------------------------------------------
(* _handleAccntCreat.                                                        *)

HandleCreate(req) ==
  /\ Handles(req) /\ req.type = "CREATE_ACCOUNT"
  /\ \E a \in AccntNo, o \in DA!Outcomes :
       /\ DA!createAccnt(a, [pin |-> req.pin, ssn |-> req.ssn], o)
       /\ IF o = "ok" THEN Continue("create", [req |-> req])
                      ELSE Answer(req, "CER_ERROR", NoInfo) /\ Done
  /\ UNCHANGED <<sessions, disturbed>>

\* The new account is looked up by its SSN, and gets an empty balance row.
CreateBalance ==
  /\ pc = "create"
  /\ \/ /\ DA!SelectFails
        /\ Answer(job.req, "CER_ERROR", NoInfo)
        /\ UNCHANGED disturbed
     \/ \E a \in DA!AccntsBySSN(job.req.ssn), o \in DA!Outcomes :
          /\ "ok" \in DA!Outcomes
          /\ DA!createBalanceRec(a, o)
          /\ disturbed' = IF accnt_balance[a] \subseteq {DA!ZeroBalance} THEN disturbed
                                                         ELSE disturbed \cup {a}
          /\ IF o = "ok" THEN Answer(job.req, "CER_SUCCESS", a)
                         ELSE Answer(job.req, "CER_ERROR", NoInfo)
  /\ Done
  /\ UNCHANGED sessions

-----------------------------------------------------------------------------
(* _handleDeposit and _handleWithdraw.                                       *)

\* A variant that keeps the difference signed and does not look at the sign.
MinusSigned(x, y) == x - y

\* A variant of the test below that looks at the unsigned difference.
NeverNegative(x) == x >= 0

\* Arithmetic of unsigned long long.
Plus(x, y) == IF x + y < Word THEN x + y ELSE x + y - Word
Minus(x, y) == IF y <= x THEN x - y ELSE x + Word - y
\* (long long)x >= 0.
NonNegative(x) == 2 * x < Word

NotLoggedOn(req) ==
  /\ ~ LoggedOnAs(req)
  /\ AnswerUnpointed(req.type, req, "CER_CLIENT_NOT_LOGGEDON")
  /\ UNCHANGED <<tables, link, disturbed>>
  /\ Done

\* No balance row, or the query for it failed.
NoBalance(req) ==
  /\ LoggedOnAs(req)
  /\ \/ DA!SelectFails
     \/ /\ "ok" \in DA!Outcomes /\ accnt_balance[AccntOf(req)] = {}
        /\ UNCHANGED <<tables, link>>
  /\ Answer(req, "CER_ERROR", NoInfo)
  /\ UNCHANGED disturbed
  /\ Done

\* updateAccntBalance, and addTransRec next if it reports a changed row.
Move(req, v, column) ==
  LET a == AccntOf(req) IN
  \E o \in DA!Outcomes :
    /\ DA!updateAccntBalance(a, v, column, o)
    /\ IF DA!UpdateReported(a, v, column, o)
       THEN /\ Continue("record", [req |-> req, accnt |-> a, saved |-> accnt_balance[a]])
            /\ UNCHANGED disturbed
       ELSE /\ Answer(req, "CER_ERROR", NoInfo)
            /\ disturbed' = IF accnt_balance' = accnt_balance THEN disturbed
                                                              ELSE disturbed \cup {a}
            /\ Done

HandleDeposit(req) ==
  /\ Handles(req) /\ req.type = "DEPOSIT"
  /\ \/ NotLoggedOn(req)
     \/ NoBalance(req)
     \/ /\ LoggedOnAs(req) /\ "ok" \in DA!Outcomes
        /\ Len(trans_rec[AccntOf(req)]) < MaxTrans
        /\ \E r \in accnt_balance[AccntOf(req)] :
             LET bal == Plus(r[req.kind], req.amount) IN
             bal <= MaxMoney /\ Move(req, bal, req.kind)
  /\ UNCHANGED sessions

HandleWithdraw(req) ==
  /\ Handles(req) /\ req.type = "WITHDRAWAL"
  /\ \/ NotLoggedOn(req)
     \/ NoBalance(req)
     \/ /\ LoggedOnAs(req) /\ "ok" \in DA!Outcomes
        /\ Len(trans_rec[AccntOf(req)]) < MaxTrans
        /\ \E r \in accnt_balance[AccntOf(req)] :
             LET bal == Minus(r.cash, req.amount) IN
             \/ NonNegative(bal) /\ Move(req, bal, "cash")
             \/ /\ ~ NonNegative(bal)
                /\ Answer(req, "CER_INSUFFICIENT_FUNDS", NoInfo)
                /\ UNCHANGED <<tables, link, disturbed>>
                /\ Done
  /\ UNCHANGED sessions

\* A variant that answers without looking at what addTransRec returned.
RecordBlindly ==
  /\ pc = "record"
  /\ \E o \in DA!Outcomes :
       /\ DA!addTransRec(job.accnt,
            IF job.req.type = "DEPOSIT" THEN "TT_DEPOSIT" ELSE "TT_WITHDRAW",
            job.req.amount, o)
       /\ Answer(job.req, "CER_SUCCESS", NoInfo)
       /\ disturbed' = IF DA!Executed(o) THEN disturbed ELSE disturbed \cup {job.accnt}
  /\ Done
  /\ UNCHANGED sessions

\* addTransRec: only now is the movement a success.  If it fails the balance
\* stays as it was written.
Record ==
  /\ pc = "record"
  /\ \E o \in DA!Outcomes :
       /\ DA!addTransRec(job.accnt,
            IF job.req.type = "DEPOSIT" THEN "TT_DEPOSIT" ELSE "TT_WITHDRAW",
            job.req.amount, o)
       /\ Answer(job.req, IF o = "ok" THEN "CER_SUCCESS" ELSE "CER_ERROR", NoInfo)
       /\ disturbed' = IF DA!Executed(o) THEN disturbed ELSE disturbed \cup {job.accnt}
  /\ Done
  /\ UNCHANGED sessions

-----------------------------------------------------------------------------
(* _handleBalanceLookup and _handleTransLookup.                              *)

HandleBalanceLookup(req) ==
  /\ Handles(req) /\ req.type = "BALANCE_QUERY"
  /\ \/ /\ ~ LoggedOnAs(req)
        /\ Answer(req, "CER_CLIENT_NOT_LOGGEDON", NoInfo)
        /\ UNCHANGED <<tables, link, disturbed>>
        /\ Done
     \/ NoBalance(req)
     \/ /\ LoggedOnAs(req) /\ "ok" \in DA!Outcomes
        /\ accnt_balance[AccntOf(req)] # {}
        /\ Answer(req, "CER_SUCCESS", AccntOf(req))
        /\ UNCHANGED <<tables, link, disturbed>>
        /\ Done
  /\ UNCHANGED sessions

\* A variant whose early return counts the body of the answer into its size.
TransNotLoggedOnFull(req) ==
  /\ ~ LoggedOnAs(req)
  /\ response' = [response EXCEPT !.result = "CER_CLIENT_NOT_LOGGEDON"]
  /\ UNCHANGED <<buff, dyn>>
  /\ Send(req, "CER_CLIENT_NOT_LOGGEDON", NoInfo, HdrSize + BodySize(req.type))
  /\ UNCHANGED <<tables, link>>

\* This early return sets the result only: the header of _response keeps the
\* type and length of the last answer, _buff its target, and the size is that of
\* a header alone.
TransNotLoggedOn(req) ==
  /\ ~ LoggedOnAs(req)
  /\ response' = [response EXCEPT !.result = "CER_CLIENT_NOT_LOGGEDON"]
  /\ UNCHANGED <<buff, dyn>>
  /\ Send(req, "CER_CLIENT_NOT_LOGGEDON", NoInfo, HdrSize)
  /\ UNCHANGED <<tables, link>>

\* n transactions: more than one do not fit into _response, and go into a
\* _dyn_buff of their own.
TransFound(req, a, n) ==
  IF n <= 1
  THEN Answer(req, "CER_SUCCESS", a)
  ELSE LET len == BodySize(req.type) + TransSize * (n - 1) IN
       /\ dyn' = [type |-> req.type, len |-> len, result |-> "CER_SUCCESS", info |-> a]
       /\ buff' = "_dyn_buff"
       /\ response' = response
       /\ Send(req, "CER_SUCCESS", a, HdrSize + len)

HandleTransLookup(req) ==
  /\ Handles(req) /\ req.type = "TRANSACTION_QUERY"
  /\ \/ TransNotLoggedOn(req)
     \/ LoggedOnAs(req) /\ DA!SelectFails /\ Answer(req, "CER_ERROR", NoInfo)
     \/ /\ LoggedOnAs(req) /\ "ok" \in DA!Outcomes
        /\ TransFound(req, AccntOf(req), DA!RecentCount(AccntOf(req), req.count))
        /\ UNCHANGED <<tables, link>>
  /\ Done
  /\ UNCHANGED <<sessions, disturbed>>

-----------------------------------------------------------------------------
(* Everything else: generate_content's default.                              *)

HandleUnknown(req) ==
  /\ Handles(req) /\ req.type \in {"PURCHASE_STAMPS", "INVALID"}
  /\ AnswerUnpointed("INVALID", req, "CER_ERROR")
  /\ Done
  /\ UNCHANGED <<sessions, tables, link, disturbed>>

\* The process dies and is started again: memory is lost, the tables are not.
Restart ==
  /\ Crashes
  /\ CM!Restart
  /\ link' = TRUE
  /\ response' = EmptyResponse
  /\ dyn' = NoMsg
  /\ buff' = "NULL"
  /\ wire' = NoWire
  /\ disturbed' = IF pc = "record" THEN disturbed \cup {job.accnt} ELSE disturbed
  /\ Done
  /\ UNCHANGED tables

Next ==
  \/ \E req \in Requests :
       \/ HandleConnect(req)
       \/ HandleLogOn(req)
       \/ HandleLogOff(req)
       \/ HandleCreate(req)
       \/ HandleDeposit(req)
       \/ HandleWithdraw(req)
       \/ HandleBalanceLookup(req)
       \/ HandleTransLookup(req)
       \/ HandleUnknown(req)
  \/ ConnectSkip
  \/ ConnectGrant
  \/ CreateBalance
  \/ Record
  \/ Restart

Spec == Init /\ [][Next]_vars

-----------------------------------------------------------------------------
(* What is checked.                                                          *)

\* Each stage of a handler has its request and locals, and probes for a client ID
\* exactly in "connect".
JobOK ==
  /\ \/ pc = "idle" /\ job = NoJob
     \/ pc = "connect" /\ job \in [req : PlainRequest] /\ job.req.type = "CONNECT"
     \/ pc = "create" /\ job \in [req : CreateRequest]
     \/ /\ pc = "record"
        /\ job \in [req : DepositRequest \cup WithdrawalRequest, accnt : AccntNo,
                    saved : SUBSET DA!AccntBalance]
  /\ pc = "connect" <=> next # NoCid

\* The buffers hold messages, _dyn_buff those of transaction queries only, and
\* _buff never points at a _dyn_buff that was not allocated.
BuffersOK ==
  /\ response \in Message
  /\ dyn \in Message \cup {NoMsg}
  /\ dyn # NoMsg => dyn.type = "TRANSACTION_QUERY"
  /\ buff \in {"NULL", "_response", "_dyn_buff"}
  /\ buff = "_dyn_buff" => dyn # NoMsg
  /\ wire \in [req : Requests \cup {NoReq}, result : CER_TYPE, info : Info, size : Nat,
               msg : Message \cup {NoMsg}]

TypeOK ==
  /\ CM!TypeOK
  /\ DA!TypeOK
  /\ JobOK
  /\ BuffersOK
  /\ disturbed \subseteq AccntNo

(* The ledger. *)

\* What the recorded transactions of an account add up to.
Signed(t) == IF t.type = "TT_DEPOSIT" THEN t.amount ELSE - t.amount
Net(records) ==
  LET sum[n \in 0 .. Len(records)] ==
        IF n = 0 THEN 0 ELSE sum[n - 1] + Signed(records[n])
  IN sum[Len(records)]

\* Between requests the balance of an account is what its transaction records add
\* up to, unless a failure or a crash between the two statements of a movement, or
\* a second balance row for the account, came in between.
LedgerMatches ==
  \A a \in AccntNo \ disturbed :
    (pc = "record" => job.accnt # a)
      => /\ accnt_balance[a] = {} => trans_rec[a] = <<>>
         /\ \A r \in accnt_balance[a] : r.cash + r.check = Net(trans_rec[a])

\* The request a step works on.
ReqOf(p, j, w) == IF p = "idle" THEN w.req ELSE j.req

\* old became new by x, or past the end of unsigned long long: a sum that does not
\* fit, and a difference so far below 0 that as a long long it is positive again.
Credited(old, x, new) ==
  \/ new = old + x
  \/ old + x >= Word /\ new = old + x - Word
Debited(old, x, new) ==
  \/ x <= old /\ new = old - x
  \/ 2 * (x - old) > Word /\ new = old - x + Word

\* Money moves only in the account of the session that asked for it, in the column
\* it asked for, by exactly the amount it asked for and never below 0, unless the
\* arithmetic wraps; then it is off by the width of a column, and by nothing else.
\* CREATE_ACCOUNT only adds an empty row.
MovesAsAsked(a, req) ==
  \/ /\ req.type = "CREATE_ACCOUNT"
     /\ accnt_balance'[a] = accnt_balance[a] \cup {DA!ZeroBalance}
  \/ /\ req.type \in {"DEPOSIT", "WITHDRAWAL"}
     /\ clients[req.cid] = [state |-> "CL_LOGON", accnt |-> a]
     /\ \E r \in accnt_balance[a] : \A s \in accnt_balance'[a] :
          IF req.type = "DEPOSIT" THEN Credited(r[req.kind], req.amount, s[req.kind])
                                  ELSE Debited(r.cash, req.amount, s.cash)
MoneyMovesAsAsked ==
  [][\A a \in AccntNo : accnt_balance'[a] # accnt_balance[a]
                          => MovesAsAsked(a, ReqOf(pc', job', wire'))]_vars

\* A recorded transaction is never changed or dropped, and one is added only for
\* a movement whose balance was written before.
RecordsFollowMoney ==
  [][\A a \in AccntNo : trans_rec'[a] # trans_rec[a]
       => /\ pc = "record" /\ job.accnt = a
          /\ IsStrictPrefix(trans_rec[a], trans_rec'[a])
          /\ job.saved # accnt_balance[a]]_vars

(* Answers. *)

\* What a client can read of what it was sent: recvRsp reads the header, and then
\* a body whose result counts only if the bytes of the result were sent.
Told ==
  IF wire.msg # NoMsg /\ wire.size >= HdrSize + ResultSize
  THEN [type |-> wire.msg.type, result |-> wire.msg.result]
  ELSE [type |-> "none", result |-> "none"]

\* A request that succeeded is answered: _buff points at the message this handler
\* built, of the request's type, with its payload and the length that is sent.
SuccessIsTold ==
  wire.req # NoReq /\ wire.result = "CER_SUCCESS"
    => /\ Told = [type |-> wire.req.type, result |-> "CER_SUCCESS"]
       /\ wire.info # NoInfo => wire.msg.info = wire.info
       /\ wire.size = HdrSize + wire.msg.len

\* A request that failed is never answered with a message its client reads as
\* the success of that request, whatever stale buffer _buff points at.
FailureIsNotToldSuccess ==
  wire.req # NoReq /\ wire.result # "CER_SUCCESS"
    => Told # [type |-> wire.req.type, result |-> "CER_SUCCESS"]

\* What a query tells of an account it tells the session that is logged on to that
\* account: the number the constructor, or a session that ended, left in an entry
\* is of no use to anybody.
OwnAccountTold ==
  wire.req.type \in {"BALANCE_QUERY", "TRANSACTION_QUERY"} /\ wire.result = "CER_SUCCESS"
    => clients[wire.req.cid] = [state |-> "CL_LOGON", accnt |-> wire.info]

\* A withdrawal that succeeds took cash that was there (client.cpp:383 says so of one
\* that did not), and stands in the records with its amount.  So it is for a DWORD
\* of 32 bits (CNP_Protocol.h:47), as wide as the amount of a record and half as wide
\* as the difference whose sign is looked at.
WithdrawnInFull ==
  [][pc = "record" /\ wire'.req.type = "WITHDRAWAL" /\ wire'.result = "CER_SUCCESS"
       => /\ \E r \in job.saved : job.req.amount <= r.cash
          /\ Last(trans_rec'[job.accnt]).amount = job.req.amount]_vars

\* A client that is connected and gets its account or PIN wrong is told so
\* (client.cpp:350-351).
LogonRefusalIsTold ==
  wire.req.type = "LOGON" /\ wire.result = "CER_INVALID_NAME_PIN" /\ CM!InUse # {}
    => Told = [type |-> "LOGON", result |-> "CER_INVALID_NAME_PIN"]

\* The account number a new customer is told was assigned to that customer: no
\* balance row was opened for it before (client.cpp:339).
AssignedIsNew ==
  [][pc = "create" /\ wire'.result = "CER_SUCCESS" /\ wire'.req.type = "CREATE_ACCOUNT"
       => accnt_balance[wire'.info] = {}]_vars

\* After a withdrawal error the client is asked to try again (client.cpp:388), so
\* no cash of the account may have moved.
ErrorMovesNothing ==
  [][pc = "record" /\ pc' = "idle" /\ wire'.req.type = "WITHDRAWAL"
       /\ wire'.result = "CER_ERROR"
         => accnt_balance'[job.accnt] = job.saved]_vars

(* Abstractions. *)

\* The server keeps the promises of Bank.  A movement takes place when it is
\* recorded, or given up: until then the account has the balance it had before.
BankBalance ==
  [a \in AccntNo |-> IF pc = "record" /\ job.accnt = a THEN job.saved
                                                       ELSE accnt_balance[a]]
B == INSTANCE Bank WITH balance <- BankBalance, records <- trans_rec, reply <- Told,
                        Money <- 0 .. MaxMoney
KeepsPromises == B!Spec

=============================================================================
