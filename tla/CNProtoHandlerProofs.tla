------------------------ MODULE CNProtoHandlerProofs ------------------------
(* Proofs about the server, for all accounts, clients, amounts and failures.  *)
(* A step of the server is a step of ClientsManager or leaves its variables   *)
(* alone (SessionStep), so what was proved there carries over.                *)
EXTENDS CNProtoHandler, FiniteSetTheorems, TLAPS

CMP == INSTANCE ClientsManagerProofs

\* The type of a request tells its fields.
LEMMA RequestFields ==
  ASSUME NEW req \in Requests
  PROVE  /\ req.type \in {"CONNECT", "PURCHASE_STAMPS", "INVALID"} => req \in PlainRequest
         /\ req.type = "CREATE_ACCOUNT" => req \in CreateRequest
         /\ req.type = "LOGON" => req \in LogonRequest
         /\ req.type \in {"LOGOFF", "BALANCE_QUERY"} => req \in SessionRequest
         /\ req.type = "TRANSACTION_QUERY" => req \in TransRequest
         /\ req.type = "DEPOSIT" => req \in DepositRequest
         /\ req.type = "WITHDRAWAL" => req \in WithdrawalRequest
  BY DEF Requests, PlainRequest, CreateRequest, LogonRequest, SessionRequest,
         TransRequest, DepositRequest, WithdrawalRequest

\* Every step of the server is a step of the table of client IDs, or leaves it.
LEMMA SessionStep == [Next]_vars => [CM!Next]_(CM!vars)
<1>. SUFFICES ASSUME [Next]_vars PROVE [CM!Next]_(CM!vars)
  OBVIOUS
<1>. USE DEF CM!vars, sessions
<1>1. ASSUME NEW req \in Requests, HandleConnect(req) PROVE CM!Next
  BY <1>1 DEF HandleConnect, CM!Next
<1>2. ASSUME NEW req \in Requests, HandleLogOn(req) PROVE [CM!Next]_(CM!vars)
  <2>1. CASE UNCHANGED sessions
    BY <2>1
  <2>2. CASE req.type = "LOGON" /\ CM!LogOn(req.cid, req.pan)
    <3>1. req.cid \in CM!Cid /\ req.pan \in AccntNo
      BY <2>2, RequestFields DEF LogonRequest, Cid
    <3>. QED
      BY <2>2, <3>1 DEF CM!Next
  <2>. QED
    BY <1>2, <2>1, <2>2 DEF HandleLogOn, LogOnRefused
<1>3. ASSUME NEW req \in Requests, HandleLogOff(req) PROVE [CM!Next]_(CM!vars)
  <2>1. CASE UNCHANGED sessions
    BY <2>1
  <2>2. CASE req.type = "LOGOFF" /\ CM!LogOff(req.cid)
    <3>1. req.cid \in CM!Cid
      BY <2>2, RequestFields DEF SessionRequest, Cid
    <3>. QED
      BY <2>2, <3>1 DEF CM!Next
  <2>. QED
    BY <1>3, <2>1, <2>2 DEF HandleLogOff
<1>4. ASSUME NEW req \in Requests,
             \/ HandleCreate(req)
             \/ HandleDeposit(req)
             \/ HandleWithdraw(req)
             \/ HandleBalanceLookup(req)
             \/ HandleTransLookup(req)
             \/ HandleUnknown(req)
      PROVE  UNCHANGED sessions
  BY <1>4 DEF HandleCreate, HandleDeposit, HandleWithdraw, HandleBalanceLookup,
              HandleTransLookup, HandleUnknown
<1>5. CASE ConnectSkip
  BY <1>5 DEF ConnectSkip, CM!Next
<1>6. CASE ConnectGrant
  BY <1>6 DEF ConnectGrant, CM!Next
<1>7. CASE CreateBalance \/ Record
  BY <1>7 DEF CreateBalance, Record
<1>8. CASE Restart
  BY <1>8 DEF Restart, CM!Next
<1>9. CASE UNCHANGED vars
  BY <1>9 DEF vars
<1>. QED
  BY <1>1, <1>2, <1>3, <1>4, <1>5, <1>6, <1>7, <1>8, <1>9 DEF Next

-----------------------------------------------------------------------------
(* The client table.                                                         *)

\* The invariant proved of ClientsManager holds in every state of the server.
LEMMA SessionInv == Init => CMP!Inv
<1>. SUFFICES ASSUME Init PROVE CMP!Inv
  OBVIOUS
<1>. USE SessionsAssumption
     DEF Init, CM!Init, CM!Cid, CM!Unused, CMP!Cid, CMP!Unused
<1>1. CMP!TypeOK
  BY DEF CMP!TypeOK, CMP!ClientEntity, CMP!CL_STATE
<1>2. CMP!LoggedOn = {}
  BY DEF CMP!LoggedOn
<1>3. CMP!LoggedOnCounted
  BY <1>2, CMP!FS_EmptySet DEF CMP!LoggedOnCounted
<1>4. CMP!HandedOutWhenHeld /\ CMP!SessionsHaveAccounts
  BY DEF CMP!HandedOutWhenHeld, CMP!SessionsHaveAccounts
<1>. QED
  BY <1>1, <1>3, <1>4 DEF CMP!Inv

LEMMA SessionInvStep == CMP!Inv /\ [Next]_vars => CMP!Inv'
<1>. SUFFICES ASSUME CMP!Inv, [Next]_vars PROVE CMP!Inv'
  OBVIOUS
<1>0. CM!Cardinality(CM!InUse) = CMP!Cardinality(CMP!InUse)
  BY DEF CM!Cardinality, CMP!Cardinality, CM!InUse, CMP!InUse, CM!Cid, CMP!Cid
<1>1. [CMP!Next]_(CMP!vars)
  BY <1>0, SessionStep
  DEF CM!Next, CM!vars, CM!NextClientID, CM!Skip, CM!Grant, CM!LogOn, CM!LogOff,
      CM!Restart, CM!InUse, CM!Cid, CM!Succ, CM!SetClientState, CM!SetClientAcc,
      CM!Remove, CM!Unused, CM!Fresh,
      CMP!Next, CMP!vars, CMP!NextClientID, CMP!Skip, CMP!Grant, CMP!LogOn,
      CMP!LogOff, CMP!Restart, CMP!InUse, CMP!Cid, CMP!Succ, CMP!SetClientState,
      CMP!SetClientAcc, CMP!Remove, CMP!Unused, CMP!Fresh
<1>2. CMP!CidAssumption /\ CMP!AccntAssumption /\ CMP!BoundAssumption
  BY SessionsAssumption DEF CMP!CidAssumption, CMP!AccntAssumption, CMP!BoundAssumption
<1>. QED
  BY <1>1, <1>2, CMP!TypeStep, CMP!CountStep, CMP!EntryStep DEF CMP!Inv

\* What the handlers need of it.
LEMMA SessionTypes == CMP!Inv => CM!TypeOK
  BY DEF CMP!Inv, CMP!TypeOK, CMP!ClientEntity, CMP!CL_STATE, CMP!Cid,
         CM!TypeOK, CM!ClientEntity, CM!CL_STATE, CM!Cid

LEMMA SessionAccnt ==
  ASSUME CMP!Inv, NEW c \in Cid, clients[c].state = "CL_LOGON"
  PROVE  clients[c].accnt \in AccntNo
  BY DEF CMP!Inv, CMP!TypeOK, CMP!ClientEntity, CMP!SessionsHaveAccounts, CMP!Cid,
         Cid, CM!Cid

-----------------------------------------------------------------------------
(* The tables: every statement keeps the types of the columns.               *)

LEMMA SelectKeepsTypes == DA!TypeOK /\ DA!SelectFails => DA!TypeOK'
  BY DEF DA!TypeOK, DA!SelectFails, DA!AfterOutcome, DA!tables

LEMMA CreateKeepsTypes ==
  ASSUME DA!TypeOK, NEW a \in AccntNo, NEW acc \in DA!AccntInfo, NEW o,
         DA!createAccnt(a, acc, o)
  PROVE  DA!TypeOK'
  BY DEF DA!TypeOK, DA!createAccnt, DA!AfterOutcome

LEMMA BalanceRecKeepsTypes ==
  ASSUME DA!TypeOK, NEW a \in AccntNo, NEW o, DA!createBalanceRec(a, o)
  PROVE  DA!TypeOK'
<1>1. DA!ZeroBalance \in DA!AccntBalance
  BY TablesAssumption DEF DA!ZeroBalance, DA!AccntBalance
<1>. QED
  BY <1>1 DEF DA!TypeOK, DA!createBalanceRec, DA!AfterOutcome

LEMMA SetColumnType ==
  ASSUME NEW rows \in SUBSET DA!AccntBalance, NEW column, NEW v \in 0 .. Word - 1
  PROVE  DA!SetColumn(rows, column, v) \in SUBSET DA!AccntBalance
  BY DEF DA!SetColumn, DA!AccntBalance

LEMMA UpdateKeepsTypes ==
  ASSUME DA!TypeOK, NEW a \in AccntNo, NEW v \in 0 .. Word - 1, NEW column, NEW o,
         DA!updateAccntBalance(a, v, column, o)
  PROVE  DA!TypeOK'
<1>1. accnt_balance[a] \in SUBSET DA!AccntBalance
  BY DEF DA!TypeOK
<1>2. DA!SetColumn(accnt_balance[a], column, v) \in SUBSET DA!AccntBalance
  BY <1>1, SetColumnType
<1>. QED
  BY <1>2 DEF DA!TypeOK, DA!updateAccntBalance, DA!AfterOutcome

LEMMA RecordKeepsTypes ==
  ASSUME DA!TypeOK, NEW a \in AccntNo, NEW type \in {"TT_DEPOSIT", "TT_WITHDRAW"},
         NEW x \in Nat, NEW o, DA!addTransRec(a, type, x, o)
  PROVE  DA!TypeOK'
<1>1. x % RecWord \in 0 .. RecWord - 1
  BY TablesAssumption
<1>2. [type |-> type, amount |-> x % RecWord] \in DA!TransRec
  BY <1>1 DEF DA!TransRec
<1>3. Append(trans_rec[a], [type |-> type, amount |-> x % RecWord]) \in Seq(DA!TransRec)
  BY <1>2 DEF DA!TypeOK
<1>. QED
  BY <1>3 DEF DA!TypeOK, DA!addTransRec, DA!AfterOutcome

\* 64-bit sums and differences are 64-bit values.
LEMMA ArithmeticType ==
  ASSUME NEW x \in 0 .. Word - 1, NEW y \in 0 .. Word - 1
  PROVE  Plus(x, y) \in 0 .. Word - 1 /\ Minus(x, y) \in 0 .. Word - 1
  BY TablesAssumption DEF Plus, Minus

LEMMA TablesStep ==
  ASSUME CMP!Inv, TypeOK, [Next]_vars
  PROVE  DA!TypeOK'
<1>. USE DEF TypeOK
<1>1. ASSUME UNCHANGED <<tables, link>> PROVE DA!TypeOK'
  BY <1>1 DEF tables, DA!TypeOK
<1>2. ASSUME NEW req \in Requests, HandleCreate(req) PROVE DA!TypeOK'
  <2>1. [pin |-> req.pin, ssn |-> req.ssn] \in DA!AccntInfo
    BY <1>2, RequestFields DEF HandleCreate, CreateRequest, DA!AccntInfo
  <2>. QED
    BY <1>2, <2>1, CreateKeepsTypes DEF HandleCreate
<1>3. CASE CreateBalance
  <2>1. CASE DA!SelectFails
    BY <2>1, SelectKeepsTypes
  <2>2. ASSUME NEW a \in DA!AccntsBySSN(job.req.ssn), NEW o \in DA!Outcomes,
               DA!createBalanceRec(a, o)
        PROVE  DA!TypeOK'
    BY <2>2, BalanceRecKeepsTypes DEF DA!AccntsBySSN
  <2>. QED
    BY <1>3, <2>1, <2>2 DEF CreateBalance
<1>4. ASSUME NEW req \in Requests, NEW v \in 0 .. Word - 1, NEW column,
             LoggedOnAs(req), req.cid \in Cid, Move(req, v, column)
      PROVE  DA!TypeOK'
  <2>1. AccntOf(req) \in AccntNo
    BY <1>4, SessionAccnt DEF LoggedOnAs, AccntOf
  <2>. QED
    BY <1>4, <2>1, UpdateKeepsTypes DEF Move
<1>5. ASSUME NEW req \in Requests, HandleDeposit(req) PROVE DA!TypeOK'
  <2>1. req.cid \in Cid /\ req.amount \in 0 .. Word - 1 /\ req.kind \in {"cash", "check"}
    BY <1>5, RequestFields, AmountsAssumption
    DEF HandleDeposit, DepositRequest, DEPOSIT_TYPE
  <2>2. CASE NotLoggedOn(req)
    BY <1>1, <2>2 DEF NotLoggedOn
  <2>3. CASE NoBalance(req)
    BY <1>1, <2>3, SelectKeepsTypes DEF NoBalance
  <2>4. ASSUME LoggedOnAs(req), NEW r \in accnt_balance[AccntOf(req)],
               Move(req, Plus(r[req.kind], req.amount), req.kind)
        PROVE  DA!TypeOK'
    <3>1. AccntOf(req) \in AccntNo
      BY <2>1, <2>4, SessionAccnt DEF LoggedOnAs, AccntOf
    <3>2. r \in DA!AccntBalance
      BY <3>1 DEF DA!TypeOK
    <3>3. r[req.kind] \in 0 .. Word - 1
      BY <2>1, <3>2 DEF DA!AccntBalance
    <3>. QED
      BY <1>4, <2>1, <2>4, <3>3, ArithmeticType
  <2>. QED
    BY <1>5, <2>2, <2>3, <2>4 DEF HandleDeposit
<1>6. ASSUME NEW req \in Requests, HandleWithdraw(req) PROVE DA!TypeOK'
  <2>1. req.cid \in Cid /\ req.amount \in 0 .. Word - 1
    BY <1>6, RequestFields, AmountsAssumption DEF HandleWithdraw, WithdrawalRequest
  <2>2. CASE NotLoggedOn(req)
    BY <1>1, <2>2 DEF NotLoggedOn
  <2>3. CASE NoBalance(req)
    BY <1>1, <2>3, SelectKeepsTypes DEF NoBalance
  <2>4. ASSUME LoggedOnAs(req), NEW r \in accnt_balance[AccntOf(req)],
               Move(req, Minus(r.cash, req.amount), "cash")
        PROVE  DA!TypeOK'
    <3>1. AccntOf(req) \in AccntNo
      BY <2>1, <2>4, SessionAccnt DEF LoggedOnAs, AccntOf
    <3>2. r.cash \in 0 .. Word - 1
      BY <3>1 DEF DA!TypeOK, DA!AccntBalance
    <3>. QED
      BY <1>4, <2>1, <2>4, <3>2, ArithmeticType
  <2>. QED
    BY <1>1, <1>6, <2>2, <2>3, <2>4 DEF HandleWithdraw
<1>7. CASE Record
  <2>1. job.accnt \in AccntNo /\ job.req.amount \in Nat
    BY <1>7, AmountsAssumption, TablesAssumption
    DEF Record, JobOK, DepositRequest, WithdrawalRequest
  <2>. QED
    BY <1>7, <2>1, RecordKeepsTypes DEF Record
<1>8. ASSUME NEW req \in Requests, HandleLogOn(req) PROVE DA!TypeOK'
  BY <1>1, <1>8, SelectKeepsTypes DEF HandleLogOn
<1>9. ASSUME NEW req \in Requests, HandleBalanceLookup(req) PROVE DA!TypeOK'
  BY <1>1, <1>9, SelectKeepsTypes DEF HandleBalanceLookup, NoBalance
<1>10. ASSUME NEW req \in Requests, HandleTransLookup(req) PROVE DA!TypeOK'
  BY <1>1, <1>10, SelectKeepsTypes DEF HandleTransLookup, TransNotLoggedOn
<1>11. ASSUME NEW req \in Requests,
              HandleConnect(req) \/ HandleLogOff(req) \/ HandleUnknown(req)
       PROVE  DA!TypeOK'
  BY <1>1, <1>11 DEF HandleConnect, HandleLogOff, HandleUnknown
<1>12. CASE ConnectSkip \/ ConnectGrant
  BY <1>1, <1>12 DEF ConnectSkip, ConnectGrant
<1>13. CASE Restart
  BY <1>13 DEF Restart, tables, DA!TypeOK
<1>14. CASE UNCHANGED vars
  BY <1>1, <1>14 DEF vars
<1>. QED
  BY <1>2, <1>3, <1>5, <1>6, <1>7, <1>8, <1>9, <1>10, <1>11, <1>12, <1>13, <1>14 DEF Next

-----------------------------------------------------------------------------
(* The answers.                                                              *)

AnswersOK == BuffersOK /\ SuccessIsTold /\ FailureIsNotToldSuccess

\* Every body has room for its result.
LEMMA BodySizes == ASSUME NEW type PROVE BodySize(type) \in Nat /\ BodySize(type) >= ResultSize
  BY DEF BodySize, ResultSize

LEMMA AnswerIsOK ==
  ASSUME BuffersOK, NEW req \in Requests, req.type \in MsgType,
         NEW result \in CER_TYPE, NEW info \in Info, Answer(req, result, info)
  PROVE  AnswersOK'
<1>1. BodySize(req.type) \in Nat /\ BodySize(req.type) >= ResultSize
  BY BodySizes
<1>2. /\ response' \in Message
      /\ response'.type = req.type /\ response'.result = result
      /\ response'.len = BodySize(req.type)
      /\ info # NoInfo => response'.info = info
  BY <1>1 DEF Answer, Filled, BuffersOK, Message
<1>3. wire' = [req |-> req, result |-> result, info |-> info,
               size |-> HdrSize + BodySize(req.type), msg |-> response']
  BY DEF Answer, Send
<1>4. response' # NoMsg
  BY <1>2 DEF NoMsg, MsgType
<1>5. BuffersOK'
  BY <1>1, <1>2, <1>3 DEF Answer, BuffersOK, HdrSize
<1>6. Told' = [type |-> req.type, result |-> result]
  BY <1>1, <1>2, <1>3, <1>4 DEF Told, HdrSize, ResultSize
<1>7. SuccessIsTold'
  BY <1>1, <1>2, <1>3, <1>6 DEF SuccessIsTold
<1>8. FailureIsNotToldSuccess'
  BY <1>3, <1>6 DEF FailureIsNotToldSuccess
<1>. QED
  BY <1>5, <1>7, <1>8 DEF AnswersOK

\* A failure answered from whatever _buff points at is not read as a success:
\* _response holds the failure, _dyn_buff the answer to a transaction query.
LEMMA AnswerUnpointedIsOK ==
  ASSUME BuffersOK, NEW req \in Requests, req.type # "TRANSACTION_QUERY",
         NEW type \in MsgType, NEW result \in CER_TYPE \ {"CER_SUCCESS"},
         AnswerUnpointed(type, req, result)
  PROVE  AnswersOK'
<1>1. BodySize(type) \in Nat
  BY BodySizes
<1>2. response' \in Message /\ response'.result = result
  BY <1>1 DEF AnswerUnpointed, Filled, BuffersOK, Message
<1>3. /\ wire'.msg = CASE buff = "NULL" -> NoMsg
                       [] buff = "_response" -> response'
                       [] buff = "_dyn_buff" -> dyn
      /\ wire'.req = req /\ wire'.result = result
      /\ wire' = [req |-> req, result |-> result, info |-> NoInfo,
                  size |-> HdrSize + BodySize(type), msg |-> wire'.msg]
  BY DEF AnswerUnpointed, Send
<1>4. wire'.msg \in Message \cup {NoMsg}
  BY <1>2, <1>3 DEF BuffersOK
<1>5. BuffersOK'
  BY <1>1, <1>2, <1>3, <1>4 DEF AnswerUnpointed, BuffersOK, HdrSize, Info
<1>6. wire'.msg # NoMsg
        => wire'.msg.type = "TRANSACTION_QUERY" \/ wire'.msg.result # "CER_SUCCESS"
  BY <1>2, <1>3 DEF BuffersOK
<1>7. Told' # [type |-> req.type, result |-> "CER_SUCCESS"]
  BY <1>6 DEF Told
<1>. QED
  BY <1>3, <1>5, <1>7 DEF AnswersOK, SuccessIsTold, FailureIsNotToldSuccess

\* The early return of a transaction query sends a header and no result.
LEMMA TransNotLoggedOnIsOK ==
  ASSUME BuffersOK, NEW req \in Requests, TransNotLoggedOn(req)
  PROVE  AnswersOK'
<1>1. response' \in Message
  BY DEF TransNotLoggedOn, BuffersOK, Message, CER_TYPE
<1>2. wire' = [req |-> req, result |-> "CER_CLIENT_NOT_LOGGEDON", info |-> NoInfo,
               size |-> HdrSize, msg |-> CASE buff = "NULL" -> NoMsg
                                           [] buff = "_response" -> response'
                                           [] buff = "_dyn_buff" -> dyn]
  BY DEF TransNotLoggedOn, Send
<1>3. BuffersOK'
  BY <1>1, <1>2 DEF TransNotLoggedOn, BuffersOK, HdrSize, Info, CER_TYPE
<1>4. Told' = [type |-> "none", result |-> "none"]
  BY <1>2 DEF Told, HdrSize, ResultSize
<1>. QED
  BY <1>2, <1>3, <1>4 DEF AnswersOK, SuccessIsTold, FailureIsNotToldSuccess

LEMMA TransFoundIsOK ==
  ASSUME BuffersOK, NEW req \in Requests, req.type = "TRANSACTION_QUERY",
         NEW a \in AccntNo, NEW n \in Nat, TransFound(req, a, n)
  PROVE  AnswersOK'
<1>1. CASE n <= 1
  BY <1>1, AnswerIsOK DEF TransFound, MsgType, CER_TYPE, Info
<1>2. CASE ~ n <= 1
  <2>. DEFINE len == BodySize(req.type) + TransSize * (n - 1)
              m == [type |-> req.type, len |-> len, result |-> "CER_SUCCESS", info |-> a]
  <2>1. len \in Nat /\ len >= ResultSize
    BY <1>2, BodySizes DEF TransSize, ResultSize
  <2>2. dyn' = m /\ buff' = "_dyn_buff" /\ response' = response
    BY <1>2 DEF TransFound
  <2>3. wire' = [req |-> req, result |-> "CER_SUCCESS", info |-> a,
                 size |-> HdrSize + len, msg |-> m]
    BY <1>2, <2>2 DEF TransFound, Send
  <2>4. m \in Message /\ m # NoMsg
    BY <2>1 DEF Message, MsgType, CER_TYPE, Info, NoMsg
  <2>. HIDE DEF len
  <2>5. BuffersOK'
    BY <2>1, <2>2, <2>3, <2>4 DEF BuffersOK, HdrSize, CER_TYPE, Info
  <2>6. Told' = [type |-> "TRANSACTION_QUERY", result |-> "CER_SUCCESS"]
    BY <2>1, <2>3, <2>4 DEF Told, HdrSize, ResultSize
  <2>. QED
    BY <2>1, <2>3, <2>5, <2>6
    DEF AnswersOK, SuccessIsTold, FailureIsNotToldSuccess, HdrSize
<1>. QED
  BY <1>1, <1>2

\* Every step leaves the buffers in order and the answer on the wire honest.
LEMMA AnswersStep ==
  ASSUME CMP!Inv, TypeOK, AnswersOK, [Next]_vars
  PROVE  AnswersOK'
<1>. USE DEF TypeOK
<1>0. /\ {"CER_SUCCESS", "CER_INVALID_CLIENTID", "CER_INVALID_NAME_PIN",
          "CER_CLIENT_NOT_LOGGEDON", "CER_INSUFFICIENT_FUNDS", "CER_ERROR"} \subseteq CER_TYPE
      /\ NoInfo \in Info /\ AccntNo \subseteq Info /\ Cid \subseteq Info
  BY DEF CER_TYPE, Info
<1>1. ASSUME UNCHANGED <<buffers, wire>> PROVE AnswersOK'
  BY <1>1 DEF buffers, AnswersOK, BuffersOK, SuccessIsTold, FailureIsNotToldSuccess, Told
<1>2. ASSUME NEW req \in Requests, HandleConnect(req) \/ HandleCreate(req) PROVE AnswersOK'
  <2>1. CASE UNCHANGED <<buffers, wire>>
    BY <1>1, <2>1
  <2>2. CASE req.type = "CREATE_ACCOUNT" /\ Answer(req, "CER_ERROR", NoInfo)
    BY <1>0, <2>2, AnswerIsOK DEF MsgType
  <2>. QED
    BY <1>2, <2>1, <2>2 DEF HandleConnect, HandleCreate, Continue
<1>3. CASE ConnectGrant
  <2>1. job.req \in Requests /\ job.req.type = "CONNECT"
    BY <1>3 DEF ConnectGrant, JobOK, Requests
  <2>2. next \in Info
    BY <1>3, <1>0, SessionTypes DEF ConnectGrant, JobOK, CM!TypeOK, Cid
  <2>. QED
    BY <1>0, <1>3, <2>1, <2>2, AnswerIsOK DEF ConnectGrant, MsgType
<1>4. CASE CreateBalance
  <2>1. job.req \in Requests /\ job.req.type = "CREATE_ACCOUNT"
    BY <1>4 DEF CreateBalance, JobOK, CreateRequest, Requests
  <2>2. CASE Answer(job.req, "CER_ERROR", NoInfo)
    BY <1>0, <2>1, <2>2, AnswerIsOK DEF MsgType
  <2>3. ASSUME NEW a \in AccntNo, Answer(job.req, "CER_SUCCESS", a) PROVE AnswersOK'
    BY <1>0, <2>1, <2>3, AnswerIsOK DEF MsgType
  <2>. QED
    BY <1>4, <2>2, <2>3 DEF CreateBalance, DA!AccntsBySSN
<1>5. CASE Record
  <2>1. job.req \in Requests /\ job.req.type \in {"DEPOSIT", "WITHDRAWAL"}
    BY <1>5 DEF Record, JobOK, DepositRequest, WithdrawalRequest, Requests
  <2>2. PICK result \in {"CER_SUCCESS", "CER_ERROR"} : Answer(job.req, result, NoInfo)
    BY <1>5 DEF Record
  <2>. QED
    BY <1>0, <2>1, <2>2, AnswerIsOK DEF MsgType
<1>6. ASSUME NEW req \in Requests, HandleLogOn(req) PROVE AnswersOK'
  <2>1. req.type = "LOGON"
    BY <1>6 DEF HandleLogOn
  <2>2. ASSUME NEW result \in {"CER_INVALID_NAME_PIN", "CER_INVALID_CLIENTID"},
               LogOnRefused(req, result)
        PROVE  AnswersOK'
    BY <1>0, <2>1, <2>2, AnswerUnpointedIsOK DEF LogOnRefused, MsgType
  <2>3. CASE Answer(req, "CER_SUCCESS", NoInfo)
    BY <1>0, <2>1, <2>3, AnswerIsOK DEF MsgType
  <2>. QED
    BY <1>6, <2>2, <2>3 DEF HandleLogOn
<1>7. ASSUME NEW req \in Requests, req.type \in {"DEPOSIT", "WITHDRAWAL"},
             NotLoggedOn(req)
      PROVE  AnswersOK'
  BY <1>0, <1>7, AnswerUnpointedIsOK DEF NotLoggedOn, MsgType
<1>8. ASSUME NEW req \in Requests, req.type \in {"DEPOSIT", "WITHDRAWAL", "BALANCE_QUERY"},
             NEW result \in {"CER_ERROR", "CER_INSUFFICIENT_FUNDS", "CER_CLIENT_NOT_LOGGEDON"},
             Answer(req, result, NoInfo)
      PROVE  AnswersOK'
  BY <1>0, <1>8, AnswerIsOK DEF MsgType
<1>9. ASSUME NEW req \in Requests, req.type \in {"DEPOSIT", "WITHDRAWAL"},
             NEW v, NEW column, Move(req, v, column)
      PROVE  AnswersOK'
  BY <1>1, <1>8, <1>9 DEF Move, Continue
<1>10. ASSUME NEW req \in Requests, HandleDeposit(req) PROVE AnswersOK'
  BY <1>7, <1>8, <1>9, <1>10 DEF HandleDeposit, NoBalance
<1>11. ASSUME NEW req \in Requests, HandleWithdraw(req) PROVE AnswersOK'
  BY <1>7, <1>8, <1>9, <1>11 DEF HandleWithdraw, NoBalance
<1>12. ASSUME NEW req \in Requests, HandleLogOff(req) PROVE AnswersOK'
  BY <1>0, <1>12, AnswerIsOK DEF HandleLogOff, MsgType
<1>13. ASSUME NEW req \in Requests, HandleBalanceLookup(req) PROVE AnswersOK'
  <2>1. req.type = "BALANCE_QUERY" /\ req.cid \in Cid
    BY <1>13, RequestFields DEF HandleBalanceLookup, SessionRequest
  <2>2. CASE LoggedOnAs(req) /\ Answer(req, "CER_SUCCESS", AccntOf(req))
    <3>1. AccntOf(req) \in Info
      BY <1>0, <2>1, <2>2, SessionAccnt DEF LoggedOnAs, AccntOf
    <3>. QED
      BY <1>0, <2>1, <2>2, <3>1, AnswerIsOK DEF MsgType
  <2>. QED
    BY <1>8, <1>13, <2>1, <2>2 DEF HandleBalanceLookup, NoBalance
<1>14. ASSUME NEW req \in Requests, HandleTransLookup(req) PROVE AnswersOK'
  <2>1. req.type = "TRANSACTION_QUERY" /\ req.cid \in Cid /\ req.count \in Nat
    BY <1>14, RequestFields, CountsAssumption DEF HandleTransLookup, TransRequest
  <2>2. CASE Answer(req, "CER_ERROR", NoInfo)
    BY <1>0, <2>1, <2>2, AnswerIsOK DEF MsgType
  <2>3. ASSUME LoggedOnAs(req),
               TransFound(req, AccntOf(req), DA!RecentCount(AccntOf(req), req.count))
        PROVE  AnswersOK'
    <3>1. AccntOf(req) \in AccntNo
      BY <2>1, <2>3, SessionAccnt DEF LoggedOnAs, AccntOf
    <3>2. DA!RecentCount(AccntOf(req), req.count) \in Nat
      BY <2>1, <3>1 DEF DA!RecentCount, DA!TypeOK
    <3>. QED
      BY <2>1, <2>3, <3>1, <3>2, TransFoundIsOK
  <2>. QED
    BY <1>14, <2>2, <2>3, TransNotLoggedOnIsOK DEF HandleTransLookup
<1>15. ASSUME NEW req \in Requests, HandleUnknown(req) PROVE AnswersOK'
  BY <1>0, <1>15, AnswerUnpointedIsOK DEF HandleUnknown, MsgType
<1>16. CASE ConnectSkip
  BY <1>1, <1>16 DEF ConnectSkip
<1>17. CASE Restart
  <2>1. EmptyResponse \in Message
    BY DEF EmptyResponse, Message, MsgType, CER_TYPE, Info
  <2>2. NoWire.req = NoReq /\ NoWire.msg = NoMsg
    BY DEF NoWire
  <2>3. BuffersOK'
    BY <1>17, <2>1 DEF Restart, BuffersOK, NoWire, CER_TYPE, Info
  <2>. QED
    BY <1>17, <2>2, <2>3 DEF Restart, AnswersOK, SuccessIsTold, FailureIsNotToldSuccess
<1>18. CASE UNCHANGED vars
  BY <1>1, <1>18 DEF vars
<1>. QED
  BY <1>2, <1>3, <1>4, <1>5, <1>6, <1>10, <1>11, <1>12, <1>13, <1>14, <1>15, <1>16,
     <1>17, <1>18 DEF Next

-----------------------------------------------------------------------------
(* The stages of the handlers.                                               *)

\* Every stage starts with the locals it needs, and no handler is interrupted by
\* another request.
LEMMA JobStep ==
  ASSUME CMP!Inv, TypeOK, [Next]_vars
  PROVE  JobOK' /\ disturbed' \subseteq AccntNo
<1>. DEFINE Goal == JobOK' /\ disturbed' \subseteq AccntNo
<1>. USE DEF TypeOK
<1>1. ASSUME Done, next' = NoCid, disturbed' \subseteq AccntNo PROVE Goal
  BY <1>1 DEF Done, JobOK
<1>2. ASSUME pc = "idle" \/ pc = "create" \/ pc = "record" PROVE next = NoCid
  BY <1>2 DEF JobOK
<1>3. ASSUME NEW req \in Requests, HandleConnect(req) PROVE Goal
  <2>1. next' # NoCid
    BY <1>3, SessionsAssumption DEF HandleConnect, CM!NextClientID, CM!TypeOK, CM!Cid
  <2>2. [req |-> req] \in [req : PlainRequest]
    BY <1>3, RequestFields DEF HandleConnect
  <2>. QED
    BY <1>3, <2>1, <2>2 DEF HandleConnect, Continue, JobOK
<1>4. CASE ConnectSkip
  <2>1. next \in CM!Cid
    BY <1>4 DEF ConnectSkip, CM!Skip, CM!TypeOK
  <2>2. next' # NoCid
    BY <1>4, <2>1, SessionsAssumption DEF ConnectSkip, CM!Skip, CM!Succ, CM!Cid
  <2>. QED
    BY <1>4, <2>2 DEF ConnectSkip, JobOK
<1>5. CASE ConnectGrant
  BY <1>1, <1>5 DEF ConnectGrant, CM!Grant
<1>6. ASSUME NEW req \in Requests, HandleLogOn(req) PROVE Goal
  <2>1. next = NoCid
    BY <1>2, <1>6 DEF HandleLogOn, Handles
  <2>2. next' = NoCid
    BY <1>6, <2>1 DEF HandleLogOn, LogOnRefused, sessions, CM!LogOn
  <2>. QED
    BY <1>1, <1>6, <2>2 DEF HandleLogOn
<1>7. ASSUME NEW req \in Requests, HandleLogOff(req) PROVE Goal
  <2>1. next = NoCid
    BY <1>2, <1>7 DEF HandleLogOff, Handles
  <2>2. next' = NoCid
    BY <1>7, <2>1 DEF HandleLogOff, sessions, CM!LogOff
  <2>. QED
    BY <1>1, <1>7, <2>2 DEF HandleLogOff
<1>8. ASSUME NEW req \in Requests, HandleCreate(req) PROVE Goal
  <2>1. next' = NoCid
    BY <1>2, <1>8 DEF HandleCreate, Handles, sessions
  <2>2. CASE Continue("create", [req |-> req])
    <3>1. [req |-> req] \in [req : CreateRequest]
      BY <1>8, RequestFields DEF HandleCreate
    <3>. QED
      BY <1>8, <2>1, <2>2, <3>1 DEF HandleCreate, Continue, JobOK
  <2>. QED
    BY <1>1, <1>8, <2>1, <2>2 DEF HandleCreate
<1>9. CASE CreateBalance
  <2>1. next' = NoCid
    BY <1>2, <1>9 DEF CreateBalance, sessions
  <2>. QED
    BY <1>1, <1>9, <2>1 DEF CreateBalance, DA!AccntsBySSN
<1>10. ASSUME NEW req \in Requests, req \in DepositRequest \cup WithdrawalRequest,
              LoggedOnAs(req), next' = NoCid, NEW v, NEW column, Move(req, v, column)
       PROVE  Goal
  <2>1. AccntOf(req) \in AccntNo
    BY <1>10, SessionAccnt DEF LoggedOnAs, AccntOf, DepositRequest, WithdrawalRequest
  <2>2. CASE /\ Continue("record", [req |-> req, accnt |-> AccntOf(req),
                                    saved |-> accnt_balance[AccntOf(req)]])
             /\ UNCHANGED disturbed
    <3>1. accnt_balance[AccntOf(req)] \in SUBSET DA!AccntBalance
      BY <2>1 DEF DA!TypeOK
    <3>2. job' \in [req : DepositRequest \cup WithdrawalRequest, accnt : AccntNo,
                    saved : SUBSET DA!AccntBalance]
      BY <1>10, <2>1, <2>2, <3>1 DEF Continue
    <3>. QED
      BY <1>10, <2>2, <3>2 DEF Continue, JobOK
  <2>3. CASE disturbed' \in {disturbed, disturbed \cup {AccntOf(req)}} /\ Done
    BY <1>1, <1>10, <2>1, <2>3
  <2>. QED
    BY <1>10, <2>2, <2>3 DEF Move
<1>11. ASSUME NEW req \in Requests, HandleDeposit(req) PROVE Goal
  <2>1. next' = NoCid
    BY <1>2, <1>11 DEF HandleDeposit, Handles, sessions
  <2>2. req \in DepositRequest
    BY <1>11, RequestFields DEF HandleDeposit
  <2>. QED
    BY <1>1, <1>10, <1>11, <2>1, <2>2 DEF HandleDeposit, NotLoggedOn, NoBalance
<1>12. ASSUME NEW req \in Requests, HandleWithdraw(req) PROVE Goal
  <2>1. next' = NoCid
    BY <1>2, <1>12 DEF HandleWithdraw, Handles, sessions
  <2>2. req \in WithdrawalRequest
    BY <1>12, RequestFields DEF HandleWithdraw
  <2>. QED
    BY <1>1, <1>10, <1>12, <2>1, <2>2 DEF HandleWithdraw, NotLoggedOn, NoBalance
<1>13. CASE Record
  <2>1. next' = NoCid
    BY <1>2, <1>13 DEF Record, sessions
  <2>2. job.accnt \in AccntNo
    BY <1>13 DEF Record, JobOK
  <2>. QED
    BY <1>1, <1>13, <2>1, <2>2 DEF Record
<1>14. ASSUME NEW req \in Requests,
              HandleBalanceLookup(req) \/ HandleTransLookup(req) \/ HandleUnknown(req)
       PROVE  Goal
  <2>1. next' = NoCid
    BY <1>2, <1>14
    DEF HandleBalanceLookup, HandleTransLookup, HandleUnknown, Handles, sessions
  <2>. QED
    BY <1>1, <1>14, <2>1
    DEF HandleBalanceLookup, HandleTransLookup, HandleUnknown, NoBalance
<1>15. CASE Restart
  <2>1. disturbed' \subseteq AccntNo
    BY <1>15 DEF Restart, JobOK
  <2>. QED
    BY <1>1, <1>15, <2>1 DEF Restart, CM!Restart
<1>16. CASE UNCHANGED vars
  BY <1>16 DEF vars, sessions, JobOK
<1>. QED
  BY <1>3, <1>4, <1>5, <1>6, <1>7, <1>8, <1>9, <1>11, <1>12, <1>13, <1>14, <1>15, <1>16
  DEF Next

-----------------------------------------------------------------------------
(* The theorems.                                                             *)

Inv == CMP!Inv /\ TypeOK /\ AnswersOK

LEMMA InvInit == Init => Inv
<1>. SUFFICES ASSUME Init PROVE Inv
  OBVIOUS
<1>1. CMP!Inv
  BY SessionInv
<1>2. CM!TypeOK
  BY <1>1, SessionTypes
<1>3. DA!TypeOK
  BY DEF Init, DA!Init, DA!TypeOK
<1>4. JobOK /\ disturbed \subseteq AccntNo
  BY DEF Init, CM!Init, JobOK
<1>5. EmptyResponse \in Message /\ NoWire.req = NoReq /\ NoWire.msg = NoMsg
  BY DEF EmptyResponse, Message, MsgType, CER_TYPE, Info, NoWire
<1>6. BuffersOK
  BY <1>5 DEF Init, BuffersOK, NoWire, CER_TYPE, Info
<1>7. AnswersOK
  BY <1>5, <1>6 DEF Init, AnswersOK, SuccessIsTold, FailureIsNotToldSuccess
<1>. QED
  BY <1>1, <1>2, <1>3, <1>4, <1>6, <1>7 DEF Inv, TypeOK

LEMMA InvStep == Inv /\ [Next]_vars => Inv'
<1>. SUFFICES ASSUME Inv, [Next]_vars PROVE Inv'
  OBVIOUS
<1>1. CMP!Inv'
  BY SessionInvStep DEF Inv
<1>2. CM!TypeOK'
  BY <1>1, SessionTypes, SessionInvStep
  DEF CMP!Inv, CMP!TypeOK, CMP!ClientEntity, CMP!CL_STATE, CMP!Cid,
      CM!TypeOK, CM!ClientEntity, CM!CL_STATE, CM!Cid
<1>3. DA!TypeOK' /\ JobOK' /\ disturbed' \subseteq AccntNo /\ AnswersOK'
  BY TablesStep, JobStep, AnswersStep DEF Inv
<1>. QED
  BY <1>1, <1>2, <1>3 DEF Inv, TypeOK, AnswersOK

THEOREM Invariance == Spec => []Inv
  BY InvInit, InvStep, PTL DEF Spec

\* Types of the tables, the buffers and the stages of the handlers.
THEOREM TypeCorrect == Spec => []TypeOK
  BY Invariance, PTL DEF Inv

\* A request that succeeded is answered with its own, complete message.
THEOREM SuccessesTold == Spec => []SuccessIsTold
  BY Invariance, PTL DEF Inv, AnswersOK

\* No failure is answered with what its client reads as a success, although the
\* buffer sent is at times a stale one.
THEOREM FailuresNotToldSuccess == Spec => []FailureIsNotToldSuccess
  BY Invariance, PTL DEF Inv, AnswersOK

\* Every step that answers a query keeps the sessions, and answers it from the
\* session of the client that asks.
LEMMA OwnAccountStep ==
  ASSUME CMP!Inv, TypeOK, OwnAccountTold, [Next]_vars
  PROVE  OwnAccountTold'
<1>. DEFINE Others == {"CONNECT", "CREATE_ACCOUNT", "LOGON", "LOGOFF", "DEPOSIT",
                      "WITHDRAWAL", "PURCHASE_STAMPS", "INVALID", "none"}
<1>. USE DEF Answer, AnswerUnpointed, Send
<1>1. ASSUME UNCHANGED <<clients, wire>> PROVE OwnAccountTold'
  BY <1>1 DEF OwnAccountTold
<1>2. ASSUME wire'.req.type \in Others \/ wire'.result # "CER_SUCCESS"
      PROVE  OwnAccountTold'
  BY <1>2 DEF OwnAccountTold
<1>3. ASSUME NEW req, req.cid \in Cid, LoggedOnAs(req), UNCHANGED clients,
             wire'.req = req, wire'.info = AccntOf(req)
      PROVE  OwnAccountTold'
  BY <1>3 DEF OwnAccountTold, LoggedOnAs, AccntOf, CMP!Inv, CMP!TypeOK,
              CMP!ClientEntity, CMP!Cid, Cid, CM!Cid
<1>4. ASSUME NEW req \in Requests, HandleConnect(req) PROVE OwnAccountTold'
  BY <1>1, <1>4 DEF HandleConnect, CM!NextClientID, Continue
<1>5. ASSUME NEW req \in Requests, HandleLogOn(req) \/ HandleLogOff(req) \/ HandleUnknown(req)
      PROVE  OwnAccountTold'
  <2>1. req.type \in {"LOGON", "LOGOFF", "PURCHASE_STAMPS", "INVALID"}
    BY <1>5 DEF HandleLogOn, HandleLogOff, HandleUnknown
  <2>2. wire'.req = req
    BY <1>5 DEF HandleLogOn, HandleLogOff, HandleUnknown, LogOnRefused
  <2>. QED
    BY <1>2, <2>1, <2>2
<1>6. ASSUME NEW req \in Requests, HandleCreate(req) PROVE OwnAccountTold'
  BY <1>1, <1>2, <1>6 DEF HandleCreate, Continue, sessions
<1>7. CASE ConnectSkip
  BY <1>1, <1>7 DEF ConnectSkip, CM!Skip
<1>8. CASE ConnectGrant \/ CreateBalance \/ Record
  <2>1. job.req.type \in Others /\ wire'.req = job.req
    BY <1>8
    DEF ConnectGrant, CreateBalance, Record, TypeOK, JobOK, CreateRequest,
        DepositRequest, WithdrawalRequest
  <2>. QED
    BY <1>2, <2>1
<1>9. ASSUME NEW req \in Requests, req.type \in Others, UNCHANGED clients, NEW v, NEW column,
             \/ NotLoggedOn(req) \/ NoBalance(req) \/ Move(req, v, column)
             \/ Answer(req, "CER_INSUFFICIENT_FUNDS", NoInfo)
      PROVE  OwnAccountTold'
  BY <1>1, <1>2, <1>9 DEF NotLoggedOn, NoBalance, Move, Continue
<1>10. ASSUME NEW req \in Requests, HandleDeposit(req) \/ HandleWithdraw(req)
       PROVE  OwnAccountTold'
  BY <1>9, <1>10 DEF HandleDeposit, HandleWithdraw, sessions
<1>11. ASSUME NEW req \in Requests, HandleBalanceLookup(req) PROVE OwnAccountTold'
  <2>1. req.cid \in Cid /\ UNCHANGED clients
    BY <1>11, RequestFields DEF HandleBalanceLookup, SessionRequest, sessions
  <2>2. CASE LoggedOnAs(req) /\ Answer(req, "CER_SUCCESS", AccntOf(req))
    BY <1>3, <2>1, <2>2
  <2>3. CASE wire'.result # "CER_SUCCESS"
    BY <1>2, <2>3
  <2>. QED
    BY <1>11, <2>2, <2>3 DEF HandleBalanceLookup, NoBalance
<1>12. ASSUME NEW req \in Requests, HandleTransLookup(req) PROVE OwnAccountTold'
  <2>1. req.cid \in Cid /\ UNCHANGED clients
    BY <1>12, RequestFields DEF HandleTransLookup, TransRequest, sessions
  <2>2. ASSUME LoggedOnAs(req), NEW n, TransFound(req, AccntOf(req), n)
        PROVE  OwnAccountTold'
    <3>1. wire'.req = req /\ wire'.info = AccntOf(req)
      BY <2>2 DEF TransFound
    <3>. QED
      BY <1>3, <2>1, <2>2, <3>1
  <2>3. CASE wire'.result # "CER_SUCCESS"
    BY <1>2, <2>3
  <2>. QED
    BY <1>12, <2>2, <2>3 DEF HandleTransLookup, TransNotLoggedOn
<1>13. CASE Restart
  BY <1>2, <1>13 DEF Restart, NoWire
<1>14. CASE UNCHANGED vars
  BY <1>1, <1>14 DEF vars, sessions
<1>. QED
  BY <1>4, <1>5, <1>6, <1>7, <1>8, <1>10, <1>11, <1>12, <1>13, <1>14 DEF Next

\* What a query tells of an account is told to the session logged on to it, although
\* the other entries of the table may name any account.
THEOREM QueriesOfOwnAccount == Spec => []OwnAccountTold
<1>1. Init => OwnAccountTold
  BY DEF Init, NoWire, NoReq, OwnAccountTold
<1>2. Inv /\ OwnAccountTold /\ [Next]_vars => OwnAccountTold'
  BY OwnAccountStep DEF Inv
<1>. QED
  BY <1>1, <1>2, Invariance, PTL DEF Spec

-----------------------------------------------------------------------------
(* The movements of money.                                                   *)

\* After an UPDATE every row has the new value.
LEMMA SetColumnValue ==
  ASSUME NEW rows \in SUBSET DA!AccntBalance, NEW column \in {"cash", "check"},
         NEW v \in 0 .. Word - 1, NEW s \in DA!SetColumn(rows, column, v)
  PROVE  s[column] = v
  BY DEF DA!SetColumn, DA!AccntBalance

\* A 64-bit sum that is written is the old balance and the amount, or wrapped.
LEMMA SumIsCredited ==
  ASSUME NEW x \in 0 .. Word - 1, NEW y \in 0 .. Word - 1
  PROVE  Credited(x, y, Plus(x, y))
  BY TablesAssumption DEF Credited, Plus

\* A difference that passes the test of its sign is covered by the balance, or fell
\* short of 0 by more than half the range.
LEMMA DifferenceIsDebited ==
  ASSUME NEW x \in 0 .. Word - 1, NEW y \in 0 .. Word - 1, NonNegative(Minus(x, y))
  PROVE  Debited(x, y, Minus(x, y))
  BY TablesAssumption DEF Debited, Minus, NonNegative

MovesStep ==
  \A a \in AccntNo : accnt_balance'[a] # accnt_balance[a]
                       => MovesAsAsked(a, ReqOf(pc', job', wire'))

LEMMA MoveIsAsked ==
  ASSUME TypeOK, NEW req \in DepositRequest \cup WithdrawalRequest,
         LoggedOnAs(req), AccntOf(req) \in AccntNo,
         NEW column \in {"cash", "check"}, NEW v \in 0 .. Word - 1,
         NEW r \in accnt_balance[AccntOf(req)],
         req.type = "DEPOSIT" => column = req.kind /\ Credited(r[column], req.amount, v),
         req.type = "WITHDRAWAL" => column = "cash" /\ Debited(r.cash, req.amount, v),
         Move(req, v, column)
  PROVE  MovesStep
<1>. DEFINE a == AccntOf(req)
<1>1. PICK o \in DA!Outcomes : DA!updateAccntBalance(a, v, column, o)
  BY DEF Move
<1>2. ReqOf(pc', job', wire') = req
  BY DEF Move, Continue, Done, Answer, Send, ReqOf
<1>3. clients[req.cid] = [state |-> "CL_LOGON", accnt |-> a]
  BY DEF LoggedOnAs, AccntOf, TypeOK, CM!TypeOK, CM!ClientEntity, CM!Cid, Cid,
         DepositRequest, WithdrawalRequest
<1>4. req.type \in {"DEPOSIT", "WITHDRAWAL"}
  BY DEF DepositRequest, WithdrawalRequest
<1>5. accnt_balance[a] \in SUBSET DA!AccntBalance
  BY DEF TypeOK, DA!TypeOK
<1>. SUFFICES ASSUME NEW b \in AccntNo, accnt_balance'[b] # accnt_balance[b]
              PROVE  MovesAsAsked(b, req)
  BY <1>2 DEF MovesStep
<1>6. b = a /\ accnt_balance'[a] = DA!SetColumn(accnt_balance[a], column, v)
  BY <1>1 DEF DA!updateAccntBalance, TypeOK, DA!TypeOK
<1>7. ASSUME NEW s \in accnt_balance'[a]
      PROVE  IF req.type = "DEPOSIT" THEN Credited(r[req.kind], req.amount, s[req.kind])
                                     ELSE Debited(r.cash, req.amount, s.cash)
  BY <1>4, <1>5, <1>6, <1>7, SetColumnValue
<1>. QED
  BY <1>3, <1>4, <1>6, <1>7 DEF MovesAsAsked

LEMMA MoneyStep ==
  ASSUME CMP!Inv, TypeOK, [Next]_vars
  PROVE  MovesStep
<1>1. ASSUME UNCHANGED accnt_balance PROVE MovesStep
  BY <1>1 DEF MovesStep
<1>2. ASSUME NEW req \in Requests, HandleDeposit(req) PROVE MovesStep
  <2>1. /\ req \in DepositRequest /\ req.type = "DEPOSIT" /\ req.cid \in Cid
        /\ req.amount \in Amounts /\ req.kind \in {"cash", "check"}
    BY <1>2, RequestFields DEF HandleDeposit, DepositRequest, DEPOSIT_TYPE
  <2>2. CASE NotLoggedOn(req) \/ NoBalance(req)
    BY <1>1, <2>2 DEF NotLoggedOn, NoBalance, DA!SelectFails, tables, DA!tables
  <2>3. ASSUME LoggedOnAs(req), NEW r \in accnt_balance[AccntOf(req)],
               Move(req, Plus(r[req.kind], req.amount), req.kind)
        PROVE  MovesStep
    <3>1. AccntOf(req) \in AccntNo
      BY <2>1, <2>3, SessionAccnt DEF LoggedOnAs, AccntOf
    <3>2. r \in DA!AccntBalance
      BY <3>1 DEF TypeOK, DA!TypeOK
    <3>3. r[req.kind] \in 0 .. Word - 1
      BY <2>1, <3>2 DEF DA!AccntBalance
    <3>4. Credited(r[req.kind], req.amount, Plus(r[req.kind], req.amount))
      BY <2>1, <3>3, SumIsCredited, AmountsAssumption
    <3>5. Plus(r[req.kind], req.amount) \in 0 .. Word - 1
      BY <2>1, <3>3, ArithmeticType, AmountsAssumption
    <3>. QED
      BY <2>1, <2>3, <3>1, <3>4, <3>5, MoveIsAsked
  <2>. QED
    BY <1>2, <2>2, <2>3 DEF HandleDeposit
<1>3. ASSUME NEW req \in Requests, HandleWithdraw(req) PROVE MovesStep
  <2>1. /\ req \in WithdrawalRequest /\ req.type = "WITHDRAWAL" /\ req.cid \in Cid
        /\ req.amount \in Amounts
    BY <1>3, RequestFields DEF HandleWithdraw, WithdrawalRequest
  <2>2. CASE NotLoggedOn(req) \/ NoBalance(req) \/ UNCHANGED tables
    BY <1>1, <2>2 DEF NotLoggedOn, NoBalance, DA!SelectFails, tables, DA!tables
  <2>3. ASSUME LoggedOnAs(req), NEW r \in accnt_balance[AccntOf(req)],
               NonNegative(Minus(r.cash, req.amount)),
               Move(req, Minus(r.cash, req.amount), "cash")
        PROVE  MovesStep
    <3>1. AccntOf(req) \in AccntNo
      BY <2>1, <2>3, SessionAccnt DEF LoggedOnAs, AccntOf
    <3>2. r.cash \in 0 .. Word - 1
      BY <3>1 DEF TypeOK, DA!TypeOK, DA!AccntBalance
    <3>3. Debited(r.cash, req.amount, Minus(r.cash, req.amount))
      BY <2>1, <2>3, <3>2, DifferenceIsDebited, AmountsAssumption
    <3>4. Minus(r.cash, req.amount) \in 0 .. Word - 1
      BY <2>1, <3>2, ArithmeticType, AmountsAssumption
    <3>. QED
      BY <2>1, <2>3, <3>1, <3>3, <3>4, MoveIsAsked
  <2>. QED
    BY <1>3, <2>2, <2>3 DEF HandleWithdraw
<1>4. CASE CreateBalance
  <2>1. job.req.type = "CREATE_ACCOUNT"
    BY <1>4 DEF CreateBalance, TypeOK, JobOK, CreateRequest
  <2>2. CASE DA!SelectFails
    BY <1>1, <2>2 DEF DA!SelectFails, DA!tables
  <2>3. ASSUME NEW a \in AccntNo, NEW o, DA!createBalanceRec(a, o),
               wire'.req = job.req, pc' = "idle"
        PROVE  MovesStep
    BY <2>1, <2>3 DEF MovesStep, MovesAsAsked, ReqOf, DA!createBalanceRec, TypeOK, DA!TypeOK
  <2>. QED
    BY <1>4, <2>2, <2>3 DEF CreateBalance, DA!AccntsBySSN, Done, Answer, Send
<1>5. ASSUME NEW req \in Requests, HandleCreate(req) PROVE MovesStep
  BY <1>1, <1>5 DEF HandleCreate, DA!createAccnt
<1>6. ASSUME NEW req \in Requests,
             \/ HandleConnect(req) \/ HandleLogOn(req) \/ HandleLogOff(req)
             \/ HandleBalanceLookup(req) \/ HandleTransLookup(req) \/ HandleUnknown(req)
      PROVE  UNCHANGED accnt_balance
  BY <1>6
  DEF HandleConnect, HandleLogOn, HandleLogOff, HandleBalanceLookup, HandleTransLookup,
      HandleUnknown, NoBalance, TransNotLoggedOn, DA!SelectFails, DA!tables, tables
<1>7. CASE ConnectSkip \/ ConnectGrant \/ Record \/ Restart
  BY <1>1, <1>7 DEF ConnectSkip, ConnectGrant, Record, Restart, DA!addTransRec, tables
<1>8. CASE UNCHANGED vars
  BY <1>1, <1>8 DEF vars, tables
<1>. QED
  BY <1>1, <1>2, <1>3, <1>4, <1>5, <1>6, <1>7, <1>8 DEF Next

\* Money moves only for the session that asks, in the column it asks for, and by
\* exactly what it asks for: the one error there is is the width of a column, when a
\* deposit does not fit or an overdraft wraps past the sign.
THEOREM MovementsExact == Spec => MoneyMovesAsAsked
<1>1. Inv /\ [Next]_vars
        => [\A a \in AccntNo : accnt_balance'[a] # accnt_balance[a]
                                 => MovesAsAsked(a, ReqOf(pc', job', wire'))]_vars
  BY MoneyStep DEF Inv, MovesStep
<1>. QED
  BY <1>1, Invariance, PTL DEF Spec, MoneyMovesAsAsked

-----------------------------------------------------------------------------
(* The transaction records.                                                  *)

\* Between the two statements of a movement the balance is no longer the saved one:
\* executeUpdate reported a changed row.
Pending == pc = "record" => job.saved # accnt_balance[job.accnt]

\* An UPDATE that changed a row left rows other than those there were.
LEMMA UpdateMoves ==
  ASSUME NEW rows \in SUBSET DA!AccntBalance, NEW column \in {"cash", "check"},
         NEW v \in 0 .. Word - 1, NEW r \in rows, r[column] # v
  PROVE  DA!SetColumn(rows, column, v) # rows
  BY SetColumnValue

LEMMA PendingMove ==
  ASSUME TypeOK, NEW req \in Requests, AccntOf(req) \in AccntNo,
         NEW column \in {"cash", "check"}, NEW v \in 0 .. Word - 1, Move(req, v, column)
  PROVE  Pending'
<1>. DEFINE a == AccntOf(req)
<1>. SUFFICES ASSUME pc' = "record" PROVE job'.saved # accnt_balance'[job'.accnt]
  BY DEF Pending
<1>1. PICK o \in DA!Outcomes :
        /\ DA!updateAccntBalance(a, v, column, o)
        /\ DA!UpdateReported(a, v, column, o)
        /\ Continue("record", [req |-> req, accnt |-> a, saved |-> accnt_balance[a]])
  BY DEF Move, Done
<1>2. job'.accnt = a /\ job'.saved = accnt_balance[a]
  BY <1>1 DEF Continue
<1>3. accnt_balance'[a] = DA!SetColumn(accnt_balance[a], column, v)
  BY <1>1 DEF DA!updateAccntBalance, DA!UpdateReported, DA!Executed, TypeOK, DA!TypeOK
<1>4. accnt_balance[a] \in SUBSET DA!AccntBalance
  BY DEF TypeOK, DA!TypeOK
<1>. QED
  BY <1>1, <1>2, <1>3, <1>4, UpdateMoves DEF DA!UpdateReported

LEMMA PendingStep ==
  ASSUME CMP!Inv, TypeOK, Pending, [Next]_vars
  PROVE  Pending'
<1>1. ASSUME NEW req \in Requests, HandleDeposit(req) PROVE Pending'
  <2>1. /\ req.cid \in Cid /\ req.amount \in 0 .. Word - 1 /\ req.kind \in {"cash", "check"}
    BY <1>1, RequestFields, AmountsAssumption
    DEF HandleDeposit, DepositRequest, DEPOSIT_TYPE
  <2>2. CASE Done
    BY <2>2 DEF Done, Pending
  <2>3. ASSUME LoggedOnAs(req), NEW r \in accnt_balance[AccntOf(req)],
               Move(req, Plus(r[req.kind], req.amount), req.kind)
        PROVE  Pending'
    <3>1. AccntOf(req) \in AccntNo
      BY <2>1, <2>3, SessionAccnt DEF LoggedOnAs, AccntOf
    <3>2. r \in DA!AccntBalance
      BY <3>1 DEF TypeOK, DA!TypeOK
    <3>3. r[req.kind] \in 0 .. Word - 1
      BY <2>1, <3>2 DEF DA!AccntBalance
    <3>4. Plus(r[req.kind], req.amount) \in 0 .. Word - 1
      BY <2>1, <3>3, ArithmeticType
    <3>. QED
      BY <2>1, <2>3, <3>1, <3>4, PendingMove
  <2>. QED
    BY <1>1, <2>2, <2>3 DEF HandleDeposit, NotLoggedOn, NoBalance
<1>2. ASSUME NEW req \in Requests, HandleWithdraw(req) PROVE Pending'
  <2>1. req.cid \in Cid /\ req.amount \in 0 .. Word - 1
    BY <1>2, RequestFields, AmountsAssumption DEF HandleWithdraw, WithdrawalRequest
  <2>2. CASE Done
    BY <2>2 DEF Done, Pending
  <2>3. ASSUME LoggedOnAs(req), NEW r \in accnt_balance[AccntOf(req)],
               Move(req, Minus(r.cash, req.amount), "cash")
        PROVE  Pending'
    <3>1. AccntOf(req) \in AccntNo
      BY <2>1, <2>3, SessionAccnt DEF LoggedOnAs, AccntOf
    <3>2. r.cash \in 0 .. Word - 1
      BY <3>1 DEF TypeOK, DA!TypeOK, DA!AccntBalance
    <3>3. Minus(r.cash, req.amount) \in 0 .. Word - 1
      BY <2>1, <3>2, ArithmeticType
    <3>. QED
      BY <2>3, <3>1, <3>3, PendingMove
  <2>. QED
    BY <1>2, <2>2, <2>3 DEF HandleWithdraw, NotLoggedOn, NoBalance
<1>3. ASSUME NEW req \in Requests,
             \/ HandleConnect(req) \/ HandleLogOn(req) \/ HandleLogOff(req)
             \/ HandleCreate(req) \/ HandleBalanceLookup(req) \/ HandleTransLookup(req)
             \/ HandleUnknown(req)
      PROVE  Pending'
  BY <1>3
  DEF HandleConnect, HandleLogOn, HandleLogOff, HandleCreate, HandleBalanceLookup,
      HandleTransLookup, HandleUnknown, NoBalance, Done, Continue, Pending
<1>4. CASE ConnectSkip \/ ConnectGrant \/ CreateBalance \/ Record \/ Restart
  BY <1>4 DEF ConnectSkip, ConnectGrant, CreateBalance, Record, Restart, Done, Pending
<1>5. CASE UNCHANGED vars
  BY <1>5 DEF vars, tables, Pending
<1>. QED
  BY <1>1, <1>2, <1>3, <1>4, <1>5 DEF Next

\* A record is appended, and nothing else happens to the records.
LEMMA AppendIsStrictPrefix ==
  ASSUME NEW S, NEW s \in Seq(S), NEW e \in S
  PROVE  IsStrictPrefix(s, Append(s, e))
<1>1. Len(Append(s, e)) = Len(s) + 1 /\ Len(s) \in Nat
  OBVIOUS
<1>2. SubSeq(Append(s, e), 1, Len(s)) = SubSeq(s, 1, Len(s))
  OBVIOUS
<1>. QED
  BY <1>1, <1>2 DEF IsStrictPrefix, IsPrefix

RecordStep ==
  \A a \in AccntNo : trans_rec'[a] # trans_rec[a]
    => /\ pc = "record" /\ job.accnt = a
       /\ IsStrictPrefix(trans_rec[a], trans_rec'[a])
       /\ job.saved # accnt_balance[a]

LEMMA RecordsStep ==
  ASSUME TypeOK, Pending, [Next]_vars
  PROVE  RecordStep
<1>1. ASSUME UNCHANGED trans_rec PROVE RecordStep
  BY <1>1 DEF RecordStep
<1>2. CASE Record
  <2>1. PICK o \in DA!Outcomes :
          DA!addTransRec(job.accnt,
            IF job.req.type = "DEPOSIT" THEN "TT_DEPOSIT" ELSE "TT_WITHDRAW",
            job.req.amount, o)
    BY <1>2 DEF Record
  <2>2. job.accnt \in AccntNo /\ job.req.amount \in Nat
    BY <1>2, AmountsAssumption, TablesAssumption
    DEF Record, TypeOK, JobOK, DepositRequest, WithdrawalRequest
  <2>3. job.req.amount % RecWord \in 0 .. RecWord - 1
    BY <2>2, TablesAssumption
  <2>. SUFFICES ASSUME NEW a \in AccntNo, trans_rec'[a] # trans_rec[a]
                PROVE  /\ job.accnt = a
                       /\ IsStrictPrefix(trans_rec[a], trans_rec'[a])
    BY <1>2 DEF RecordStep, Record, Pending
  <2>4. job.accnt = a
    BY <2>1, <2>2 DEF DA!addTransRec, TypeOK, DA!TypeOK
  <2>5. PICK type \in {"TT_DEPOSIT", "TT_WITHDRAW"} :
          trans_rec'[a] = Append(trans_rec[a],
                                 [type |-> type, amount |-> job.req.amount % RecWord])
    BY <2>1, <2>2, <2>4 DEF DA!addTransRec, TypeOK, DA!TypeOK
  <2>6. [type |-> type, amount |-> job.req.amount % RecWord] \in DA!TransRec
    BY <2>3 DEF DA!TransRec
  <2>7. trans_rec[a] \in Seq(DA!TransRec)
    BY DEF TypeOK, DA!TypeOK
  <2>. QED
    BY <2>4, <2>5, <2>6, <2>7, AppendIsStrictPrefix
<1>3. ASSUME NEW req \in Requests, HandleDeposit(req) \/ HandleWithdraw(req)
      PROVE  UNCHANGED trans_rec
  BY <1>3
  DEF HandleDeposit, HandleWithdraw, NotLoggedOn, NoBalance, Move, DA!SelectFails,
      DA!updateAccntBalance, DA!tables, tables
<1>4. ASSUME NEW req \in Requests,
             \/ HandleConnect(req) \/ HandleLogOn(req) \/ HandleLogOff(req)
             \/ HandleCreate(req) \/ HandleBalanceLookup(req) \/ HandleTransLookup(req)
             \/ HandleUnknown(req)
      PROVE  UNCHANGED trans_rec
  BY <1>4
  DEF HandleConnect, HandleLogOn, HandleLogOff, HandleCreate, HandleBalanceLookup,
      HandleTransLookup, HandleUnknown, NoBalance, TransNotLoggedOn, DA!SelectFails,
      DA!createAccnt, DA!tables, tables
<1>5. CASE ConnectSkip \/ ConnectGrant \/ CreateBalance \/ Restart
  BY <1>1, <1>5
  DEF ConnectSkip, ConnectGrant, CreateBalance, Restart, DA!SelectFails,
      DA!createBalanceRec, DA!tables, tables
<1>6. CASE UNCHANGED vars
  BY <1>1, <1>6 DEF vars, tables
<1>. QED
  BY <1>1, <1>2, <1>3, <1>4, <1>5, <1>6 DEF Next

\* Records are only ever appended, each for a movement whose balance was written
\* before.
THEOREM RecordsOfMovements == Spec => RecordsFollowMoney
<1>1. Init => Pending
  BY DEF Init, Pending
<1>2. Inv /\ Pending /\ [Next]_vars => Pending'
  BY PendingStep DEF Inv
<1>3. Inv /\ Pending /\ [Next]_vars
        => [\A a \in AccntNo : trans_rec'[a] # trans_rec[a]
              => /\ pc = "record" /\ job.accnt = a
                 /\ IsStrictPrefix(trans_rec[a], trans_rec'[a])
                 /\ job.saved # accnt_balance[a]]_vars
  BY RecordsStep DEF Inv, RecordStep
<1>. QED
  BY <1>1, <1>2, <1>3, Invariance, PTL DEF Spec, RecordsFollowMoney

=============================================================================
