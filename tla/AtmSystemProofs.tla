--------------------------- MODULE AtmSystemProofs ---------------------------
(* Proofs about the service as a whole, for any number of clients.            *)
EXTENDS AtmSystem, TLAPS

SP == INSTANCE HandlerSteps

-----------------------------------------------------------------------------
(* The server of AtmSystem is the one that was proved about: S and SP are two *)
(* instances of the same module.                                              *)

Stages == S!ConnectSkip \/ S!ConnectGrant \/ S!CreateBalance \/ S!Record

LEMMA SameServer ==
  /\ S!Init => SP!Init
  /\ \A req : process_msg(req) => SP!Process(req)
  /\ Stages => SP!Stage
  /\ S!Restart => SP!Restart
<1>. USE DEF S!vars, S!Handles, S!Continue, S!tables, S!LogOnRefused, S!Answer,
     S!Done, S!LoggedOnAs, S!sessions, S!NotLoggedOn, S!NoBalance, S!AccntOf,
     S!Move, S!Plus, S!Minus, S!NonNegative, S!TransNotLoggedOn, S!TransFound,
     S!buffers, S!EmptyResponse, S!NoMsg, S!NoWire, S!NoJob, S!AnswerUnpointed,
     S!Filled, S!Send, S!HdrSize, S!BodySize, S!TransSize, S!NoReq,
     S!CM!NextClientID, S!CM!LogOn, S!CM!LogOff, S!CM!Skip, S!CM!Grant,
     S!CM!Restart, S!CM!Init, S!CM!InUse, S!CM!SetClientState, S!CM!SetClientAcc,
     S!CM!Fresh, S!CM!Remove, S!CM!Succ, S!CM!Cid, S!CM!Unused, S!DA!SelectFails, S!DA!Outcomes,
     S!DA!createAccnt, S!DA!RecentCount, S!DA!AccntsBySSN, S!DA!createBalanceRec,
     S!DA!ZeroBalance, S!DA!addTransRec, S!DA!Executed, S!DA!Init,
     S!DA!AfterOutcome, S!DA!tables, S!DA!updateAccntBalance, S!DA!UpdateReported,
     S!DA!SetColumn, SP!vars, SP!Handles, SP!Continue, SP!tables, SP!LogOnRefused,
     SP!Answer, SP!Done, SP!LoggedOnAs, SP!sessions, SP!NotLoggedOn, SP!NoBalance,
     SP!AccntOf, SP!Move, SP!Plus, SP!Minus, SP!NonNegative, SP!TransNotLoggedOn,
     SP!TransFound, SP!buffers, SP!EmptyResponse, SP!NoMsg, SP!NoWire, SP!NoJob,
     SP!AnswerUnpointed, SP!Filled, SP!Send, SP!HdrSize, SP!BodySize, SP!TransSize,
     SP!NoReq, SP!CM!NextClientID, SP!CM!LogOn, SP!CM!LogOff, SP!CM!Skip,
     SP!CM!Grant, SP!CM!Restart, SP!CM!Init, SP!CM!InUse, SP!CM!SetClientState,
     SP!CM!Fresh, SP!CM!SetClientAcc, SP!CM!Remove, SP!CM!Succ, SP!CM!Cid, SP!CM!Unused,
     SP!DA!SelectFails, SP!DA!Outcomes, SP!DA!createAccnt, SP!DA!RecentCount,
     SP!DA!AccntsBySSN, SP!DA!createBalanceRec, SP!DA!ZeroBalance,
     SP!DA!addTransRec, SP!DA!Executed, SP!DA!Init, SP!DA!AfterOutcome,
     SP!DA!tables, SP!DA!updateAccntBalance, SP!DA!UpdateReported, SP!DA!SetColumn,
     S!CM!Cardinality, SP!CM!Cardinality
<1>1. S!Init => SP!Init
  BY Zenon DEF S!Init, SP!Init
<1>2. ASSUME NEW req, process_msg(req) PROVE SP!Process(req)
  <2>1. S!HandleConnect(req) => SP!HandleConnect(req)
    BY Zenon DEF S!HandleConnect, SP!HandleConnect
  <2>2. S!HandleLogOn(req) => SP!HandleLogOn(req)
    BY Zenon DEF S!HandleLogOn, SP!HandleLogOn
  <2>3. S!HandleLogOff(req) => SP!HandleLogOff(req)
    BY Zenon DEF S!HandleLogOff, SP!HandleLogOff
  <2>4. S!HandleCreate(req) => SP!HandleCreate(req)
    BY Zenon DEF S!HandleCreate, SP!HandleCreate
  <2>5. S!HandleDeposit(req) => SP!HandleDeposit(req)
    BY Zenon DEF S!HandleDeposit, SP!HandleDeposit
  <2>6. S!HandleWithdraw(req) => SP!HandleWithdraw(req)
    BY Zenon DEF S!HandleWithdraw, SP!HandleWithdraw
  <2>7. S!HandleBalanceLookup(req) => SP!HandleBalanceLookup(req)
    BY Zenon DEF S!HandleBalanceLookup, SP!HandleBalanceLookup
  <2>8. S!HandleTransLookup(req) => SP!HandleTransLookup(req)
    BY Zenon DEF S!HandleTransLookup, SP!HandleTransLookup
  <2>. QED
    BY <1>2, <2>1, <2>2, <2>3, <2>4, <2>5, <2>6, <2>7, <2>8, Zenon DEF process_msg, SP!Process
<1>3. Stages => SP!Stage
  <2>1. S!ConnectSkip => SP!ConnectSkip
    BY Zenon DEF S!ConnectSkip, SP!ConnectSkip
  <2>2. S!ConnectGrant => SP!ConnectGrant
    BY Zenon DEF S!ConnectGrant, SP!ConnectGrant
  <2>3. S!CreateBalance => SP!CreateBalance
    BY Zenon DEF S!CreateBalance, SP!CreateBalance
  <2>4. S!Record => SP!Record
    BY Zenon DEF S!Record, SP!Record
  <2>. QED
    BY <2>1, <2>2, <2>3, <2>4, Zenon DEF Stages, SP!Stage
<1>4. S!Restart => SP!Restart
  BY Zenon DEF S!Restart, SP!Restart
<1>. QED
  BY <1>1, <1>2, <1>3, <1>4

-----------------------------------------------------------------------------
(* The invariant.                                                            *)

\* The requests of a client that the server has not answered, and how many they are.
Elements(s) == {s[i] : i \in 1 .. Len(s)}
Count(s) == Len(s)
Held(c) == Elements(inS[c]) \cup Elements(rq[c])
             \cup (IF serving = c THEN {job.req} ELSE {})
Load(c) == Count(inS[c]) + Count(rq[c]) + (IF serving = c THEN 1 ELSE 0)

\* The server has a socket for the connection.
Live(c) == conn[c] \in {"open", "left"}

\* What clients ask.
Asked == {r \in SP!Requests : r.type \notin {"PURCHASE_STAMPS", "INVALID"}}
SessionTypes == {"WITHDRAWAL", "DEPOSIT", "BALANCE_QUERY", "TRANSACTION_QUERY", "LOGOFF"}

AskedTypes == (SP!MsgType \ {"INVALID"}) \cup {"none"}
Results == SP!CER_TYPE \cup {"none"}
Showings == [type : SP!MsgType \cup {"none"},
             says : {"nothing", "invalid", "failed", "success"}]

\* A message, or the rest of one; the ID in a CONNECT that succeeded is one.
Packet ==
  {p \in [size : Nat, msg : SP!Message \cup {SP!NoMsg}] :
     p.msg # SP!NoMsg /\ p.msg.type = "CONNECT" /\ p.msg.result = "CER_SUCCESS"
       => p.msg.info \in SP!Cid}

Types ==
  /\ TypeOK
  /\ outbox \in [Clients -> Seq(Packet)]
  /\ asked \in [Clients -> AskedTypes] /\ reached \in [Clients -> Results]
  /\ shown \in [Clients -> Showings]
  /\ user \in [Clients -> AccntNo \cup {NoAccnt}]
  /\ guessed \in BOOLEAN
  /\ rq \in [Clients -> Seq(Asked)] /\ inS \in [Clients -> Seq(Asked)]
  /\ serving # NoClient => job.req \in Asked
  /\ \A c \in Clients :
       /\ atm[c].at = "off" => atm[c] = A!Off
       /\ conn[c] = "left" => atm[c].at = "off"
       /\ ~ Live(c) => Load(c) = 0

\* c waits for the answer to its CONNECT.
Connecting(c) == atm[c].at = "waiting" /\ asked[c] = "CONNECT"
\* c goes on without having read its client ID.
Strays(c) == guessed /\ atm[c].deaf /\ ~ atm[c].logged_on
\* c has read all its answers up to now.
Hears(c) == atm[c].at # "off" /\ ~ atm[c].deaf

\* An answer to the last request of c.
Fits(c, p) ==
  /\ p.msg # SP!NoMsg
  /\ SP!ReadAsSent([req |-> [type |-> asked[c]], result |-> reached[c],
                    size |-> p.size, msg |-> p.msg])
  /\ reached[c] = "CER_SUCCESS" =>
       /\ p.msg.type = asked[c] /\ p.msg.result = "CER_SUCCESS"
       /\ p.size = SP!HdrSize + p.msg.len /\ p.size >= SP!HdrSize + SP!ResultSize
  /\ reached[c] # "CER_SUCCESS" =>
       ~ /\ p.msg.type = asked[c] /\ p.msg.result = "CER_SUCCESS"
         /\ p.size >= SP!HdrSize + SP!ResultSize
  /\ asked[c] = "WITHDRAWAL" =>
       reached[c] \in {"CER_SUCCESS", "CER_INSUFFICIENT_FUNDS", "CER_ERROR"}

\* A client that has read all its answers asks one thing at a time.
OneAtATime(c) ==
  Hears(c) =>
    /\ Load(c) + Count(outbox[c]) <= IF atm[c].at = "waiting" THEN 1 ELSE 0
    /\ Load(c) > 0 => reached[c] = "none"
    /\ outbox[c] # <<>> => Fits(c, Head(outbox[c]))
    /\ \A r \in Held(c) :
         /\ r.type = asked[c]
         /\ r.type = "LOGON" => r.pan = user[c] /\ ~ atm[c].logged_on

\* own[c] is the client ID that the server gave to the connection of c.  Until then
\* there is a CONNECT, and nothing else.
Connects(own, c) ==
  /\ own[c] # NoCid => Live(c) /\ clients[own[c]].state # "CL_UNUSED"
  /\ Live(c) /\ own[c] = NoCid =>
       /\ Held(c) = {Connect} /\ Load(c) = 1
       /\ conn[c] = "open" => Connecting(c) /\ outbox[c] = <<>>

\* A client knows its ID, or strays with another.
KnowsItsID(own, c) ==
  conn[c] = "open" =>
    IF Connecting(c)
    THEN /\ ~ atm[c].deaf /\ ~ atm[c].logged_on
         /\ own[c] # NoCid =>
              /\ Count(outbox[c]) = 1 /\ reached[c] = "CER_SUCCESS"
              /\ Head(outbox[c]).msg.info = own[c]
              /\ Head(outbox[c]).msg.len = SP!BodySize("CONNECT")
    ELSE own[c] # NoCid /\ (atm[c].clientID = own[c] \/ Strays(c))

\* Requests of a session name the ID of their client; a LOGON does unless it strays.
NamesItsID(own, c) ==
  own[c] # NoCid => \A r \in Held(c) :
    /\ r.type # "CONNECT"
    /\ r.type \in SessionTypes =>
         r.cid = own[c] /\ (conn[c] = "open" => atm[c].logged_on)
    /\ r.type = "LOGON" =>
         r.cid = own[c] \/ (guessed /\ (conn[c] = "open" => atm[c].deaf))

\* What a client will believe once it has read the answer that is on its way.
Believes(c) ==
  IF atm[c].at = "waiting" /\ reached[c] = "CER_SUCCESS" /\ asked[c] \in {"LOGON", "LOGOFF"}
  THEN asked[c] = "LOGON" ELSE atm[c].logged_on

SessionAsBelieved(own, c) ==
  Hears(c) /\ conn[c] = "open" /\ own[c] # NoCid =>
    IF Believes(c) THEN clients[own[c]] = [state |-> "CL_LOGON", accnt |-> user[c]]
                   ELSE clients[own[c]].state = "CL_CONNECTED" \/ guessed

\* Also of a client that does not hear nobody else takes the session, unless an ID
\* was guessed.
SessionKept(own, c) ==
  /\ own[c] # NoCid /\ ~ guessed
  /\ \/ \E r \in Held(c) : r.type \in SessionTypes
     \/ conn[c] = "open" /\ atm[c].logged_on
  => /\ clients[own[c]].state = "CL_LOGON" => clients[own[c]].accnt = user[c]
     /\ \A r \in Held(c) : r.type # "LOGON"

\* What is shown is of the last request, which is then not at the server any more.
ShowsTruth(c) ==
  atm[c].at = "menu" =>
    /\ Hears(c) => shown[c] = [type |-> asked[c],
                               says |-> IF reached[c] = "CER_SUCCESS" THEN "success"
                                                                      ELSE "failed"]
    /\ shown[c].says = "success" => Load(c) = 0
    /\ shown[c] = [type |-> asked[c], says |-> "success"] /\ asked[c] # "WITHDRAWAL"
         => reached[c] = "CER_SUCCESS"

ClientInv(own, c) ==
  /\ OneAtATime(c) /\ Connects(own, c) /\ KnowsItsID(own, c) /\ NamesItsID(own, c)
  /\ SessionAsBelieved(own, c) /\ SessionKept(own, c) /\ ShowsTruth(c)

\* Every connection has an ID of its own.
Distinct(own) == \A c, d \in Clients : c # d /\ own[c] = own[d] => own[c] = NoCid

Owners(own) == Distinct(own) /\ \A c \in Clients : ClientInv(own, c)

SysInv ==
  /\ SP!Inv /\ SP!Readable
  /\ Types /\ MovesOwnMoney
  /\ \E own \in [Clients -> SP!Cid \cup {NoCid}] : Owners(own)

-----------------------------------------------------------------------------
(* Sequences of requests.                                                    *)

LEMMA ElementsOfAppend ==
  ASSUME NEW R, NEW s \in Seq(R), NEW e \in R
  PROVE  /\ Append(s, e) \in Seq(R) /\ Count(Append(s, e)) = Count(s) + 1
         /\ Elements(Append(s, e)) = Elements(s) \cup {e}
<1>1. Append(s, e) \in Seq(R) /\ Len(Append(s, e)) = Len(s) + 1 /\ Len(s) \in Nat
  OBVIOUS
<1>2. \A i \in 1 .. Len(s) : Append(s, e)[i] = s[i]
  OBVIOUS
<1>3. Append(s, e)[Len(s) + 1] = e
  OBVIOUS
<1>. QED
  BY <1>1, <1>2, <1>3 DEF Elements, Count

LEMMA ElementsOfNone == Elements(<<>>) = {} /\ Count(<<>>) = 0
  BY DEF Elements, Count

LEMMA CountIsNat == ASSUME NEW R, NEW s \in Seq(R) PROVE Count(s) \in Nat
  BY DEF Count

LEMMA ElementsTyped == ASSUME NEW R, NEW s \in Seq(R) PROVE Elements(s) \subseteq R
  BY DEF Elements

LEMMA NoneIsEmpty == ASSUME NEW R, NEW s \in Seq(R) PROVE s = <<>> <=> Count(s) = 0
  BY DEF Count

\* The first of the requests of two sequences is taken.
LEMMA Taken ==
  ASSUME NEW R, NEW s \in Seq(R), NEW t \in Seq(R), t # <<>>
  PROVE  /\ Head(s \o t) \in R /\ Head(s \o t) \in Elements(s) \cup Elements(t)
         /\ Tail(s \o t) \in Seq(R)
         /\ Count(Tail(s \o t)) = Count(s) + Count(t) - 1
         /\ Elements(Tail(s \o t)) \subseteq Elements(s) \cup Elements(t)
<1>. DEFINE q == s \o t
<1>1. q \in Seq(R) /\ Len(q) = Len(s) + Len(t) /\ Len(s) \in Nat /\ Len(t) \in Nat
  OBVIOUS
<1>2. Len(t) > 0
  BY <1>1
<1>3. \A i \in 1 .. Len(q) : q[i] = IF i <= Len(s) THEN s[i] ELSE t[i - Len(s)]
  OBVIOUS
<1>4. \A i \in 1 .. Len(q) : q[i] \in Elements(s) \cup Elements(t)
  <2>. SUFFICES ASSUME NEW i \in 1 .. Len(q)
                PROVE  q[i] \in Elements(s) \cup Elements(t)
    OBVIOUS
  <2>1. CASE i <= Len(s)
    BY <1>1, <1>3, <2>1 DEF Elements
  <2>2. CASE ~ i <= Len(s)
    <3>1. i - Len(s) \in 1 .. Len(t)
      BY <1>1, <2>2
    <3>2. q[i] = t[i - Len(s)]
      BY <1>3, <2>2
    <3>. QED
      BY <3>1, <3>2 DEF Elements
  <2>. QED
    BY <2>1, <2>2
<1>. HIDE DEF q
<1>5. q # <<>> /\ 1 \in 1 .. Len(q)
  BY <1>1, <1>2
<1>6. Head(q) = q[1] /\ Head(q) \in R
  BY <1>1, <1>5
<1>7. Tail(q) \in Seq(R) /\ Len(Tail(q)) = Len(q) - 1
  BY <1>1, <1>5
<1>8. \A i \in 1 .. Len(Tail(q)) : Tail(q)[i] = q[i + 1] /\ i + 1 \in 1 .. Len(q)
  BY <1>1, <1>5, <1>7
<1>9. Elements(Tail(q)) \subseteq Elements(s) \cup Elements(t)
  BY <1>4, <1>8 DEF Elements
<1>. QED
  BY <1>1, <1>4, <1>5, <1>6, <1>7, <1>9 DEF q, Count

-----------------------------------------------------------------------------
(* The server keeps what was proved of it.                                   *)

LEMMA ServerAssumptions ==
  /\ SP!SessionsAssumption /\ SP!TablesAssumption /\ SP!AmountsAssumption
  /\ SP!CountsAssumption /\ SP!BoundsAssumption /\ SP!InfoAssumption
  BY ServerAssumption
  DEF SP!SessionsAssumption, SP!TablesAssumption, SP!AmountsAssumption,
      SP!CountsAssumption, SP!BoundsAssumption, SP!InfoAssumption

LEMMA SameRequests == S!Requests = SP!Requests /\ S!Cid = SP!Cid
<1>1. S!Cid = SP!Cid
  BY DEF S!Cid, SP!Cid, S!CM!Cid, SP!CM!Cid
<1>. QED
  BY <1>1
  DEF S!Requests, S!PlainRequest, S!CreateRequest, S!LogonRequest, S!SessionRequest,
      S!TransRequest, S!DepositRequest, S!WithdrawalRequest, S!DEPOSIT_TYPE,
      SP!Requests, SP!PlainRequest, SP!CreateRequest, SP!LogonRequest,
      SP!SessionRequest, SP!TransRequest, SP!DepositRequest, SP!WithdrawalRequest,
      SP!DEPOSIT_TYPE

\* What Serve handles.
Request(c) == Head(inS[c] \o rq[c])

LEMMA ServedRequest ==
  ASSUME Types, NEW c \in Clients, Serve(c)
  PROVE  /\ Request(c) \in Asked /\ Request(c) \in Held(c)
         /\ SP!Process(Request(c))
<1>1. rq[c] \in Seq(Asked) /\ inS[c] \in Seq(Asked) /\ rq[c] # <<>>
  BY DEF Types, Serve
<1>2. Request(c) \in Asked /\ Request(c) \in Elements(inS[c]) \cup Elements(rq[c])
  BY <1>1, Taken DEF Request
<1>3. process_msg(Request(c))
  BY DEF Serve, Request
<1>. QED
  BY <1>2, <1>3, SameServer DEF Held

LEMMA StepOfServer == ASSUME Types, [Next]_vars PROVE [SP!Next]_(SP!vars)
<1>1. ASSUME UNCHANGED server PROVE [SP!Next]_(SP!vars)
  BY <1>1
  DEF server, SP!vars, SP!sessions, SP!tables, SP!buffers
<1>2. ASSUME NEW c \in Clients, Serve(c) PROVE SP!Next
  <2>1. Request(c) \in SP!Requests /\ SP!Process(Request(c))
    BY <1>2, ServedRequest DEF Asked
  <2>. QED
    BY <2>1, ServerAssumptions, SP!ProcessIsNext
<1>3. CASE GoOn
  BY <1>3, SameServer, ServerAssumptions, SP!StageIsNext DEF GoOn, Stages
<1>4. CASE Restart
  BY <1>4, SameServer DEF Restart, SP!Next
<1>5. ASSUME NEW c \in Clients,
             \/ Start(c) \/ Ask(c) \/ Exit(c) \/ Receive(c) \/ ReceiveDeaf(c)
             \/ Disconnected(c) \/ Delete(c)
      PROVE  UNCHANGED server
  BY <1>5 DEF Start, Ask, Exit, Receive, ReceiveDeaf, Disconnected, Delete
<1>6. CASE EpollWait
  BY <1>1, <1>6 DEF EpollWait
<1>7. CASE UNCHANGED vars
  BY <1>1, <1>7 DEF vars
<1>. QED
  BY <1>1, <1>2, <1>3, <1>4, <1>5, <1>6, <1>7 DEF Next

LEMMA ServerInvStep ==
  ASSUME SP!Inv, SP!Readable, Types, [Next]_vars
  PROVE  SP!Inv' /\ SP!Readable'
<1>1. [SP!Next]_(SP!vars)
  BY StepOfServer
<1>2. SP!CMP!Inv /\ SP!TypeOK
  BY DEF SP!Inv
<1>. QED
  BY <1>1, <1>2, ServerAssumptions, SP!InvStep, SP!ReadableStep

-----------------------------------------------------------------------------
(* What a step of the server does, in sum: it works on a request of one       *)
(* client, and answers it or keeps it.                                        *)

Working(c) ==
  /\ pc' # "idle" /\ serving' = c /\ Load(c)' = Load(c)
  /\ job'.req \in Held(c) /\ UNCHANGED <<outbox, reached, clients>>
  /\ pc' = "record" =>
       /\ job'.req.type \in {"DEPOSIT", "WITHDRAWAL"} /\ job'.req.cid \in SP!Cid
       /\ clients[job'.req.cid] = [state |-> "CL_LOGON", accnt |-> job'.accnt]

\* The sessions stay as they are.
Plain(req) ==
  /\ UNCHANGED clients
  /\ req.type # "CONNECT"
  /\ req.type \in {"LOGON", "LOGOFF"} => wire'.result # "CER_SUCCESS"
  /\ req.type = "WITHDRAWAL" /\ clients[req.cid].state = "CL_LOGON"
       => wire'.result \in {"CER_SUCCESS", "CER_INSUFFICIENT_FUNDS", "CER_ERROR"}

Answering(c) ==
  /\ pc' = "idle" /\ serving' = NoClient /\ Load(c)' = Load(c) - 1
  /\ wire'.req \in Held(c)
  /\ reached' = IF conn[c] = "open" THEN [reached EXCEPT ![c] = wire'.result] ELSE reached
  /\ outbox' = IF conn[c] = "open" /\ wire'.msg # SP!NoMsg
               THEN [outbox EXCEPT ![c] = Append(@, [size |-> wire'.size,
                                                     msg |-> wire'.msg])]
               ELSE outbox
  /\ \/ SP!Grants /\ wire'.req.type = "CONNECT"
     \/ SP!LogsOn(wire'.req)
     \/ SP!LogsOff(wire'.req)
     \/ Plain(wire'.req)

Serves(c) ==
  /\ UNCHANGED <<atm, conn, asked, shown, user, guessed>>
  /\ Live(c) /\ Held(c)' \subseteq Held(c) /\ Load(c) > 0
  /\ \A d \in Clients \ {c} :
       serving # d /\ serving' # d /\ UNCHANGED <<inS[d], rq[d]>>
  /\ Working(c) \/ Answering(c)

LEMMA LoadIsNat ==
  ASSUME Types, NEW c \in Clients
  PROVE  /\ Load(c) \in Nat /\ Count(inS[c]) \in Nat /\ Count(rq[c]) \in Nat
         /\ inS[c] \in Seq(Asked) /\ rq[c] \in Seq(Asked)
<1>1. inS[c] \in Seq(Asked) /\ rq[c] \in Seq(Asked)
  BY DEF Types
<1>2. Count(inS[c]) \in Nat /\ Count(rq[c]) \in Nat
  BY <1>1, CountIsNat
<1>. QED
  BY <1>1, <1>2 DEF Load

LEMMA ServeServes ==
  ASSUME SP!Inv, Types, NEW c \in Clients, Serve(c)
  PROVE  Serves(c)
<1>. DEFINE req == Request(c)
<1>1. req \in Asked /\ req \in Held(c) /\ SP!Process(req)
  BY ServedRequest
<1>2. pc = "idle" /\ serving = NoClient
  BY DEF Serve, Types, TypeOK
<1>3. inS[c] \in Seq(Asked) /\ rq[c] \in Seq(Asked) /\ rq[c] # <<>>
  BY DEF Serve, Types
<1>4. inS' = [inS EXCEPT ![c] = Tail(inS[c] \o rq[c])] /\ rq' = [rq EXCEPT ![c] = <<>>]
  BY DEF Serve
<1>5. inS \in [Clients -> Seq(Asked)] /\ rq \in [Clients -> Seq(Asked)]
  BY DEF Types
<1>6. inS'[c] = Tail(inS[c] \o rq[c]) /\ rq'[c] = <<>>
  BY <1>4, <1>5
<1>7. /\ Count(inS'[c]) = Count(inS[c]) + Count(rq[c]) - 1
      /\ Elements(inS'[c]) \subseteq Elements(inS[c]) \cup Elements(rq[c])
  BY <1>3, <1>6, Taken
<1>8. Count(rq'[c]) = 0 /\ Elements(rq'[c]) = {}
  BY <1>6, ElementsOfNone
<1>9. serving # c
  BY <1>2, ClientsAssumption
<1>10. Count(rq[c]) > 0 /\ Count(rq[c]) \in Nat /\ Count(inS[c]) \in Nat
  BY <1>3, LoadIsNat, NoneIsEmpty
<1>17. Held(c) = Elements(inS[c]) \cup Elements(rq[c])
  BY <1>9 DEF Held
<1>18. Load(c) = Count(inS[c]) + Count(rq[c])
  BY <1>9, <1>10 DEF Load
<1>11. Load(c) > 0
  BY <1>10, <1>18
<1>12. Live(c)
  BY <1>11 DEF Types
<1>13. UNCHANGED <<atm, conn, asked, shown, user, guessed>> /\ Answers(c)
  BY DEF Serve
<1>14. SP!Effect(req)
  BY <1>1, ServerAssumptions, SP!ProcessEffect DEF Asked, SP!Inv, SP!TypeOK
<1>15. CASE pc' # "idle"
  <2>1. serving' = c /\ UNCHANGED <<outbox, reached>>
    BY <1>13, <1>15 DEF Answers
  <2>2. SP!Goes(req)
    BY <1>14, <1>15 DEF SP!Effect, SP!LogsOn, SP!LogsOff, SP!Replies
  <2>3. Held(c)' \subseteq Held(c)
    BY <1>1, <1>7, <1>8, <1>17, <2>1, <2>2 DEF Held, SP!Goes
  <2>4. Load(c)' = Load(c)
    BY <1>7, <1>8, <1>18, <1>10, <2>1 DEF Load
  <2>5. Working(c)
    BY <1>1, <1>15, <2>1, <2>2, <2>4 DEF Working, SP!Goes
  <2>6. ASSUME NEW d \in Clients \ {c}
        PROVE  serving # d /\ serving' # d /\ UNCHANGED <<inS[d], rq[d]>>
    BY <1>2, <1>4, <1>5, <2>1, ClientsAssumption
  <2>. QED
    BY <1>11, <1>12, <1>13, <2>3, <2>5, <2>6 DEF Serves
<1>16. CASE pc' = "idle"
  <2>1. serving' = NoClient
    BY <1>13, <1>16 DEF Answers
  <2>9. serving' # c
    BY <2>1, ClientsAssumption
  <2>2. SP!LogsOn(req) \/ SP!LogsOff(req) \/ SP!Replies(req)
    BY <1>14, <1>16 DEF SP!Effect, SP!Goes
  <2>3. wire'.req = req
    BY <2>2 DEF SP!LogsOn, SP!LogsOff, SP!Replies
  <2>4. Held(c)' \subseteq Held(c)
    BY <1>7, <1>8, <1>17, <2>9 DEF Held
  <2>5. Load(c)' = Load(c) - 1
    BY <1>7, <1>8, <1>18, <1>10, <2>9 DEF Load
  <2>6. SP!Replies(req) => Plain(req)
    BY DEF SP!Replies, Plain, SP!LoggedOnAs
  <2>7. Answering(c)
    BY <1>1, <1>13, <1>16, <2>1, <2>2, <2>3, <2>5, <2>6
    DEF Answering, Answers, S!NoMsg, SP!NoMsg
  <2>8. ASSUME NEW d \in Clients \ {c}
        PROVE  serving # d /\ serving' # d /\ UNCHANGED <<inS[d], rq[d]>>
    BY <1>2, <1>4, <1>5, <2>1, ClientsAssumption
  <2>. QED
    BY <1>11, <1>12, <1>13, <2>4, <2>7, <2>8 DEF Serves
<1>. QED
  BY <1>15, <1>16

LEMMA GoOnServes ==
  ASSUME SP!Inv, Types, GoOn
  PROVE  \E c \in Clients : Serves(c)
<1>1. SP!Stage
  BY SameServer DEF GoOn, Stages
<1>2. SP!Probes \/ SP!Grants \/ SP!Ends
  BY <1>1, ServerAssumptions, SP!StageEffect DEF SP!Inv, SP!TypeOK
<1>3. pc # "idle"
  BY <1>2 DEF SP!Probes, SP!Grants, SP!Ends
<1>4. PICK c \in Clients : c = serving /\ c # NoClient
  BY <1>3 DEF Types, TypeOK
<1>11. Answers(c)
  BY <1>4 DEF GoOn, Answers
<1>5. UNCHANGED <<atm, conn, rq, inS, asked, shown, user, guessed>>
  BY DEF GoOn
<1>6. job.req \in Asked /\ job.req \in Held(c)
  BY <1>4 DEF Types, Held
<1>7. Load(c) \in Nat /\ Load(c) = Count(inS[c]) + Count(rq[c]) + 1
      /\ Count(inS[c]) \in Nat /\ Count(rq[c]) \in Nat
  BY <1>4, LoadIsNat DEF Load
<1>8. Live(c) /\ Load(c) > 0
  BY <1>4, <1>7 DEF Types
<1>9. CASE pc' # "idle"
  <2>1. serving' = c /\ UNCHANGED <<outbox, reached>>
    BY <1>11, <1>9 DEF Answers
  <2>2. SP!Probes
    BY <1>2, <1>9 DEF SP!Grants, SP!Ends
  <2>3. Held(c)' = Held(c) /\ Load(c)' = Load(c)
    BY <1>4, <1>5, <2>1, <2>2 DEF Held, Load, SP!Probes
  <2>4. Working(c)
    BY <1>3, <1>6, <1>9, <2>1, <2>2, <2>3 DEF Working, SP!Probes
  <2>. QED
    BY <1>4, <1>5, <1>8, <2>1, <2>3, <2>4 DEF Serves
<1>10. CASE pc' = "idle"
  <2>1. serving' = NoClient
    BY <1>11, <1>10 DEF Answers
  <2>10. serving' # c
    BY <1>4, <2>1
  <2>2. SP!Grants \/ SP!Ends
    BY <1>2, <1>3, <1>10 DEF SP!Probes
  <2>3. wire'.req = job.req
    BY <2>2 DEF SP!Grants, SP!Ends
  <2>4. Held(c)' \subseteq Held(c)
    <3>1. UNCHANGED <<inS[c], rq[c]>>
      BY <1>5
    <3>. QED
      BY <2>10, <3>1 DEF Held
  <2>5. Load(c)' = Load(c) - 1
    <3>1. UNCHANGED <<inS[c], rq[c]>>
      BY <1>5
    <3>. QED
      BY <1>7, <2>10, <3>1 DEF Load
  <2>6. SP!JobOK
    BY DEF SP!Inv, SP!TypeOK
  <2>7. SP!Grants => wire'.req.type = "CONNECT"
    BY <2>3, <2>6 DEF SP!Grants, SP!JobOK
  <2>8. SP!Ends => Plain(wire'.req)
    BY <2>3, <2>6
    DEF SP!Ends, Plain, SP!JobOK, SP!CreateRequest, SP!DepositRequest,
        SP!WithdrawalRequest
  <2>9. Answering(c)
    BY <1>6, <1>10, <1>11, <2>1, <2>2, <2>3, <2>5, <2>7, <2>8
    DEF Answering, Answers, S!NoMsg, SP!NoMsg
  <2>11. ASSUME NEW d \in Clients \ {c}
         PROVE  serving # d /\ serving' # d /\ UNCHANGED <<inS[d], rq[d]>>
    BY <1>4, <1>5, <2>1, ClientsAssumption
  <2>. QED
    BY <1>5, <1>8, <2>4, <2>9, <2>11 DEF Serves
<1>. QED
  BY <1>4, <1>9, <1>10

-----------------------------------------------------------------------------
(* A client that a step does not concern.                                    *)

Same(d) ==
  /\ UNCHANGED <<atm[d], conn[d], rq[d], inS[d], outbox[d], asked[d], reached[d], shown[d],
                 user[d]>>
  /\ serving = d <=> serving' = d
  /\ serving = d => job' = job
  /\ guessed => guessed'

\* The session of an ID stays, or somebody who strays logs on in its place.
SessionSpared(id) ==
  id = NoCid \/ clients'[id] = clients[id]
    \/ (guessed /\ clients[id].state = "CL_CONNECTED" /\ clients'[id].state = "CL_LOGON")

LEMMA Untouched ==
  ASSUME NEW d \in Clients, NEW own, NEW new, new[d] = own[d],
         ClientInv(own, d), Same(d), SessionSpared(own[d])
  PROVE  ClientInv(new, d)'
<1>1. Held(d)' = Held(d) /\ Load(d)' = Load(d)
  BY DEF Same, Held, Load
<1>2. /\ Hears(d)' = Hears(d) /\ Live(d)' = Live(d) /\ Connecting(d)' = Connecting(d)
      /\ Strays(d) => Strays(d)'
  BY DEF Same, Hears, Live, Connecting, Strays
<1>3. \A p : Fits(d, p) => Fits(d, p)'
  BY DEF Same, Fits
<1>4. OneAtATime(d)'
  BY <1>1, <1>2, <1>3 DEF ClientInv, OneAtATime, Same
<1>5. Connects(new, d)'
  BY <1>1, <1>2 DEF ClientInv, Connects, Same, SessionSpared
<1>6. KnowsItsID(new, d)'
  BY <1>2 DEF ClientInv, KnowsItsID, Same
<1>7. NamesItsID(new, d)'
  BY <1>1 DEF ClientInv, NamesItsID, Same
<1>8. SessionAsBelieved(new, d)'
  <2>1. Believes(d)' = Believes(d)
    BY DEF Believes, Same
  <2>. QED
    BY <1>2, <2>1 DEF ClientInv, SessionAsBelieved, Same, SessionSpared
<1>9. SessionKept(new, d)'
  BY <1>1 DEF ClientInv, SessionKept, Same, SessionSpared
<1>10. ShowsTruth(d)'
  BY <1>1, <1>2 DEF ClientInv, ShowsTruth, Same
<1>. QED
  BY <1>4, <1>5, <1>6, <1>7, <1>8, <1>9, <1>10 DEF ClientInv

-----------------------------------------------------------------------------
(* What a client does with an answer.                                        *)

\* A client that hears has one answer before it, and reads k bytes of it.
Reads(c, p, k) ==
  /\ atm[c].at = "waiting" /\ ~ atm[c].deaf /\ Load(c) = 0
  /\ p \in Packet /\ p.msg \in SP!Message /\ Fits(c, p) /\ k \in 0 .. p.size
  /\ Count(outbox[c]) = 1 /\ p = Head(outbox[c])
  /\ atm' = [atm EXCEPT ![c] = A!recvRsp(@, p.msg, k)]
  /\ IF atm'[c] = A!Off THEN Leaves(c)
     ELSE /\ shown' = [shown EXCEPT ![c] = A!Shown(p.msg, k)]
          /\ outbox' = [outbox EXCEPT ![c] = IF k < p.size THEN <<Rest>> ELSE <<>>]
          /\ UNCHANGED <<conn, asked, reached>>
  /\ guessed' = (guessed \/ (p.msg.type = "CONNECT" /\ k < p.size))
  /\ UNCHANGED <<server, rq, inS, loop, user>>

LEMMA OneOnly ==
  ASSUME NEW R, NEW s \in Seq(R), s # <<>>, Count(s) <= 1
  PROVE  Head(s) \in R /\ Count(s) = 1 /\ Tail(s) = <<>>
<1>1. Len(s) \in Nat /\ Len(s) # 0 /\ Head(s) \in R
  OBVIOUS
<1>4. Len(s) = Count(s)
  BY DEF Count
<1>2. Len(s) = 1
  <2>. DEFINE n == Len(s)
  <2>1. n \in Nat /\ n # 0 /\ n <= 1
    BY <1>1, <1>4
  <2>. HIDE DEF n
  <2>2. n = 1
    BY <2>1
  <2>. QED
    BY <2>2 DEF n
<1>3. Tail(s) \in Seq(R) /\ Len(Tail(s)) = 0
  BY <1>2
<1>. QED
  BY <1>1, <1>2, <1>3, <1>4

\* The result of a request that succeeded is read.
Told(msg, k) == k >= SP!HdrSize + SP!ResultSize /\ msg.result = "CER_SUCCESS"

LEMMA RecvRsp ==
  ASSUME NEW cl \in A!Client, NEW msg \in SP!Message, NEW k \in Nat,
         msg.type = "CONNECT" /\ msg.result = "CER_SUCCESS" => msg.info \in SP!Cid,
         NEW r, r = A!recvRsp(cl, msg, k)
  PROVE  /\ r \in A!Client
         /\ \/ r = A!Off
            \/ /\ r.at = "menu" /\ (r.deaf <=> k < SP!HdrSize + msg.len)
               /\ msg.type = "CONNECT" /\ Told(msg, k) =>
                    /\ r.logged_on = cl.logged_on
                    /\ r.clientID = IF k >= SP!HdrSize + SP!BodySize("CONNECT")
                                    THEN msg.info ELSE MAXCID
               /\ ~ (msg.type = "CONNECT" /\ Told(msg, k)) => r.clientID = cl.clientID
               /\ msg.type = "LOGON" /\ Told(msg, k) => r.logged_on = TRUE
               /\ msg.type = "LOGOFF" /\ Told(msg, k) => r.logged_on = FALSE
               /\ ~ (msg.type \in {"LOGON", "LOGOFF"} /\ Told(msg, k))
                    => r.logged_on = cl.logged_on
<1>. DEFINE heard == A!Hears(cl, msg, k)
            success == k >= A!HdrSize /\ A!ResultRead(msg, k) = "CER_SUCCESS"
<1>1. PICK b \in BOOLEAN :
        (b <=> k < 28 + msg.len) /\ heard = [cl EXCEPT !.at = "menu", !.deaf = b]
  <2>. DEFINE b == k < 28 + msg.len
  <2>1. b \in BOOLEAN
    <3>1. CASE k < 28 + msg.len
      BY <3>1
    <3>2. CASE ~ (k < 28 + msg.len)
      BY <3>2
    <3>. QED
      BY <3>1, <3>2
  <2>2. heard = [cl EXCEPT !.at = "menu", !.deaf = b]
    BY Zenon DEF A!Hears, A!HdrSize
  <2>. QED
    BY <2>1, <2>2, Zenon
<1>2. /\ heard \in A!Client /\ heard.at = "menu" /\ (heard.deaf <=> k < 28 + msg.len)
      /\ heard.logged_on = cl.logged_on /\ heard.clientID = cl.clientID
  BY <1>1 DEF A!Client
<1>3. success <=> Told(msg, k)
  BY DEF Told, A!ResultRead, A!HdrSize, A!ResultSize, SP!HdrSize, SP!ResultSize
<1>4. A!Off \in A!Client
  BY ServerAssumption DEF A!Off, A!Client, S!Cid, S!CM!Cid
<1>. HIDE DEF heard, success
<1>5. r = CASE k >= A!HdrSize /\ msg.type = "CONNECT" ->
                 IF success THEN [heard EXCEPT !.clientID = A!IdRead(msg, k)] ELSE A!Off
            [] success /\ msg.type = "LOGON" -> [heard EXCEPT !.logged_on = TRUE]
            [] success /\ msg.type = "LOGOFF" -> [heard EXCEPT !.logged_on = FALSE]
            [] OTHER -> heard
  BY DEF A!recvRsp, heard, success
<1>6. A!HdrSize = 28 /\ SP!HdrSize = 28 /\ SP!ResultSize = 8 /\ SP!BodySize("CONNECT") = 14
  BY DEF A!HdrSize, SP!HdrSize, SP!ResultSize, SP!BodySize
<1>7. Told(msg, k) => k >= 28
  BY <1>6 DEF Told
<1>8. CASE k >= 28 /\ msg.type = "CONNECT"
  <2>1. CASE ~ Told(msg, k)
    BY <1>3, <1>4, <1>5, <1>6, <1>8, <2>1
  <2>2. CASE Told(msg, k)
    <3>1. A!IdRead(msg, k) = IF k >= 42 THEN msg.info ELSE MAXCID
      BY DEF A!IdRead, A!HdrSize, A!BodySize
    <3>2. A!IdRead(msg, k) \in S!Cid
      BY <1>8, <2>2, <3>1, ServerAssumption, SameRequests DEF Told, S!Cid, S!CM!Cid
    <3>3. r = [heard EXCEPT !.clientID = A!IdRead(msg, k)]
      BY <1>3, <1>5, <1>6, <1>8, <2>2
    <3>. QED
      BY <1>2, <1>6, <1>8, <2>2, <3>1, <3>2, <3>3 DEF A!Client
  <2>. QED
    BY <2>1, <2>2
<1>9. CASE ~ (k >= 28 /\ msg.type = "CONNECT")
  <2>1. CASE Told(msg, k) /\ msg.type = "LOGON"
    <3>1. r = [heard EXCEPT !.logged_on = TRUE]
      BY <1>3, <1>5, <1>6, <1>9, <2>1
    <3>. QED
      BY <1>2, <1>6, <2>1, <3>1 DEF A!Client
  <2>2. CASE Told(msg, k) /\ msg.type = "LOGOFF"
    <3>1. r = [heard EXCEPT !.logged_on = FALSE]
      BY <1>3, <1>5, <1>6, <1>9, <2>2
    <3>. QED
      BY <1>2, <1>6, <2>2, <3>1 DEF A!Client
  <2>3. CASE ~ (Told(msg, k) /\ msg.type \in {"LOGON", "LOGOFF"})
    <3>1. r = heard
      BY <1>3, <1>5, <1>6, <1>9, <2>3
    <3>. QED
      BY <1>2, <1>6, <1>7, <1>9, <2>3, <3>1
  <2>. QED
    BY <2>1, <2>2, <2>3
<1>. QED
  BY <1>8, <1>9

LEMMA ReceiveReads ==
  ASSUME Types, NEW c \in Clients, OneAtATime(c), Receive(c)
  PROVE  \E k \in Nat : Reads(c, Head(outbox[c]), k)
<1>. DEFINE p == Head(outbox[c])
<1>1. outbox[c] \in Seq(Packet) /\ outbox[c] # <<>> /\ outbox \in [Clients -> Seq(Packet)]
  BY DEF Types, Receive
<1>2. atm[c].at = "waiting" /\ ~ atm[c].deaf
  BY DEF Receive
<1>3. Hears(c)
  BY <1>2 DEF Hears
<1>4. Load(c) + Count(outbox[c]) <= 1 /\ Fits(c, p)
  BY <1>1, <1>2, <1>3 DEF OneAtATime
<1>5. Load(c) \in Nat /\ Count(outbox[c]) \in Nat /\ Count(outbox[c]) # 0
  BY <1>1, LoadIsNat, CountIsNat, NoneIsEmpty
<1>6. Load(c) = 0 /\ Count(outbox[c]) <= 1
  BY <1>4, <1>5
<1>7. p \in Packet /\ Count(outbox[c]) = 1 /\ Tail(outbox[c]) = <<>>
  BY <1>1, <1>6, OneOnly
<1>8. p.msg \in SP!Message /\ p.size \in Nat
  BY <1>4, <1>7 DEF Packet, Fits
<1>9. PICK k \in Places(p.msg, p.size) :
        /\ atm' = [atm EXCEPT ![c] = A!recvRsp(@, p.msg, k)]
        /\ IF atm'[c] = A!Off THEN Leaves(c)
           ELSE /\ shown' = [shown EXCEPT ![c] = A!Shown(p.msg, k)]
                /\ outbox' = [outbox EXCEPT ![c] =
                                (IF k < p.size THEN <<Rest>> ELSE <<>>) \o Tail(@)]
                /\ UNCHANGED <<conn, asked, reached>>
        /\ guessed' = (guessed \/ (p.msg.type = "CONNECT" /\ k < p.size))
  BY Zenon DEF Receive
<1>10. k \in Nat /\ k \in 0 .. p.size
  <2>1. k \in 1 .. p.size \/ k = p.size
    BY <1>9, Zenon DEF Places
  <2>. QED
    BY <1>8, <2>1
<1>11. ASSUME atm'[c] # A!Off
       PROVE  outbox' = [outbox EXCEPT ![c] = IF k < p.size THEN <<Rest>> ELSE <<>>]
  <2>1. outbox' = [outbox EXCEPT ![c] =
                     (IF k < p.size THEN <<Rest>> ELSE <<>>) \o Tail(outbox[c])]
    BY <1>1, <1>9, <1>11, Zenon
  <2>2. (IF k < p.size THEN <<Rest>> ELSE <<>>) \o <<>>
          = IF k < p.size THEN <<Rest>> ELSE <<>>
    OBVIOUS
  <2>. QED
    BY <1>7, <2>1, <2>2, Zenon
<1>12. UNCHANGED <<server, rq, inS, loop, user>>
  BY DEF Receive
<1>. HIDE DEF p
<1>13. Reads(c, p, k)
  BY <1>2, <1>4, <1>6, <1>7, <1>8, <1>9, <1>10, <1>11, <1>12, Zenon DEF Reads, p
<1>. QED
  BY <1>10, <1>13, Zenon DEF p

-----------------------------------------------------------------------------
(* Types.                                                                    *)

LEMMA AskedRequests == ASSUME NEW s \in Seq(Asked) PROVE s \in Seq(S!Requests)
<1>1. Asked \subseteq S!Requests
  BY SameRequests DEF Asked
<1>. QED
  BY <1>1

\* A step that changes only what belongs to one client.
LEMMA ClientTypes ==
  ASSUME Types, NEW c \in Clients, UNCHANGED <<server, serving>>, batch' \subseteq Clients,
         NEW a \in A!Client, atm' = [atm EXCEPT ![c] = a],
         NEW n \in {"none", "open", "left", "broken"}, conn' = [conn EXCEPT ![c] = n],
         NEW o \in Seq(Packet), outbox' = [outbox EXCEPT ![c] = o],
         rq' \in [Clients -> Seq(Asked)], inS' \in [Clients -> Seq(Asked)],
         \A d \in Clients \ {c} : UNCHANGED <<rq[d], inS[d]>>,
         asked' \in [Clients -> AskedTypes], reached' \in [Clients -> Results],
         shown' \in [Clients -> Showings],
         user' \in [Clients -> AccntNo \cup {NoAccnt}], guessed' \in BOOLEAN,
         a.at = "off" => a = A!Off /\ o = <<>> /\ n \in {"none", "left"},
         n = "left" => a.at = "off",
         n \notin {"open", "left"} => Load(c)' = 0
  PROVE  Types'
<1>1. /\ atm \in [Clients -> A!Client]
      /\ conn \in [Clients -> {"none", "open", "left", "broken"}]
      /\ outbox \in [Clients -> Seq(Packet)]
  BY DEF Types, TypeOK
<1>2. /\ atm'[c] = a /\ conn'[c] = n /\ outbox'[c] = o
      /\ atm' \in [Clients -> A!Client] /\ outbox' \in [Clients -> Seq(Packet)]
      /\ conn' \in [Clients -> {"none", "open", "left", "broken"}]
  BY <1>1
<1>3. ASSUME NEW d \in Clients \ {c}
      PROVE  UNCHANGED <<atm[d], conn[d], outbox[d], rq[d], inS[d]>>
  BY <1>1
<1>4. pc' = pc /\ job' = job /\ serving' = serving
  BY DEF server
<1>5. serving' \in Clients \cup {NoClient} /\ (serving' # NoClient <=> pc' # "idle")
  BY <1>4 DEF Types, TypeOK
<1>6. ASSUME NEW d \in Clients
      PROVE  /\ {rq'[d], inS'[d]} \subseteq Seq(S!Requests)
             /\ atm'[d].at = "off" => outbox'[d] = <<>> /\ conn'[d] \in {"none", "left"}
             /\ atm'[d].at = "off" => atm'[d] = A!Off
             /\ conn'[d] = "left" => atm'[d].at = "off"
             /\ ~ Live(d)' => Load(d)' = 0
  <2>1. rq'[d] \in Seq(Asked) /\ inS'[d] \in Seq(Asked)
    OBVIOUS
  <2>2. {rq'[d], inS'[d]} \subseteq Seq(S!Requests)
    BY <2>1, AskedRequests
  <2>3. CASE d = c
    BY <1>2, <2>2, <2>3 DEF Live
  <2>4. CASE d # c
    <3>1. Load(d)' = Load(d)
      BY <1>3, <1>4, <2>4 DEF Load
    <3>. QED
      BY <1>3, <2>2, <2>4, <3>1 DEF Live, Types, TypeOK
  <2>. QED
    BY <2>3, <2>4
<1>7. serving' # NoClient => job'.req \in Asked
  BY <1>4 DEF Types
<1>. QED
  BY <1>2, <1>5, <1>6, <1>7 DEF Types, TypeOK

LEMMA OffIsClient == A!Off \in A!Client /\ A!Off.at = "off"
  BY ServerAssumption DEF A!Off, A!Client, S!Cid, S!CM!Cid

LEMMA ChoicesAsked ==
  ASSUME NEW cl \in A!Client, NEW req \in A!Choices(cl)
  PROVE  /\ req \in Asked /\ req.type # "CONNECT"
         /\ req.type \in SessionTypes => cl.logged_on /\ req.cid = cl.clientID
         /\ req.type = "LOGON" => ~ cl.logged_on /\ req.cid = cl.clientID
<1>1. cl.clientID \in SP!Cid
  BY SameRequests DEF A!Client
<1>2. CASE cl.logged_on
  <2>1. \/ req \in A!sendWithdrawReq(cl) \/ req \in A!sendDepositReq(cl)
        \/ req \in A!sendBalQueryReq(cl) \/ req \in A!sendTransQueryReq(cl)
        \/ req \in A!sendLogOffReq(cl)
    BY <1>2 DEF A!Choices, A!level2_menu
  <2>2. CASE req \in A!sendWithdrawReq(cl)
    BY <1>1, <1>2, <2>2
    DEF A!sendWithdrawReq, Asked, SP!Requests, SP!WithdrawalRequest, SessionTypes
  <2>3. CASE req \in A!sendDepositReq(cl)
    BY <1>1, <1>2, <2>3
    DEF A!sendDepositReq, Asked, SP!Requests, SP!DepositRequest, SessionTypes,
        A!DEPOSIT_TYPE, SP!DEPOSIT_TYPE
  <2>4. CASE req \in A!sendBalQueryReq(cl) \/ req \in A!sendLogOffReq(cl)
    BY <1>1, <1>2, <2>4
    DEF A!sendBalQueryReq, A!sendLogOffReq, Asked, SP!Requests, SP!SessionRequest,
        SessionTypes
  <2>5. CASE req \in A!sendTransQueryReq(cl)
    BY <1>1, <1>2, <2>5
    DEF A!sendTransQueryReq, Asked, SP!Requests, SP!TransRequest, SessionTypes
  <2>. QED
    BY <2>1, <2>2, <2>3, <2>4, <2>5
<1>3. CASE ~ cl.logged_on
  <2>1. req \in A!sendLogonReq(cl) \/ req \in A!sendCreatAccntReq
    BY <1>3 DEF A!Choices, A!level1_menu
  <2>2. CASE req \in A!sendLogonReq(cl)
    BY <1>1, <1>3, <2>2
    DEF A!sendLogonReq, Asked, SP!Requests, SP!LogonRequest, SessionTypes
  <2>3. CASE req \in A!sendCreatAccntReq
    BY <1>1, <1>3, <2>3
    DEF A!sendCreatAccntReq, Asked, SP!Requests, SP!CreateRequest, SessionTypes
  <2>. QED
    BY <2>1, <2>2, <2>3
<1>. QED
  BY <1>2, <1>3

LEMMA IsWaiting ==
  ASSUME NEW cl \in A!Client
  PROVE  [cl EXCEPT !.at = "waiting"] \in A!Client /\ [cl EXCEPT !.at = "waiting"].at = "waiting"
  BY DEF A!Client

LEMMA StartTypes == ASSUME Types, NEW c \in Clients, Start(c) PROVE Types'
<1>. DEFINE a == [atm[c] EXCEPT !.at = "waiting"]
<1>1. a \in A!Client /\ a.at = "waiting" /\ atm' = [atm EXCEPT ![c] = a]
  BY IsWaiting DEF Start, Types, TypeOK
<1>2. conn' = [conn EXCEPT ![c] = "open"] /\ conn'[c] = "open"
  BY DEF Start, Types, TypeOK
<1>3. Connect \in Asked
  BY DEF Connect, Asked, SP!Requests, SP!PlainRequest
<1>4. rq' = [rq EXCEPT ![c] = Append(rq[c], Connect)]
  BY <1>2 DEF Start, Sends
<1>5. outbox[c] \in Seq(Packet) /\ outbox' = [outbox EXCEPT ![c] = outbox[c]]
  BY DEF Start, Types
<1>6. /\ rq' \in [Clients -> Seq(Asked)] /\ inS' \in [Clients -> Seq(Asked)]
      /\ \A d \in Clients \ {c} : UNCHANGED <<rq[d], inS[d]>>
  BY <1>3, <1>4 DEF Start, Types
<1>7. /\ asked' = [asked EXCEPT ![c] = "CONNECT"] /\ reached' = [reached EXCEPT ![c] = "none"]
      /\ shown' = [shown EXCEPT ![c] = A!NothingShown]
      /\ user' = [user EXCEPT ![c] = NoAccnt]
  BY DEF Start, Sends, Resets, Connect
<1>8. A!NothingShown \in Showings
  BY DEF A!NothingShown, Showings
<1>9. /\ asked' \in [Clients -> AskedTypes] /\ reached' \in [Clients -> Results]
      /\ shown' \in [Clients -> Showings]
      /\ user' \in [Clients -> AccntNo \cup {NoAccnt}]
  BY <1>7, <1>8 DEF Types, AskedTypes, Results, SP!MsgType
<1>10. UNCHANGED <<server, serving>> /\ batch' \subseteq Clients /\ guessed' \in BOOLEAN
  BY DEF Start, loop, Types, TypeOK
<1>. HIDE DEF a
<1>. QED
  BY <1>1, <1>2, <1>5, <1>6, <1>9, <1>10, ClientTypes

LEMMA AskTypes == ASSUME Types, NEW c \in Clients, Ask(c) PROVE Types'
<1>. DEFINE a == [atm[c] EXCEPT !.at = "waiting"]
<1>1. a \in A!Client /\ a.at = "waiting" /\ atm' = [atm EXCEPT ![c] = a]
  BY IsWaiting DEF Ask, Types, TypeOK
<1>2. /\ conn[c] \in {"none", "open", "left", "broken"} /\ conn' = [conn EXCEPT ![c] = conn[c]]
      /\ conn[c] # "left" /\ conn'[c] = conn[c]
  BY DEF Ask, Types, TypeOK
<1>3. PICK req \in A!Choices(atm[c]) :
        /\ Sends(c, req)
        /\ user' = IF req.type = "LOGON" THEN [user EXCEPT ![c] = req.pan] ELSE user
  BY DEF Ask
<1>4. req \in Asked
  BY ChoicesAsked DEF Types, TypeOK
<1>5. outbox[c] \in Seq(Packet) /\ outbox' = [outbox EXCEPT ![c] = outbox[c]]
  BY DEF Ask, Types
<1>6. rq' = IF conn[c] = "open" THEN [rq EXCEPT ![c] = Append(rq[c], req)] ELSE rq
  BY <1>2, <1>3 DEF Sends
<1>7. /\ rq' \in [Clients -> Seq(Asked)] /\ inS' \in [Clients -> Seq(Asked)]
      /\ \A d \in Clients \ {c} : UNCHANGED <<rq[d], inS[d]>>
  BY <1>4, <1>6 DEF Ask, Types
<1>8. /\ asked' = [asked EXCEPT ![c] = req.type] /\ reached' = [reached EXCEPT ![c] = "none"]
      /\ shown' = [shown EXCEPT ![c] = A!NothingShown]
  BY <1>3 DEF Sends, Resets
<1>9. A!NothingShown \in Showings
  BY DEF A!NothingShown, Showings
<1>10. req.type \in AskedTypes /\ (req.type = "LOGON" => req.pan \in AccntNo)
  BY <1>4
  DEF AskedTypes, SP!MsgType, Asked, SP!Requests, SP!PlainRequest, SP!CreateRequest, SP!LogonRequest,
      SP!SessionRequest, SP!TransRequest, SP!DepositRequest, SP!WithdrawalRequest
<1>11. /\ asked' \in [Clients -> AskedTypes] /\ reached' \in [Clients -> Results]
       /\ shown' \in [Clients -> Showings]
  BY <1>8, <1>9, <1>10 DEF Types, Results
<1>12. user' \in [Clients -> AccntNo \cup {NoAccnt}]
  BY <1>3, <1>10 DEF Types
<1>13. UNCHANGED <<server, serving>> /\ batch' \subseteq Clients /\ guessed' \in BOOLEAN
  BY DEF Ask, loop, Types, TypeOK
<1>14. conn[c] \notin {"open", "left"} => Load(c)' = 0
  <2>. SUFFICES ASSUME conn[c] \notin {"open", "left"} PROVE Load(c)' = 0
    OBVIOUS
  <2>1. Load(c) = 0
    BY DEF Types, Live
  <2>2. UNCHANGED <<rq, inS, serving>>
    BY <1>6 DEF Ask, loop
  <2>. QED
    BY <2>1, <2>2 DEF Load
<1>. HIDE DEF a
<1>. QED
  BY <1>1, <1>2, <1>5, <1>7, <1>11, <1>12, <1>13, <1>14, ClientTypes

\* A client that ends.
Ends(c) ==
  /\ atm[c].at # "off" /\ atm' = [atm EXCEPT ![c] = A!Off] /\ Leaves(c)
  /\ guessed' \in BOOLEAN /\ (guessed => guessed')
  /\ UNCHANGED <<server, rq, inS, loop, user>>

LEMMA EndsTypes == ASSUME Types, NEW c \in Clients, Ends(c) PROVE Types'
<1>. DEFINE n == IF conn[c] = "open" THEN "left" ELSE "none"
<1>1. n \in {"none", "left"} /\ conn' = [conn EXCEPT ![c] = n]
  BY DEF Ends, Leaves
<1>2. outbox' = [outbox EXCEPT ![c] = <<>>] /\ <<>> \in Seq(Packet)
  BY DEF Ends, Leaves
<1>3. /\ rq' \in [Clients -> Seq(Asked)] /\ inS' \in [Clients -> Seq(Asked)]
      /\ \A d \in Clients \ {c} : UNCHANGED <<rq[d], inS[d]>>
      /\ UNCHANGED <<server, serving>> /\ batch' \subseteq Clients /\ guessed' \in BOOLEAN
      /\ user' \in [Clients -> AccntNo \cup {NoAccnt}]
  BY DEF Ends, loop, Types, TypeOK
<1>4. /\ asked' = [asked EXCEPT ![c] = "none"] /\ reached' = [reached EXCEPT ![c] = "none"]
      /\ shown' = [shown EXCEPT ![c] = A!NothingShown]
  BY DEF Ends, Leaves, Resets
<1>5. A!NothingShown \in Showings
  BY DEF A!NothingShown, Showings
<1>6. /\ asked' \in [Clients -> AskedTypes] /\ reached' \in [Clients -> Results]
      /\ shown' \in [Clients -> Showings]
  BY <1>4, <1>5 DEF Types, AskedTypes, Results
<1>7. n \notin {"open", "left"} => Load(c)' = 0
  <2>. SUFFICES ASSUME n \notin {"open", "left"} PROVE Load(c)' = 0
    OBVIOUS
  <2>1. conn[c] # "open"
    OBVIOUS
  <2>2. conn[c] # "left"
    BY DEF Ends, Types
  <2>3. Load(c) = 0
    BY <2>1, <2>2 DEF Types, Live
  <2>4. UNCHANGED <<rq, inS, serving>>
    BY DEF Ends, loop
  <2>. QED
    BY <2>3, <2>4 DEF Load
<1>8. atm' = [atm EXCEPT ![c] = A!Off]
  BY DEF Ends
<1>. HIDE DEF n
<1>. QED
  BY <1>1, <1>2, <1>3, <1>6, <1>7, <1>8, OffIsClient, ClientTypes

LEMMA ShownTyped ==
  ASSUME NEW msg \in SP!Message, NEW k \in Nat
  PROVE  A!Shown(msg, k) \in Showings
<1>1. A!Says(msg.type, A!ResultRead(msg, k)) \in {"failed", "success"}
  <2>1. CASE msg.type = "INVALID"
    BY <2>1 DEF A!Says
  <2>2. CASE msg.type = "WITHDRAWAL"
    BY <2>2 DEF A!Says
  <2>3. CASE msg.type # "INVALID" /\ msg.type # "WITHDRAWAL"
    BY <2>3 DEF A!Says
  <2>. QED
    BY <2>1, <2>2, <2>3
<1>2. msg.type \in SP!MsgType
  BY DEF SP!Message
<1>. QED
  BY <1>1, <1>2 DEF A!Shown, A!InvalidShown, Showings

LEMMA RestIsPacket == Rest \in Packet
  BY DEF Rest, Packet, S!NoMsg, SP!NoMsg

\* The answer to a CONNECT that failed ends its client.
LEMMA ReadsEnds ==
  ASSUME Types, NEW c \in Clients, NEW p, NEW k \in Nat, Reads(c, p, k)
  PROVE  /\ guessed' \in BOOLEAN /\ (guessed => guessed')
         /\ atm'[c] = A!Off => Ends(c)
<1>1. guessed' = (guessed \/ (p.msg.type = "CONNECT" /\ k < p.size))
  BY DEF Reads
<1>2. guessed' \in BOOLEAN /\ (guessed => guessed')
  <2>1. CASE guessed \/ (p.msg.type = "CONNECT" /\ k < p.size)
    BY <1>1, <2>1
  <2>2. CASE ~ (guessed \/ (p.msg.type = "CONNECT" /\ k < p.size))
    BY <1>1, <2>2
  <2>. QED
    BY <2>1, <2>2
<1>3. ASSUME atm'[c] = A!Off PROVE Ends(c)
  <2>1. atm[c].at # "off" /\ Leaves(c) /\ UNCHANGED <<server, rq, inS, loop, user>>
    BY <1>3 DEF Reads
  <2>2. atm' = [atm EXCEPT ![c] = A!Off]
    BY <1>3 DEF Reads, Types, TypeOK
  <2>. QED
    BY <1>2, <2>1, <2>2 DEF Ends
<1>. QED
  BY <1>2, <1>3

LEMMA ReadsTypes ==
  ASSUME Types, NEW c \in Clients, NEW p, NEW k \in Nat, Reads(c, p, k)
  PROVE  Types'
<1>1. p.msg \in SP!Message
  BY DEF Reads
<1>2. p.msg.type = "CONNECT" /\ p.msg.result = "CER_SUCCESS" => p.msg.info \in SP!Cid
  BY DEF Reads, Packet, Fits
<1>4. guessed' \in BOOLEAN
  BY ReadsEnds
<1>5. CASE atm'[c] = A!Off
  BY <1>5, ReadsEnds, EndsTypes
<1>6. CASE atm'[c] # A!Off
  <2>. DEFINE a == A!recvRsp(atm[c], p.msg, k)
              o == IF k < p.size THEN <<Rest>> ELSE <<>>
  <2>1. atm' = [atm EXCEPT ![c] = a] /\ atm[c] \in A!Client /\ atm'[c] = a
    BY DEF Reads, Types, TypeOK
  <2>2. a \in A!Client /\ (a = A!Off \/ a.at = "menu")
    BY <1>1, <1>2, <2>1, RecvRsp
  <2>3. a.at = "menu"
    BY <1>6, <2>1, <2>2
  <2>4. outbox' = [outbox EXCEPT ![c] = o]
    BY <1>6 DEF Reads
  <2>5. o \in Seq(Packet)
    BY RestIsPacket
  <2>6. shown' = [shown EXCEPT ![c] = A!Shown(p.msg, k)] /\ UNCHANGED <<conn, asked, reached>>
    BY <1>6 DEF Reads
  <2>7. /\ asked' \in [Clients -> AskedTypes] /\ reached' \in [Clients -> Results]
        /\ shown' \in [Clients -> Showings]
    BY <1>1, <2>6, ShownTyped DEF Types
  <2>8. /\ rq' \in [Clients -> Seq(Asked)] /\ inS' \in [Clients -> Seq(Asked)]
        /\ \A d \in Clients \ {c} : UNCHANGED <<rq[d], inS[d]>>
        /\ UNCHANGED <<server, serving>> /\ batch' \subseteq Clients
        /\ user' \in [Clients -> AccntNo \cup {NoAccnt}] /\ Load(c)' = 0
    BY DEF Reads, loop, Types, TypeOK, Load
  <2>9. /\ conn[c] \in {"none", "open", "left", "broken"} /\ conn[c] # "left"
        /\ conn' = [conn EXCEPT ![c] = conn[c]]
    BY <2>6 DEF Types, TypeOK, Reads
  <2>. HIDE DEF a, o
  <2>. QED
    BY <1>4, <2>1, <2>2, <2>3, <2>4, <2>5, <2>7, <2>8, <2>9, ClientTypes
<1>. QED
  BY <1>5, <1>6

LEMMA ReceiveDeafTypes == ASSUME Types, NEW c \in Clients, ReceiveDeaf(c) PROVE Types'
<1>. DEFINE a == [atm[c] EXCEPT !.at = "menu"]
<1>1. atm[c] \in A!Client /\ atm' = [atm EXCEPT ![c] = a]
  BY DEF ReceiveDeaf, Types, TypeOK
<1>2. a \in A!Client /\ a.at = "menu"
  BY <1>1 DEF A!Client
<1>3. outbox[c] \in Seq(Packet) /\ outbox[c] # <<>>
  BY DEF ReceiveDeaf, Types
<1>4. PICK n \in 1 .. Len(outbox[c]) :
        outbox' = [outbox EXCEPT ![c] = SubSeq(outbox[c], n + 1, Len(outbox[c]))]
  BY DEF ReceiveDeaf
<1>5. SubSeq(outbox[c], n + 1, Len(outbox[c])) \in Seq(Packet)
  BY <1>3
<1>6. A!InvalidShown \in Showings
  BY DEF A!InvalidShown, Showings
<1>7. /\ asked' \in [Clients -> AskedTypes] /\ reached' \in [Clients -> Results]
      /\ shown' \in [Clients -> Showings]
  BY <1>6 DEF ReceiveDeaf, Types
<1>8. /\ rq' \in [Clients -> Seq(Asked)] /\ inS' \in [Clients -> Seq(Asked)]
      /\ \A d \in Clients \ {c} : UNCHANGED <<rq[d], inS[d]>>
      /\ UNCHANGED <<server, serving>> /\ batch' \subseteq Clients
      /\ user' \in [Clients -> AccntNo \cup {NoAccnt}] /\ guessed' \in BOOLEAN
  BY DEF ReceiveDeaf, loop, Types, TypeOK
<1>9. /\ conn[c] \in {"none", "open", "left", "broken"} /\ conn[c] # "left"
      /\ conn' = [conn EXCEPT ![c] = conn[c]]
  BY DEF Types, TypeOK, ReceiveDeaf
<1>10. conn[c] \notin {"open", "left"} => Load(c)' = 0
  <2>1. Load(c)' = Load(c)
    BY DEF ReceiveDeaf, loop, Load
  <2>. QED
    BY <2>1 DEF Types, Live
<1>. HIDE DEF a
<1>. QED
  BY <1>1, <1>2, <1>4, <1>5, <1>7, <1>8, <1>9, <1>10, ClientTypes

\* The server loses a connection: what it held of it is gone.
LEMMA LoadOfNone ==
  ASSUME NEW c \in Clients, inS'[c] = <<>>, rq'[c] = <<>>, serving' # c
  PROVE  Load(c)' = 0 /\ Held(c)' = {}
  BY ElementsOfNone DEF Load, Held

LEMMA DeleteTypes == ASSUME Types, NEW c \in Clients, Delete(c) PROVE Types'
<1>1. atm[c] \in A!Client /\ atm' = [atm EXCEPT ![c] = atm[c]]
  BY DEF Delete, Types, TypeOK
<1>2. atm[c].at = "off" /\ atm[c] = A!Off /\ outbox[c] = <<>>
  BY DEF Delete, Types, TypeOK
<1>3. conn' = [conn EXCEPT ![c] = "none"]
  BY DEF Delete
<1>4. outbox' = [outbox EXCEPT ![c] = outbox[c]] /\ outbox[c] \in Seq(Packet)
  BY DEF Delete, Types
<1>5. rq' = [rq EXCEPT ![c] = <<>>] /\ inS' = [inS EXCEPT ![c] = <<>>]
  BY DEF Delete
<1>6. <<>> \in Seq(Asked)
  OBVIOUS
<1>7. /\ rq' \in [Clients -> Seq(Asked)] /\ inS' \in [Clients -> Seq(Asked)]
      /\ rq'[c] = <<>> /\ inS'[c] = <<>>
      /\ \A d \in Clients \ {c} : UNCHANGED <<rq[d], inS[d]>>
  BY <1>5, <1>6 DEF Types
<1>8. /\ UNCHANGED <<server, serving>> /\ batch' \subseteq Clients /\ serving' # c
      /\ asked' \in [Clients -> AskedTypes] /\ reached' \in [Clients -> Results]
      /\ shown' \in [Clients -> Showings]
      /\ user' \in [Clients -> AccntNo \cup {NoAccnt}] /\ guessed' \in BOOLEAN
  BY ClientsAssumption DEF Delete, history, answers, Types, TypeOK
<1>9. Load(c)' = 0
  BY <1>7, <1>8, LoadOfNone
<1>. QED
  BY <1>1, <1>2, <1>3, <1>4, <1>7, <1>8, <1>9, ClientTypes

LEMMA EpollWaitTypes == ASSUME Types, EpollWait PROVE Types'
<1>1. /\ UNCHANGED <<atm, conn, rq, inS, outbox, serving, asked, reached, shown, user,
                     guessed, pc, job>>
      /\ batch' \subseteq Clients
  BY DEF EpollWait, Ready, server, net, history, answers
<1>. QED
  BY <1>1 DEF Types, TypeOK, Live, Load

LEMMA RestartTypes == ASSUME Types, Restart PROVE Types'
<1>1. /\ UNCHANGED <<atm, outbox, asked, reached, shown, user, guessed>>
      /\ batch' = {} /\ serving' = NoClient
      /\ rq' = [d \in Clients |-> <<>>] /\ inS' = [d \in Clients |-> <<>>]
      /\ conn' = [d \in Clients |-> IF conn[d] = "open" THEN "broken"
                                    ELSE IF conn[d] = "left" THEN "none" ELSE conn[d]]
  BY DEF Restart, history, answers
<1>2. pc' = "idle"
  BY SameServer DEF Restart, SP!Restart, SP!Done
<1>3. <<>> \in Seq(Asked)
  OBVIOUS
<1>4. rq' \in [Clients -> Seq(Asked)] /\ inS' \in [Clients -> Seq(Asked)]
  BY <1>1, <1>3
<1>5. conn' \in [Clients -> {"none", "open", "left", "broken"}]
  BY <1>1 DEF Types, TypeOK
<1>6. ASSUME NEW d \in Clients
      PROVE  /\ {rq'[d], inS'[d]} \subseteq Seq(S!Requests)
             /\ atm'[d].at = "off" => outbox'[d] = <<>> /\ conn'[d] \in {"none", "left"}
             /\ atm'[d].at = "off" => atm'[d] = A!Off
             /\ conn'[d] = "left" => atm'[d].at = "off"
             /\ ~ Live(d)' => Load(d)' = 0
  <2>1. rq'[d] \in Seq(Asked) /\ inS'[d] \in Seq(Asked)
    BY <1>4
  <2>2. {rq'[d], inS'[d]} \subseteq Seq(S!Requests)
    BY <2>1, AskedRequests
  <2>3. Load(d)' = 0
    BY <1>1, LoadOfNone, ClientsAssumption
  <2>. QED
    BY <1>1, <2>2, <2>3 DEF Types, TypeOK
<1>. QED
  BY <1>1, <1>2, <1>4, <1>5, <1>6 DEF Types, TypeOK

LEMMA HeldAsked == ASSUME Types, NEW c \in Clients PROVE Held(c) \subseteq Asked
<1>1. Elements(inS[c]) \subseteq Asked /\ Elements(rq[c]) \subseteq Asked
  BY LoadIsNat, ElementsTyped
<1>2. serving = c => job.req \in Asked
  BY ClientsAssumption DEF Types
<1>. QED
  BY <1>1, <1>2 DEF Held

\* The answer on its way, as the server left it.
LEMMA Answered ==
  ASSUME Types, SP!Inv', SP!Readable', NEW c \in Clients, Answering(c)
  PROVE  /\ wire'.req \in Held(c) /\ wire'.req \in Asked
         /\ wire'.result \in SP!CER_TYPE /\ wire'.size \in Nat
         /\ wire'.msg \in SP!Message \cup {SP!NoMsg} /\ SP!ReadAsSent(wire)'
         /\ [size |-> wire'.size, msg |-> wire'.msg] \in Packet
<1>1. wire'.req \in Held(c) /\ wire'.req \in Asked
  BY HeldAsked DEF Answering
<1>2. SP!BuffersOK'
  BY DEF SP!Inv, SP!TypeOK
<1>3. /\ wire'.result \in SP!CER_TYPE /\ wire'.size \in Nat
      /\ wire'.msg \in SP!Message \cup {SP!NoMsg}
  BY <1>2 DEF SP!BuffersOK
<1>4. SP!ReadAsSent(wire)'
  BY <1>1 DEF SP!Readable, Asked
<1>5. ASSUME wire'.msg # SP!NoMsg, wire'.msg.type = "CONNECT",
             wire'.msg.result = "CER_SUCCESS"
      PROVE  wire'.msg.info \in SP!Cid
  <2>1. wire'.req.type = "CONNECT"
    BY <1>4, <1>5 DEF SP!ReadAsSent
  <2>2. SP!Grants
    BY <2>1 DEF Answering, SP!LogsOn, SP!LogsOff, Plain
  <2>. QED
    BY <2>2 DEF SP!Grants
<1>. QED
  BY <1>1, <1>3, <1>4, <1>5 DEF Packet

LEMMA ServesTypes ==
  ASSUME Types, SP!Inv', SP!Readable', NEW c \in Clients, Serves(c), batch' \subseteq Clients,
         rq' \in [Clients -> Seq(Asked)], inS' \in [Clients -> Seq(Asked)]
  PROVE  Types'
<1>1. /\ UNCHANGED <<atm, conn, asked, shown, user, guessed>> /\ Live(c)
      /\ Working(c) \/ Answering(c)
  BY DEF Serves
<1>2. /\ serving' \in Clients \cup {NoClient} /\ (serving' # NoClient <=> pc' # "idle")
      /\ serving' # NoClient => job'.req \in Asked
      /\ reached' \in [Clients -> Results] /\ outbox' \in [Clients -> Seq(Packet)]
      /\ \A d \in Clients : d # c => outbox'[d] = outbox[d]
  <2>1. CASE Working(c)
    <3>1. serving' = c /\ pc' # "idle" /\ job'.req \in Asked /\ UNCHANGED <<outbox, reached>>
      BY <2>1, HeldAsked DEF Working
    <3>. QED
      BY <3>1, ClientsAssumption DEF Types
  <2>2. CASE Answering(c)
    <3>. DEFINE p == [size |-> wire'.size, msg |-> wire'.msg]
    <3>1. p \in Packet /\ wire'.result \in Results
      BY <2>2, Answered DEF Results
    <3>. HIDE DEF p
    <3>2. /\ reached' = reached \/ reached' = [reached EXCEPT ![c] = wire'.result]
          /\ outbox' = outbox \/ outbox' = [outbox EXCEPT ![c] = Append(outbox[c], p)]
      BY <2>2 DEF Answering, p
    <3>3. Append(outbox[c], p) \in Seq(Packet)
      BY <3>1 DEF Types
    <3>4. reached' \in [Clients -> Results] /\ outbox' \in [Clients -> Seq(Packet)]
          /\ \A d \in Clients : d # c => outbox'[d] = outbox[d]
      BY <3>1, <3>2, <3>3 DEF Types
    <3>. QED
      BY <2>2, <3>4 DEF Answering
  <2>. QED
    BY <1>1, <2>1, <2>2
<1>3. ASSUME NEW d \in Clients
      PROVE  /\ {rq'[d], inS'[d]} \subseteq Seq(S!Requests)
             /\ atm'[d].at = "off" => outbox'[d] = <<>> /\ conn'[d] \in {"none", "left"}
             /\ atm'[d].at = "off" => atm'[d] = A!Off
             /\ conn'[d] = "left" => atm'[d].at = "off"
             /\ ~ Live(d)' => Load(d)' = 0
  <2>1. rq'[d] \in Seq(Asked) /\ inS'[d] \in Seq(Asked)
    OBVIOUS
  <2>2. {rq'[d], inS'[d]} \subseteq Seq(S!Requests)
    BY <2>1, AskedRequests
  <2>3. CASE d # c
    <3>1. Load(d)' = Load(d)
      BY <2>3 DEF Serves, Load
    <3>. QED
      BY <1>1, <1>2, <2>2, <2>3, <3>1 DEF Types, TypeOK, Live
  <2>4. CASE d = c
    <3>1. atm[c].at = "off" => outbox'[c] = <<>>
      <4>1. CASE Working(c)
        BY <4>1 DEF Working, Types, TypeOK
      <4>2. CASE Answering(c)
        <5>1. atm[c].at = "off" => conn[c] # "open" /\ outbox[c] = <<>>
          BY DEF Types, TypeOK
        <5>. QED
          BY <4>2, <5>1 DEF Answering
      <4>. QED
        BY <1>1, <4>1, <4>2
    <3>. QED
      BY <1>1, <2>2, <2>4, <3>1 DEF Types, TypeOK, Live
  <2>. QED
    BY <2>3, <2>4
<1>. QED
  BY <1>1, <1>2, <1>3 DEF Types, TypeOK

LEMMA ServeTypes ==
  ASSUME SP!Inv, Types, SP!Inv', SP!Readable', NEW c \in Clients, Serve(c)
  PROVE  Types'
<1>1. rq[c] \in Seq(Asked) /\ inS[c] \in Seq(Asked) /\ rq[c] # <<>>
  BY DEF Types, Serve
<1>2. Tail(inS[c] \o rq[c]) \in Seq(Asked)
  BY <1>1, Taken
<1>3. inS' = [inS EXCEPT ![c] = Tail(inS[c] \o rq[c])] /\ rq' = [rq EXCEPT ![c] = <<>>]
      /\ batch' \subseteq Clients
  BY DEF Serve, Types, TypeOK
<1>4. <<>> \in Seq(Asked)
  OBVIOUS
<1>5. rq' \in [Clients -> Seq(Asked)] /\ inS' \in [Clients -> Seq(Asked)]
  BY <1>2, <1>3, <1>4 DEF Types
<1>6. Serves(c)
  BY ServeServes
<1>. QED
  BY <1>3, <1>5, <1>6, ServesTypes

LEMMA GoOnTypes == ASSUME SP!Inv, Types, SP!Inv', SP!Readable', GoOn PROVE Types'
<1>1. PICK c \in Clients : Serves(c)
  BY GoOnServes
<1>2. /\ rq' \in [Clients -> Seq(Asked)] /\ inS' \in [Clients -> Seq(Asked)]
      /\ batch' \subseteq Clients
  BY DEF GoOn, Types, TypeOK
<1>. QED
  BY <1>1, <1>2, ServesTypes

-----------------------------------------------------------------------------
(* What a client's own steps leave of its part of the invariant.             *)

LEMMA NoElements ==
  ASSUME NEW R, NEW s \in Seq(R), Count(s) = 0
  PROVE  Elements(s) = {} /\ s = <<>>
<1>1. s = <<>>
  BY NoneIsEmpty
<1>. QED
  BY <1>1, ElementsOfNone

LEMMA NoLoad ==
  ASSUME Types, NEW c \in Clients, Load(c) = 0
  PROVE  /\ Held(c) = {} /\ serving # c
         /\ Count(rq[c]) = 0 /\ Count(inS[c]) = 0 /\ rq[c] = <<>> /\ inS[c] = <<>>
<1>1. /\ Count(inS[c]) \in Nat /\ Count(rq[c]) \in Nat
      /\ inS[c] \in Seq(Asked) /\ rq[c] \in Seq(Asked)
  BY LoadIsNat
<1>2. serving # c /\ Count(rq[c]) = 0 /\ Count(inS[c]) = 0
  BY <1>1 DEF Load
<1>. QED
  BY <1>1, <1>2, NoElements DEF Held

LEMMA NoLoadAfter ==
  ASSUME Types', NEW c \in Clients, Load(c)' = 0
  PROVE  Held(c)' = {}
<1>1. inS'[c] \in Seq(Asked) /\ rq'[c] \in Seq(Asked)
  BY DEF Types
<1>2. Count(inS'[c]) \in Nat /\ Count(rq'[c]) \in Nat
  BY <1>1, CountIsNat
<1>3. Load(c)' = Count(inS'[c]) + Count(rq'[c]) + (IF serving' = c THEN 1 ELSE 0)
  BY DEF Load
<1>4. serving' # c /\ Count(rq'[c]) = 0 /\ Count(inS'[c]) = 0
  BY <1>2, <1>3
<1>5. Elements(inS'[c]) = {} /\ Elements(rq'[c]) = {}
  BY <1>1, <1>4, NoElements
<1>. QED
  BY <1>4, <1>5 DEF Held

\* A connection that is not there, or whose answers have all come, has its ID.
LEMMA HasID ==
  ASSUME Types, NEW c \in Clients, NEW own, ClientInv(own, c)
  PROVE  /\ ~ Live(c) => own[c] = NoCid
         /\ Live(c) /\ Load(c) = 0 => own[c] # NoCid
         /\ conn[c] = "open" /\ ~ Connecting(c) => own[c] # NoCid
  BY DEF ClientInv, Connects, Live

LEMMA EndsKeeps ==
  ASSUME Types, NEW c \in Clients, NEW own, ClientInv(own, c), Ends(c)
  PROVE  ClientInv(own, c)'
<1>1. /\ atm'[c] = A!Off /\ atm'[c].at = "off" /\ conn'[c] # "open"
      /\ Live(c)' <=> conn[c] = "open"
      /\ conn[c] # "left" /\ clients' = clients /\ user' = user /\ (guessed => guessed')
  BY OffIsClient DEF Ends, Leaves, Types, TypeOK, Live, server
<1>2. Held(c)' = Held(c) /\ Load(c)' = Load(c)
  BY DEF Ends, server, loop, Held, Load
<1>3. ~ Hears(c)'
  BY <1>1 DEF Hears
<1>4. OneAtATime(c)'
  BY <1>3 DEF OneAtATime
<1>5. Connects(own, c)'
  BY <1>1, <1>2 DEF ClientInv, Connects, Live
<1>6. KnowsItsID(own, c)'
  BY <1>1 DEF KnowsItsID
<1>7. NamesItsID(own, c)'
  BY <1>1, <1>2 DEF ClientInv, NamesItsID
<1>8. SessionAsBelieved(own, c)'
  BY <1>3 DEF SessionAsBelieved
<1>9. SessionKept(own, c)'
  BY <1>1, <1>2 DEF ClientInv, SessionKept
<1>10. ShowsTruth(c)'
  BY <1>1 DEF ShowsTruth
<1>. QED
  BY <1>4, <1>5, <1>6, <1>7, <1>8, <1>9, <1>10 DEF ClientInv

LEMMA SentIsHeld ==
  ASSUME Types, NEW c \in Clients, NEW req \in Asked, rq'[c] = Append(rq[c], req),
         inS'[c] = inS[c], serving' = serving, job' = job
  PROVE  Held(c)' = Held(c) \cup {req} /\ Load(c)' = Load(c) + 1
<1>1. /\ rq[c] \in Seq(Asked) /\ Load(c) \in Nat
      /\ Count(rq[c]) \in Nat /\ Count(inS[c]) \in Nat
  BY LoadIsNat
<1>2. Elements(Append(rq[c], req)) = Elements(rq[c]) \cup {req}
  BY <1>1, ElementsOfAppend
<1>3. Count(Append(rq[c], req)) = Count(rq[c]) + 1
  BY <1>1, ElementsOfAppend
<1>4. Elements(rq'[c]) = Elements(rq[c]) \cup {req} /\ Count(rq'[c]) = Count(rq[c]) + 1
  BY <1>2, <1>3
<1>5. Held(c)' = Held(c) \cup {req}
  BY <1>4, Zenon DEF Held
<1>6. Load(c)' = Load(c) + 1
  BY <1>1, <1>4 DEF Load
<1>. QED
  BY <1>5, <1>6

LEMMA StartKeeps ==
  ASSUME Types, NEW c \in Clients, NEW own, ClientInv(own, c), Start(c)
  PROVE  ClientInv(own, c)'
<1>1. /\ atm[c] \in A!Client /\ atm[c] = A!Off /\ conn[c] = "none" /\ outbox[c] = <<>>
      /\ ~ Live(c) /\ serving # c
  BY DEF Start, Types, TypeOK, Live
<1>2. Load(c) = 0 /\ own[c] = NoCid
  BY <1>1, HasID DEF Types
<1>4. Connect \in Asked
  BY DEF Connect, Asked, SP!Requests, SP!PlainRequest
<1>5. conn'[c] = "open"
  BY DEF Start, Types, TypeOK
<1>6. /\ rq'[c] = Append(rq[c], Connect) /\ inS'[c] = inS[c] /\ serving' = serving
      /\ job' = job
  BY <1>5 DEF Start, Sends, Types, loop, server
<1>7. Held(c)' = {Connect} /\ Load(c)' = 1
  <2>1. Held(c)' = Held(c) \cup {Connect} /\ Load(c)' = Load(c) + 1
    BY <1>4, <1>6, SentIsHeld
  <2>. QED
    BY <1>2, <2>1, NoLoad
<1>8. /\ atm'[c] = [A!Off EXCEPT !.at = "waiting"] /\ outbox'[c] = <<>>
      /\ asked'[c] = "CONNECT" /\ reached'[c] = "none"
  BY <1>1 DEF Start, Types, TypeOK, Sends, Resets, Connect
<1>9. atm'[c].at = "waiting" /\ ~ atm'[c].deaf /\ ~ atm'[c].logged_on
  BY <1>8 DEF A!Off
<1>10. Connecting(c)'
  BY <1>8, <1>9 DEF Connecting
<1>11. Connect.type = "CONNECT" /\ Count(outbox'[c]) = 0
  BY <1>8, ElementsOfNone DEF Connect
<1>12. OneAtATime(c)'
  BY <1>7, <1>8, <1>9, <1>11 DEF OneAtATime
<1>13. Connects(own, c)'
  BY <1>2, <1>7, <1>8, <1>10 DEF Connects
<1>14. KnowsItsID(own, c)'
  BY <1>2, <1>9, <1>10 DEF KnowsItsID
<1>15. NamesItsID(own, c)' /\ SessionAsBelieved(own, c)' /\ SessionKept(own, c)'
  BY <1>2 DEF NamesItsID, SessionAsBelieved, SessionKept
<1>16. ShowsTruth(c)'
  BY <1>9 DEF ShowsTruth
<1>. QED
  BY <1>12, <1>13, <1>14, <1>15, <1>16 DEF ClientInv

LEMMA AskKeeps ==
  ASSUME Types, NEW c \in Clients, NEW own, ClientInv(own, c), Ask(c)
  PROVE  ClientInv(own, c)'
<1>1. PICK req \in A!Choices(atm[c]) :
        /\ Sends(c, req)
        /\ user' = IF req.type = "LOGON" THEN [user EXCEPT ![c] = req.pan] ELSE user
  BY DEF Ask
<1>2. atm[c] \in A!Client /\ atm[c].at = "menu" /\ conn[c] # "left" /\ conn' = conn
  BY DEF Ask, Types, TypeOK
<1>3. /\ req \in Asked /\ req.type # "CONNECT"
      /\ req.type \in SessionTypes => atm[c].logged_on /\ req.cid = atm[c].clientID
      /\ req.type = "LOGON" => ~ atm[c].logged_on /\ req.cid = atm[c].clientID
  BY <1>2, ChoicesAsked
<1>4. /\ atm'[c] = [atm[c] EXCEPT !.at = "waiting"] /\ outbox' = outbox
      /\ asked'[c] = req.type /\ reached'[c] = "none"
      /\ clients' = clients /\ guessed' = guessed /\ job' = job /\ serving' = serving
      /\ inS' = inS
      /\ rq' = IF conn[c] = "open" THEN [rq EXCEPT ![c] = Append(@, req)] ELSE rq
      /\ req.type = "LOGON" => user'[c] = req.pan
      /\ req.type # "LOGON" => user' = user
  BY <1>1, <1>2 DEF Ask, Types, TypeOK, Sends, Resets, server, loop
<1>5. /\ atm'[c].at = "waiting" /\ atm'[c].deaf = atm[c].deaf
      /\ atm'[c].logged_on = atm[c].logged_on /\ atm'[c].clientID = atm[c].clientID
  BY <1>2, <1>4 DEF A!Client
<1>6. /\ ~ Connecting(c) /\ ~ Connecting(c)' /\ Live(c) = (conn[c] = "open")
      /\ Live(c)' = Live(c) /\ Hears(c)' = Hears(c) /\ (Strays(c) => Strays(c)')
  BY <1>2, <1>3, <1>4, <1>5 DEF Connecting, Live, Hears, Strays
<1>7. own[c] # NoCid <=> conn[c] = "open"
  BY <1>2, <1>6, HasID
<1>8. CASE conn[c] = "open"
  <2>1. Held(c)' = Held(c) \cup {req} /\ Load(c)' = Load(c) + 1
    <3>1. rq'[c] = Append(rq[c], req)
      BY <1>4, <1>8 DEF Types
    <3>. QED
      BY <1>3, <1>4, <3>1, SentIsHeld
  <2>2. atm[c].clientID = own[c] \/ Strays(c)
    BY <1>6, <1>8 DEF ClientInv, KnowsItsID
  <2>3. OneAtATime(c)'
    <3>. SUFFICES ASSUME Hears(c)
                  PROVE  /\ Load(c)' + Count(outbox'[c]) <= 1 /\ reached'[c] = "none"
                         /\ outbox'[c] = <<>>
                         /\ \A r \in Held(c)' :
                              /\ r.type = asked'[c]
                              /\ r.type = "LOGON" => r.pan = user'[c] /\ ~ atm'[c].logged_on
      BY <1>5, <1>6 DEF OneAtATime
    <3>1. Load(c) + Count(outbox[c]) <= 0
      BY <1>2 DEF ClientInv, OneAtATime
    <3>2. Load(c) \in Nat /\ Count(outbox[c]) \in Nat /\ outbox[c] \in Seq(Packet)
      BY LoadIsNat, CountIsNat DEF Types
    <3>3. Load(c) = 0 /\ Count(outbox[c]) = 0
      BY <3>1, <3>2
    <3>4. outbox[c] = <<>> /\ Held(c) = {}
      BY <3>2, <3>3, NoLoad, NoneIsEmpty
    <3>. QED
      BY <1>3, <1>4, <1>5, <2>1, <3>3, <3>4
  <2>4. Connects(own, c)'
    BY <1>4, <1>6, <1>7, <1>8 DEF ClientInv, Connects
  <2>5. KnowsItsID(own, c)'
    BY <1>5, <1>6, <1>7, <1>8, <2>2 DEF KnowsItsID
  <2>6. NamesItsID(own, c)'
    <3>1. ASSUME NEW r \in Held(c)
          PROVE  /\ r.type # "CONNECT"
                 /\ r.type \in SessionTypes => r.cid = own[c] /\ atm[c].logged_on
                 /\ r.type = "LOGON" => r.cid = own[c] \/ (guessed /\ atm[c].deaf)
      BY <1>7, <1>8 DEF ClientInv, NamesItsID
    <3>2. req.type \in SessionTypes => req.cid = own[c] /\ atm[c].logged_on
      BY <1>3, <2>2 DEF Strays
    <3>3. req.type = "LOGON" => req.cid = own[c] \/ (guessed /\ atm[c].deaf)
      BY <1>3, <2>2 DEF Strays
    <3>. QED
      BY <1>2, <1>3, <1>4, <1>5, <1>8, <2>1, <3>1, <3>2, <3>3 DEF NamesItsID
  <2>7. SessionAsBelieved(own, c)'
    <3>1. Believes(c)' = atm[c].logged_on /\ Believes(c) = atm[c].logged_on
      BY <1>2, <1>4, <1>5 DEF Believes
    <3>. QED
      BY <1>2, <1>3, <1>4, <1>6, <3>1 DEF ClientInv, SessionAsBelieved
  <2>8. SessionKept(own, c)'
    <3>. SUFFICES ASSUME ~ guessed, \/ \E r \in Held(c)' : r.type \in SessionTypes
                                    \/ atm[c].logged_on
                  PROVE  /\ clients[own[c]].state = "CL_LOGON"
                              => clients[own[c]].accnt = user'[c]
                         /\ \A r \in Held(c)' : r.type # "LOGON"
      BY <1>4, <1>5 DEF SessionKept
    <3>1. atm[c].logged_on
      BY <1>3, <1>7, <1>8, <2>1 DEF ClientInv, NamesItsID
    <3>. QED
      BY <1>3, <1>4, <1>7, <1>8, <2>1, <3>1 DEF ClientInv, SessionKept
  <2>9. ShowsTruth(c)'
    BY <1>5 DEF ShowsTruth
  <2>. QED
    BY <2>3, <2>4, <2>5, <2>6, <2>7, <2>8, <2>9 DEF ClientInv
<1>9. CASE conn[c] # "open"
  <2>1. Load(c) = 0 /\ own[c] = NoCid
    BY <1>6, <1>7, <1>9 DEF Types
  <2>2. Load(c)' = 0 /\ Held(c)' = {}
    <3>1. Load(c)' = Load(c) /\ Held(c)' = Held(c)
      BY <1>4, <1>9 DEF Load, Held
    <3>. QED
      BY <2>1, <3>1, NoLoad
  <2>3. OneAtATime(c)'
    <3>. SUFFICES ASSUME Hears(c)
                  PROVE  Load(c)' + Count(outbox'[c]) <= 1 /\ outbox'[c] = <<>>
      BY <1>4, <1>5, <1>6, <2>2 DEF OneAtATime
    <3>1. Load(c) + Count(outbox[c]) <= 0
      BY <1>2 DEF ClientInv, OneAtATime
    <3>2. Count(outbox[c]) \in Nat /\ outbox[c] \in Seq(Packet)
      BY CountIsNat DEF Types
    <3>3. Count(outbox[c]) = 0
      BY <2>1, <3>1, <3>2
    <3>. QED
      BY <1>4, <2>2, <3>2, <3>3, NoneIsEmpty
  <2>4. Connects(own, c)'
    BY <1>6, <1>9, <2>1 DEF Connects
  <2>5. KnowsItsID(own, c)'
    BY <1>2, <1>9 DEF KnowsItsID
  <2>6. NamesItsID(own, c)' /\ SessionAsBelieved(own, c)' /\ SessionKept(own, c)'
    BY <2>1 DEF NamesItsID, SessionAsBelieved, SessionKept
  <2>7. ShowsTruth(c)'
    BY <1>5 DEF ShowsTruth
  <2>. QED
    BY <2>3, <2>4, <2>5, <2>6, <2>7 DEF ClientInv
<1>. QED
  BY <1>8, <1>9

LEMMA ReceiveDeafKeeps ==
  ASSUME Types, NEW c \in Clients, NEW own, ClientInv(own, c), ReceiveDeaf(c)
  PROVE  ClientInv(own, c)'
<1>1. /\ atm[c] \in A!Client /\ atm[c].at = "waiting" /\ atm[c].deaf
      /\ outbox[c] # <<>> /\ conn[c] # "left"
  BY DEF ReceiveDeaf, Types, TypeOK
<1>2. /\ atm'[c] = [atm[c] EXCEPT !.at = "menu"] /\ shown'[c] = A!InvalidShown
      /\ UNCHANGED <<conn, rq, inS, serving, job, clients, asked, reached, user, guessed>>
  BY DEF ReceiveDeaf, Types, TypeOK, server, loop
<1>3. /\ atm'[c].at = "menu" /\ atm'[c].deaf /\ atm'[c].logged_on = atm[c].logged_on
      /\ atm'[c].clientID = atm[c].clientID
  BY <1>1, <1>2 DEF A!Client
<1>4. Held(c)' = Held(c) /\ Load(c)' = Load(c) /\ Live(c)' = Live(c)
  BY <1>2 DEF Held, Load, Live
<1>5. ~ Hears(c) /\ ~ Hears(c)' /\ ~ Connecting(c)' /\ (Strays(c) => Strays(c)')
  BY <1>1, <1>2, <1>3 DEF Hears, Connecting, Strays
<1>6. conn[c] = "open" => ~ Connecting(c) /\ own[c] # NoCid
  BY <1>1 DEF ClientInv, KnowsItsID
<1>7. OneAtATime(c)' /\ SessionAsBelieved(own, c)'
  BY <1>5 DEF OneAtATime, SessionAsBelieved
<1>8. Connects(own, c)'
  BY <1>1, <1>2, <1>4, <1>6 DEF ClientInv, Connects, Live
<1>9. KnowsItsID(own, c)'
  BY <1>2, <1>3, <1>5, <1>6 DEF ClientInv, KnowsItsID
<1>10. NamesItsID(own, c)'
  BY <1>1, <1>2, <1>3, <1>4 DEF ClientInv, NamesItsID
<1>11. SessionKept(own, c)'
  BY <1>2, <1>3, <1>4 DEF ClientInv, SessionKept
<1>12. ShowsTruth(c)'
  <2>1. shown'[c].says = "invalid" /\ shown'[c] # [type |-> asked[c], says |-> "success"]
    BY <1>2 DEF A!InvalidShown
  <2>. QED
    BY <1>2, <1>5, <2>1 DEF ShowsTruth
<1>. QED
  BY <1>7, <1>8, <1>9, <1>10, <1>11, <1>12 DEF ClientInv

\* A client goes deaf unless it has read all of an answer, which then is the answer
\* to its last request, as the server meant it.
LEMMA ReadAll ==
  ASSUME NEW c \in Clients, NEW p, NEW k \in Nat, Reads(c, p, k),
         ~ k < SP!HdrSize + p.msg.len
  PROVE  /\ k = p.size /\ p.msg.type = asked[c] /\ p.msg.result = reached[c]
         /\ k = SP!HdrSize \/ k >= SP!HdrSize + SP!ResultSize
         /\ reached[c] = "CER_SUCCESS" <=> Told(p.msg, k)
<1>1. p.msg.len \in Nat /\ p.size \in Nat
  BY DEF Reads, SP!Message, Packet
<1>2. p.msg # SP!NoMsg /\ k <= p.size
  BY DEF Reads, Fits
<1>3. /\ p.size = SP!HdrSize \/ p.size >= SP!HdrSize + SP!ResultSize
      /\ p.size <= SP!HdrSize + p.msg.len
      /\ p.size = SP!HdrSize + p.msg.len
           => p.msg.type = asked[c] /\ p.msg.result = reached[c]
  BY <1>2 DEF Reads, Fits, SP!ReadAsSent
<1>4. SP!HdrSize = 28 /\ SP!ResultSize = 8
  BY DEF SP!HdrSize, SP!ResultSize
<1>5. k = p.size /\ p.size = SP!HdrSize + p.msg.len
  BY <1>1, <1>2, <1>3, <1>4
<1>6. reached[c] = "CER_SUCCESS" => p.size >= SP!HdrSize + SP!ResultSize
  BY DEF Reads, Fits
<1>. QED
  BY <1>3, <1>5, <1>6 DEF Told

\* A success that is read is one.
LEMMA ReadSuccess ==
  ASSUME NEW c \in Clients, NEW p, NEW k \in Nat, Reads(c, p, k), Told(p.msg, k),
         p.msg.type # "TRANSACTION_QUERY" \/ p.msg.type = asked[c]
  PROVE  p.msg.type = asked[c] /\ reached[c] = "CER_SUCCESS"
<1>1. p.msg # SP!NoMsg /\ k <= p.size /\ p.size \in Nat
  BY DEF Reads, Fits, Packet
<1>2. p.msg.result = "CER_SUCCESS" /\ p.size >= SP!HdrSize + SP!ResultSize
  BY <1>1 DEF Told, SP!HdrSize, SP!ResultSize
<1>3. CASE p.msg.type # "TRANSACTION_QUERY"
  BY <1>1, <1>2, <1>3 DEF Reads, Fits, SP!ReadAsSent
<1>4. CASE p.msg.type = asked[c]
  BY <1>2, <1>4 DEF Reads, Fits
<1>. QED
  BY <1>3, <1>4

LEMMA ReadsKeeps ==
  ASSUME Types, NEW c \in Clients, NEW own, ClientInv(own, c),
         NEW p, NEW k \in Nat, Reads(c, p, k), Types'
  PROVE  ClientInv(own, c)'
<1>1. CASE atm'[c] = A!Off
  BY <1>1, ReadsEnds, EndsKeeps
<1>2. CASE atm'[c] # A!Off
  <2>. DEFINE r == A!recvRsp(atm[c], p.msg, k)
  <2>1. /\ atm[c] \in A!Client /\ atm'[c] = r /\ p.msg \in SP!Message
        /\ p.msg.type = "CONNECT" /\ p.msg.result = "CER_SUCCESS" => p.msg.info \in SP!Cid
        /\ atm[c].at = "waiting" /\ ~ atm[c].deaf /\ Load(c) = 0 /\ conn[c] # "left"
    BY DEF Reads, Types, TypeOK, Packet, Fits
  <2>. HIDE DEF r
  <2>2. /\ shown'[c] = A!Shown(p.msg, k)
        /\ outbox'[c] = IF k < p.size THEN <<Rest>> ELSE <<>>
        /\ UNCHANGED <<conn, asked, reached, rq, inS, serving, job, clients, user>>
    BY <1>2 DEF Reads, Types, server, loop
  <2>3. /\ r.at = "menu" /\ (r.deaf <=> k < SP!HdrSize + p.msg.len)
        /\ p.msg.type = "CONNECT" /\ Told(p.msg, k) =>
             /\ r.logged_on = atm[c].logged_on
             /\ r.clientID = IF k >= SP!HdrSize + SP!BodySize("CONNECT")
                             THEN p.msg.info ELSE MAXCID
        /\ ~ (p.msg.type = "CONNECT" /\ Told(p.msg, k)) => r.clientID = atm[c].clientID
        /\ p.msg.type = "LOGON" /\ Told(p.msg, k) => r.logged_on = TRUE
        /\ p.msg.type = "LOGOFF" /\ Told(p.msg, k) => r.logged_on = FALSE
        /\ ~ (p.msg.type \in {"LOGON", "LOGOFF"} /\ Told(p.msg, k))
             => r.logged_on = atm[c].logged_on
    BY <1>2, <2>1, RecvRsp DEF r
  <2>4. Held(c) = {} /\ Held(c)' = {} /\ Load(c)' = 0 /\ Live(c)' = Live(c)
    <3>1. Held(c)' = Held(c) /\ Load(c)' = Load(c)
      BY <2>2 DEF Held, Load
    <3>. QED
      BY <2>1, <2>2, <3>1, NoLoad DEF Live
  <2>5. guessed => guessed'
    BY ReadsEnds
  <2>6. Hears(c) /\ ~ Connecting(c)' /\ (Hears(c)' <=> ~ k < SP!HdrSize + p.msg.len)
    BY <2>1, <2>3 DEF Hears, Connecting
  <2>7. Live(c) <=> conn[c] = "open"
    BY <2>1 DEF Live
  <2>8. conn[c] = "open" => own[c] # NoCid
    BY <2>1, <2>7, HasID
  <2>9. OneAtATime(c)'
    <3>. SUFFICES ASSUME Hears(c)'
                  PROVE  Load(c)' + Count(outbox'[c]) <= 0 /\ outbox'[c] = <<>>
      BY <2>1, <2>3, <2>4 DEF OneAtATime
    <3>1. k = p.size
      BY <2>6, ReadAll
    <3>2. outbox'[c] = <<>>
      BY <2>2, <3>1
    <3>. QED
      BY <2>4, <3>2, ElementsOfNone
  <2>10. Connects(own, c)'
    BY <2>2, <2>4, <2>7, <2>8 DEF ClientInv, Connects
  <2>11. KnowsItsID(own, c)'
    <3>. SUFFICES ASSUME conn[c] = "open"
                  PROVE  r.clientID = own[c] \/ Strays(c)'
      BY <2>1, <2>2, <2>6, <2>8 DEF KnowsItsID
    <3>1. CASE Connecting(c)
      <4>1. /\ reached[c] = "CER_SUCCESS" /\ p.msg.info = own[c]
            /\ p.msg.len = SP!BodySize("CONNECT") /\ ~ atm[c].logged_on
        BY <2>8, <3>1 DEF ClientInv, KnowsItsID, Reads
      <4>2. asked[c] = "CONNECT"
        BY <3>1 DEF Connecting
      <4>3. p.msg.type = "CONNECT" /\ p.size = 42 /\ p.msg.result = "CER_SUCCESS"
        BY <4>1, <4>2 DEF Reads, Fits, SP!HdrSize, SP!BodySize
      <4>4. CASE k < 42
        <5>1. guessed'
          BY <4>3, <4>4 DEF Reads
        <5>3. r.deaf
          <6>1. SP!HdrSize + p.msg.len = 42
            BY <4>1 DEF SP!HdrSize, SP!BodySize
          <6>. QED
            BY <2>3, <4>4, <6>1
        <5>2. ~ r.logged_on
          BY <2>3, <4>1, <4>3
        <5>. QED
          BY <2>1, <5>1, <5>2, <5>3 DEF Strays
      <4>5. CASE ~ k < 42
        BY <2>3, <4>1, <4>3, <4>5 DEF Told, SP!HdrSize, SP!BodySize, SP!ResultSize
      <4>. QED
        BY <4>4, <4>5
    <3>2. CASE ~ Connecting(c)
      <4>1. atm[c].clientID = own[c] /\ asked[c] # "CONNECT"
        BY <2>1, <3>2 DEF ClientInv, KnowsItsID, Strays, Connecting
      <4>2. ~ (p.msg.type = "CONNECT" /\ Told(p.msg, k))
        BY <4>1, ReadSuccess
      <4>. QED
        BY <2>3, <4>1, <4>2
    <3>. QED
      BY <3>1, <3>2
  <2>12. NamesItsID(own, c)'
    BY <2>4 DEF NamesItsID
  <2>13. SessionAsBelieved(own, c)'
    <3>. SUFFICES ASSUME Hears(c)', conn[c] = "open"
                  PROVE  IF r.logged_on
                         THEN clients[own[c]] = [state |-> "CL_LOGON", accnt |-> user[c]]
                         ELSE clients[own[c]].state = "CL_CONNECTED" \/ guessed'
      BY <2>1, <2>2, <2>3 DEF SessionAsBelieved, Believes
    <3>1. p.msg.type = asked[c] /\ (reached[c] = "CER_SUCCESS" <=> Told(p.msg, k))
      BY <2>6, ReadAll
    <3>2. r.logged_on = Believes(c)
      BY <2>1, <2>3, <3>1 DEF Believes
    <3>. QED
      BY <2>5, <2>6, <2>8, <3>2 DEF ClientInv, SessionAsBelieved
  <2>14. SessionKept(own, c)'
    <3>. SUFFICES ASSUME ~ guessed, conn[c] = "open", r.logged_on
                  PROVE  clients[own[c]].state = "CL_LOGON" => clients[own[c]].accnt = user[c]
      BY <2>1, <2>2, <2>4, <2>5 DEF SessionKept
    <3>1. CASE atm[c].logged_on
      BY <2>8, <3>1 DEF ClientInv, SessionKept
    <3>2. CASE ~ atm[c].logged_on
      <4>1. p.msg.type = "LOGON" /\ Told(p.msg, k)
        BY <2>3, <3>2
      <4>2. asked[c] = "LOGON" /\ reached[c] = "CER_SUCCESS"
        BY <4>1, ReadSuccess
      <4>3. Believes(c)
        BY <2>1, <4>2 DEF Believes
      <4>. QED
        BY <2>6, <2>8, <4>3 DEF ClientInv, SessionAsBelieved
    <3>. QED
      BY <3>1, <3>2
  <2>15. ShowsTruth(c)'
    <3>1. ASSUME Hears(c)'
          PROVE  shown'[c] = [type |-> asked[c],
                              says |-> IF reached[c] = "CER_SUCCESS" THEN "success"
                                                                     ELSE "failed"]
      <4>1. /\ k = p.size /\ p.msg.type = asked[c] /\ p.msg.result = reached[c]
            /\ k = SP!HdrSize \/ k >= SP!HdrSize + SP!ResultSize
            /\ reached[c] = "CER_SUCCESS" <=> Told(p.msg, k)
        BY <2>6, <3>1, ReadAll
      <4>2. asked[c] # "INVALID"
        BY DEF Types, AskedTypes
      <4>3. k >= 28
        BY <4>1 DEF SP!HdrSize, SP!ResultSize
      <4>4. shown'[c] = [type |-> asked[c], says |-> A!Says(asked[c], A!ResultRead(p.msg, k))]
        BY <2>2, <4>1, <4>3 DEF A!Shown, A!HdrSize
      <4>5. CASE reached[c] = "CER_SUCCESS"
        <5>1. A!ResultRead(p.msg, k) = "CER_SUCCESS"
          BY <4>1, <4>5
          DEF Told, A!ResultRead, A!HdrSize, A!ResultSize, SP!HdrSize, SP!ResultSize
        <5>2. A!Says(asked[c], "CER_SUCCESS") = "success"
          BY <4>2 DEF A!Says
        <5>. QED
          BY <4>4, <4>5, <5>1, <5>2
      <4>6. CASE reached[c] # "CER_SUCCESS"
        <5>1. A!ResultRead(p.msg, k) \in {"CER_ERROR", reached[c]}
          BY <4>1, <4>6
          DEF A!ResultRead, A!HdrSize, A!ResultSize, SP!HdrSize, SP!ResultSize
        <5>2. asked[c] = "WITHDRAWAL"
                => reached[c] \in {"CER_INSUFFICIENT_FUNDS", "CER_ERROR"}
          BY <4>6 DEF Reads, Fits
        <5>3. A!Says(asked[c], A!ResultRead(p.msg, k)) = "failed"
          <6>1. CASE asked[c] = "WITHDRAWAL"
            BY <5>1, <5>2, <6>1 DEF A!Says
          <6>2. CASE asked[c] # "WITHDRAWAL"
            BY <4>2, <4>6, <5>1, <6>2 DEF A!Says
          <6>. QED
            BY <6>1, <6>2
        <5>. QED
          BY <4>4, <4>6, <5>3
      <4>. QED
        BY <4>5, <4>6
    <3>2. ASSUME shown'[c] = [type |-> asked[c], says |-> "success"],
                 asked[c] # "WITHDRAWAL"
          PROVE  reached[c] = "CER_SUCCESS"
      <4>1. k >= 28
        BY <2>2, <3>2 DEF A!Shown, A!InvalidShown, A!HdrSize
      <4>2. /\ p.msg.type = asked[c]
            /\ A!Says(asked[c], A!ResultRead(p.msg, k)) = "success"
        BY <2>2, <3>2, <4>1 DEF A!Shown, A!HdrSize
      <4>3. A!ResultRead(p.msg, k) = "CER_SUCCESS"
        BY <3>2, <4>2 DEF A!Says
      <4>4. Told(p.msg, k)
        BY <4>3 DEF Told, A!ResultRead, A!HdrSize, A!ResultSize, SP!HdrSize, SP!ResultSize
      <4>. QED
        BY <4>2, <4>4, ReadSuccess
    <3>. QED
      BY <2>2, <2>4, <3>1, <3>2 DEF ShowsTruth
  <2>. QED
    BY <2>9, <2>10, <2>11, <2>12, <2>13, <2>14, <2>15 DEF ClientInv
<1>. QED
  BY <1>1, <1>2

\* A client whose connection is gone.
LEMMA Dropped ==
  ASSUME Types, NEW c \in Clients, NEW own, ClientInv(own, c),
         NEW new, new[c] = NoCid, conn'[c] \notin {"open", "left"},
         inS'[c] = <<>>, rq'[c] = <<>>, serving' # c,
         UNCHANGED <<atm[c], outbox[c], asked[c], reached[c], shown[c], user[c]>>
  PROVE  ClientInv(new, c)'
<1>1. Load(c)' = 0 /\ Held(c)' = {} /\ ~ Live(c)' /\ Hears(c)' = Hears(c)
  BY LoadOfNone DEF Live, Hears
<1>2. OneAtATime(c)'
  <2>. SUFFICES ASSUME Hears(c)
                PROVE  /\ Count(outbox[c]) <= IF atm[c].at = "waiting" THEN 1 ELSE 0
                       /\ outbox[c] # <<>> => Fits(c, Head(outbox[c]))'
    <3>1. Count(outbox[c]) \in Nat
      BY CountIsNat DEF Types
    <3>. QED
      BY <1>1, <3>1 DEF OneAtATime
  <2>1. Load(c) \in Nat /\ Count(outbox[c]) \in Nat
    BY LoadIsNat, CountIsNat DEF Types
  <2>2. /\ Load(c) + Count(outbox[c]) <= IF atm[c].at = "waiting" THEN 1 ELSE 0
        /\ outbox[c] # <<>> => Fits(c, Head(outbox[c]))
    BY DEF ClientInv, OneAtATime
  <2>3. Fits(c, Head(outbox[c])) => Fits(c, Head(outbox[c]))'
    BY DEF Fits
  <2>. QED
    BY <2>1, <2>2, <2>3
<1>3. Connects(new, c)' /\ KnowsItsID(new, c)'
  BY <1>1 DEF Connects, KnowsItsID
<1>4. NamesItsID(new, c)' /\ SessionAsBelieved(new, c)' /\ SessionKept(new, c)'
  BY DEF NamesItsID, SessionAsBelieved, SessionKept
<1>5. ShowsTruth(c)'
  BY <1>1 DEF ClientInv, ShowsTruth
<1>. QED
  BY <1>2, <1>3, <1>4, <1>5 DEF ClientInv

-----------------------------------------------------------------------------
(* What a step of the server leaves of it.                                   *)

\* A request of a session names the ID that the server gave to its connection.
LEMMA HeldNamesID ==
  ASSUME NEW c \in Clients, NEW own, ClientInv(own, c), Live(c), NEW r \in Held(c)
  PROVE  /\ own[c] = NoCid <=> r.type = "CONNECT"
         /\ r.type \in SessionTypes => r.cid = own[c]
         /\ r.type = "LOGON" => r.cid = own[c] \/ guessed
<1>1. CASE own[c] = NoCid
  BY <1>1 DEF ClientInv, Connects, Connect, SessionTypes
<1>2. CASE own[c] # NoCid
  BY <1>2 DEF ClientInv, NamesItsID
<1>. QED
  BY <1>1, <1>2

\* The sessions of the other connections are spared.
LEMMA ServesSpares ==
  ASSUME Types, SP!Inv, NEW own \in [Clients -> SP!Cid \cup {NoCid}], Distinct(own),
         NEW c \in Clients, ClientInv(own, c), Serves(c),
         NEW d \in Clients, d # c, ClientInv(own, d)
  PROVE  SessionSpared(own[d])
<1>1. clients \in [SP!Cid -> SP!CM!ClientEntity]
  BY DEF SP!Inv, SP!TypeOK, SP!CM!TypeOK, SP!Cid
<1>2. own[d] # NoCid => own[d] \in SP!Cid /\ own[d] # own[c] /\ clients[own[d]].state # "CL_UNUSED"
  <2>1. own[d] \in SP!Cid \cup {NoCid}
    OBVIOUS
  <2>. QED
    BY <2>1 DEF Distinct, ClientInv, Connects
<1>3. Live(c)
  BY DEF Serves
<1>4. CASE Working(c)
  BY <1>4 DEF Working, SessionSpared
<1>5. CASE Answering(c)
  <2>. DEFINE r == wire'.req
  <2>1. r \in Held(c)
    BY <1>5 DEF Answering
  <2>2. /\ r.type \in SessionTypes => r.cid = own[c]
        /\ r.type = "LOGON" => r.cid = own[c] \/ guessed
    BY <1>3, <2>1, HeldNamesID
  <2>3. CASE SP!Grants
    BY <1>1, <1>2, <2>3 DEF SP!Grants, SessionSpared
  <2>4. CASE SP!LogsOn(r)
    <3>1. /\ r.type = "LOGON" /\ r.cid \in SP!Cid /\ clients[r.cid].state = "CL_CONNECTED"
          /\ clients' = [clients EXCEPT ![r.cid] = [state |-> "CL_LOGON", accnt |-> r.pan]]
      BY <2>4 DEF SP!LogsOn
    <3>2. CASE own[d] = r.cid
      <4>1. own[d] # NoCid => guessed
        BY <1>2, <2>2, <3>1, <3>2
      <4>2. clients'[r.cid].state = "CL_LOGON"
        BY <1>1, <3>1
      <4>. QED
        BY <3>1, <3>2, <4>1, <4>2 DEF SessionSpared
    <3>3. CASE own[d] # r.cid
      BY <1>1, <1>2, <3>1, <3>3 DEF SessionSpared
    <3>. QED
      BY <3>2, <3>3
  <2>5. CASE SP!LogsOff(r)
    <3>1. /\ r.cid = own[c]
          /\ \E a : clients' = [clients EXCEPT
                                  ![r.cid] = [state |-> "CL_CONNECTED", accnt |-> a]]
      BY <2>2, <2>5 DEF SP!LogsOff, SessionTypes
    <3>. QED
      BY <1>1, <1>2, <3>1 DEF SessionSpared
  <2>6. CASE Plain(r)
    BY <2>6 DEF Plain, SessionSpared
  <2>. QED
    BY <1>5, <2>3, <2>4, <2>5, <2>6 DEF Answering
<1>. QED
  BY <1>4, <1>5 DEF Serves

LEMMA ServesSame ==
  ASSUME Types, NEW c \in Clients, Serves(c), NEW d \in Clients, d # c
  PROVE  Same(d)
<1>1. /\ UNCHANGED <<atm, conn, asked, shown, user, guessed>>
      /\ serving # d /\ serving' # d /\ UNCHANGED <<inS[d], rq[d]>>
  BY DEF Serves
<1>2. UNCHANGED <<outbox[d], reached[d]>>
  <2>1. CASE Working(c)
    BY <2>1 DEF Working
  <2>2. CASE Answering(c)
    BY <2>2 DEF Answering, Types
  <2>. QED
    BY <2>1, <2>2 DEF Serves
<1>. QED
  BY <1>1, <1>2 DEF Same

LEMMA WorkingKeeps ==
  ASSUME Types, NEW c \in Clients, NEW own, ClientInv(own, c), Serves(c), Working(c)
  PROVE  ClientInv(own, c)'
<1>1. /\ UNCHANGED <<atm, conn, asked, shown, user, guessed, outbox, reached, clients>>
      /\ Held(c)' \subseteq Held(c) /\ Load(c)' = Load(c) /\ Live(c) /\ Load(c) > 0
  BY DEF Serves, Working
<1>2. /\ Hears(c)' = Hears(c) /\ Live(c)' = Live(c) /\ Connecting(c)' = Connecting(c)
      /\ Strays(c)' = Strays(c) /\ Believes(c)' = Believes(c)
  BY <1>1 DEF Hears, Live, Connecting, Strays, Believes
<1>3. OneAtATime(c)'
  <2>1. \A p : Fits(c, p)' <=> Fits(c, p)
    BY <1>1 DEF Fits
  <2>. QED
    BY <1>1, <1>2, <2>1 DEF ClientInv, OneAtATime
<1>4. Connects(own, c)'
  <2>1. job'.req \in Held(c) /\ job'.req \in Held(c)'
    BY DEF Working, Held
  <2>2. Held(c) = {Connect} => Held(c)' = {Connect}
    BY <1>1, <2>1
  <2>. QED
    BY <1>1, <1>2, <2>2 DEF ClientInv, Connects
<1>5. KnowsItsID(own, c)'
  BY <1>1, <1>2 DEF ClientInv, KnowsItsID
<1>6. NamesItsID(own, c)'
  BY <1>1 DEF ClientInv, NamesItsID
<1>7. SessionAsBelieved(own, c)'
  BY <1>1, <1>2 DEF ClientInv, SessionAsBelieved
<1>8. SessionKept(own, c)'
  BY <1>1 DEF ClientInv, SessionKept
<1>9. ShowsTruth(c)'
  BY <1>1, <1>2 DEF ClientInv, ShowsTruth
<1>. QED
  BY <1>3, <1>4, <1>5, <1>6, <1>7, <1>8, <1>9 DEF ClientInv

\* The server gives an ID to a connection that has none.
LEMMA GrantsKeeps ==
  ASSUME Types, SP!Inv, SP!Readable', SP!Inv', Types', NEW c \in Clients, NEW own,
         ClientInv(own, c), Serves(c), Answering(c), SP!Grants, wire'.req.type = "CONNECT",
         NEW new, new[c] = next
  PROVE  ClientInv(new, c)'
<1>1. /\ UNCHANGED <<atm, conn, asked, shown, user, guessed>> /\ Live(c)
      /\ wire'.req \in Held(c) /\ Load(c)' = Load(c) - 1
  BY DEF Serves, Answering
<1>2. own[c] = NoCid
  BY <1>1, HeldNamesID
<1>3. /\ Load(c) = 1 /\ (conn[c] = "open" => Connecting(c) /\ outbox[c] = <<>>)
      /\ (conn[c] = "open" => ~ atm[c].deaf /\ ~ atm[c].logged_on)
  BY <1>1, <1>2 DEF ClientInv, Connects, KnowsItsID
<1>4. Load(c)' = 0 /\ Held(c)' = {}
  BY <1>1, <1>3, NoLoadAfter
<1>5. conn[c] # "open" => atm[c].at = "off"
  BY <1>1 DEF Live, Types
<1>6. conn[c] = "open" => atm[c].at = "waiting" /\ asked[c] = "CONNECT"
  BY <1>3 DEF Connecting
<1>7. /\ next \in SP!Cid /\ next # NoCid
      /\ wire'.result = "CER_SUCCESS" /\ wire'.msg # SP!NoMsg
      /\ wire'.msg.type = "CONNECT" /\ wire'.msg.result = "CER_SUCCESS"
      /\ wire'.msg.len = 14 /\ wire'.size = 42 /\ wire'.msg.info = next
  BY ServerAssumption
  DEF SP!Grants, SP!Cid, SP!CM!Cid, SP!BodySize, SP!HdrSize
<1>8. clients'[next].state = "CL_CONNECTED"
  BY DEF SP!Grants, SP!Inv, SP!TypeOK, SP!CM!TypeOK, SP!CM!ClientEntity, SP!Cid
<1>9. ASSUME conn[c] = "open"
      PROVE  /\ reached'[c] = "CER_SUCCESS" /\ Count(outbox'[c]) = 1
             /\ Head(outbox'[c]) = [size |-> wire'.size, msg |-> wire'.msg]
  <2>. DEFINE p == [size |-> wire'.size, msg |-> wire'.msg]
  <2>1. outbox' = [outbox EXCEPT ![c] = Append(outbox[c], p)]
    BY <1>7, <1>9 DEF Answering
  <2>2. outbox'[c] = Append(<<>>, p)
    BY <1>3, <1>9, <2>1 DEF Types
  <2>3. reached'[c] = "CER_SUCCESS"
    BY <1>7, <1>9 DEF Answering, Types
  <2>. HIDE DEF p
  <2>4. Head(outbox'[c]) = p /\ Len(outbox'[c]) = 1
    BY <2>2
  <2>. QED
    BY <2>3, <2>4 DEF Count, p
<1>10. ASSUME conn[c] = "open" PROVE Fits(c, Head(outbox[c]))'
  <2>. DEFINE p == [size |-> wire'.size, msg |-> wire'.msg]
  <2>1. /\ p.msg # SP!NoMsg /\ p.msg.type = "CONNECT" /\ p.msg.result = "CER_SUCCESS"
        /\ p.msg.len = 14 /\ p.size = 42
    BY <1>7
  <2>2. reached'[c] = "CER_SUCCESS" /\ asked'[c] = "CONNECT" /\ Head(outbox'[c]) = p
    BY <1>1, <1>6, <1>9, <1>10
  <2>. HIDE DEF p
  <2>3. SP!HdrSize = 28 /\ SP!ResultSize = 8
    BY DEF SP!HdrSize, SP!ResultSize
  <2>. QED
    BY <2>1, <2>2, <2>3 DEF Fits, SP!ReadAsSent
<1>11. OneAtATime(c)'
  BY <1>1, <1>4, <1>5, <1>6, <1>9, <1>10 DEF OneAtATime, Hears
<1>12. Connects(new, c)'
  BY <1>1, <1>7, <1>8 DEF Connects, Live
<1>13. KnowsItsID(new, c)'
  <2>. SUFFICES ASSUME conn[c] = "open" PROVE KnowsItsID(new, c)'
    BY <1>1 DEF KnowsItsID
  <2>1. Connecting(c)' /\ Head(outbox'[c]).msg = wire'.msg
    BY <1>1, <1>6, <1>9 DEF Connecting
  <2>2. SP!BodySize("CONNECT") = 14
    BY DEF SP!BodySize
  <2>. QED
    BY <1>1, <1>3, <1>7, <1>9, <2>1, <2>2 DEF KnowsItsID
<1>14. NamesItsID(new, c)'
  BY <1>4 DEF NamesItsID
<1>15. SessionAsBelieved(new, c)'
  BY <1>1, <1>3, <1>6, <1>8 DEF SessionAsBelieved, Believes
<1>16. SessionKept(new, c)'
  BY <1>1, <1>3, <1>4 DEF SessionKept
<1>17. ShowsTruth(c)'
  BY <1>1, <1>5, <1>6 DEF ShowsTruth
<1>. QED
  BY <1>11, <1>12, <1>13, <1>14, <1>15, <1>16, <1>17 DEF ClientInv

\* A client that hears is told the end of what it asked.
LEMMA AnswerFits ==
  ASSUME Types, SP!Inv', SP!Readable', NEW c \in Clients, NEW own, ClientInv(own, c),
         Serves(c), Answering(c), wire'.req.type = asked[c], conn[c] = "open",
         reached'[c] = wire'.result, wire'.msg # SP!NoMsg,
         asked[c] = "WITHDRAWAL"
           => wire'.result \in {"CER_SUCCESS", "CER_INSUFFICIENT_FUNDS", "CER_ERROR"}
  PROVE  Fits(c, [size |-> wire.size, msg |-> wire.msg])'
<1>1. /\ wire'.size \in Nat /\ wire'.msg \in SP!Message /\ SP!ReadAsSent(wire)'
      /\ wire'.req \in Asked
  BY Answered
<1>2. SP!SuccessIsTold' /\ SP!FailureIsNotToldSuccess'
  BY DEF SP!Inv, SP!AnswersOK
<1>3. wire'.req # SP!NoReq
  BY <1>1 DEF SP!NoReq, Asked, SP!Requests, SP!PlainRequest, SP!CreateRequest,
              SP!LogonRequest, SP!SessionRequest, SP!TransRequest, SP!DepositRequest,
              SP!WithdrawalRequest
<1>4. asked'[c] = asked[c]
  BY DEF Serves
<1>5. /\ wire'.size = SP!HdrSize \/ wire'.size >= SP!HdrSize + SP!ResultSize
      /\ wire'.size <= SP!HdrSize + wire'.msg.len
      /\ wire'.size = SP!HdrSize + wire'.msg.len
           => wire'.msg.type = asked[c] /\ wire'.msg.result = wire'.result
      /\ wire'.msg.result = "CER_SUCCESS" /\ wire'.msg.type # "TRANSACTION_QUERY"
           => wire'.msg.type = asked[c] /\ wire'.msg.result = wire'.result
  BY <1>1 DEF SP!ReadAsSent
<1>6. wire'.result = "CER_SUCCESS" =>
        /\ wire'.msg.type = asked[c] /\ wire'.msg.result = "CER_SUCCESS"
        /\ wire'.size = SP!HdrSize + wire'.msg.len
        /\ wire'.size >= SP!HdrSize + SP!ResultSize
  <2>. SUFFICES ASSUME wire'.result = "CER_SUCCESS"
                PROVE  /\ wire'.msg.type = asked[c] /\ wire'.msg.result = "CER_SUCCESS"
                       /\ wire'.size = SP!HdrSize + wire'.msg.len
                       /\ wire'.size >= SP!HdrSize + SP!ResultSize
    OBVIOUS
  <2>1. /\ SP!Told' = [type |-> wire'.req.type, result |-> "CER_SUCCESS"]
        /\ wire'.size = SP!HdrSize + wire'.msg.len
    BY <1>2, <1>3 DEF SP!SuccessIsTold
  <2>. QED
    BY <2>1 DEF SP!Told
<1>7. wire'.result # "CER_SUCCESS" =>
        ~ /\ wire'.msg.type = asked[c] /\ wire'.msg.result = "CER_SUCCESS"
          /\ wire'.size >= SP!HdrSize + SP!ResultSize
  BY <1>2, <1>3 DEF SP!FailureIsNotToldSuccess, SP!Told
<1>. QED
  BY <1>4, <1>5, <1>6, <1>7 DEF Fits, SP!ReadAsSent

\* The server answers a request of a connection that has its ID.
LEMMA AnswersKeep ==
  ASSUME Types, SP!Inv, SP!Inv', SP!Readable', Types', NEW c \in Clients,
         NEW own \in [Clients -> SP!Cid \cup {NoCid}],
         ClientInv(own, c), Serves(c), Answering(c), wire'.req.type # "CONNECT"
  PROVE  ClientInv(own, c)'
<1>. DEFINE r == wire'.req
<1>1. /\ UNCHANGED <<atm, conn, asked, shown, user, guessed>> /\ Live(c)
      /\ r \in Held(c) /\ Load(c)' = Load(c) - 1 /\ Held(c)' \subseteq Held(c)
      /\ Load(c) > 0 /\ Load(c) \in Nat
  BY LoadIsNat DEF Serves, Answering
<1>2. /\ own[c] # NoCid /\ own[c] \in SP!Cid
      /\ r.type \in SessionTypes => r.cid = own[c]
  BY <1>1, HeldNamesID
<1>3. clients \in [SP!Cid -> SP!CM!ClientEntity]
  BY DEF SP!Inv, SP!TypeOK, SP!CM!TypeOK, SP!Cid
<1>4. SP!LogsOn(r) \/ SP!LogsOff(r) \/ Plain(r)
  BY DEF Answering
<1>5. /\ Hears(c)' = Hears(c) /\ Live(c)' = Live(c) /\ Connecting(c)' = Connecting(c)
      /\ Strays(c)' = Strays(c)
  BY <1>1 DEF Hears, Live, Connecting, Strays
<1>6. clients'[own[c]].state # "CL_UNUSED"
  <2>1. clients[own[c]].state # "CL_UNUSED"
    BY <1>2 DEF ClientInv, Connects
  <2>2. CASE SP!LogsOn(r)
    BY <1>2, <1>3, <2>1, <2>2 DEF SP!LogsOn
  <2>3. CASE SP!LogsOff(r)
    BY <1>2, <1>3, <2>1, <2>3 DEF SP!LogsOff
  <2>4. CASE Plain(r)
    BY <2>1, <2>4 DEF Plain
  <2>. QED
    BY <1>4, <2>2, <2>3, <2>4
<1>7. ASSUME Hears(c)
      PROVE  /\ conn[c] = "open" /\ atm[c].at = "waiting" /\ ~ atm[c].deaf
             /\ Load(c)' = 0 /\ Held(c)' = {} /\ outbox[c] = <<>> /\ reached[c] = "none"
             /\ r.type = asked[c] /\ reached'[c] = wire'.result
             /\ Believes(c) = atm[c].logged_on
             /\ r.type = "LOGON" => r.pan = user[c] /\ r.cid = own[c]
  <2>1. conn[c] = "open"
    BY <1>1, <1>7 DEF Live, Types, Hears
  <2>2. /\ Load(c) + Count(outbox[c]) <= IF atm[c].at = "waiting" THEN 1 ELSE 0
        /\ reached[c] = "none" /\ r.type = asked[c]
        /\ r.type = "LOGON" => r.pan = user[c]
    BY <1>1, <1>7 DEF ClientInv, OneAtATime
  <2>3. Count(outbox[c]) \in Nat /\ outbox[c] \in Seq(Packet)
    BY CountIsNat DEF Types
  <2>4. atm[c].at = "waiting" /\ Load(c) = 1 /\ Count(outbox[c]) = 0
    BY <1>1, <2>2, <2>3
  <2>5. outbox[c] = <<>> /\ Load(c)' = 0 /\ Held(c)' = {}
    BY <1>1, <2>3, <2>4, NoneIsEmpty, NoLoadAfter
  <2>6. reached'[c] = wire'.result
    BY <2>1 DEF Answering, Types
  <2>7. Believes(c) = atm[c].logged_on
    BY <2>2 DEF Believes
  <2>8. ~ atm[c].deaf
    BY <1>7 DEF Hears
  <2>9. r.type = "LOGON" => r.cid = own[c]
    BY <1>1, <1>2, <2>1, <2>8 DEF ClientInv, NamesItsID
  <2>. QED
    BY <2>1, <2>2, <2>4, <2>5, <2>6, <2>7, <2>8, <2>9
<1>8. ASSUME Hears(c)
      PROVE  /\ Count(outbox'[c]) <= 1
             /\ outbox'[c] # <<>> => Fits(c, Head(outbox[c]))'
  <2>1. CASE wire'.msg = SP!NoMsg
    <3>1. outbox'[c] = <<>>
      BY <1>7, <1>8, <2>1 DEF Answering
    <3>. QED
      BY <3>1, ElementsOfNone
  <2>2. CASE wire'.msg # SP!NoMsg
    <3>1. outbox' = [outbox EXCEPT ![c] = Append(outbox[c], [size |-> wire'.size,
                                                              msg |-> wire'.msg])]
      BY <1>7, <1>8, <2>2 DEF Answering
    <3>2. outbox'[c] = Append(<<>>, [size |-> wire'.size, msg |-> wire'.msg])
      BY <1>7, <1>8, <3>1 DEF Types
    <3>3. Head(outbox'[c]) = [size |-> wire'.size, msg |-> wire'.msg] /\ Len(outbox'[c]) = 1
      BY <3>2
    <3>4. ASSUME asked[c] = "WITHDRAWAL"
          PROVE  wire'.result \in {"CER_SUCCESS", "CER_INSUFFICIENT_FUNDS", "CER_ERROR"}
      <4>1. r.type = "WITHDRAWAL" /\ r.cid = own[c]
        BY <1>2, <1>7, <1>8, <3>4 DEF SessionTypes
      <4>2. atm[c].logged_on
        BY <1>1, <1>2, <1>7, <1>8, <4>1 DEF ClientInv, NamesItsID, SessionTypes
      <4>3. clients[own[c]].state = "CL_LOGON"
        BY <1>2, <1>7, <1>8, <4>2 DEF ClientInv, SessionAsBelieved
      <4>4. Plain(r)
        BY <1>4, <4>1 DEF SP!LogsOn, SP!LogsOff
      <4>. QED
        BY <4>1, <4>3, <4>4 DEF Plain
    <3>5. Fits(c, [size |-> wire.size, msg |-> wire.msg])'
      BY <1>7, <1>8, <2>2, <3>4, AnswerFits
    <3>. QED
      BY <3>3, <3>5 DEF Count
  <2>. QED
    BY <2>1, <2>2
<1>9. OneAtATime(c)'
  <2>. SUFFICES ASSUME Hears(c) PROVE OneAtATime(c)'
    BY <1>5 DEF OneAtATime
  <2>1. outbox'[c] \in Seq(Packet)
    BY DEF Types
  <2>2. Count(outbox'[c]) \in Nat
    BY <2>1, CountIsNat
  <2>. QED
    BY <1>1, <1>7, <1>8, <2>2 DEF OneAtATime
<1>10. Connects(own, c)'
  BY <1>2, <1>5, <1>6 DEF ClientInv, Connects
<1>11. KnowsItsID(own, c)'
  <2>. SUFFICES ASSUME conn[c] = "open" PROVE KnowsItsID(own, c)'
    BY <1>1 DEF KnowsItsID
  <2>1. ~ Connecting(c)
    <3>. SUFFICES ASSUME Connecting(c) PROVE FALSE
      OBVIOUS
    <3>1. ~ atm[c].deaf /\ Count(outbox[c]) = 1
      BY <1>2 DEF ClientInv, KnowsItsID
    <3>2. Hears(c)
      BY <3>1 DEF Hears, Connecting
    <3>. QED
      BY <1>7, <3>1, <3>2, ElementsOfNone
  <2>. QED
    BY <1>1, <1>2, <1>5, <2>1 DEF ClientInv, KnowsItsID
<1>12. NamesItsID(own, c)'
  BY <1>1 DEF ClientInv, NamesItsID
<1>13. SessionAsBelieved(own, c)'
  <2>. SUFFICES ASSUME Hears(c)
                PROVE  IF Believes(c)'
                       THEN clients'[own[c]] = [state |-> "CL_LOGON", accnt |-> user[c]]
                       ELSE clients'[own[c]].state = "CL_CONNECTED" \/ guessed
    BY <1>1, <1>5 DEF SessionAsBelieved
  <2>1. IF atm[c].logged_on
        THEN clients[own[c]] = [state |-> "CL_LOGON", accnt |-> user[c]]
        ELSE clients[own[c]].state = "CL_CONNECTED" \/ guessed
    BY <1>2, <1>7 DEF ClientInv, SessionAsBelieved
  <2>2. Believes(c)' = IF wire'.result = "CER_SUCCESS" /\ r.type \in {"LOGON", "LOGOFF"}
                       THEN r.type = "LOGON" ELSE atm[c].logged_on
    BY <1>1, <1>7 DEF Believes
  <2>3. CASE SP!LogsOn(r)
    <3>1. /\ clients' = [clients EXCEPT ![own[c]] = [state |-> "CL_LOGON", accnt |-> user[c]]]
          /\ r.type = "LOGON" /\ wire'.result = "CER_SUCCESS"
      BY <1>7, <2>3 DEF SP!LogsOn
    <3>. QED
      BY <1>2, <1>3, <2>2, <3>1
  <2>4. CASE SP!LogsOff(r)
    <3>1. /\ \E a : clients' = [clients EXCEPT
                                  ![own[c]] = [state |-> "CL_CONNECTED", accnt |-> a]]
          /\ r.type = "LOGOFF" /\ wire'.result = "CER_SUCCESS"
      BY <1>2, <2>4 DEF SP!LogsOff, SessionTypes
    <3>2. clients'[own[c]].state = "CL_CONNECTED"
      BY <1>2, <1>3, <3>1
    <3>. QED
      BY <2>2, <3>1, <3>2
  <2>5. CASE Plain(r)
    BY <2>1, <2>2, <2>5 DEF Plain
  <2>. QED
    BY <1>4, <2>3, <2>4, <2>5
<1>14. SessionKept(own, c)'
  <2>. SUFFICES ASSUME ~ guessed, \/ \E r2 \in Held(c)' : r2.type \in SessionTypes
                                  \/ conn[c] = "open" /\ atm[c].logged_on
                PROVE  /\ clients'[own[c]].state = "CL_LOGON"
                            => clients'[own[c]].accnt = user[c]
                       /\ \A r2 \in Held(c)' : r2.type # "LOGON"
    BY <1>1 DEF SessionKept
  <2>1. /\ clients[own[c]].state = "CL_LOGON" => clients[own[c]].accnt = user[c]
        /\ \A r2 \in Held(c) : r2.type # "LOGON"
    BY <1>1, <1>2 DEF ClientInv, SessionKept
  <2>2. ~ SP!LogsOn(r)
    BY <1>1, <2>1 DEF SP!LogsOn
  <2>3. SP!LogsOff(r) => clients'[own[c]].state # "CL_LOGON"
    BY <1>2, <1>3 DEF SP!LogsOff, SessionTypes
  <2>. QED
    BY <1>1, <1>4, <2>1, <2>2, <2>3 DEF Plain
<1>15. ShowsTruth(c)'
  <2>1. atm[c].at = "menu" => shown[c].says # "success" /\ ~ Hears(c)
    BY <1>1, <1>7 DEF ClientInv, ShowsTruth
  <2>. QED
    BY <1>1, <1>5, <2>1 DEF ShowsTruth
<1>. QED
  BY <1>9, <1>10, <1>11, <1>12, <1>13, <1>14, <1>15 DEF ClientInv

-----------------------------------------------------------------------------
(* All clients together.                                                     *)

Alone(c) ==
  UNCHANGED clients /\ \A d \in Clients : d # c => Same(d)

LEMMA ClientsAlone ==
  ASSUME Types, NEW c \in Clients,
         Start(c) \/ Ask(c) \/ Ends(c) \/ ReceiveDeaf(c) \/ Delete(c)
  PROVE  Alone(c)
<1>1. UNCHANGED <<clients, serving, job>> /\ (guessed => guessed')
  BY DEF Start, Ask, Ends, ReceiveDeaf, Delete, server, loop, history
<1>2. ASSUME NEW d \in Clients, d # c
      PROVE  UNCHANGED <<atm[d], conn[d], rq[d], inS[d], outbox[d], asked[d], reached[d],
                         shown[d], user[d]>>
  <2>1. CASE Start(c)
    BY <1>2, <2>1 DEF Start, Sends, Resets, Types, TypeOK
  <2>2. CASE Ask(c)
    BY <1>2, <2>2 DEF Ask, Sends, Resets, Types, TypeOK
  <2>3. CASE Ends(c)
    BY <1>2, <2>3 DEF Ends, Leaves, Resets, Types, TypeOK
  <2>4. CASE ReceiveDeaf(c)
    BY <1>2, <2>4 DEF ReceiveDeaf, Types, TypeOK
  <2>5. CASE Delete(c)
    BY <1>2, <2>5 DEF Delete, history, answers, Types, TypeOK
  <2>. QED
    BY <2>1, <2>2, <2>3, <2>4, <2>5
<1>. QED
  BY <1>1, <1>2 DEF Alone, Same

LEMMA ReadsAlone ==
  ASSUME Types, NEW c \in Clients, NEW p, NEW k \in Nat, Reads(c, p, k)
  PROVE  Alone(c)
<1>1. CASE atm'[c] = A!Off
  BY <1>1, ReadsEnds, ClientsAlone
<1>2. CASE atm'[c] # A!Off
  <2>1. UNCHANGED <<clients, serving, job, conn, rq, inS, asked, reached, user>>
    BY <1>2 DEF Reads, server, loop
  <2>2. guessed => guessed'
    BY ReadsEnds
  <2>3. ASSUME NEW d \in Clients, d # c PROVE UNCHANGED <<atm[d], outbox[d], shown[d]>>
    BY <1>2, <2>3 DEF Reads, Types, TypeOK
  <2>. QED
    BY <2>1, <2>2, <2>3 DEF Alone, Same
<1>. QED
  BY <1>1, <1>2

LEMMA AloneKeeps ==
  ASSUME NEW own, Owners(own), NEW c \in Clients, Alone(c), ClientInv(own, c)'
  PROVE  Owners(own)'
<1>1. ASSUME NEW d \in Clients, d # c PROVE ClientInv(own, d)'
  <2>1. ClientInv(own, d) /\ Same(d) /\ SessionSpared(own[d])
    BY <1>1 DEF Owners, Alone, SessionSpared
  <2>. QED
    BY <2>1, Untouched
<1>2. \A d \in Clients : ClientInv(own, d)'
  BY <1>1
<1>3. Distinct(own)
  BY DEF Owners
<1>. QED
  BY <1>2, <1>3 DEF Owners, Distinct

LEMMA ClientsKeep ==
  ASSUME Types, Types', NEW own, Owners(own), NEW c \in Clients,
         \/ Start(c) \/ Ask(c) \/ Exit(c) \/ Receive(c) \/ ReceiveDeaf(c) \/ Disconnected(c)
  PROVE  Owners(own)'
<1>1. ClientInv(own, c)
  BY DEF Owners
<1>2. CASE Start(c)
  BY <1>1, <1>2, StartKeeps, ClientsAlone, AloneKeeps
<1>3. CASE Ask(c)
  BY <1>1, <1>3, AskKeeps, ClientsAlone, AloneKeeps
<1>4. CASE Exit(c) \/ Disconnected(c)
  <2>1. Ends(c)
    BY <1>4 DEF Exit, Disconnected, Ends, Types
  <2>. QED
    BY <1>1, <2>1, EndsKeeps, ClientsAlone, AloneKeeps
<1>5. CASE Receive(c)
  <2>1. OneAtATime(c)
    BY <1>1 DEF ClientInv
  <2>2. PICK k \in Nat : Reads(c, Head(outbox[c]), k)
    BY <1>5, <2>1, ReceiveReads
  <2>3. ClientInv(own, c)'
    BY <1>1, <2>2, ReadsKeeps
  <2>4. Alone(c)
    BY <2>2, ReadsAlone
  <2>. QED
    BY <2>3, <2>4, AloneKeeps
<1>6. CASE ReceiveDeaf(c)
  BY <1>1, <1>6, ReceiveDeafKeeps, ClientsAlone, AloneKeeps
<1>. QED
  BY <1>2, <1>3, <1>4, <1>5, <1>6

LEMMA DeleteKeeps ==
  ASSUME Types, NEW own \in [Clients -> SP!Cid \cup {NoCid}], Owners(own),
         NEW c \in Clients, Delete(c)
  PROVE  \E new \in [Clients -> SP!Cid \cup {NoCid}] : Owners(new)'
<1>1. PICK new \in [Clients -> SP!Cid \cup {NoCid}] : new = [own EXCEPT ![c] = NoCid]
  OBVIOUS
<1>2. new[c] = NoCid /\ \A d \in Clients : d # c => new[d] = own[d]
  BY <1>1
<1>3. /\ conn'[c] = "none" /\ inS'[c] = <<>> /\ rq'[c] = <<>> /\ serving' # c
      /\ UNCHANGED <<atm, outbox, asked, reached, shown, user>>
  BY ClientsAssumption DEF Delete, history, answers, Types, TypeOK
<1>4. ClientInv(new, c)'
  <2>1. ClientInv(own, c)
    BY DEF Owners
  <2>. QED
    BY <1>2, <1>3, <2>1, Dropped
<1>5. ASSUME NEW d \in Clients, d # c PROVE ClientInv(new, d)'
  <2>1. ClientInv(own, d) /\ Same(d) /\ SessionSpared(own[d]) /\ new[d] = own[d]
    BY <1>2, <1>5, ClientsAlone DEF Owners, Alone, SessionSpared
  <2>. QED
    BY <2>1, Untouched
<1>6. \A d \in Clients : ClientInv(new, d)'
  BY <1>4, <1>5
<1>7. Distinct(new)
  BY <1>2 DEF Owners, Distinct
<1>8. Owners(new)'
  BY <1>6, <1>7 DEF Owners, Distinct
<1>. QED
  BY <1>8

LEMMA RestartKeeps ==
  ASSUME Types, NEW own \in [Clients -> SP!Cid \cup {NoCid}], Owners(own), Restart
  PROVE  \E new \in [Clients -> SP!Cid \cup {NoCid}] : Owners(new)'
<1>1. PICK new \in [Clients -> SP!Cid \cup {NoCid}] : new = [c \in Clients |-> NoCid]
  OBVIOUS
<1>2. ASSUME NEW c \in Clients PROVE ClientInv(new, c)'
  <2>1. ClientInv(own, c) /\ new[c] = NoCid
    BY <1>1 DEF Owners
  <2>2. /\ conn'[c] \notin {"open", "left"} /\ inS'[c] = <<>> /\ rq'[c] = <<>>
        /\ serving' # c /\ UNCHANGED <<atm, outbox, asked, reached, shown, user>>
    BY ClientsAssumption DEF Restart, history, answers
  <2>. QED
    BY <2>1, <2>2, Dropped
<1>3. Distinct(new)
  BY <1>1 DEF Distinct
<1>4. \A c \in Clients : ClientInv(new, c)'
  BY <1>2
<1>5. Owners(new)'
  BY <1>3, <1>4 DEF Owners, Distinct
<1>. QED
  BY <1>5

LEMMA ServesKeeps ==
  ASSUME Types, SP!Inv, SP!Inv', SP!Readable', Types',
         NEW own \in [Clients -> SP!Cid \cup {NoCid}], Owners(own),
         NEW c \in Clients, Serves(c)
  PROVE  \E new \in [Clients -> SP!Cid \cup {NoCid}] : Owners(new)'
<1>1. Distinct(own) /\ \A d \in Clients : ClientInv(own, d)
  BY DEF Owners
<1>2. ASSUME NEW d \in Clients, d # c
      PROVE  ClientInv(own, d) /\ Same(d) /\ SessionSpared(own[d])
  <2>1. Same(d)
    BY <1>2, ServesSame
  <2>2. SessionSpared(own[d])
    BY <1>1, <1>2, ServesSpares
  <2>. QED
    BY <1>1, <2>1, <2>2
<1>3. CASE Answering(c) /\ wire'.req.type = "CONNECT"
  <2>1. SP!Grants
    BY <1>3 DEF Answering, SP!LogsOn, SP!LogsOff, Plain
  <2>2. next \in SP!Cid /\ clients[next].state = "CL_UNUSED"
    BY <2>1 DEF SP!Grants
  <2>3. PICK new \in [Clients -> SP!Cid \cup {NoCid}] : new = [own EXCEPT ![c] = next]
    BY <2>2
  <2>4. new[c] = next /\ \A d \in Clients : d # c => new[d] = own[d]
    BY <2>3
  <2>5. ClientInv(new, c)'
    BY <1>1, <1>3, <2>1, <2>4, GrantsKeeps
  <2>6. ASSUME NEW d \in Clients, d # c PROVE ClientInv(new, d)'
    <3>1. new[d] = own[d]
      BY <2>4, <2>6
    <3>. QED
      BY <1>2, <2>6, <3>1, Untouched
  <2>7. Distinct(new)
    <3>1. ASSUME NEW d \in Clients, d # c PROVE own[d] # next \/ own[d] = NoCid
      BY <1>1, <2>2, <3>1 DEF ClientInv, Connects
    <3>. QED
      BY <1>1, <2>4, <3>1 DEF Distinct
  <2>8. \A d \in Clients : ClientInv(new, d)'
    BY <2>5, <2>6
  <2>9. Owners(new)'
    BY <2>7, <2>8 DEF Owners, Distinct
  <2>. QED
    BY <2>9
<1>4. CASE Working(c) \/ (Answering(c) /\ wire'.req.type # "CONNECT")
  <2>1. ClientInv(own, c)'
    BY <1>1, <1>4, WorkingKeeps, AnswersKeep
  <2>2. ASSUME NEW d \in Clients, d # c PROVE ClientInv(own, d)'
    BY <1>2, <2>2, Untouched
  <2>3. \A d \in Clients : ClientInv(own, d)'
    BY <2>1, <2>2
  <2>4. Owners(own)'
    BY <1>1, <2>3 DEF Owners, Distinct
  <2>. QED
    BY <2>4
<1>. QED
  BY <1>3, <1>4 DEF Serves

-----------------------------------------------------------------------------
(* The invariant is kept, and what it says.                                  *)

LEMMA TypesStep ==
  ASSUME SP!Inv, SP!Readable, SP!Inv', SP!Readable', Types, NEW own, Owners(own), [Next]_vars
  PROVE  Types'
<1>1. ASSUME NEW c \in Clients, Exit(c) \/ Disconnected(c) PROVE Types'
  <2>1. Ends(c)
    BY <1>1 DEF Exit, Disconnected, Ends, Types
  <2>. QED
    BY <2>1, EndsTypes
<1>2. ASSUME NEW c \in Clients, Receive(c) PROVE Types'
  <2>1. OneAtATime(c)
    BY DEF Owners, ClientInv
  <2>2. PICK k \in Nat : Reads(c, Head(outbox[c]), k)
    BY <1>2, <2>1, ReceiveReads
  <2>. QED
    BY <2>2, ReadsTypes
<1>3. ASSUME NEW c \in Clients, Start(c) \/ Ask(c) \/ ReceiveDeaf(c) \/ Delete(c)
      PROVE  Types'
  BY <1>3, StartTypes, AskTypes, ReceiveDeafTypes, DeleteTypes
<1>4. ASSUME NEW c \in Clients, Serve(c) PROVE Types'
  BY <1>4, ServeTypes
<1>5. CASE GoOn
  BY <1>5, GoOnTypes
<1>6. CASE EpollWait
  BY <1>6, EpollWaitTypes
<1>7. CASE Restart
  BY <1>7, RestartTypes
<1>8. CASE UNCHANGED vars
  BY <1>8
  DEF vars, server, net, loop, history, answers, Types, TypeOK, Live, Load
<1>. QED
  BY <1>1, <1>2, <1>3, <1>4, <1>5, <1>6, <1>7, <1>8 DEF Next

\* Nobody's requests or answers move, and the sessions stay.
LEMMA NobodyMoves ==
  ASSUME NEW own, Owners(own),
         UNCHANGED <<server, atm, net, serving, history>>
  PROVE  Owners(own)'
<1>1. ASSUME NEW d \in Clients PROVE ClientInv(own, d)'
  <2>1. ClientInv(own, d) /\ own[d] = own[d]
    BY DEF Owners
  <2>2. Same(d) /\ SessionSpared(own[d])
    BY DEF Same, SessionSpared, server, net, history, answers
  <2>. QED
    BY <2>1, <2>2, Untouched
<1>2. Distinct(own)
  BY DEF Owners
<1>. QED
  BY <1>1, <1>2 DEF Owners, Distinct

LEMMA OwnersStep ==
  ASSUME SP!Inv, SP!Readable, SP!Inv', SP!Readable', Types, Types',
         NEW own \in [Clients -> SP!Cid \cup {NoCid}], Owners(own), [Next]_vars
  PROVE  \E new \in [Clients -> SP!Cid \cup {NoCid}] : Owners(new)'
<1>1. ASSUME NEW c \in Clients,
             \/ Start(c) \/ Ask(c) \/ Exit(c) \/ Receive(c) \/ ReceiveDeaf(c)
             \/ Disconnected(c)
      PROVE  Owners(own)'
  BY <1>1, ClientsKeep
<1>2. ASSUME NEW c \in Clients, Serve(c)
      PROVE  \E new \in [Clients -> SP!Cid \cup {NoCid}] : Owners(new)'
  BY <1>2, ServeServes, ServesKeeps
<1>3. ASSUME NEW c \in Clients, Delete(c)
      PROVE  \E new \in [Clients -> SP!Cid \cup {NoCid}] : Owners(new)'
  BY <1>3, DeleteKeeps
<1>4. CASE GoOn
  BY <1>4, GoOnServes, ServesKeeps
<1>5. CASE Restart
  BY <1>5, RestartKeeps
<1>6. CASE EpollWait \/ UNCHANGED vars
  <2>1. UNCHANGED <<server, atm, net, serving, history>>
    BY <1>6 DEF EpollWait, vars, loop
  <2>2. Owners(own)'
    BY <2>1, NobodyMoves
  <2>. QED
    BY <2>2
<1>. QED
  BY <1>1, <1>2, <1>3, <1>4, <1>5, <1>6 DEF Next

\* The account that is moved is the one of the session, and that is the user's.
LEMMA RecordsOwn ==
  ASSUME Types, NEW c \in Clients, NEW own, ClientInv(own, c), Serves(c), Working(c),
         pc' = "record"
  PROVE  job'.accnt = user[c] \/ (guessed /\ (atm[c].deaf \/ atm[c].at = "off"))
<1>1. PICK r \in Held(c) :
        /\ r.type \in {"DEPOSIT", "WITHDRAWAL"}
        /\ clients[r.cid] = [state |-> "CL_LOGON", accnt |-> job'.accnt]
  BY DEF Working
<1>2. Live(c) /\ Load(c) > 0
  BY DEF Serves
<1>3. r.type \in SessionTypes /\ r.type # "CONNECT"
  BY <1>1 DEF SessionTypes
<1>4. own[c] # NoCid /\ r.cid = own[c]
  BY <1>2, <1>3, HeldNamesID
<1>5. clients[own[c]] = [state |-> "CL_LOGON", accnt |-> job'.accnt]
  BY <1>1, <1>4
<1>6. CASE ~ guessed
  <2>1. clients[own[c]].accnt = user[c]
    BY <1>3, <1>4, <1>5, <1>6 DEF ClientInv, SessionKept
  <2>. QED
    BY <1>5, <2>1
<1>7. CASE conn[c] = "left" /\ guessed
  BY <1>7 DEF Types
<1>8. CASE conn[c] = "open" /\ guessed /\ ~ atm[c].deaf
  <2>1. Hears(c)
    BY <1>8 DEF Hears, Types, TypeOK
  <2>2. atm[c].logged_on
    BY <1>3, <1>4, <1>8 DEF ClientInv, NamesItsID
  <2>3. reached[c] = "none"
    BY <1>2, <2>1 DEF ClientInv, OneAtATime
  <2>4. Believes(c)
    BY <2>2, <2>3 DEF Believes
  <2>5. clients[own[c]] = [state |-> "CL_LOGON", accnt |-> user[c]]
    BY <1>4, <1>8, <2>1, <2>4 DEF ClientInv, SessionAsBelieved
  <2>. QED
    BY <1>5, <2>5
<1>. QED
  BY <1>2, <1>6, <1>7, <1>8 DEF Live

\* A client whose money is moved does not log on meanwhile, nor does it hear again.
LEMMA StaysWhileMoved ==
  ASSUME Types, SP!Inv, NEW c \in Clients, NEW own, ClientInv(own, c),
         serving = c, pc = "record",
         \/ Start(c) \/ Ask(c) \/ Exit(c) \/ Receive(c) \/ ReceiveDeaf(c) \/ Disconnected(c)
  PROVE  /\ user'[c] = user[c] /\ (guessed => guessed')
         /\ atm[c].deaf \/ atm[c].at = "off" => atm'[c].deaf \/ atm'[c].at = "off"
<1>1. atm \in [Clients -> A!Client] /\ user \in [Clients -> AccntNo \cup {NoAccnt}]
  BY DEF Types, TypeOK
<1>2. Load(c) \in Nat /\ Load(c) > 0
  <2>1. Load(c) = Count(inS[c]) + Count(rq[c]) + 1
    BY DEF Load
  <2>. QED
    BY <2>1, LoadIsNat
<1>3. CASE Start(c)
  BY <1>3 DEF Start
<1>4. CASE Ask(c)
  <2>1. PICK req \in A!Choices(atm[c]) :
          /\ UNCHANGED conn
          /\ user' = IF req.type = "LOGON" THEN [user EXCEPT ![c] = req.pan] ELSE user
    BY <1>4 DEF Ask
  <2>2. atm' = [atm EXCEPT ![c].at = "waiting"] /\ atm[c].at = "menu" /\ UNCHANGED guessed
    BY <1>4 DEF Ask
  <2>3. atm'[c].deaf = atm[c].deaf /\ atm[c].at # "off"
    BY <1>1, <2>2 DEF A!Client
  <2>4. req.type # "LOGON"
    <3>1. SUFFICES ASSUME req.type = "LOGON" PROVE FALSE
      OBVIOUS
    <3>2. ~ atm[c].logged_on
      BY <1>1, <3>1, ChoicesAsked
    <3>3. job.req \in Held(c) /\ job.req.type \in SessionTypes /\ job.req.type # "CONNECT"
      BY DEF Held, SP!Inv, SP!TypeOK, SP!JobOK, SP!DepositRequest, SP!WithdrawalRequest,
             SessionTypes
    <3>4. Live(c) /\ conn[c] = "open"
      BY <1>2, <2>3 DEF Types, Live
    <3>5. own[c] # NoCid
      BY <3>3, <3>4, HeldNamesID
    <3>. QED
      BY <3>2, <3>3, <3>4, <3>5 DEF ClientInv, NamesItsID
  <2>. QED
    BY <2>1, <2>2, <2>3, <2>4
<1>5. CASE Exit(c) \/ Disconnected(c)
  BY <1>1, <1>5, OffIsClient DEF Exit, Disconnected
<1>6. CASE Receive(c)
  <2>1. OneAtATime(c)
    BY DEF ClientInv
  <2>2. PICK k \in Nat : Reads(c, Head(outbox[c]), k)
    BY <1>6, <2>1, ReceiveReads
  <2>. QED
    BY <1>2, <2>2 DEF Reads
<1>7. CASE ReceiveDeaf(c)
  <2>1. atm' = [atm EXCEPT ![c].at = "menu"] /\ UNCHANGED <<user, guessed>> /\ atm[c].deaf
    BY <1>7 DEF ReceiveDeaf
  <2>. QED
    BY <1>1, <2>1 DEF A!Client
<1>. QED
  BY <1>3, <1>4, <1>5, <1>6, <1>7

LEMMA MovesStep ==
  ASSUME SP!Inv, Types, Types', MovesOwnMoney, NEW own, Owners(own), [Next]_vars
  PROVE  MovesOwnMoney'
<1>1. ASSUME NEW c \in Clients, Serves(c) PROVE MovesOwnMoney'
  <2>1. CASE Working(c)
    <3>1. SUFFICES ASSUME pc' = "record" PROVE MovesOwnMoney'
      BY DEF MovesOwnMoney
    <3>2. ClientInv(own, c)
      BY DEF Owners
    <3>3. serving' = c /\ UNCHANGED <<atm, user, guessed>>
      BY <1>1, <2>1 DEF Working, Serves
    <3>4. job'.accnt = user[c] \/ (guessed /\ (atm[c].deaf \/ atm[c].at = "off"))
      BY <1>1, <2>1, <3>1, <3>2, RecordsOwn
    <3>. QED
      BY <3>3, <3>4 DEF MovesOwnMoney
  <2>2. CASE Answering(c)
    BY <2>2 DEF Answering, MovesOwnMoney
  <2>. QED
    BY <1>1, <2>1, <2>2 DEF Serves
<1>2. ASSUME NEW c \in Clients, Serve(c) PROVE MovesOwnMoney'
  BY <1>1, <1>2, ServeServes
<1>3. CASE GoOn
  BY <1>1, <1>3, GoOnServes
<1>4. ASSUME NEW c \in Clients,
             \/ Start(c) \/ Ask(c) \/ Exit(c) \/ Receive(c) \/ ReceiveDeaf(c)
             \/ Disconnected(c)
      PROVE  MovesOwnMoney'
  <2>1. SUFFICES ASSUME pc' = "record" PROVE MovesOwnMoney'
    BY DEF MovesOwnMoney
  <2>2. UNCHANGED <<pc, job, serving>>
    BY <1>4 DEF Start, Ask, Exit, Receive, ReceiveDeaf, Disconnected, server, loop
  <2>3. job.accnt = user[serving] \/ (guessed /\ (atm[serving].deaf \/ atm[serving].at = "off"))
    BY <2>1, <2>2 DEF MovesOwnMoney
  <2>4. serving \in Clients
    BY <2>1, <2>2 DEF Types, TypeOK
  <2>5. CASE serving = c
    <3>1. ClientInv(own, c) /\ pc = "record"
      BY <2>1, <2>2 DEF Owners
    <3>2. /\ user'[c] = user[c] /\ (guessed => guessed')
          /\ atm[c].deaf \/ atm[c].at = "off" => atm'[c].deaf \/ atm'[c].at = "off"
      BY <1>4, <2>5, <3>1, StaysWhileMoved
    <3>. QED
      BY <2>2, <2>3, <2>5, <3>2 DEF MovesOwnMoney
  <2>6. CASE serving # c
    <3>1. Alone(c)
      <4>1. CASE Receive(c)
        <5>1. OneAtATime(c)
          BY DEF Owners, ClientInv
        <5>2. PICK k \in Nat : Reads(c, Head(outbox[c]), k)
          BY <4>1, <5>1, ReceiveReads
        <5>. QED
          BY <5>2, ReadsAlone
      <4>2. CASE Exit(c) \/ Disconnected(c)
        <5>1. Ends(c)
          BY <4>2 DEF Exit, Disconnected, Ends, Types
        <5>. QED
          BY <5>1, ClientsAlone
      <4>. QED
        BY <1>4, <4>1, <4>2, ClientsAlone
    <3>2. Same(serving)
      BY <2>4, <2>6, <3>1 DEF Alone
    <3>3. /\ user'[serving] = user[serving] /\ atm'[serving] = atm[serving]
          /\ guessed => guessed'
      BY <3>2 DEF Same
    <3>. QED
      BY <2>2, <2>3, <3>3 DEF MovesOwnMoney
  <2>. QED
    BY <2>5, <2>6
<1>5. ASSUME NEW c \in Clients, Delete(c) PROVE MovesOwnMoney'
  BY <1>5 DEF Delete, server, MovesOwnMoney
<1>6. CASE EpollWait
  BY <1>6 DEF EpollWait, server, MovesOwnMoney
<1>7. CASE Restart
  BY <1>7 DEF Restart, S!Restart, S!Done, MovesOwnMoney
<1>8. CASE UNCHANGED vars
  BY <1>8 DEF vars, server, loop, history, MovesOwnMoney
<1>. QED
  BY <1>2, <1>3, <1>4, <1>5, <1>6, <1>7, <1>8 DEF Next

LEMMA SysInvInit == ASSUME Init PROVE SysInv
<1>1. SP!Init /\ SP!Inv /\ SP!Readable
  BY SameServer, ServerAssumptions, SP!InvInit, SP!ReadableInit DEF Init
<1>2. pc = "idle" /\ serving = NoClient
  BY <1>1 DEF Init, SP!Init
<1>3. ASSUME NEW c \in Clients
      PROVE  /\ atm[c] = A!Off /\ conn[c] = "none" /\ outbox[c] = <<>>
             /\ Load(c) = 0 /\ Held(c) = {}
  <2>1. serving # c
    BY <1>2, ClientsAssumption
  <2>2. inS[c] = <<>> /\ rq[c] = <<>> /\ atm[c] = A!Off /\ conn[c] = "none"
        /\ outbox[c] = <<>>
    BY DEF Init
  <2>. QED
    BY <2>1, <2>2, ElementsOfNone DEF Load, Held
<1>4. Types
  <2>1. <<>> \in Seq(Asked) /\ <<>> \in Seq(S!Requests) /\ <<>> \in Seq(Packet)
    OBVIOUS
  <2>2. TypeOK
    BY <1>2, <1>3, <2>1, OffIsClient DEF Init, TypeOK
  <2>3. A!NothingShown \in Showings
    BY DEF A!NothingShown, Showings
  <2>. QED
    BY <1>2, <1>3, <2>1, <2>2, <2>3 DEF Init, Types, Live, AskedTypes, Results
<1>5. PICK own \in [Clients -> SP!Cid \cup {NoCid}] : own = [c \in Clients |-> NoCid]
  <2>1. [c \in Clients |-> NoCid] \in [Clients -> SP!Cid \cup {NoCid}]
    OBVIOUS
  <2>. QED
    BY <2>1, Zenon
<1>6. ASSUME NEW c \in Clients PROVE ClientInv(own, c)
  <2>1. atm[c].at = "off" /\ own[c] = NoCid
    BY <1>3, <1>5, OffIsClient
  <2>. QED
    BY <1>3, <2>1
    DEF ClientInv, OneAtATime, Hears, Connects, Live, KnowsItsID, NamesItsID,
        SessionAsBelieved, SessionKept, ShowsTruth
<1>7. Owners(own)
  BY <1>5, <1>6 DEF Owners, Distinct
<1>8. MovesOwnMoney
  BY <1>2 DEF MovesOwnMoney
<1>. QED
  BY <1>1, <1>4, <1>7, <1>8 DEF SysInv

LEMMA SysInvStep == ASSUME SysInv, [Next]_vars PROVE SysInv'
<1>1. SP!Inv /\ SP!Readable /\ Types /\ MovesOwnMoney
  BY DEF SysInv
<1>2. PICK own \in [Clients -> SP!Cid \cup {NoCid}] : Owners(own)
  BY DEF SysInv
<1>3. SP!Inv' /\ SP!Readable'
  BY <1>1, ServerInvStep
<1>4. Types'
  BY <1>1, <1>2, <1>3, TypesStep
<1>5. MovesOwnMoney'
  BY <1>1, <1>2, <1>4, MovesStep
<1>6. \E new \in [Clients -> SP!Cid \cup {NoCid}] : Owners(new)'
  BY <1>1, <1>2, <1>3, <1>4, OwnersStep
<1>. QED
  BY <1>3, <1>4, <1>5, <1>6 DEF SysInv

LEMMA SysInvariance == Spec => []SysInv
<1>1. Init => SysInv
  BY SysInvInit
<1>2. SysInv /\ [Next]_vars => SysInv'
  BY SysInvStep
<1>. QED
  BY <1>1, <1>2, PTL DEF Spec

-----------------------------------------------------------------------------

\* The server behind any number of clients and connections behaves as the one that
\* CNProtoHandler describes, whatever the loop hands it: what is proved of that one,
\* money included, holds in the service.
THEOREM ServerIsTheHandler == Spec => SP!Spec
<1>1. Init => SP!Init
  BY SameServer DEF Init
<1>2. SysInv /\ [Next]_vars => [SP!Next]_(SP!vars)
  BY StepOfServer DEF SysInv
<1>. QED
  BY <1>1, <1>2, SysInvariance, PTL DEF Spec, SP!Spec

\* Clients, queues and the loop hold what they can hold, however many clients there
\* are (IOLoop.cpp, client.cpp).
THEOREM ServiceTypes == Spec => []TypeOK
<1>1. SysInv => TypeOK
  BY DEF SysInv, Types
<1>. QED
  BY <1>1, SysInvariance, PTL

LEMMA InStepHears ==
  ASSUME Types, NEW c \in Clients, NEW own, ClientInv(own, c), InStep(c)
  PROVE  /\ Hears(c) /\ own[c] # NoCid /\ atm[c].clientID = own[c]
         /\ Believes(c) = atm[c].logged_on
<1>1. Hears(c) /\ ~ Connecting(c) /\ ~ Strays(c)
  BY DEF InStep, Hears, Connecting, Strays
<1>. QED
  BY <1>1 DEF InStep, ClientInv, KnowsItsID, Believes

\* A client that has read every answer so far is logged on, to the account its user
\* typed in, exactly when it believes so; where somebody has asked under an ID that
\* was never read, it may have been logged on without asking (client.cpp:346, 329;
\* CNProtoHandler.cpp: ProcessLogOn and ProcessLogOff).
THEOREM BelievedSessions == Spec => []LoggedOnIsTrue
<1>1. ASSUME SysInv PROVE LoggedOnIsTrue
  <2>1. PICK own \in [Clients -> SP!Cid \cup {NoCid}] : Owners(own)
    BY <1>1 DEF SysInv
  <2>2. SUFFICES ASSUME NEW c \in Clients, InStep(c)
        PROVE  IF atm[c].logged_on
               THEN clients[atm[c].clientID] = [state |-> "CL_LOGON", accnt |-> user[c]]
               ELSE clients[atm[c].clientID].state = "CL_CONNECTED" \/ guessed
    BY DEF LoggedOnIsTrue
  <2>3. ClientInv(own, c) /\ Types
    BY <1>1, <2>1 DEF Owners, SysInv
  <2>4. /\ Hears(c) /\ own[c] # NoCid /\ atm[c].clientID = own[c]
        /\ Believes(c) = atm[c].logged_on
    BY <2>2, <2>3, InStepHears
  <2>. QED
    BY <2>2, <2>3, <2>4 DEF ClientInv, SessionAsBelieved, InStep
<1>. QED
  BY <1>1, SysInvariance, PTL

\* The server moves money only of the account that the user of the client typed in,
\* unless somebody asked under an ID that was never read and the client is deaf or
\* gone (CNProtoHandler.cpp: ProcessDeposit and ProcessWithdraw).
THEOREM OwnMoneyMoved == Spec => []MovesOwnMoney
<1>1. SysInv => MovesOwnMoney
  BY DEF SysInv
<1>. QED
  BY <1>1, SysInvariance, PTL

\* What a client shows for its last request is what the server reached for it, of a
\* success that is no withdrawal also when the client has gone deaf over the answer
\* (client.cpp: recvRsp).
THEOREM TruthShown == Spec => []ShownIsTrue
<1>1. ASSUME SysInv PROVE ShownIsTrue
  <2>1. PICK own \in [Clients -> SP!Cid \cup {NoCid}] : Owners(own)
    BY <1>1 DEF SysInv
  <2>2. ASSUME NEW c \in Clients PROVE ShowsTruth(c) /\ (InStep(c) => Hears(c))
    BY <2>1 DEF Owners, ClientInv, InStep, Hears
  <2>. QED
    BY <2>2 DEF ShowsTruth, ShownIsTrue
<1>. QED
  BY <1>1, SysInvariance, PTL

=============================================================================
