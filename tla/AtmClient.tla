------------------------------ MODULE AtmClient ------------------------------
(* One ATM client (client.cpp): what its menus let it ask, and what it shows  *)
(* and remembers of an answer.  It keeps two globals, logged_on and clientID, *)
(* and the stream of its socket.  There are no variables here: a client is a  *)
(* record that AtmSystem keeps for every process.                             *)
(*                                                                            *)
(* recvRsp reads an answer into an _uResponse whose constructors have set the *)
(* result to CER_ERROR and the client ID to INVALID_CLIENT_ID, and goes on to *)
(* the switch also when the body was short: fields that did not arrive keep   *)
(* those values.  The short read leaves failbit set: the client is deaf.      *)
EXTENDS CNP_Protocol

CONSTANTS
  AccntNo, Pins, SSNs,  \* what is typed in: account numbers, PINs and SSNs,
  Amounts, Counts,      \* amounts in cents, and numbers of transactions
  Cid,                  \* cid_t
  INVALID_CLIENT_ID     \* (~0) in a WORD

\* "off": no process; "menu": waiting for its user; "waiting": in recv.
Client == [at : {"off", "menu", "waiting"}, logged_on : BOOLEAN, clientID : Cid,
           deaf : BOOLEAN]
Off == [at |-> "off", logged_on |-> FALSE, clientID |-> 0, deaf |-> FALSE]

-----------------------------------------------------------------------------
(* Asking.                                                                   *)

sendLogonReq(cl) == [type : {"LOGON"}, cid : {cl.clientID}, pan : AccntNo, pin : Pins]
\* Of SSN and driver license, both asked for, the last one typed in is sent as the
\* SSN, and 0 for none.
sendCreatAccntReq == [type : {"CREATE_ACCOUNT"}, pin : Pins, ssn : SSNs]
\* An amount is what is left of amt * 100 without its fraction: 0 is possible.
sendWithdrawReq(cl) == [type : {"WITHDRAWAL"}, cid : {cl.clientID}, amount : Amounts]
sendDepositReq(cl) ==
  [type : {"DEPOSIT"}, cid : {cl.clientID}, amount : Amounts, kind : DEPOSIT_TYPE]
sendBalQueryReq(cl) == [type : {"BALANCE_QUERY"}, cid : {cl.clientID}]
sendTransQueryReq(cl) ==
  [type : {"TRANSACTION_QUERY"}, cid : {cl.clientID}, count : Counts]
sendLogOffReq(cl) == [type : {"LOGOFF"}, cid : {cl.clientID}]

level1_menu(cl) == sendLogonReq(cl) \cup sendCreatAccntReq
level2_menu(cl) ==
  UNION {sendWithdrawReq(cl), sendDepositReq(cl), sendBalQueryReq(cl),
         sendTransQueryReq(cl), sendLogOffReq(cl)}

\* main's loop.
Choices(cl) == IF cl.logged_on THEN level2_menu(cl) ELSE level1_menu(cl)

-----------------------------------------------------------------------------
(* Reading the first k bytes of a message, which are all that is there.       *)

\* A result of which some bytes arrived, the others still those of CER_ERROR, is
\* no result that anybody knows.
ResultRead(msg, k) ==
  IF k >= HdrSize + ResultSize THEN msg.result
  ELSE IF k = HdrSize \/ msg.result = "CER_ERROR" THEN "CER_ERROR"
  ELSE "torn"

\* A cut between the two bytes of the ID is like one before them: an ID that is not
\* the client's own.
IdRead(msg, k) ==
  IF k >= HdrSize + BodySize("CONNECT") THEN msg.info ELSE INVALID_CLIENT_ID

\* What the switch prints: whether a request succeeded.  Of a withdrawal it knows
\* two results, and takes any other for a success.
Says(type, result) ==
  CASE type = "INVALID" -> "failed"
    [] type = "WITHDRAWAL" ->
         IF result \in {"CER_INSUFFICIENT_FUNDS", "CER_ERROR"} THEN "failed" ELSE "success"
    [] OTHER -> IF result = "CER_SUCCESS" THEN "success" ELSE "failed"

\* Without a header there is nothing to show: "Invalid Message Received!".
NothingShown == [type |-> "none", says |-> "nothing"]
InvalidShown == [type |-> "none", says |-> "invalid"]
Shown(msg, k) ==
  IF k < HdrSize THEN InvalidShown
  ELSE [type |-> msg.type, says |-> Says(msg.type, ResultRead(msg, k))]

\* A variant whose stream is good again after a short read.
HearsAlways(cl, msg, k) == [cl EXCEPT !.at = "menu"]

\* recv has returned with less than the header and as much body as it announces.
Hears(cl, msg, k) == [cl EXCEPT !.at = "menu", !.deaf = k < HdrSize + msg.len]

\* recvRsp as a whole.  A refused CONNECT ends the process.
recvRsp(cl, msg, k) ==
  LET heard == Hears(cl, msg, k)
      success == k >= HdrSize /\ ResultRead(msg, k) = "CER_SUCCESS" IN
  CASE k >= HdrSize /\ msg.type = "CONNECT" ->
         IF success THEN [heard EXCEPT !.clientID = IdRead(msg, k)] ELSE Off
    [] success /\ msg.type = "LOGON" -> [heard EXCEPT !.logged_on = TRUE]
    [] success /\ msg.type = "LOGOFF" -> [heard EXCEPT !.logged_on = FALSE]
    [] OTHER -> heard

=============================================================================
