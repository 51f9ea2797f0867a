---------------------------- MODULE CNP_Protocol ----------------------------
(* What both programs know of a message (CNP_Protocol.h): its type, the       *)
(* result at the start of the body of every answer, and the lengths, with     *)
(* 8-byte DWORDs and the structures packed.  Request and response of one      *)
(* kind share a name.                                                         *)
EXTENDS Integers

MsgType == {"CONNECT", "CREATE_ACCOUNT", "LOGON", "LOGOFF", "DEPOSIT", "WITHDRAWAL",
            "BALANCE_QUERY", "TRANSACTION_QUERY", "INVALID"}
CER_TYPE == {"CER_SUCCESS", "CER_INVALID_CLIENTID", "CER_INVALID_NAME_PIN",
             "CER_CLIENT_NOT_LOGGEDON", "CER_INSUFFICIENT_FUNDS", "CER_ERROR"}
DEPOSIT_TYPE == {"cash", "check"}

\* sizeof.
HdrSize == 28
TransSize == 26
ResultSize == 8
BodySize(type) ==
  CASE type = "CONNECT" -> 14
    [] type = "CREATE_ACCOUNT" -> 16
    [] type = "BALANCE_QUERY" -> 24
    [] type = "TRANSACTION_QUERY" -> 36
    [] OTHER -> 8

=============================================================================
