-------------------------- MODULE MCCNProtoHandler --------------------------
(* CNProtoHandler on two accounts and two or three client IDs.  Each run      *)
(* narrows the requests clients send to those its question is about.          *)
EXTENDS CNProtoHandler, TLC

CONSTANTS a1, a2, p1, p2, s1
MCAccntNo == {a1, a2}
MCPins == {p1, p2}
OnePin == {p1}
OneSSN == {s1}
OneAccnt == {a1}

\* Accounts are interchangeable: no action names one.
Symmetry == Permutations(MCAccntNo)

AllTypes == {"CONNECT", "CREATE_ACCOUNT", "LOGON", "LOGOFF", "DEPOSIT", "WITHDRAWAL",
             "BALANCE_QUERY", "TRANSACTION_QUERY", "PURCHASE_STAMPS", "INVALID"}
MoneyTypes == {"CONNECT", "CREATE_ACCOUNT", "LOGON", "LOGOFF", "DEPOSIT", "WITHDRAWAL"}
LedgerTypes == {"CONNECT", "CREATE_ACCOUNT", "LOGON", "DEPOSIT", "WITHDRAWAL"}

=============================================================================
