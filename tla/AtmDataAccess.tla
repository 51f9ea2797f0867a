--------------------------- MODULE AtmDataAccess ---------------------------
(* The three tables behind AtmDataAccess and the statements it runs on them   *)
(* (AtmDataAccess.cpp, SQL/atm.sql).  Every statement is a transaction of its *)
(* own: startTransaction, commit and rollback exist and nobody calls them.    *)
(*                                                                            *)
(* A statement ends in one of three ways: "ok"; "refused", an SQLException    *)
(* with nothing executed; or "lost", executed and committed by the server,    *)
(* but the connection broke before the answer, which is an SQLException too.  *)
(* The connection is opened in the constructor only, so after it is lost      *)
(* every statement is refused until the process is started again.             *)
(*                                                                            *)
(* The operations are actions over the tables for CNProtoHandler to compose;  *)
(* the lookups are sets of the rows a SELECT without ORDER BY may put first.  *)
EXTENDS Integers, Sequences

CONSTANTS
  AccntNo,    \* AUTO_INCREMENT numbers of accnt_info
  NoRow,      \* no row in accnt_info
  Pins, SSNs, \* values of the columns pin and ssn
  Word,       \* BIGINT UNSIGNED and unsigned long long hold 0 .. Word - 1
  RecWord,    \* INT UNSIGNED and uint_ hold 0 .. RecWord - 1
  Faults      \* whether statements may fail

VARIABLES
  accnt_info,     \* PIN and SSN of every account
  accnt_balance,  \* the balance rows of every account: its INDEX is not unique
  trans_rec,      \* the recorded transactions of every account, oldest first
  link            \* _conn: whether the connection to the database works

tables == <<accnt_info, accnt_balance, trans_rec>>

-----------------------------------------------------------------------------

AccntInfo == [pin : Pins, ssn : SSNs]
\* No statement counts equal rows, so the rows of an account are a set.
AccntBalance == [cash : 0 .. Word - 1, check : 0 .. Word - 1]
TransRec == [type : {"TT_DEPOSIT", "TT_WITHDRAW"}, amount : 0 .. RecWord - 1]
ZeroBalance == [cash |-> 0, check |-> 0]

Init ==
  /\ accnt_info = [a \in AccntNo |-> NoRow]
  /\ accnt_balance = [a \in AccntNo |-> {}]
  /\ trans_rec = [a \in AccntNo |-> <<>>]
  /\ link = TRUE

\* The tables hold values of their columns' types.
TypeOK ==
  /\ accnt_info \in [AccntNo -> AccntInfo \cup {NoRow}]
  /\ accnt_balance \in [AccntNo -> SUBSET AccntBalance]
  /\ trans_rec \in [AccntNo -> Seq(TransRec)]
  /\ link \in BOOLEAN

-----------------------------------------------------------------------------
(* How statements end.                                                       *)

Outcomes ==
  IF ~ link THEN {"refused"} ELSE IF Faults THEN {"ok", "refused", "lost"} ELSE {"ok"}
Executed(o) == o \in {"ok", "lost"}
AfterOutcome(o) == link' = (link /\ o # "lost")

\* A SELECT that throws: the caller gets NULL.
SelectFails == \E o \in Outcomes \ {"ok"} : AfterOutcome(o) /\ UNCHANGED tables

-----------------------------------------------------------------------------
(* Lookups.                                                                  *)

\* getAccntByID(id, 1) takes the first row with that SSN; ssn is not unique.
AccntsBySSN(s) == {a \in AccntNo : accnt_info[a] # NoRow /\ accnt_info[a].ssn = s}

\* getRecentTransRec: LIMIT 0,n.
RecentCount(a, n) == IF n < Len(trans_rec[a]) THEN n ELSE Len(trans_rec[a])

-----------------------------------------------------------------------------
(* Updates, each one statement with outcome o.                               *)

\* INSERT INTO accnt_info: AUTO_INCREMENT gives a number never used before.
createAccnt(a, acc, o) ==
  /\ accnt_info[a] = NoRow
  /\ accnt_info' = IF Executed(o) THEN [accnt_info EXCEPT ![a] = acc] ELSE accnt_info
  /\ AfterOutcome(o)
  /\ UNCHANGED <<accnt_balance, trans_rec>>

\* INSERT INTO accnt_balance.
createBalanceRec(a, o) ==
  /\ accnt_balance' = IF Executed(o)
                      THEN [accnt_balance EXCEPT ![a] = @ \cup {ZeroBalance}]
                      ELSE accnt_balance
  /\ AfterOutcome(o)
  /\ UNCHANGED <<accnt_info, trans_rec>>

SetColumn(rows, column, v) ==
  {IF column = "cash" THEN [r EXCEPT !.cash = v] ELSE [r EXCEPT !.check = v] : r \in rows}

\* A variant without the WHERE clause.
updateAllBalances(a, v, column, o) ==
  /\ accnt_balance' = IF Executed(o)
                      THEN [b \in AccntNo |-> SetColumn(accnt_balance[b], column, v)]
                      ELSE accnt_balance
  /\ AfterOutcome(o)
  /\ UNCHANGED <<accnt_info, trans_rec>>

\* UPDATE accnt_balance SET ... WHERE accnt_no=?: every row of the account.
updateAccntBalance(a, v, column, o) ==
  /\ accnt_balance' = IF Executed(o)
                      THEN [accnt_balance EXCEPT ![a] = SetColumn(@, column, v)]
                      ELSE accnt_balance
  /\ AfterOutcome(o)
  /\ UNCHANGED <<accnt_info, trans_rec>>

\* A variant whose caller does not look at the result.
UpdateAssumed(a, v, column, o) == TRUE

\* What updateAccntBalance returns: executeUpdate counts the rows it changed, so
\* writing the value that is already there is reported as a failure.
UpdateReported(a, v, column, o) ==
  /\ o = "ok"
  /\ \E r \in accnt_balance[a] : r[column] # v

\* A variant that records every movement as a deposit.
addDepositRec(a, type, amount, o) ==
  /\ trans_rec' = IF Executed(o)
                  THEN [trans_rec EXCEPT
                          ![a] = Append(@, [type |-> "TT_DEPOSIT", amount |-> amount % RecWord])]
                  ELSE trans_rec
  /\ AfterOutcome(o)
  /\ UNCHANGED <<accnt_info, accnt_balance>>

\* INSERT INTO trans_rec; the amount was narrowed to uint_ on the way in.
addTransRec(a, type, amount, o) ==
  /\ trans_rec' = IF Executed(o)
                  THEN [trans_rec EXCEPT
                          ![a] = Append(@, [type |-> type, amount |-> amount % RecWord])]
                  ELSE trans_rec
  /\ AfterOutcome(o)
  /\ UNCHANGED <<accnt_info, accnt_balance>>

=============================================================================
