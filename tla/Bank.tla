-------------------------------- MODULE Bank --------------------------------
(* What the ATM server promises to the people whose money it keeps: a         *)
(* movement that is answered with success happened once, in full, and stands  *)
(* in the account's record; one that is not may be lost half-way, and then    *)
(* its client was told so or got no answer.  This says nothing about how:     *)
(* there are no clients, sessions, statements or buffers here.                *)
EXTENDS Integers, Sequences

CONSTANTS
  AccntNo,   \* account numbers
  Amounts,   \* what is deposited and withdrawn, numbers
  Money      \* what a column of a balance row can hold, numbers too

VARIABLES
  balance,   \* the balance rows of every account
  records,   \* its recorded transactions, oldest first
  reply      \* the last answer: to what, and how it ended

vars == <<balance, records, reply>>

Movements == {"DEPOSIT", "WITHDRAWAL"}
NoReply == [type |-> "none", result |-> "none"]
Success(type) == [type |-> type, result |-> "CER_SUCCESS"]

Init ==
  /\ balance = [a \in AccntNo |-> {}]
  /\ records = [a \in AccntNo |-> <<>>]
  /\ reply = NoReply

SetColumn(rows, column, v) == {[r EXCEPT ![column] = v] : r \in rows}

\* The rows of an account after v was written to one of its columns.
Deposited(a, column, x) ==
  {SetColumn(balance[a], column, r[column] + x) :
     r \in {s \in balance[a] : s[column] + x \in Money}}
Withdrawn(a, x) ==
  {SetColumn(balance[a], "cash", r.cash - x) : r \in {s \in balance[a] : s.cash >= x}}

\* The possible outcomes of a movement: the new rows and the transaction record.
Deposits(a) ==
  UNION {[rows : Deposited(a, column, x),
          record : {[type |-> "TT_DEPOSIT", amount |-> x]}] :
           column \in {"cash", "check"}, x \in Amounts}
Withdrawals(a) ==
  UNION {[rows : Withdrawn(a, x), record : {[type |-> "TT_WITHDRAW", amount |-> x]}] :
           x \in Amounts}

\* A movement is answered with success when it is complete.
Complete(a, type, m) ==
  /\ balance' = [balance EXCEPT ![a] = m.rows]
  /\ records' = [records EXCEPT ![a] = Append(@, m.record)]
  /\ reply' = Success(type)

\* Otherwise the money may have moved all the same, recorded or not, but then no
\* success is reported.
Broken(a, m) ==
  /\ balance' = [balance EXCEPT ![a] = m.rows]
  /\ records' \in {records, [records EXCEPT ![a] = Append(@, m.record)]}
  /\ reply'.result # "CER_SUCCESS"

\* An account gets an empty balance row.
Open(a) ==
  /\ balance' = [balance EXCEPT ![a] = @ \cup {[cash |-> 0, check |-> 0]}]
  /\ UNCHANGED records
  /\ reply' # Success("DEPOSIT") /\ reply' # Success("WITHDRAWAL")

\* Any other request: it moves nothing, and is not taken for a movement.
Other ==
  /\ UNCHANGED <<balance, records>>
  /\ reply' # Success("DEPOSIT") /\ reply' # Success("WITHDRAWAL")

Next ==
  \/ \E a \in AccntNo : \E m \in Deposits(a) : Complete(a, "DEPOSIT", m) \/ Broken(a, m)
  \/ \E a \in AccntNo : \E m \in Withdrawals(a) : Complete(a, "WITHDRAWAL", m) \/ Broken(a, m)
  \/ \E a \in AccntNo : Open(a)
  \/ Other

Spec == Init /\ [][Next]_vars

=============================================================================
