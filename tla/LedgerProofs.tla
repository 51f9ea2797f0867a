----------------------------- MODULE LedgerProofs -----------------------------
(* The books of the server: what the recorded transactions of an account add  *)
(* up to, that its balance is that sum, and that the server keeps the         *)
(* promises of Bank, for all accounts, amounts and failures.                  *)
(*                                                                            *)
(* A sum is a recursive function.  What it computes is proved without an      *)
(* induction theorem, from the least number for which it would fail.          *)
EXTENDS CNProtoHandlerProofs, WellFoundedInduction

-----------------------------------------------------------------------------
(* Sums.                                                                     *)

\* A set of naturals that is not empty has a least member.
LEMMA LeastNatural ==
  ASSUME NEW T, T \subseteq Nat, T # {}
  PROVE  \E x \in T : \A y \in T : x <= y
<1>1. \E x \in T : \A y \in T : ~ <<y, x>> \in OpToRel(<, Nat)
  BY WFMin, NatLessThanWellFounded, Zenon
<1>2. PICK x \in T : \A y \in T : ~ <<y, x>> \in OpToRel(<, Nat)
  BY <1>1
<1>3. \A y \in T : ~ (y < x)
  BY <1>2 DEF OpToRel
<1>. QED
  BY <1>3

\* f holds the sums of the first terms of x, up to the m-th.
AreSums(f, x, m) == f = [n \in 0 .. m |-> IF n = 0 THEN 0 ELSE f[n - 1] + x[n]]

\* There is such a function.
LEMMA SumsExist ==
  ASSUME NEW m \in Nat, NEW x \in [1 .. m -> Int]
  PROVE  \E f \in [0 .. m -> Int] : AreSums(f, x, m)
<1>. DEFINE T == {k \in 0 .. m : ~ \E f \in [0 .. k -> Int] : AreSums(f, x, k)}
<1>1. ASSUME T # {} PROVE FALSE
  <2>0. T \subseteq Nat
    OBVIOUS
  <2>1. PICK k \in T : \A j \in T : k <= j
    BY <1>1, <2>0, LeastNatural
  <2>2. k # 0
    <3>. DEFINE f == [n \in 0 .. 0 |-> 0]
    <3>1. f \in [0 .. 0 -> Int] /\ AreSums(f, x, 0)
      BY DEF AreSums
    <3>. QED
      BY <3>1
  <2>3. PICK f \in [0 .. k - 1 -> Int] : AreSums(f, x, k - 1)
    <3>1. k - 1 \in 0 .. m /\ k - 1 \notin T
      BY <2>1, <2>2
    <3>. QED
      BY <3>1
  <2>. DEFINE g == [n \in 0 .. k |-> IF n = k THEN f[k - 1] + x[k] ELSE f[n]]
  <2>4. g \in [0 .. k -> Int]
    BY <2>2, <2>3
  <2>5. ASSUME NEW n \in 0 .. k
        PROVE  g[n] = IF n = 0 THEN 0 ELSE g[n - 1] + x[n]
    BY <2>2, <2>3 DEF AreSums
  <2>6. AreSums(g, x, k)
    BY <2>4, <2>5 DEF AreSums
  <2>. QED
    BY <2>4, <2>6
<1>. QED
  BY <1>1

Agree(x, y, m) == \A n \in 1 .. m : x[n] = y[n]

\* Sums of the same terms are the same.
LEMMA SumsAgree ==
  ASSUME NEW m \in Nat, NEW p \in Nat, m <= p,
         NEW x, NEW y, Agree(x, y, m),
         NEW f, NEW g, AreSums(f, x, m), AreSums(g, y, p)
  PROVE  f[m] = g[m]
<1>. DEFINE T == {k \in 0 .. m : f[k] # g[k]}
<1>1. ASSUME T # {} PROVE FALSE
  <2>0. T \subseteq Nat
    OBVIOUS
  <2>1. PICK k \in T : \A j \in T : k <= j
    BY <1>1, <2>0, LeastNatural
  <2>2. f[k] = (IF k = 0 THEN 0 ELSE f[k - 1] + x[k])
        /\ g[k] = (IF k = 0 THEN 0 ELSE g[k - 1] + y[k])
    BY DEF AreSums
  <2>3. k # 0 => f[k - 1] = g[k - 1]
    BY <2>1
  <2>. QED
    BY <2>2, <2>3 DEF Agree
<1>. QED
  BY <1>1

\* One more term is added to the sum of those before it.
LEMMA SumsExtend ==
  ASSUME NEW m \in Nat, NEW x, NEW y, Agree(x, y, m),
         NEW f, NEW g, AreSums(f, x, m), AreSums(g, y, m + 1)
  PROVE  g[m + 1] = f[m] + y[m + 1]
<1>1. m + 1 \in Nat /\ m <= m + 1
  OBVIOUS
<1>2. f[m] = g[m]
  BY <1>1, SumsAgree
<1>3. g[m + 1] = g[m] + y[m + 1]
  BY DEF AreSums
<1>. QED
  BY <1>2, <1>3

\* Net is such a sum.
Terms(s) == [n \in 1 .. Len(s) |-> Signed(s[n])]

LEMMA TermsType ==
  ASSUME NEW s \in Seq(DA!TransRec)
  PROVE  Terms(s) \in [1 .. Len(s) -> Int]
<1>1. ASSUME NEW n \in 1 .. Len(s) PROVE Signed(s[n]) \in Int
  <2>1. s[n] \in DA!TransRec
    OBVIOUS
  <2>2. s[n].amount \in Int
    BY <2>1, TablesAssumption DEF DA!TransRec
  <2>. QED
    BY <2>2 DEF Signed
<1>. QED
  BY <1>1 DEF Terms

LEMMA NetIsSum ==
  ASSUME NEW s \in Seq(DA!TransRec)
  PROVE  \E f \in [0 .. Len(s) -> Int] : AreSums(f, Terms(s), Len(s)) /\ Net(s) = f[Len(s)]
<1>. DEFINE Is(f) == f = [n \in 0 .. Len(s) |->
                            IF n = 0 THEN 0 ELSE f[n - 1] + Signed(s[n])]
            sum == CHOOSE f : Is(f)
<1>1. Net(s) = sum[Len(s)]
  BY DEF Net
<1>2. Len(s) \in Nat /\ Terms(s) \in [1 .. Len(s) -> Int]
  BY TermsType
<1>3. ASSUME NEW f PROVE Is(f) <=> AreSums(f, Terms(s), Len(s))
  <2>1. \A n \in 0 .. Len(s) : n # 0 => Terms(s)[n] = Signed(s[n])
    BY DEF Terms
  <2>. QED
    BY <1>2, <2>1 DEF AreSums
<1>4. PICK f \in [0 .. Len(s) -> Int] : AreSums(f, Terms(s), Len(s))
  BY <1>2, SumsExist
<1>5. Is(f)
  BY <1>3, <1>4
<1>. HIDE DEF Is
<1>6. Is(sum)
  BY <1>5
<1>7. AreSums(sum, Terms(s), Len(s))
  BY <1>3, <1>6
<1>8. sum[Len(s)] = f[Len(s)]
  BY <1>2, <1>4, <1>7, SumsAgree DEF Agree
<1>. QED
  BY <1>1, <1>4, <1>8

\* The sum of no records is 0, and a record adds its amount.
LEMMA NetOfNone == Net(<<>>) = 0
<1>1. PICK f \in [0 .. Len(<<>>) -> Int] :
        AreSums(f, Terms(<<>>), Len(<<>>)) /\ Net(<<>>) = f[Len(<<>>)]
  <2>1. <<>> \in Seq(DA!TransRec)
    OBVIOUS
  <2>. QED
    BY <2>1, NetIsSum
<1>. QED
  BY <1>1 DEF AreSums

LEMMA NetOfAppend ==
  ASSUME NEW s \in Seq(DA!TransRec), NEW t \in DA!TransRec
  PROVE  Net(s) \in Int /\ Net(Append(s, t)) = Net(s) + Signed(t)
<1>. DEFINE m == Len(s)
            r == Append(s, t)
<1>0. r \in Seq(DA!TransRec) /\ m \in Nat /\ Len(r) = m + 1 /\ r[m + 1] = t
      /\ \A n \in 1 .. m : r[n] = s[n]
  OBVIOUS
<1>1. PICK f : f \in [0 .. m -> Int] /\ AreSums(f, Terms(s), m) /\ Net(s) = f[m]
  BY NetIsSum
<1>2. PICK g : /\ g \in [0 .. m + 1 -> Int] /\ AreSums(g, Terms(r), m + 1)
               /\ Net(r) = g[m + 1]
  BY <1>0, NetIsSum
<1>3. AreSums(f, Terms(s), m) /\ AreSums(g, Terms(r), m + 1)
  BY <1>1, <1>2
<1>4. Agree(Terms(s), Terms(r), m)
  BY <1>0 DEF Terms, Agree
<1>5. Terms(r)[m + 1] = Signed(t)
  BY <1>0 DEF Terms
<1>6. f[m] \in Int /\ m \in Nat
  BY <1>0, <1>1
<1>. HIDE DEF r, m
<1>7. g[m + 1] = f[m] + Terms(r)[m + 1]
  BY <1>3, <1>4, <1>6, SumsExtend
<1>. QED
  BY <1>1, <1>2, <1>5, <1>6, <1>7 DEF r

-----------------------------------------------------------------------------
(* The steps of the server as the books see them.                            *)

\* What a DWORD of 32 bits and balances far from the end of their columns give: an
\* amount fits into a record, a difference that falls short of 0 looks negative, and
\* no deposit wraps.
RecordedAmounts ==
  \A x \in Amounts : x < RecWord /\ 2 * x <= Word /\ MaxMoney + x < Word

\* Then no balance gets beyond what deposits may lead to.
Bounded == \A a \in AccntNo : \A r \in accnt_balance[a] : r.cash <= MaxMoney /\ r.check <= MaxMoney

\* A balance is withdrawn from only if it covers the amount.
LEMMA WithdrawalCovered ==
  ASSUME RecordedAmounts, NEW x \in Amounts, NEW cash \in 0 .. Word - 1,
         NonNegative(Minus(cash, x))
  PROVE  Minus(cash, x) = cash - x
  BY TablesAssumption, AmountsAssumption DEF RecordedAmounts, NonNegative, Minus

\* A balance within the bound is added to without wrapping.
LEMMA DepositFits ==
  ASSUME RecordedAmounts, NEW x \in Amounts, NEW bal \in 0 .. Word - 1, bal <= MaxMoney
  PROVE  Plus(bal, x) = bal + x
  BY AmountsAssumption, BoundsAssumption, TablesAssumption DEF RecordedAmounts, Plus

LEMMA SetColumnBounded ==
  ASSUME NEW rows \in SUBSET DA!AccntBalance, NEW column \in {"cash", "check"}, NEW v,
         v <= MaxMoney, \A r \in rows : r.cash <= MaxMoney /\ r.check <= MaxMoney,
         NEW s \in DA!SetColumn(rows, column, v)
  PROVE  s.cash <= MaxMoney /\ s.check <= MaxMoney
<1>1. PICK r \in rows :
        s = IF column = "cash" THEN [r EXCEPT !.cash = v] ELSE [r EXCEPT !.check = v]
  BY DEF DA!SetColumn
<1>2. r \in DA!AccntBalance
  OBVIOUS
<1>. QED
  BY <1>1, <1>2 DEF DA!AccntBalance

LEMMA MoveBounded ==
  ASSUME TypeOK, Bounded, NEW req, AccntOf(req) \in AccntNo,
         NEW column \in {"cash", "check"}, NEW v, v <= MaxMoney, Move(req, v, column)
  PROVE  Bounded'
<1>. DEFINE a == AccntOf(req)
<1>1. \/ accnt_balance' = accnt_balance
      \/ accnt_balance' = [accnt_balance EXCEPT ![a] = DA!SetColumn(@, column, v)]
  BY DEF Move, DA!updateAccntBalance
<1>2. accnt_balance \in [AccntNo -> SUBSET DA!AccntBalance]
  BY DEF TypeOK, DA!TypeOK
<1>3. \A s \in DA!SetColumn(accnt_balance[a], column, v) : s.cash <= MaxMoney /\ s.check <= MaxMoney
  BY <1>2, SetColumnBounded DEF Bounded
<1>. HIDE DEF a
<1>. QED
  BY <1>1, <1>2, <1>3 DEF Bounded

\* rows are the rows saved after the movement req asks for.
Moved(req, saved, rows) ==
  \E r \in saved :
    \/ /\ req.type = "DEPOSIT" /\ r[req.kind] + req.amount <= MaxMoney
       /\ rows = DA!SetColumn(saved, req.kind, r[req.kind] + req.amount)
    \/ /\ req.type = "WITHDRAWAL" /\ req.amount <= r.cash
       /\ rows = DA!SetColumn(saved, "cash", r.cash - req.amount)

\* The record of the movement req asks for.
RecordOf(req) ==
  [type |-> IF req.type = "DEPOSIT" THEN "TT_DEPOSIT" ELSE "TT_WITHDRAW",
   amount |-> req.amount]

\* Between its two statements a movement is half done: the balance is the saved
\* one with exactly the amount moved.
HalfDone == pc = "record" => Moved(job.req, job.saved, accnt_balance[job.accnt])

\* The last answer is not read as the success of a movement.
NoMovementTold == Told \notin {B!Success("DEPOSIT"), B!Success("WITHDRAWAL")}

\* What a step may do to the balances and the records, seen from outside.
Quiet == /\ UNCHANGED <<BankBalance, trans_rec>>
         /\ NoMovementTold' \/ UNCHANGED wire
Opens(a) ==
  /\ BankBalance' = [BankBalance EXCEPT ![a] = @ \cup {DA!ZeroBalance}]
  /\ trans_rec' = trans_rec
  /\ a \in disturbed' \/ BankBalance[a] \subseteq {DA!ZeroBalance}
  /\ NoMovementTold'
Books(a, req) ==
  /\ Moved(req, BankBalance[a], BankBalance'[a])
  /\ BankBalance' = [BankBalance EXCEPT ![a] = BankBalance'[a]]
  /\ \/ /\ trans_rec' = [trans_rec EXCEPT ![a] = Append(@, RecordOf(req))]
        /\ Told' = B!Success(req.type) \/ Told'.result # "CER_SUCCESS"
     \/ /\ trans_rec' = trans_rec /\ a \in disturbed'
        /\ Told'.result # "CER_SUCCESS"
MovementRequest == DepositRequest \cup WithdrawalRequest
BooksStep ==
  /\ disturbed \subseteq disturbed'
  /\ \/ Quiet
     \/ \E a \in AccntNo : Opens(a)
     \/ \E a \in AccntNo, req \in MovementRequest : Books(a, req)

\* Except between the two statements of a movement the balances are those of the
\* tables.
LEMMA BankIsTables ==
  ASSUME DA!TypeOK, pc # "record"
  PROVE  BankBalance = accnt_balance
  BY DEF BankBalance, DA!TypeOK

LEMMA BankWhilePending ==
  ASSUME DA!TypeOK, pc = "record", job.accnt \in AccntNo
  PROVE  /\ BankBalance[job.accnt] = job.saved
         /\ accnt_balance = [BankBalance EXCEPT ![job.accnt] = accnt_balance[job.accnt]]
  BY DEF BankBalance, DA!TypeOK

\* What a client reads of an answer, and of one sent from wherever _buff points.
LEMMA AnswerTold ==
  ASSUME BuffersOK, NEW req \in Requests, req.type \in MsgType,
         NEW result \in CER_TYPE, NEW info \in Info, Answer(req, result, info)
  PROVE  Told' = [type |-> req.type, result |-> result]
<1>1. BodySize(req.type) \in Nat /\ BodySize(req.type) >= ResultSize
  BY BodySizes
<1>2. response' \in Message /\ response'.type = req.type /\ response'.result = result
  BY <1>1 DEF Answer, Filled, BuffersOK, Message
<1>3. /\ wire'.msg = response' /\ wire'.size = HdrSize + BodySize(req.type)
  BY DEF Answer, Send
<1>4. response' # NoMsg
  BY <1>2 DEF NoMsg, MsgType
<1>. QED
  BY <1>1, <1>2, <1>3, <1>4 DEF Told, HdrSize, ResultSize

LEMMA AnswerUnpointedTold ==
  ASSUME BuffersOK, NEW req, NEW type \in MsgType,
         NEW result \in CER_TYPE \ {"CER_SUCCESS"}, AnswerUnpointed(type, req, result)
  PROVE  NoMovementTold'
<1>1. response'.result = result
  BY DEF AnswerUnpointed, Filled, BuffersOK, Message
<1>2. wire'.msg = CASE buff = "NULL" -> NoMsg
                    [] buff = "_response" -> response'
                    [] buff = "_dyn_buff" -> dyn
  BY DEF AnswerUnpointed, Send
<1>3. wire'.msg # NoMsg
        => wire'.msg.type = "TRANSACTION_QUERY" \/ wire'.msg.result # "CER_SUCCESS"
  BY <1>1, <1>2 DEF BuffersOK
<1>. QED
  BY <1>3 DEF Told, NoMovementTold, B!Success

\* The two ways an idle handler of a movement ends after its UPDATE.
LEMMA MoveBooks ==
  ASSUME TypeOK, BuffersOK, pc = "idle", NEW req \in MovementRequest,
         AccntOf(req) \in AccntNo, NEW column \in {"cash", "check"}, NEW v,
         Moved(req, accnt_balance[AccntOf(req)],
               DA!SetColumn(accnt_balance[AccntOf(req)], column, v)),
         Move(req, v, column)
  PROVE  BooksStep /\ HalfDone'
<1>. DEFINE a == AccntOf(req)
            rows == DA!SetColumn(accnt_balance[a], column, v)
<1>0. /\ req \in Requests /\ req.type \in {"DEPOSIT", "WITHDRAWAL"} /\ req.type \in MsgType
      /\ "CER_ERROR" \in CER_TYPE /\ NoInfo \in Info
  BY DEF MovementRequest, DepositRequest, WithdrawalRequest, Requests, MsgType, CER_TYPE, Info
<1>1. PICK o \in DA!Outcomes :
        /\ DA!updateAccntBalance(a, v, column, o)
        /\ IF DA!UpdateReported(a, v, column, o)
           THEN /\ Continue("record", [req |-> req, accnt |-> a, saved |-> accnt_balance[a]])
                /\ UNCHANGED disturbed
           ELSE /\ Answer(req, "CER_ERROR", NoInfo)
                /\ disturbed' = IF accnt_balance' = accnt_balance THEN disturbed
                                                                  ELSE disturbed \cup {a}
                /\ Done
  BY DEF Move
<1>2. /\ trans_rec' = trans_rec
      /\ accnt_balance' \in {accnt_balance, [accnt_balance EXCEPT ![a] = rows]}
      /\ o = "ok" => accnt_balance' = [accnt_balance EXCEPT ![a] = rows]
  BY <1>1 DEF DA!updateAccntBalance, DA!Executed
<1>3. accnt_balance \in [AccntNo -> SUBSET DA!AccntBalance]
  BY DEF TypeOK, DA!TypeOK
<1>4. BankBalance = accnt_balance
  BY BankIsTables DEF TypeOK
<1>5. Moved(req, accnt_balance[a], rows)
  OBVIOUS
<1>. HIDE DEF a, rows
<1>6. CASE DA!UpdateReported(a, v, column, o)
  <2>1. /\ pc' = "record" /\ job' = [req |-> req, accnt |-> a, saved |-> accnt_balance[a]]
        /\ wire' = wire /\ disturbed' = disturbed
    BY <1>1, <1>6 DEF Continue
  <2>2. accnt_balance' = [accnt_balance EXCEPT ![a] = rows]
    BY <1>2, <1>6 DEF DA!UpdateReported
  <2>3. a \in AccntNo
    BY DEF a
  <2>4. job'.accnt = a /\ job'.saved = accnt_balance[a] /\ job'.req = req
    BY <2>1
  <2>5. BankBalance' = [b \in AccntNo |-> IF b = a THEN accnt_balance[a] ELSE accnt_balance'[b]]
    BY <2>1, <2>4 DEF BankBalance
  <2>6. BankBalance' = accnt_balance
    BY <1>3, <2>2, <2>3, <2>5
  <2>7. accnt_balance'[a] = rows
    BY <1>3, <2>2, <2>3
  <2>8. HalfDone'
    BY <1>5, <2>4, <2>7 DEF HalfDone
  <2>. QED
    BY <1>2, <1>4, <2>1, <2>6, <2>8 DEF BooksStep, Quiet
<1>7. CASE ~ DA!UpdateReported(a, v, column, o)
  <2>1. /\ pc' = "idle" /\ Answer(req, "CER_ERROR", NoInfo)
        /\ disturbed' = IF accnt_balance' = accnt_balance THEN disturbed
                                                          ELSE disturbed \cup {a}
    BY <1>1, <1>7 DEF Done
  <2>2. Told' = [type |-> req.type, result |-> "CER_ERROR"]
    BY <1>0, <2>1, AnswerTold
  <2>3. BankBalance' = accnt_balance'
    BY <1>2, <1>3, <2>1 DEF BankBalance
  <2>4. HalfDone'
    BY <2>1 DEF HalfDone
  <2>5. CASE accnt_balance' = accnt_balance
    BY <1>2, <1>4, <2>1, <2>2, <2>3, <2>4, <2>5
    DEF BooksStep, Quiet, NoMovementTold, B!Success
  <2>6. CASE accnt_balance' # accnt_balance
    <3>1. a \in AccntNo
      BY DEF a
    <3>2. BankBalance' = [BankBalance EXCEPT ![a] = rows]
      BY <1>2, <1>4, <2>3, <2>6
    <3>3. BankBalance'[a] = rows
      BY <1>3, <1>4, <3>1, <3>2
    <3>4. Moved(req, BankBalance[a], BankBalance'[a])
      BY <1>4, <1>5, <3>3
    <3>5. Books(a, req)
      BY <1>2, <2>1, <2>2, <2>6, <3>2, <3>3, <3>4 DEF Books
    <3>. QED
      BY <2>1, <2>4, <3>1, <3>5 DEF BooksStep
  <2>. QED
    BY <2>5, <2>6
<1>. QED
  BY <1>6, <1>7

\* Such an amount is recorded as it is.
LEMMA FitsRecord ==
  ASSUME RecordedAmounts, NEW x \in Amounts
  PROVE  x \in 0 .. RecWord - 1 /\ x % RecWord = x
<1>1. x \in Nat /\ x < RecWord /\ RecWord \in Nat \ {0}
  BY AmountsAssumption, TablesAssumption DEF RecordedAmounts
<1>. QED
  BY <1>1

\* A movement is done with its record, or broken without it.
LEMMA RecordBooks ==
  ASSUME RecordedAmounts, TypeOK, BuffersOK, HalfDone, Record
  PROVE  BooksStep /\ HalfDone'
<1>. DEFINE a == job.accnt
            req == job.req
<1>1. /\ pc = "record" /\ a \in AccntNo /\ req \in MovementRequest
      /\ req \in Requests /\ req.type \in {"DEPOSIT", "WITHDRAWAL"} /\ req.type \in MsgType
      /\ req.amount \in Amounts
      /\ {"CER_ERROR", "CER_SUCCESS"} \subseteq CER_TYPE /\ NoInfo \in Info
  BY DEF Record, TypeOK, JobOK, MovementRequest, DepositRequest, WithdrawalRequest,
         Requests, MsgType, CER_TYPE, Info
<1>2. req.amount % RecWord = req.amount
  <2>1. req.amount \in Amounts
    BY <1>1
  <2>. HIDE DEF req
  <2>. QED
    BY <2>1, FitsRecord
<1>3. PICK o \in DA!Outcomes :
        /\ DA!addTransRec(a, IF req.type = "DEPOSIT" THEN "TT_DEPOSIT" ELSE "TT_WITHDRAW",
                          req.amount, o)
        /\ Answer(req, IF o = "ok" THEN "CER_SUCCESS" ELSE "CER_ERROR", NoInfo)
        /\ disturbed' = IF DA!Executed(o) THEN disturbed ELSE disturbed \cup {a}
  BY DEF Record
<1>4. /\ accnt_balance' = accnt_balance /\ pc' = "idle"
      /\ trans_rec' = IF DA!Executed(o)
                      THEN [trans_rec EXCEPT ![a] = Append(@, RecordOf(req))]
                      ELSE trans_rec
  BY <1>2, <1>3 DEF DA!addTransRec, RecordOf, Record, Done
<1>5. Told' = [type |-> req.type, result |-> IF o = "ok" THEN "CER_SUCCESS" ELSE "CER_ERROR"]
  BY <1>1, <1>3, AnswerTold
<1>6. /\ accnt_balance \in [AccntNo -> SUBSET DA!AccntBalance]
      /\ Moved(req, job.saved, accnt_balance[a])
  BY <1>1 DEF TypeOK, DA!TypeOK, HalfDone
<1>7. /\ BankBalance[a] = job.saved
      /\ accnt_balance = [BankBalance EXCEPT ![a] = accnt_balance[a]]
  BY <1>1, BankWhilePending DEF TypeOK
<1>8. BankBalance' = accnt_balance
  BY <1>4, <1>6 DEF BankBalance
<1>. HIDE DEF a, req
<1>9. /\ Moved(req, BankBalance[a], BankBalance'[a])
      /\ BankBalance' = [BankBalance EXCEPT ![a] = BankBalance'[a]]
  BY <1>6, <1>7, <1>8
<1>10. Books(a, req)
  BY <1>3, <1>4, <1>5, <1>9 DEF Books, B!Success, DA!Executed
<1>11. disturbed \subseteq disturbed'
  BY <1>3
<1>. QED
  BY <1>1, <1>4, <1>10, <1>11 DEF BooksStep, HalfDone

\* A death between the two statements breaks the movement, any other is unnoticed.
LEMMA RestartBooks ==
  ASSUME TypeOK, HalfDone, Restart
  PROVE  BooksStep /\ HalfDone'
<1>1. /\ accnt_balance' = accnt_balance /\ trans_rec' = trans_rec /\ pc' = "idle"
      /\ disturbed' = IF pc = "record" THEN disturbed \cup {job.accnt} ELSE disturbed
  BY DEF Restart, tables, Done
<1>2. Told' = [type |-> "none", result |-> "none"]
  BY DEF Restart, Told, NoWire
<1>3. accnt_balance \in [AccntNo -> SUBSET DA!AccntBalance]
  BY DEF TypeOK, DA!TypeOK
<1>4. BankBalance' = accnt_balance
  BY <1>1, <1>3 DEF BankBalance
<1>5. HalfDone'
  BY <1>1 DEF HalfDone
<1>6. CASE pc # "record"
  BY <1>1, <1>2, <1>4, <1>5, <1>6, BankIsTables
  DEF TypeOK, BooksStep, Quiet, NoMovementTold, B!Success
<1>7. CASE pc = "record"
  <2>1. job.accnt \in AccntNo /\ job.req \in MovementRequest
    BY <1>7 DEF TypeOK, JobOK, MovementRequest
  <2>2. /\ BankBalance[job.accnt] = job.saved
        /\ accnt_balance = [BankBalance EXCEPT ![job.accnt] = accnt_balance[job.accnt]]
    BY <1>7, <2>1, BankWhilePending DEF TypeOK
  <2>3. Books(job.accnt, job.req)
    BY <1>1, <1>2, <1>4, <1>7, <2>2 DEF Books, HalfDone
  <2>. QED
    BY <1>1, <1>5, <2>1, <2>3 DEF BooksStep
<1>. QED
  BY <1>6, <1>7

\* The balance row of a new account.
LEMMA CreateBooks ==
  ASSUME TypeOK, BuffersOK, CreateBalance
  PROVE  BooksStep /\ HalfDone'
<1>1. /\ pc = "create" /\ pc' = "idle" /\ job.req \in Requests
      /\ job.req.type = "CREATE_ACCOUNT" /\ job.req.type \in MsgType
      /\ {"CER_ERROR", "CER_SUCCESS"} \subseteq CER_TYPE
      /\ NoInfo \in Info /\ AccntNo \subseteq Info
  BY DEF CreateBalance, Done, TypeOK, JobOK, CreateRequest, Requests, MsgType, CER_TYPE, Info
<1>2. /\ accnt_balance \in [AccntNo -> SUBSET DA!AccntBalance]
      /\ BankBalance = accnt_balance
  BY <1>1, BankIsTables DEF TypeOK, DA!TypeOK
<1>3. ASSUME NEW result \in {"CER_ERROR", "CER_SUCCESS"}, NEW info \in Info,
             Answer(job.req, result, info)
      PROVE  NoMovementTold'
  <2>1. Told' = [type |-> job.req.type, result |-> result]
    BY <1>1, <1>3, AnswerTold
  <2>. QED
    BY <1>1, <2>1 DEF NoMovementTold, B!Success
<1>4. HalfDone'
  BY <1>1 DEF HalfDone
<1>5. ASSUME UNCHANGED accnt_balance PROVE BankBalance' = BankBalance
  BY <1>1, <1>2, <1>5 DEF BankBalance
<1>6. CASE DA!SelectFails /\ Answer(job.req, "CER_ERROR", NoInfo) /\ UNCHANGED disturbed
  BY <1>1, <1>3, <1>4, <1>5, <1>6 DEF DA!SelectFails, DA!tables, BooksStep, Quiet
<1>7. ASSUME NEW a \in AccntNo, NEW o,
             DA!createBalanceRec(a, o),
             disturbed' = IF accnt_balance[a] \subseteq {DA!ZeroBalance} THEN disturbed
                                                         ELSE disturbed \cup {a},
             IF o = "ok" THEN Answer(job.req, "CER_SUCCESS", a)
                         ELSE Answer(job.req, "CER_ERROR", NoInfo)
      PROVE  BooksStep
  <2>1. NoMovementTold'
    BY <1>1, <1>3, <1>7
  <2>2. CASE UNCHANGED accnt_balance
    BY <1>5, <1>7, <2>1, <2>2 DEF DA!createBalanceRec, BooksStep, Quiet
  <2>3. CASE accnt_balance' = [accnt_balance EXCEPT ![a] = @ \cup {DA!ZeroBalance}]
    <3>1. BankBalance' = [BankBalance EXCEPT ![a] = @ \cup {DA!ZeroBalance}]
      BY <1>1, <1>2, <2>3 DEF BankBalance
    <3>2. Opens(a)
      BY <1>2, <1>7, <2>1, <3>1 DEF DA!createBalanceRec, Opens
    <3>. QED
      BY <1>7, <3>2 DEF BooksStep
  <2>. QED
    BY <1>7, <2>2, <2>3 DEF DA!createBalanceRec
<1>. QED
  BY <1>4, <1>6, <1>7 DEF CreateBalance, DA!AccntsBySSN

\* A step that leaves the tables of money alone is unnoticed, if its answer is not
\* read as the success of a movement.
LEMMA QuietBooks ==
  ASSUME TypeOK, HalfDone, UNCHANGED <<accnt_balance, trans_rec, disturbed>>,
         \/ UNCHANGED <<pc, job>>
         \/ pc # "record" /\ pc' # "record",
         NoMovementTold' \/ UNCHANGED wire
  PROVE  BooksStep /\ HalfDone'
<1>1. BankBalance' = BankBalance
  BY DEF BankBalance
<1>2. HalfDone'
  BY DEF HalfDone
<1>. QED
  BY <1>1, <1>2 DEF BooksStep, Quiet

\* No answer but the success of a movement is read as one.
LEMMA NoMovementAnswered ==
  ASSUME BuffersOK, NEW req \in Requests, req.type \in MsgType,
         NEW result \in {"CER_SUCCESS", "CER_INVALID_CLIENTID", "CER_CLIENT_NOT_LOGGEDON",
                         "CER_INSUFFICIENT_FUNDS", "CER_ERROR"},
         result = "CER_SUCCESS" => req.type \notin {"DEPOSIT", "WITHDRAWAL"},
         NEW info \in Info, Answer(req, result, info)
  PROVE  NoMovementTold'
<1>1. result \in CER_TYPE
  BY DEF CER_TYPE
<1>2. Told' = [type |-> req.type, result |-> result]
  BY <1>1, AnswerTold
<1>. QED
  BY <1>2 DEF NoMovementTold, B!Success

\* The requests that move no money.
LEMMA OtherBooks ==
  ASSUME CMP!Inv, TypeOK, BuffersOK, HalfDone, NEW req \in Requests,
         \/ HandleConnect(req) \/ HandleLogOn(req) \/ HandleLogOff(req)
         \/ HandleCreate(req) \/ HandleBalanceLookup(req) \/ HandleTransLookup(req)
         \/ HandleUnknown(req)
  PROVE  BooksStep /\ HalfDone'
<1>0. /\ {"CER_SUCCESS", "CER_INVALID_CLIENTID", "CER_INVALID_NAME_PIN",
          "CER_CLIENT_NOT_LOGGEDON", "CER_ERROR"} \subseteq CER_TYPE
      /\ NoInfo \in Info /\ AccntNo \subseteq Info
  BY DEF CER_TYPE, Info
<1>1. /\ UNCHANGED <<accnt_balance, trans_rec, disturbed>>
      /\ pc # "record" /\ pc' # "record"
  BY DEF HandleConnect, HandleLogOn, HandleLogOff, HandleCreate, HandleBalanceLookup,
         HandleTransLookup, HandleUnknown, Handles, NoBalance, NotLoggedOn,
         TransNotLoggedOn, DA!SelectFails, DA!createAccnt, DA!tables, tables, Done, Continue
<1>2. NoMovementTold' \/ UNCHANGED wire
  <2>1. CASE HandleConnect(req)
    BY <2>1 DEF HandleConnect, Continue
  <2>2. CASE HandleLogOn(req)
    <3>1. ASSUME NEW result \in {"CER_INVALID_NAME_PIN", "CER_INVALID_CLIENTID"},
                 LogOnRefused(req, result)
          PROVE  NoMovementTold'
      BY <1>0, <3>1, AnswerUnpointedTold DEF LogOnRefused, MsgType
    <3>2. CASE Answer(req, "CER_SUCCESS", NoInfo)
      BY <1>0, <2>2, <3>2, NoMovementAnswered DEF HandleLogOn, MsgType
    <3>. QED
      BY <2>2, <3>1, <3>2 DEF HandleLogOn
  <2>3. CASE HandleLogOff(req)
    BY <1>0, <2>3, NoMovementAnswered DEF HandleLogOff, MsgType
  <2>4. CASE HandleCreate(req)
    BY <1>0, <2>4, NoMovementAnswered DEF HandleCreate, Continue, MsgType
  <2>5. CASE HandleBalanceLookup(req)
    <3>1. req.type = "BALANCE_QUERY" /\ req.cid \in Cid
      BY <2>5, RequestFields DEF HandleBalanceLookup, SessionRequest
    <3>2. LoggedOnAs(req) => AccntOf(req) \in Info
      BY <1>0, <3>1, SessionAccnt DEF LoggedOnAs, AccntOf
    <3>3. PICK result \in {"CER_SUCCESS", "CER_CLIENT_NOT_LOGGEDON", "CER_ERROR"}, info \in Info :
            Answer(req, result, info)
      BY <1>0, <2>5, <3>2 DEF HandleBalanceLookup, NoBalance
    <3>. QED
      BY <3>1, <3>3, NoMovementAnswered DEF MsgType
  <2>6. CASE HandleTransLookup(req)
    <3>1. req.type = "TRANSACTION_QUERY" /\ req.cid \in Cid
      BY <2>6, RequestFields DEF HandleTransLookup, TransRequest
    <3>2. CASE TransNotLoggedOn(req)
      <4>1. wire'.size = HdrSize
        BY <3>2 DEF TransNotLoggedOn, Send
      <4>2. Told' = [type |-> "none", result |-> "none"]
        BY <4>1 DEF Told, HdrSize, ResultSize
      <4>. QED
        BY <4>2 DEF NoMovementTold, B!Success
    <3>3. CASE Answer(req, "CER_ERROR", NoInfo)
      BY <1>0, <3>1, <3>3, NoMovementAnswered DEF MsgType
    <3>4. ASSUME LoggedOnAs(req), NEW n, TransFound(req, AccntOf(req), n)
          PROVE  NoMovementTold'
      <4>1. AccntOf(req) \in Info
        BY <1>0, <3>1, <3>4, SessionAccnt DEF LoggedOnAs, AccntOf
      <4>2. CASE Answer(req, "CER_SUCCESS", AccntOf(req))
        BY <1>0, <3>1, <4>1, <4>2, NoMovementAnswered DEF MsgType
      <4>3. CASE dyn'.type = "TRANSACTION_QUERY" /\ wire'.msg = dyn'
        BY <4>3 DEF Told, NoMovementTold, B!Success
      <4>4. ~ n <= 1 => dyn'.type = "TRANSACTION_QUERY" /\ wire'.msg = dyn'
        BY <3>1, <3>4 DEF TransFound, Send
      <4>. QED
        BY <3>4, <4>2, <4>3, <4>4 DEF TransFound
    <3>. QED
      BY <2>6, <3>2, <3>3, <3>4 DEF HandleTransLookup
  <2>7. CASE HandleUnknown(req)
    BY <1>0, <2>7, AnswerUnpointedTold DEF HandleUnknown, MsgType
  <2>. QED
    BY <2>1, <2>2, <2>3, <2>4, <2>5, <2>6, <2>7
<1>. QED
  BY <1>1, <1>2, QuietBooks

\* What every step does to the books, and the stages of the movements.
LEMMA BooksNext ==
  ASSUME RecordedAmounts, CMP!Inv, TypeOK, BuffersOK, Bounded, HalfDone, [Next]_vars
  PROVE  BooksStep /\ HalfDone'
<1>. DEFINE Goal == BooksStep /\ HalfDone'
<1>1. ASSUME NEW req \in MovementRequest, pc = "idle", Done,
             \/ NotLoggedOn(req) \/ NoBalance(req)
             \/ /\ Answer(req, "CER_INSUFFICIENT_FUNDS", NoInfo)
                /\ UNCHANGED <<tables, link, disturbed>>
      PROVE  Goal
  <2>0. /\ {"CER_ERROR", "CER_CLIENT_NOT_LOGGEDON", "CER_INSUFFICIENT_FUNDS"} \subseteq CER_TYPE
        /\ NoInfo \in Info
    BY DEF CER_TYPE, Info
  <2>1. /\ req \in Requests /\ req.type \in MsgType
    BY <1>1 DEF MovementRequest, DepositRequest, WithdrawalRequest, Requests, MsgType
  <2>2. NoMovementTold'
    <3>1. CASE NotLoggedOn(req)
      BY <2>0, <2>1, <3>1, AnswerUnpointedTold DEF NotLoggedOn
    <3>2. ASSUME NEW result \in {"CER_ERROR", "CER_INSUFFICIENT_FUNDS"},
                 Answer(req, result, NoInfo)
          PROVE  NoMovementTold'
      BY <2>0, <2>1, <3>2, NoMovementAnswered
    <3>. QED
      BY <1>1, <3>1, <3>2 DEF NoBalance
  <2>3. UNCHANGED <<accnt_balance, trans_rec, disturbed>> /\ pc' # "record"
    BY <1>1 DEF NotLoggedOn, NoBalance, DA!SelectFails, DA!tables, tables, Done
  <2>. QED
    BY <1>1, <2>2, <2>3, QuietBooks
<1>2. ASSUME NEW req \in Requests, HandleDeposit(req) PROVE Goal
  <2>1. /\ req \in DepositRequest /\ req.type = "DEPOSIT" /\ req.cid \in Cid
        /\ req.amount \in Amounts /\ req.kind \in {"cash", "check"}
        /\ req \in MovementRequest /\ pc = "idle"
    BY <1>2, RequestFields
    DEF HandleDeposit, Handles, DepositRequest, DEPOSIT_TYPE, MovementRequest
  <2>2. CASE NotLoggedOn(req) \/ NoBalance(req)
    BY <1>1, <2>1, <2>2 DEF NotLoggedOn, NoBalance
  <2>3. ASSUME LoggedOnAs(req), NEW r \in accnt_balance[AccntOf(req)],
               Plus(r[req.kind], req.amount) <= MaxMoney,
               Move(req, Plus(r[req.kind], req.amount), req.kind)
        PROVE  Goal
    <3>1. AccntOf(req) \in AccntNo
      BY <2>1, <2>3, SessionAccnt DEF LoggedOnAs, AccntOf
    <3>2. r \in DA!AccntBalance
      BY <2>3, <3>1 DEF TypeOK, DA!TypeOK
    <3>. DEFINE x == r[req.kind]
    <3>3. x \in 0 .. Word - 1 /\ x <= MaxMoney /\ Plus(x, req.amount) <= MaxMoney
      BY <2>1, <2>3, <3>1, <3>2 DEF DA!AccntBalance, Bounded
    <3>. HIDE DEF x
    <3>4. Plus(x, req.amount) = x + req.amount
      BY <2>1, <3>3, DepositFits
    <3>5. Moved(req, accnt_balance[AccntOf(req)],
                DA!SetColumn(accnt_balance[AccntOf(req)], req.kind, Plus(x, req.amount)))
      BY <2>1, <2>3, <3>3, <3>4 DEF Moved, x
    <3>6. Move(req, Plus(x, req.amount), req.kind)
      BY <2>3 DEF x
    <3>. QED
      BY <2>1, <3>1, <3>5, <3>6, MoveBooks
  <2>. QED
    BY <1>2, <2>2, <2>3 DEF HandleDeposit
<1>3. ASSUME NEW req \in Requests, HandleWithdraw(req) PROVE Goal
  <2>1. /\ req \in WithdrawalRequest /\ req.type = "WITHDRAWAL" /\ req.cid \in Cid
        /\ req.amount \in Amounts
        /\ req \in MovementRequest /\ pc = "idle"
    BY <1>3, RequestFields DEF HandleWithdraw, Handles, WithdrawalRequest, MovementRequest
  <2>2. CASE \/ NotLoggedOn(req) \/ NoBalance(req)
             \/ /\ Answer(req, "CER_INSUFFICIENT_FUNDS", NoInfo)
                /\ UNCHANGED <<tables, link, disturbed>>
                /\ Done
    BY <1>1, <2>1, <2>2 DEF NotLoggedOn, NoBalance
  <2>3. ASSUME LoggedOnAs(req), NEW r \in accnt_balance[AccntOf(req)],
               NonNegative(Minus(r.cash, req.amount)),
               Move(req, Minus(r.cash, req.amount), "cash")
        PROVE  Goal
    <3>1. AccntOf(req) \in AccntNo
      BY <2>1, <2>3, SessionAccnt DEF LoggedOnAs, AccntOf
    <3>2. r.cash \in 0 .. Word - 1
      BY <2>3, <3>1 DEF TypeOK, DA!TypeOK, DA!AccntBalance
    <3>3. Minus(r.cash, req.amount) = r.cash - req.amount
      BY <2>1, <2>3, <3>2, WithdrawalCovered
    <3>4. req.amount <= r.cash
      <4>1. Minus(r.cash, req.amount) \in 0 .. Word - 1
        BY <2>1, <3>2, ArithmeticType, AmountsAssumption
      <4>2. req.amount \in 0 .. Word - 1
        BY <2>1, AmountsAssumption
      <4>3. r.cash - req.amount \in 0 .. Word - 1
        BY <3>3, <4>1
      <4>. QED
        BY <3>2, <4>2, <4>3, TablesAssumption
    <3>5. Moved(req, accnt_balance[AccntOf(req)],
                DA!SetColumn(accnt_balance[AccntOf(req)], "cash", Minus(r.cash, req.amount)))
      BY <2>1, <2>3, <3>3, <3>4 DEF Moved
    <3>. QED
      BY <2>1, <2>3, <3>1, <3>5, MoveBooks
  <2>. QED
    BY <1>3, <2>2, <2>3 DEF HandleWithdraw
<1>4. CASE ConnectSkip
  BY <1>4, QuietBooks DEF ConnectSkip, tables
<1>5. CASE ConnectGrant
  <2>1. job.req \in Requests /\ job.req.type = "CONNECT" /\ job.req.type \in MsgType
    BY <1>5 DEF ConnectGrant, TypeOK, JobOK, Requests, MsgType
  <2>2. next \in Info
    BY <1>5, SessionTypes DEF ConnectGrant, TypeOK, JobOK, CM!TypeOK, Cid, Info
  <2>3. NoMovementTold'
    BY <1>5, <2>1, <2>2, NoMovementAnswered DEF ConnectGrant
  <2>. QED
    BY <1>5, <2>3, QuietBooks DEF ConnectGrant, tables, Done
<1>6. CASE UNCHANGED vars
  <2>1. /\ UNCHANGED <<accnt_balance, trans_rec, disturbed>>
        /\ UNCHANGED <<pc, job>> /\ UNCHANGED wire
    BY <1>6 DEF vars, tables
  <2>. QED
    BY <2>1, QuietBooks
<1>7. CASE CreateBalance \/ Record \/ Restart
  BY <1>7, CreateBooks, RecordBooks, RestartBooks
<1>8. ASSUME NEW req \in Requests,
             \/ HandleConnect(req) \/ HandleLogOn(req) \/ HandleLogOff(req)
             \/ HandleCreate(req) \/ HandleBalanceLookup(req) \/ HandleTransLookup(req)
             \/ HandleUnknown(req)
      PROVE  Goal
  BY <1>8, OtherBooks
<1>. QED
  BY <1>2, <1>3, <1>4, <1>5, <1>6, <1>7, <1>8 DEF Next

\* A deposit stops at the bound, and a withdrawal that is covered only lowers a balance.
LEMMA BoundedStep ==
  ASSUME RecordedAmounts, CMP!Inv, TypeOK, Bounded, [Next]_vars
  PROVE  Bounded'
<1>1. ASSUME UNCHANGED accnt_balance PROVE Bounded'
  BY <1>1 DEF Bounded
<1>2. ASSUME NEW req \in Requests, HandleDeposit(req) PROVE Bounded'
  <2>1. req.cid \in Cid /\ req.kind \in {"cash", "check"}
    BY <1>2, RequestFields DEF HandleDeposit, DepositRequest, DEPOSIT_TYPE
  <2>2. CASE NotLoggedOn(req) \/ NoBalance(req)
    BY <1>1, <2>2 DEF NotLoggedOn, NoBalance, DA!SelectFails, tables, DA!tables
  <2>3. ASSUME LoggedOnAs(req), NEW r \in accnt_balance[AccntOf(req)],
               Plus(r[req.kind], req.amount) <= MaxMoney,
               Move(req, Plus(r[req.kind], req.amount), req.kind)
        PROVE  Bounded'
    <3>1. AccntOf(req) \in AccntNo
      BY <2>1, <2>3, SessionAccnt DEF LoggedOnAs, AccntOf
    <3>. QED
      BY <2>1, <2>3, <3>1, MoveBounded
  <2>. QED
    BY <1>2, <2>2, <2>3 DEF HandleDeposit
<1>3. ASSUME NEW req \in Requests, HandleWithdraw(req) PROVE Bounded'
  <2>1. req.cid \in Cid /\ req.amount \in Amounts
    BY <1>3, RequestFields DEF HandleWithdraw, WithdrawalRequest
  <2>2. CASE NotLoggedOn(req) \/ NoBalance(req) \/ UNCHANGED tables
    BY <1>1, <2>2 DEF NotLoggedOn, NoBalance, DA!SelectFails, tables, DA!tables
  <2>3. ASSUME LoggedOnAs(req), NEW r \in accnt_balance[AccntOf(req)],
               NonNegative(Minus(r.cash, req.amount)),
               Move(req, Minus(r.cash, req.amount), "cash")
        PROVE  Bounded'
    <3>1. AccntOf(req) \in AccntNo
      BY <2>1, <2>3, SessionAccnt DEF LoggedOnAs, AccntOf
    <3>2. r.cash \in 0 .. Word - 1 /\ r.cash <= MaxMoney
      BY <2>3, <3>1 DEF TypeOK, DA!TypeOK, DA!AccntBalance, Bounded
    <3>3. Minus(r.cash, req.amount) = r.cash - req.amount
      BY <2>1, <2>3, <3>2, WithdrawalCovered
    <3>4. Minus(r.cash, req.amount) <= MaxMoney
      <4>1. req.amount \in 0 .. Word - 1
        BY <2>1, AmountsAssumption
      <4>2. r.cash - req.amount <= MaxMoney
        BY <3>2, <4>1, BoundsAssumption, TablesAssumption
      <4>. QED
        BY <3>3, <4>2
    <3>. QED
      BY <2>3, <3>1, <3>4, MoveBounded
  <2>. QED
    BY <1>3, <2>2, <2>3 DEF HandleWithdraw
<1>4. CASE CreateBalance
  <2>1. CASE DA!SelectFails
    BY <1>1, <2>1 DEF DA!SelectFails, DA!tables
  <2>2. ASSUME NEW a \in AccntNo, NEW o, DA!createBalanceRec(a, o) PROVE Bounded'
    <3>1. \/ accnt_balance' = accnt_balance
          \/ accnt_balance' = [accnt_balance EXCEPT ![a] = @ \cup {DA!ZeroBalance}]
      BY <2>2 DEF DA!createBalanceRec
    <3>2. DA!ZeroBalance.cash <= MaxMoney /\ DA!ZeroBalance.check <= MaxMoney
      BY BoundsAssumption DEF DA!ZeroBalance
    <3>3. accnt_balance \in [AccntNo -> SUBSET DA!AccntBalance]
      BY DEF TypeOK, DA!TypeOK
    <3>. QED
      BY <3>1, <3>2, <3>3 DEF Bounded
  <2>. QED
    BY <1>4, <2>1, <2>2 DEF CreateBalance, DA!AccntsBySSN
<1>5. ASSUME NEW req \in Requests, HandleCreate(req) PROVE Bounded'
  BY <1>1, <1>5 DEF HandleCreate, DA!createAccnt
<1>6. ASSUME NEW req \in Requests,
             \/ HandleConnect(req) \/ HandleLogOn(req) \/ HandleLogOff(req)
             \/ HandleBalanceLookup(req) \/ HandleTransLookup(req) \/ HandleUnknown(req)
      PROVE  UNCHANGED accnt_balance
  BY <1>6
  DEF HandleConnect, HandleLogOn, HandleLogOff, HandleBalanceLookup, HandleTransLookup,
      HandleUnknown, NoBalance, TransNotLoggedOn, DA!SelectFails, DA!tables, tables
<1>7. CASE ConnectSkip \/ ConnectGrant \/ Record \/ Restart
  BY <1>1, <1>7 DEF ConnectSkip, ConnectGrant, Record, Restart, DA!addTransRec, tables
<1>8. CASE UNCHANGED vars
  BY <1>1, <1>8 DEF vars, tables
<1>. QED
  BY <1>1, <1>2, <1>3, <1>4, <1>5, <1>6, <1>7, <1>8 DEF Next

-----------------------------------------------------------------------------
(* The balances are what the records add up to.                              *)

\* All balance rows of an undisturbed account are the same, and hold the sum of
\* its records.
LedgerInv ==
  \A a \in AccntNo \ disturbed :
    /\ \A r, s \in BankBalance[a] : r = s
    /\ BankBalance[a] = {} => trans_rec[a] = <<>>
    /\ \A r \in BankBalance[a] : r.cash + r.check = Net(trans_rec[a])

LEMMA BankType ==
  ASSUME TypeOK
  PROVE  BankBalance \in [AccntNo -> SUBSET DA!AccntBalance]
<1>1. ASSUME NEW a \in AccntNo PROVE BankBalance[a] \in SUBSET DA!AccntBalance
  <2>1. accnt_balance[a] \in SUBSET DA!AccntBalance
    BY DEF TypeOK, DA!TypeOK
  <2>2. pc = "record" => job.saved \in SUBSET DA!AccntBalance
    BY DEF TypeOK, JobOK
  <2>. QED
    BY <2>1, <2>2 DEF BankBalance
<1>. QED
  BY <1>1 DEF BankBalance

\* Adding x to a column of a row, the only one an account has.
Added(r, column, x) ==
  IF column = "cash" THEN [r EXCEPT !.cash = r[column] + x]
                     ELSE [r EXCEPT !.check = r[column] + x]

LEMMA ColumnSum ==
  ASSUME NEW r \in DA!AccntBalance, NEW column \in {"cash", "check"}, NEW x \in Int
  PROVE  /\ DA!SetColumn({r}, column, r[column] + x) = {Added(r, column, x)}
         /\ Added(r, column, x).cash + Added(r, column, x).check = r.cash + r.check + x
<1>. DEFINE v == r[column] + x
            new == Added(r, column, x)
<1>1. DA!SetColumn({r}, column, v) = {new}
  BY DEF DA!SetColumn, Added
<1>2. r.cash \in Int /\ r.check \in Int
  BY TablesAssumption DEF DA!AccntBalance
<1>3. /\ new.cash = IF column = "cash" THEN v ELSE r.cash
      /\ new.check = IF column = "cash" THEN r.check ELSE v
  BY DEF DA!AccntBalance, Added
<1>4. v = (IF column = "cash" THEN r.cash ELSE r.check) + x
  OBVIOUS
<1>. HIDE DEF new, v
<1>5. new.cash + new.check = r.cash + r.check + x
  BY <1>2, <1>3, <1>4
<1>. QED
  BY <1>1, <1>5 DEF v, new

\* A movement adds its amount to the columns of a row, signed as in its record.
LEMMA MovedSum ==
  ASSUME NEW req \in MovementRequest, NEW rows \in SUBSET DA!AccntBalance,
         \A r, s \in rows : r = s, NEW moved, Moved(req, rows, moved)
  PROVE  \E r \in rows : \E new :
           /\ moved = {new}
           /\ new.cash + new.check = r.cash + r.check + Signed(RecordOf(req))
<1>. DEFINE x == Signed(RecordOf(req))
<1>0. req.amount \in Int
  <2>1. req.amount \in Amounts
    BY DEF MovementRequest, DepositRequest, WithdrawalRequest
  <2>2. req.amount \in 0 .. Word - 1
    BY <2>1, AmountsAssumption
  <2>. QED
    BY <2>2
<1>1. PICK r \in rows, column \in {"cash", "check"} :
        x \in Int /\ moved = DA!SetColumn(rows, column, r[column] + x)
  <2>1. CASE req \in DepositRequest
    <3>1. PICK r \in rows : moved = DA!SetColumn(rows, req.kind, r[req.kind] + req.amount)
      BY <2>1 DEF Moved, DepositRequest
    <3>2. req.kind \in {"cash", "check"} /\ x = req.amount
      BY <2>1 DEF DepositRequest, DEPOSIT_TYPE, Signed, RecordOf
    <3>. HIDE DEF x
    <3>. QED
      BY <1>0, <3>1, <3>2
  <2>2. CASE req \in WithdrawalRequest
    <3>1. PICK r \in rows : moved = DA!SetColumn(rows, "cash", r.cash - req.amount)
      BY <2>2 DEF Moved, WithdrawalRequest
    <3>2. x = - req.amount
      BY <2>2 DEF WithdrawalRequest, Signed, RecordOf
    <3>. HIDE DEF x
    <3>3. r.cash \in Int
      BY TablesAssumption DEF DA!AccntBalance
    <3>4. r.cash - req.amount = r["cash"] + x
      BY <1>0, <3>2, <3>3
    <3>. QED
      BY <1>0, <3>1, <3>2, <3>4
  <2>. QED
    BY <2>1, <2>2 DEF MovementRequest
<1>2. rows = {r} /\ r \in DA!AccntBalance
  OBVIOUS
<1>. DEFINE new == Added(r, column, x)
<1>. HIDE DEF x
<1>3. /\ DA!SetColumn({r}, column, r[column] + x) = {new}
      /\ new.cash + new.check = r.cash + r.check + x
  <2>1. r \in DA!AccntBalance /\ column \in {"cash", "check"} /\ x \in Int
    BY <1>1, <1>2
  <2>. QED
    BY <2>1, ColumnSum
<1>4. moved = {new}
  BY <1>1, <1>2, <1>3
<1>. HIDE DEF new
<1>. QED
  BY <1>3, <1>4 DEF x

\* A movement adds the same to the balance and to the sum of the records; what
\* does not is remembered as disturbed.
LEMMA LedgerStep ==
  ASSUME RecordedAmounts, TypeOK, LedgerInv, BooksStep
  PROVE  LedgerInv'
<1>0. BankBalance \in [AccntNo -> SUBSET DA!AccntBalance]
      /\ trans_rec \in [AccntNo -> Seq(DA!TransRec)]
  BY BankType DEF TypeOK, DA!TypeOK
<1>. DEFINE Balanced(a) ==
              /\ \A r, s \in BankBalance[a] : r = s
              /\ BankBalance[a] = {} => trans_rec[a] = <<>>
              /\ \A r \in BankBalance[a] : r.cash + r.check = Net(trans_rec[a])
<1>. SUFFICES ASSUME NEW a \in AccntNo, a \notin disturbed' PROVE Balanced(a)'
  BY DEF LedgerInv
<1>1. Balanced(a)
  BY DEF LedgerInv, BooksStep
<1>2. ASSUME BankBalance'[a] = BankBalance[a], trans_rec'[a] = trans_rec[a]
      PROVE  Balanced(a)'
  BY <1>1, <1>2
<1>3. CASE Opens(a)
  <2>1. BankBalance'[a] = {DA!ZeroBalance} /\ trans_rec'[a] = trans_rec[a]
        /\ BankBalance[a] \subseteq {DA!ZeroBalance}
    BY <1>0, <1>3 DEF Opens
  <2>2. Net(trans_rec[a]) = 0
    <3>1. CASE BankBalance[a] = {}
      BY <1>1, <3>1, NetOfNone
    <3>2. CASE DA!ZeroBalance \in BankBalance[a]
      BY <1>1, <3>2 DEF DA!ZeroBalance
    <3>. QED
      BY <2>1, <3>1, <3>2
  <2>3. DA!ZeroBalance.cash + DA!ZeroBalance.check = 0
    BY DEF DA!ZeroBalance
  <2>. QED
    BY <2>1, <2>2, <2>3
<1>4. ASSUME NEW req \in MovementRequest, Books(a, req) PROVE Balanced(a)'
  <2>1. trans_rec'[a] = Append(trans_rec[a], RecordOf(req))
    BY <1>0, <1>4 DEF Books
  <2>2. RecordOf(req) \in DA!TransRec
    <3>1. req.amount \in Amounts
      BY DEF MovementRequest, DepositRequest, WithdrawalRequest
    <3>2. req.amount \in 0 .. RecWord - 1
      BY <3>1, FitsRecord
    <3>. QED
      BY <3>2 DEF RecordOf, DA!TransRec
  <2>3. PICK r \in BankBalance[a] : \E new :
          /\ BankBalance'[a] = {new}
          /\ new.cash + new.check = r.cash + r.check + Signed(RecordOf(req))
    <3>1. /\ BankBalance[a] \in SUBSET DA!AccntBalance
          /\ \A r, s \in BankBalance[a] : r = s
          /\ Moved(req, BankBalance[a], BankBalance'[a])
      BY <1>0, <1>1, <1>4 DEF Books
    <3>. QED
      BY <3>1, MovedSum
  <2>4. r.cash + r.check = Net(trans_rec[a])
    BY <1>1
  <2>5. Net(trans_rec'[a]) = Net(trans_rec[a]) + Signed(RecordOf(req))
    BY <1>0, <2>1, <2>2, NetOfAppend
  <2>. QED
    BY <2>3, <2>4, <2>5
<1>5. ASSUME NEW b \in AccntNo, b # a, Opens(b) \/ \E req : Books(b, req)
      PROVE  Balanced(a)'
  BY <1>0, <1>2, <1>5 DEF Opens, Books
<1>. QED
  BY <1>2, <1>3, <1>4, <1>5 DEF BooksStep, Quiet

LEMMA HalfDoneAndLedger ==
  ASSUME RecordedAmounts
  PROVE  Spec => [](Bounded /\ HalfDone /\ LedgerInv)
<1>1. Init => Bounded /\ HalfDone /\ LedgerInv
  BY DEF Init, DA!Init, Bounded, HalfDone, LedgerInv, BankBalance
<1>2. Inv /\ Bounded /\ HalfDone /\ LedgerInv /\ [Next]_vars
        => (Bounded /\ HalfDone /\ LedgerInv)'
  BY RecordedAmounts, BoundedStep, BooksNext, LedgerStep DEF Inv, AnswersOK
<1>. QED
  BY <1>1, <1>2, Invariance, PTL DEF Spec

\* Between requests the balance of every account is the sum of its records, unless
\* a fault disturbed it, as long as amounts fit into a record and no sum or difference
\* wraps.
THEOREM BalancesAreRecorded == ASSUME RecordedAmounts PROVE Spec => []LedgerMatches
<1>1. LedgerInv => LedgerMatches
  BY DEF LedgerInv, LedgerMatches, BankBalance
<1>. QED
  BY <1>1, HalfDoneAndLedger, RecordedAmounts, PTL

\* The last of the movements is the one recorded.
LEMMA LastOfAppend ==
  ASSUME NEW S, NEW s \in Seq(S), NEW e \in S
  PROVE  Last(Append(s, e)) = e
  BY DEF Last

\* Under the same assumption a withdrawal that succeeds was covered and is recorded
\* with its amount: what MCOverdraft.cfg refutes takes amounts wider than a record.
THEOREM WithdrawalsInFull == ASSUME RecordedAmounts PROVE Spec => WithdrawnInFull
<1>1. Inv /\ HalfDone /\ [Next]_vars
        => [pc = "record" /\ wire'.req.type = "WITHDRAWAL" /\ wire'.result = "CER_SUCCESS"
              => /\ \E r \in job.saved : job.req.amount <= r.cash
                 /\ Last(trans_rec'[job.accnt]).amount = job.req.amount]_vars
  <2>. SUFFICES ASSUME Inv, HalfDone, Next, pc = "record",
                       wire'.req.type = "WITHDRAWAL", wire'.result = "CER_SUCCESS"
                PROVE  /\ \E r \in job.saved : job.req.amount <= r.cash
                       /\ Last(trans_rec'[job.accnt]).amount = job.req.amount
    OBVIOUS
  <2>. DEFINE a == job.accnt
              req == job.req
  <2>1. Record
    <3>1. ~ Restart
      BY DEF Restart, NoWire
    <3>. QED
      BY <3>1
      DEF Next, HandleConnect, HandleLogOn, HandleLogOff, HandleCreate, HandleDeposit,
          HandleWithdraw, HandleBalanceLookup, HandleTransLookup, HandleUnknown, Handles,
          ConnectSkip, ConnectGrant, CreateBalance
  <2>2. PICK o \in DA!Outcomes :
          /\ DA!addTransRec(a, IF req.type = "DEPOSIT" THEN "TT_DEPOSIT" ELSE "TT_WITHDRAW",
                            req.amount, o)
          /\ Answer(req, IF o = "ok" THEN "CER_SUCCESS" ELSE "CER_ERROR", NoInfo)
    BY <2>1 DEF Record
  <2>3. req.type = "WITHDRAWAL" /\ o = "ok"
    BY <2>2 DEF Answer, Send
  <2>4. a \in AccntNo /\ req.amount \in Amounts
    BY <2>1 DEF Record, Inv, TypeOK, JobOK, DepositRequest, WithdrawalRequest
  <2>. DEFINE t == [type |-> "TT_WITHDRAW", amount |-> req.amount]
  <2>5. t \in DA!TransRec /\ trans_rec \in [AccntNo -> Seq(DA!TransRec)]
    BY <2>4, FitsRecord DEF DA!TransRec, Inv, TypeOK, DA!TypeOK
  <2>6. req.amount % RecWord = req.amount
    BY <2>4, FitsRecord
  <2>7. trans_rec' = [trans_rec EXCEPT ![a] = Append(@, t)]
    BY <2>2, <2>3, <2>6 DEF DA!addTransRec, DA!Executed
  <2>. HIDE DEF a, t
  <2>8. trans_rec'[a] = Append(trans_rec[a], t)
    BY <2>4, <2>5, <2>7
  <2>9. Last(trans_rec'[a]) = t
    BY <2>4, <2>5, <2>8, LastOfAppend
  <2>10. \E r \in job.saved : req.amount <= r.cash
    BY <2>3 DEF HalfDone, Moved
  <2>. QED
    BY <2>9, <2>10 DEF a, t
<1>. QED
  BY <1>1, Invariance, HalfDoneAndLedger, RecordedAmounts, PTL DEF Spec, WithdrawnInFull

-----------------------------------------------------------------------------
(* The server keeps the promises of Bank.                                    *)

LEMMA SameSetColumn ==
  ASSUME NEW rows, NEW column \in {"cash", "check"}, NEW v
  PROVE  B!SetColumn(rows, column, v) = DA!SetColumn(rows, column, v)
<1>1. CASE column = "cash"
  BY <1>1 DEF B!SetColumn, DA!SetColumn
<1>2. CASE column = "check"
  BY <1>2 DEF B!SetColumn, DA!SetColumn
<1>. QED
  BY <1>1, <1>2

\* A movement of the server is one of those Bank allows.
LEMMA MovedIsAllowed ==
  ASSUME TypeOK, NEW a \in AccntNo, NEW req \in MovementRequest, NEW moved,
         Moved(req, BankBalance[a], moved)
  PROVE  \/ /\ req.type = "DEPOSIT"
            /\ [rows |-> moved, record |-> RecordOf(req)] \in B!Deposits(a)
         \/ /\ req.type = "WITHDRAWAL"
            /\ [rows |-> moved, record |-> RecordOf(req)] \in B!Withdrawals(a)
<1>. DEFINE m == [rows |-> moved, record |-> RecordOf(req)]
<1>1. BankBalance[a] \in SUBSET DA!AccntBalance
  BY BankType
<1>2. req.amount \in Amounts /\ req.amount \in Nat
  <2>1. req.amount \in Amounts
    BY DEF MovementRequest, DepositRequest, WithdrawalRequest
  <2>2. req.amount \in 0 .. Word - 1
    BY <2>1, AmountsAssumption
  <2>. QED
    BY <2>1, <2>2
<1>3. CASE req \in DepositRequest
  <2>1. PICK r \in BankBalance[a] :
          /\ r[req.kind] + req.amount <= MaxMoney
          /\ moved = DA!SetColumn(BankBalance[a], req.kind, r[req.kind] + req.amount)
    BY <1>3 DEF Moved, DepositRequest
  <2>2. req.kind \in {"cash", "check"} /\ req.type = "DEPOSIT"
    BY <1>3 DEF DepositRequest, DEPOSIT_TYPE
  <2>3. r[req.kind] \in Nat
    BY <1>1, <2>2, TablesAssumption DEF DA!AccntBalance
  <2>4. r[req.kind] + req.amount \in 0 .. MaxMoney
    BY <1>2, <2>1, <2>3, BoundsAssumption
  <2>5. moved = B!SetColumn(BankBalance[a], req.kind, r[req.kind] + req.amount)
    BY <2>1, <2>2, SameSetColumn
  <2>6. moved \in B!Deposited(a, req.kind, req.amount)
    BY <2>4, <2>5 DEF B!Deposited
  <2>7. RecordOf(req) = [type |-> "TT_DEPOSIT", amount |-> req.amount]
    BY <2>2 DEF RecordOf
  <2>8. m \in [rows : B!Deposited(a, req.kind, req.amount),
              record : {[type |-> "TT_DEPOSIT", amount |-> req.amount]}]
    BY <2>6, <2>7
  <2>. DEFINE S(column, x) == [rows : B!Deposited(a, column, x),
                             record : {[type |-> "TT_DEPOSIT", amount |-> x]}]
  <2>9. m \in B!Deposits(a)
    <3>1. B!Deposits(a) = UNION {S(column, x) : column \in {"cash", "check"}, x \in Amounts}
      BY DEF B!Deposits
    <3>2. m \in S(req.kind, req.amount)
      BY <2>8
    <3>. HIDE DEF S, m
    <3>. QED
      BY <1>2, <2>2, <3>1, <3>2
  <2>. QED
    BY <2>2, <2>9
<1>4. CASE req \in WithdrawalRequest
  <2>1. PICK r \in BankBalance[a] :
          /\ req.amount <= r.cash
          /\ moved = DA!SetColumn(BankBalance[a], "cash", r.cash - req.amount)
    BY <1>4 DEF Moved, WithdrawalRequest
  <2>2. req.type = "WITHDRAWAL"
    BY <1>4 DEF WithdrawalRequest
  <2>3. r.cash \in Nat
    BY <1>1, TablesAssumption DEF DA!AccntBalance
  <2>4. r.cash >= req.amount
    BY <1>2, <2>1, <2>3
  <2>5. moved = B!SetColumn(BankBalance[a], "cash", r.cash - req.amount)
    BY <2>1, SameSetColumn
  <2>6. moved \in B!Withdrawn(a, req.amount)
    BY <2>4, <2>5 DEF B!Withdrawn
  <2>7. RecordOf(req) = [type |-> "TT_WITHDRAW", amount |-> req.amount]
    BY <2>2 DEF RecordOf
  <2>8. m \in [rows : B!Withdrawn(a, req.amount),
              record : {[type |-> "TT_WITHDRAW", amount |-> req.amount]}]
    BY <2>6, <2>7
  <2>9. m \in B!Withdrawals(a)
    BY <1>2, <2>8 DEF B!Withdrawals
  <2>. QED
    BY <2>2, <2>9
<1>. QED
  BY <1>3, <1>4 DEF MovementRequest

LEMMA PromiseStep ==
  ASSUME TypeOK, BooksStep
  PROVE  [B!Next]_(B!vars)
<1>1. CASE Quiet
  <2>1. CASE UNCHANGED wire
    BY <1>1, <2>1 DEF Quiet, B!vars, Told
  <2>2. CASE NoMovementTold'
    BY <1>1, <2>2 DEF Quiet, NoMovementTold, B!Next, B!Other
  <2>. QED
    BY <1>1, <2>1, <2>2 DEF Quiet
<1>2. ASSUME NEW a \in AccntNo, Opens(a) PROVE B!Next
  <2>1. B!Open(a)
    BY <1>2 DEF Opens, NoMovementTold, B!Open, DA!ZeroBalance
  <2>. QED
    BY <2>1 DEF B!Next
<1>3. ASSUME NEW a \in AccntNo, NEW req \in MovementRequest, Books(a, req) PROVE B!Next
  <2>. DEFINE m == [rows |-> BankBalance'[a], record |-> RecordOf(req)]
  <2>1. BankBalance' = [BankBalance EXCEPT ![a] = m.rows]
    BY <1>3 DEF Books
  <2>2. \/ B!Complete(a, req.type, m) \/ B!Broken(a, m)
    BY <1>3, <2>1 DEF Books, B!Complete, B!Broken
  <2>3. \/ req.type = "DEPOSIT" /\ m \in B!Deposits(a)
        \/ req.type = "WITHDRAWAL" /\ m \in B!Withdrawals(a)
    <3>1. Moved(req, BankBalance[a], BankBalance'[a])
      BY <1>3 DEF Books
    <3>. QED
      BY <3>1, MovedIsAllowed
  <2>. HIDE DEF m
  <2>. QED
    BY <2>2, <2>3 DEF B!Next
<1>. QED
  BY <1>1, <1>2, <1>3 DEF BooksStep

\* A movement answered with success happened once, in full and in the records; one
\* that is broken half-way is never answered with success; nothing else moves
\* money.  This is the whole of what Bank says, under the assumption RecordedAmounts.
THEOREM KeepsItsPromises == ASSUME RecordedAmounts PROVE Spec => KeepsPromises
<1>1. Init => B!Init
  BY DEF Init, DA!Init, B!Init, BankBalance, Told, NoWire, B!NoReply
<1>2. Inv /\ Bounded /\ HalfDone /\ [Next]_vars => [B!Next]_(B!vars)
  BY RecordedAmounts, BooksNext, PromiseStep DEF Inv, AnswersOK
<1>. QED
  BY <1>1, <1>2, Invariance, HalfDoneAndLedger, RecordedAmounts, PTL
  DEF Spec, KeepsPromises, B!Spec

=============================================================================
