# ATM service: formal model

TLA+ specifications of the ATM service in `src/`: a TCP server
(`cnp-atm-server`) that speaks the CNP protocol with ATM clients and keeps
accounts in MySQL.  TLC checks small instances; TLAPS proves the central
properties for every value of the constants.

## 1. The system

| Part | Source | State | Operations |
|---|---|---|---|
| `IOLoop`, `EventsManager` | `IOLoop.*` | epoll set, listening socket, the one `CNProtoHandler` | wait; accept; receive, handle, send; delete a socket |
| `sock::*Socket` | `socket.*` | descriptor, `buff_in` / `buff_out` with their stream flags, 512-byte raw buffer | `recv`, `send`, `accept`, `connect`, `bind`, `listen`, `close` |
| `CNProtoHandler` | `proto_impl.*` | `_request`, `_response`, `_dyn_buff`, `_buff`, `_res_msg_size` | `process_msg`: read header, read body, one of eight handlers or the default |
| `ClientsManager` | `ClientsManager.*` | `_clients`: ID -> state, account; `_gcid`; `_nClients` | `nextClientID`, `setClientState`, `setClientAcc`, `remove`, `getByID` |
| `AtmDataAccess` | `AtmDataAccess.*`, `SQL/atm.sql` | the connection; tables `accnt_info`, `accnt_balance`, `trans_rec` | insert account, insert balance row, update balance, insert record; three lookups |
| `CNP_Protocol.h` | itself | global sequence number | message layouts, types, result codes |
| client | `client.cpp` | `logged_on`, `clientID`, its socket | menus, `send…Req`, `recvRsp` |
| `main`, `time_utils`, `log4z`, `SQL/data_access.*`, `SQL/mysql_client.*` | | | start-up; display; vendored; not built |

How they interact: a read event makes `IOLoop` call `recv` on the connection,
`process_msg` on the shared handler, and `send` with what `get_res_msg` points
at.  A handler reads and writes the process-wide `ClientsManager` and executes
SQL statements one by one.  A client sends one request and waits for the answer.
A client ID comes in every message header; the server does not tie it to the
connection.

What is hard in it:

- one thread handles all requests in turn, so handlers do not interleave with
  each other; what comes between the statements of a handler is a **failing
  statement**, a **lost database connection** (never reopened) and the **death
  of the process**.  Every statement commits by itself: `startTransaction` and
  `commit` have no caller;
- `_response`, `_dyn_buff` and `_buff` **survive from request to request**, and
  several early returns send whatever `_buff` pointed at before;
- client IDs are 16-bit, wrap, and are never returned; **probing for a free one
  is a loop** that nothing bounds;
- an account is found again **by SSN**, which is not unique;
- amounts are 64-bit in the tables and the protocol, **32-bit** in a record;
  an overdraft is seen by the sign of a wrapped unsigned difference;
- messages are read from **a byte stream** that may be cut anywhere, in buffers of
  512 bytes, with stream flags nothing resets, and one message is handled per
  event of an **edge-triggered** epoll.

What makes each part correct: *ClientsManager* - an ID belongs to one client, a
session to one account, the count is right, CONNECT ends.  *AtmDataAccess with
the handlers* - money moves as asked, balances agree with records, records
never change.  *CNProtoHandler* - what a client reads is the answer to its
request, or at least no false success.  *Streams and loop* - requests are
answered in order and completely.  *Client* - what it shows is what happened.

## 2. The modules

| Module | Models | Built on |
|---|---|---|
| `ClientsManager` | the session table, its probing loop and restarts | |
| `AtmDataAccess` | the tables, and each SQL statement with its outcomes, as operators | |
| `CNProtoHandler` | the server: all handlers, the buffers, faults and crashes | instantiates both, and `Bank` |
| `Bank` | abstract: what account holders are promised | |
| `CNP_Protocol` | types, results and lengths that both programs know | |
| `Connection` | one client and the server's loop on one TCP connection: queues, sockets, events | instantiates `Channel` |
| `Channel` | abstract: what a connection gives its two programs | |
| `AtmClient` | a client: its menus, and `recvRsp` as a function of what it could read | `CNP_Protocol` |
| `AtmSystem` | the whole: client processes, their connections, the loop over all of them, the server | instantiates `CNProtoHandler` and `AtmClient` |
| `MCClientsManager`, `MCCNProtoHandler`, `MCAtmSystem` | instances for TLC (`Connection` needs none) | |
| `ClientsManagerProofs`, `CNProtoHandlerProofs` | theorems about the session table; about types, answers and single movements | TLAPS |
| `LedgerProofs` | theorems: balances are the sums of their records, and the server implements `Bank` | `CNProtoHandlerProofs` |
| `HandlerSteps` | what one step of the server does, in sum, to the client whose request it works on | `CNProtoHandlerProofs` |
| `ConnectionProofs` | theorems about a connection: order, own answers, and that it implements `Channel` | `Connection` |
| `AtmSystemProofs` | theorems about the service, for any number of clients | `AtmSystem`, instantiates `HandlerSteps` |

**State.** `clients`, `gcid`, `nClients` are `_clients`, `_gcid`, `_nClients`; an entry
absent from the map and one in `CL_UNUSED` behave alike, so the map is a total function.
No constructor sets the account of an entry (`ClientsManager.h:20`,
`AtmDataAccess.h:35`), and an entry erased by a LOGOFF may come back where it was: the
account of an entry that gets a state for the first time is any number at all (`Fresh`),
its last owner's included, until a LOGON writes one.  Nothing looks at it before that.
`next` is the loop variable of `nextClientID`.  `accnt_info`, `accnt_balance`,
`trans_rec` are the tables: a row per account, a *set* of balance rows (its index is not
unique), a sequence of records.  `link` is whether `_conn` works.  `response`, `dyn`,
`buff` are the buffers; a message is its type, data length, result and what its payload
is about.  `pc` and `job` are the position and locals of a handler between two
statements.  `granted`, `wire` and `disturbed` are history: how often an ID was handed
out, what was last answered (the result the handler reached, and the bytes actually
sent), and which accounts a fault hit half-way.

**Actions.** A handler that changes state in one step is one action
(`HandleLogOn`, `HandleLogOff`, `HandleBalanceLookup`, `HandleTransLookup`,
`HandleUnknown`).  CONNECT is `HandleConnect`, then `ConnectSkip` per turn of the
loop and `ConnectGrant`; CREATE_ACCOUNT is `HandleCreate` and `CreateBalance`;
DEPOSIT and WITHDRAWAL write the balance (`HandleDeposit`, `HandleWithdraw`),
then `Record`.  `Restart` may come between any two.  The disjuncts of a handler
are its early returns in the order of the code.

**Outcomes of a statement.** `ok`; `refused`, an exception and nothing executed;
`lost`, executed, but the connection broke before the answer, so the caller sees
an exception and every later statement is refused until the next start.
`updateAccntBalance` counts *changed* rows: writing a value that is already
there is reported as a failure (`UpdateReported`).

**Answers.** `Answer` fills `_response` and points `_buff` at it;
`AnswerUnpointed` is the early return that fills `_response` and sends what
`_buff` pointed at; `TransNotLoggedOn` sets a result only and sends a bare
header.  `Told` is what the client's `recvRsp` reads of what was sent.

**Abstractions.** Names, addresses, e-mail, dates and record IDs are left out.
A request is complete or `INVALID` (what `read_header` and `read_body` make of an
incomplete one).  The validation key and versions in CONNECT are never looked
at by the server and have no place in the model.  The payload of a balance
answer is the account it is about.  `Word` and `RecWord` stand for 2^64 and 2^32;
sums and differences of balances wrap at `Word` as in the code (`Plus`, `Minus`),
and an overdraft is what its sign as a `long long` makes of it (`NonNegative`).

**Connection.** A stream is a sequence of units, each a place in a message, and
`HdrLen`, `ReqLen`, `ErrLen`, `AnsLens`, `ListLens` and `BuffSize` stand for
lengths in bytes: only how they compare matters.  `c2s`, `s2c` are bytes under
way, `rqS`, `rqC` the receive queues of the kernels, `inS`, `inC` the unread part
of `buff_in` and its failbit.  `sk` is the server's socket (`spin`: `recv` does
not return), `edge` what epoll has to report, `fin` and `rst` the end of the
stream or a reset, `buff` where `_buff` points and what the message there
claims to be long.  `Reads` is `read_header` and `read_body`, and what `recvRsp`
does as well.  `ReadEvent` is an EPOLLIN event: all of `recv`, then `Process`
(`process_msg` and `send`) or `Close`; `HangUp` an EPOLLHUP.  `ClientRecv` is a turn
of the client's blocking `recv`.  `OtherClient` is what other connections do to
the shared handler.  The network (`ToServer`, `ToClient`, `FinArrives`) is
external: it keeps order and loses nothing, but delivers in any pieces (`Cuts`).
Two things are coarser than the code.  The least `recvRsp` reads of a list is a header
and its first record (`client.cpp:209`); `Claimed` has `ErrLen` for it, which is shorter
than any list as well.  And of what other connections leave in `_response`,
`OtherClient` has only that it is an `ErrLen` long.

When `recv` goes on after a last full buffer on the server's non-blocking socket,
`::recv` returns -1, which as a `size_t` is more than 0: the loop spins until
more data or the end comes, and returns a count that went down by one each
turn.  `SpinEnds` therefore allows each of the ways `start` treats a count.  A
header read from within a message is as arbitrary: `Reads` allows any length.

How the client's `recvRsp` ends when the server's reset overtakes its FIN (an
error, then SIGPIPE at the next request) is folded into `ClientEOF`.

`Written` is what `send` writes: all, a part of what is longer than a buffer, or
nothing (EAGAIN) while older bytes are under way.  `Claimed` is `m_wDataLen`, a WORD
(`LenWord`): a longer list is announced as what is left of its length.

**Channel.** Requests are numbered; those handled are a prefix of those asked.
A client reads the answer to its last request, or something that is no answer,
and either reader may go deaf for good.  `skewed` is the one thing that breaks
this, a list longer than its header can say.

**AtmClient.** A client is a record: where it is, `logged_on`, `clientID`, and
whether its stream has failbit set (`deaf`).  One operator per `send…Req` gives the
requests that can be typed in, the two menus are their unions, and `recvRsp` is
what the first `k` bytes of an answer make of the record.  A short body does not
end `recvRsp`: the switch runs on what the constructors left in the fields
(`ResultRead`, `IdRead`).  `Says` is whether what it prints is a success.

**AtmSystem.** `atm` holds the clients, `conn` whether a connection is open, left by
its client or broken by the server's death, `rq` the requests in the server's
kernel, `inS` those read and not handled, `outbox` the answers on their way.
`batch` is what `epoll_wait` returned and is not served yet, `serving` whose handler
is between two steps.  `Start`, `Ask`, `Receive`, `ReceiveDeaf`, `Disconnected`,
`Exit` are the client's `main`; `EpollWait`, `Serve`, `Delete` the loop's, `GoOn` the
next step of a handler, `Restart` the server's death and new start.  A handler's
steps are those of `CNProtoHandler`, whatever its variables: one handler, one
session table and one database serve everybody.  `asked`, `reached`, `shown`,
`user`, `guessed` are history.

The level of detail differs on purpose: in `AtmSystem` requests arrive whole and
in order, several of a client may wait (a deaf client does not wait for its
answers in step), and the 1024 events of a batch are more than the clients.  How
requests are cut, and what an edge-triggered event misses, is `Connection`'s.

## 3. Runs

| Run | Question | Instance |
|---|---|---|
| `sessions_table` | Is the session table right over the whole range of IDs, and does CONNECT's loop end while an ID is free? | 6 IDs starting at the third, 7 connects, 2 accounts |
| `ledger` | Do balances and records agree, and does the server implement `Bank`? | 2 accounts with one SSN, amounts 0 and 1, faults and crashes, 2 records |
| `answers` | Is what a client reads true, of its own account, and does money move only as asked where sums and differences wrap? | all message types, faults and crashes, 2 IDs and 3 connects, lists of 0, 1, 2 records, an amount of three quarters of a column |
| `connection` | Do requests and answers stay in step, does the connection implement `Channel`, and does waiting end? | 3 requests cut anywhere, lists of a whole buffer, of more, and of more than a header can say |
| `atm_sessions` | Does a client know whether it is logged on, and can it move any but its own user's money? | 2 clients that come and go, 2 accounts, 2 IDs, answers to CONNECT and LOGOFF cut anywhere |
| `atm_shown` | Is what a client shows what happened to its own request? | 2 clients of one account with 2 records, a wrong PIN, withdrawals cut anywhere |
| `atm_answers` | Does every wait end, whatever the other clients do? | 2 clients, a second request of a deaf one, withdrawals cut anywhere, crashes |

Five more runs each end in a counterexample: the code does something other than
a header, a comment or the client says (section 5).

**Bounds.** `MaxConnects` bounds the IDs held, and one more than there are IDs shows the
full table; six IDs with a start in the middle make the search wrap and the start differ
from 0, which is where the two wrap bugs one could write differ.  Two accounts are
enough for money to go to the wrong one and for two customers to share an SSN; two
clients, for two sessions of one account and two of different ones.  Two records are the
smallest list that needs `_dyn_buff`, and one more request makes it stale.  `MaxMoney`
bounds the balance that a deposit leaves, after it has wrapped; `MaxTrans` ends the
behaviours of an account.  A deposit beyond either is not requested.  In `ledger`,
`Word` is far above both, so that no sum wraps and no overdraft passes for covered;
there a second deposit and a withdrawal of more than there is happen.  In `answers` a
column has four values and the amount is 3: a second deposit wraps the balance from 3 to
2, and a withdrawal from an empty account wraps to 1 and passes for covered, as amounts
above 2^63 do in the code.  A record there is as wide as a column, as its width is the
question of `overdraft`, with a column of 16, a record of 4 and a withdrawal of 15.
`RequestTypes` lists the requests clients send in a run.  Accounts are symmetric, no
action names one, and no liveness is checked with symmetry. In `connection` a header is
one unit, a request two and the buffer three, so that every message can be cut in and
after its header, a list can fill the buffer exactly or overflow it, and a request and a
piece of another can fill the server's.  Three requests are needed for the pieces of an
answer to be taken for the next one and that for the one after it.  `ListLens` has a
list of a whole buffer, one longer, and one that wraps `LenWord`; after a wrap nothing
is cut any more (`Pieces`), and the lists of other clients have one length
(`OtherLens`).

In the `atm` runs `CutTypes` is the kind of answer that may come in part and `MaxDeaf`
how many clients may be deaf at once: one deaf client and one that is not is the case in
which they can disturb each other.  `MaxAhead` bounds the requests of a client that the
server has not handled.  `InBounds` counts requests under way as well, so that no
handler is blocked by `MaxTrans` (`RoomAssumption`); CONNECTs are one more than the IDs.
`atm_sessions` and `atm_shown` use the symmetry of clients and of accounts or PINs, and
a view without the histories their invariants do not mention; there is no liveness in
them.  In `atm_shown` two records make a list, and the wrong PIN the refusal that is
sent as that list; a LOGOFF is in `atm_sessions` instead.

`ConnectEnds`, `WaitEnds`, `GoneNoticed` and `AnswerComes` are the liveness properties.
The first assumes weak fairness of the turns of the probing loop and nothing else: it is
a `while` in the only thread of the server.  It needs an ID that is free when CONNECT
starts; with all IDs held the loop turns for ever.  That is in the model (`Skip` cycles
in `sessions_table`), and as IDs are never given back, 65536 connects bring it about.
`FairSpec` of `Connection` assumes weak fairness of what never stops by itself: the
network, the server's loop, and the client's `recv`.  No request, exit, crash or other
client has to happen.  It takes it that the server's one thread comes back to this
connection: that the `recv` of another one spins, or a CONNECT probes for ever, are no
exceptions of `WaitEnds` and `GoneNoticed`, which are about this connection alone.
`AnswerComes` has the second as its exception; the first is in no model of several
connections.  `FairSpec` of `AtmSystem` assumes weak fairness of the server as a whole
(`ServerStep`, one thread) and of the `recv` of each client.  Fairness between clients
is not assumed: that nobody is passed over follows from the batch, which is served to
its end.

## 4. What the checks show and what is proved

*Session table.* `LoggedOnCounted` (the count equals the sessions),
`GrantedOnce` (no ID twice in one life of the process) and
`AccntBound` (a session never changes its account) are checked and proved in
`ClientsManagerProofs`.  The invariant adds `HandedOutWhenHeld`, that an ID was
handed out exactly if its entry is in use: without it, that a free entry has
never been given away does not follow, and the argument for `GrantedOnce` is
that LOGOFF puts the entry back as CONNECTED.  It also says that a session is one of
an account (`SessionsHaveAccounts`); of other entries nothing is known.  The
server's steps are built from those of the table, so its invariants hold in the
server (`SessionStep`, `SessionInvStep`), and the later proofs use them.

*Types, stages and buffers.* `TypeOK` is proved with the invariant `Inv`: the
session table's invariant, the tables' types, the locals of each stage, the
buffers' types and the answers.  It says in particular that the balance of an
account is never a negative number or one too large for its column.

*Answers.* `SuccessIsTold`: the message sent for a success is the one built for
it, of the right type, payload and length.  `FailureIsNotToldSuccess`: whatever
buffer is stale, a client does not read its failed request as a success.  The
argument is what `_buff` may point at: `_dyn_buff` is a transaction list and
nothing else, a failing transaction query points `_buff` elsewhere or sends a
bare header, and `_response` always has the result of the current request.
`OwnAccountTold`: what a query tells is of the account of the session that asks,
whatever numbers the other entries of the table hold; its mutant takes an entry for a
session because it has an account.  All three are checked and proved
(`SuccessesTold`, `FailuresNotToldSuccess`, `QueriesOfOwnAccount`).

*Money.* `MoneyMovesAsAsked` says which account and column a movement changes, for which
session, and by how much: by what was asked (`Credited`, `Debited`), or, where a sum
does not fit or a difference is so far below 0 that its sign is lost, by that and the
width of a column.  It is checked where both happen, and proved (`MovementsExact`) for
all widths and amounts.  That the second half of `Debited` is real is the finding of run
`overdraft`: the amount and the balance are both `unsigned long` on LP64, and an
overdraft of more than 2^63 succeeds, raises the balance and leaves a record of another
amount.  `WithdrawalsInFull` (`LedgerProofs`) says where that ends: if no amount is over
half of a column (`RecordedAmounts`), a withdrawal that succeeds was covered and is
recorded in full. `RecordsFollowMoney` is proved with one more invariant, `Pending`:
between the two statements the balance differs from the saved one, because
`executeUpdate` reported a changed row.

*Ledger.* `LedgerMatches`: for each account no fault, crash or second balance row has
hit, balance = deposits - withdrawals of its records.  Checked, and proved
(`BalancesAreRecorded`) in `LedgerProofs` under `RecordedAmounts`: an amount fits into a
record, is at most half of a column, and added to `MaxMoney` does not wrap.  So no
balance ever exceeds `MaxMoney` (`Bounded`, an invariant), no sum wraps (`DepositFits`),
and the sign test is exact (`WithdrawalCovered`).  Without it the property is false: the
counterexample of run `overdraft` breaks it, too.  `Net` is a recursive function.  That
it is the sum (`NetOfAppend`: one more record adds its signed amount) needs an induction
over the length of the sequence, which is done by hand: the set of lengths for which no
table of partial sums exists, or two differ, has no least element (`LeastNatural`,
`SumsExist`, `SumsAgree`).  The invariant, `LedgerInv`, is about the balance as `Bank`
sees it (below), which the two statements of a movement change in one step; `HalfDone`
says that between them the handler's locals have the balance before it, and the tables
the one after it.  The steps of the server are first brought to one of three forms
(`BooksStep`: nothing happens to the books, an account is opened, or a movement is
booked), so that no proof about sums looks at a handler.

*Promise.* `KeepsPromises == B!Spec` under the mapping `BankBalance`: while a
movement waits for its record the account shows the saved balance, so the whole
movement takes place at `Record`, or at `Restart` as a broken one.  A movement
reported as a success is complete; one that is not may have moved the money, with
or without a record.  The abstract specification allows exactly the half-done
outcomes the code has, and no others: a record without money, another account,
another amount or a false success.  Checked, and proved step by step
(`KeepsItsPromises`) from the same three forms, under `RecordedAmounts` as well.

*Connection.* `HandledInOrder`: however requests are cut and run together, the
server handles them in order, none twice and none after one it missed.
`ReadsOwnAnswer`: what a client reads of an answer to a request is from the
answer to its last one.  Both hold because of what looks like a fault: after a
short read failbit is never cleared, and that reader reads nothing ever again.
Their mutant is the obvious repair, clearing the flag, which puts the stream out
of step because the rest of the message is still to come.  The price is run
`reset`: the connection is of no more use, though requests of a deaf client are
still executed.  `WaitEnds` and `GoneNoticed` name the exceptions the code has,
each reached in the run: nothing is sent as `_buff` is still NULL (an incomplete
first request); `recv` spins; the answer ends with a full buffer (64 + 26 * 96 =
5 * 512 bytes: a list of 97 transactions), after which the client's `recv`
waits for more.  In `GoneNoticed` the end of a client may come in one event with
its last request; then only the reset that the answer meets closes the socket.
`IsChannel` says the same of the whole connection: it refines `Channel`, and the
list too long for its header is the only thing that skews it.  There
`ReadsOwnAnswer` really fails: the rest of the list is read as the next answer.

*A connection, proved.* `ConnectionProofs` proves the types (`ConnectionTypes`),
`ReadsOwnAnswer` (`OwnAnswerRead`), `HandledInOrder` (`RequestsInOrder`) and `IsChannel`
(`ConnectionIsChannel`) for any lengths of messages and buffers, any cuts and any number
of requests.  The inductive invariant, `ConnInv`, is about the whole stream of each
direction: the bytes not read, in the kernel, and under way (`Up`, `Down`), which only
change places when the network moves them.

- `UpOK`: while the server reads, `Up` holds the requests it has not handled, whole and in
  order (`Queued`).  So what it reads next is the next request or an incomplete one
  (`ServerReads`), after which it is deaf.
- `Behind`: a server that is deaf or spins has missed a request.  Without it the error that
  is sent for an incomplete message could meet a client that waits for nothing.
- `ClientServed`: while the server reads, a client in step is sent one message at a time,
  an answer to its last request or none (`Single`), and nothing before it has asked; when
  the server reads no more, at most errors and stale messages (`Silent`) after the one
  answer to the last request.  What `send` leaves out does no harm: it is the end of a
  message, and the next one is sent only after the client has asked again.
- `SentOK`, `BuffOK`, `GotOK`: where answers come from, that what `_buff` points at is as
  long as a result, and that a client forgets what it read when it asks.

The steps of the server are first brought to four forms (`Handles`, `Refuses`, `Takes`,
`Closes`); the refinement maps the first to `Handle`, a read of the client to `ReadAnswer` or
`ReadNone`, its end to `Leave`, and everything else to nothing at all.

*The client's view.* `LoggedOnIsTrue`: a client in step (connected, not deaf) that
believes it is logged on has a session, on the account its user typed in, and one
that does not has none.  The second half has an exception, also reached: after a cut
CONNECT answer a client asks under an ID that may be another's (`guessed`), so a
session may appear that its owner knows nothing of.  Such a client is deaf, and a
LOGON of the owner is then refused.  `MovesOwnMoney`: money moves only in the account
that the user of the client typed in.  It has one exception, found while it was being
proved and reached in the run since then: a client is logged off but cannot read that
it is; another, with an ID that it guessed, logs on under the same ID; and what the
first goes on to ask moves the money of the second.
*What is shown.* `ShownIsTrue`: a client in step shows for its last request what the
server reached for it.  The switch that prints every unknown withdrawal result as
a success does no harm to a client in step, because CER_CLIENT_NOT_LOGGEDON
presupposes that `logged_on` is ahead of the server.  It does for a client that goes
deaf on this very answer, a refusal of which a part of the result arrived: the
exception of the second conjunct.  `AnswerComes`: all of this never leaves a client
waiting for good, as long as there is an ID for CONNECT; after that the loop of
`nextClientID` keeps the one thread (`Spinning`) and nobody is answered any more.

*The service, proved.* `AtmSystemProofs` proves all invariants of the three `atm` runs
for any number of clients, accounts and IDs, and without the bounds on cuts and deaf
clients: `ServiceTypes`, `BelievedSessions`, `OwnMoneyMoved`, `TruthShown`; and that the
server in it behaves as `CNProtoHandler` says (`ServerIsTheHandler`), whose theorems thus
hold in the service.  The inductive invariant, `SysInv`, is made of

- what is proved of the server (`SP!Inv`) and one more fact of it, `Readable`
  (`HandlerSteps`): a message whose reader gets all that it announces is the answer to
  its request, and a stale one never a CONNECT, LOGON or LOGOFF that succeeded;
- the types of queues and histories (`Types`);
- for every connection an *owner's* ID, which is no variable: there is a function `own`,
  without two connections of one ID, such that every client and its connection agree
  with it (`ClientInv`).  It says how far a client is: that a CONNECT is under way or
  its answer is (`Connects`, `KnowsItsID`), that its requests name its ID unless it
  strays (`NamesItsID`), that one that hears has at most one request or answer
  outstanding, which fits what it asked (`OneAtATime`, `Fits`), and that its idea of
  being logged on will be right once it has read that answer (`SessionAsBelieved`); for
  one that does not hear, that nobody else takes its session while no ID was guessed
  (`SessionKept`).

A step concerns one client; the others keep their part because their IDs differ
(`Untouched`, `SessionSpared`), where the owners' function changes only when an ID is
granted or a socket deleted.  The steps of the server are taken from `HandlerSteps` in
one of two forms, `Working` and `Answering`, so that no handler is looked at again.

Assumptions of the proofs are the named `ASSUME`s of `ClientsManager`, `CNProtoHandler`,
`AtmSystem` and `Connection`: ranges of constants, an ID outside of the range for
"none", amounts no wider than a column, `RecWord <= Word`, how lengths compare.  TLC
evaluates them in every run.  `RecordedAmounts` is no assumption of a module but a
hypothesis of the three theorems of `LedgerProofs`.  Its first two parts are what a
DWORD of 32 bits, as `CNP_Protocol.h:47` states it, would give; the third is that
balances stay clear of the end of their column.  The code as it is built on LP64
guarantees neither.

Only model-checked are the four liveness properties (`ConnectEnds`, `WaitEnds`,
`GoneNoticed`, `AnswerComes`): they rest on fairness, which is out of the provers' reach,
and stay with TLC.  The invariants, action properties and refinements of the passing
runs are proved: `LedgerMatches` and `KeepsPromises` under `RecordedAmounts`, the others
under the assumptions of their modules alone.

## 5. Where code and documentation differ

| Run | Code | Stated |
|---|---|---|
| `reset` | a short read leaves failbit set for ever (`proto_impl.cpp:35-39`) | `proto_impl.cpp:37`: reset istream |
| `logon_refusal` | a refusal may be sent as an old list (`proto_impl.cpp:181-184`) | `client.cpp:350`: invalid account or PIN |
| `assigned` | an account found by SSN may be another's (`proto_impl.cpp:221`) | `client.cpp:339`: the number assigned |
| `retry` | an error may leave the cash withdrawn (`proto_impl.cpp:313-315`) | `client.cpp:388`: try again |
| `overdraft` | an amount above 2^63 passes the test for an overdraft: the balance goes up, the record has another amount (`proto_impl.cpp:310-315`) | `CNP_Protocol.h:47`: a DWORD has 32 bits; `client.cpp:383`: balance not sufficient |

Without a run of its own: the ID 65535, which `CNP_Protocol.h:105-106` reserves for
error checking, is handed out like any other (`ClientsManager.cpp:60`; `Succ` and
`Grant` have it), so that a client without an ID asks under somebody's.  PURCHASE_STAMPS
is listed as supported (`CNP_Protocol.h:108`) and answered as an invalid message
(`proto_impl.cpp:437`). A transaction query without a session is answered by a bare
header that still has the data length of an older message (`proto_impl.cpp:91-95`),
against `CNP_Protocol.h:548-553`; `Connection` has it (`AnswersHeader`).  Sequence and
context are not copied into answers, against `CNP_Protocol.h:555-568`.  A withdrawal
refusal that is cut within its result prints "Withdrwal Succeed" after "Invalid Message
Received!" (`client.cpp:304-308`, `382-392`), and a cut CONNECT answer is taken for a
success with whatever ID is there (`client.cpp:310-318`).

## 6. Plan

Done, in this order, most important first: `ClientsManager`; `AtmDataAccess`;
`CNProtoHandler` over both; `Bank`; the proofs of section 4; `Connection`.
Then `AtmClient`, `AtmSystem` over it and `CNProtoHandler`; `Channel` and its
refinement; liveness of the whole.

Then the proofs of `LedgerProofs`, `HandlerSteps`, `AtmSystemProofs` and
`ConnectionProofs`.

Next: what follows from `Channel` alone, as theorems of it that hold of every connection.

Left out for good: how many statements are left open and when the database refuses
one more (a refusal at any statement is in the model); the order of records of the
same second (only their number reaches a buffer); the fractions of a cent that
`(DWORD)(amt * 100)` drops (floating point).

Not modelled and not planned: `time_utils` (display), `log4z` (vendored),
`SQL/data_access.*` and `SQL/mysql_client.*` (not built), a database that cannot
be reached at the start (`_conn` is never assigned: undefined behaviour at the
first statement).
