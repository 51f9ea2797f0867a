------------------------------ MODULE AtmSystem ------------------------------
(* The service as a whole: ATM clients, their connections, the loop of the    *)
(* server over all of them (IOLoop.cpp), and CNProtoHandler with its session  *)
(* table and database behind it.                                              *)
(*                                                                            *)
(* epoll_wait returns every connection that has something to report, and the  *)
(* loop serves them one by one: it reads what has arrived, handles one        *)
(* message, and sends from where _buff points.  A connection is the requests  *)
(* that wait in the kernel (rq), those that were read and not handled (inS),  *)
(* and what is under way to the client (outbox).  Requests arrive whole; how  *)
(* a request is cut, and how recv treats a full buffer, is Connection's.      *)
EXTENDS Integers, Sequences, FiniteSets

CONSTANTS
  AccntNo, NoAccnt, MAXCID, FirstCid, NoCid, MaxConnects,
  NoRow, Pins, SSNs, Word, RecWord, Faults, Amounts, Counts,
  RequestTypes, MaxTrans, MaxMoney, Crashes, NoInfo,  \* CNProtoHandler
  Clients,    \* client processes
  NoClient,   \* nobody is being served
  CutTypes,   \* bound: the kinds of answer that may be read before all has come,
  MaxDeaf,    \* and the clients that are deaf at the same time
  MaxAhead    \* bound: requests of a client that the server has not handled

\* CNProtoHandler's assumptions.
ASSUME ServerAssumption ==
  /\ MAXCID \in Nat /\ FirstCid \in 0 .. MAXCID /\ NoCid \notin 0 .. MAXCID
  /\ NoAccnt \notin AccntNo /\ MaxConnects \in Nat
  /\ Word \in Nat \ {0} /\ RecWord \in Nat \ {0} /\ RecWord <= Word
  /\ NoRow \notin [pin : Pins, ssn : SSNs]
  /\ Faults \in BOOLEAN
  /\ Amounts \subseteq 0 .. Word - 1 /\ Counts \subseteq Nat
  /\ MaxTrans \in Nat /\ MaxMoney \in 0 .. Word - 1
  /\ NoInfo \notin (0 .. MAXCID) \cup AccntNo
ASSUME ClientsAssumption == NoClient \notin Clients
ASSUME BoundsAssumption == MaxDeaf \in Nat /\ MaxAhead \in Nat \ {0}
\* The bounds meet: what may be recorded fits.
ASSUME RoomAssumption ==
  MaxConnects > MAXCID + 1 /\ \A n \in Amounts : n * MaxTrans <= MaxMoney

VARIABLES
  clients, gcid, nClients, next, granted,
  accnt_info, accnt_balance, trans_rec, link,
  pc, job, response, dyn, buff, wire, disturbed,  \* CNProtoHandler
  atm,      \* every client: its globals and where it is
  conn,     \* its connection: "none", "open", "left" by the client, "broken"
  rq,       \* requests in the receive queue of the server's kernel
  inS,      \* requests in buff_in of the server's socket
  outbox,   \* answers on their way, each with the bytes sent of it
  batch,    \* what epoll_wait returned and the loop has not come to
  serving,  \* whose request a handler of several steps works on
  asked,    \* history: the type of the last request of every client,
  reached,  \* the result the server reached for it
  shown,    \* and what the client shows for it
  user,     \* history: the account typed in at its last LOGON
  guessed   \* history: whether a client goes on without having read its client ID

S == INSTANCE CNProtoHandler
A == INSTANCE AtmClient WITH Cid <- S!Cid, INVALID_CLIENT_ID <- MAXCID

server == <<clients, gcid, nClients, next, granted, accnt_info, accnt_balance, trans_rec,
            link, pc, job, response, dyn, buff, wire, disturbed>>
net == <<conn, rq, inS, outbox>>
loop == <<batch, serving>>
answers == <<asked, reached, shown>>
history == <<answers, user, guessed>>
vars == <<server, atm, net, loop, history>>

-----------------------------------------------------------------------------

Connect == [type |-> "CONNECT"]
\* The rest of an answer of which the client has read a part.
Rest == [size |-> 0, msg |-> S!NoMsg]

Init ==
  /\ S!Init
  /\ atm = [c \in Clients |-> A!Off]
  /\ conn = [c \in Clients |-> "none"]
  /\ rq = [c \in Clients |-> <<>>] /\ inS = [c \in Clients |-> <<>>]
  /\ outbox = [c \in Clients |-> <<>>]
  /\ batch = {} /\ serving = NoClient
  /\ asked = [c \in Clients |-> "none"]
  /\ reached = [c \in Clients |-> "none"]
  /\ shown = [c \in Clients |-> A!NothingShown]
  /\ user = [c \in Clients |-> NoAccnt]
  /\ guessed = FALSE

-----------------------------------------------------------------------------
(* The clients.                                                              *)

\* The last request of c is t from now on, and nothing is known of its end.
Resets(c, t) ==
  /\ asked' = [asked EXCEPT ![c] = t]
  /\ reached' = [reached EXCEPT ![c] = "none"]
  /\ shown' = [shown EXCEPT ![c] = A!NothingShown]

\* send, on a connection that may have broken without the client knowing.
Sends(c, req) ==
  /\ rq' = IF conn'[c] = "open" THEN [rq EXCEPT ![c] = Append(@, req)] ELSE rq
  /\ Resets(c, req.type)

\* main: connect, sendConnectReq, recvRsp.
Start(c) ==
  /\ atm[c].at = "off" /\ conn[c] = "none" /\ serving # c
  /\ atm' = [atm EXCEPT ![c].at = "waiting"]
  /\ conn' = [conn EXCEPT ![c] = "open"]
  /\ Sends(c, Connect)
  /\ user' = [user EXCEPT ![c] = NoAccnt]
  /\ UNCHANGED <<server, inS, outbox, loop, guessed>>

\* Bound: there is room for all that the clients have asked to be recorded.
Queue(c) == inS[c] \o rq[c]
Pending(types) ==
  Cardinality({q \in Clients \X (1 .. MaxAhead) :
                 q[2] <= Len(Queue(q[1])) /\ Queue(q[1])[q[2]].type \in types})
    + (IF job.req.type \in types THEN 1 ELSE 0)
InBounds(req) ==
  /\ req.type = "CREATE_ACCOUNT" =>
       Pending({"CREATE_ACCOUNT"}) < Cardinality({a \in AccntNo : accnt_info[a] = NoRow})
  /\ req.type \in {"DEPOSIT", "WITHDRAWAL"} =>
       \A a \in AccntNo :
         Len(trans_rec[a]) + Pending({"DEPOSIT", "WITHDRAWAL"}) < MaxTrans

\* A menu, and one of its requests.
Ask(c) ==
  /\ atm[c].at = "menu" /\ Len(Queue(c)) < MaxAhead
  /\ \E req \in A!Choices(atm[c]) :
       /\ req.type \in RequestTypes /\ InBounds(req)
       /\ UNCHANGED conn
       /\ Sends(c, req)
       /\ user' = IF req.type = "LOGON" THEN [user EXCEPT ![c] = req.pan] ELSE user
  /\ atm' = [atm EXCEPT ![c].at = "waiting"]
  /\ UNCHANGED <<server, inS, outbox, loop, guessed>>

\* The process ends, and with it the client's end of the connection.
Leaves(c) ==
  /\ conn' = [conn EXCEPT ![c] = IF @ = "open" THEN "left" ELSE "none"]
  /\ outbox' = [outbox EXCEPT ![c] = <<>>]
  /\ Resets(c, "none")

\* Exit in the first menu, or killed anywhere.
Exit(c) ==
  /\ atm[c].at # "off"
  /\ atm' = [atm EXCEPT ![c] = A!Off]
  /\ Leaves(c)
  /\ UNCHANGED <<server, rq, inS, loop, user, guessed>>

\* recv returns k bytes of the answer, and recvRsp reads them.  Which k matters only
\* as far as fields are whole.
Places(msg, size) ==
  IF msg.type \in CutTypes /\ Cardinality({c \in Clients : atm[c].deaf}) < MaxDeaf
  THEN {1, S!HdrSize, S!HdrSize + 1, S!HdrSize + S!ResultSize, size} \cap 1 .. size
  ELSE {size}
Receive(c) ==
  /\ atm[c].at = "waiting" /\ ~ atm[c].deaf /\ outbox[c] # <<>>
  /\ LET msg == Head(outbox[c]).msg  size == Head(outbox[c]).size IN
       \E k \in Places(msg, size) :
         /\ atm' = [atm EXCEPT ![c] = A!recvRsp(@, msg, k)]
         /\ IF atm'[c] = A!Off THEN Leaves(c)
            ELSE /\ shown' = [shown EXCEPT ![c] = A!Shown(msg, k)]
                 /\ outbox' = [outbox EXCEPT ![c] =
                                 (IF k < size THEN <<Rest>> ELSE <<>>) \o Tail(@)]
                 /\ UNCHANGED <<conn, asked, reached>>
         /\ guessed' = (guessed \/ (msg.type = "CONNECT" /\ k < size))
  /\ UNCHANGED <<server, rq, inS, loop, user>>

\* A deaf client takes whatever comes for its answer, and shows none of it.
ReceiveDeaf(c) ==
  /\ atm[c].at = "waiting" /\ atm[c].deaf /\ outbox[c] # <<>>
  /\ atm' = [atm EXCEPT ![c].at = "menu"]
  /\ shown' = [shown EXCEPT ![c] = A!InvalidShown]
  /\ \E n \in 1 .. Len(outbox[c]) :
       outbox' = [outbox EXCEPT ![c] = SubSeq(@, n + 1, Len(@))]
  /\ UNCHANGED <<server, conn, rq, inS, loop, asked, reached, user, guessed>>

\* "Server Disconnected": recv returns 0, or the next send raises SIGPIPE.
Disconnected(c) ==
  /\ atm[c].at = "waiting" /\ conn[c] = "broken" /\ outbox[c] = <<>>
  /\ atm' = [atm EXCEPT ![c] = A!Off]
  /\ Leaves(c)
  /\ UNCHANGED <<server, rq, inS, loop, user, guessed>>

-----------------------------------------------------------------------------
(* The server.                                                               *)

\* Requests have come, or the end of the stream.
Ready == {c \in Clients : rq[c] # <<>> \/ conn[c] = "left"}

EpollWait ==
  /\ pc = "idle" /\ batch = {} /\ Ready # {}
  /\ batch' = Ready
  /\ UNCHANGED <<server, atm, net, serving, history>>

\* The handler has returned: what it leaves in wire is sent, if anybody is there.
Answers(c) ==
  IF pc' # "idle"
  THEN serving' = c /\ UNCHANGED <<outbox, reached>>
  ELSE /\ serving' = NoClient
       /\ reached' = IF conn[c] = "open" THEN [reached EXCEPT ![c] = wire'.result]
                                         ELSE reached
       /\ outbox' = IF conn[c] = "open" /\ wire'.msg # S!NoMsg
                    THEN [outbox EXCEPT ![c] = Append(@, [size |-> wire'.size,
                                                          msg |-> wire'.msg])]
                    ELSE outbox

process_msg(req) ==
  \/ S!HandleConnect(req) \/ S!HandleLogOn(req) \/ S!HandleLogOff(req)
  \/ S!HandleCreate(req) \/ S!HandleDeposit(req) \/ S!HandleWithdraw(req)
  \/ S!HandleBalanceLookup(req) \/ S!HandleTransLookup(req)

\* An event: all that has arrived is read, and one request of it is handled.
Serve(c) ==
  /\ pc = "idle" /\ c \in batch /\ rq[c] # <<>>
  /\ LET in == inS[c] \o rq[c] IN
       /\ process_msg(Head(in))
       /\ inS' = [inS EXCEPT ![c] = Tail(in)]
  /\ rq' = [rq EXCEPT ![c] = <<>>]
  /\ batch' = batch \ {c}
  /\ Answers(c)
  /\ UNCHANGED <<atm, conn, asked, shown, user, guessed>>

\* The end of the stream, or a reset, which may overtake requests: the socket is
\* deleted, with what was not handled.
Delete(c) ==
  /\ pc = "idle" /\ c \in batch /\ conn[c] = "left"
  /\ conn' = [conn EXCEPT ![c] = "none"]
  /\ rq' = [rq EXCEPT ![c] = <<>>]
  /\ inS' = [inS EXCEPT ![c] = <<>>]
  /\ batch' = batch \ {c}
  /\ UNCHANGED <<server, atm, outbox, serving, history>>

\* The next step of a handler of several.
GoOn ==
  /\ S!ConnectSkip \/ S!ConnectGrant \/ S!CreateBalance \/ S!Record
  /\ Answers(serving)
  /\ UNCHANGED <<atm, conn, rq, inS, batch, asked, shown, user, guessed>>

\* The server dies and is started again: its connections are gone.
Restart ==
  /\ S!Restart
  /\ conn' = [c \in Clients |-> IF conn[c] = "open" THEN "broken"
                                ELSE IF conn[c] = "left" THEN "none" ELSE conn[c]]
  /\ rq' = [c \in Clients |-> <<>>] /\ inS' = [c \in Clients |-> <<>>]
  /\ batch' = {} /\ serving' = NoClient
  /\ UNCHANGED <<atm, outbox, history>>

ServerStep == EpollWait \/ GoOn \/ \E c \in Clients : Serve(c) \/ Delete(c)

Next ==
  \/ \E c \in Clients : Start(c) \/ Ask(c) \/ Exit(c)
  \/ \E c \in Clients : Receive(c) \/ ReceiveDeaf(c) \/ Disconnected(c)
  \/ EpollWait
  \/ \E c \in Clients : Serve(c) \/ Delete(c)
  \/ GoOn
  \/ Restart

Spec == Init /\ [][Next]_vars

\* The one thread of the server goes on, and so does the recv of every client; no
\* user has to do anything.
FairSpec ==
  /\ Spec
  /\ WF_vars(ServerStep)
  /\ \A c \in Clients : WF_vars(Receive(c) \/ ReceiveDeaf(c) \/ Disconnected(c))

-----------------------------------------------------------------------------
(* What is checked.                                                          *)

\* Clients, queues and the loop hold what they can hold.
TypeOK ==
  /\ atm \in [Clients -> A!Client]
  /\ conn \in [Clients -> {"none", "open", "left", "broken"}]
  /\ batch \subseteq Clients
  /\ serving \in Clients \cup {NoClient}
  /\ serving # NoClient <=> pc # "idle"
  /\ \A c \in Clients :
       /\ {rq[c], inS[c]} \subseteq Seq(S!Requests)
       /\ atm[c].at = "off" => outbox[c] = <<>> /\ conn[c] \in {"none", "left"}

\* A client whose connection works and that has read every answer so far.
InStep(c) == atm[c].at = "menu" /\ ~ atm[c].deaf /\ conn[c] = "open"

\* logged_on is a copy of what the server knows of the client's ID, and never sent
\* (client.cpp:346, 329): a client in step that believes in a session has it, on the
\* account its user typed in; and if it believes in none there is none, unless some
\* client has asked under an ID that it never read.
LoggedOnIsTrue ==
  \A c \in Clients : InStep(c) =>
    LET session == clients[atm[c].clientID] IN
    IF atm[c].logged_on THEN session = [state |-> "CL_LOGON", accnt |-> user[c]]
                        ELSE session.state = "CL_CONNECTED" \/ guessed

\* What a client in step shows for its last request is what the server reached for
\* it (recvRsp): that the switch takes every unknown result of a withdrawal for a
\* success shows nothing false.  One that has just gone deaf may show a withdrawal
\* of which it could read a part of the result.
ShownIsTrue ==
  \A c \in Clients : atm[c].at = "menu" =>
    /\ InStep(c) => shown[c] = [type |-> asked[c],
                                says |-> IF reached[c] = "CER_SUCCESS" THEN "success"
                                                                       ELSE "failed"]
    /\ shown[c] = [type |-> asked[c], says |-> "success"] /\ asked[c] # "WITHDRAWAL"
         => reached[c] = "CER_SUCCESS"

\* The server moves the money of an account only for a client whose user typed in
\* that account, whatever the others ask, unless it was asked under an ID that
\* nobody read: then a client that missed the answer to its LOGOFF, and goes on,
\* may be working on the account that somebody else logged on to in its place.
MovesOwnMoney ==
  pc = "record" => \/ job.accnt = user[serving]
                   \/ guessed /\ (atm[serving].deaf \/ atm[serving].at = "off")

\* The server looks for a free ID and there is none.
Spinning == pc = "connect" /\ S!CM!InUse = S!Cid

\* A client that waits gets an answer or learns that the server is gone, whatever
\* the other clients ask, unless the server looks for an ID that is not there.
AnswerComes ==
  \A c \in Clients : atm[c].at = "waiting" ~> atm[c].at # "waiting" \/ Spinning

=============================================================================
