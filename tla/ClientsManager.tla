--------------------------- MODULE ClientsManager ---------------------------
(* The table of client IDs and logged-on sessions of the ATM server          *)
(* (ClientsManager.h, ClientsManager.cpp), driven the way CNProtoHandler      *)
(* drives it.  The server is single-threaded: while nextClientID probes for   *)
(* a free ID nothing else happens, so every other operation waits for         *)
(* next = NoCid.                                                              *)
(*                                                                            *)
(* An entry that is absent from the std::map and an entry in state CL_UNUSED  *)
(* (operator[] inserts one whenever an unknown ID is looked up) are the same  *)
(* to every caller, so the table is a total function.  No constructor sets    *)
(* the account of an entry: an account number is there from the start, and    *)
(* is nobody's until setClientAcc writes it.  A cid_t is an unsigned short:    *)
(* MAXCID is 65535 and next++ wraps to 0.                                     *)
EXTENDS Integers, FiniteSets

CONSTANTS
  AccntNo,      \* account numbers
  NoAccnt,      \* what an account field holds that names no account
  MAXCID,       \* largest cid_t
  FirstCid,     \* the first ID handed out (1000)
  NoCid,        \* no probe in progress
  MaxConnects   \* bound: client IDs held at any time

ASSUME CidAssumption ==
  /\ MAXCID \in Nat
  /\ FirstCid \in 0 .. MAXCID
  /\ NoCid \notin 0 .. MAXCID
ASSUME AccntAssumption == NoAccnt \notin AccntNo
ASSUME BoundAssumption == MaxConnects \in Nat

VARIABLES
  clients,    \* _clients: the state and account of every client ID
  gcid,       \* _gcid: where the next search for a free ID starts
  nClients,   \* _nClients: what numOfClients() reports
  next,       \* the ID nextClientID is looking at, NoCid outside of it
  granted     \* history: how often each ID was handed out since the start

vars == <<clients, gcid, nClients, next, granted>>

-----------------------------------------------------------------------------

Cid == 0 .. MAXCID
CL_STATE == {"CL_UNUSED", "CL_CONNECTED", "CL_LOGON"}
ClientEntity == [state : CL_STATE, accnt : AccntNo \cup {NoAccnt}]
\* No entry, or one that only a lookup has made.  Nothing is done with its account,
\* which is chosen when the entry gets a state (Fresh).
Unused == [state |-> "CL_UNUSED", accnt |-> NoAccnt]
\* ClientEntity() leaves the account as the memory was: it may be any number, also
\* that of the entry erased just before.
Fresh(st) == [state : {st}, accnt : AccntNo \cup {NoAccnt}]

InUse == {c \in Cid : clients[c].state # "CL_UNUSED"}
LoggedOn == {c \in Cid : clients[c].state = "CL_LOGON"}

\* A variant of ++ that does not wrap.
SuccWide(c) == c + 1

\* A variant that wraps to the first ID, as the reset of _gcid seems to intend.
SuccFromFirst(c) == IF c = MAXCID THEN FirstCid ELSE c + 1

\* ++ on an unsigned short.
Succ(c) == IF c = MAXCID THEN 0 ELSE c + 1

\* _clients[c].state_ = st, with the entry made by operator[] if there is none: the
\* tables this may lead to.
SetClientState(table, c, st) ==
  {[table EXCEPT ![c] = e] :
     e \in IF table[c].state = "CL_UNUSED" THEN Fresh(st)
                                           ELSE {[table[c] EXCEPT !.state = st]}}
SetClientAcc(table, c, a) == [table EXCEPT ![c].accnt = a]
Remove(table, c) == [table EXCEPT ![c] = Unused]

Init ==
  /\ clients = [c \in Cid |-> Unused]
  /\ gcid = FirstCid
  /\ nClients = 0
  /\ next = NoCid
  /\ granted = [c \in Cid |-> 0]

-----------------------------------------------------------------------------
(* CONNECT: nextClientID, then setClientState(cid, CL_CONNECTED).            *)

\* nextClientID starts at _gcid; its reset of _gcid is overwritten on return.
NextClientID ==
  /\ next = NoCid
  /\ Cardinality(InUse) < MaxConnects
  /\ next' = gcid
  /\ gcid' = IF gcid = MAXCID THEN FirstCid ELSE gcid
  /\ UNCHANGED <<clients, nClients, granted>>

\* One turn of the loop: the ID is held, look at the following one.  Since no ID
\* ever becomes free again, the loop turns only once all of them are held, and
\* then it turns for ever.
Skip ==
  /\ next # NoCid
  /\ clients[next].state # "CL_UNUSED"
  /\ next' = Succ(next)
  /\ UNCHANGED <<clients, gcid, nClients, granted>>

\* The ID is free: it is handed out and its entry becomes CL_CONNECTED.
Grant ==
  /\ next # NoCid
  /\ clients[next].state = "CL_UNUSED"
  /\ clients' \in SetClientState(clients, next, "CL_CONNECTED")
  /\ granted' = [granted EXCEPT ![next] = @ + 1]
  /\ gcid' = Succ(next)
  /\ next' = NoCid
  /\ UNCHANGED nClients

-----------------------------------------------------------------------------
(* LOGON and LOGOFF.                                                         *)

\* A variant of setClientAcc that does not ask for CL_CONNECTED.
LogOnAnyState(c, a) ==
  /\ next = NoCid
  /\ clients[c].state # "CL_UNUSED"
  /\ clients' \in SetClientState(SetClientAcc(clients, c, a), c, "CL_LOGON")
  /\ nClients' = nClients + 1
  /\ UNCHANGED <<gcid, next, granted>>

\* setClientAcc succeeds only on a CL_CONNECTED entry; CL_LOGON follows.
LogOn(c, a) ==
  /\ next = NoCid
  /\ clients[c].state = "CL_CONNECTED"
  /\ clients' \in SetClientState(SetClientAcc(clients, c, a), c, "CL_LOGON")
  /\ nClients' = nClients + 1
  /\ UNCHANGED <<gcid, next, granted>>

\* Variants of the logoff: the entry is not put back; it is not removed first.
LogOffFree(c) ==
  /\ next = NoCid
  /\ clients[c].state = "CL_LOGON"
  /\ clients' = Remove(clients, c)
  /\ nClients' = nClients - 1
  /\ UNCHANGED <<gcid, next, granted>>

LogOffKeep(c) ==
  /\ next = NoCid
  /\ clients[c].state = "CL_LOGON"
  /\ clients' \in SetClientState(clients, c, "CL_CONNECTED")
  /\ UNCHANGED <<gcid, nClients, next, granted>>

\* remove(cid) drops the entry, setClientState inserts a fresh CL_CONNECTED one:
\* the ID stays with the client, so it is never handed out again, and the account
\* number it was logged on to may stay in the entry.
LogOff(c) ==
  /\ next = NoCid
  /\ clients[c].state = "CL_LOGON"
  /\ clients' \in SetClientState(Remove(clients, c), c, "CL_CONNECTED")
  /\ nClients' = nClients - 1
  /\ UNCHANGED <<gcid, next, granted>>

\* The server process dies, at any point, and is started again.
Restart ==
  /\ clients' = [c \in Cid |-> Unused]
  /\ gcid' = FirstCid
  /\ nClients' = 0
  /\ next' = NoCid
  /\ granted' = [c \in Cid |-> 0]

Next ==
  \/ NextClientID
  \/ Skip
  \/ Grant
  \/ \E c \in Cid, a \in AccntNo : LogOn(c, a)
  \/ \E c \in Cid : LogOff(c)
  \/ Restart

Spec == Init /\ [][Next]_vars

\* nextClientID is a loop of the one server thread: it keeps running.
FairSpec == Spec /\ WF_vars(Skip \/ Grant)

-----------------------------------------------------------------------------
(* What is checked.                                                          *)

\* Every field holds a value of its C++ type; _gcid and the probe wrap.
TypeOK ==
  /\ clients \in [Cid -> ClientEntity]
  /\ gcid \in Cid
  /\ nClients \in Nat
  /\ next \in Cid \cup {NoCid}
  /\ granted \in [Cid -> Nat]

\* numOfClients() is the number of logged-on sessions: setClientAcc counts one
\* up and remove one down, on every path that leads into or out of CL_LOGON.
LoggedOnCounted == nClients = Cardinality(LoggedOn)

\* No client ID is handed out twice between two starts of the server, whatever
\* clients log on and off and however often the search wraps: two connections
\* never share an entry, hence never an account session.
GrantedOnce == \A c \in Cid : granted[c] <= 1

\* A logged-on session works on the account it logged on to until it logs off:
\* a second LOGON on the same client ID cannot move it to another account.
AccntBound ==
  [][\A c \in Cid :
       (clients[c].state = "CL_LOGON" /\ clients'[c].state = "CL_LOGON")
         => clients'[c].accnt = clients[c].accnt]_vars

\* A CONNECT gets past the search as long as some ID is free, also when only IDs on
\* the other side of the wrap are.  IDs are never given back (only a restart frees
\* them), so this helps the first MAXCID + 1 connections and no later one.
ConnectEnds == next # NoCid /\ InUse # Cid ~> next = NoCid

=============================================================================
