------------------------ MODULE ClientsManagerProofs ------------------------
(* Proofs about the client table, for every width of cid_t, every set of      *)
(* accounts and every bound on the connections.                               *)
EXTENDS ClientsManager, FiniteSetTheorems, TLAPS

\* The number of times an ID was handed out is read off its entry: a free entry
\* was never handed out, a held one exactly once.
HandedOutWhenHeld ==
  \A c \in Cid : granted[c] = IF clients[c].state = "CL_UNUSED" THEN 0 ELSE 1

\* A session works on an account; what the other entries name is nobody's.
SessionsHaveAccounts ==
  \A c \in Cid : clients[c].state = "CL_LOGON" => clients[c].accnt \in AccntNo

Inv == TypeOK /\ LoggedOnCounted /\ HandedOutWhenHeld /\ SessionsHaveAccounts

-----------------------------------------------------------------------------

\* The search starts at a cid_t.
LEMMA FirstInCid == FirstCid \in Cid
  BY CidAssumption DEF Cid

\* Incrementing a cid_t yields a cid_t.
LEMMA SuccInCid == ASSUME NEW c \in Cid PROVE Succ(c) \in Cid
  BY CidAssumption DEF Succ, Cid

\* Grant, LogOn and LogOff change one entry; the account of a fresh one is any.
LEMMA GrantEntry ==
  ASSUME Grant
  PROVE  \E a \in AccntNo \cup {NoAccnt} :
           clients' = [clients EXCEPT ![next] = [state |-> "CL_CONNECTED", accnt |-> a]]
  BY DEF Grant, SetClientState, Fresh

LEMMA LogOnEntry ==
  ASSUME TypeOK, NEW c \in Cid, NEW a \in AccntNo, LogOn(c, a)
  PROVE  clients' = [clients EXCEPT ![c] = [state |-> "CL_LOGON", accnt |-> a]]
<1>1. clients \in [Cid -> ClientEntity] /\ clients[c].state = "CL_CONNECTED"
  BY DEF TypeOK, LogOn
<1>2. SetClientAcc(clients, c, a)[c] = [state |-> "CL_CONNECTED", accnt |-> a]
  BY <1>1 DEF SetClientAcc, ClientEntity
<1>3. clients' = [SetClientAcc(clients, c, a) EXCEPT
                    ![c] = [state |-> "CL_LOGON", accnt |-> a]]
  BY <1>2 DEF LogOn, SetClientState
<1>. QED
  BY <1>1, <1>3 DEF SetClientAcc

LEMMA LogOffEntry ==
  ASSUME TypeOK, NEW c \in Cid, LogOff(c)
  PROVE  \E a \in AccntNo \cup {NoAccnt} :
           clients' = [clients EXCEPT ![c] = [state |-> "CL_CONNECTED", accnt |-> a]]
<1>1. clients \in [Cid -> ClientEntity]
  BY DEF TypeOK
<1>2. Remove(clients, c)[c].state = "CL_UNUSED"
  BY <1>1 DEF Remove, Unused
<1>3. PICK e \in Fresh("CL_CONNECTED") :
        clients' = [Remove(clients, c) EXCEPT ![c] = e]
  BY <1>2 DEF LogOff, SetClientState
<1>4. PICK a \in AccntNo \cup {NoAccnt} : e = [state |-> "CL_CONNECTED", accnt |-> a]
  BY <1>3 DEF Fresh
<1>. QED
  BY <1>1, <1>3, <1>4 DEF Remove

\* The sessions are finitely many: there are MAXCID + 1 IDs.
LEMMA SessionsFinite == IsFiniteSet({c \in Cid : clients[c].state = "CL_LOGON"})
<1>1. IsFiniteSet(Cid)
  BY CidAssumption, FS_Interval DEF Cid
<1>. QED
  BY <1>1, FS_Subset

\* Every step of the table keeps the types.
LEMMA TypeStep == Inv /\ [Next]_vars => TypeOK'
<1>. SUFFICES ASSUME Inv, [Next]_vars PROVE TypeOK'
  OBVIOUS
<1>. USE SuccInCid, FirstInCid DEF Inv, TypeOK, ClientEntity, CL_STATE
<1>1. CASE NextClientID
  BY <1>1 DEF NextClientID
<1>2. CASE Skip
  <2>1. next \in Cid
    BY <1>2 DEF Skip
  <2>. QED
    BY <1>2, <2>1 DEF Skip
<1>3. CASE Grant
  <2>1. next \in Cid
    BY <1>3 DEF Grant
  <2>2. clients' \in [Cid -> ClientEntity]
    BY <1>3, <2>1, GrantEntry
  <2>3. granted' \in [Cid -> Nat]
    BY <1>3, <2>1 DEF Grant
  <2>. QED
    BY <1>3, <2>1, <2>2, <2>3 DEF Grant
<1>4. ASSUME NEW c \in Cid, NEW a \in AccntNo, LogOn(c, a) PROVE TypeOK'
  <2>1. clients' \in [Cid -> ClientEntity]
    BY <1>4, LogOnEntry
  <2>. QED
    BY <1>4, <2>1 DEF LogOn
<1>5. ASSUME NEW c \in Cid, LogOff(c) PROVE TypeOK'
  <2>1. clients' \in [Cid -> ClientEntity]
    BY <1>5, LogOffEntry
  <2>2. c \in LoggedOn /\ IsFiniteSet(LoggedOn)
    BY <1>5, SessionsFinite DEF LogOff, LoggedOn
  <2>3. nClients # 0
    BY <2>2, FS_EmptySet DEF LoggedOnCounted
  <2>4. nClients' \in Nat
    BY <1>5, <2>3 DEF LogOff
  <2>. QED
    BY <1>5, <2>1, <2>4 DEF LogOff
<1>6. CASE Restart
  BY <1>6 DEF Restart, Unused
<1>7. CASE UNCHANGED vars
  BY <1>7 DEF vars
<1>. QED
  BY <1>1, <1>2, <1>3, <1>4, <1>5, <1>6, <1>7 DEF Next

\* Every step keeps the count of the sessions right.
LEMMA CountStep == Inv /\ [Next]_vars => LoggedOnCounted'
<1>. SUFFICES ASSUME Inv, [Next]_vars PROVE LoggedOnCounted'
  OBVIOUS
<1>. USE DEF Inv, TypeOK, ClientEntity, CL_STATE, LoggedOnCounted
<1>0. IsFiniteSet(LoggedOn)
  BY SessionsFinite DEF LoggedOn
<1>1. ASSUME UNCHANGED <<clients, nClients>> PROVE LoggedOnCounted'
  BY <1>1 DEF LoggedOn
<1>2. CASE Grant
  <2>1. next \in Cid
    BY <1>2 DEF Grant
  <2>2. LoggedOn' = LoggedOn
    BY <1>2, <2>1, GrantEntry DEF Grant, LoggedOn
  <2>. QED
    BY <1>2, <2>2 DEF Grant
<1>3. ASSUME NEW c \in Cid, NEW a \in AccntNo, LogOn(c, a) PROVE LoggedOnCounted'
  <2>1. c \notin LoggedOn
    BY <1>3 DEF LogOn, LoggedOn
  <2>2. LoggedOn' = LoggedOn \cup {c}
    BY <1>3, LogOnEntry DEF LoggedOn
  <2>. QED
    BY <1>0, <1>3, <2>1, <2>2, FS_AddElement DEF LogOn
<1>4. ASSUME NEW c \in Cid, LogOff(c) PROVE LoggedOnCounted'
  <2>1. c \in LoggedOn
    BY <1>4 DEF LogOff, LoggedOn
  <2>2. LoggedOn' = LoggedOn \ {c}
    BY <1>4, LogOffEntry DEF LoggedOn
  <2>. QED
    BY <1>0, <1>4, <2>1, <2>2, FS_RemoveElement DEF LogOff
<1>5. CASE Restart
  <2>1. LoggedOn' = {}
    BY <1>5 DEF Restart, LoggedOn, Unused
  <2>. QED
    BY <1>5, <2>1, FS_EmptySet DEF Restart
<1>6. CASE NextClientID
  BY <1>1, <1>6 DEF NextClientID
<1>7. CASE Skip
  BY <1>1, <1>7 DEF Skip
<1>8. CASE UNCHANGED vars
  BY <1>1, <1>8 DEF vars
<1>. QED
  BY <1>2, <1>3, <1>4, <1>5, <1>6, <1>7, <1>8 DEF Next

\* Every step keeps the history tied to the entries, and the sessions to accounts.
LEMMA EntryStep == Inv /\ [Next]_vars => HandedOutWhenHeld' /\ SessionsHaveAccounts'
<1>. SUFFICES ASSUME Inv, [Next]_vars
              PROVE  HandedOutWhenHeld' /\ SessionsHaveAccounts'
  OBVIOUS
<1>. USE DEF Inv, TypeOK, ClientEntity, CL_STATE, HandedOutWhenHeld, SessionsHaveAccounts
<1>1. CASE NextClientID
  BY <1>1 DEF NextClientID
<1>2. CASE Skip
  BY <1>2 DEF Skip
<1>3. CASE Grant
  <2>1. next \in Cid
    BY <1>3 DEF Grant
  <2>2. granted[next] = 0
    BY <1>3, <2>1 DEF Grant
  <2>3. PICK a \in AccntNo \cup {NoAccnt} :
          clients' = [clients EXCEPT ![next] = [state |-> "CL_CONNECTED", accnt |-> a]]
    BY <1>3, GrantEntry
  <2>4. HandedOutWhenHeld'
    BY <1>3, <2>1, <2>2, <2>3 DEF Grant
  <2>5. SessionsHaveAccounts'
    BY <2>1, <2>3
  <2>. QED
    BY <2>4, <2>5
<1>4. ASSUME NEW c \in Cid, NEW a \in AccntNo, LogOn(c, a)
      PROVE  HandedOutWhenHeld' /\ SessionsHaveAccounts'
  BY <1>4, LogOnEntry DEF LogOn
<1>5. ASSUME NEW c \in Cid, LogOff(c)
      PROVE  HandedOutWhenHeld' /\ SessionsHaveAccounts'
  BY <1>5, LogOffEntry DEF LogOff
<1>6. CASE Restart
  BY <1>6 DEF Restart, Unused
<1>7. CASE UNCHANGED vars
  BY <1>7 DEF vars
<1>. QED
  BY <1>1, <1>2, <1>3, <1>4, <1>5, <1>6, <1>7 DEF Next

-----------------------------------------------------------------------------

\* The table starts in the invariant and no step leaves it.
THEOREM Invariance == Spec => []Inv
<1>1. Init => Inv
  <2>. SUFFICES ASSUME Init PROVE Inv
    OBVIOUS
  <2>1. LoggedOn = {}
    BY DEF Init, LoggedOn, Unused
  <2>2. LoggedOnCounted
    BY <2>1, FS_EmptySet DEF Init, LoggedOnCounted
  <2>. QED
    BY <2>2, FirstInCid
    DEF Init, Inv, TypeOK, ClientEntity, CL_STATE, Unused, HandedOutWhenHeld,
        SessionsHaveAccounts
<1>2. Inv /\ [Next]_vars => Inv'
  BY TypeStep, CountStep, EntryStep DEF Inv
<1>. QED
  BY <1>1, <1>2, PTL DEF Spec

\* _gcid, the probe and the entries stay within their C++ types.
THEOREM TypeCorrect == Spec => []TypeOK
  BY Invariance, PTL DEF Inv

\* numOfClients() is the number of sessions that are logged on.
THEOREM SessionsCounted == Spec => []LoggedOnCounted
  BY Invariance, PTL DEF Inv

\* No client ID is handed out twice between two starts of the server.
THEOREM IdsNotReissued == Spec => []GrantedOnce
<1>1. Inv => GrantedOnce
  BY DEF Inv, HandedOutWhenHeld, GrantedOnce
<1>. QED
  BY <1>1, Invariance, PTL

\* A session that stays logged on stays on its account.
THEOREM SessionsKeepAccount == Spec => AccntBound
<1>1. Inv /\ [Next]_vars
        => [\A c \in Cid :
              (clients[c].state = "CL_LOGON" /\ clients'[c].state = "CL_LOGON")
                => clients'[c].accnt = clients[c].accnt]_vars
  <2>. SUFFICES ASSUME Inv, [Next]_vars, NEW c \in Cid,
                       clients[c].state = "CL_LOGON", clients'[c].state = "CL_LOGON"
                PROVE  clients'[c].accnt = clients[c].accnt
    OBVIOUS
  <2>. USE DEF Inv, TypeOK, ClientEntity, CL_STATE
  <2>1. CASE NextClientID
    BY <2>1 DEF NextClientID
  <2>2. CASE Skip
    BY <2>2 DEF Skip
  <2>3. CASE Grant
    <3>1. next \in Cid
      BY <2>3 DEF Grant
    <3>. QED
      BY <2>3, <3>1, GrantEntry
  <2>4. ASSUME NEW d \in Cid, NEW a \in AccntNo, LogOn(d, a)
        PROVE  clients'[c].accnt = clients[c].accnt
    BY <2>4, LogOnEntry DEF LogOn
  <2>5. ASSUME NEW d \in Cid, LogOff(d) PROVE clients'[c].accnt = clients[c].accnt
    BY <2>5, LogOffEntry
  <2>6. CASE Restart
    BY <2>6 DEF Restart, Unused
  <2>7. CASE UNCHANGED vars
    BY <2>7 DEF vars
  <2>. QED
    BY <2>1, <2>2, <2>3, <2>4, <2>5, <2>6, <2>7 DEF Next
<1>. QED
  BY <1>1, Invariance, PTL DEF Spec, AccntBound

=============================================================================
