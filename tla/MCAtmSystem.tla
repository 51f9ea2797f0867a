----------------------------- MODULE MCAtmSystem -----------------------------
(* AtmSystem with two clients.                                                *)
EXTENDS AtmSystem, TLC

CONSTANTS a1, a2, p1, p2, s1, c1, c2
OneAccnt == {a1}
TwoAccnts == {a1, a2}
OnePin == {p1}
TwoPins == {p1, p2}
OneSSN == {s1}
TwoClients == {c1, c2}

\* The table without the account numbers that are nobody's: no guard reads them.
SessionsInUse ==
  [id \in DOMAIN clients |-> IF clients[id].state = "CL_LOGON" THEN clients[id]
                                                             ELSE clients[id].state]

\* What the next steps depend on; histories that the properties of a run do not
\* mention are left out.
State ==
  <<SessionsInUse, gcid, next, accnt_info, accnt_balance, trans_rec, link, pc, job, response, dyn,
    buff, atm, conn, rq, inS, outbox, batch, serving>>
SessionsView == <<State, user, guessed>>
ShownView == <<State, asked, reached, shown>>

Symmetry == Permutations(TwoClients) \cup Permutations(TwoAccnts)
PinSymmetry == Permutations(TwoClients) \cup Permutations(TwoPins)

=============================================================================
