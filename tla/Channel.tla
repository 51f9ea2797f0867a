------------------------------- MODULE Channel -------------------------------
(* What a connection gives its two programs, however its bytes are cut, run   *)
(* together or lost at the end of either: requests are handled in order, each *)
(* at most once, and a client reads the answer to its last request or none.   *)
(* Either reader may go deaf, and then it stays so.  A message that is longer *)
(* than its header can say skews the stream of the client: from then on it    *)
(* may take the answer to one request for that to another.                    *)
EXTENDS Naturals

CONSTANT MaxRequests  \* bound: requests of the client

VARIABLES
  client,   \* "menu", "waiting" for an answer, or "gone"
  asked,    \* number of its last request
  handled,  \* number of the last request handled
  read,     \* the request whose answer it has read since it asked, or 0
  deaf,     \* whether it reads nothing any more
  skewed    \* whether messages are no longer told apart

vars == <<client, asked, handled, read, deaf, skewed>>

Init ==
  /\ client = "menu" /\ asked = 0 /\ handled = 0 /\ read = 0
  /\ deaf = FALSE /\ skewed = FALSE

Ask ==
  /\ client = "menu" /\ asked < MaxRequests
  /\ asked' = asked + 1 /\ client' = "waiting" /\ read' = 0
  /\ UNCHANGED <<handled, deaf, skewed>>

\* Also for a client that is gone.  The answer may be one that skews the stream.
Handle ==
  /\ handled < asked
  /\ handled' = handled + 1
  /\ skewed' \in {skewed, TRUE}
  /\ UNCHANGED <<client, asked, read, deaf>>

ReadAnswer ==
  /\ client = "waiting" /\ ~ deaf
  /\ client' = "menu"
  /\ \/ handled = asked /\ read' = asked
     \/ skewed /\ read' \in 1 .. handled
  /\ UNCHANGED <<asked, handled, deaf, skewed>>

\* Something has come, and it is no answer or not all of one.
ReadNone ==
  /\ client = "waiting"
  /\ client' = "menu" /\ read' = 0
  /\ deaf' \in {deaf, TRUE}
  /\ UNCHANGED <<asked, handled, skewed>>

Leave ==
  /\ client # "gone"
  /\ client' = "gone" /\ read' = 0 /\ deaf' = FALSE
  /\ UNCHANGED <<asked, handled, skewed>>

Next == Ask \/ Handle \/ ReadAnswer \/ ReadNone \/ Leave

Spec == Init /\ [][Next]_vars

=============================================================================
