-------------------------- MODULE MCClientsManager --------------------------
(* ClientsManager on six client IDs of which the search starts at the third: *)
(* every ID can be handed out and the search wraps past MAXCID.  MaxConnects  *)
(* 7 lets one more CONNECT probe a table that is full.                        *)
EXTENDS ClientsManager

CONSTANTS a1, a2
MCAccntNo == {a1, a2}

=============================================================================
