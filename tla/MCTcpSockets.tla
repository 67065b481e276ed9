---------------------------- MODULE MCTcpSockets ----------------------------
(***************************************************************************)
(* A client and a server.  The server may connect too, to the port that    *)
(* the client's first connection uses, so that both may open at once.      *)
(* Sequence numbers start next to the wrap-around.                         *)
(***************************************************************************)
EXTENDS TcpSockets

Hosts == {"client", "server"}
PeerOf == [h \in Hosts |-> IF h = "client" THEN "server" ELSE "client"]
Ports == [h \in Hosts |-> IF h = "client" THEN 3 ELSE 1]
Programs == [h \in Hosts |-> IF h = "client" THEN {"connect"} ELSE {"bind", "listen", "connect"}]
Isses == [h \in Hosts |-> IF h = "client" THEN SeqMod - 2 ELSE SeqMod - 1]
Loads == [h \in Hosts |-> IF h = "client" THEN 2 ELSE 0]
=============================================================================
