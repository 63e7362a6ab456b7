---------------------------- MODULE MCDhcpClient ----------------------------
(***************************************************************************)
(* DhcpClient with two servers on the link, one of which gives a gateway.  *)
(***************************************************************************)
EXTENDS DhcpClient

MCServers == {"s", "t"}
MCAddrs == {"s1", "t1"}
MCServerOf == [a \in MCAddrs |-> IF a = "t1" THEN "t" ELSE "s"]
MCRouters == {"s"}
=============================================================================
