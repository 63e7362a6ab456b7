---------------------------- MODULE MCBootRecord ----------------------------
(***************************************************************************)
(* BootRecord with two interfaces on DHCP: boot records the second's lease  *)
(* while the first may already renew its own.                              *)
(***************************************************************************)
EXTENDS BootRecord

MCNics == <<"eth0", "eth1">>
=============================================================================
