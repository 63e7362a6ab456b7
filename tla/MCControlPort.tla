--------------------------- MODULE MCControlPort ---------------------------
(***************************************************************************)
(* Two k0smosctl users, each making up to two requests: a token, which is  *)
(* slow, a file whose name has a capital, and a power command.             *)
(***************************************************************************)
EXTENDS ControlPort

MCClients == {"create", "debug"}

MCLines ==
    { [verb |-> "token", arg |-> "worker"],
      [verb |-> "cat", arg |-> "/var/Log"],
      [verb |-> "poweroff", arg |-> ""] }

MCLower ==
    [a \in {"worker", "/var/Log", "/var/log", ""} |-> IF a = "/var/Log" THEN "/var/log" ELSE a]
=============================================================================
