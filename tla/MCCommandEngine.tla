-------------------------- MODULE MCCommandEngine ---------------------------
(* An instance of CommandEngine for TLC: two commands of one device, one of  *)
(* which is retried, and one that cannot be encoded.                         *)
EXTENDS CommandEngine

ConstDeviceOf == [c \in Commands |-> "imei"]
ConstRetries  == [c \in Commands |-> IF c = "reboot" THEN 2 ELSE 0]
=============================================================================
