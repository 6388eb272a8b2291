----------------------------- MODULE MCAgentStart -----------------------------
(***************************************************************************)
(* AgentStart for TLC: two default presets over a new database and over one *)
(* of an earlier version; the environment install.sh writes, one without an *)
(* admin token, and one with a JWT secret of its own; two subscription      *)
(* forms.                                                                  *)
(***************************************************************************)
EXTENDS AgentStart

CONSTANTS k1, k2, j1, j2, j3

MCAdminKeys == {k1, k2}
MCSecrets == {j1, j2, j3}
MCDefaults == <<"proto_vless", "proto_trojan">>

MCEnvironments ==
  {[adminToken |-> k1, installSecret |-> TRUE, jwtSecret |-> None],
   [adminToken |-> None, installSecret |-> TRUE, jwtSecret |-> None],
   [adminToken |-> None, installSecret |-> TRUE, jwtSecret |-> j3]}

MCBases == {"https://a", "https://b", "junk"}
MCHost == [b \in MCBases |->
  CASE b = "https://a" -> "a" [] b = "https://b" -> "b" [] OTHER -> None]

MCInitialPresets ==
  {[p \in Ids |-> "absent"],
   [p \in Ids |-> IF p = "proto_vless" THEN "edited" ELSE "absent"]}
=============================================================================
