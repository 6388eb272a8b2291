------------------------ MODULE MCTrafficAccounting ------------------------
(***************************************************************************)
(* TrafficAccounting for TLC: a user with the counter of a protocol and of   *)
(* an earlier version's email, and a second user.                           *)
(***************************************************************************)
EXTENDS TrafficAccounting

CONSTANTS u1, u2

Name(u, t, d) == [user |-> u, tag |-> t, direction |-> d]

MCUsers == {u1, u2}
MCInitialUsed == [u \in MCUsers |-> 1]
MCPatches == {[user |-> u1, used |-> Keep], [user |-> u1, used |-> 0]}

(* Two labels for one user, so that a tick has several statements for it,   *)
(* and a user still to come when one of them fails.                         *)
MCCounters ==
  {Name(u1, "vless", "downlink"), Name(u1, "legacy", "uplink"),
   Name(u2, "trojan", "uplink")}
MCGranted == [u \in MCUsers |-> IF u = u1 THEN {"vless"} ELSE {"trojan"}]
=============================================================================
