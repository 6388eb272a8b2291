---------------------------- MODULE MCConfigSync ----------------------------
(***************************************************************************)
(* ConfigSync for TLC: one Xray preset and one sing-box preset of           *)
(* seedDefaultProtocols, one user an earlier version left in the database,  *)
(* and the requests the panel sends about them.                             *)
(***************************************************************************)
EXTENDS ConfigSync

CONSTANTS u1, bare, keyed, rekeyed, warning, debug

MCProtocolIds == {"proto_vless", "proto_hy2"}
MCProtocolType == [proto_vless |-> "vless", proto_hy2 |-> "hysteria2"]
MCListOrder == [proto_vless |-> 2, proto_hy2 |-> 1]
MCUserIds == {u1}
MCConfigs == {bare, keyed}
MCOptions == {warning, debug}
MCDefaultOptions == [e \in Engines |-> warning]
MCUnkeyed == {bare}
MCCompletions == [c \in {bare} |-> {keyed}]

Seeded == [enabled |-> FALSE, installed |-> FALSE, config |-> bare]
Serving == [enabled |-> TRUE, installed |-> TRUE, config |-> keyed]

MCInitialTables ==
  {[proto_vless |-> Seeded, proto_hy2 |-> [Seeded EXCEPT !.config = keyed]],
   [proto_vless |-> Serving, proto_hy2 |-> Serving]}
MCInitialUsers == {[u \in {u1} |-> {"proto_vless", "proto_hy2"}]}

Put(p, en, ins, c) ==
  [kind |-> "PutProtocol", id |-> p, enabled |-> en, installed |-> ins, config |-> c]

(* toggleProto, installProto, applyProtocols, addUser, editing and deleting *)
(* a user, and the two settings forms.                                      *)
MCRequests ==
  {Put("proto_vless", TRUE, TRUE, None), Put("proto_vless", FALSE, TRUE, keyed),
   Put("proto_hy2", TRUE, FALSE, None),
   [kind |-> "InstallProtocol", id |-> "proto_vless"],
   [kind |-> "InstallProtocol", id |-> "proto_hy2"],
   [kind |-> "PatchUser", id |-> u1, grants |-> {"proto_hy2"}],
   [kind |-> "PatchUser", id |-> u1, grants |-> None],
   [kind |-> "DeleteUser", id |-> u1],
   [kind |-> "PutSettings", engine |-> "xray", options |-> debug],
   [kind |-> "PutSettings", engine |-> "singbox", options |-> debug],
   [kind |-> "CreateUser"], [kind |-> "ApplyProtocols"]}

(* Where two may install at once, two secrets tell a kept one from another. *)
MCRaceConfigs == {bare, keyed, rekeyed}
MCRaceCompletions == [c \in {bare} |-> {keyed, rekeyed}]

(* Two administrators: one toggles a protocol, one deletes and applies.     *)
MCRaceRequests ==
  {Put("proto_vless", FALSE, TRUE, keyed), [kind |-> "DeleteUser", id |-> u1],
   [kind |-> "ApplyProtocols"]}
=============================================================================
