---------------------------- MODULE MCSidecarSync ----------------------------
(***************************************************************************)
(* ConfigSync over the two presets that run as optional containers: the     *)
(* MTProto proxy, whose secret travels through two env files, and sing-box. *)
(* Two secrets tell a kept one from a regenerated one.                      *)
(***************************************************************************)
EXTENDS ConfigSync

CONSTANTS u1, bare, key1, key2, warning

MCProtocolIds == {"proto_mtproto", "proto_hy2"}
MCProtocolType == [proto_mtproto |-> "mtproto", proto_hy2 |-> "hysteria2"]
MCListOrder == [proto_mtproto |-> 2, proto_hy2 |-> 1]
MCUserIds == {u1}
MCConfigs == {bare, key1, key2}
MCOptions == {warning}
MCDefaultOptions == [e \in Engines |-> warning]
MCUnkeyed == {bare}
MCCompletions == [c \in {bare} |-> {key1, key2}]

MCInitialTables ==
  {[proto_mtproto |-> [enabled |-> FALSE, installed |-> FALSE, config |-> bare],
    proto_hy2 |-> [enabled |-> TRUE, installed |-> FALSE, config |-> key1]]}
MCInitialUsers == {[u \in {u1} |-> {"proto_hy2"}]}

Put(p, ins, c) ==
  [kind |-> "PutProtocol", id |-> p, enabled |-> TRUE, installed |-> ins, config |-> c]

(* Installing both presets, editing the secret, clearing it, applying.      *)
MCRequests ==
  {Put("proto_mtproto", TRUE, key2), Put("proto_mtproto", FALSE, bare),
   [kind |-> "InstallProtocol", id |-> "proto_mtproto"],
   [kind |-> "InstallProtocol", id |-> "proto_hy2"],
   [kind |-> "ApplyProtocols"]}
=============================================================================
