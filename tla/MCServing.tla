------------------------------ MODULE MCServing ------------------------------
(***************************************************************************)
(* Serving for TLC: two presets of one type and a VLESS row of the legacy   *)
(* type, as older layouts may have left them, next to a hidden preset, the  *)
(* VLESS preset and a sing-box one.                                        *)
(***************************************************************************)
EXTENDS Serving

CONSTANTS u1, cfg, options

MCProtocolIds ==
  {"proto_vless", "proto_reality", "proto_vmess", "proto_vmess_old", "proto_hy2",
   "proto_ss"}
MCProtocolType ==
  [proto_vless |-> "vless", proto_reality |-> "vless_reality",
   proto_vmess |-> "vmess", proto_vmess_old |-> "vmess",
   proto_hy2 |-> "hysteria2", proto_ss |-> "shadowsocks"]
MCListOrder ==
  [proto_hy2 |-> 1, proto_ss |-> 2, proto_vless |-> 3, proto_reality |-> 4,
   proto_vmess |-> 5, proto_vmess_old |-> 6]
MCUserIds == {u1}
MCConfigs == {cfg}
MCOptions == {options}
=============================================================================
