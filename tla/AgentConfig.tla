----------------------------- MODULE AgentConfig -----------------------------
(***************************************************************************)
(* The two configuration generators of the agent as pure functions of the  *)
(* rows they are given: xray.BuildConfig (internal/xray/config.go) and      *)
(* singbox.WriteConfig (internal/singbox/config.go).                        *)
(*                                                                         *)
(* A protocol row keeps what the generators branch on (enabled, installed)  *)
(* and its JSON config as one opaque value.  A user row is the set of       *)
(* protocol ids granted to the user (enabled_protocol_ids), or NoUser.      *)
(* A document is the set of inbounds it opens, each with its accounts, and  *)
(* the engine options (log level, API listen address) it was built with.    *)
(***************************************************************************)
EXTENDS Naturals, FiniteSets

CONSTANTS
  ProtocolIds,   \* ids of the rows of table protocols
  ProtocolType,  \* their type column
  ListOrder,     \* position of each row in ListProtocols (ORDER BY type)
  UserIds,       \* ids table vpn_users may hold
  Configs,       \* values of config_json
  Options,       \* values of an engine's settings row
  NoUser,        \* "no such row" in vpn_users
  NoProtocol,    \* "no such row" in a protocol lookup (nil)
  Placeholder    \* the account written into an inbound nobody is granted

ASSUME AgentConfigAssumption ==
  /\ ProtocolType \in [ProtocolIds -> STRING]
  /\ ListOrder \in [ProtocolIds -> Nat]
  /\ \A p, q \in ProtocolIds : ListOrder[p] = ListOrder[q] => p = q
  /\ \A S \in SUBSET ProtocolIds : S # {} =>      \* a table is finite
       \E first, last \in S : \A p \in S :
         ListOrder[first] <= ListOrder[p] /\ ListOrder[p] <= ListOrder[last]
  /\ NoProtocol \notin ProtocolIds
  /\ Placeholder \notin UserIds
  /\ \A g \in SUBSET ProtocolIds : g # NoUser

Engines == {"xray", "singbox"}

Rows == [enabled : BOOLEAN, installed : BOOLEAN, config : Configs]

ProtocolTables == [ProtocolIds -> Rows]

Grants == SUBSET ProtocolIds

UserTables == [UserIds -> {NoUser} \cup Grants]

-----------------------------------------------------------------------------
(* Rows ListProtocols leaves out: presets of earlier layouts.              *)
HiddenIds == {"proto_vless_xhttp", "proto_vless_reality_xhttp",
              "proto_vless_reality_mux", "proto_ss"}

(* Mutant: the listing forgets the filter.                                 *)
AllIds == ProtocolIds

VisibleIds == ProtocolIds \ HiddenIds

OfType(t) == {p \in VisibleIds : ProtocolType[p] = t}

(* First row of a non-empty set in list order.                             *)
FirstListed(S) == CHOOSE p \in S : \A q \in S : ListOrder[p] <= ListOrder[q]

(* Mutant: the first row of the type, installed or not.                    *)
FindProtoFirst(table, t) ==
  IF OfType(t) = {} THEN NoProtocol ELSE FirstListed(OfType(t))

(* An installed row of the type wins over an earlier one that is not.      *)
FindProto(table, t) ==
  LET installed == {p \in OfType(t) : table[p].installed}
  IN  IF OfType(t) = {} THEN NoProtocol
      ELSE FirstListed(IF installed # {} THEN installed ELSE OfType(t))

(* The VLESS row: the preset by id, else by type, else the legacy type.    *)
VlessProto(table) ==
  LET vless == FindProto(table, "vless")
  IN  IF "proto_vless" \in VisibleIds THEN "proto_vless"
      ELSE IF vless # NoProtocol THEN vless
      ELSE FindProto(table, "vless_reality")

(* The row behind each inbound xray.BuildConfig may open.                   *)
XraySource(table) ==
  [vless_in  |-> VlessProto(table),
   vmess_in  |-> FindProto(table, "vmess"),
   ss_in     |-> FindProto(table, "shadowsocks"),
   trojan_in |-> FindProto(table, "trojan")]

Live(table, p) == table[p].enabled /\ table[p].installed

-----------------------------------------------------------------------------
(* hasProto / contains over the rows of ListUsers.                         *)
Granted(users, p) == {u \in UserIds : users[u] # NoUser /\ p \in users[u]}

Accounts(users, p) ==
  IF Granted(users, p) = {} THEN {Placeholder} ELSE Granted(users, p)

Inbound(tag, p, table, users) ==
  [tag |-> tag, id |-> p, config |-> {table[p].config},
   accounts |-> Accounts(users, p)]

XrayInbounds(table, users) ==
  LET source == XraySource(table)
  IN  {Inbound(tag, source[tag], table, users) :
         tag \in {t \in DOMAIN source :
                    source[t] # NoProtocol /\ Live(table, source[t])}}

SingboxTag == [hysteria2 |-> "hy2-in", tuic |-> "tuic-in", anytls |-> "anytls-in"]

SingboxIds == {p \in VisibleIds : ProtocolType[p] \in DOMAIN SingboxTag}

(* placeholderHy2: sing-box is never started without an inbound.           *)
PlaceholderHy2 ==
  [tag |-> "hy2-in", id |-> NoProtocol, config |-> {}, accounts |-> {Placeholder}]

SingboxInbounds(table, users) ==
  LET live == {p \in SingboxIds : Live(table, p)}
  IN  IF live = {} THEN {PlaceholderHy2}
      ELSE {Inbound(SingboxTag[ProtocolType[p]], p, table, users) : p \in live}

Inbounds(engine, table, users) ==
  IF engine = "xray" THEN XrayInbounds(table, users)
                     ELSE SingboxInbounds(table, users)

Document(engine, table, users, options) ==
  [inbounds |-> Inbounds(engine, table, users), options |-> options]

(* What an engine can be handed.                                           *)
Tags == {"vless_in", "vmess_in", "ss_in", "trojan_in",
         "hy2-in", "tuic-in", "anytls-in"}

InboundType ==
  [tag : Tags, id : {NoProtocol} \cup ProtocolIds, config : SUBSET Configs,
   accounts : SUBSET ({Placeholder} \cup UserIds)]

DocumentType == [inbounds : SUBSET InboundType, options : Options]

-----------------------------------------------------------------------------
(* The rows CollectURIsForUser makes a link from, for a user with the given *)
(* grants.  The link of an MTProto row and the comment line of an AmneziaWG *)
(* row, which no account stands behind, are left out.                      *)
LinkTypes == {"vless", "vless_reality", "vless_xhttp", "vless_reality_xhttp",
              "vless_reality_tls_mux", "vmess", "shadowsocks", "trojan",
              "hysteria2", "tuic", "anytls"}

(* Mutant: a preset that is switched off keeps its link.                   *)
LinksInstalled(table, grants) ==
  {p \in VisibleIds : table[p].installed /\ p \in grants /\ ProtocolType[p] \in LinkTypes}

Links(table, grants) ==
  {p \in VisibleIds : Live(table, p) /\ p \in grants /\ ProtocolType[p] \in LinkTypes}

-----------------------------------------------------------------------------
(* mtproto.WriteEnvFile over the installed MTProto rows of a listing: the  *)
(* last one listed stays in the file, and with none the file is untouched. *)
InstalledMTProto(table) == {p \in OfType("mtproto") : table[p].installed}

LastListed(S) == CHOOSE p \in S : \A q \in S : ListOrder[q] <= ListOrder[p]

MTProtoEnv(table, current) ==
  IF InstalledMTProto(table) = {} THEN current
  ELSE table[LastListed(InstalledMTProto(table))].config

(* needFull of SyncSidecars: the sing-box profile is asked for.            *)
NeedsSingbox(table) == \E p \in SingboxIds : table[p].installed
=============================================================================
