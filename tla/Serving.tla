------------------------------- MODULE Serving -------------------------------
(***************************************************************************)
(* Who is served, and who gets a link, as the two tables change: the two    *)
(* generators and the subscription of AgentConfig against one reference.    *)
(* The generators look rows up by id, by type and by their place in the     *)
(* listing, and the subscription filters the same rows in a way of its own. *)
(*                                                                         *)
(* The tables change by the statements of internal/db/db.go, in any order.  *)
(* InsertUser, which SQLite refuses (17 columns, 18 values), is not one of  *)
(* them: users are those of an earlier version.                            *)
(***************************************************************************)
EXTENDS AgentConfig

(* The types that share the one VLESS inbound of Xray.                     *)
VlessTypes == {"vless", "vless_reality", "vless_xhttp", "vless_reality_xhttp",
               "vless_reality_tls_mux"}

(* The row of this id is VLESS in every layout (migrateProtocolLayout).     *)
ASSUME ServingAssumption ==
  "proto_vless" \in ProtocolIds => ProtocolType["proto_vless"] \in VlessTypes

VARIABLES protocols, vpnUsers

vars == <<protocols, vpnUsers>>

(* Seeded presets are off (seedDefaultProtocols).                          *)
Init ==
  /\ protocols \in [ProtocolIds -> {r \in Rows : ~r.enabled /\ ~r.installed}]
  /\ vpnUsers \in UserTables

UpdateProtocol(p) ==
  /\ \E row \in Rows : protocols' = [protocols EXCEPT ![p] = row]
  /\ UNCHANGED vpnUsers

UpdateUser(u) ==
  /\ vpnUsers[u] # NoUser
  /\ \E g \in Grants : vpnUsers' = [vpnUsers EXCEPT ![u] = g]
  /\ UNCHANGED protocols

DeleteUser(u) ==
  /\ vpnUsers' = [vpnUsers EXCEPT ![u] = NoUser]
  /\ UNCHANGED protocols

Next ==
  \/ \E p \in ProtocolIds : UpdateProtocol(p)
  \/ \E u \in UserIds : UpdateUser(u) \/ DeleteUser(u)

Spec == Init /\ [][Next]_vars

-----------------------------------------------------------------------------
(* An installed row of p's type comes before p in the listing.             *)
Outlisted(p) ==
  \E q \in VisibleIds :
    /\ ProtocolType[q] = ProtocolType[p]
    /\ protocols[q].installed
    /\ ListOrder[q] < ListOrder[p]

(* Of the VLESS rows Xray serves the preset; without it the first installed *)
(* row of type vless; without any the first of the legacy type.            *)
ShadowedVless(p) ==
  /\ p # "proto_vless"
  /\ \/ "proto_vless" \in VisibleIds
     \/ ProtocolType[p] \notin {"vless", "vless_reality"}
     \/ ProtocolType[p] = "vless_reality" /\ OfType("vless") # {}
     \/ Outlisted(p)

(* Xray serves one row of each of its types, sing-box every row.            *)
Shadowed(p) ==
  \/ ProtocolType[p] \in VlessTypes /\ ShadowedVless(p)
  \/ ProtocolType[p] \in {"vmess", "trojan", "shadowsocks"} /\ Outlisted(p)

(* The reference.                                                          *)
Served(p, u) ==
  /\ p \in VisibleIds
  /\ ProtocolType[p] \in LinkTypes
  /\ protocols[p].enabled /\ protocols[p].installed
  /\ vpnUsers[u] # NoUser /\ p \in vpnUsers[u]
  /\ ~Shadowed(p)

HasAccount(e, p, u) ==
  \E ib \in Inbounds(e, protocols, vpnUsers) : ib.id = p /\ u \in ib.accounts

HasLink(p, u) == vpnUsers[u] # NoUser /\ p \in Links(protocols, vpnUsers[u])

(* A user has an account under a preset in exactly the document that is to  *)
(* serve it: granted, enabled, installed, visible and not shadowed by       *)
(* another row of the type (BuildConfig, WriteConfig, findProto, hasProto). *)
ServedExactly ==
  \A p \in ProtocolIds, u \in UserIds :
    /\ Served(p, u) <=> HasAccount("xray", p, u) \/ HasAccount("singbox", p, u)
    /\ ~(HasAccount("xray", p, u) /\ HasAccount("singbox", p, u))

(* The subscription and the two documents, which three filters select from  *)
(* the same rows, agree: every account has its link, and a link without an  *)
(* account is that of a row another one of its type shadows                 *)
(* (CollectURIsForUser, BuildConfig, WriteConfig).                          *)
LinksMatchAccounts ==
  \A p \in ProtocolIds, u \in UserIds :
    LET account == HasAccount("xray", p, u) \/ HasAccount("singbox", p, u)
    IN  /\ account => HasLink(p, u)
        /\ HasLink(p, u) => account \/ Shadowed(p)
=============================================================================
