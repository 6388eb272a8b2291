---------------------------- MODULE Serving_proofs ----------------------------
(***************************************************************************)
(* The reference of Serving is what the generators and the subscription do, *)
(* for every set of presets, types and listing orders and any number of     *)
(* users.                                                                  *)
(*                                                                         *)
(* Neither property needs an invariant: they hold of every content of the   *)
(* two tables.  What there is to prove is that the lookups by id, by type   *)
(* and by place pick the row the reference names, and no other.             *)
(***************************************************************************)
EXTENDS Serving, TLAPS

USE AgentConfigAssumption, ServingAssumption

(* The first row of a listing is in it, and no row comes before it.         *)
LEMMA FirstListedIsFirst ==
  ASSUME NEW S \in SUBSET ProtocolIds, S # {}
  PROVE  /\ FirstListed(S) \in S
         /\ \A q \in S : ListOrder[FirstListed(S)] <= ListOrder[q]
<1>1. \E first \in S : \A q \in S : ListOrder[first] <= ListOrder[q]
  BY DEF AgentConfigAssumption
<1> QED
  BY <1>1 DEF FirstListed

(* An installed row is found by its type unless another one comes first.    *)
LEMMA FindProtoFinds ==
  ASSUME NEW table, NEW t, NEW p \in ProtocolIds, table[p].installed
  PROVE  FindProto(table, t) = p <=>
           /\ p \in OfType(t)
           /\ ~ \E q \in OfType(t) : table[q].installed /\ ListOrder[q] < ListOrder[p]
<1> DEFINE installed == {q \in OfType(t) : table[q].installed}
<1>1. installed \in SUBSET ProtocolIds /\ OfType(t) \in SUBSET ProtocolIds
  BY DEF OfType, VisibleIds
<1>2. ASSUME FindProto(table, t) = p
      PROVE  /\ p \in OfType(t)
             /\ \A q \in installed : ListOrder[p] <= ListOrder[q]
  <2>1. OfType(t) # {}
    BY <1>2 DEF FindProto
  <2>2. CASE installed # {}
    BY <1>1, <1>2, <2>1, <2>2, FirstListedIsFirst DEF FindProto
  <2>3. CASE installed = {}
    BY <1>1, <1>2, <2>1, <2>3, FirstListedIsFirst DEF FindProto
  <2> QED
    BY <2>2, <2>3
<1>3. ASSUME p \in OfType(t), \A q \in installed : ListOrder[p] <= ListOrder[q]
      PROVE  FindProto(table, t) = p
  <2>1. p \in installed
    BY <1>3
  <2>2. /\ FirstListed(installed) \in installed
        /\ ListOrder[FirstListed(installed)] <= ListOrder[p]
    BY <1>1, <2>1, FirstListedIsFirst
  <2>3. ListOrder[FirstListed(installed)] = ListOrder[p]
    BY <1>1, <1>3, <2>2
  <2>4. FirstListed(installed) = p
    BY <1>1, <2>2, <2>3
  <2> QED
    BY <1>3, <2>1, <2>4 DEF FindProto
<1>4. \A q \in OfType(t) : ListOrder[q] \in Nat /\ ListOrder[p] \in Nat
  BY <1>1
<1> QED
  BY <1>2, <1>3, <1>4

(* A lookup by a type finds nothing or a visible row of the type.           *)
LEMMA FindProtoType ==
  ASSUME NEW table, NEW t
  PROVE  /\ OfType(t) = {} => FindProto(table, t) = NoProtocol
         /\ OfType(t) # {} => FindProto(table, t) \in OfType(t)
<1> DEFINE installed == {q \in OfType(t) : table[q].installed}
<1>1. installed \in SUBSET ProtocolIds /\ OfType(t) \in SUBSET ProtocolIds
  BY DEF OfType, VisibleIds
<1> QED
  BY <1>1, FirstListedIsFirst DEF FindProto

(* The same in the words of the reference.                                 *)
LEMMA FoundByType ==
  ASSUME NEW p \in ProtocolIds, protocols[p].installed, NEW t
  PROVE  FindProto(protocols, t) = p <=>
           p \in VisibleIds /\ ProtocolType[p] = t /\ ~ Outlisted(p)
<1>1. FindProto(protocols, t) = p <=>
        /\ p \in OfType(t)
        /\ ~ \E q \in OfType(t) : protocols[q].installed /\ ListOrder[q] < ListOrder[p]
  BY FindProtoFinds
<1>2. p \in OfType(t) <=> p \in VisibleIds /\ ProtocolType[p] = t
  BY DEF OfType
<1>3. ASSUME ProtocolType[p] = t
      PROVE  Outlisted(p) <=>
               \E q \in OfType(t) : protocols[q].installed /\ ListOrder[q] < ListOrder[p]
  BY <1>3 DEF Outlisted, OfType
<1> QED
  BY <1>1, <1>2, <1>3

-----------------------------------------------------------------------------
(* The row behind Xray's VLESS inbound.                                    *)
LEMMA VlessSource ==
  ASSUME NEW p \in ProtocolIds, protocols[p].installed
  PROVE  VlessProto(protocols) = p <=>
           /\ p \in VisibleIds /\ ProtocolType[p] \in VlessTypes
           /\ ~ ShadowedVless(p)
<1>1. p # NoProtocol
  OBVIOUS
<1>2. OfType("vless") \subseteq ProtocolIds /\ OfType("vless_reality") \subseteq ProtocolIds
  BY DEF OfType, VisibleIds
<1>3. CASE "proto_vless" \in VisibleIds
  BY <1>3 DEF VlessProto, ShadowedVless, VisibleIds
<1>4. CASE "proto_vless" \notin VisibleIds /\ OfType("vless") # {}
  <2>1. FindProto(protocols, "vless") # NoProtocol
    BY <1>2, <1>4, FindProtoType
  <2>2. VlessProto(protocols) = FindProto(protocols, "vless")
    BY <1>4, <2>1 DEF VlessProto
  <2>3. VlessProto(protocols) = p <=> p \in OfType("vless") /\ ~ Outlisted(p)
    BY <2>2, FoundByType DEF OfType
  <2>4. p \in VisibleIds => p # "proto_vless"
    BY <1>4
  <2> QED
    BY <1>4, <2>3, <2>4 DEF ShadowedVless, VlessTypes, OfType
<1>5. CASE "proto_vless" \notin VisibleIds /\ OfType("vless") = {}
  <2>1. VlessProto(protocols) = FindProto(protocols, "vless_reality")
    BY <1>5, FindProtoType DEF VlessProto
  <2>2. VlessProto(protocols) = p <=> p \in OfType("vless_reality") /\ ~ Outlisted(p)
    BY <2>1, FoundByType DEF OfType
  <2>3. p \in VisibleIds => p # "proto_vless" /\ ProtocolType[p] # "vless"
    BY <1>5 DEF OfType
  <2> QED
    BY <1>5, <2>2, <2>3 DEF ShadowedVless, VlessTypes, OfType
<1> QED
  BY <1>3, <1>4, <1>5

XrayTypes == VlessTypes \cup {"vmess", "shadowsocks", "trojan"}

(* The rows behind Xray's inbounds are those that no other row shadows.     *)
LEMMA XraySources ==
  ASSUME NEW p \in ProtocolIds, protocols[p].installed
  PROVE  (\E tag \in DOMAIN XraySource(protocols) : XraySource(protocols)[tag] = p) <=>
           /\ p \in VisibleIds /\ ProtocolType[p] \in XrayTypes
           /\ ~ Shadowed(p)
<1>1. (\E tag \in DOMAIN XraySource(protocols) : XraySource(protocols)[tag] = p) <=>
        \/ VlessProto(protocols) = p
        \/ \E t \in {"vmess", "shadowsocks", "trojan"} : FindProto(protocols, t) = p
  BY DEF XraySource
<1>2. (\E t \in {"vmess", "shadowsocks", "trojan"} : FindProto(protocols, t) = p) <=>
        /\ p \in VisibleIds /\ ProtocolType[p] \in {"vmess", "shadowsocks", "trojan"}
        /\ ~ Outlisted(p)
  <2>1. \A t \in {"vmess", "shadowsocks", "trojan"} :
          FindProto(protocols, t) = p <=>
            p \in VisibleIds /\ ProtocolType[p] = t /\ ~ Outlisted(p)
    BY FoundByType
  <2> QED
    BY <2>1
<1>3. VlessProto(protocols) = p <=>
        p \in VisibleIds /\ ProtocolType[p] \in VlessTypes /\ ~ ShadowedVless(p)
  BY VlessSource
<1> QED
  BY <1>1, <1>2, <1>3 DEF Shadowed, XrayTypes, VlessTypes

(* The account of a user is in an inbound for each row the user has.        *)
LEMMA AccountOf ==
  ASSUME NEW tag, NEW p \in ProtocolIds, NEW u \in UserIds
  PROVE  LET ib == Inbound(tag, p, protocols, vpnUsers)
         IN  ib.id = p /\ (u \in ib.accounts <=> u \in Granted(vpnUsers, p))
BY DEF Inbound, Accounts

LEMMA XrayAccounts ==
  ASSUME NEW p \in ProtocolIds, NEW u \in UserIds
  PROVE  HasAccount("xray", p, u) <=>
           /\ p \in VisibleIds /\ ProtocolType[p] \in XrayTypes /\ ~ Shadowed(p)
           /\ Live(protocols, p) /\ u \in Granted(vpnUsers, p)
<1> DEFINE source == XraySource(protocols)
           open == {t \in DOMAIN source :
                      source[t] # NoProtocol /\ Live(protocols, source[t])}
           inbound(t) == Inbound(t, source[t], protocols, vpnUsers)
<1>1. HasAccount("xray", p, u) <=>
        \E t \in open : inbound(t).id = p /\ u \in inbound(t).accounts
  BY DEF HasAccount, Inbounds, XrayInbounds
<1>2. \A t : inbound(t).id = source[t]
  BY DEF Inbound
<1>3. \A t : source[t] = p => (u \in inbound(t).accounts <=> u \in Granted(vpnUsers, p))
  BY AccountOf
<1>4. HasAccount("xray", p, u) <=>
        /\ \E t \in DOMAIN source : source[t] = p
        /\ Live(protocols, p) /\ u \in Granted(vpnUsers, p)
  BY <1>1, <1>2, <1>3
<1>5. Live(protocols, p) => protocols[p].installed
  BY DEF Live
<1> QED
  BY <1>4, <1>5, XraySources

LEMMA SingboxAccounts ==
  ASSUME NEW p \in ProtocolIds, NEW u \in UserIds
  PROVE  HasAccount("singbox", p, u) <=>
           p \in SingboxIds /\ Live(protocols, p) /\ u \in Granted(vpnUsers, p)
<1> DEFINE live == {q \in SingboxIds : Live(protocols, q)}
           inbound(q) == Inbound(SingboxTag[ProtocolType[q]], q, protocols, vpnUsers)
<1>1. Inbounds("singbox", protocols, vpnUsers) =
        IF live = {} THEN {PlaceholderHy2} ELSE {inbound(q) : q \in live}
  BY DEF Inbounds, SingboxInbounds
<1>2. CASE live = {}
  <2>1. PlaceholderHy2.id # p
    BY DEF PlaceholderHy2
  <2> QED
    BY <1>1, <1>2, <2>1 DEF HasAccount
<1>3. CASE live # {}
  <2>1. HasAccount("singbox", p, u) <=>
          \E q \in live : inbound(q).id = p /\ u \in inbound(q).accounts
    BY <1>1, <1>3 DEF HasAccount
  <2>2. \A q : inbound(q).id = q
    BY DEF Inbound
  <2>3. u \in inbound(p).accounts <=> u \in Granted(vpnUsers, p)
    BY AccountOf
  <2> QED
    BY <2>1, <2>2, <2>3
<1> QED
  BY <1>2, <1>3

(* Which types each engine serves.                                         *)
LEMMA SingboxTypes ==
  SingboxIds = {p \in VisibleIds : ProtocolType[p] \in {"hysteria2", "tuic", "anytls"}}
BY DEF SingboxIds, SingboxTag

LEMMA EveryoneServed == ServedExactly
<1> SUFFICES ASSUME NEW p \in ProtocolIds, NEW u \in UserIds
             PROVE  /\ Served(p, u) <=>
                         HasAccount("xray", p, u) \/ HasAccount("singbox", p, u)
                    /\ ~(HasAccount("xray", p, u) /\ HasAccount("singbox", p, u))
  BY DEF ServedExactly
<1>1. Served(p, u) <=>
        /\ p \in VisibleIds /\ ProtocolType[p] \in LinkTypes /\ ~ Shadowed(p)
        /\ Live(protocols, p) /\ u \in Granted(vpnUsers, p)
  BY DEF Served, Live, Granted
<1>2. ProtocolType[p] \in LinkTypes <=>
        ProtocolType[p] \in XrayTypes \/ ProtocolType[p] \in {"hysteria2", "tuic", "anytls"}
  BY DEF LinkTypes, XrayTypes, VlessTypes
<1>3. ProtocolType[p] \in {"hysteria2", "tuic", "anytls"} =>
        ~ Shadowed(p) /\ ProtocolType[p] \notin XrayTypes
  BY DEF Shadowed, XrayTypes, VlessTypes
<1> QED
  BY <1>1, <1>2, <1>3, XrayAccounts, SingboxAccounts, SingboxTypes

LEMMA EveryLinkServed == LinksMatchAccounts
<1> SUFFICES ASSUME NEW p \in ProtocolIds, NEW u \in UserIds
             PROVE  LET account == HasAccount("xray", p, u) \/ HasAccount("singbox", p, u)
                    IN  /\ account => HasLink(p, u)
                        /\ HasLink(p, u) => account \/ Shadowed(p)
  BY DEF LinksMatchAccounts
<1>1. Served(p, u) <=> HasAccount("xray", p, u) \/ HasAccount("singbox", p, u)
  BY EveryoneServed DEF ServedExactly
<1>2. HasLink(p, u) <=>
        /\ p \in VisibleIds /\ ProtocolType[p] \in LinkTypes
        /\ protocols[p].enabled /\ protocols[p].installed
        /\ vpnUsers[u] # NoUser /\ p \in vpnUsers[u]
  BY DEF HasLink, Links, Live
<1> QED
  BY <1>1, <1>2 DEF Served

(* Whatever presets of whatever types an older layout left, and however the  *)
(* tables change: who is granted a preset that is on has an account for it  *)
(* in exactly one document, unless another row of the type shadows it, and  *)
(* nobody else has one (BuildConfig, WriteConfig).                          *)
THEOREM ServedInOneDocument == Spec => []ServedExactly
BY EveryoneServed, PTL

(* ... and the subscription's links are those accounts, but for the links of *)
(* shadowed rows (CollectURIsForUser).                                      *)
THEOREM LinksLeadToAccounts == Spec => []LinksMatchAccounts
BY EveryLinkServed, PTL
=============================================================================
