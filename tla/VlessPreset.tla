----------------------------- MODULE VlessPreset -----------------------------
(***************************************************************************)
(* The config of the VLESS preset and what is derived from it on two sides: *)
(* the inbound Xray gets (internal/xray/config.go) and the share link a     *)
(* client gets (internal/subscription/uris.go).  The two are written        *)
(* independently; a client connects only if they agree.                    *)
(*                                                                         *)
(* A key pair stands for both of its halves: private_key = public_key says  *)
(* that the halves belong together.  Missing is an absent key or, for keys  *)
(* and short ids, the empty string, which the code treats alike.  endpoint  *)
(* stands for ws_path, ws_host and grpc_service_name.  Port, SNI, mux,      *)
(* fingerprint, the xhttp fields and the fallback tls_security are copied   *)
(* alike to both sides and left out.                                       *)
(*                                                                         *)
(* Both sides also look at the type of the row.  Of the types of earlier    *)
(* versions only vless_reality is left for the visible row proto_vless: the *)
(* others belong to ids that ListProtocols hides.                          *)
(***************************************************************************)
CONSTANTS KeyPairs, ShortIds, Missing

Transports == {"tcp", "xhttp", "ws", "grpc"}
Securities == {"none", "tls", "reality"}
Vision     == "xtls-rprx-vision"
Types      == {"vless", "vless_reality"}

ASSUME VlessPresetAssumption ==
  Missing \notin KeyPairs \cup ShortIds \cup Transports \cup Securities \cup {"", Vision}

VlessConfigs ==
  [transport : {Missing} \cup Transports, security : {Missing} \cup Securities,
   flow : {Missing, "", Vision}, endpoint : {"default", "custom"},
   private_key : {Missing} \cup KeyPairs, public_key : {Missing} \cup KeyPairs,
   short_id : {Missing} \cup ShortIds, short_ids : {Missing} \cup ShortIds]

Or(value, default) == IF value = Missing THEN default ELSE value

UsesReality(type) == type = "vless_reality"

(* What migrateProtocolLayout makes of the config; the type it makes is     *)
(* "vless".                                                                *)
MigrateLayout(cfg) ==
  IF cfg.transport = Missing
  THEN [cfg EXCEPT !.transport = "tcp", !.security = "reality"] ELSE cfg

WithKeys(cfg, pair) == [cfg EXCEPT !.private_key = pair, !.public_key = pair]

(* Mutant: everything is generated anew when anything is missing.          *)
EnsureRealityAll(cfg, pair, sid) ==
  IF cfg.private_key # Missing /\ cfg.short_id # Missing THEN cfg
  ELSE [WithKeys(cfg, pair) EXCEPT !.short_id = sid, !.short_ids = sid]

(* Mutant: the short id itself is a list.                                  *)
EnsureRealityListed(cfg, pair, sid) ==
  LET keyed == IF cfg.private_key = Missing THEN WithKeys(cfg, pair) ELSE cfg
  IN  IF cfg.short_id = Missing /\ cfg.short_ids = Missing
      THEN [keyed EXCEPT !.short_id = <<sid>>, !.short_ids = sid] ELSE keyed

(* EnsureRealityConfig: a pair if the private key is missing (a missing     *)
(* public key alone is not repaired), a short id if there is none at all.  *)
EnsureRealityConfig(cfg, pair, sid) ==
  LET keyed == IF cfg.private_key = Missing THEN WithKeys(cfg, pair) ELSE cfg
  IN  IF cfg.short_id = Missing /\ cfg.short_ids = Missing
      THEN [keyed EXCEPT !.short_id = sid, !.short_ids = sid] ELSE keyed

-----------------------------------------------------------------------------
Reality(side) == side.security = "reality"

(* buildVLESSFromProtocol: a row of the earlier type has REALITY unless it  *)
(* says something else, and Vision is the default only where Xray has it.   *)
VlessInbound(type, cfg) ==
  LET network  == Or(cfg.transport, "tcp")
      named    == Or(cfg.security, "none")
      security == IF UsesReality(type) /\ named = "none" THEN "reality" ELSE named
  IN  [network |-> network, security |-> security, endpoint |-> cfg.endpoint,
       flow |-> Or(cfg.flow, IF network = "tcp" /\ security # "none"
                             THEN Vision ELSE ""),
       private_key |-> cfg.private_key,
       short_ids |-> {Or(cfg.short_ids, cfg.short_id)}]

(* BuildVLESSURI: REALITY whatever a row of the earlier type says, and      *)
(* Vision for it if it has no flow; no other default flow, and no ws or     *)
(* grpc parameters.                                                        *)
VlessLink(type, cfg) ==
  LET flow == Or(cfg.flow, "")
  IN  [network |-> Or(cfg.transport, "tcp"),
       security |-> IF UsesReality(type) THEN "reality" ELSE Or(cfg.security, "none"),
       endpoint |-> "default",
       flow |-> IF UsesReality(type) /\ flow = "" THEN Vision ELSE flow,
       public_key |-> cfg.public_key,
       short_id |-> Or(cfg.short_id, cfg.short_ids)]

(* Vision over anything but secured TCP is no connection: config.go:310     *)
(* makes it the default, and the panel offers it, only there.              *)
VisionFits(side) == side.flow = Vision => side.network = "tcp" /\ side.security # "none"

(* A client with this link gets through to this inbound.                   *)
Dials(link, inbound) ==
  /\ link.network = inbound.network
  /\ link.security = inbound.security
  /\ link.flow = inbound.flow
  /\ VisionFits(inbound)
  /\ link.network \in {"ws", "grpc"} => link.endpoint = inbound.endpoint
  /\ Reality(inbound) =>
       /\ inbound.private_key # Missing
       /\ link.public_key = inbound.private_key
       /\ link.short_id \in inbound.short_ids

-----------------------------------------------------------------------------
(* The panel's form (vlessForm) shows these fields of a config ...         *)
Form(cfg) ==
  [transport |-> Or(cfg.transport, "tcp"), security |-> Or(cfg.security, "reality"),
   flow |-> Or(cfg.flow, Vision), endpoint |-> cfg.endpoint,
   short_id |-> cfg.short_id]

(* Mutant: the form saves no keys while REALITY is off.                    *)
ReadVlessFormHidden(base, form) ==
  LET saved == [base EXCEPT !.transport = form.transport, !.security = form.security,
                            !.flow = form.flow, !.endpoint = form.endpoint,
                            !.short_id = form.short_id]
  IN  IF form.security = "reality" THEN saved
      ELSE [saved EXCEPT !.private_key = Missing, !.public_key = Missing]

(* ... and readVlessForm writes them over the config it was opened with:    *)
(* the keys and the list short_ids are the old ones.                       *)
ReadVlessForm(base, form) ==
  [base EXCEPT !.transport = form.transport, !.security = form.security,
               !.flow = form.flow, !.endpoint = form.endpoint,
               !.short_id = form.short_id]
=============================================================================
