-------------------------- MODULE MCProtocolEditing --------------------------
(***************************************************************************)
(* ProtocolEditing for TLC: two tabs over the row as seeded, and over four  *)
(* rows of earlier versions.                                               *)
(***************************************************************************)
EXTENDS ProtocolEditing, TLC

CONSTANTS k1, k2, s1, s2

MCKeyPairs == {k1, k2}
MCShortIds == {s1, s2}

MCSeeded ==
  [transport |-> "tcp", security |-> "reality", flow |-> Vision,
   endpoint |-> "default", private_key |-> Missing, public_key |-> Missing,
   short_id |-> Missing, short_ids |-> Missing]

(* Before the layout with transports; and with nothing but a private key.   *)
MCOldLayout ==
  [WithKeys(MCSeeded, k1) EXCEPT !.transport = Missing, !.security = Missing,
     !.flow = Missing, !.short_id = s1]
MCPrivateOnly == [MCSeeded EXCEPT !.private_key = k1]
(* The old layout without REALITY: the migration switches it on.            *)
MCPlain == [MCOldLayout EXCEPT !.private_key = Missing, !.public_key = Missing,
              !.short_id = Missing]

(* The earlier type beside the later layout.                               *)
MCLegacy == [MCSeeded EXCEPT !.security = "none"]

Row(typ, installed, cfg) ==
  [type |-> typ, row |-> [enabled |-> installed, installed |-> installed, config |-> cfg]]

MCInitialRows ==
  {Row("vless", FALSE, MCSeeded), Row("vless_reality", TRUE, MCOldLayout),
   Row("vless", FALSE, MCPrivateOnly), Row("vless", TRUE, MCPlain),
   Row("vless_reality", FALSE, MCLegacy)}

MCSymmetry == Permutations(Tabs)

MCEdits == {<<"security", "none">>, <<"security", "reality">>, <<"short_id", s2>>,
            <<"transport", "ws">>, <<"flow", "">>}
=============================================================================
