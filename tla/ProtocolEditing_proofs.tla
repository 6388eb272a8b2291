------------------------ MODULE ProtocolEditing_proofs ------------------------
(***************************************************************************)
(* Tabs, handlers and restarts over one row, for any number of tabs, keys   *)
(* and edits: the row keeps its type, its key halves belong together, and a *)
(* private key is lost only to a writer whose copy was out of date.         *)
(*                                                                         *)
(* The strengthening is the same each time: what holds of the row must hold *)
(* of every copy of it that may still be written back.                     *)
(***************************************************************************)
EXTENDS ProtocolEditing, TLAPS

USE ProtocolEditingAssumption

Forms ==
  [transport : Transports, security : Securities, flow : {"", Vision},
   endpoint : {"default", "custom"}, short_id : {Missing} \cup ShortIds]

-----------------------------------------------------------------------------
(* The form shows a value the panel can save, whatever the config lacks ... *)
LEMMA FormType ==
  ASSUME NEW cfg \in VlessConfigs
  PROVE  Form(cfg) \in Forms
BY DEF VlessConfigs, Form, Forms, Or, Transports, Securities, Vision

(* ... and still does after one field was edited.                          *)
LEMMA EditedFormType ==
  ASSUME NEW form \in Forms, NEW e \in Edits
  PROVE  [form EXCEPT ![e[1]] = e[2]] \in Forms
<1> USE DEF Forms
<1>1. CASE e \in {"transport"} \X Transports
  <2>1. e[1] = "transport" /\ e[2] \in Transports
    BY <1>1
  <2> QED
    BY <2>1
<1>2. CASE e \in {"security"} \X Securities
  <2>1. e[1] = "security" /\ e[2] \in Securities
    BY <1>2
  <2> QED
    BY <2>1
<1>3. CASE e \in {"flow"} \X {"", Vision}
  <2>1. e[1] = "flow" /\ e[2] \in {"", Vision}
    BY <1>3
  <2> QED
    BY <2>1
<1>4. CASE e \in {"endpoint"} \X {"default", "custom"}
  <2>1. e[1] = "endpoint" /\ e[2] \in {"default", "custom"}
    BY <1>4
  <2> QED
    BY <2>1
<1>5. CASE e \in {"short_id"} \X ({Missing} \cup ShortIds)
  <2>1. e[1] = "short_id" /\ e[2] \in {Missing} \cup ShortIds
    BY <1>5
  <2> QED
    BY <2>1
<1> QED
  BY <1>1, <1>2, <1>3, <1>4, <1>5 DEF EditTypes

(* Saving a form keeps the type, the keys and the list of short ids.        *)
LEMMA ReadVlessFormType ==
  ASSUME NEW cfg \in VlessConfigs, NEW form \in Forms
  PROVE  /\ ReadVlessForm(cfg, form) \in VlessConfigs
         /\ ReadVlessForm(cfg, form).private_key = cfg.private_key
         /\ ReadVlessForm(cfg, form).public_key = cfg.public_key
BY DEF VlessConfigs, Forms, ReadVlessForm

(* EnsureRealityConfig keeps the type and a private key that is there, and  *)
(* halves that belong together.                                            *)
LEMMA EnsureRealityType ==
  ASSUME NEW cfg \in VlessConfigs, NEW pair \in KeyPairs, NEW sid \in ShortIds
  PROVE  LET new == EnsureRealityConfig(cfg, pair, sid)
         IN  /\ new \in VlessConfigs
             /\ cfg.private_key # Missing => new.private_key = cfg.private_key
             /\ Matching(cfg) => Matching(new)
BY DEF VlessConfigs, EnsureRealityConfig, WithKeys, Matching

(* So does the migration of the layout.                                    *)
LEMMA MigrateLayoutType ==
  ASSUME NEW cfg \in VlessConfigs
  PROVE  /\ MigrateLayout(cfg) \in VlessConfigs
         /\ MigrateLayout(cfg).private_key = cfg.private_key
         /\ MigrateLayout(cfg).public_key = cfg.public_key
<1>1. CASE cfg.transport = Missing
  <2>1. /\ [cfg EXCEPT !.transport = "tcp", !.security = "reality"] \in VlessConfigs
        /\ MigrateLayout(cfg) = [cfg EXCEPT !.transport = "tcp", !.security = "reality"]
    BY <1>1 DEF VlessConfigs, MigrateLayout, Transports, Securities
  <2> QED
    BY <2>1 DEF VlessConfigs
<1> QED
  BY <1>1 DEF MigrateLayout

-----------------------------------------------------------------------------
(* A handler under way has its request, and its row once it has read it.    *)
Busy ==
  \A t \in Tabs :
    /\ stage[t] # "idle" => request[t] # None
    /\ stage[t] = "commit" => loaded[t] # None

(* A body that may still be written has matching halves and the private key *)
(* of the row its tab had.                                                 *)
SoundRequest(r) ==
  /\ Matching(r.base.config)
  /\ r.kind = "put" =>
       /\ Matching(r.body.config)
       /\ r.body.config.private_key = r.base.config.private_key

(* KeyPairsMatch for the row and everything that may be written to it.      *)
AllMatch ==
  /\ Matching(row.config)
  /\ \A t \in Tabs :
       /\ copy[t] # None => Matching(copy[t].config)
       /\ loaded[t] # None => Matching(loaded[t].config)
       /\ request[t] # None => SoundRequest(request[t])

Inv == TypeOK /\ Busy /\ AllMatch

LEMMA InitInv == Init => Inv
<1> SUFFICES ASSUME Init PROVE Inv
  OBVIOUS
<1>1. type \in Types /\ row \in Rows /\ Matching(row.config)
  BY DEF Init
<1>2. TypeOK
  BY <1>1 DEF Init, TypeOK, Gaps
<1>3. Busy
  BY DEF Init, Busy
<1>4. AllMatch
  BY <1>1 DEF Init, AllMatch
<1> QED
  BY <1>2, <1>3, <1>4 DEF Inv

(* What a tab sends is of a request's type and sound.                      *)
LEMMA SendStep ==
  ASSUME Inv, NEW t \in Tabs, NEW r \in Puts \cup Installs, SoundRequest(r), Send(t, r)
  PROVE  Inv'
<1>1. /\ UNCHANGED <<type, row, agent, copy, loaded, crashes, faults, outdated, touched,
                       handed>>
      /\ request' = [request EXCEPT ![t] = r]
      /\ stage' = [stage EXCEPT ![t] = "get"]
      /\ received' = received + 1
  BY DEF Send, history
<1>2. TypeOK'
  BY <1>1 DEF Inv, TypeOK
<1>3. r # None
  OBVIOUS
<1>4. Busy'
  BY <1>1, <1>3 DEF Inv, TypeOK, Busy
<1>5. AllMatch'
  BY <1>1, <1>3 DEF Inv, TypeOK, AllMatch
<1> QED
  BY <1>2, <1>4, <1>5 DEF Inv

(* A PUT of a row made from the tab's copy.                                 *)
LEMMA SendPutStep ==
  ASSUME Inv, NEW t \in Tabs, copy[t] # None, NEW body \in Rows,
         body.config.private_key = copy[t].config.private_key,
         body.config.public_key = copy[t].config.public_key,
         SendPut(t, body)
  PROVE  Inv'
<1> DEFINE r == [kind |-> "put", body |-> body, base |-> copy[t]]
<1>1. copy[t] \in Rows /\ Matching(copy[t].config)
  BY DEF Inv, TypeOK, AllMatch
<1>2. r \in Puts
  BY <1>1 DEF Puts
<1>3. SoundRequest(r)
  BY <1>1 DEF SoundRequest, Matching
<1>4. Send(t, r)
  BY DEF SendPut
<1> HIDE DEF r
<1> QED
  BY <1>2, <1>3, <1>4, SendStep

(* Writing a row of its type with matching halves.                         *)
LEMMA CommitStep ==
  ASSUME Inv, NEW t \in Tabs, NEW base, NEW new \in Rows, Matching(new.config),
         Commit(t, base, new), touched' \in SUBSET Fields
  PROVE  Inv'
<1>1. /\ UNCHANGED <<type, agent, copy, received, crashes, faults, handed>>
      /\ row' = new
      /\ request' = [request EXCEPT ![t] = None]
      /\ stage' = [stage EXCEPT ![t] = "idle"]
      /\ loaded' = [loaded EXCEPT ![t] = None]
      /\ outdated' \in BOOLEAN
  BY DEF Commit, Done, bounds, Inv, TypeOK
<1>2. TypeOK'
  BY <1>1 DEF Inv, TypeOK
<1>3. Busy'
  BY <1>1 DEF Inv, TypeOK, Busy
<1>4. AllMatch'
  BY <1>1 DEF Inv, TypeOK, AllMatch
<1> QED
  BY <1>2, <1>3, <1>4 DEF Inv

(* Every step of the panel, of a handler and of the agent keeps Inv.        *)
LEMMA InvNext == Inv /\ [Next]_vars => Inv'
<1> SUFFICES ASSUME Inv, [Next]_vars PROVE Inv'
  OBVIOUS
<1>1. CASE Start
  <2>1. /\ UNCHANGED <<copy, request, stage, loaded, received, crashes, outdated, handed>>
        /\ agent' = "up" /\ faults' \in Nat /\ touched' \in SUBSET Fields
        /\ type' \in Types
        /\ row' = row \/ row' = [row EXCEPT !.config = MigrateLayout(@)]
    BY <1>1 DEF Start, handler, Inv, TypeOK, Gaps, Types
  <2>2. row' \in Rows /\ Matching(row'.config)
    <3>1. row \in Rows /\ Matching(row.config) /\ row.config \in VlessConfigs
      BY DEF Inv, TypeOK, AllMatch, Rows
    <3>2. /\ MigrateLayout(row.config) \in VlessConfigs
          /\ Matching(MigrateLayout(row.config))
      BY <3>1, MigrateLayoutType DEF Matching
    <3>3. [row EXCEPT !.config = MigrateLayout(@)] \in Rows
      BY <3>1, <3>2 DEF Rows
    <3>4. row' = row \/ row'.config = MigrateLayout(row.config)
      BY <2>1, <3>1 DEF Rows
    <3> QED
      BY <2>1, <3>1, <3>2, <3>3, <3>4
  <2> QED
    BY <2>1, <2>2 DEF Inv, TypeOK, Busy, AllMatch
<1>2. CASE Crash
  BY <1>2 DEF Crash, history, Inv, TypeOK, Busy, AllMatch
<1>3. CASE Fetch
  BY <1>3 DEF Fetch, handler, bounds, Inv, TypeOK, Busy, AllMatch, Rows
<1>4. ASSUME NEW t \in Tabs, Load(t) PROVE Inv'
  BY <1>4 DEF Load, handler, bounds, history, Inv, TypeOK, Busy, AllMatch
<1>5. ASSUME NEW t \in Tabs, ToggleProto(t) PROVE Inv'
  <2>1. copy[t] # None /\ copy[t] \in Rows
    BY <1>5 DEF ToggleProto, Inv, TypeOK
  <2> DEFINE body == [copy[t] EXCEPT !.enabled = ~@]
  <2>2. body \in Rows /\ body.config = copy[t].config
    BY <2>1 DEF Rows
  <2>3. SendPut(t, body)
    BY <1>5 DEF ToggleProto
  <2> HIDE DEF body
  <2> QED
    BY <2>1, <2>2, <2>3, SendPutStep
<1>6. ASSUME NEW t \in Tabs, EditProto(t) PROVE Inv'
  <2>1. copy[t] # None /\ copy[t] \in Rows /\ copy[t].config \in VlessConfigs
    BY <1>6 DEF EditProto, Inv, TypeOK, Rows
  <2> DEFINE cfg == copy[t].config
  <2>2. PICK form \in {Form(cfg)} \cup {[Form(cfg) EXCEPT ![e[1]] = e[2]] : e \in Edits} :
          SendPut(t, [copy[t] EXCEPT !.config = ReadVlessForm(cfg, form)])
    BY <1>6 DEF EditProto
  <2>3. form \in Forms
    <3>1. Form(cfg) \in Forms
      BY <2>1, FormType
    <3> QED
      BY <2>2, <3>1, EditedFormType
  <2> DEFINE saved == ReadVlessForm(cfg, form)
             body == [copy[t] EXCEPT !.config = saved]
  <2>4. /\ saved \in VlessConfigs
        /\ saved.private_key = cfg.private_key
        /\ saved.public_key = cfg.public_key
    BY <2>1, <2>3, ReadVlessFormType
  <2>5. SendPut(t, body)
    BY <2>2
  <2> HIDE DEF saved
  <2>6. body \in Rows /\ body.config = saved
    BY <2>1, <2>4 DEF Rows
  <2> HIDE DEF body
  <2> QED
    BY <2>1, <2>4, <2>5, <2>6, SendPutStep
<1>7. ASSUME NEW t \in Tabs, InstallProto(t) PROVE Inv'
  <2> DEFINE r == [kind |-> "install", base |-> copy[t]]
  <2>1. copy[t] \in Rows /\ Matching(copy[t].config)
    BY <1>7 DEF InstallProto, Inv, TypeOK, AllMatch
  <2>2. r \in Installs /\ SoundRequest(r)
    BY <2>1 DEF Installs, SoundRequest
  <2>3. Send(t, r)
    BY <1>7 DEF InstallProto
  <2> HIDE DEF r
  <2> QED
    BY <2>2, <2>3, SendStep
<1>8. ASSUME NEW t \in Tabs, GetProtocol(t) PROVE Inv'
  <2>1. row \in Rows /\ row # None
    BY DEF Inv, TypeOK
  <2> QED
    BY <1>8, <2>1 DEF GetProtocol, bounds, history, Inv, TypeOK, Busy, AllMatch
<1>9. ASSUME NEW t \in Tabs, PutProtocol(t) PROVE Inv'
  <2>1. request[t] \in Puts /\ SoundRequest(request[t])
    BY <1>9 DEF PutProtocol, Inv, TypeOK, Busy, AllMatch, Installs
  <2>2. /\ request[t].body \in Rows
        /\ Matching(request[t].body.config)
    BY <1>9, <2>1 DEF PutProtocol, Puts, SoundRequest
  <2>3. touched' \in SUBSET Fields
    BY <1>9 DEF PutProtocol, Inv, TypeOK, Changed
  <2> QED
    BY <1>9, <2>2, <2>3, CommitStep DEF PutProtocol
<1>10. ASSUME NEW t \in Tabs, InstallProtocol(t) PROVE Inv'
  <2>1. loaded[t] \in Rows /\ Matching(loaded[t].config)
    BY <1>10 DEF InstallProtocol, Inv, TypeOK, Busy, AllMatch
  <2> DEFINE cfg == loaded[t].config
  <2>2. PICK pair \in KeyPairs, sid \in ShortIds :
          Commit(t, loaded[t],
             [loaded[t] EXCEPT !.installed = TRUE, !.config =
                IF NeedsReality(cfg) THEN EnsureRealityConfig(cfg, pair, sid) ELSE cfg])
    BY <1>10 DEF InstallProtocol
  <2> DEFINE filled == IF NeedsReality(cfg) THEN EnsureRealityConfig(cfg, pair, sid) ELSE cfg
             new == [loaded[t] EXCEPT !.installed = TRUE, !.config = filled]
  <2>3. filled \in VlessConfigs /\ Matching(filled)
    <3>1. cfg \in VlessConfigs
      BY <2>1 DEF Rows
    <3> QED
      BY <2>1, <3>1, EnsureRealityType
  <2>4. Commit(t, loaded[t], new)
    BY <2>2
  <2> HIDE DEF filled
  <2>5. new \in Rows /\ Matching(new.config)
    BY <2>1, <2>3 DEF Rows
  <2>6. touched' \in SUBSET Fields
    BY <1>10 DEF InstallProtocol, Inv, TypeOK
  <2> HIDE DEF new
  <2> QED
    BY <2>4, <2>5, <2>6, CommitStep
<1>11. ASSUME NEW t \in Tabs, StatementFails(t) PROVE Inv'
  BY <1>11 DEF StatementFails, Done, history, Inv, TypeOK, Busy, AllMatch
<1>12. CASE UNCHANGED vars
  BY <1>12 DEF vars, Inv, TypeOK, Busy, AllMatch
<1> QED
  BY <1>1, <1>2, <1>3, <1>4, <1>5, <1>6, <1>7, <1>8, <1>9, <1>10, <1>11, <1>12
     DEF Next, Panel, Handle

LEMMA InvAlways == Spec => []Inv
BY InitInv, InvNext, PTL DEF Spec

(* The row, every tab's copy, every request and every row read by a handler *)
(* have their types in every reachable state.                              *)
THEOREM TypeCorrect == Spec => []TypeOK
<1>1. Inv => TypeOK
  BY DEF Inv
<1> QED
  BY <1>1, InvAlways, PTL

(* The halves of the key in the row belong together, for any tabs, edits    *)
(* and overlapping installations (InstallProtocol, EnsureRealityConfig).    *)
THEOREM KeysBelongTogether == Spec => []KeyPairsMatch
<1>1. Inv => KeyPairsMatch
  BY DEF Inv, AllMatch, KeyPairsMatch
<1> QED
  BY <1>1, InvAlways, PTL

(* A private key that is there is lost only to a writer whose copy of the   *)
(* row was out of date (PutProtocol, InstallProtocol).                      *)
THEOREM CredentialsSurvive == Spec => CredentialStays
<1>1. ASSUME Inv, [Next]_vars, row.config.private_key # Missing,
             row'.config.private_key # row.config.private_key
      PROVE  outdated'
  <2>1. row \in Rows /\ row.config \in VlessConfigs
    BY <1>1 DEF Inv, TypeOK, Rows
  <2>2. CASE Start
    <3>1. [row EXCEPT !.config = MigrateLayout(@)].config = MigrateLayout(row.config)
      BY <2>1 DEF Rows
    <3> QED
      BY <1>1, <2>1, <2>2, <3>1, MigrateLayoutType DEF Start
  <2>3. ASSUME NEW t \in Tabs, PutProtocol(t) PROVE outdated'
    <3>1. request[t] # None /\ SoundRequest(request[t])
      BY <1>1, <2>3 DEF PutProtocol, Inv, Busy, AllMatch
    <3>2. request[t].body.config.private_key = request[t].base.config.private_key
      BY <2>3, <3>1 DEF PutProtocol, SoundRequest
    <3>3. row # request[t].base
      BY <1>1, <2>3, <3>2 DEF PutProtocol, Commit
    <3> QED
      BY <2>3, <3>3 DEF PutProtocol, Commit
  <2>4. ASSUME NEW t \in Tabs, InstallProtocol(t) PROVE outdated'
    <3>1. CASE loaded[t] = row
      <4> DEFINE cfg == row.config
      <4>1. PICK pair \in KeyPairs, sid \in ShortIds :
              row' = [row EXCEPT !.installed = TRUE, !.config =
                IF NeedsReality(cfg) THEN EnsureRealityConfig(cfg, pair, sid) ELSE cfg]
        BY <2>4, <3>1 DEF InstallProtocol, Commit
      <4>2. row'.config = IF NeedsReality(cfg) THEN EnsureRealityConfig(cfg, pair, sid) ELSE cfg
        BY <2>1, <4>1 DEF Rows
      <4> QED
        BY <1>1, <2>1, <4>2, EnsureRealityType
    <3>2. CASE loaded[t] # row
      BY <2>4, <3>2 DEF InstallProtocol, Commit
    <3> QED
      BY <3>1, <3>2
  <2>5. ASSUME UNCHANGED row PROVE outdated'
    BY <1>1, <2>5
  <2> QED
    BY <1>1, <2>2, <2>3, <2>4, <2>5
       DEF Next, Crash, Fetch, Panel, Handle, Load, ToggleProto, EditProto, SendPut,
           InstallProto, Send, GetProtocol, StatementFails, vars
<1>2. Inv /\ [Next]_vars =>
        (row.config.private_key # Missing
           /\ row'.config.private_key # row.config.private_key => outdated')
  BY <1>1
<1> QED
  BY <1>2, InvAlways, PTL DEF Spec, CredentialStays
-----------------------------------------------------------------------------
(* The fields with a gap known to LinkDials.                               *)
GapFields == {"security", "short_id", "endpoint"}

(* A row has none of the gaps, under a type, unless one of the fields       *)
(* touched opened it.                                                      *)
Sealed(fields, typ, r) == fields \cap GapFields = {} => Gaps(typ, r) = {}

(* A body that changes none of those fields has the gaps of its base, and   *)
(* every body the list of short ids of its base.                           *)
Careful(r) ==
  r.kind = "put" =>
    /\ r.body.config.short_ids = r.base.config.short_ids
    /\ Changed(r.base, r.body) \cap GapFields = {} =>
         \A typ \in Types : Gaps(typ, r.body) = Gaps(typ, r.base)

(* What LinkDials needs, of the row and of everything that may be written   *)
(* to it.                                                                  *)
AllSealed ==
  /\ Sealed(touched, type, row)
  /\ \A t \in Tabs :
       /\ copy[t] # None => Sealed(touched, type, copy[t])
       /\ loaded[t] # None => Sealed(touched, type, loaded[t])
       /\ request[t] # None =>
            Careful(request[t]) /\ Sealed(touched, type, request[t].base)

LEMMA GapsAre ==
  ASSUME NEW typ, NEW r
  PROVE  /\ Gaps(typ, r) \subseteq GapFields
         /\ "security" \in Gaps(typ, r) <=>
              \/ /\ r.installed /\ Reality(VlessInbound(typ, r.config))
                 /\ r.config.private_key = Missing
              \/ UsesReality(typ) /\ r.config.security = "tls"
         /\ "short_id" \in Gaps(typ, r) <=>
              Or(r.config.short_id, r.config.short_ids)
                # Or(r.config.short_ids, r.config.short_id)
         /\ "endpoint" \in Gaps(typ, r) <=> r.config.endpoint # "default"
BY DEF Gaps, GapFields, Fields

(* Where the code looks for REALITY before it makes keys (InstallProtocol),  *)
(* it looks where the inbound has it (buildVLESSFromProtocol).             *)
LEMMA RealityIs ==
  ASSUME NEW typ \in Types, NEW cfg \in VlessConfigs
  PROVE  Reality(VlessInbound(typ, cfg)) <=>
           IF UsesReality(typ) THEN cfg.security # "tls" ELSE cfg.security = "reality"
BY VlessPresetAssumption DEF Reality, VlessInbound, Or, VlessConfigs, Securities

(* The type that the migration makes opens no gap in any copy.              *)
LEMMA VlessOpensNone ==
  ASSUME NEW typ \in Types, NEW r \in Rows, Gaps(typ, r) = {}
  PROVE  Gaps("vless", r) = {}
<1>1. "vless" \in Types /\ ~ UsesReality("vless") /\ r.config \in VlessConfigs
  BY DEF Types, UsesReality, Rows
<1>2. Reality(VlessInbound("vless", r.config)) => Reality(VlessInbound(typ, r.config))
  BY <1>1, RealityIs
<1>3. "security" \notin Gaps("vless", r)
  BY <1>1, <1>2, GapsAre
<1>4. "short_id" \notin Gaps("vless", r) /\ "endpoint" \notin Gaps("vless", r)
  BY GapsAre
<1> QED
  BY <1>3, <1>4, GapsAre DEF GapFields

(* A saved form that leaves the fields with gaps alone opens none.          *)
LEMMA FormOpensNone ==
  ASSUME NEW typ \in Types, NEW r \in Rows, NEW form \in Forms, NEW body \in Rows,
         body.installed = r.installed, body.config = ReadVlessForm(r.config, form),
         Changed(r, body) \cap GapFields = {}
  PROVE  Gaps(typ, body) = Gaps(typ, r)
<1>1. r.config \in VlessConfigs /\ body.config \in VlessConfigs
  BY DEF Rows
<1>2. /\ body.config.security = r.config.security
      /\ body.config.short_id = r.config.short_id
      /\ body.config.endpoint = r.config.endpoint
  BY DEF Changed, GapFields, Fields
<1>3. /\ body.config.private_key = r.config.private_key
      /\ body.config.short_ids = r.config.short_ids
  BY <1>1 DEF ReadVlessForm, VlessConfigs
<1>4. Reality(VlessInbound(typ, body.config)) <=> Reality(VlessInbound(typ, r.config))
  BY <1>1, <1>2, RealityIs
<1> QED
  BY <1>2, <1>3, <1>4 DEF Gaps

(* An installation opens none: where REALITY is on there is a key, and a     *)
(* short id is made together with its list.                                *)
LEMMA InstallOpensNone ==
  ASSUME type \in Types,
         NEW r \in Rows, NEW new \in Rows, NEW pair \in KeyPairs, NEW sid \in ShortIds,
         new.config = IF NeedsReality(r.config) THEN EnsureRealityConfig(r.config, pair, sid)
                                                ELSE r.config,
         Gaps(type, r) = {}
  PROVE  Gaps(type, new) = {}
<1>1. r.config \in VlessConfigs /\ new.config \in VlessConfigs
  BY DEF Rows
<1>2. CASE NeedsReality(r.config)
  <2> DEFINE cfg == EnsureRealityConfig(r.config, pair, sid)
  <2>1. /\ cfg.private_key # Missing
        /\ cfg.endpoint = r.config.endpoint
        /\ cfg.security = r.config.security
        /\ \/ cfg.short_id = r.config.short_id /\ cfg.short_ids = r.config.short_ids
           \/ cfg.short_id = cfg.short_ids
    BY <1>1, VlessPresetAssumption DEF EnsureRealityConfig, WithKeys, VlessConfigs
  <2>2. new.config = cfg
    BY <1>2
  <2> HIDE DEF cfg
  <2>3. /\ "short_id" \notin Gaps(type, new)
        /\ "endpoint" \notin Gaps(type, new)
        /\ "security" \notin Gaps(type, new)
    BY <2>1, <2>2, GapsAre DEF Or
  <2> QED
    BY <2>3, GapsAre DEF GapFields
<1>3. CASE ~ NeedsReality(r.config)
  <2>1. new.config = r.config /\ ~ UsesReality(type)
    BY <1>3 DEF NeedsReality
  <2>2. ~ Reality(VlessInbound(type, new.config))
    BY <1>1, <1>3, <2>1, RealityIs DEF NeedsReality
  <2>3. /\ "short_id" \notin Gaps(type, new)
        /\ "endpoint" \notin Gaps(type, new)
        /\ "security" \notin Gaps(type, new)
    BY <2>1, <2>2, GapsAre
  <2> QED
    BY <2>3, GapsAre DEF GapFields
<1> QED
  BY <1>2, <1>3

(* What was sealed stays so as fields are touched.                         *)
LEMMA SealedGrows ==
  ASSUME NEW before, NEW after, before \subseteq after, NEW typ, NEW r,
         Sealed(before, typ, r)
  PROVE  Sealed(after, typ, r)
BY DEF Sealed

(* A request made from the tab's copy.                                     *)
LEMMA SealedSend ==
  ASSUME Inv, AllSealed, NEW t \in Tabs, copy[t] # None, NEW r, r.base = copy[t],
         Careful(r), Send(t, r)
  PROVE  AllSealed'
<1>1. /\ UNCHANGED <<type, row, copy, loaded, touched>>
      /\ request' = [request EXCEPT ![t] = r]
  BY DEF Send, history
<1>2. ASSUME NEW s \in Tabs
      PROVE  request'[s] = IF s = t THEN r ELSE request[s]
  BY <1>1 DEF Inv, TypeOK
<1> QED
  BY <1>1, <1>2 DEF AllSealed

(* Whatever a handler writes is sealed with what it touched.               *)
LEMMA SealedCommit ==
  ASSUME Inv, AllSealed, NEW t \in Tabs, NEW base, NEW new, Commit(t, base, new),
         touched \subseteq touched', Sealed(touched', type, new)
  PROVE  AllSealed'
<1>1. /\ row' = new /\ copy' = copy /\ type' = type
      /\ request' = [request EXCEPT ![t] = None]
      /\ loaded' = [loaded EXCEPT ![t] = None]
  BY DEF Commit, Done
<1>2. ASSUME NEW s \in Tabs
      PROVE  /\ request'[s] = IF s = t THEN None ELSE request[s]
             /\ loaded'[s] = IF s = t THEN None ELSE loaded[s]
  BY <1>1 DEF Inv, TypeOK
<1> QED
  BY <1>1, <1>2, SealedGrows DEF AllSealed

LEMMA SealedNext == Inv /\ AllSealed /\ [Next]_vars => AllSealed'
<1> SUFFICES ASSUME Inv, AllSealed, [Next]_vars PROVE AllSealed'
  OBVIOUS
<1>1. CASE Start
  <2>1. UNCHANGED <<copy, request, loaded>> /\ touched \subseteq touched'
    BY <1>1 DEF Start, handler
  <2>2. type' = type \/ type' = "vless"
    BY <1>1 DEF Start
  <2>3. ASSUME NEW r \in Rows, Sealed(touched, type, r) PROVE Sealed(touched', type', r)
    <3>1. type \in Types
      BY DEF Inv, TypeOK
    <3> QED
      BY <2>1, <2>2, <2>3, <3>1, VlessOpensNone DEF Sealed
  <2>4. Sealed(touched', type', row')
    <3>1. CASE touched' = touched /\ type' = type /\ row' = row
      BY <3>1 DEF AllSealed
    <3>2. CASE touched' = touched \cup (Gaps(type', row') \ Gaps(type, row))
      <4>1. touched' \cap GapFields = {} => Gaps(type, row) = {}
        BY <3>2 DEF AllSealed, Sealed
      <4>2. Gaps(type', row') \subseteq GapFields
        BY GapsAre
      <4> QED
        BY <3>2, <4>1, <4>2 DEF Sealed
    <3> QED
      BY <1>1, <3>1, <3>2 DEF Start
  <2>5. ASSUME NEW t \in Tabs
        PROVE  /\ copy[t] \in {None} \cup Rows /\ loaded[t] \in {None} \cup Rows
               /\ request[t] # None => request[t].base \in Rows
    BY DEF Inv, TypeOK, Puts, Installs
  <2> QED
    BY <2>1, <2>3, <2>4, <2>5 DEF AllSealed
<1>2. CASE Crash
  BY <1>2 DEF Crash, history, AllSealed
<1>3. CASE Fetch
  BY <1>3 DEF Fetch, handler, AllSealed
<1>4. ASSUME NEW t \in Tabs, Load(t) PROVE AllSealed'
  BY <1>4 DEF Load, handler, bounds, history, Inv, TypeOK, AllSealed
<1>5. ASSUME NEW t \in Tabs, ToggleProto(t) PROVE AllSealed'
  <2>1. copy[t] # None /\ copy[t] \in Rows
    BY <1>5 DEF ToggleProto, Inv, TypeOK
  <2> DEFINE body == [copy[t] EXCEPT !.enabled = ~@]
             r == [kind |-> "put", body |-> body, base |-> copy[t]]
  <2>2. body.config = copy[t].config /\ body.installed = copy[t].installed
    BY <2>1 DEF Rows
  <2>3. Careful(r)
    BY <2>2 DEF Careful, Gaps
  <2>4. Send(t, r)
    BY <1>5 DEF ToggleProto, SendPut
  <2>5. r.base = copy[t]
    OBVIOUS
  <2> HIDE DEF r
  <2> QED
    BY <2>1, <2>3, <2>4, <2>5, SealedSend
<1>6. ASSUME NEW t \in Tabs, EditProto(t) PROVE AllSealed'
  <2>1. copy[t] # None /\ copy[t] \in Rows /\ copy[t].config \in VlessConfigs
    BY <1>6 DEF EditProto, Inv, TypeOK, Rows
  <2> DEFINE cfg == copy[t].config
  <2>2. PICK form \in {Form(cfg)} \cup {[Form(cfg) EXCEPT ![e[1]] = e[2]] : e \in Edits} :
          SendPut(t, [copy[t] EXCEPT !.config = ReadVlessForm(cfg, form)])
    BY <1>6 DEF EditProto
  <2>3. form \in Forms
    <3>1. Form(cfg) \in Forms
      BY <2>1, FormType
    <3> QED
      BY <2>2, <3>1, EditedFormType
  <2> DEFINE saved == ReadVlessForm(cfg, form)
             body == [copy[t] EXCEPT !.config = saved]
             r == [kind |-> "put", body |-> body, base |-> copy[t]]
  <2>4. saved \in VlessConfigs /\ saved.short_ids = cfg.short_ids
    BY <2>1, <2>3 DEF ReadVlessForm, VlessConfigs, Forms
  <2>5. Send(t, r)
    BY <2>2 DEF SendPut
  <2>6. body \in Rows /\ body.config = ReadVlessForm(copy[t].config, form)
        /\ body.installed = copy[t].installed
    <3> HIDE DEF saved
    <3>1. body \in Rows /\ body.config = saved /\ body.installed = copy[t].installed
      BY <2>1, <2>4 DEF Rows
    <3> QED
      BY <3>1 DEF saved
  <2> HIDE DEF body
  <2>7. Careful(r)
    <3>1. body.config.short_ids = copy[t].config.short_ids
      BY <2>4, <2>6
    <3>2. ASSUME NEW typ \in Types, Changed(copy[t], body) \cap GapFields = {}
          PROVE  Gaps(typ, body) = Gaps(typ, copy[t])
      BY <2>1, <2>3, <2>6, <3>2, FormOpensNone
    <3> QED
      BY <3>1, <3>2 DEF Careful
  <2>8. r.base = copy[t]
    OBVIOUS
  <2> HIDE DEF r
  <2> QED
    BY <2>1, <2>5, <2>7, <2>8, SealedSend
<1>7. ASSUME NEW t \in Tabs, InstallProto(t) PROVE AllSealed'
  <2> DEFINE r == [kind |-> "install", base |-> copy[t]]
  <2>1. Careful(r) /\ r.base = copy[t]
    BY DEF Careful
  <2>2. copy[t] # None /\ Send(t, r)
    BY <1>7 DEF InstallProto
  <2> HIDE DEF r
  <2> QED
    BY <2>1, <2>2, SealedSend
<1>8. ASSUME NEW t \in Tabs, GetProtocol(t) PROVE AllSealed'
  BY <1>8 DEF GetProtocol, bounds, history, Inv, TypeOK, AllSealed
<1>9. ASSUME NEW t \in Tabs, PutProtocol(t) PROVE AllSealed'
  <2> DEFINE r == request[t]
  <2>1. /\ Careful(r) /\ Sealed(touched, type, r.base) /\ r.kind = "put"
        /\ type \in Types
    BY <1>9 DEF PutProtocol, Inv, TypeOK, Busy, AllSealed
  <2>2. touched' = touched \cup Changed(r.base, r.body) /\ Commit(t, r.base, r.body)
    BY <1>9 DEF PutProtocol
  <2>3. Sealed(touched', type, r.body)
    BY <2>1, <2>2 DEF Careful, Sealed
  <2> QED
    BY <2>2, <2>3, SealedCommit
<1>10. ASSUME NEW t \in Tabs, InstallProtocol(t) PROVE AllSealed'
  <2>1. /\ loaded[t] \in Rows /\ Sealed(touched, type, loaded[t])
        /\ touched' = touched /\ type \in Types
    BY <1>10 DEF InstallProtocol, Inv, TypeOK, Busy, AllSealed
  <2> DEFINE cfg == loaded[t].config
  <2>2. PICK pair \in KeyPairs, sid \in ShortIds :
          Commit(t, loaded[t],
             [loaded[t] EXCEPT !.installed = TRUE, !.config =
                IF NeedsReality(cfg) THEN EnsureRealityConfig(cfg, pair, sid) ELSE cfg])
    BY <1>10 DEF InstallProtocol
  <2> DEFINE filled == IF NeedsReality(cfg) THEN EnsureRealityConfig(cfg, pair, sid) ELSE cfg
             new == [loaded[t] EXCEPT !.installed = TRUE, !.config = filled]
  <2>3. filled \in VlessConfigs
    BY <2>1, EnsureRealityType DEF Rows
  <2>4. Commit(t, loaded[t], new)
    BY <2>2
  <2>5. new \in Rows /\ new.config = filled
    <3> HIDE DEF filled
    <3> QED
      BY <2>1, <2>3 DEF Rows
  <2> HIDE DEF new
  <2>6. Sealed(touched', type, new)
    BY <2>1, <2>5, InstallOpensNone DEF Sealed
  <2> QED
    BY <2>1, <2>4, <2>6, SealedCommit
<1>11. ASSUME NEW t \in Tabs, StatementFails(t) PROVE AllSealed'
  BY <1>11 DEF StatementFails, Done, history, Inv, TypeOK, AllSealed
<1>12. CASE UNCHANGED vars
  BY <1>12 DEF vars, AllSealed
<1> QED
  BY <1>1, <1>2, <1>3, <1>4, <1>5, <1>6, <1>7, <1>8, <1>9, <1>10, <1>11, <1>12
     DEF Next, Panel, Handle

(* A preset that is on can be dialled with its link unless one of the gaps   *)
(* named at LinkDials is there, whatever tabs, installations, crashes and   *)
(* migrations, failed ones too, did to the row in between (VlessInbound,    *)
(* VlessLink).                                                             *)
THEOREM PresetsDial == Spec => []LinkDials
<1>1. Init => AllSealed
  BY DEF Init, AllSealed, Sealed, GapFields, Gaps
<1>2. Inv /\ AllSealed => LinkDials
  <2> SUFFICES ASSUME Inv, AllSealed, Live(row),
                      touched \cap GapFields = {}, FlowFits,
                      row.config.private_key # Missing => row.config.public_key # Missing
               PROVE  Dials(VlessLink(type, row.config), VlessInbound(type, row.config))
    BY DEF LinkDials, GapFields
  <2> DEFINE cfg == row.config
             link == VlessLink(type, cfg)
             inbound == VlessInbound(type, cfg)
  <2> SUFFICES Dials(link, inbound)
    OBVIOUS
  <2>1. type \in Types /\ cfg \in VlessConfigs
    BY DEF Inv, TypeOK, Rows
  <2>2. Gaps(type, row) = {}
    BY DEF AllSealed, Sealed
  <2>3. Matching(cfg)
    BY DEF Inv, AllMatch
  <2>4. /\ Reality(inbound) => cfg.private_key # Missing
        /\ UsesReality(type) => cfg.security # "tls"
        /\ Or(cfg.short_id, cfg.short_ids) = Or(cfg.short_ids, cfg.short_id)
        /\ cfg.endpoint = "default"
    BY <2>2, GapsAre DEF Live
  <2>5. link.network = inbound.network /\ link.endpoint = inbound.endpoint
    BY <2>4 DEF VlessLink, VlessInbound
  <2>6. link.security = inbound.security
    BY <2>1, <2>4, VlessPresetAssumption
       DEF VlessLink, VlessInbound, Or, VlessConfigs, Securities
  <2>7. link.flow = inbound.flow
    BY VlessPresetAssumption DEF FlowFits, VlessLink, VlessInbound, Or
  <2>8. /\ link.public_key = cfg.public_key /\ inbound.private_key = cfg.private_key
        /\ link.short_id \in inbound.short_ids
    BY <2>4 DEF VlessLink, VlessInbound
  <2>9. VisionFits(inbound)
    BY DEF FlowFits
  <2> HIDE DEF link, inbound
  <2> QED
    BY <2>3, <2>4, <2>5, <2>6, <2>7, <2>8, <2>9 DEF Dials, Matching
<1> QED
  BY <1>1, <1>2, InvAlways, SealedNext, PTL DEF Spec
-----------------------------------------------------------------------------
(* The row keeps the secrets that a link was made from, unless somebody      *)
(* wrote over a newer row, whatever else it has become: switching REALITY   *)
(* off and on, or installing again, makes no new key, and no list where     *)
(* there is one.                                                           *)
KeepsFaith(cfg) ==
  /\ row.config.private_key = cfg.private_key
  /\ cfg.short_ids # Missing => row.config.short_ids = cfg.short_ids
  /\ cfg.short_ids = Missing /\ "short_id" \notin touched =>
       \/ row.config.short_ids = Missing /\ row.config.short_id = cfg.short_id
       \/ cfg.short_id = Missing /\ row.config.short_id # Missing

(* The link in a client's hands was one that worked.                        *)
HandedFaith ==
  handed # None =>
    LET served == VlessInbound(handed.type, handed.config)
    IN  /\ Dials(VlessLink(handed.type, handed.config), served)
        /\ ~outdated /\ Reality(served) => KeepsFaith(handed.config)

(* An installation makes a short id and its list where there is neither.    *)
ListMade ==
  /\ row.config.short_ids = Missing /\ row.config.short_id = Missing
  /\ row'.config.short_id # Missing

(* The row's secrets stay, or the row becomes outdated.                     *)
SecretsStay ==
  /\ touched \subseteq touched'
  /\ ~outdated' =>
       /\ ~outdated
       /\ \/ row'.config.private_key = row.config.private_key
          \/ row.config.private_key = Missing
       /\ \/ row'.config.short_ids = row.config.short_ids
          \/ ListMade
       /\ \/ row'.config.short_id = row.config.short_id
          \/ ListMade
          \/ "short_id" \in touched'

LEMMA FaithKept ==
  ASSUME HandedFaith, handed' = handed, SecretsStay
  PROVE  HandedFaith'
<1> SUFFICES ASSUME handed # None PROVE HandedFaith'
  BY DEF HandedFaith
<1> DEFINE cfg == handed.config
           served == VlessInbound(handed.type, cfg)
<1>1. Reality(served) => cfg.private_key # Missing
  BY DEF HandedFaith, Dials, VlessInbound
<1>2. ASSUME ~outdated', Reality(served) PROVE KeepsFaith(cfg)'
  <2>1. KeepsFaith(cfg)
    BY <1>2 DEF HandedFaith, SecretsStay
  <2> HIDE DEF served
  <2> QED
    BY <1>1, <1>2, <2>1 DEF KeepsFaith, SecretsStay, ListMade
<1> QED
  BY <1>2 DEF HandedFaith

LEMMA HandedNext == Inv /\ AllSealed /\ HandedFaith /\ [Next]_vars => HandedFaith'
<1> SUFFICES ASSUME Inv, AllSealed, HandedFaith, [Next]_vars PROVE HandedFaith'
  OBVIOUS
<1>1. row \in Rows /\ row.config \in VlessConfigs
  BY DEF Inv, TypeOK, Rows
<1>2. CASE Start
  <2>1. row' = row \/ row' = [row EXCEPT !.config = MigrateLayout(@)]
    BY <1>2 DEF Start
  <2>2. row' = row \/ row'.config = MigrateLayout(row.config)
    BY <1>1, <2>1 DEF Rows
  <2>3. /\ row'.config.private_key = row.config.private_key
        /\ row'.config.short_ids = row.config.short_ids
        /\ row'.config.short_id = row.config.short_id
    BY <1>1, <2>2 DEF MigrateLayout, VlessConfigs
  <2>4. touched \subseteq touched' /\ outdated' = outdated /\ handed' = handed
    BY <1>2 DEF Start
  <2>5. SecretsStay
    BY <2>3, <2>4 DEF SecretsStay
  <2> QED
    BY <2>4, <2>5, FaithKept
<1>3. CASE Fetch
  <2>1. /\ row' = row /\ touched' = touched /\ outdated' = outdated
        /\ handed' = [type |-> type, config |-> row.config]
        /\ Dials(VlessLink(type, row.config), VlessInbound(type, row.config))
    BY <1>3 DEF Fetch
  <2>2. handed'.type = type /\ handed'.config = row.config
    BY <2>1
  <2>3. KeepsFaith(row.config)'
    BY <2>1 DEF KeepsFaith
  <2> QED
    BY <2>1, <2>2, <2>3 DEF HandedFaith
<1>4. ASSUME NEW t \in Tabs, PutProtocol(t) PROVE HandedFaith'
  <2> DEFINE r == request[t]
  <2>1. SoundRequest(r) /\ Careful(r) /\ r.kind = "put"
    BY <1>4 DEF PutProtocol, Inv, Busy, AllMatch, AllSealed
  <2>2. /\ touched' = touched \cup Changed(r.base, r.body)
        /\ row' = r.body /\ handed' = handed
        /\ outdated' = (outdated \/ row # r.base)
    BY <1>4 DEF PutProtocol, Commit
  <2>3. ASSUME ~outdated' PROVE ~outdated /\ row = r.base
    BY <2>2, <2>3
  <2>4. "short_id" \notin touched' => r.body.config.short_id = r.base.config.short_id
    BY <2>2 DEF Changed, Fields
  <2>5. /\ r.body.config.private_key = r.base.config.private_key
        /\ r.body.config.short_ids = r.base.config.short_ids
    BY <2>1 DEF SoundRequest, Careful
  <2>6. SecretsStay
    <3> HIDE DEF r
    <3>1. touched \subseteq touched' /\ row' = r.body
      BY <2>2
    <3> QED
      BY <2>3, <2>4, <2>5, <3>1 DEF SecretsStay, ListMade
  <2> QED
    BY <2>2, <2>6, FaithKept
<1>5. ASSUME NEW t \in Tabs, InstallProtocol(t) PROVE HandedFaith'
  <2> DEFINE cfg == loaded[t].config
  <2>1. PICK pair \in KeyPairs, sid \in ShortIds :
          Commit(t, loaded[t],
             [loaded[t] EXCEPT !.installed = TRUE, !.config =
                IF NeedsReality(cfg) THEN EnsureRealityConfig(cfg, pair, sid) ELSE cfg])
    BY <1>5 DEF InstallProtocol
  <2>2. /\ touched' = touched /\ handed' = handed
        /\ outdated' = (outdated \/ row # loaded[t])
        /\ row' = [loaded[t] EXCEPT !.installed = TRUE, !.config =
                     IF NeedsReality(cfg) THEN EnsureRealityConfig(cfg, pair, sid) ELSE cfg]
    BY <1>5, <2>1 DEF InstallProtocol, Commit
  <2>3. ASSUME ~outdated'
        PROVE  /\ ~outdated
               /\ row'.config = row.config
                    \/ row'.config = EnsureRealityConfig(row.config, pair, sid)
    <3>1. ~outdated /\ row = loaded[t]
      BY <2>2, <2>3
    <3> QED
      BY <1>1, <2>2, <3>1 DEF Rows
  <2> DEFINE new == EnsureRealityConfig(row.config, pair, sid)
  <2>4. /\ \/ new.private_key = row.config.private_key
           \/ row.config.private_key = Missing
        /\ \/ new.short_ids = row.config.short_ids /\ new.short_id = row.config.short_id
           \/ /\ row.config.short_ids = Missing /\ row.config.short_id = Missing
              /\ new.short_id # Missing
    BY <1>1 DEF EnsureRealityConfig, WithKeys, VlessConfigs
  <2>5. SecretsStay
    <3> HIDE DEF new
    <3>1. ~outdated' => ~outdated /\ (row'.config = row.config \/ row'.config = new)
      BY <2>3 DEF new
    <3> QED
      BY <2>2, <2>4, <3>1 DEF SecretsStay, ListMade
  <2>6. handed' = handed
    BY <2>2
  <2> QED
    BY <2>5, <2>6, FaithKept
<1>6. ASSUME UNCHANGED <<row, outdated, touched, handed>> PROVE HandedFaith'
  BY <1>6, FaithKept DEF SecretsStay, Inv, TypeOK
<1> QED
  BY <1>2, <1>3, <1>4, <1>5, <1>6
     DEF Next, Crash, Panel, Handle, Load, ToggleProto, EditProto, SendPut,
         InstallProto, Send, GetProtocol, StatementFails, vars, history

(* A link handed out works for as long as the visible fields are what they   *)
(* were, for any number of tabs, saves, installations and restarts, if      *)
(* nobody wrote over a newer row, nobody edited a short id that had no list *)
(* and no migration took REALITY from a row that does not name it           *)
(* (PutProtocol, EnsureRealityConfig, Start).                               *)
THEOREM LinksStayGood == Spec => []HandedLinkDials
<1>1. Init => AllSealed /\ HandedFaith
  BY DEF Init, AllSealed, Sealed, GapFields, Gaps, HandedFaith
<1>2. Inv /\ HandedFaith => HandedLinkDials
  <2> SUFFICES ASSUME Inv, HandedFaith, handed # None, ~outdated,
                      Shown(handed.config) = Shown(row.config),
                      handed.config.short_ids # Missing \/ "short_id" \notin touched,
                      handed.type = type \/ row.config.security = "reality"
               PROVE  Dials(VlessLink(handed.type, handed.config),
                            VlessInbound(type, row.config))
    BY DEF HandedLinkDials
  <2> DEFINE cfg == handed.config
             served == VlessInbound(handed.type, cfg)
             inbound == VlessInbound(type, row.config)
             link == VlessLink(handed.type, cfg)
  <2> SUFFICES Dials(link, inbound)
    OBVIOUS
  <2>1. /\ type \in Types /\ row.config \in VlessConfigs
        /\ handed.type \in Types /\ cfg \in VlessConfigs
    BY DEF Inv, TypeOK, Rows
  <2>2. Dials(link, served) /\ (Reality(served) => KeepsFaith(cfg))
    BY DEF HandedFaith
  <2>3. /\ row.config.transport = cfg.transport
        /\ row.config.security = cfg.security
        /\ row.config.flow = cfg.flow
        /\ row.config.endpoint = cfg.endpoint
        /\ row.config.short_id = cfg.short_id
    <3>1. \A f \in Fields : Shown(row.config)[f] = Shown(cfg)[f]
      OBVIOUS
    <3>2. \A f \in Fields : row.config[f] = cfg[f]
      BY <3>1 DEF Shown
    <3> QED
      BY <3>2 DEF Fields
  <2>4. inbound.security = served.security
    <3>1. CASE handed.type = type
      BY <2>3, <3>1 DEF VlessInbound
    <3>2. CASE row.config.security = "reality"
      BY <2>3, <3>2, VlessPresetAssumption DEF VlessInbound, Or, Securities
    <3> QED
      BY <3>1, <3>2
  <2>5. /\ inbound.network = served.network /\ inbound.endpoint = served.endpoint
        /\ inbound.flow = served.flow
    BY <2>3, <2>4 DEF VlessInbound
  <2>6. ASSUME Reality(inbound)
        PROVE  inbound.private_key = served.private_key
                 /\ inbound.short_ids = served.short_ids
    <3>1. KeepsFaith(cfg)
      BY <2>2, <2>4, <2>6 DEF Reality
    <3>2. row.config.short_ids = cfg.short_ids
      BY <2>3, <3>1 DEF KeepsFaith
    <3> QED
      BY <2>3, <3>1, <3>2 DEF KeepsFaith, VlessInbound
  <2> HIDE DEF served, inbound, link
  <2> QED
    BY <2>2, <2>4, <2>5, <2>6 DEF Dials, Reality, VisionFits
<1> QED
  BY <1>1, <1>2, InvAlways, SealedNext, HandedNext, PTL DEF Spec
=============================================================================
