--------------------------- MODULE ProtocolEditing ---------------------------
(***************************************************************************)
(* One row of the VLESS preset edited from several panel tabs.              *)
(*                                                                         *)
(* A tab keeps a copy of the row it loaded (state.protocols of              *)
(* deploy/static/panel/assets/app.js) and every PUT sends the whole copy    *)
(* back with one thing changed, so whatever another tab or an installation *)
(* has written since is overwritten.  The handlers (PutProtocol and         *)
(* InstallProtocol in internal/api/handlers.go) read the row, and later     *)
(* write a whole row; there is no version and no lock.  The agent may die   *)
(* at any time; at its start it migrates the row.                          *)
(*                                                                         *)
(* The type of the row is a column of its own: no PUT and no installation   *)
(* writes it (UpdateProtocol), only the migration does.  So a copy is the   *)
(* written columns, and a handler's type is the row's.                     *)
(***************************************************************************)
EXTENDS VlessPreset, Naturals

CONSTANTS
  Tabs,           \* open panels
  Edits,          \* <<field, value>>: what a user may type into the form
  InitialRows,    \* [type, row]: seeded, or left by an earlier version
  None,
  MaxRequests, MaxCrashes, MaxFaults     \* bounds for model checking

Rows == [enabled : BOOLEAN, installed : BOOLEAN, config : VlessConfigs]

(* A request; base is the row the tab had when it was sent (history).       *)
Puts     == [kind : {"put"}, body : Rows, base : Rows]
Installs == [kind : {"install"}, base : Rows]

Fields == {"transport", "security", "flow", "endpoint", "short_id"}

EditTypes ==
  ({"transport"} \X Transports) \cup ({"security"} \X Securities)
  \cup ({"flow"} \X {"", Vision}) \cup ({"endpoint"} \X {"default", "custom"})
  \cup ({"short_id"} \X ({Missing} \cup ShortIds))

(* The two halves of a key, if both are there.                             *)
Matching(cfg) ==
  cfg.private_key # Missing /\ cfg.public_key # Missing
    => cfg.public_key = cfg.private_key

(* The fields through which a row can be on and yet out of reach: REALITY   *)
(* without a key, or TLS where the type still makes the link a REALITY one, *)
(* a short id that the list does not have, a path that the link does not   *)
(* carry.                                                                  *)
Gaps(typ, r) ==
  {f \in Fields :
     \/ f = "security" /\ r.installed /\ Reality(VlessInbound(typ, r.config))
                       /\ r.config.private_key = Missing
     \/ f = "security" /\ UsesReality(typ) /\ r.config.security = "tls"
     \/ f = "short_id" /\ Or(r.config.short_id, r.config.short_ids)
                            # Or(r.config.short_ids, r.config.short_id)
     \/ f = "endpoint" /\ r.config.endpoint # "default"}

ASSUME ProtocolEditingAssumption ==
  /\ Edits \subseteq EditTypes
  /\ InitialRows \subseteq [type : Types, row : Rows]
  /\ \A r \in InitialRows : Matching(r.row.config)
  /\ None \notin Rows \cup Puts \cup Installs \cup [type : Types, config : VlessConfigs]
  /\ MaxRequests \in Nat /\ MaxCrashes \in Nat /\ MaxFaults \in Nat

VARIABLES
  type, row,                     \* proto_vless in table protocols
  agent,                         \* the agent process
  copy,                          \* each tab's copy of the row
  request, stage, loaded,        \* a tab's request and its handler
  received, crashes, faults,     \* bounds
  outdated, touched, handed      \* history, read by no guard but handed

handler == <<request, stage, loaded>>
bounds  == <<received, crashes, faults>>
history == <<outdated, touched, handed>>
vars == <<type, row, agent, copy, request, stage, loaded, received, crashes, faults,
          outdated, touched, handed>>

Init ==
  /\ \E r \in InitialRows : type = r.type /\ row = r.row
  /\ agent = "down"
  /\ copy = [t \in Tabs |-> None]
  /\ request = [t \in Tabs |-> None]
  /\ stage = [t \in Tabs |-> "idle"]
  /\ loaded = [t \in Tabs |-> None]
  /\ received = 0 /\ crashes = 0 /\ faults = 0
  /\ outdated = FALSE /\ touched = Gaps(type, row) /\ handed = None

-----------------------------------------------------------------------------
(* main(): Migrate runs before anything is served.  One UPDATE writes type  *)
(* and config; its error is dropped, and the agent serves the old row.     *)
Start ==
  /\ agent = "down"
  /\ agent' = "up"
  /\ \/ /\ type' = "vless"
        /\ row' = [row EXCEPT !.config = MigrateLayout(@)]
        /\ touched' = touched \cup (Gaps(type', row') \ Gaps(type, row))
        /\ UNCHANGED faults
     \/ /\ faults < MaxFaults /\ faults' = faults + 1
        /\ UNCHANGED <<type, row, touched>>
  /\ UNCHANGED <<copy, handler, received, crashes, outdated, handed>>

(* Handlers die where they stand; the tabs stay open.                      *)
Crash ==
  /\ agent = "up"
  /\ crashes < MaxCrashes
  /\ crashes' = crashes + 1
  /\ agent' = "down"
  /\ request' = [t \in Tabs |-> None]
  /\ stage' = [t \in Tabs |-> "idle"]
  /\ loaded' = [t \in Tabs |-> None]
  /\ UNCHANGED <<type, row, copy, received, faults, history>>

-----------------------------------------------------------------------------
(* loadProtocols, on opening the page and after a request that succeeded:   *)
(* any time, for another request may be answered before the list arrives.  *)
Load(t) ==
  /\ agent = "up"
  /\ copy' = [copy EXCEPT ![t] = row]
  /\ UNCHANGED <<type, row, agent, handler, bounds, history>>

Send(t, r) ==
  /\ agent = "up"
  /\ copy[t] # None
  /\ stage[t] = "idle"
  /\ received < MaxRequests
  /\ received' = received + 1
  /\ request' = [request EXCEPT ![t] = r]
  /\ stage' = [stage EXCEPT ![t] = "get"]
  /\ UNCHANGED <<type, row, agent, copy, loaded, crashes, faults, history>>

SendPut(t, body) == Send(t, [kind |-> "put", body |-> body, base |-> copy[t]])

ToggleProto(t) ==
  /\ copy[t] # None
  /\ SendPut(t, [copy[t] EXCEPT !.enabled = ~@])

(* editProto: the form is filled from the copy, one field may be changed.   *)
EditProto(t) ==
  /\ copy[t] # None
  /\ LET cfg == copy[t].config
     IN  \E form \in {Form(cfg)} \cup {[Form(cfg) EXCEPT ![e[1]] = e[2]] : e \in Edits} :
           SendPut(t, [copy[t] EXCEPT !.config = ReadVlessForm(cfg, form)])

(* The install button is shown for a row that is not installed.            *)
InstallProto(t) ==
  /\ copy[t] # None
  /\ ~copy[t].installed
  /\ Send(t, [kind |-> "install", base |-> copy[t]])

-----------------------------------------------------------------------------
GetProtocol(t) ==
  /\ stage[t] = "get"
  /\ loaded' = [loaded EXCEPT ![t] = row]
  /\ stage' = [stage EXCEPT ![t] = "commit"]
  /\ UNCHANGED <<type, row, agent, copy, request, bounds, history>>

Done(t) ==
  /\ request' = [request EXCEPT ![t] = None]
  /\ stage' = [stage EXCEPT ![t] = "idle"]
  /\ loaded' = [loaded EXCEPT ![t] = None]

(* The fields of a config that the form can change.                        *)
Shown(cfg) == [f \in Fields |-> cfg[f]]

Changed(old, new) == {f \in Fields : old.config[f] # new.config[f]}

(* UpdateProtocol writes a whole row that was made from base.              *)
Commit(t, base, new) ==
  /\ row' = new
  /\ outdated' = (outdated \/ row # base)
  /\ Done(t)
  /\ UNCHANGED <<type, agent, copy, bounds, handed>>

(* Mutant: the private key never comes from a client.                      *)
PutProtocolServerKey(t) ==
  /\ stage[t] = "commit"
  /\ request[t].kind = "put"
  /\ Commit(t, request[t].base,
       [request[t].body EXCEPT !.config.private_key = loaded[t].config.private_key])
  /\ touched' = touched \cup Changed(request[t].base, request[t].body)

(* The panel's body has a config, so of the row read before only id and     *)
(* type are kept.                                                          *)
PutProtocol(t) ==
  /\ stage[t] = "commit"
  /\ request[t].kind = "put"
  /\ Commit(t, request[t].base, request[t].body)
  /\ touched' = touched \cup Changed(request[t].base, request[t].body)

(* Mutant: only the presets of earlier layouts get keys.                   *)
InstallProtocolKeyless(t) ==
  /\ stage[t] = "commit"
  /\ request[t].kind = "install"
  /\ Commit(t, loaded[t], [loaded[t] EXCEPT !.installed = TRUE])
  /\ UNCHANGED touched

NeedsReality(cfg) == UsesReality(type) \/ cfg.security = "reality"

(* What is missing is generated into the row read before.                  *)
InstallProtocol(t) ==
  /\ stage[t] = "commit"
  /\ request[t].kind = "install"
  /\ \E pair \in KeyPairs, sid \in ShortIds :
       LET cfg == loaded[t].config
       IN  Commit(t, loaded[t],
             [loaded[t] EXCEPT !.installed = TRUE, !.config =
                IF NeedsReality(cfg) THEN EnsureRealityConfig(cfg, pair, sid) ELSE cfg])
  /\ UNCHANGED touched

(* A statement fails and the request is answered with an error.            *)
StatementFails(t) ==
  /\ stage[t] # "idle"
  /\ faults < MaxFaults
  /\ faults' = faults + 1
  /\ Done(t)
  /\ UNCHANGED <<type, row, agent, copy, received, crashes, history>>

-----------------------------------------------------------------------------
Live(r) == r.enabled /\ r.installed

(* PublicSubscription: a client fetches the link; where it works, handed is  *)
(* what it was made from.                                                  *)
Fetch ==
  /\ agent = "up"
  /\ handed = None
  /\ Live(row)
  /\ Dials(VlessLink(type, row.config), VlessInbound(type, row.config))
  /\ handed' = [type |-> type, config |-> row.config]
  /\ UNCHANGED <<type, row, agent, copy, handler, bounds, outdated, touched>>

Panel(t) == Load(t) \/ ToggleProto(t) \/ EditProto(t) \/ InstallProto(t)

Handle(t) ==
  GetProtocol(t) \/ PutProtocol(t) \/ InstallProtocol(t) \/ StatementFails(t)

Next ==
  \/ Start \/ Crash \/ Fetch
  \/ \E t \in Tabs : Panel(t) \/ Handle(t)

Spec == Init /\ [][Next]_vars

-----------------------------------------------------------------------------
(* Type correctness of the row, the copies and the requests.               *)
TypeOK ==
  /\ type \in Types /\ row \in Rows
  /\ agent \in {"down", "up"}
  /\ copy \in [Tabs -> {None} \cup Rows]
  /\ request \in [Tabs -> {None} \cup Puts \cup Installs]
  /\ stage \in [Tabs -> {"idle", "get", "commit"}]
  /\ loaded \in [Tabs -> {None} \cup Rows]
  /\ received \in Nat /\ crashes \in Nat /\ faults \in Nat
  /\ outdated \in BOOLEAN /\ touched \in SUBSET Fields
  /\ handed \in {None} \cup [type : Types, config : VlessConfigs]

(* The two halves of a key in the row belong together, whichever tabs save  *)
(* and install over each other: every writer writes a whole config that     *)
(* somebody read in one piece (PutProtocol, EnsureRealityConfig).           *)
KeyPairsMatch == Matching(row.config)

(* The gaps of the flow: Vision was left on while the transport or the      *)
(* security that has it was changed, a row of an earlier version has none,  *)
(* or its type still gives the link the Vision that the row has off.       *)
FlowFits ==
  /\ row.config.flow # Missing
  /\ VisionFits(VlessInbound(type, row.config))
  /\ UsesReality(type) => row.config.flow # ""

(* A preset that is on is one clients can connect to, through stale tabs,   *)
(* overlapping requests, restarts and failed migrations alike, but for      *)
(* known gaps.  Four are edits of the panel: REALITY switched on after the  *)
(* installation (nothing makes keys; the migration at start may do the      *)
(* same), a new short id (the list short_ids keeps the old one), a path     *)
(* that the link does not carry, Vision left on where there is none.  Two   *)
(* come from rows of an earlier version, without a flow or without a public *)
(* key, and two from their type while no migration succeeds: Vision or      *)
(* REALITY in the link where the row says neither.                         *)
LinkDials ==
  /\ agent = "up"
  /\ Live(row)
  /\ touched \cap {"security", "short_id", "endpoint"} = {}
  /\ FlowFits
  /\ row.config.private_key # Missing => row.config.public_key # Missing
  => Dials(VlessLink(type, row.config), VlessInbound(type, row.config))

(* A link handed out works as long as the row's visible fields are what they *)
(* were, even if they were changed and changed back, or the agent restarted *)
(* and migrated, with three exceptions: somebody has written over a row     *)
(* newer than the one he had (the keys are no field of the form and must    *)
(* survive every save); the row had no list of short ids yet and its short  *)
(* id was edited (an installation then makes a list that the old short id   *)
(* is not on); the migration took a type that meant REALITY from a row that *)
(* does not name it.                                                       *)
HandedLinkDials ==
  /\ handed # None
  /\ ~outdated
  /\ Shown(handed.config) = Shown(row.config)
  /\ handed.config.short_ids # Missing \/ "short_id" \notin touched
  /\ handed.type = type \/ row.config.security = "reality"
  => Dials(VlessLink(handed.type, handed.config), VlessInbound(type, row.config))

(* xray/keys.go:30, keys are filled in "when missing": a private key that is *)
(* there is replaced or lost only when a row newer than the writer's own    *)
(* copy is written over.                                                   *)
CredentialStays ==
  [][row.config.private_key # Missing
       /\ row'.config.private_key # row.config.private_key => outdated']_vars
=============================================================================
