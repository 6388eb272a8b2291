-------------------------- MODULE ConfigSync_proofs --------------------------
(***************************************************************************)
(* Proofs about ConfigSync for every set of presets, users, configs and     *)
(* requests, any number of requests in flight, any number of crashes and    *)
(* failing calls.                                                           *)
(***************************************************************************)
EXTENDS ConfigSync, TLAPS

(* The stages in which a listing has been taken and is still of use.        *)
AfterListing == {"listUsers", "options", "sidecarEnv", "truncate", "write"}

(* The part of TypeOK about the workers.                                    *)
ControlOK ==
  /\ request \in [Workers -> {None} \cup Requests]
  /\ stage \in [Workers -> Stages]
  /\ engine \in [Workers -> Engines]
  /\ reply \in [Workers -> {"none", "ok", "notFound", "error", "lost"}]
  /\ loadedRow \in [Workers -> {None} \cup Rows]
  /\ loadedGrants \in [Workers -> {None} \cup Grants]
  /\ seenProtocols \in [Workers -> {None} \cup ProtocolTables]
  /\ seenUsers \in [Workers -> {None} \cup UserTables]
  /\ seenOptions \in [Workers -> {None} \cup Options]

(* What the local variables of a worker hold at each stage.                 *)
LocalsOK ==
  \A w \in Workers :
    /\ w = Boot => stage[w] \in {"idle", "listProtocols"} \cup AfterListing
    /\ w # Boot /\ stage[w] # "idle" => request[w] \in Requests
    /\ stage[w] = "commit" /\ request[w].kind \in {"PutProtocol", "InstallProtocol"}
         => loadedRow[w] \in Rows
    /\ stage[w] = "commit" /\ request[w].kind = "PatchUser" => loadedGrants[w] \in Grants
    /\ stage[w] = "env" => loadedRow[w] \in Rows /\ request[w].kind = "InstallProtocol"
    /\ stage[w] \in AfterListing \cup {"composeUp"} => seenProtocols[w] \in ProtocolTables
    /\ stage[w] \in AfterListing \ {"listUsers"} => seenUsers[w] \in UserTables
    /\ stage[w] \in {"truncate", "write"} => seenOptions[w] \in Options

(* An undisturbed worker's listings are the tables, and the file it has     *)
(* truncated is still empty.                                                *)
UndisturbedIsCurrent ==
  \A w \in undisturbed :
    /\ stage[w] \in AfterListing
    /\ seenProtocols[w] = protocols
    /\ stage[w] # "listUsers" => seenUsers[w] = vpnUsers
    /\ stage[w] = "write" => file[engine[w]] = Empty

(* The bootstrap runs only while the agent starts.                         *)
BootOK == stage[Boot] # "idle" => agent = "booting"

FreshInv == FreshUnlessDisturbed /\ UndisturbedIsCurrent /\ BootOK

-----------------------------------------------------------------------------
(* The generators return documents.                                        *)
LEMMA FindProtoType ==
  ASSUME NEW table \in ProtocolTables, NEW t
  PROVE  FindProto(table, t) \in {NoProtocol} \cup ProtocolIds
<1> DEFINE installed == {p \in OfType(t) : table[p].installed}
           S == IF installed # {} THEN installed ELSE OfType(t)
<1>1. CASE OfType(t) = {}
  BY <1>1 DEF FindProto
<1>2. CASE OfType(t) # {}
  <2>1. S # {} /\ S \in SUBSET ProtocolIds
    BY <1>2 DEF OfType, VisibleIds
  <2>2. \E p \in S : \A q \in S : ListOrder[p] <= ListOrder[q]
    BY <2>1, AgentConfigAssumption
  <2>3. FirstListed(S) \in S
    BY <2>2 DEF FirstListed
  <2> QED
    BY <1>2, <2>1, <2>3 DEF FindProto
<1> QED
  BY <1>1, <1>2

LEMMA InboundsType ==
  ASSUME NEW e \in Engines, NEW table \in ProtocolTables, NEW users \in UserTables
  PROVE  Inbounds(e, table, users) \in SUBSET InboundType
<1>1. ASSUME NEW p \in ProtocolIds, NEW tag \in Tags
      PROVE  Inbound(tag, p, table, users) \in InboundType
  <2>1. Accounts(users, p) \in SUBSET ({Placeholder} \cup UserIds)
    BY DEF Accounts, Granted
  <2>2. table[p].config \in Configs
    BY DEF ProtocolTables, Rows
  <2> QED
    BY <2>1, <2>2 DEF Inbound, InboundType
<1>2. CASE e = "xray"
  <2> DEFINE source == XraySource(table)
  <2>1. DOMAIN source = {"vless_in", "vmess_in", "ss_in", "trojan_in"}
    BY DEF XraySource
  <2>2. VlessProto(table) \in {NoProtocol} \cup ProtocolIds
    BY FindProtoType DEF VlessProto, VisibleIds
  <2>3. \A tag \in DOMAIN source : source[tag] \in {NoProtocol} \cup ProtocolIds
    BY <2>2, FindProtoType DEF XraySource
  <2>4. \A tag \in DOMAIN source : tag \in Tags
    BY <2>1 DEF Tags
  <2>5. Inbounds(e, table, users) =
          {Inbound(tag, source[tag], table, users) :
             tag \in {t \in DOMAIN source :
                        source[t] # NoProtocol /\ Live(table, source[t])}}
    BY <1>2 DEF Inbounds, XrayInbounds
  <2> HIDE DEF source
  <2> QED
    BY <1>1, <2>3, <2>4, <2>5
<1>3. CASE e # "xray"
  <2> DEFINE live == {p \in SingboxIds : Live(table, p)}
  <2>1. \A p \in SingboxIds : p \in ProtocolIds /\ SingboxTag[ProtocolType[p]] \in Tags
    BY DEF SingboxIds, SingboxTag, VisibleIds, Tags
  <2>2. PlaceholderHy2 \in InboundType
    BY DEF PlaceholderHy2, InboundType, Tags
  <2>3. Inbounds(e, table, users) =
          IF live = {} THEN {PlaceholderHy2}
          ELSE {Inbound(SingboxTag[ProtocolType[p]], p, table, users) : p \in live}
    BY <1>3 DEF Inbounds, SingboxInbounds
  <2>4. \A p \in live : Inbound(SingboxTag[ProtocolType[p]], p, table, users) \in InboundType
    BY <1>1, <2>1
  <2> QED
    BY <2>2, <2>3, <2>4
<1> QED
  BY <1>2, <1>3

LEMMA WholeType ==
  ASSUME NEW e \in Engines, NEW table \in ProtocolTables, NEW users \in UserTables,
         NEW options \in Options
  PROVE  Whole(Document(e, table, users, options)) \in Files
BY InboundsType DEF Whole, Document, DocumentType, Files

LEMMA LoadType ==
  ASSUME NEW f \in Files
  PROVE  Load(f) \in Processes
BY DEF Files, Processes, Load, Down

LEMMA StartedType ==
  ASSUME TypeOK, NEW table, NEW e \in Engines
  PROVE  Started(table, e) \in Processes
BY LoadType DEF TypeOK, Started

LEMMA MTProtoEnvType ==
  ASSUME NEW table \in ProtocolTables, NEW current \in {None} \cup Configs
  PROVE  MTProtoEnv(table, current) \in {None} \cup Configs
<1> DEFINE S == InstalledMTProto(table)
<1>1. CASE S = {}
  BY <1>1 DEF MTProtoEnv
<1>2. CASE S # {}
  <2>1. S \in SUBSET ProtocolIds
    BY DEF InstalledMTProto, OfType, VisibleIds
  <2>2. \E p \in S : \A q \in S : ListOrder[q] <= ListOrder[p]
    BY <1>2, <2>1, AgentConfigAssumption
  <2>3. LastListed(S) \in S
    BY <2>2 DEF LastListed
  <2> QED
    BY <1>2, <2>1, <2>3 DEF MTProtoEnv, ProtocolTables, Rows
<1> QED
  BY <1>1, <1>2

-----------------------------------------------------------------------------
(* The invariant holds initially.                                          *)
LEMMA InitTypeOK == Init => TypeOK /\ LocalsOK
<1> SUFFICES ASSUME Init PROVE TypeOK /\ LocalsOK
  OBVIOUS
<1>1. running \in [Engines -> Processes]
  <2>1. running = [e \in Engines |-> IF e = "xray" THEN Down ELSE NotCreated]
    BY DEF Init, Engines
  <2>2. Down \in Processes /\ NotCreated \in Processes
    BY DEF Down, NotCreated, Processes
  <2> QED
    BY <2>1, <2>2
<1>2. file \in [Engines -> Files]
  BY DEF Init, Absent, Files
<1>3. /\ protocols \in ProtocolTables /\ vpnUsers \in UserTables
      /\ settings \in [Engines -> Options]
  BY ConfigSyncAssumption DEF Init
<1>4. TypeOK
  BY <1>1, <1>2, <1>3 DEF Init, TypeOK, Stages, Engines
<1>5. LocalsOK
  BY DEF Init, LocalsOK, AfterListing, Workers
<1> QED
  BY <1>4, <1>5

(* A request goes through its first statements.                            *)
LEMMA ReceiveType ==
  ASSUME TypeOK, LocalsOK, NEW s \in Slots, NEW r \in Requests, Receive(s, r)
  PROVE  TypeOK' /\ LocalsOK'
<1>0. s \in Workers /\ s # Boot
  BY ConfigSyncAssumption DEF Workers
<1>1. FirstStage(r.kind) \in Stages
  BY DEF FirstStage, Stages
<1>3. /\ request' \in [Workers -> {None} \cup Requests]
      /\ stage' \in [Workers -> Stages]
      /\ engine' \in [Workers -> Engines]
      /\ reply' \in [Workers -> {"none", "ok", "notFound", "error", "lost"}]
  BY <1>0, <1>1 DEF TypeOK, Receive, Engines
<1>4. received' \in Nat /\ settled' \in SUBSET Workers
  BY <1>0 DEF TypeOK, Receive
<1>5. TypeOK'
  BY <1>3, <1>4 DEF TypeOK, Receive, database, locals, disk, containers
<1>2. LocalsOK'
  BY <1>0 DEF TypeOK, LocalsOK, Receive, FirstStage, AfterListing, locals
<1> QED
  BY <1>5, <1>2

LEMMA ReplyType ==
  ASSUME TypeOK, NEW s \in Workers, NEW st \in {"ok", "notFound", "error", "lost"},
         Reply(s, st)
  PROVE  ControlOK'
BY DEF TypeOK, ControlOK, Reply, Forget, Stages

LEMMA ReplyLocals ==
  ASSUME TypeOK, LocalsOK, NEW s \in Workers, NEW st, Reply(s, st)
  PROVE  LocalsOK'
BY DEF TypeOK, LocalsOK, Reply, Forget, AfterListing

LEMMA AfterSyncType ==
  ASSUME TypeOK, LocalsOK, NEW s \in Slots, stage[s] # "idle", AfterSync(s)
  PROVE  ControlOK' /\ LocalsOK'
<1>0. s \in Workers /\ s # Boot
  BY ConfigSyncAssumption DEF Workers
<1>1. CASE Reply(s, "ok")
  BY <1>0, <1>1, ReplyType, ReplyLocals
<1>2. CASE Goto(s, "restart") /\ Forget(s)
  BY <1>0, <1>2 DEF TypeOK, ControlOK, LocalsOK, Goto, Forget, Stages, AfterListing
<1> QED
  BY <1>1, <1>2 DEF AfterSync

LEMMA HandleType ==
  ASSUME TypeOK, LocalsOK, NEW s \in Slots, Handle(s)
  PROVE  TypeOK' /\ LocalsOK'
<1>0. s \in Workers /\ s # Boot
  BY ConfigSyncAssumption DEF Workers
<1>1. CASE GetProtocol(s)
  <2>1. protocols[request[s].id] \in Rows
    <3>1. request[s] \in RequestTypes
      BY <1>0, <1>1, ConfigSyncAssumption DEF LocalsOK, GetProtocol
    <3>2. request[s].id \in ProtocolIds
      BY <1>1, <3>1 DEF GetProtocol, RequestTypes
    <3> QED
      BY <3>2 DEF TypeOK, ProtocolTables
  <2>2. TypeOK'
    BY <1>0, <1>1, <2>1 DEF TypeOK, GetProtocol, Goto, Stages, database, disk,
       containers, bounds, history
  <2>3. LocalsOK'
    BY <1>0, <1>1, <2>1 DEF TypeOK, LocalsOK, GetProtocol, Goto, AfterListing
  <2> QED
    BY <2>2, <2>3
<1>2. CASE GetUser(s)
  <2>1. vpnUsers[request[s].id] \in Grants
    <3>1. request[s] \in RequestTypes
      BY <1>0, <1>2, ConfigSyncAssumption DEF LocalsOK, GetUser
    <3>2. request[s].id \in UserIds
      BY <1>2, <3>1 DEF GetUser, RequestTypes
    <3> QED
      BY <1>2, <3>2 DEF TypeOK, UserTables, GetUser
  <2>2. TypeOK'
    BY <1>0, <1>2, <2>1 DEF TypeOK, GetUser, Goto, Stages, database, disk,
       containers, bounds, history
  <2>3. LocalsOK'
    BY <1>0, <1>2, <2>1 DEF TypeOK, LocalsOK, GetUser, Goto, AfterListing
  <2> QED
    BY <2>2, <2>3
<1>3. CASE UserNotFound(s)
  <2>1. LocalsOK'
    BY <1>0, <1>3, ReplyLocals DEF UserNotFound
  <2>2. TypeOK'
    <3>1. Reply(s, "notFound")
      BY <1>3 DEF UserNotFound
    <3> QED
      BY <1>0, <1>3, <3>1, ReplyType DEF TypeOK, ControlOK, UserNotFound, database, disk,
         containers, bounds, history
  <2> QED
    BY <2>1, <2>2
<1>4. CASE PutProtocol(s)
  <2>1. request[s] \in RequestTypes /\ request[s].kind = "PutProtocol"
    BY <1>0, <1>4, ConfigSyncAssumption DEF LocalsOK, PutProtocol, AtCommit
  <2> DEFINE row == [enabled   |-> request[s].enabled,
                     installed |-> request[s].installed,
                     config    |-> IF request[s].config = None
                                   THEN loadedRow[s].config ELSE request[s].config]
  <2>2. /\ request[s].id \in ProtocolIds /\ request[s].enabled \in BOOLEAN
        /\ request[s].installed \in BOOLEAN /\ request[s].config \in {None} \cup Configs
    BY <2>1 DEF RequestTypes
  <2>3. loadedRow[s] \in Rows
    BY <1>0, <1>4 DEF LocalsOK, PutProtocol, AtCommit
  <2>4. row \in Rows
    BY <2>2, <2>3 DEF Rows
  <2>5. protocols' \in ProtocolTables
    BY <1>4, <2>2, <2>4 DEF TypeOK, ProtocolTables, PutProtocol
  <2>6. TypeOK'
    BY <1>0, <1>4, <2>5 DEF TypeOK, PutProtocol, Goto, Stages, DatabaseChanges,
       locals, disk, containers, bounds
  <2>7. LocalsOK'
    BY <1>0, <1>4 DEF TypeOK, LocalsOK, PutProtocol, AtCommit, Goto,
       AfterListing, locals
  <2> QED
    BY <2>6, <2>7
<1>5. CASE InstallProtocol(s)
  <2>1. request[s] \in RequestTypes /\ request[s].kind = "InstallProtocol"
    BY <1>0, <1>5, ConfigSyncAssumption DEF LocalsOK, InstallProtocol, AtCommit
  <2>2. request[s].id \in ProtocolIds
    BY <2>1 DEF RequestTypes
  <2>3. loadedRow[s] \in Rows
    BY <1>0, <1>5 DEF LocalsOK, InstallProtocol, AtCommit
  <2>4. PICK c \in IF loadedRow[s].config \in Unkeyed
                     THEN Completions[loadedRow[s].config] ELSE {loadedRow[s].config} :
          LET row == [loadedRow[s] EXCEPT !.installed = TRUE, !.config = c]
          IN  /\ protocols' = [protocols EXCEPT ![request[s].id] = row]
              /\ loadedRow' = [loadedRow EXCEPT ![s] = row]
    BY <1>5 DEF InstallProtocol
  <2>5. c \in Configs
    BY <2>3, <2>4, ConfigSyncAssumption DEF Rows
  <2> DEFINE row == [loadedRow[s] EXCEPT !.installed = TRUE, !.config = c]
  <2>6. row \in Rows
    BY <2>3, <2>5 DEF Rows
  <2>7. protocols' \in ProtocolTables
    BY <2>2, <2>4, <2>6 DEF TypeOK, ProtocolTables
  <2>8. loadedRow' = [loadedRow EXCEPT ![s] = row]
    BY <2>4
  <2> HIDE DEF row
  <2>9. TypeOK'
    BY <1>0, <1>5, <2>6, <2>7, <2>8 DEF TypeOK, InstallProtocol, Goto, Stages,
       DatabaseChanges, disk, containers, bounds
  <2>10. LocalsOK'
    BY <1>0, <1>5, <2>1, <2>6, <2>8 DEF TypeOK, LocalsOK, InstallProtocol, AtCommit, Goto,
       AfterListing
  <2> QED
    BY <2>9, <2>10
<1>6. CASE PatchUser(s)
  <2>1. request[s] \in RequestTypes /\ request[s].kind = "PatchUser"
    BY <1>0, <1>6, ConfigSyncAssumption DEF LocalsOK, PatchUser, AtCommit
  <2>2. request[s].id \in UserIds /\ request[s].grants \in {None} \cup Grants
    BY <2>1 DEF RequestTypes
  <2>3. loadedGrants[s] \in Grants
    BY <1>0, <1>6 DEF LocalsOK, PatchUser, AtCommit
  <2>4. vpnUsers' \in UserTables
    BY <1>6, <2>2, <2>3 DEF TypeOK, UserTables, PatchUser
  <2>5. TypeOK'
    BY <1>0, <1>6, <2>4 DEF TypeOK, PatchUser, Goto, Stages, DatabaseChanges,
       locals, disk, containers, bounds
  <2>6. LocalsOK'
    BY <1>0, <1>6 DEF TypeOK, LocalsOK, PatchUser, AtCommit, Goto,
       AfterListing, locals
  <2> QED
    BY <2>5, <2>6
<1>7. CASE DeleteUser(s)
  <2>1. vpnUsers' \in UserTables
    BY <1>7 DEF TypeOK, UserTables, DeleteUser
  <2>2. TypeOK'
    BY <1>0, <1>7, <2>1 DEF TypeOK, DeleteUser, Goto, Stages, DatabaseChanges,
       locals, disk, containers, bounds
  <2>3. LocalsOK'
    BY <1>0, <1>7 DEF TypeOK, LocalsOK, DeleteUser, AtCommit, Goto,
       AfterListing, locals
  <2> QED
    BY <2>2, <2>3
<1>8. CASE CreateUser(s)
  <2>1. LocalsOK'
    BY <1>0, <1>8, ReplyLocals DEF CreateUser
  <2>2. TypeOK'
    <3>1. Reply(s, "error")
      BY <1>8 DEF CreateUser
    <3> QED
      BY <1>0, <1>8, <3>1, ReplyType DEF TypeOK, ControlOK, CreateUser, database, disk,
         containers, bounds, history
  <2> QED
    BY <2>1, <2>2
<1>9. CASE PutSettings(s)
  <2>1. request[s] \in RequestTypes /\ request[s].kind = "PutSettings"
    BY <1>0, <1>9, ConfigSyncAssumption DEF LocalsOK, PutSettings, AtCommit
  <2>2. request[s].engine \in Engines /\ request[s].options \in Options
    BY <2>1 DEF RequestTypes
  <2>3. settings' \in [Engines -> Options]
    BY <1>9, <2>2 DEF TypeOK, PutSettings
  <2>4. LocalsOK'
    BY <1>0, <1>9, ReplyLocals DEF PutSettings
  <2>5. TypeOK'
    <3>1. Reply(s, "ok")
      BY <1>9 DEF PutSettings
    <3> QED
      BY <1>0, <1>9, <2>3, <3>1, ReplyType DEF TypeOK, ControlOK, PutSettings, disk,
         containers, bounds, history
  <2> QED
    BY <2>4, <2>5
<1>10. CASE StatementFails(s)
  <2> DEFINE st == IF stage[s] = "get" THEN "notFound" ELSE "error"
  <2>1. Reply(s, st) /\ st \in {"ok", "notFound", "error", "lost"}
    BY <1>10 DEF StatementFails
  <2>2. LocalsOK'
    BY <1>0, <2>1, ReplyLocals
  <2> HIDE DEF st
  <2>3. TypeOK'
    BY <1>0, <1>10, <2>1, ReplyType DEF TypeOK, ControlOK, StatementFails, database, disk,
       containers, history
  <2> QED
    BY <2>2, <2>3
<1>11. CASE InstallEnv(s)
  <2>1. mtprotoEnv' \in {None} \cup Configs
    BY <1>0, <1>11 DEF TypeOK, LocalsOK, InstallEnv, Rows
  <2>2. TypeOK'
    BY <1>0, <1>11, <2>1 DEF TypeOK, InstallEnv, Goto, Stages, database, locals,
       containers, bounds, history
  <2>3. LocalsOK'
    BY <1>0, <1>11 DEF TypeOK, LocalsOK, InstallEnv, Goto, AfterListing, locals
  <2> QED
    BY <2>2, <2>3
<1>12. CASE ListForSync(s)
  <2>1. TypeOK'
    BY <1>0, <1>12 DEF TypeOK, ListForSync, Goto, Stages, database, disk,
       containers, bounds, history
  <2>2. LocalsOK'
    BY <1>0, <1>12 DEF TypeOK, LocalsOK, ListForSync, Goto, AfterListing
  <2> QED
    BY <2>1, <2>2
<1>13. CASE ComposeUp(s)
  <2>1. stage[s] # "idle" /\ AfterSync(s)
    BY <1>13 DEF ComposeUp
  <2>2. /\ composeEnv' \in {None} \cup Configs
        /\ proxy' \in {None} \cup Configs
    BY <1>13 DEF TypeOK, ComposeUp, Merged
  <2>3. running' \in [Engines -> Processes]
    BY <1>13, StartedType DEF TypeOK, ComposeUp
  <2>4. ControlOK' /\ LocalsOK'
    BY <2>1, AfterSyncType
  <2> QED
    BY <1>13, <2>2, <2>3, <2>4 DEF TypeOK, ControlOK, ComposeUp, database, bounds,
       history
<1>14. CASE RestartXray(s)
  <2>1. Reply(s, "ok")
    BY <1>14 DEF RestartXray
  <2>2. running' \in [Engines -> Processes]
    <3>1. Load(file["xray"]) \in Processes
      BY LoadType DEF TypeOK, Engines
    <3> QED
      BY <1>14, <3>1 DEF TypeOK, RestartXray
  <2>3. applied' \in SUBSET Engines
    BY <1>14 DEF TypeOK, RestartXray
  <2>4. LocalsOK'
    BY <1>0, <2>1, ReplyLocals
  <2>5. TypeOK'
    BY <1>0, <1>14, <2>1, <2>2, <2>3, ReplyType DEF TypeOK, ControlOK, RestartXray, database,
       disk, bounds
  <2> QED
    BY <2>4, <2>5
<1>15. CASE DockerFails(s)
  <2>1. stage[s] # "idle" /\ (AfterSync(s) \/ Reply(s, "ok"))
    BY <1>15 DEF DockerFails
  <2>2. /\ ControlOK' /\ LocalsOK'
    BY <1>0, <2>1, AfterSyncType, ReplyType, ReplyLocals DEF ControlOK
  <2>3. faults' \in Nat /\ received' = received /\ crashes' = crashes
    BY <1>15 DEF TypeOK, DockerFails
  <2>4. /\ composeEnv' \in {None} \cup Configs
        /\ proxy' \in {None} \cup Configs
    BY <1>15 DEF TypeOK, DockerFails, Merged
  <2>5. running' \in [Engines -> Processes]
    BY <1>15, StartedType DEF TypeOK, DockerFails
  <2> QED
    BY <1>15, <2>2, <2>3, <2>4, <2>5 DEF TypeOK, ControlOK, DockerFails, database,
       history
<1> QED
  BY <1>1, <1>2, <1>3, <1>4, <1>5, <1>6, <1>7, <1>8, <1>9, <1>10, <1>11, <1>12,
     <1>13, <1>14, <1>15 DEF Handle

(* A regeneration, of a handler or of the bootstrap.                       *)
LEMMA AfterEngineType ==
  ASSUME TypeOK, LocalsOK, NEW w \in Workers, AfterEngine(w),
         w = Boot \/ request[w] \in Requests
  PROVE  ControlOK' /\ LocalsOK' /\ agent' \in {"down", "booting", "up"}
<1>1. NextStage(w) \in {"idle", "listProtocols", "listForSync"}
  BY DEF NextStage
<1>2. w = Boot => NextStage(w) = "idle"
  BY DEF NextStage
<1>3. ControlOK'
  BY <1>1 DEF TypeOK, ControlOK, AfterEngine, Forget, Stages, Engines
<1>4. LocalsOK'
  BY <1>1, <1>2 DEF TypeOK, LocalsOK, AfterEngine, Forget, AfterListing
<1>5. agent' \in {"down", "booting", "up"}
  BY DEF TypeOK, AfterEngine
<1> QED
  BY <1>3, <1>4, <1>5

LEMMA RegenerateType ==
  ASSUME TypeOK, LocalsOK, NEW w \in Workers, Regenerate(w)
  PROVE  TypeOK' /\ LocalsOK'
<1>1. CASE ListProtocols(w)
  <2>1. TypeOK'
    BY <1>1 DEF TypeOK, ListProtocols, Goto, Stages, database, disk, containers,
       bounds
  <2>2. LocalsOK'
    BY <1>1 DEF TypeOK, LocalsOK, ListProtocols, Goto, AfterListing
  <2> QED
    BY <2>1, <2>2
<1>2. CASE ListUsers(w)
  <2>1. TypeOK'
    BY <1>2 DEF TypeOK, ListUsers, Goto, Stages, database, disk, containers, bounds,
       history
  <2>2. LocalsOK'
    BY <1>2 DEF TypeOK, LocalsOK, ListUsers, Goto, AfterListing
  <2> QED
    BY <2>1, <2>2
<1>3. CASE LoadOptions(w)
  <2>1. PICK o \in Options : seenOptions' = [seenOptions EXCEPT ![w] = o]
    BY <1>3, ConfigSyncAssumption DEF TypeOK, LoadOptions, Engines
  <2>2. faults' \in Nat
    BY <1>3 DEF TypeOK, LoadOptions
  <2>3. TypeOK'
    BY <1>3, <2>1, <2>2 DEF TypeOK, LoadOptions, Goto, Stages, database, disk,
       containers, history
  <2>4. LocalsOK'
    BY <1>3, <2>1 DEF TypeOK, LocalsOK, LoadOptions, Goto, AfterListing
  <2> QED
    BY <2>3, <2>4
<1>4. CASE SidecarEnv(w)
  <2>1. mtprotoEnv' \in {None} \cup Configs
    <3>1. seenProtocols[w] \in ProtocolTables
      BY <1>4 DEF LocalsOK, SidecarEnv, AfterListing
    <3> QED
      BY <1>4, <3>1, MTProtoEnvType DEF TypeOK, SidecarEnv
  <2>2. DefaultOptions["singbox"] \in Options
    BY ConfigSyncAssumption DEF Engines
  <2>3. TypeOK'
    BY <1>4, <2>1, <2>2 DEF TypeOK, SidecarEnv, Goto, Stages, database,
       containers, bounds, history
  <2>4. LocalsOK'
    BY <1>4, <2>2 DEF TypeOK, LocalsOK, SidecarEnv, Goto, AfterListing
  <2> QED
    BY <2>3, <2>4
<1>5. CASE Truncate(w)
  <2>1. TypeOK'
    <3>1. Empty \in Files
      BY DEF Empty, Files
    <3>2. file' \in [Engines -> Files]
      BY <1>5, <3>1 DEF TypeOK, Truncate
    <3>3. undisturbed' \in SUBSET Workers /\ healthy' \in SUBSET Engines
      BY <1>5 DEF TypeOK, Truncate
    <3> QED
      BY <1>5, <3>2, <3>3 DEF TypeOK, Truncate, Goto, Stages, database, locals,
         containers, bounds
  <2>2. LocalsOK'
    BY <1>5 DEF TypeOK, LocalsOK, Truncate, Goto, AfterListing, locals
  <2> QED
    BY <2>1, <2>2
<1>6. CASE Write(w)
  <2>1. stage[w] = "write" /\ AfterEngine(w)
    BY <1>6 DEF Write
  <2>2. ControlOK' /\ LocalsOK' /\ agent' \in {"down", "booting", "up"}
    BY <2>1, AfterEngineType DEF LocalsOK
  <2>3. file' \in [Engines -> Files]
    <3> DEFINE new == Whole(Document(engine[w], seenProtocols[w], seenUsers[w],
                                     seenOptions[w]))
    <3>1. /\ engine[w] \in Engines /\ seenProtocols[w] \in ProtocolTables
          /\ seenUsers[w] \in UserTables /\ seenOptions[w] \in Options
      BY <2>1 DEF TypeOK, LocalsOK, AfterListing
    <3>2. new \in Files
      BY <3>1, WholeType
    <3>3. Torn \in Files
      BY DEF Torn, Files
    <3>4. \E f \in {new, Torn} : file' = [file EXCEPT ![engine[w]] = f]
      BY <1>6 DEF Write
    <3> HIDE DEF new
    <3> QED
      BY <3>2, <3>3, <3>4 DEF TypeOK
  <2>4. undisturbed' \in SUBSET Workers /\ healthy' \in SUBSET Engines
    BY <1>6 DEF TypeOK, Write
  <2> QED
    BY <1>6, <2>2, <2>3, <2>4 DEF TypeOK, ControlOK, Write, database, containers,
       bounds
<1>7. CASE RegenerationFails(w)
  <2>1. \/ w \in Slots /\ Reply(w, "error") /\ UNCHANGED agent
        \/ AfterEngine(w)
    BY <1>7 DEF RegenerationFails, Workers
  <2>2. w = Boot \/ request[w] \in Requests
    BY <1>7 DEF LocalsOK, RegenerationFails
  <2>3. ControlOK' /\ LocalsOK' /\ agent' \in {"down", "booting", "up"}
    BY <2>1, <2>2, AfterEngineType, ReplyType, ReplyLocals DEF TypeOK
  <2>4. file' \in [Engines -> Files]
    <3>1. Torn \in Files
      BY DEF Torn, Files
    <3> QED
      BY <1>7, <3>1 DEF TypeOK, RegenerationFails
  <2>5. undisturbed' \in SUBSET Workers /\ healthy' \in SUBSET Engines
    BY <1>7 DEF TypeOK, RegenerationFails
  <2>6. faults' \in Nat
    BY <1>7 DEF TypeOK, RegenerationFails
  <2> QED
    BY <1>7, <2>3, <2>4, <2>5, <2>6 DEF TypeOK, ControlOK, RegenerationFails,
       database, containers
<1> QED
  BY <1>1, <1>2, <1>3, <1>4, <1>5, <1>6, <1>7 DEF Regenerate

(* The agent stops and starts; Docker restarts an engine.                  *)
LEMMA RestartType ==
  ASSUME TypeOK, LocalsOK, Crash \/ Start \/ \E e \in Engines : EngineRestart(e)
  PROVE  TypeOK' /\ LocalsOK'
<1>1. CASE Crash
  <2>1. ControlOK'
    BY <1>1 DEF TypeOK, ControlOK, Crash, Stages, Engines
  <2>2. LocalsOK'
    BY <1>1 DEF LocalsOK, Crash, AfterListing
  <2>3. crashes' \in Nat
    BY <1>1 DEF TypeOK, Crash
  <2> QED
    BY <1>1, <2>1, <2>2, <2>3 DEF TypeOK, ControlOK, Crash, database, disk, containers
<1>2. CASE Start
  <2>1. TypeOK'
    BY <1>2 DEF TypeOK, Start, Stages, database, locals, disk, containers, bounds,
       history
  <2>2. LocalsOK'
    BY <1>2 DEF TypeOK, LocalsOK, Start, AfterListing, locals
  <2> QED
    BY <2>1, <2>2
<1>3. ASSUME NEW e \in Engines, EngineRestart(e)
      PROVE  TypeOK' /\ LocalsOK'
  <2>1. Load(file[e]) \in Processes
    BY LoadType DEF TypeOK
  <2>2. TypeOK'
    BY <1>3, <2>1 DEF TypeOK, EngineRestart, database, control, locals, disk, bounds,
       history
  <2>3. LocalsOK'
    BY <1>3 DEF LocalsOK, EngineRestart, control, locals
  <2> QED
    BY <2>2, <2>3
<1> QED
  BY <1>1, <1>2, <1>3

LEMMA NextType ==
  ASSUME TypeOK, LocalsOK, [Next]_vars
  PROVE  TypeOK' /\ LocalsOK'
<1>1. ASSUME NEW s \in Slots, NEW r \in Requests, Receive(s, r)
      PROVE  TypeOK' /\ LocalsOK'
  BY <1>1, ReceiveType
<1>2. ASSUME NEW s \in Slots, Handle(s)
      PROVE  TypeOK' /\ LocalsOK'
  BY <1>2, HandleType
<1>3. ASSUME NEW w \in Workers, Regenerate(w)
      PROVE  TypeOK' /\ LocalsOK'
  BY <1>3, RegenerateType
<1>4. CASE UNCHANGED vars
  BY <1>4 DEF TypeOK, LocalsOK, vars
<1> QED
  BY <1>1, <1>2, <1>3, <1>4, RestartType DEF Next

(* Every table, file, container and local variable has its type, for any    *)
(* number of requests, presets, users, crashes and faults; in particular no *)
(* worker reads a local variable before a statement has filled it.          *)
THEOREM TypeCorrect == Spec => []TypeOK
<1>1. Init => TypeOK /\ LocalsOK
  BY InitTypeOK
<1>2. TypeOK /\ LocalsOK /\ [Next]_vars => (TypeOK /\ LocalsOK)'
  BY NextType
<1> QED
  BY <1>1, <1>2, PTL DEF Spec

-----------------------------------------------------------------------------
(* The freshness invariant.                                                *)
LEMMA InitFresh == Init => FreshInv
BY DEF Init, FreshInv, FreshUnlessDisturbed, UndisturbedIsCurrent, BootOK, Workers

(* A step of a worker outside its regeneration, the tables unchanged.      *)
LEMMA ElsewhereFresh ==
  ASSUME TypeOK, FreshInv, NEW s \in Slots, stage[s] \notin AfterListing,
         \A v \in Workers \ {s} :
           /\ stage'[v] = stage[v] /\ engine'[v] = engine[v]
           /\ seenProtocols'[v] = seenProtocols[v] /\ seenUsers'[v] = seenUsers[v],
         UNCHANGED <<protocols, vpnUsers, file, agent, undisturbed, healthy>>
  PROVE  FreshInv'
<1>1. FreshUnlessDisturbed'
  BY DEF FreshInv, FreshUnlessDisturbed, Current
<1>2. UndisturbedIsCurrent'
  <2>1. s \notin undisturbed
    BY DEF FreshInv, UndisturbedIsCurrent
  <2> QED
    BY <2>1 DEF TypeOK, FreshInv, UndisturbedIsCurrent
<1>3. BootOK'
  BY ConfigSyncAssumption DEF FreshInv, BootOK, Workers
<1> QED
  BY <1>1, <1>2, <1>3 DEF FreshInv

(* A committed change: nobody's listing, and no file, is vouched for.      *)
LEMMA CommitFresh ==
  ASSUME FreshInv, NEW s \in Slots, DatabaseChanges, NEW next,
         Goto(s, next), UNCHANGED agent, TypeOK
  PROVE  FreshInv'
<1>1. BootOK'
  BY ConfigSyncAssumption DEF TypeOK, FreshInv, BootOK, Goto, Workers
<1> QED
  BY <1>1 DEF FreshInv, DatabaseChanges, FreshUnlessDisturbed, UndisturbedIsCurrent

LEMMA HandleFresh ==
  ASSUME TypeOK, FreshInv, NEW s \in Slots, Handle(s)
  PROVE  FreshInv'
<1>0. s \in Workers
  BY DEF Workers
<1>1. CASE \/ PutProtocol(s) \/ InstallProtocol(s) \/ PatchUser(s) \/ DeleteUser(s)
  <2>1. DatabaseChanges /\ UNCHANGED agent
    BY <1>1 DEF PutProtocol, InstallProtocol, PatchUser, DeleteUser
  <2>2. Goto(s, "listProtocols") \/ Goto(s, "env")
    BY <1>1 DEF PutProtocol, InstallProtocol, PatchUser, DeleteUser
  <2> QED
    BY <2>1, <2>2, CommitFresh
<1>2. CASE \/ GetProtocol(s) \/ GetUser(s) \/ UserNotFound(s) \/ CreateUser(s)
           \/ PutSettings(s) \/ StatementFails(s) \/ InstallEnv(s)
           \/ ListForSync(s) \/ ComposeUp(s) \/ RestartXray(s) \/ DockerFails(s)
  <2>1. stage[s] \notin AfterListing
    BY <1>2 DEF AfterListing, AtCommit, GetProtocol, GetUser, UserNotFound,
       CreateUser, PutSettings, StatementFails, InstallEnv, ListForSync, ComposeUp,
       RestartXray, DockerFails
  <2>2. UNCHANGED <<protocols, vpnUsers, file, agent, undisturbed, healthy>>
    BY <1>2 DEF GetProtocol, GetUser, UserNotFound, CreateUser, PutSettings,
       StatementFails, InstallEnv, ListForSync, ComposeUp, RestartXray, DockerFails,
       database, disk, history
  <2>3. \A v \in Workers \ {s} :
           /\ stage'[v] = stage[v] /\ engine'[v] = engine[v]
           /\ seenProtocols'[v] = seenProtocols[v] /\ seenUsers'[v] = seenUsers[v]
    <3>1. ASSUME NEW st, Reply(s, st)
          PROVE  \A v \in Workers \ {s} :
                   /\ stage'[v] = stage[v] /\ engine'[v] = engine[v]
                   /\ seenProtocols'[v] = seenProtocols[v]
                   /\ seenUsers'[v] = seenUsers[v]
      BY <1>0, <3>1 DEF TypeOK, Reply, Forget
    <3>2. ASSUME AfterSync(s)
          PROVE  \A v \in Workers \ {s} :
                   /\ stage'[v] = stage[v] /\ engine'[v] = engine[v]
                   /\ seenProtocols'[v] = seenProtocols[v]
                   /\ seenUsers'[v] = seenUsers[v]
      BY <1>0, <3>1, <3>2 DEF TypeOK, AfterSync, Goto, Forget
    <3>3. CASE UserNotFound(s) \/ CreateUser(s) \/ PutSettings(s)
               \/ StatementFails(s) \/ RestartXray(s)
      BY <3>1, <3>3 DEF UserNotFound, CreateUser, PutSettings, StatementFails,
         RestartXray
    <3>4. CASE ComposeUp(s) \/ DockerFails(s)
      BY <3>1, <3>2, <3>4 DEF ComposeUp, DockerFails
    <3>5. CASE GetProtocol(s) \/ GetUser(s) \/ InstallEnv(s) \/ ListForSync(s)
      BY <1>0, <3>5 DEF TypeOK, GetProtocol, GetUser, InstallEnv, ListForSync, Goto,
         locals
    <3> QED
      BY <1>2, <3>3, <3>4, <3>5
  <2> QED
    BY <2>1, <2>2, <2>3, ElsewhereFresh
<1> QED
  BY <1>1, <1>2 DEF Handle

(* What AfterEngine leaves of the other workers.                           *)
LEMMA AfterEngineFresh ==
  ASSUME TypeOK, FreshInv, NEW w \in Workers, AfterEngine(w)
  PROVE  /\ BootOK'
         /\ \A v \in Workers \ {w} :
              /\ stage'[v] = stage[v] /\ engine'[v] = engine[v]
              /\ seenProtocols'[v] = seenProtocols[v] /\ seenUsers'[v] = seenUsers[v]
BY DEF TypeOK, FreshInv, BootOK, AfterEngine, NextStage, Forget, Workers

LEMMA RegenerateFresh ==
  ASSUME TypeOK, LocalsOK, FreshInv, NEW w \in Workers, Regenerate(w)
  PROVE  FreshInv'
<1>1. CASE ListProtocols(w)
  <2>1. FreshUnlessDisturbed'
    BY <1>1 DEF FreshInv, FreshUnlessDisturbed, Current, ListProtocols, database, disk
  <2>2. UndisturbedIsCurrent'
    BY <1>1 DEF TypeOK, FreshInv, UndisturbedIsCurrent, AfterListing, ListProtocols,
       Goto, database, disk
  <2>3. BootOK'
    BY <1>1 DEF TypeOK, FreshInv, BootOK, ListProtocols, Goto
  <2> QED
    BY <2>1, <2>2, <2>3 DEF FreshInv
<1>2. CASE ListUsers(w) \/ LoadOptions(w) \/ SidecarEnv(w)
  <2>1. /\ UNCHANGED <<protocols, vpnUsers, file, agent, undisturbed, healthy>>
        /\ UNCHANGED <<seenProtocols, engine>>
        /\ stage[w] \in {"listUsers", "options", "sidecarEnv"}
    BY <1>2 DEF ListUsers, LoadOptions, SidecarEnv, Goto, database, disk, history
  <2>2. \/ /\ stage[w] = "listUsers"
           /\ seenUsers' = [seenUsers EXCEPT ![w] = vpnUsers]
        \/ stage[w] # "listUsers" /\ UNCHANGED seenUsers
    BY <1>2 DEF ListUsers, LoadOptions, SidecarEnv
  <2>3. \E next \in {"options", "sidecarEnv", "truncate"} :
          stage' = [stage EXCEPT ![w] = next]
    BY <1>2 DEF ListUsers, LoadOptions, SidecarEnv, Goto
  <2>4. FreshUnlessDisturbed'
    BY <2>1 DEF FreshInv, FreshUnlessDisturbed, Current
  <2>5. UndisturbedIsCurrent'
    BY <2>1, <2>2, <2>3 DEF TypeOK, FreshInv, UndisturbedIsCurrent, AfterListing
  <2>6. BootOK'
    BY <2>1, <2>3 DEF TypeOK, FreshInv, BootOK
  <2> QED
    BY <2>4, <2>5, <2>6 DEF FreshInv
<1>3. CASE Truncate(w)
  <2>1. /\ file' = [file EXCEPT ![engine[w]] = Empty]
        /\ stage' = [stage EXCEPT ![w] = "write"]
        /\ healthy' = healthy \ {engine[w]}
        /\ undisturbed' = undisturbed \ OthersWriting(w)
        /\ UNCHANGED <<protocols, vpnUsers, engine, seenProtocols, seenUsers, agent>>
        /\ stage[w] = "truncate"
    BY <1>3 DEF Truncate, Goto, database, locals
  <2>2. FreshUnlessDisturbed'
    BY <2>1 DEF TypeOK, FreshInv, FreshUnlessDisturbed, Current
  <2>3. UndisturbedIsCurrent'
    BY <2>1 DEF TypeOK, FreshInv, UndisturbedIsCurrent, AfterListing, OthersWriting
  <2>4. BootOK'
    BY <2>1 DEF TypeOK, FreshInv, BootOK
  <2> QED
    BY <2>2, <2>3, <2>4 DEF FreshInv
<1>4. CASE Write(w)
  <2> DEFINE e == engine[w]
             new == Whole(Document(e, seenProtocols[w], seenUsers[w], seenOptions[w]))
  <2>1. /\ AfterEngine(w) /\ stage[w] = "write" /\ e \in Engines
        /\ \E f \in {new, Torn} : file' = [file EXCEPT ![e] = f]
        /\ undisturbed' = undisturbed \ (OthersWriting(w) \cup {w})
        /\ UNCHANGED <<protocols, vpnUsers>>
    BY <1>4 DEF TypeOK, Write, database
  <2>2. FreshUnlessDisturbed'
    <3>1. CASE w \in undisturbed
      <4>1. /\ seenProtocols[w] = protocols /\ seenUsers[w] = vpnUsers
            /\ file[e] = Empty
        BY <2>1, <3>1 DEF FreshInv, UndisturbedIsCurrent
      <4>2. file' = [file EXCEPT ![e] = new] /\ healthy' = healthy \cup {e}
        BY <1>4, <3>1, <4>1 DEF Write
      <4>3. Current(e, new)
        BY <4>1 DEF Current, Whole, Document
      <4> HIDE DEF new
      <4>4. \A x \in healthy' : file'[x] = IF x = e THEN new ELSE file[x]
        BY <2>1, <4>2 DEF TypeOK
      <4>5. \A x \in healthy' : Current(x, file'[x])
        BY <4>2, <4>3, <4>4 DEF FreshInv, FreshUnlessDisturbed
      <4> QED
        BY <2>1, <4>5 DEF FreshUnlessDisturbed, Current
    <3>2. CASE w \notin undisturbed
      <4>1. healthy' = healthy \ {e} /\ \A x \in healthy' : file'[x] = file[x]
        BY <1>4, <2>1, <3>2 DEF TypeOK, Write
      <4> QED
        BY <2>1, <4>1 DEF FreshInv, FreshUnlessDisturbed, Current
    <3> QED
      BY <3>1, <3>2
  <2>3. \A v \in undisturbed' : v # w /\ (stage[v] = "write" => engine[v] # e)
    BY <2>1 DEF TypeOK, OthersWriting
  <2>4. UndisturbedIsCurrent'
    <3>1. \A x \in Engines : x # e => file'[x] = file[x]
      BY <2>1 DEF TypeOK
    <3> QED
      BY <2>1, <2>3, <3>1, AfterEngineFresh DEF TypeOK, FreshInv, UndisturbedIsCurrent
  <2> QED
    BY <2>1, <2>2, <2>4, AfterEngineFresh DEF FreshInv
<1>5. CASE RegenerationFails(w)
  <2>1. /\ BootOK'
        /\ \A v \in Workers \ {w} :
             /\ stage'[v] = stage[v] /\ engine'[v] = engine[v]
             /\ seenProtocols'[v] = seenProtocols[v] /\ seenUsers'[v] = seenUsers[v]
    <3>1. CASE AfterEngine(w)
      BY <3>1, AfterEngineFresh
    <3>2. CASE w # Boot /\ Reply(w, "error") /\ UNCHANGED agent
      BY <3>2 DEF TypeOK, FreshInv, BootOK, Reply, Forget, Workers
    <3> QED
      BY <1>5, <3>1, <3>2 DEF RegenerationFails
  <2>2. UNCHANGED <<protocols, vpnUsers>>
    BY <1>5 DEF RegenerationFails, database
  <2>3. \A v \in undisturbed' :
          v \in undisturbed /\ v # w
          /\ (stage[v] = "write" => file'[engine[v]] = file[engine[v]])
    <3>1. CASE stage[w] = "write"
      <4>1. \A x \in Engines : x # engine[w] => file'[x] = file[x]
        BY <1>5, <3>1 DEF TypeOK, RegenerationFails
      <4>2. undisturbed' = undisturbed \ (OthersWriting(w) \cup {w})
        BY <1>5, <3>1 DEF RegenerationFails
      <4> QED
        BY <4>1, <4>2 DEF TypeOK, OthersWriting
    <3>2. CASE stage[w] # "write"
      BY <1>5, <3>2 DEF RegenerationFails
    <3> QED
      BY <3>1, <3>2
  <2>4. UndisturbedIsCurrent'
    BY <2>1, <2>2, <2>3 DEF TypeOK, FreshInv, UndisturbedIsCurrent
  <2>5. FreshUnlessDisturbed'
    <3>1. \A x \in healthy' : x \in healthy /\ file'[x] = file[x]
      BY <1>5 DEF TypeOK, RegenerationFails
    <3> QED
      BY <2>2, <3>1 DEF FreshInv, FreshUnlessDisturbed, Current
  <2> QED
    BY <2>1, <2>4, <2>5 DEF FreshInv
<1> QED
  BY <1>1, <1>2, <1>3, <1>4, <1>5 DEF Regenerate

LEMMA NextFresh ==
  ASSUME TypeOK, LocalsOK, FreshInv, [Next]_vars
  PROVE  FreshInv'
<1>1. ASSUME NEW s \in Slots, NEW r \in Requests, Receive(s, r)
      PROVE  FreshInv'
  <2>1. stage[s] = "idle"
    BY <1>1 DEF Receive
  <2> QED
    BY <1>1, <2>1, ElsewhereFresh DEF TypeOK, Receive, AfterListing, Workers,
       database, locals, disk
<1>2. ASSUME NEW s \in Slots, Handle(s)
      PROVE  FreshInv'
  BY <1>2, HandleFresh
<1>3. ASSUME NEW w \in Workers, Regenerate(w)
      PROVE  FreshInv'
  BY <1>3, RegenerateFresh
<1>4. CASE Crash
  BY <1>4 DEF FreshInv, FreshUnlessDisturbed, Current, UndisturbedIsCurrent, BootOK,
     Crash, database, disk, Workers
<1>5. CASE Start
  <2>1. stage[Boot] = "idle" /\ Boot \notin undisturbed
    BY <1>5 DEF FreshInv, BootOK, UndisturbedIsCurrent, AfterListing, Start
  <2>2. /\ agent' = "booting" /\ stage' = [stage EXCEPT ![Boot] = "listProtocols"]
        /\ UNCHANGED <<protocols, vpnUsers, engine, seenProtocols, seenUsers, file,
                       undisturbed, healthy>>
    BY <1>5 DEF Start, database, locals, disk, history
  <2> QED
    BY <2>1, <2>2 DEF TypeOK, FreshInv, FreshUnlessDisturbed, Current,
       UndisturbedIsCurrent, BootOK
<1>6. ASSUME NEW e \in Engines, EngineRestart(e)
      PROVE  FreshInv'
  BY <1>6 DEF FreshInv, FreshUnlessDisturbed, Current, UndisturbedIsCurrent, BootOK,
     EngineRestart, database, control, locals, disk, history
<1>7. CASE UNCHANGED vars
  BY <1>7 DEF FreshInv, FreshUnlessDisturbed, Current, UndisturbedIsCurrent, BootOK,
     vars
<1> QED
  BY <1>1, <1>2, <1>3, <1>4, <1>5, <1>6, <1>7 DEF Next

(* However many requests interleave, are killed or fail: a configuration    *)
(* file nobody disturbed after its listings is the rendering of the tables. *)
(* The invariant adds what a worker's listings are while it is undisturbed. *)
THEOREM Freshness == Spec => []FreshUnlessDisturbed
<1>1. Init => TypeOK /\ LocalsOK /\ FreshInv
  BY InitTypeOK, InitFresh
<1>2. TypeOK /\ LocalsOK /\ FreshInv /\ [Next]_vars
        => (TypeOK /\ LocalsOK /\ FreshInv)'
  BY NextType, NextFresh
<1>3. FreshInv => FreshUnlessDisturbed
  BY DEF FreshInv
<1> QED
  BY <1>1, <1>2, <1>3, PTL DEF Spec

(* A user once deleted stays deleted: of all statements only UpdateUser     *)
(* writes a row of vpn_users, and it finds none.                            *)
THEOREM DeletedStaysDeleted == Spec => NoResurrection
<1> DEFINE Stays == \A u \in UserIds : vpnUsers[u] = NoUser => vpnUsers'[u] = NoUser
<1>1. TypeOK /\ LocalsOK /\ [Next]_vars => [Stays]_vars
  <2> SUFFICES ASSUME TypeOK, LocalsOK, Next PROVE Stays
    OBVIOUS
  <2>1. ASSUME NEW s \in Slots, Handle(s)
        PROVE  Stays
    <3>1. CASE PatchUser(s) \/ DeleteUser(s)
      <4>1. vpnUsers \in UserTables
        BY DEF TypeOK
      <4> QED
        BY <3>1, <4>1 DEF PatchUser, DeleteUser, UserTables
    <3>2. CASE ~(PatchUser(s) \/ DeleteUser(s))
      <4>1. vpnUsers' = vpnUsers
        BY <2>1, <3>2 DEF Handle, GetProtocol, GetUser, UserNotFound, PutProtocol,
           InstallProtocol, CreateUser, PutSettings, StatementFails, InstallEnv,
           ListForSync, ComposeUp, RestartXray, DockerFails, database
      <4> QED
        BY <4>1
    <3> QED
      BY <3>1, <3>2
  <2>2. ASSUME NEW s \in Slots, NEW r \in Requests, Receive(s, r)
        PROVE  Stays
    BY <2>2 DEF Receive, database
  <2>3. ASSUME NEW w \in Workers, Regenerate(w)
        PROVE  Stays
    BY <2>3 DEF Regenerate, ListProtocols, ListUsers, LoadOptions, SidecarEnv,
       Truncate, Write, RegenerationFails, database
  <2>4. CASE Crash \/ Start \/ \E e \in Engines : EngineRestart(e)
    BY <2>4 DEF Crash, Start, EngineRestart, database
  <2> QED
    BY <2>1, <2>2, <2>3, <2>4 DEF Next
<1>2. Init => TypeOK /\ LocalsOK
  BY InitTypeOK
<1>3. TypeOK /\ LocalsOK /\ [Next]_vars => (TypeOK /\ LocalsOK)'
  BY NextType
<1> QED
  BY <1>1, <1>2, <1>3, PTL DEF Spec, NoResurrection

-----------------------------------------------------------------------------
(* A handler whose tables did not change since its request came has read    *)
(* the row as it is.                                                       *)
ReadIsCurrent ==
  \A s \in Slots \cap settled :
    stage[s] = "commit" /\ request[s].kind \in {"PutProtocol", "InstallProtocol"}
      => loadedRow[s] = protocols[request[s].id]

(* A step of a worker that does not bring it to its write.                  *)
LEMMA ElsewhereRead ==
  ASSUME ReadIsCurrent, NEW w \in Workers, stage'[w] # "commit",
         \A v \in Workers \ {w} : stage'[v] = stage[v] /\ loadedRow'[v] = loadedRow[v],
         UNCHANGED <<protocols, request, settled>>
  PROVE  ReadIsCurrent'
BY DEF ReadIsCurrent, Workers

(* What the next stages of a worker have in common.                         *)
LEMMA LeavesOthers ==
  ASSUME TypeOK, NEW w \in Workers,
         \/ (\E st : Reply(w, st)) \/ AfterSync(w) \/ AfterEngine(w)
         \/ UNCHANGED loadedRow /\ (\E next \in Stages \ {"commit"} : Goto(w, next))
  PROVE  /\ stage'[w] # "commit" /\ request' = request
         /\ \A v \in Workers \ {w} : stage'[v] = stage[v] /\ loadedRow'[v] = loadedRow[v]
<1>0. stage \in [Workers -> Stages] /\ loadedRow \in [Workers -> {None} \cup Rows]
  BY DEF TypeOK
<1>1. CASE \E st : Reply(w, st)
  BY <1>0, <1>1 DEF Reply, Forget
<1>2. CASE AfterSync(w)
  BY <1>0, <1>2 DEF AfterSync, Reply, Goto, Forget
<1>3. CASE AfterEngine(w)
  BY <1>0, <1>3 DEF AfterEngine, NextStage, Forget
<1>4. CASE UNCHANGED loadedRow /\ (\E next \in Stages \ {"commit"} : Goto(w, next))
  BY <1>0, <1>4 DEF Goto
<1> QED
  BY <1>1, <1>2, <1>3, <1>4

LEMMA NextRead ==
  ASSUME TypeOK, ReadIsCurrent, [Next]_vars
  PROVE  ReadIsCurrent'
<1>0. /\ stage \in [Workers -> Stages] /\ loadedRow \in [Workers -> {None} \cup Rows]
      /\ request \in [Workers -> {None} \cup Requests] /\ Slots \subseteq Workers
  BY DEF TypeOK, Workers
<1>1. ASSUME NEW s \in Slots, NEW r \in Requests, Receive(s, r)
      PROVE  ReadIsCurrent'
  <2>1. /\ request' = [request EXCEPT ![s] = r]
        /\ stage' = [stage EXCEPT ![s] = FirstStage(r.kind)]
        /\ settled' = settled \cup {s}
        /\ UNCHANGED <<protocols, loadedRow>>
    BY <1>1 DEF Receive, database, locals
  <2>2. r.kind \in {"PutProtocol", "InstallProtocol"} => FirstStage(r.kind) # "commit"
    BY DEF FirstStage
  <2> QED
    BY <1>0, <2>1, <2>2 DEF ReadIsCurrent
<1>2. ASSUME NEW s \in Slots, Handle(s)
      PROVE  ReadIsCurrent'
  <2>1. CASE PutProtocol(s) \/ InstallProtocol(s) \/ PatchUser(s) \/ DeleteUser(s)
    <3>1. settled' = {}
      BY <2>1 DEF PutProtocol, InstallProtocol, PatchUser, DeleteUser, DatabaseChanges
    <3> QED
      BY <3>1 DEF ReadIsCurrent
  <2>2. CASE GetProtocol(s)
    BY <1>0, <2>2 DEF GetProtocol, ReadIsCurrent, Goto, database, history
  <2>3. CASE GetUser(s)
    BY <1>0, <2>3 DEF GetUser, ReadIsCurrent, Goto, database, history
  <2>4. CASE UserNotFound(s) \/ CreateUser(s) \/ PutSettings(s) \/ StatementFails(s)
             \/ InstallEnv(s) \/ ListForSync(s)
    <3>1. \/ \E st : Reply(s, st)
          \/ UNCHANGED loadedRow /\ (\E next \in Stages \ {"commit"} : Goto(s, next))
      BY <2>4 DEF UserNotFound, CreateUser, PutSettings, StatementFails, InstallEnv,
         ListForSync, locals, Stages
    <3>2. UNCHANGED <<protocols, settled>>
      BY <2>4 DEF UserNotFound, CreateUser, PutSettings, StatementFails, InstallEnv,
         ListForSync, database, history
    <3> QED
      BY <1>0, <3>1, <3>2, LeavesOthers, ElsewhereRead
  <2>5. CASE ComposeUp(s) \/ RestartXray(s) \/ DockerFails(s)
    <3>1. (\E st : Reply(s, st)) \/ AfterSync(s)
      BY <2>5 DEF ComposeUp, RestartXray, DockerFails
    <3>2. UNCHANGED <<protocols, settled>>
      BY <2>5 DEF ComposeUp, RestartXray, DockerFails, database, history
    <3> QED
      BY <1>0, <3>1, <3>2, LeavesOthers, ElsewhereRead
  <2> QED
    BY <1>2, <2>1, <2>2, <2>3, <2>4, <2>5 DEF Handle
<1>3. ASSUME NEW w \in Workers, Regenerate(w)
      PROVE  ReadIsCurrent'
  <2>1. \/ (\E st : Reply(w, st)) \/ AfterEngine(w)
        \/ UNCHANGED loadedRow /\ (\E next \in Stages \ {"commit"} : Goto(w, next))
    BY <1>3 DEF Regenerate, ListProtocols, ListUsers, LoadOptions, SidecarEnv, Truncate,
       Write, RegenerationFails, locals, Stages
  <2>2. UNCHANGED <<protocols, settled>>
    BY <1>3 DEF Regenerate, ListProtocols, ListUsers, LoadOptions, SidecarEnv, Truncate,
       Write, RegenerationFails, database, history
  <2> QED
    BY <2>1, <2>2, LeavesOthers, ElsewhereRead
<1>4. CASE Crash
  BY <1>0, <1>4 DEF Crash, ReadIsCurrent
<1>5. CASE Start
  <2>1. Boot \notin Slots
    BY ConfigSyncAssumption
  <2> QED
    BY <1>0, <1>5, <2>1 DEF Start, ReadIsCurrent, database, locals, history
<1>6. CASE (\E e \in Engines : EngineRestart(e)) \/ UNCHANGED vars
  BY <1>6 DEF EngineRestart, ReadIsCurrent, database, control, locals, history, vars
<1> QED
  BY <1>1, <1>2, <1>3, <1>4, <1>5, <1>6 DEF Next

(* However many requests interleave, are killed or fail: a request that is  *)
(* about other columns keeps the config of its row, unless a table changed  *)
(* between its arrival and its UPDATE (PutProtocol, InstallProtocol).       *)
THEOREM ConfigsOutliveWrites == Spec => WritesKeepConfig
<1>1. TypeOK /\ LocalsOK /\ ReadIsCurrent /\ [Next]_vars => [ConfigsStay]_vars
  <2> SUFFICES ASSUME TypeOK, LocalsOK, ReadIsCurrent, Next,
                      NEW s \in Slots \cap settled, stage[s] = "commit",
                      stage'[s] \in {"env", "listProtocols"}, LeavesConfig(request[s])
               PROVE  protocols'[request[s].id].config = protocols[request[s].id].config
    BY DEF ConfigsStay
  <2> DEFINE p == request[s].id
             row == protocols[p]
  <2>0. /\ s \in Workers /\ s # Boot /\ stage \in [Workers -> Stages]
        /\ request[s] \in Requests /\ protocols \in ProtocolTables
    BY ConfigSyncAssumption DEF TypeOK, LocalsOK, Workers
  <2>1. request[s].kind \in {"PutProtocol", "InstallProtocol"} /\ loadedRow[s] = row
    BY DEF ReadIsCurrent, LeavesConfig
  <2>2. p \in ProtocolIds /\ row \in Rows
    <3>1. p \in ProtocolIds
      BY <2>0, <2>1, ConfigSyncAssumption DEF RequestTypes
    <3> QED
      BY <2>0, <3>1 DEF ProtocolTables
  <2>3. CASE PutProtocol(s)
    BY <2>0, <2>1, <2>2, <2>3 DEF PutProtocol, AtCommit, LeavesConfig, ProtocolTables
  <2>4. CASE InstallProtocol(s)
    <3>1. row.config \notin Unkeyed
      BY <2>4 DEF InstallProtocol, AtCommit, LeavesConfig
    <3>2. protocols' = [protocols EXCEPT ![p] =
                          [row EXCEPT !.installed = TRUE, !.config = row.config]]
      BY <2>1, <2>4, <3>1 DEF InstallProtocol
    <3> QED
      BY <2>0, <2>2, <3>2 DEF ProtocolTables, Rows
  <2>5. ASSUME NEW w \in Slots, PutProtocol(w) \/ InstallProtocol(w)
        PROVE  w = s
    <3>1. w \in Workers /\ (Goto(w, "listProtocols") \/ Goto(w, "env"))
      BY <2>5 DEF PutProtocol, InstallProtocol, Workers
    <3> QED
      BY <2>0, <3>1 DEF Goto
  <2>6. CASE \A w \in Slots : ~PutProtocol(w) /\ ~InstallProtocol(w)
    <3>1. CASE \E w \in Slots : Handle(w)
      BY <2>6, <3>1 DEF Handle, GetProtocol, GetUser, UserNotFound, PatchUser, DeleteUser,
         CreateUser, PutSettings, StatementFails, InstallEnv, ListForSync, ComposeUp,
         RestartXray, DockerFails, database
    <3>2. CASE \/ \E w \in Slots : \E r \in Requests : Receive(w, r)
               \/ \E w \in Workers : Regenerate(w)
      BY <3>2 DEF Receive, Regenerate, ListProtocols, ListUsers, LoadOptions, SidecarEnv,
         Truncate, Write, RegenerationFails, database
    <3>3. CASE Crash \/ Start \/ (\E e \in Engines : EngineRestart(e))
      BY <3>3 DEF Crash, Start, EngineRestart, database
    <3> QED
      BY <3>1, <3>2, <3>3 DEF Next
  <2> QED
    BY <2>3, <2>4, <2>5, <2>6
<1>2. Init => TypeOK /\ LocalsOK /\ ReadIsCurrent
  BY InitTypeOK DEF Init, ReadIsCurrent
<1>3. TypeOK /\ LocalsOK /\ ReadIsCurrent /\ [Next]_vars
        => (TypeOK /\ LocalsOK /\ ReadIsCurrent)'
  BY NextType, NextRead
<1> QED
  BY <1>1, <1>2, <1>3, PTL DEF Spec, WritesKeepConfig

-----------------------------------------------------------------------------
(* ConfigSync implements Publisher.                                        *)

(* A file or a process that is of no use holds no document, and a worker    *)
(* holds a listing of the users only on its way to the file.               *)
DocsOK ==
  \A e \in Engines :
    /\ file[e].state # "whole" => file[e].doc = {}
    /\ running[e].state # "whole" => running[e].doc = {}

DraftsOK ==
  \A w \in Workers :
    stage[w] \notin AfterListing \ {"listUsers"} => seenUsers[w] = None

PubInv == DocsOK /\ DraftsOK

(* How each kind of step shows in Publisher.                               *)
LEMMA KeepsDrafts ==
  ASSUME UNCHANGED <<seenProtocols, seenUsers>>
  PROVE  Pub!Discard({})
BY DEF Pub!Discard

LEMMA ForgetDiscards ==
  ASSUME TypeOK, NEW w \in Workers, Forget(w)
  PROVE  Pub!Discard({w})
BY DEF TypeOK, Forget, Pub!Discard, Pub!Blank

LEMMA Loads ==
  ASSUME DocsOK, NEW e \in Engines
  PROVE  Renderings(Load(file[e])) = Renderings(file[e])
BY DEF DocsOK, Load, Down, Renderings

LEMMA Stutters ==
  ASSUME UNCHANGED <<protocols, vpnUsers, seenProtocols, seenUsers, file, running,
                     healthy>>
  PROVE  UNCHANGED Pub!published
BY DEF Pub!published

LEMMA Changes ==
  ASSUME TypeOK', DatabaseChanges,
         UNCHANGED <<seenProtocols, seenUsers, file, running>>
  PROVE  Pub!Next
<1>1. Pub!Change
  BY DEF TypeOK, DatabaseChanges, Pub!Change
<1> QED
  BY <1>1 DEF Pub!Next

LEMMA Restarts ==
  ASSUME DocsOK, NEW E \in SUBSET Engines, NEW W \in SUBSET Workers, Pub!Discard(W),
         \A e \in Engines :
           running'[e] = IF e \in E THEN Load(file[e]) ELSE running[e],
         UNCHANGED <<protocols, vpnUsers, file, healthy>>
  PROVE  Pub!Next
<1>1. \A e \in Engines :
        Renderings(running'[e])
          = IF e \in E THEN Renderings(file[e]) ELSE Renderings(running[e])
  BY Loads
<1>2. Pub!Restart(E)
  BY <1>1 DEF Pub!Restart, Pub!tables
<1> QED
  BY <1>2 DEF Pub!Next

LEMMA GivesUp ==
  ASSUME DocsOK, NEW W \in SUBSET Workers, Pub!Discard(W),
         UNCHANGED <<protocols, vpnUsers, file, running, healthy>>
  PROVE  Pub!Next
<1> DEFINE E == {}
<1>1. E \in SUBSET Engines
  OBVIOUS
<1>2. \A e \in Engines : running'[e] = IF e \in E THEN Load(file[e]) ELSE running[e]
  OBVIOUS
<1> HIDE DEF E
<1> QED
  BY <1>1, <1>2, Restarts

LEMMA Spoils ==
  ASSUME TypeOK, NEW e \in Engines, NEW W \in SUBSET Workers, Pub!Discard(W),
         NEW f \in {file[e], Empty, Torn}, file' = [file EXCEPT ![e] = f],
         healthy' = healthy \ {e},
         UNCHANGED <<protocols, vpnUsers, running>>
  PROVE  Pub!Next
<1>1. \A x \in Engines : file'[x] = IF x = e THEN f ELSE file[x]
  BY DEF TypeOK
<1>2. Renderings(f) \in {Renderings(file[e]), {}}
  BY DEF Renderings, Empty, Torn
<1>3. \A x \in Engines :
        Renderings(file'[x]) = IF x = e THEN Renderings(f) ELSE Renderings(file[x])
  BY <1>1
<1>4. Pub!Spoil(e)
  BY <1>2, <1>3 DEF Pub!Spoil, Pub!tables
<1> QED
  BY <1>4 DEF Pub!Next

(* os.WriteFile's write publishes, or leaves two documents mixed.           *)
LEMMA WritePublishes ==
  ASSUME TypeOK, LocalsOK, FreshInv, NEW w \in Workers, Write(w)
  PROVE  Pub!Next
<1> DEFINE e == engine[w]
           new == Whole(Document(e, seenProtocols[w], seenUsers[w], seenOptions[w]))
<1>1. /\ e \in Engines /\ Forget(w) /\ UNCHANGED <<protocols, vpnUsers, running>>
      /\ seenProtocols[w] \in ProtocolTables /\ seenUsers[w] \in UserTables
  BY DEF TypeOK, LocalsOK, AfterListing, Write, AfterEngine, database, containers
<1>2. Pub!Discard({w})
  BY <1>1, ForgetDiscards
<1>3. PICK f \in IF file[e] \in {Empty, new} THEN {new} ELSE {new, Torn} :
        file' = [file EXCEPT ![e] = f]
  BY DEF Write
<1>4. healthy' = IF w \in undisturbed THEN healthy \cup {e} ELSE healthy \ {e}
  BY DEF Write
<1>5. w \in undisturbed =>
        seenProtocols[w] = protocols /\ seenUsers[w] = vpnUsers /\ file[e] = Empty
  BY DEF FreshInv, UndisturbedIsCurrent, Write
<1>6. CASE f = new
  <2>1. Renderings(new) = {Inbounds(e, seenProtocols[w], seenUsers[w])}
    BY DEF Renderings, Whole, Document
  <2> HIDE DEF new
  <2>2. \A x \in Engines : file'[x] = IF x = e THEN new ELSE file[x]
    BY <1>1, <1>3, <1>6 DEF TypeOK
  <2>3. \A x \in Engines :
          Renderings(file'[x]) =
            IF x = e THEN {Inbounds(e, seenProtocols[w], seenUsers[w])}
            ELSE Renderings(file[x])
    BY <2>1, <2>2
  <2>4. seenProtocols[w] # None /\ seenUsers[w] # None
    BY <1>1, ConfigSyncAssumption
  <2>5. Pub!Publish(w, e)
    BY <1>1, <1>2, <1>4, <1>5, <2>3, <2>4 DEF Pub!Publish, Pub!tables
  <2> QED
    BY <1>1, <2>5 DEF Pub!Next
<1>7. CASE f # new
  <2>1. f = Torn /\ w \notin undisturbed
    BY <1>3, <1>5, <1>7
  <2> QED
    BY <1>1, <1>2, <1>3, <1>4, <2>1, Spoils
<1> QED
  BY <1>6, <1>7

LEMMA RegenerateMaps ==
  ASSUME TypeOK, LocalsOK, FreshInv, PubInv, NEW w \in Workers, Regenerate(w)
  PROVE  [Pub!Next]_(Pub!published)
<1>1. CASE ListProtocols(w)
  <2>1. seenUsers[w] = None
    BY <1>1 DEF PubInv, DraftsOK, AfterListing, ListProtocols
  <2>2. /\ seenProtocols' = [seenProtocols EXCEPT ![w] = protocols]
        /\ UNCHANGED <<protocols, vpnUsers, seenUsers, file, running, healthy>>
    BY <1>1 DEF ListProtocols, database, disk, containers
  <2>3. Pub!ReadPresets(w)
    BY <2>1, <2>2 DEF TypeOK, Pub!ReadPresets, Pub!tables
  <2> QED
    BY <2>3 DEF Pub!Next
<1>2. CASE ListUsers(w)
  <2>1. seenProtocols[w] # None
    BY <1>2, ConfigSyncAssumption DEF LocalsOK, AfterListing, ListUsers
  <2>2. /\ seenUsers' = [seenUsers EXCEPT ![w] = vpnUsers]
        /\ UNCHANGED <<protocols, vpnUsers, seenProtocols, file, running, healthy>>
    BY <1>2 DEF ListUsers, database, disk, containers, history
  <2>3. Pub!ReadUsers(w)
    BY <2>1, <2>2 DEF TypeOK, Pub!ReadUsers, Pub!tables
  <2> QED
    BY <2>3 DEF Pub!Next
<1>3. CASE LoadOptions(w) \/ SidecarEnv(w)
  BY <1>3, Stutters DEF LoadOptions, SidecarEnv, database, disk, containers, history
<1>4. CASE Truncate(w)
  <2>1. /\ engine[w] \in Engines
        /\ file' = [file EXCEPT ![engine[w]] = Empty]
        /\ healthy' = healthy \ {engine[w]}
        /\ UNCHANGED <<protocols, vpnUsers, seenProtocols, seenUsers, running>>
    BY <1>4 DEF TypeOK, Truncate, database, locals, containers
  <2> QED
    BY <2>1, KeepsDrafts, Spoils
<1>5. CASE Write(w)
  BY <1>5, WritePublishes
<1>6. CASE RegenerationFails(w)
  <2>1. /\ engine[w] \in Engines
        /\ UNCHANGED <<protocols, vpnUsers, running>>
    BY <1>6 DEF TypeOK, RegenerationFails, database, containers
  <2>2. Pub!Discard({w})
    <3>1. Forget(w)
      BY <1>6 DEF RegenerationFails, Reply, AfterEngine
    <3> QED
      BY <3>1, ForgetDiscards
  <2>3. CASE stage[w] = "write"
    <3>1. healthy' = healthy \ {engine[w]}
      BY <1>6, <2>3 DEF RegenerationFails
    <3>2. PICK f \in {file[engine[w]], Torn} : file' = [file EXCEPT ![engine[w]] = f]
      BY <1>6, <2>3 DEF RegenerationFails
    <3> QED
      BY <2>1, <2>2, <3>1, <3>2, Spoils
  <2>4. CASE stage[w] # "write"
    <3>1. UNCHANGED <<file, healthy>>
      BY <1>6, <2>4 DEF RegenerationFails
    <3> QED
      BY <2>1, <2>2, <3>1, GivesUp DEF PubInv
  <2> QED
    BY <2>3, <2>4
<1> QED
  BY <1>1, <1>2, <1>3, <1>4, <1>5, <1>6 DEF Regenerate

(* The containers, and every answer.                                       *)
LEMMA HandleMaps ==
  ASSUME TypeOK, TypeOK', PubInv, NEW s \in Slots, Handle(s)
  PROVE  [Pub!Next]_(Pub!published)
<1>0. s \in Workers
  BY DEF Workers
<1>1. CASE PutProtocol(s) \/ InstallProtocol(s) \/ PatchUser(s) \/ DeleteUser(s)
  <2>1. DatabaseChanges /\ UNCHANGED <<seenProtocols, seenUsers, file, running>>
    BY <1>1 DEF PutProtocol, InstallProtocol, PatchUser, DeleteUser, locals, disk,
       containers
  <2> QED
    BY <2>1, Changes
<1>2. CASE GetProtocol(s) \/ GetUser(s) \/ InstallEnv(s)
  BY <1>2, Stutters DEF GetProtocol, GetUser, InstallEnv, database, locals, disk,
     containers, history
<1>3. CASE UserNotFound(s) \/ CreateUser(s) \/ PutSettings(s) \/ StatementFails(s)
  <2>1. Forget(s) /\ UNCHANGED <<protocols, vpnUsers, file, running, healthy>>
    BY <1>3 DEF UserNotFound, CreateUser, PutSettings, StatementFails, Reply,
       database, disk, containers, history
  <2> QED
    BY <1>0, <2>1, ForgetDiscards, GivesUp DEF PubInv
<1>4. CASE ListForSync(s)
  <2>1. seenUsers[s] = None
    BY <1>0, <1>4 DEF PubInv, DraftsOK, AfterListing, ListForSync
  <2>2. /\ seenProtocols' = [seenProtocols EXCEPT ![s] = protocols]
        /\ UNCHANGED <<protocols, vpnUsers, seenUsers, file, running, healthy>>
    BY <1>4 DEF ListForSync, database, disk, containers, history
  <2>3. Pub!ReadPresets(s)
    BY <1>0, <2>1, <2>2 DEF TypeOK, Pub!ReadPresets, Pub!tables
  <2> QED
    BY <1>0, <2>3 DEF Pub!Next
<1>5. CASE ComposeUp(s) \/ RestartXray(s) \/ DockerFails(s)
  <2>1. UNCHANGED <<protocols, vpnUsers, file, healthy>>
    BY <1>5 DEF ComposeUp, RestartXray, DockerFails, database, disk, history
  <2>2. Forget(s)
    BY <1>5 DEF ComposeUp, RestartXray, DockerFails, AfterSync, Reply
  <2>3. \A e \in Engines : running'[e] \in {running[e], Load(file[e])}
    BY <1>5 DEF TypeOK, ComposeUp, RestartXray, DockerFails, Started, Engines
  <2> DEFINE E == {e \in Engines : running'[e] # running[e]}
  <2>4. \A e \in Engines : running'[e] = IF e \in E THEN Load(file[e]) ELSE running[e]
    BY <2>3
  <2>5. E \in SUBSET Engines
    OBVIOUS
  <2> HIDE DEF E
  <2> QED
    BY <1>0, <2>1, <2>2, <2>4, <2>5, ForgetDiscards, Restarts DEF PubInv
<1> QED
  BY <1>1, <1>2, <1>3, <1>4, <1>5 DEF Handle

LEMMA NextMaps ==
  ASSUME TypeOK, TypeOK', LocalsOK, FreshInv, PubInv, [Next]_vars
  PROVE  [Pub!Next]_(Pub!published)
<1>1. ASSUME NEW s \in Slots, NEW r \in Requests, Receive(s, r)
      PROVE  [Pub!Next]_(Pub!published)
  BY <1>1, Stutters DEF Receive, database, locals, disk, containers
<1>2. CASE Crash
  <2>1. Pub!Discard(Workers)
    BY <1>2 DEF Crash, Pub!Discard, Pub!Blank
  <2>2. UNCHANGED <<protocols, vpnUsers, file, running, healthy>>
    BY <1>2 DEF Crash, database, disk, containers
  <2> QED
    BY <2>1, <2>2, GivesUp DEF PubInv
<1>3. CASE Start \/ UNCHANGED vars
  BY <1>3, Stutters DEF Start, database, locals, disk, containers, history, vars
<1>4. ASSUME NEW e \in Engines, EngineRestart(e)
      PROVE  [Pub!Next]_(Pub!published)
  <2>1. UNCHANGED <<protocols, vpnUsers, seenProtocols, seenUsers, file, healthy>>
    BY <1>4 DEF EngineRestart, database, locals, disk, history
  <2>2. \A x \in Engines :
          running'[x] = IF x \in {e} THEN Load(file[x]) ELSE running[x]
    BY <1>4 DEF TypeOK, EngineRestart
  <2> QED
    BY <2>1, <2>2, KeepsDrafts, Restarts DEF PubInv
<1> QED
  BY <1>1, <1>2, <1>3, <1>4, HandleMaps, RegenerateMaps DEF Next

(* PubInv is kept.                                                         *)
LEMMA KeepsDocs ==
  ASSUME TypeOK, DocsOK, [Next]_vars
  PROVE  DocsOK'
<1>1. SUFFICES
        \A e \in Engines :
          /\ file'[e] = file[e] \/ file'[e] \in {Empty, Torn} \/ file'[e].state = "whole"
          /\ running'[e] \in {running[e], Load(file[e])}
  BY DEF DocsOK, Load, Down, Empty, Torn
<1>2. ASSUME UNCHANGED file
      PROVE  \A e \in Engines :
               file'[e] = file[e] \/ file'[e] \in {Empty, Torn} \/ file'[e].state = "whole"
  BY <1>2
<1>3. ASSUME UNCHANGED running
      PROVE  \A e \in Engines : running'[e] \in {running[e], Load(file[e])}
  BY <1>3
<1>4. ASSUME NEW s \in Slots, NEW r \in Requests, Receive(s, r)
      PROVE  UNCHANGED <<file, running>>
  BY <1>4 DEF Receive, disk, containers
<1>5. ASSUME NEW s \in Slots, Handle(s)
      PROVE  /\ UNCHANGED file
             /\ \A e \in Engines : running'[e] \in {running[e], Load(file[e])}
  <2>1. CASE ComposeUp(s) \/ RestartXray(s) \/ DockerFails(s)
    BY <2>1 DEF TypeOK, ComposeUp, RestartXray, DockerFails, Started, Engines, disk
  <2>2. CASE ~(ComposeUp(s) \/ RestartXray(s) \/ DockerFails(s))
    <3>1. UNCHANGED <<file, running>>
      BY <1>5, <2>2 DEF Handle, GetProtocol, GetUser, UserNotFound, PutProtocol,
         InstallProtocol, PatchUser, DeleteUser, CreateUser, PutSettings,
         StatementFails, InstallEnv, ListForSync, disk, containers
    <3> QED
      BY <3>1
  <2> QED
    BY <2>1, <2>2
<1>6. ASSUME NEW w \in Workers, Regenerate(w)
      PROVE  /\ UNCHANGED running
             /\ \A e \in Engines :
                  file'[e] = file[e] \/ file'[e] \in {Empty, Torn}
                  \/ file'[e].state = "whole"
  <2>1. UNCHANGED running
    BY <1>6 DEF Regenerate, ListProtocols, ListUsers, LoadOptions, SidecarEnv,
       Truncate, Write, RegenerationFails, containers
  <2>2. CASE ListProtocols(w) \/ ListUsers(w) \/ LoadOptions(w) \/ SidecarEnv(w)
    BY <2>1, <2>2 DEF ListProtocols, ListUsers, LoadOptions, SidecarEnv, disk
  <2>3. CASE Truncate(w) \/ RegenerationFails(w)
    BY <2>1, <2>3 DEF TypeOK, Truncate, RegenerationFails
  <2>4. CASE Write(w)
    <3> DEFINE d == Document(engine[w], seenProtocols[w], seenUsers[w], seenOptions[w])
    <3>1. \E f \in {Whole(d), Torn} : file' = [file EXCEPT ![engine[w]] = f]
      BY <2>4 DEF Write
    <3>2. Whole(d).state = "whole"
      BY DEF Whole
    <3> HIDE DEF d
    <3> QED
      BY <2>1, <3>1, <3>2 DEF TypeOK
  <2> QED
    BY <1>6, <2>1, <2>2, <2>3, <2>4 DEF Regenerate
<1>7. CASE Crash \/ Start \/ UNCHANGED vars
  BY <1>2, <1>3, <1>7 DEF Crash, Start, disk, containers, vars
<1>8. ASSUME NEW e \in Engines, EngineRestart(e)
      PROVE  /\ UNCHANGED file
             /\ \A x \in Engines : running'[x] \in {running[x], Load(file[x])}
  BY <1>8 DEF TypeOK, EngineRestart, disk
<1> QED
  BY <1>2, <1>3, <1>4, <1>5, <1>6, <1>7, <1>8 DEF Next

LEMMA KeepsDraftsOK ==
  ASSUME TypeOK, BootOK, DraftsOK, [Next]_vars
  PROVE  DraftsOK'
<1> DEFINE Later == AfterListing \ {"listUsers"}
<1>1. ASSUME NEW w \in Workers, Forget(w),
             \A v \in Workers \ {w} : stage'[v] = stage[v]
      PROVE  DraftsOK'
  BY <1>1 DEF TypeOK, DraftsOK, Forget
<1>2. ASSUME NEW w \in Workers, UNCHANGED seenUsers, stage[w] \notin Later,
             \A v \in Workers \ {w} : stage'[v] = stage[v]
      PROVE  DraftsOK'
  BY <1>2 DEF DraftsOK
<1>3. ASSUME NEW w \in Workers, UNCHANGED seenUsers, stage'[w] \in Later,
             \A v \in Workers \ {w} : stage'[v] = stage[v]
      PROVE  DraftsOK'
  BY <1>3 DEF DraftsOK
<1>4. ASSUME NEW s \in Slots, NEW r \in Requests, Receive(s, r)
      PROVE  DraftsOK'
  BY <1>2, <1>4 DEF TypeOK, Receive, locals, Workers, AfterListing
<1>5. ASSUME NEW s \in Slots, Handle(s)
      PROVE  DraftsOK'
  <2>0. s \in Workers
    BY DEF Workers
  <2>1. CASE Forget(s) /\ \E next : stage' = [stage EXCEPT ![s] = next]
    BY <1>1, <2>0, <2>1 DEF TypeOK
  <2>2. CASE GetProtocol(s) \/ GetUser(s) \/ PutProtocol(s) \/ InstallProtocol(s)
             \/ PatchUser(s) \/ DeleteUser(s) \/ InstallEnv(s) \/ ListForSync(s)
    <3>1. UNCHANGED seenUsers /\ stage[s] \in {"get", "commit", "env", "listForSync"}
      BY <2>2 DEF GetProtocol, GetUser, PutProtocol, InstallProtocol, PatchUser,
         DeleteUser, InstallEnv, ListForSync, AtCommit, locals
    <3>2. \E next : stage' = [stage EXCEPT ![s] = next]
      BY <2>2 DEF GetProtocol, GetUser, PutProtocol, InstallProtocol, PatchUser,
         DeleteUser, InstallEnv, ListForSync, Goto
    <3> QED
      BY <1>2, <2>0, <3>1, <3>2 DEF TypeOK, AfterListing
  <2>3. CASE UserNotFound(s) \/ CreateUser(s) \/ PutSettings(s) \/ StatementFails(s)
             \/ ComposeUp(s) \/ RestartXray(s) \/ DockerFails(s)
    <3>1. Forget(s)
      BY <2>3 DEF UserNotFound, CreateUser, PutSettings, StatementFails, ComposeUp,
         RestartXray, DockerFails, AfterSync, Reply
    <3>2. \E next : stage' = [stage EXCEPT ![s] = next]
      BY <2>3 DEF UserNotFound, CreateUser, PutSettings, StatementFails, ComposeUp,
         RestartXray, DockerFails, AfterSync, Reply, Goto
    <3> QED
      BY <2>1, <3>1, <3>2
  <2> QED
    BY <1>5, <2>2, <2>3 DEF Handle
<1>6. ASSUME NEW w \in Workers, Regenerate(w)
      PROVE  DraftsOK'
  <2>1. CASE ListProtocols(w)
    BY <1>2, <2>1 DEF TypeOK, ListProtocols, Goto, AfterListing
  <2>2. CASE ListUsers(w)
    BY <2>2 DEF TypeOK, DraftsOK, ListUsers, Goto, AfterListing
  <2>3. CASE LoadOptions(w) \/ SidecarEnv(w) \/ Truncate(w)
    <3>1. UNCHANGED seenUsers
      BY <2>3 DEF LoadOptions, SidecarEnv, Truncate, locals
    <3>2. \E next \in {"truncate", "write"} : stage' = [stage EXCEPT ![w] = next]
      BY <2>3 DEF LoadOptions, SidecarEnv, Truncate, Goto
    <3> QED
      BY <1>3, <3>1, <3>2 DEF TypeOK, AfterListing
  <2>4. CASE Write(w) \/ RegenerationFails(w)
    <3>1. Forget(w) /\ \E next : stage' = [stage EXCEPT ![w] = next]
      BY <2>4 DEF Write, RegenerationFails, AfterEngine, Reply
    <3> QED
      BY <1>1, <3>1 DEF TypeOK
  <2> QED
    BY <1>6, <2>1, <2>2, <2>3, <2>4 DEF Regenerate
<1>7. CASE Crash
  BY <1>7 DEF DraftsOK, Crash
<1>8. CASE Start
  BY <1>2, <1>8 DEF TypeOK, BootOK, Start, locals, AfterListing, Workers
<1>9. CASE UNCHANGED vars \/ \E e \in Engines : EngineRestart(e)
  BY <1>9 DEF DraftsOK, EngineRestart, control, locals, vars
<1> QED
  BY <1>4, <1>5, <1>6, <1>7, <1>8, <1>9 DEF Next

(* The pipeline implements Publisher: initial states map to initial states, *)
(* and every statement, write, kill and docker command of any number of     *)
(* requests is a step of Publisher or a stutter.                           *)
THEOREM PipelinePublishes == Spec => Publishes
<1> DEFINE Inv == TypeOK /\ LocalsOK /\ FreshInv /\ PubInv
<1>1. Init => Inv /\ Pub!Init
  <2> SUFFICES ASSUME Init PROVE Inv /\ Pub!Init
    OBVIOUS
  <2>1. \A e \in Engines : file[e] = Absent /\ running[e] \in {Down, NotCreated}
    <3>1. running = [e \in Engines |-> IF e = "xray" THEN Down ELSE NotCreated]
      BY DEF Init, Engines
    <3> QED
      BY <3>1 DEF Init
  <2>2. PubInv
    <3>1. Absent.doc = {} /\ Down.doc = {} /\ NotCreated.doc = {}
      BY DEF Absent, Down, NotCreated
    <3>2. DocsOK
      BY <2>1, <3>1 DEF DocsOK
    <3>3. DraftsOK
      BY DEF Init, DraftsOK
    <3> QED
      BY <3>2, <3>3 DEF PubInv
  <2>3. protocols \in ProtocolTables /\ vpnUsers \in UserTables
    BY ConfigSyncAssumption DEF Init
  <2>4. \A e \in Engines : Renderings(file[e]) = {} /\ Renderings(running[e]) = {}
    <3>1. Renderings(Absent) = {} /\ Renderings(Down) = {} /\ Renderings(NotCreated) = {}
      BY DEF Renderings, Absent, Down, NotCreated
    <3> QED
      BY <2>1, <3>1
  <2>5. Pub!Init
    BY <2>3, <2>4 DEF Init, Pub!Init, Pub!Blank
  <2> QED
    BY <2>2, <2>5, InitTypeOK, InitFresh
<1>2. Inv /\ [Next]_vars => Inv'
  BY NextType, NextFresh, KeepsDocs, KeepsDraftsOK DEF PubInv, FreshInv
<1>3. Inv /\ Inv' /\ [Next]_vars => [Pub!Next]_(Pub!published)
  BY NextMaps
<1> QED
  BY <1>1, <1>2, <1>3, PTL DEF Spec, Publishes, Pub!Spec
=============================================================================
