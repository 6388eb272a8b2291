------------------------------ MODULE ConfigSync ------------------------------
(***************************************************************************)
(* How a change made in the panel reaches the VPN engines.                  *)
(*                                                                         *)
(* Every mutating handler (internal/api/handlers.go) commits one row to     *)
(* SQLite and then regenerates the configuration file of Xray and the one   *)
(* of sing-box from fresh listings of the tables; "apply" and "install"     *)
(* go on to the docker containers.  net/http runs each request on its own   *)
(* goroutine and nothing in the agent takes a lock, so the statements of    *)
(* several requests interleave freely; the agent may be killed between any  *)
(* two of them, and on the next start main() writes the Xray file again.    *)
(*                                                                         *)
(* One action is one SQLite statement, one system call on a file, or one    *)
(* docker command of one request.  The sequence a request goes through is   *)
(*                                                                         *)
(*   get -> commit -> env -> [listProtocols -> listUsers -> options/env     *)
(*       -> truncate -> write] for xray, then for singbox                   *)
(*       -> listForSync -> composeUp -> restart                             *)
(*                                                                         *)
(* with the stages each kind of request has (see FirstStage, AfterEngine).  *)
(***************************************************************************)
EXTENDS AgentConfig

CONSTANTS
  Slots,            \* requests in flight at once
  Boot,             \* the start-up thread of main()
  Requests,         \* the requests clients may send
  InitialTables,    \* contents of table protocols after Migrate
  InitialUsers,     \* contents of vpn_users an earlier version left
  DefaultOptions,   \* [Engines -> Options]: used when no row is saved
  Unkeyed,          \* configs without the secret their protocol needs
  Completions,      \* what InstallProtocol may complete each of them to
  None,
  XrayContainer,    \* is KOSIRO_XRAY_CONTAINER set
  ComposeWritable,  \* can the agent write the compose directory's .env
  MaxRequests, MaxCrashes, MaxFaults      \* bounds for model checking

Workers == Slots \cup {Boot}

RequestTypes ==
  [kind : {"PutProtocol"}, id : ProtocolIds, enabled : BOOLEAN,
   installed : BOOLEAN, config : {None} \cup Configs]
  \cup [kind : {"InstallProtocol"}, id : ProtocolIds]
  \cup [kind : {"PatchUser"}, id : UserIds, grants : {None} \cup Grants]
  \cup [kind : {"DeleteUser"}, id : UserIds]
  \cup [kind : {"PutSettings"}, engine : Engines, options : Options]
  \cup [kind : {"CreateUser", "ApplyProtocols"}]

ASSUME ConfigSyncAssumption ==
  /\ Boot \notin Slots
  /\ Requests \subseteq RequestTypes
  /\ InitialTables \subseteq ProtocolTables
  /\ InitialUsers \subseteq UserTables
  /\ DefaultOptions \in [Engines -> Options]
  /\ Unkeyed \subseteq Configs
  /\ Completions \in [Unkeyed -> (SUBSET (Configs \ Unkeyed)) \ {{}}]
  /\ None \notin Configs
  /\ \A g \in Grants : g # None
  /\ None \notin ProtocolTables \cup UserTables
  /\ XrayContainer \in BOOLEAN /\ ComposeWritable \in BOOLEAN
  /\ MaxRequests \in Nat /\ MaxCrashes \in Nat /\ MaxFaults \in Nat

(* A file as an engine that opens it sees it.                              *)
Whole(doc) == [state |-> "whole", doc |-> {doc}]
Absent     == [state |-> "absent", doc |-> {}]
Empty      == [state |-> "empty", doc |-> {}]
Torn       == [state |-> "torn", doc |-> {}]

Files == [state : {"absent", "empty", "torn", "whole"}, doc : SUBSET DocumentType]

(* An engine's process: never started, not serving, or serving a document. *)
NotCreated == [state |-> "not created", doc |-> {}]
Down       == [state |-> "down", doc |-> {}]

Processes ==
  [state : {"not created", "down", "whole"}, doc : SUBSET DocumentType]

(* The engine's process after it is started over a file.                   *)
Load(f) == IF f.state = "whole" THEN f ELSE Down

Stages == {"idle", "get", "commit", "env", "listProtocols", "listUsers",
           "options", "sidecarEnv", "truncate", "write",
           "listForSync", "composeUp", "restart"}

VARIABLES
  protocols, vpnUsers, settings,            \* the SQLite tables
  request, stage, engine, reply,            \* control of each worker
  loadedRow, loadedGrants,                  \* GetProtocol / GetUser result
  seenProtocols, seenUsers, seenOptions,    \* listings of a regeneration
  file, mtprotoEnv, composeEnv,             \* files on disk
  running, proxy,                           \* containers
  agent,                                    \* the agent process
  received, crashes, faults,                \* bounds
  undisturbed, healthy, settled, applied    \* history, read by no guard

database   == <<protocols, vpnUsers, settings>>
control    == <<request, stage, engine, reply>>
locals     == <<loadedRow, loadedGrants, seenProtocols, seenUsers, seenOptions>>
disk       == <<file, mtprotoEnv, composeEnv>>
containers == <<running, proxy>>
bounds     == <<received, crashes, faults>>
history    == <<undisturbed, healthy, settled, applied>>

vars == <<protocols, vpnUsers, settings, request, stage, engine, reply,
          loadedRow, loadedGrants, seenProtocols, seenUsers, seenOptions,
          file, mtprotoEnv, composeEnv, running, proxy, agent,
          received, crashes, faults, undisturbed, healthy, settled, applied>>

-----------------------------------------------------------------------------
Init ==
  /\ protocols \in InitialTables
  /\ vpnUsers \in InitialUsers
  /\ settings = DefaultOptions
  /\ request = [w \in Workers |-> None]
  /\ stage = [w \in Workers |-> "idle"]
  /\ engine = [w \in Workers |-> "xray"]
  /\ reply = [w \in Workers |-> "none"]
  /\ loadedRow = [w \in Workers |-> None]
  /\ loadedGrants = [w \in Workers |-> None]
  /\ seenProtocols = [w \in Workers |-> None]
  /\ seenUsers = [w \in Workers |-> None]
  /\ seenOptions = [w \in Workers |-> None]
  /\ file = [e \in Engines |-> Absent]
  /\ mtprotoEnv = None
  /\ composeEnv = None
  /\ running = [xray |-> Down, singbox |-> NotCreated]
  /\ proxy = None
  /\ agent = "down"
  /\ received = 0 /\ crashes = 0 /\ faults = 0
  /\ undisturbed = {} /\ healthy = {} /\ settled = {} /\ applied = {}

(* The handler's first statement.  CreateUser and DeleteUser start with    *)
(* their write, ApplyProtocols with its regeneration.                      *)
FirstStage(kind) ==
  IF kind \in {"PutProtocol", "InstallProtocol", "PatchUser"} THEN "get"
  ELSE IF kind = "ApplyProtocols" THEN "listProtocols"
  ELSE "commit"

Receive(s, r) ==
  /\ agent = "up"
  /\ stage[s] = "idle"
  /\ received < MaxRequests
  /\ received' = received + 1
  /\ request' = [request EXCEPT ![s] = r]
  /\ reply' = [reply EXCEPT ![s] = "none"]
  /\ stage' = [stage EXCEPT ![s] = FirstStage(r.kind)]
  /\ engine' = [engine EXCEPT ![s] = "xray"]
  /\ settled' = settled \cup {s}
  /\ UNCHANGED <<database, locals, disk, containers, agent, crashes, faults,
                 undisturbed, healthy, applied>>

(* A worker's local variables are dead.                                    *)
Forget(w) ==
  /\ loadedRow' = [loadedRow EXCEPT ![w] = None]
  /\ loadedGrants' = [loadedGrants EXCEPT ![w] = None]
  /\ seenProtocols' = [seenProtocols EXCEPT ![w] = None]
  /\ seenUsers' = [seenUsers EXCEPT ![w] = None]
  /\ seenOptions' = [seenOptions EXCEPT ![w] = None]

Reply(s, status) ==
  /\ stage' = [stage EXCEPT ![s] = "idle"]
  /\ reply' = [reply EXCEPT ![s] = status]
  /\ Forget(s)
  /\ UNCHANGED <<request, engine>>

AtCommit(s, kind) == stage[s] = "commit" /\ request[s].kind = kind

(* The tables that the documents are built from change.                    *)
DatabaseChanges ==
  undisturbed' = {} /\ healthy' = {} /\ settled' = {} /\ applied' = {}

Goto(w, next) ==
  /\ stage' = [stage EXCEPT ![w] = next]
  /\ UNCHANGED <<request, engine, reply>>

-----------------------------------------------------------------------------
(* GetProtocol, before the request body is decoded.                        *)
GetProtocol(s) ==
  /\ stage[s] = "get"
  /\ request[s].kind \in {"PutProtocol", "InstallProtocol"}
  /\ loadedRow' = [loadedRow EXCEPT ![s] = protocols[request[s].id]]
  /\ Goto(s, "commit")
  /\ UNCHANGED <<database, loadedGrants, seenProtocols, seenUsers, seenOptions,
                 disk, containers, agent, bounds, history>>

(* GetUser: a user deleted meanwhile is answered with 404.                 *)
GetUser(s) ==
  /\ stage[s] = "get"
  /\ request[s].kind = "PatchUser"
  /\ vpnUsers[request[s].id] # NoUser
  /\ loadedGrants' = [loadedGrants EXCEPT ![s] = vpnUsers[request[s].id]]
  /\ Goto(s, "commit")
  /\ UNCHANGED <<database, loadedRow, seenProtocols, seenUsers, seenOptions,
                 disk, containers, agent, bounds, history>>

UserNotFound(s) ==
  /\ stage[s] = "get"
  /\ request[s].kind = "PatchUser"
  /\ vpnUsers[request[s].id] = NoUser
  /\ Reply(s, "notFound")
  /\ UNCHANGED <<database, disk, containers, agent, bounds, history>>

(* Mutant: a body without config overwrites the saved one.                 *)
PutProtocolDropsConfig(s) ==
  /\ AtCommit(s, "PutProtocol")
  /\ protocols' = [protocols EXCEPT ![request[s].id] =
       [enabled   |-> request[s].enabled,
        installed |-> request[s].installed,
        config    |-> request[s].config]]
  /\ Goto(s, "listProtocols")
  /\ DatabaseChanges
  /\ UNCHANGED <<vpnUsers, settings, locals, disk, containers, agent, bounds>>

(* UpdateProtocol writes the whole row from the body; only a config that   *)
(* the body leaves out is taken from the row read before.                  *)
PutProtocol(s) ==
  /\ AtCommit(s, "PutProtocol")
  /\ protocols' = [protocols EXCEPT ![request[s].id] =
       [enabled   |-> request[s].enabled,
        installed |-> request[s].installed,
        config    |-> IF request[s].config = None THEN loadedRow[s].config
                                                  ELSE request[s].config]]
  /\ Goto(s, "listProtocols")
  /\ DatabaseChanges
  /\ UNCHANGED <<vpnUsers, settings, locals, disk, containers, agent, bounds>>

(* Mutant: installing generates a secret whether one is there or not.      *)
InstallProtocolRekeys(s) ==
  /\ AtCommit(s, "InstallProtocol")
  /\ \E c \in UNION {Completions[b] : b \in Unkeyed} :
       LET row == [loadedRow[s] EXCEPT !.installed = TRUE, !.config = c]
       IN  /\ protocols' = [protocols EXCEPT ![request[s].id] = row]
           /\ loadedRow' = [loadedRow EXCEPT ![s] = row]
  /\ Goto(s, "env")
  /\ DatabaseChanges
  /\ UNCHANGED <<vpnUsers, settings, loadedGrants, seenProtocols, seenUsers,
                 seenOptions, disk, containers, agent, bounds>>

(* The missing secret is generated into the row read before, and the whole *)
(* row is written back.                                                    *)
InstallProtocol(s) ==
  /\ AtCommit(s, "InstallProtocol")
  /\ \E c \in IF loadedRow[s].config \in Unkeyed
                THEN Completions[loadedRow[s].config] ELSE {loadedRow[s].config} :
       LET row == [loadedRow[s] EXCEPT !.installed = TRUE, !.config = c]
       IN  /\ protocols' = [protocols EXCEPT ![request[s].id] = row]
           /\ loadedRow' = [loadedRow EXCEPT ![s] = row]
  /\ Goto(s, "env")
  /\ DatabaseChanges
  /\ UNCHANGED <<vpnUsers, settings, loadedGrants, seenProtocols, seenUsers,
                 seenOptions, disk, containers, agent, bounds>>

(* Mutant: UpdateUser as an upsert.                                        *)
PatchUserUpserts(s) ==
  /\ AtCommit(s, "PatchUser")
  /\ vpnUsers' = [vpnUsers EXCEPT ![request[s].id] =
       IF request[s].grants = None THEN loadedGrants[s] ELSE request[s].grants]
  /\ Goto(s, "listProtocols")
  /\ DatabaseChanges
  /\ UNCHANGED <<protocols, settings, locals, disk, containers, agent, bounds>>

(* Mutant: no regeneration after a PATCH.                                  *)
PatchUserOnly(s) ==
  /\ AtCommit(s, "PatchUser")
  /\ vpnUsers' = [vpnUsers EXCEPT ![request[s].id] =
       IF @ = NoUser THEN NoUser
       ELSE IF request[s].grants = None THEN loadedGrants[s]
       ELSE request[s].grants]
  /\ Reply(s, "ok")
  /\ DatabaseChanges
  /\ UNCHANGED <<protocols, settings, disk, containers, agent, bounds>>

(* UpdateUser is an UPDATE by id: without a row it changes nothing.        *)
PatchUser(s) ==
  /\ AtCommit(s, "PatchUser")
  /\ vpnUsers' = [vpnUsers EXCEPT ![request[s].id] =
       IF @ = NoUser THEN NoUser
       ELSE IF request[s].grants = None THEN loadedGrants[s]
       ELSE request[s].grants]
  /\ Goto(s, "listProtocols")
  /\ DatabaseChanges
  /\ UNCHANGED <<protocols, settings, locals, disk, containers, agent, bounds>>

(* Mutant: no regeneration after a DELETE.                                 *)
DeleteUserOnly(s) ==
  /\ AtCommit(s, "DeleteUser")
  /\ vpnUsers' = [vpnUsers EXCEPT ![request[s].id] = NoUser]
  /\ Reply(s, "ok")
  /\ DatabaseChanges
  /\ UNCHANGED <<protocols, settings, disk, containers, agent, bounds>>

DeleteUser(s) ==
  /\ AtCommit(s, "DeleteUser")
  /\ vpnUsers' = [vpnUsers EXCEPT ![request[s].id] = NoUser]
  /\ Goto(s, "listProtocols")
  /\ DatabaseChanges
  /\ UNCHANGED <<protocols, settings, locals, disk, containers, agent, bounds>>

(* InsertUser names 17 columns and gives 18 values, so SQLite refuses to   *)
(* prepare it: no row is added and nothing is regenerated.                 *)
CreateUser(s) ==
  /\ AtCommit(s, "CreateUser")
  /\ Reply(s, "error")
  /\ UNCHANGED <<database, disk, containers, agent, bounds, history>>

(* PutXraySettings and PutSingboxSettings save and regenerate nothing.     *)
PutSettings(s) ==
  /\ AtCommit(s, "PutSettings")
  /\ settings' = [settings EXCEPT ![request[s].engine] = request[s].options]
  /\ Reply(s, "ok")
  /\ UNCHANGED <<protocols, vpnUsers, disk, containers, agent, bounds, history>>

(* The database refuses the statement (SQLITE_BUSY after busy_timeout).    *)
StatementFails(s) ==
  /\ stage[s] \in {"get", "commit"}
  /\ faults < MaxFaults
  /\ faults' = faults + 1
  /\ Reply(s, IF stage[s] = "get" THEN "notFound" ELSE "error")
  /\ UNCHANGED <<database, disk, containers, agent, received, crashes, history>>

(* InstallProtocol writes the MTProto env file from its own copy of the    *)
(* row before it regenerates.                                              *)
InstallEnv(s) ==
  /\ stage[s] = "env"
  /\ mtprotoEnv' = IF ProtocolType[request[s].id] = "mtproto"
                   THEN loadedRow[s].config ELSE mtprotoEnv
  /\ Goto(s, "listProtocols")
  /\ UNCHANGED <<database, locals, file, composeEnv, containers, agent, bounds,
                 history>>

-----------------------------------------------------------------------------
(* regenerateXray, regenerateSidecars and bootstrapDefaultXray.            *)
ListProtocols(w) ==
  /\ stage[w] = "listProtocols"
  /\ seenProtocols' = [seenProtocols EXCEPT ![w] = protocols]
  /\ Goto(w, "listUsers")
  /\ undisturbed' = undisturbed \cup {w}
  /\ UNCHANGED <<database, loadedRow, loadedGrants, seenUsers, seenOptions,
                 disk, containers, agent, bounds, healthy, settled, applied>>

ListUsers(w) ==
  /\ stage[w] = "listUsers"
  /\ seenUsers' = [seenUsers EXCEPT ![w] = vpnUsers]
  /\ Goto(w, IF engine[w] = "xray" THEN "options" ELSE "sidecarEnv")
  /\ UNCHANGED <<database, loadedRow, loadedGrants, seenProtocols, seenOptions,
                 disk, containers, agent, bounds, history>>

(* Mutant: no regeneration reads the saved settings, as the bootstrap.     *)
LoadOptionsDefault(w) ==
  /\ stage[w] = "options"
  /\ seenOptions' = [seenOptions EXCEPT ![w] = DefaultOptions["xray"]]
  /\ Goto(w, "truncate")
  /\ UNCHANGED <<database, loadedRow, loadedGrants, seenProtocols, seenUsers,
                 disk, containers, agent, bounds, history>>

(* loadXraySettings swallows a failed read; the bootstrap never reads.     *)
LoadOptions(w) ==
  /\ stage[w] = "options"
  /\ \/ /\ seenOptions' = [seenOptions EXCEPT ![w] =
             IF w = Boot THEN DefaultOptions["xray"] ELSE settings["xray"]]
        /\ UNCHANGED faults
     \/ /\ w # Boot /\ faults < MaxFaults
        /\ faults' = faults + 1
        /\ seenOptions' = [seenOptions EXCEPT ![w] = DefaultOptions["xray"]]
  /\ Goto(w, "truncate")
  /\ UNCHANGED <<database, loadedRow, loadedGrants, seenProtocols, seenUsers,
                 disk, containers, agent, received, crashes, history>>

(* Mutant: only InstallProtocol writes the MTProto env file.               *)
SidecarEnvSkipped(w) ==
  /\ stage[w] = "sidecarEnv"
  /\ seenOptions' = [seenOptions EXCEPT ![w] = DefaultOptions["singbox"]]
  /\ Goto(w, "truncate")
  /\ UNCHANGED <<database, loadedRow, loadedGrants, seenProtocols, seenUsers,
                 disk, containers, agent, bounds, history>>

(* The MTProto env file comes before sing-box's, whose log level is fixed. *)
SidecarEnv(w) ==
  /\ stage[w] = "sidecarEnv"
  /\ mtprotoEnv' = MTProtoEnv(seenProtocols[w], mtprotoEnv)
  /\ seenOptions' = [seenOptions EXCEPT ![w] = DefaultOptions["singbox"]]
  /\ Goto(w, "truncate")
  /\ UNCHANGED <<database, loadedRow, loadedGrants, seenProtocols, seenUsers,
                 file, composeEnv, containers, agent, bounds, history>>

(* Workers other than w between os.WriteFile's truncation and its write.   *)
OthersWriting(w) ==
  {v \in Workers \ {w} : stage[v] = "write" /\ engine[v] = engine[w]}

(* Mutant: the file is opened without O_TRUNC.                             *)
OpenOnly(w) ==
  /\ stage[w] = "truncate"
  /\ Goto(w, "write")
  /\ healthy' = healthy \ {engine[w]}
  /\ undisturbed' = undisturbed \ OthersWriting(w)
  /\ UNCHANGED <<database, locals, disk, containers, agent, bounds, settled,
                 applied>>

(* os.WriteFile opens with O_TRUNC ...                                      *)
Truncate(w) ==
  /\ stage[w] = "truncate"
  /\ file' = [file EXCEPT ![engine[w]] = Empty]
  /\ Goto(w, "write")
  /\ healthy' = healthy \ {engine[w]}
  /\ undisturbed' = undisturbed \ OthersWriting(w)
  /\ UNCHANGED <<database, locals, mtprotoEnv, composeEnv, containers, agent,
                 bounds, settled, applied>>

(* After its last stage for one engine a worker turns to the next engine,   *)
(* to the containers, or to its response; the bootstrap is then over.      *)
NextStage(w) ==
  IF w = Boot THEN "idle"
  ELSE IF engine[w] = "xray" THEN "listProtocols"
  ELSE IF request[w].kind \in {"InstallProtocol", "ApplyProtocols"}
       THEN "listForSync" ELSE "idle"

AfterEngine(w) ==
  /\ stage' = [stage EXCEPT ![w] = NextStage(w)]
  /\ engine' = [engine EXCEPT ![w] = IF w = Boot THEN "xray" ELSE "singbox"]
  /\ reply' = [reply EXCEPT ![w] =
       IF w # Boot /\ NextStage(w) = "idle" THEN "ok" ELSE @]
  /\ agent' = IF w = Boot THEN "up" ELSE agent
  /\ Forget(w)
  /\ UNCHANGED request

(* ... and then writes from offset 0.  Bytes another writer put there      *)
(* meanwhile stay behind the end of a shorter document.                    *)
Write(w) ==
  /\ stage[w] = "write"
  /\ LET e   == engine[w]
         new == Whole(Document(e, seenProtocols[w], seenUsers[w], seenOptions[w]))
     IN  /\ \E f \in IF file[e] \in {Empty, new} THEN {new} ELSE {new, Torn} :
              file' = [file EXCEPT ![e] = f]
         /\ healthy' = IF w \in undisturbed THEN healthy \cup {e} ELSE healthy \ {e}
  /\ undisturbed' = undisturbed \ (OthersWriting(w) \cup {w})
  /\ AfterEngine(w)
  /\ UNCHANGED <<database, mtprotoEnv, composeEnv, containers, bounds, settled,
                 applied>>

(* An error in a regeneration: a listing fails, the file cannot be opened,  *)
(* or the write stops short.  Only ApplyProtocols looks at it, and only at  *)
(* regenerateXray's; the bootstrap logs it.                                 *)
RegenerationFails(w) ==
  /\ stage[w] \in {"listProtocols", "listUsers", "truncate", "write"}
  /\ faults < MaxFaults
  /\ faults' = faults + 1
  /\ IF stage[w] = "write"
     THEN /\ \E f \in {file[engine[w]], Torn} : file' = [file EXCEPT ![engine[w]] = f]
          /\ healthy' = healthy \ {engine[w]}
          /\ undisturbed' = undisturbed \ (OthersWriting(w) \cup {w})
     ELSE /\ undisturbed' = undisturbed \ {w}
          /\ UNCHANGED <<file, healthy>>
  /\ IF w # Boot /\ engine[w] = "xray" /\ request[w].kind = "ApplyProtocols"
     THEN Reply(w, "error") /\ UNCHANGED agent
     ELSE AfterEngine(w)
  /\ UNCHANGED <<database, mtprotoEnv, composeEnv, containers, received, crashes,
                 settled, applied>>

-----------------------------------------------------------------------------
(* syncSidecarContainers: one more listing, then dockerctrl.SyncSidecars.   *)
ListForSync(s) ==
  /\ stage[s] = "listForSync"
  /\ seenProtocols' = [seenProtocols EXCEPT ![s] = protocols]
  /\ Goto(s, "composeUp")
  /\ UNCHANGED <<database, loadedRow, loadedGrants, seenUsers, seenOptions,
                 disk, containers, agent, bounds, history>>

AfterSync(s) ==
  IF request[s].kind = "ApplyProtocols"
  THEN Goto(s, "restart") /\ Forget(s)
  ELSE Reply(s, "ok")

(* mergeMTProtoEnv, when a listed proxy asks for it.                        *)
CanMerge(table) == InstalledMTProto(table) = {} \/ ComposeWritable

Merged(table) ==
  IF InstalledMTProto(table) # {} /\ mtprotoEnv # None THEN mtprotoEnv
  ELSE composeEnv

(* `docker compose up -d` starts what the profiles name and is not running. *)
Started(table, e) ==
  IF running[e].state = "whole" THEN running[e]
  ELSE IF e = "xray" \/ NeedsSingbox(table) THEN Load(file[e])
  ELSE running[e]

(* The merge must succeed before the docker command is run; that recreates *)
(* the proxy, whose environment comes from the merged file.                *)
ComposeUp(s) ==
  /\ stage[s] = "composeUp"
  /\ LET table == seenProtocols[s]
     IN  IF CanMerge(table)
         THEN /\ composeEnv' = Merged(table)
              /\ proxy' = IF InstalledMTProto(table) # {} THEN composeEnv' ELSE proxy
              /\ running' = [e \in Engines |-> Started(table, e)]
         ELSE UNCHANGED <<composeEnv, running, proxy>>
  /\ AfterSync(s)
  /\ UNCHANGED <<database, file, mtprotoEnv, agent, bounds, history>>

(* Mutant: `up -d` in place of a restart leaves a running Xray alone.      *)
StartXray(s) ==
  /\ stage[s] = "restart"
  /\ running' = IF running["xray"] = Down
                THEN [running EXCEPT !["xray"] = Load(file["xray"])] ELSE running
  /\ Reply(s, "ok")
  /\ applied' = IF s \in settled THEN Engines ELSE applied
  /\ UNCHANGED <<database, disk, proxy, agent, bounds, undisturbed, healthy,
                 settled>>

(* `docker compose restart xray` names no service of the compose file; the *)
(* restart that counts is that of the container in KOSIRO_XRAY_CONTAINER.  *)
RestartXray(s) ==
  /\ stage[s] = "restart"
  /\ running' = IF XrayContainer
                THEN [running EXCEPT !["xray"] = Load(file["xray"])] ELSE running
  /\ Reply(s, "ok")
  /\ applied' = IF s \in settled THEN Engines ELSE applied
  /\ UNCHANGED <<database, disk, proxy, agent, bounds, undisturbed, healthy,
                 settled>>

(* The listing, the merge or a docker command fails, `up -d` perhaps after  *)
(* the merge and some of its containers; no handler looks at the error.    *)
DockerFails(s) ==
  /\ stage[s] \in {"listForSync", "composeUp", "restart"}
  /\ faults < MaxFaults
  /\ faults' = faults + 1
  /\ \/ UNCHANGED <<composeEnv, running, proxy>>
     \/ LET table == seenProtocols[s]
        IN  /\ stage[s] = "composeUp"
            /\ CanMerge(table)
            /\ composeEnv' = Merged(table)
            /\ \E up \in SUBSET Engines :
                 running' = [e \in Engines |->
                   IF e \in up THEN Started(table, e) ELSE running[e]]
            /\ proxy' \in {proxy} \cup
                 (IF InstalledMTProto(table) # {} THEN {composeEnv'} ELSE {})
  /\ IF stage[s] = "restart" THEN Reply(s, "ok") ELSE AfterSync(s)
  /\ UNCHANGED <<database, file, mtprotoEnv, agent, received, crashes, history>>

-----------------------------------------------------------------------------
(* The agent dies; requests in flight are lost where they stand.           *)
Crash ==
  /\ agent # "down"
  /\ crashes < MaxCrashes
  /\ crashes' = crashes + 1
  /\ agent' = "down"
  /\ stage' = [w \in Workers |-> "idle"]
  /\ engine' = [w \in Workers |-> "xray"]
  /\ reply' = [w \in Workers |->
       IF w # Boot /\ stage[w] # "idle" THEN "lost" ELSE reply[w]]
  /\ loadedRow' = [w \in Workers |-> None]
  /\ loadedGrants' = [w \in Workers |-> None]
  /\ seenProtocols' = [w \in Workers |-> None]
  /\ seenUsers' = [w \in Workers |-> None]
  /\ seenOptions' = [w \in Workers |-> None]
  /\ undisturbed' = {}
  /\ UNCHANGED <<database, request, disk, containers, received, faults, healthy,
                 settled, applied>>

(* Mutant: the agent starts without writing Xray's file.                   *)
StartOnly ==
  /\ agent = "down"
  /\ agent' = "up"
  /\ UNCHANGED <<database, control, locals, disk, containers, bounds, history>>

(* main(): bootstrapDefaultXray runs before the server listens.            *)
Start ==
  /\ agent = "down"
  /\ agent' = "booting"
  /\ stage' = [stage EXCEPT ![Boot] = "listProtocols"]
  /\ UNCHANGED <<database, request, engine, reply, locals, disk, containers,
                 bounds, history>>

(* Mutant: no restart policy; a process that is down stays down.           *)
EngineRestartOnlyLive(e) ==
  /\ running[e].state = "whole"
  /\ running' = [running EXCEPT ![e] = Load(file[e])]
  /\ UNCHANGED <<database, control, locals, disk, proxy, agent, bounds, history>>

(* Docker (re)starts an engine on its own account: restart policy, reboot. *)
EngineRestart(e) ==
  /\ running[e] # NotCreated
  /\ running' = [running EXCEPT ![e] = Load(file[e])]
  /\ UNCHANGED <<database, control, locals, disk, proxy, agent, bounds, history>>

-----------------------------------------------------------------------------
Regenerate(w) ==
  \/ ListProtocols(w) \/ ListUsers(w) \/ LoadOptions(w) \/ SidecarEnv(w)
  \/ Truncate(w) \/ Write(w) \/ RegenerationFails(w)

Handle(s) ==
  \/ GetProtocol(s) \/ GetUser(s) \/ UserNotFound(s)
  \/ PutProtocol(s) \/ InstallProtocol(s) \/ PatchUser(s) \/ DeleteUser(s)
  \/ CreateUser(s) \/ PutSettings(s) \/ StatementFails(s) \/ InstallEnv(s)
  \/ ListForSync(s) \/ ComposeUp(s) \/ RestartXray(s) \/ DockerFails(s)

Next ==
  \/ \E s \in Slots : (\E r \in Requests : Receive(s, r)) \/ Handle(s)
  \/ \E w \in Workers : Regenerate(w)
  \/ Crash
  \/ Start
  \/ \E e \in Engines : EngineRestart(e)

Spec == Init /\ [][Next]_vars

-----------------------------------------------------------------------------
(* Fairness: the Go scheduler runs every goroutine that can run, and Docker *)
(* restarts the agent and a failing Xray (`restart: unless-stopped`).       *)
Fairness ==
  /\ \A s \in Slots : WF_vars(Handle(s))
  /\ \A w \in Workers : WF_vars(Regenerate(w))
  /\ WF_vars(Start)
  /\ WF_vars(running["xray"] = Down /\ EngineRestart("xray"))

FairSpec == Spec /\ Fairness

-----------------------------------------------------------------------------
(* Type correctness of every table, file, container and local variable.    *)
TypeOK ==
  /\ protocols \in ProtocolTables
  /\ vpnUsers \in UserTables
  /\ settings \in [Engines -> Options]
  /\ request \in [Workers -> {None} \cup Requests]
  /\ stage \in [Workers -> Stages]
  /\ engine \in [Workers -> Engines]
  /\ reply \in [Workers -> {"none", "ok", "notFound", "error", "lost"}]
  /\ loadedRow \in [Workers -> {None} \cup Rows]
  /\ loadedGrants \in [Workers -> {None} \cup Grants]
  /\ seenProtocols \in [Workers -> {None} \cup ProtocolTables]
  /\ seenUsers \in [Workers -> {None} \cup UserTables]
  /\ seenOptions \in [Workers -> {None} \cup Options]
  /\ file \in [Engines -> Files]
  /\ mtprotoEnv \in {None} \cup Configs /\ composeEnv \in {None} \cup Configs
  /\ running \in [Engines -> Processes]
  /\ proxy \in {None} \cup Configs
  /\ agent \in {"down", "booting", "up"}
  /\ received \in Nat /\ crashes \in Nat /\ faults \in Nat
  /\ undisturbed \in SUBSET Workers /\ healthy \in SUBSET Engines
  /\ settled \in SUBSET Workers /\ applied \in SUBSET Engines

(* The file or process holds the inbounds and accounts of the tables.      *)
Current(e, f) ==
  f.state = "whole" /\ \A d \in f.doc : d.inbounds = Inbounds(e, protocols, vpnUsers)

(* However requests interleave, crash and fail: a configuration file is    *)
(* the rendering of the database unless, after the listings it was built   *)
(* from, a row changed or another worker touched the file before the write *)
(* was over (regenerateXray, regenerateSidecars, bootstrapDefaultXray).    *)
FreshUnlessDisturbed == \A e \in healthy : Current(e, file[e])

Idle == agent = "up" /\ \A w \in Workers : stage[w] = "idle"

(* With one request at a time and no failing call: whenever none is in     *)
(* flight, even after the agent was killed in the middle of one, Xray's    *)
(* file is the rendering of the database; sing-box's is too as long as the *)
(* agent was never killed (nothing rewrites it at start).                  *)
QuietMeansFresh ==
  Idle /\ faults = 0 =>
    /\ Current("xray", file["xray"])
    /\ crashes = 0 /\ file["singbox"] # Absent => Current("singbox", file["singbox"])

(* One request at a time, no failing call: from the answer to "apply" until *)
(* the next change, an Xray that runs serves what the database says, even   *)
(* across restarts of the agent and of Xray (ApplyProtocols).               *)
AppliedIsServed ==
  "xray" \in applied /\ faults = 0 /\ running["xray"] # Down =>
    Current("xray", running["xray"])

(* The renderings in a file or a process; the options are left out.        *)
Renderings(f) == {d.inbounds : d \in f.doc}

Pub == INSTANCE Publisher WITH
  Writers <- Workers, PresetTables <- ProtocolTables, Render <- Inbounds,
  presets <- protocols, users <- vpnUsers,
  draft <- [w \in Workers |-> [presets |-> seenProtocols[w], users |-> seenUsers[w]]],
  disk <- [e \in Engines |-> Renderings(file[e])],
  serving <- [e \in Engines |-> Renderings(running[e])],
  vouched <- healthy

(* However requests interleave, crash and fail, the pipeline publishes:     *)
(* what is written, and later served, was rendered from one writer's two    *)
(* listings and never from a half-written file or from listings of two      *)
(* writers, and only a rendering of the present tables counts as fresh      *)
(* (regenerateXray, regenerateSidecars, bootstrapDefaultXray, restarts).    *)
Publishes == Pub!Spec

(* A deleted user does not come back to the table, whatever a PATCH that    *)
(* read the row before the DELETE writes after it (PatchUser, UpdateUser).  *)
NoResurrection ==
  [][\A u \in UserIds : vpnUsers[u] = NoUser => vpnUsers'[u] = NoUser]_vars

(* The request is about other columns: a PUT without a config, or an        *)
(* installation of a preset that has its secret.                           *)
LeavesConfig(r) ==
  \/ r.kind = "PutProtocol" /\ r.config = None
  \/ r.kind = "InstallProtocol" /\ protocols[r.id].config \notin Unkeyed

ConfigsStay ==
  \A s \in Slots \cap settled :
    /\ stage[s] = "commit" /\ stage'[s] \in {"env", "listProtocols"}
    /\ LeavesConfig(request[s])
    => protocols'[request[s].id].config = protocols[request[s].id].config

(* The whole-row UPDATE of a request that is about other columns leaves the *)
(* config of the row, and the secret in it, as they are, so links already   *)
(* handed out stay valid, unless a table changed between the request's      *)
(* arrival and its UPDATE: the other requests may be anywhere else in their *)
(* regenerations and docker commands (PutProtocol, InstallProtocol).        *)
WritesKeepConfig == [][ConfigsStay]_vars

(* One request at a time, no failing call, a writable compose directory:    *)
(* after "apply" and until the next change a proxy that runs has the        *)
(* secret of the database, through two env files and a docker command.      *)
AppliedProxySecret ==
  "xray" \in applied /\ faults = 0 /\ proxy # None =>
    proxy = MTProtoEnv(protocols, proxy)

AppliesSettings ==
  \A s \in Slots :
    stage[s] = "restart" /\ reply'[s] = "ok" /\ faults' = 0 /\ XrayContainer =>
      /\ running'["xray"].state = "whole"
      /\ \A d \in running'["xray"].doc : d.options = settings["xray"]

(* One request at a time, no failing call: the answer to "apply" finds Xray *)
(* running with the saved settings, however often a start of the agent has  *)
(* put the defaults back into its file (loadXraySettings against            *)
(* bootstrapDefaultXray, which does not read them).                         *)
ApplyBringsSettings == [][AppliesSettings]_vars

-----------------------------------------------------------------------------
(* As long as no call fails (an ignored error is never retried): a kill     *)
(* between the truncation of Xray's file and its write does not leave Xray  *)
(* without a configuration, the next start writes it (bootstrapDefaultXray).*)
CrashRepaired ==
  agent = "down" /\ file["xray"].state # "whole"
    ~> file["xray"].state = "whole" \/ faults > 0

(* One request at a time, no failing call: every committed change ends up   *)
(* in Xray's file, also when the agent dies before or while it regenerates. *)
Converges == <>[](faults = 0 => Current("xray", file["xray"]))

(* Likewise: an Xray that was started over a truncated file and failed is   *)
(* running again in the end.                                                *)
XrayComesBack == <>[](faults = 0 => running["xray"].state = "whole")

-----------------------------------------------------------------------------
(* Claims of the repository that the code does not meet.                    *)

(* README.md:47, "apply" restarts the containers: after it a sing-box that  *)
(* runs serves what the database says.                                      *)
AppliedReachesSingbox ==
  "singbox" \in applied /\ faults = 0 /\ running["singbox"].state = "whole" =>
    Current("singbox", running["singbox"])

(* sidecars.go:14, SyncSidecars starts the profiles of installed protocols. *)
AppliedStartsSingbox ==
  "singbox" \in applied /\ faults = 0 /\ NeedsSingbox(protocols) =>
    running["singbox"] # NotCreated
=============================================================================
