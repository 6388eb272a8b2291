----------------------- MODULE ConfigSync_serial_proofs -----------------------
(***************************************************************************)
(* ConfigSync with one request at a time, for every set of presets, users,  *)
(* configs, settings and requests, any number of crashes and failing calls: *)
(* what the files and Xray hold between requests and after "apply".         *)
(***************************************************************************)
EXTENDS ConfigSync_proofs

(* The stages of a request outside its regenerations.                      *)
AtRest == {"idle", "get", "commit", "listForSync", "composeUp", "restart"}

(* One worker runs at a time, the bootstrap or the request, and nobody      *)
(* disturbs its regeneration.                                              *)
Alone(s) ==
  /\ agent = "up" => stage[Boot] = "idle"
  /\ agent # "up" => stage[s] = "idle"
  /\ engine[Boot] = "xray"
  /\ stage[s] \in {"get", "commit", "env"} => engine[s] = "xray"
  /\ \A w \in Workers : stage[w] \in AfterListing => w \in undisturbed

(* No commit of this request is still to reach Xray's file.                *)
XrayWritten(s) ==
  stage[s] # "env" /\ (engine[s] = "xray" => stage[s] \in AtRest)

(* The files vouched for; sing-box's is first written by a request.        *)
Rendered(s) ==
  /\ crashes = 0 /\ agent # "up" => file["singbox"] = Absent
  /\ agent = "up" /\ faults = 0 =>
       /\ XrayWritten(s) => "xray" \in healthy
       /\ crashes = 0 /\ file["singbox"] # Absent /\ stage[s] \in AtRest
            => "singbox" \in healthy

(* After "apply": what Xray runs, and what it would run after a restart.    *)
AppliedInv ==
  /\ running["xray"] = Down \/ running["xray"].state = "whole"
  /\ faults = 0 /\ "xray" \in applied =>
       /\ file["xray"].state = "whole" => Current("xray", file["xray"])
       /\ running["xray"].state = "whole" => Current("xray", running["xray"])

Saved(f) == f.state = "whole" /\ \A d \in f.doc : d.options = settings["xray"]

(* During "apply": whose settings are in Xray's file.                      *)
Applying(s) ==
  /\ stage[s] # "idle" => reply[s] = "none"
  /\ stage[s] = "restart" => request[s].kind = "ApplyProtocols"
  /\ stage[s] = "sidecarEnv" => engine[s] = "singbox"
  /\ stage[s] = "options" => engine[s] = "xray"
  /\ stage[s] \in {"get", "commit", "env"} => request[s].kind # "ApplyProtocols"
  /\ faults = 0 /\ stage[s] # "idle" /\ request[s].kind = "ApplyProtocols" =>
       /\ stage[s] \in {"truncate", "write"} /\ engine[s] = "xray"
            => seenOptions[s] = settings["xray"]
       /\ XrayWritten(s) => Saved(file["xray"])

SerialInv(s) == Alone(s) /\ Rendered(s) /\ AppliedInv /\ Applying(s)

Known == TypeOK /\ LocalsOK /\ FreshInv

-----------------------------------------------------------------------------
LEMMA OneWorker ==
  ASSUME NEW s, Slots = {s}
  PROVE  Workers = {s, Boot} /\ s # Boot /\ s \in Slots /\ s \in Workers
BY ConfigSyncAssumption DEF Workers

LEMMA InitSerial ==
  ASSUME NEW s, Slots = {s}, Init
  PROVE  SerialInv(s)
<1>1. Alone(s)
  BY OneWorker DEF Init, Alone, AfterListing
<1>2. Rendered(s)
  BY OneWorker DEF Init, Rendered, Engines
<1>3. AppliedInv
  BY DEF Init, AppliedInv
<1>4. Applying(s)
  BY OneWorker DEF Init, Applying
<1> QED
  BY <1>1, <1>2, <1>3, <1>4 DEF SerialInv

-----------------------------------------------------------------------------
(* Statements of the request outside its regenerations: what they have in   *)
(* common.  Either one changes the tables, and then nothing is vouched for, *)
(* or it changes nothing that a file or Xray is compared with.              *)
LEMMA HandleEffect ==
  ASSUME NEW s, Slots = {s}, TypeOK, Alone(s), Handle(s)
  PROVE  /\ agent = "up" /\ agent' = "up" /\ engine' = engine
         /\ stage'[Boot] = "idle" /\ stage[s] # "idle"
         /\ UNCHANGED <<file, request, crashes>>
         /\ faults' = 0 => faults = 0
         /\ \/ /\ stage[s] = "commit" /\ stage'[s] \in {"env", "listProtocols"}
               /\ healthy' = {} /\ applied' = {} /\ UNCHANGED running
            \/ /\ UNCHANGED <<protocols, vpnUsers, healthy>>
               /\ \/ /\ stage[s] \in {"get", "commit"}
                     /\ stage'[s] \in {"commit", "idle"}
                  \/ stage[s] = "env" /\ stage'[s] = "listProtocols"
                  \/ /\ stage[s] \in {"listForSync", "composeUp", "restart"}
                     /\ stage'[s] \in {"composeUp", "restart", "idle"}
               /\ running'["xray"] \in {running["xray"], Load(file["xray"])}
               /\ \/ applied' = applied
                  \/ /\ stage[s] = "restart"
                     /\ XrayContainer => running'["xray"] = Load(file["xray"])
<1>0. /\ Workers = {s, Boot} /\ s # Boot /\ s \in Slots /\ s \in Workers
      /\ stage \in [Workers -> Stages] /\ faults \in Nat
      /\ running \in [Engines -> Processes] /\ "xray" \in Engines
  BY OneWorker DEF TypeOK, Engines
<1>1. stage[s] # "idle" => agent = "up" /\ stage[Boot] = "idle"
  BY DEF Alone
<1>2. ASSUME NEW st, Reply(s, st)
      PROVE  /\ stage'[s] = "idle" /\ stage'[Boot] = stage[Boot]
             /\ engine' = engine /\ request' = request
  BY <1>0, <1>2 DEF Reply
<1>3. ASSUME NEW next, Goto(s, next)
      PROVE  /\ stage'[s] = next /\ stage'[Boot] = stage[Boot]
             /\ engine' = engine /\ request' = request
  BY <1>0, <1>3 DEF Goto
<1>4. ASSUME AfterSync(s)
      PROVE  /\ stage'[s] \in {"restart", "idle"} /\ stage'[Boot] = stage[Boot]
             /\ engine' = engine /\ request' = request
  BY <1>2, <1>3, <1>4 DEF AfterSync
<1>5. CASE PutProtocol(s) \/ InstallProtocol(s) \/ PatchUser(s) \/ DeleteUser(s)
  <2>1. /\ stage[s] = "commit" /\ DatabaseChanges
        /\ Goto(s, "listProtocols") \/ Goto(s, "env")
        /\ UNCHANGED <<file, running, agent, crashes, faults>>
    BY <1>5 DEF PutProtocol, InstallProtocol, PatchUser, DeleteUser, AtCommit,
       disk, containers, bounds
  <2> QED
    BY <1>1, <1>3, <2>1 DEF DatabaseChanges
<1>6. CASE GetProtocol(s) \/ GetUser(s)
  <2>1. /\ stage[s] = "get" /\ Goto(s, "commit")
        /\ UNCHANGED <<protocols, vpnUsers, healthy, applied, file, running, agent,
                       crashes, faults>>
    BY <1>6 DEF GetProtocol, GetUser, database, disk, containers, bounds, history
  <2> QED
    BY <1>1, <1>3, <2>1
<1>7. CASE UserNotFound(s) \/ CreateUser(s) \/ PutSettings(s) \/ StatementFails(s)
  <2>1. /\ stage[s] \in {"get", "commit"} /\ \E st : Reply(s, st)
        /\ UNCHANGED <<protocols, vpnUsers, healthy, applied, file, running, agent,
                       crashes>>
        /\ faults' = 0 => faults = 0
    BY <1>0, <1>7 DEF UserNotFound, CreateUser, PutSettings, StatementFails, AtCommit,
       database, disk, containers, bounds, history
  <2> QED
    BY <1>1, <1>2, <2>1
<1>8. CASE InstallEnv(s)
  <2>1. /\ stage[s] = "env" /\ Goto(s, "listProtocols")
        /\ UNCHANGED <<protocols, vpnUsers, healthy, applied, file, running, agent,
                       crashes, faults>>
    BY <1>8 DEF InstallEnv, database, containers, bounds, history
  <2> QED
    BY <1>1, <1>3, <2>1
<1>9. CASE ListForSync(s)
  <2>1. /\ stage[s] = "listForSync" /\ Goto(s, "composeUp")
        /\ UNCHANGED <<protocols, vpnUsers, healthy, applied, file, running, agent,
                       crashes, faults>>
    BY <1>9 DEF ListForSync, database, disk, containers, bounds, history
  <2> QED
    BY <1>1, <1>3, <2>1
<1>10. \A table : Started(table, "xray") \in {running["xray"], Load(file["xray"])}
  BY DEF Started
<1>11. CASE ComposeUp(s)
  <2>1. /\ stage[s] = "composeUp" /\ AfterSync(s)
        /\ UNCHANGED <<protocols, vpnUsers, healthy, applied, file, agent, crashes,
                       faults>>
    BY <1>11 DEF ComposeUp, database, bounds, history
  <2>2. running'["xray"] \in {running["xray"], Load(file["xray"])}
    BY <1>0, <1>10, <1>11 DEF ComposeUp
  <2> QED
    BY <1>1, <1>4, <2>1, <2>2
<1>12. CASE RestartXray(s)
  <2>1. /\ stage[s] = "restart" /\ Reply(s, "ok")
        /\ UNCHANGED <<protocols, vpnUsers, healthy, file, agent, crashes, faults>>
    BY <1>12 DEF RestartXray, database, disk, bounds
  <2>2. /\ running'["xray"] \in {running["xray"], Load(file["xray"])}
        /\ XrayContainer => running'["xray"] = Load(file["xray"])
    BY <1>0, <1>12 DEF RestartXray
  <2> QED
    BY <1>1, <1>2, <2>1, <2>2
<1>13. CASE DockerFails(s)
  <2>1. /\ stage[s] \in {"listForSync", "composeUp", "restart"}
        /\ AfterSync(s) \/ Reply(s, "ok")
        /\ UNCHANGED <<protocols, vpnUsers, healthy, applied, file, agent, crashes>>
        /\ faults' = 0 => faults = 0
    BY <1>0, <1>13 DEF DockerFails, database, history
  <2>2. running'["xray"] \in {running["xray"], Load(file["xray"])}
    BY <1>0, <1>10, <1>13 DEF DockerFails
  <2> QED
    BY <1>1, <1>2, <1>4, <2>1, <2>2
<1> QED
  BY <1>5, <1>6, <1>7, <1>8, <1>9, <1>11, <1>12, <1>13 DEF Handle

(* A process started over a file runs what the file holds, or nothing.      *)
LEMMA LoadServes ==
  ASSUME NEW f
  PROVE  /\ Load(f) = Down \/ Load(f).state = "whole"
         /\ Load(f).state = "whole" => f.state = "whole" /\ Load(f) = f
BY DEF Load, Down

LEMMA HandleSerial ==
  ASSUME NEW s, Slots = {s}, Known, SerialInv(s), Handle(s), XrayContainer
  PROVE  Alone(s)' /\ Rendered(s)' /\ AppliedInv'
<1> USE DEF Known, SerialInv
<1>1. /\ Workers = {s, Boot} /\ s # Boot /\ TypeOK /\ FreshInv
      /\ Alone(s) /\ Rendered(s) /\ AppliedInv /\ "xray" \in Engines
  BY OneWorker DEF Engines
<1>2. /\ agent = "up" /\ agent' = "up" /\ engine' = engine
      /\ stage'[Boot] = "idle" /\ stage[s] # "idle"
      /\ UNCHANGED <<file, request, crashes>>
      /\ faults' = 0 => faults = 0
  BY HandleEffect
<1>3. CASE /\ stage[s] = "commit" /\ stage'[s] \in {"env", "listProtocols"}
           /\ healthy' = {} /\ applied' = {} /\ UNCHANGED running
  <2>1. Alone(s)'
    BY <1>1, <1>2, <1>3 DEF Alone, AfterListing
  <2>2. Rendered(s)'
    BY <1>1, <1>2, <1>3 DEF Alone, Rendered, XrayWritten, AtRest
  <2>3. AppliedInv'
    BY <1>1, <1>2, <1>3 DEF AppliedInv
  <2> QED
    BY <2>1, <2>2, <2>3
<1>4. CASE ~(/\ stage[s] = "commit" /\ stage'[s] \in {"env", "listProtocols"}
             /\ healthy' = {} /\ applied' = {} /\ UNCHANGED running)
  <2>1. /\ UNCHANGED <<protocols, vpnUsers, healthy>>
        /\ \/ /\ stage[s] \in {"get", "commit"}
              /\ stage'[s] \in {"commit", "idle"}
           \/ stage[s] = "env" /\ stage'[s] = "listProtocols"
           \/ /\ stage[s] \in {"listForSync", "composeUp", "restart"}
              /\ stage'[s] \in {"composeUp", "restart", "idle"}
        /\ running'["xray"] \in {running["xray"], Load(file["xray"])}
        /\ \/ applied' = applied
           \/ stage[s] = "restart" /\ running'["xray"] = Load(file["xray"])
    BY <1>4, HandleEffect
  <2>2. Alone(s)'
    BY <1>1, <1>2, <2>1 DEF Alone, AfterListing
  <2>3. Rendered(s)'
    BY <1>1, <1>2, <2>1 DEF Alone, Rendered, XrayWritten, AtRest
  <2>4. AppliedInv'
    <3>1. running'["xray"] = Down \/ running'["xray"].state = "whole"
      BY <1>1, <2>1, LoadServes DEF AppliedInv
    <3>2. \A f : Current("xray", f)' <=> Current("xray", f)
      BY <2>1 DEF Current
    <3>3. CASE applied' = applied
      <4>1. ASSUME faults' = 0, "xray" \in applied'
            PROVE  /\ file["xray"].state = "whole" => Current("xray", file["xray"])
                   /\ running'["xray"].state = "whole"
                        => Current("xray", running'["xray"])
        BY <1>1, <1>2, <2>1, <3>3, <4>1, LoadServes DEF AppliedInv
      <4> QED
        BY <1>2, <2>1, <3>1, <4>1 DEF AppliedInv, Current
    <3>4. CASE stage[s] = "restart" /\ running'["xray"] = Load(file["xray"])
      <4>1. ASSUME faults' = 0 PROVE Current("xray", file["xray"])
        BY <1>1, <1>2, <3>4, <4>1
           DEF Rendered, XrayWritten, AtRest, FreshInv, FreshUnlessDisturbed
      <4>2. ASSUME faults' = 0
            PROVE  running'["xray"].state = "whole" => Current("xray", running'["xray"])
        BY <3>4, <4>1, <4>2, LoadServes
      <4> QED
        BY <1>2, <2>1, <3>1, <4>1, <4>2 DEF AppliedInv, Current
    <3> QED
      BY <2>1, <3>3, <3>4
  <2> QED
    BY <2>2, <2>3, <2>4
<1> QED
  BY <1>3, <1>4

-----------------------------------------------------------------------------
(* The end of a regeneration, or of the request.                           *)
LEMMA AfterEngineEffect ==
  ASSUME NEW s, Slots = {s}, TypeOK, NEW w \in Workers, AfterEngine(w)
  PROVE  /\ w = Boot => /\ stage'[Boot] = "idle" /\ stage'[s] = stage[s]
                        /\ agent' = "up" /\ engine'[Boot] = "xray"
                        /\ engine'[s] = engine[s] /\ reply'[s] = reply[s]
         /\ w = s => /\ stage'[Boot] = stage[Boot] /\ engine'[Boot] = engine[Boot]
                     /\ agent' = agent /\ engine'[s] = "singbox"
                     /\ IF engine[s] = "xray" THEN stage'[s] = "listProtocols"
                        ELSE stage'[s] \in {"listForSync", "idle"}
                     /\ stage'[s] # "idle" => reply'[s] = reply[s]
         /\ request' = request
BY OneWorker DEF TypeOK, AfterEngine, NextStage

LEMMA RegenerateSerial ==
  ASSUME NEW s, Slots = {s}, Known, SerialInv(s), NEW w \in Workers, Regenerate(w)
  PROVE  Alone(s)' /\ Rendered(s)' /\ AppliedInv'
<1> USE DEF Known, SerialInv
<1>0. /\ Workers = {s, Boot} /\ s # Boot /\ w \in {s, Boot}
      /\ Engines = {"xray", "singbox"} /\ "xray" # "singbox"
      /\ stage \in [Workers -> Stages] /\ engine \in [Workers -> Engines]
      /\ file \in [Engines -> Files] /\ faults \in Nat
      /\ Alone(s) /\ Rendered(s) /\ AppliedInv /\ FreshInv /\ TypeOK
  BY OneWorker DEF TypeOK, Engines
<1>1. /\ stage[w] \in {"listProtocols"} \cup AfterListing
      /\ w = Boot => agent = "booting" /\ stage[s] = "idle"
      /\ w = s => agent = "up" /\ stage[Boot] = "idle"
  <2>1. stage[w] \in {"listProtocols"} \cup AfterListing
    BY DEF Regenerate, ListProtocols, ListUsers, LoadOptions, SidecarEnv, Truncate,
       Write, RegenerationFails, AfterListing
  <2> QED
    BY <1>0, <2>1 DEF Alone, FreshInv, BootOK, AfterListing
<1>2. CASE ListProtocols(w) \/ ListUsers(w) \/ LoadOptions(w) \/ SidecarEnv(w)
  <2>1. /\ \E next \in AfterListing : stage' = [stage EXCEPT ![w] = next]
        /\ undisturbed' \in {undisturbed, undisturbed \cup {w}}
        /\ stage[w] \in AfterListing \/ w \in undisturbed'
        /\ UNCHANGED <<engine, protocols, vpnUsers, file, running, agent, crashes,
                       healthy, applied>>
        /\ faults' = 0 => faults = 0
    BY <1>0, <1>2 DEF ListProtocols, ListUsers, LoadOptions, SidecarEnv, Goto, database,
       disk, containers, bounds, history, AfterListing
  <2>2. Alone(s)'
    BY <1>0, <1>1, <2>1 DEF Alone, AfterListing
  <2>3. Rendered(s)'
    BY <1>0, <1>1, <2>1 DEF Rendered, XrayWritten, AtRest, AfterListing
  <2>4. AppliedInv'
    BY <1>0, <2>1 DEF AppliedInv, Current
  <2> QED
    BY <2>2, <2>3, <2>4
<1>3. CASE Truncate(w)
  <2>1. /\ stage[w] = "truncate" /\ stage' = [stage EXCEPT ![w] = "write"]
        /\ file' = [file EXCEPT ![engine[w]] = Empty]
        /\ healthy' = healthy \ {engine[w]}
        /\ undisturbed' = undisturbed \ OthersWriting(w)
        /\ UNCHANGED <<engine, protocols, vpnUsers, running, agent, crashes, faults,
                       applied>>
    BY <1>3 DEF Truncate, Goto, database, containers, bounds
  <2>2. OthersWriting(w) = {}
    BY <1>0, <1>1 DEF OthersWriting
  <2>3. Alone(s)'
    BY <1>0, <1>1, <2>1, <2>2 DEF Alone, AfterListing
  <2>4. Rendered(s)'
    <3>1. CASE w = Boot
      <4>1. engine[w] = "xray" /\ file'["singbox"] = file["singbox"]
        BY <1>0, <2>1, <3>1 DEF Alone
      <4> QED
        BY <1>0, <1>1, <2>1, <3>1, <4>1 DEF Rendered
    <3>2. CASE w = s
      BY <1>0, <1>1, <2>1, <3>2 DEF Rendered, XrayWritten, AtRest
    <3> QED
      BY <1>0, <3>1, <3>2
  <2>5. AppliedInv'
    <3>1. file'["xray"].state = "whole" => file'["xray"] = file["xray"]
      BY <1>0, <2>1 DEF Empty
    <3> QED
      BY <1>0, <2>1, <3>1 DEF AppliedInv, Current
  <2> QED
    BY <2>3, <2>4, <2>5
<1>4. CASE Write(w)
  <2>1. w \in undisturbed /\ stage[w] = "write"
    BY <1>0, <1>4 DEF Alone, AfterListing, Write
  <2>2. /\ AfterEngine(w) /\ healthy' = healthy \cup {engine[w]}
        /\ \A e \in Engines : e # engine[w] => file'[e] = file[e]
        /\ UNCHANGED <<protocols, vpnUsers, running, crashes, faults, applied>>
    BY <1>0, <1>4, <2>1 DEF Write, database, containers, bounds
  <2>3. FreshUnlessDisturbed'
    BY RegenerateFresh DEF FreshInv
  <2>4. Alone(s)'
    BY <1>0, <1>1, <2>2, AfterEngineEffect DEF Alone, AfterListing
  <2>5. Rendered(s)'
    <3>1. CASE w = Boot
      BY <1>0, <1>1, <2>2, <3>1, AfterEngineEffect DEF Alone, Rendered
    <3>2. CASE w = s
      BY <1>0, <1>1, <2>1, <2>2, <3>2, AfterEngineEffect DEF Rendered, XrayWritten, AtRest
    <3> QED
      BY <1>0, <3>1, <3>2
  <2>6. AppliedInv'
    <3>1. CASE engine[w] = "xray"
      <4>1. Current("xray", file["xray"])'
        BY <2>2, <2>3, <3>1 DEF FreshUnlessDisturbed
      <4> QED
        BY <1>0, <2>2, <4>1 DEF AppliedInv, Current
    <3>2. CASE engine[w] # "xray"
      <4>1. file'["xray"] = file["xray"]
        BY <1>0, <2>2, <3>2
      <4> QED
        BY <1>0, <2>2, <4>1 DEF AppliedInv, Current
    <3> QED
      BY <3>1, <3>2
  <2> QED
    BY <2>4, <2>5, <2>6
<1>5. CASE RegenerationFails(w)
  <2>1. faults' # 0 /\ UNCHANGED <<running, crashes>>
    BY <1>0, <1>5 DEF RegenerationFails, containers
  <2>2. undisturbed' \subseteq undisturbed /\ \A v \in Workers : v # w => stage[v] = "idle"
    BY <1>0, <1>1, <1>5 DEF RegenerationFails
  <2>3. Alone(s)' /\ (agent' # "up" => FALSE)
    <3>1. CASE AfterEngine(w)
      BY <1>0, <1>1, <2>2, <3>1, AfterEngineEffect DEF Alone, AfterListing
    <3>2. CASE w = s /\ Reply(w, "error") /\ UNCHANGED agent
      BY <1>0, <1>1, <2>2, <3>2 DEF Alone, AfterListing, Reply
    <3> QED
      BY <1>0, <1>5, <3>1, <3>2 DEF RegenerationFails
  <2>4. Rendered(s)'
    BY <2>1, <2>3 DEF Rendered
  <2>5. AppliedInv'
    BY <1>0, <2>1 DEF AppliedInv
  <2> QED
    BY <2>3, <2>4, <2>5
<1> QED
  BY <1>2, <1>3, <1>4, <1>5 DEF Regenerate

-----------------------------------------------------------------------------
(* Whose settings are in Xray's file: the statements of a request ...       *)
LEMMA HandleApplying ==
  ASSUME NEW s, Slots = {s}, Known, SerialInv(s), Handle(s)
  PROVE  Applying(s)'
<1> USE DEF Known, SerialInv
<1>0. /\ Workers = {s, Boot} /\ s # Boot /\ TypeOK /\ Alone(s) /\ Applying(s)
      /\ stage \in [Workers -> Stages] /\ reply \in [Workers -> {"none", "ok", "notFound", "error", "lost"}]
  BY OneWorker DEF TypeOK
<1>1. ASSUME NEW st, Reply(s, st)
      PROVE  Applying(s)'
  BY <1>0, <1>1 DEF Reply, Applying
<1>2. CASE request[s].kind = "ApplyProtocols"
  <2>1. /\ stage[s] \in {"listForSync", "composeUp", "restart"}
        /\ ListForSync(s) \/ ComposeUp(s) \/ RestartXray(s) \/ DockerFails(s)
    BY <1>0, <1>2 DEF Handle, GetProtocol, GetUser, UserNotFound, PutProtocol,
       InstallProtocol, PatchUser, DeleteUser, CreateUser, PutSettings, StatementFails,
       InstallEnv, ListForSync, ComposeUp, RestartXray, DockerFails, AtCommit, Applying
  <2>2. CASE ListForSync(s) \/ ComposeUp(s)
    <3>1. /\ \E next \in {"composeUp", "restart"} : Goto(s, next)
          /\ UNCHANGED <<settings, file, faults>>
      BY <1>2, <2>2 DEF ListForSync, ComposeUp, AfterSync, database, disk, bounds
    <3>2. /\ stage'[s] \in {"composeUp", "restart"}
          /\ UNCHANGED <<request, engine, reply>>
      BY <1>0, <3>1 DEF Goto
    <3>3. stage[s] # "idle" /\ (XrayWritten(s)' => XrayWritten(s))
      BY <2>1, <3>2 DEF XrayWritten, AtRest
    <3> QED
      BY <1>0, <1>2, <3>1, <3>2, <3>3 DEF Applying, Saved
  <2>3. CASE RestartXray(s)
    BY <1>1, <2>3 DEF RestartXray
  <2>4. CASE DockerFails(s)
    <3>1. faults' # 0 /\ (Reply(s, "ok") \/ Goto(s, "restart"))
      BY <1>2, <2>4 DEF DockerFails, TypeOK, AfterSync
    <3>2. CASE Goto(s, "restart")
      BY <1>0, <1>2, <2>1, <3>1, <3>2 DEF Goto, Applying
    <3> QED
      BY <1>1, <3>1, <3>2
  <2> QED
    BY <2>1, <2>2, <2>3, <2>4
<1>3. CASE request[s].kind # "ApplyProtocols"
  <2>1. \/ \E st : Reply(s, st)
        \/ \E next \in {"commit", "env", "listProtocols", "composeUp"} :
             Goto(s, next) /\ stage[s] # "idle"
    BY <1>0, <1>3 DEF Handle, GetProtocol, GetUser, UserNotFound, PutProtocol,
       InstallProtocol, PatchUser, DeleteUser, CreateUser, PutSettings, StatementFails,
       InstallEnv, ListForSync, ComposeUp, RestartXray, DockerFails, AtCommit, AfterSync
  <2>2. ASSUME NEW next \in {"commit", "env", "listProtocols", "composeUp"},
               Goto(s, next), stage[s] # "idle"
        PROVE  Applying(s)'
    BY <1>0, <1>3, <2>2 DEF Goto, Applying
  <2> QED
    BY <1>1, <2>1, <2>2
<1> QED
  BY <1>2, <1>3

(* ... of its regenerations, and of the bootstrap's.                       *)
LEMMA RegenerateApplying ==
  ASSUME NEW s, Slots = {s}, Known, SerialInv(s), NEW w \in Workers, Regenerate(w)
  PROVE  Applying(s)'
<1> USE DEF Known, SerialInv
<1>0. /\ Workers = {s, Boot} /\ s # Boot /\ w \in {s, Boot}
      /\ Engines = {"xray", "singbox"} /\ "xray" # "singbox"
      /\ stage \in [Workers -> Stages] /\ engine \in [Workers -> Engines]
      /\ seenOptions \in [Workers -> {None} \cup Options]
      /\ reply \in [Workers -> {"none", "ok", "notFound", "error", "lost"}]
      /\ file \in [Engines -> Files] /\ faults \in Nat
      /\ Alone(s) /\ Applying(s) /\ FreshInv /\ TypeOK
  BY OneWorker DEF TypeOK, Engines
<1>1. /\ stage[w] \in {"listProtocols"} \cup AfterListing
      /\ w = Boot => stage[s] = "idle"
  <2>1. stage[w] \in {"listProtocols"} \cup AfterListing
    BY DEF Regenerate, ListProtocols, ListUsers, LoadOptions, SidecarEnv, Truncate,
       Write, RegenerationFails, AfterListing
  <2> QED
    BY <1>0, <2>1 DEF Alone, FreshInv, BootOK, AfterListing
<1>2. CASE w = Boot
  <2>1. stage'[s] = "idle"
    <3>1. CASE AfterEngine(w)
      BY <1>1, <1>2, <3>1, AfterEngineEffect
    <3>2. CASE \E next : Goto(w, next)
      BY <1>0, <1>1, <1>2, <3>2 DEF Goto
    <3> QED
      BY <1>0, <1>2, <3>1, <3>2 DEF Regenerate, ListProtocols, ListUsers, LoadOptions,
         SidecarEnv, Truncate, Write, RegenerationFails
  <2> QED
    BY <2>1 DEF Applying
<1>3. CASE w = s /\ RegenerationFails(w)
  <2>1. faults' # 0
    BY <1>0, <1>3 DEF RegenerationFails
  <2>2. CASE AfterEngine(w)
    <3>1. /\ stage'[s] \in {"listProtocols", "listForSync", "idle"}
          /\ stage'[s] # "idle" => reply'[s] = "none"
      BY <1>0, <1>1, <1>3, <2>2, AfterEngineEffect DEF Applying, AfterListing
    <3> QED
      BY <2>1, <3>1 DEF Applying
  <2>3. CASE Reply(w, "error")
    BY <1>0, <1>3, <2>3 DEF Reply, Applying
  <2> QED
    BY <1>0, <1>3, <2>2, <2>3 DEF RegenerationFails
<1>4. CASE w = s /\ (ListProtocols(w) \/ ListUsers(w) \/ SidecarEnv(w) \/ Truncate(w))
  <2>1. /\ \E next \in AfterListing :
             /\ stage' = [stage EXCEPT ![s] = next]
             /\ next = "write" => stage[s] = "truncate"
        /\ UNCHANGED <<request, engine, reply, settings, faults>>
    BY <1>4 DEF ListProtocols, ListUsers, SidecarEnv, Truncate, Goto, database, bounds,
       AfterListing
  <2>2. /\ stage'[s] \in AfterListing
        /\ stage'[s] \in {"truncate", "write"} /\ engine[s] = "xray"
             => stage[s] = "truncate" /\ seenOptions'[s] = seenOptions[s]
    <3>1. CASE ListProtocols(w) \/ ListUsers(w)
      BY <1>0, <1>4, <3>1 DEF ListProtocols, ListUsers, Goto, AfterListing
    <3>2. CASE SidecarEnv(w)
      BY <1>0, <1>4, <3>2 DEF SidecarEnv, Goto, AfterListing, Applying
    <3>3. CASE Truncate(w)
      BY <1>0, <1>4, <3>3 DEF Truncate, Goto, AfterListing, locals
    <3> QED
      BY <1>4, <3>1, <3>2, <3>3
  <2>5. /\ stage'[s] = "sidecarEnv" => engine[s] = "singbox"
        /\ stage'[s] = "options" => engine[s] = "xray"
    BY <1>0, <1>4 DEF ListProtocols, ListUsers, SidecarEnv, Truncate, Goto
  <2>3. XrayWritten(s)' => engine[s] = "singbox" /\ XrayWritten(s)
    BY <1>0, <1>1, <2>1, <2>2 DEF XrayWritten, AtRest, AfterListing
  <2>4. engine[s] = "singbox" => file'["xray"] = file["xray"]
    BY <1>0, <1>4 DEF ListProtocols, ListUsers, SidecarEnv, Truncate, disk
  <2> QED
    BY <1>0, <1>1, <1>4, <2>1, <2>2, <2>3, <2>4, <2>5 DEF Applying, Saved, AfterListing
<1>5. CASE w = s /\ LoadOptions(w)
  <2>1. /\ stage[s] = "options" /\ stage'[s] = "truncate"
        /\ UNCHANGED <<request, engine, reply, settings, file>>
        /\ faults' = 0 => faults = 0 /\ seenOptions'[s] = settings["xray"]
    BY <1>0, <1>5 DEF LoadOptions, Goto, database, disk
  <2>2. XrayWritten(s)' => XrayWritten(s)
    BY <2>1 DEF XrayWritten, AtRest
  <2> QED
    BY <2>1, <2>2 DEF Applying, Saved
<1>6. CASE w = s /\ Write(w)
  <2> DEFINE new == Whole(Document(engine[s], seenProtocols[s], seenUsers[s],
                                   seenOptions[s]))
  <2>1. s \in undisturbed /\ stage[s] = "write"
    BY <1>0, <1>6 DEF Alone, AfterListing, Write
  <2>2. file[engine[s]] = Empty
    BY <1>0, <2>1 DEF FreshInv, UndisturbedIsCurrent
  <2>3. /\ AfterEngine(s) /\ UNCHANGED <<settings, faults>>
        /\ file' = [file EXCEPT ![engine[s]] = new]
    BY <1>6, <2>2 DEF Write, database, bounds
  <2>4. /\ stage'[s] \in {"listProtocols", "listForSync", "idle"}
        /\ request' = request
        /\ stage'[s] # "idle" => reply'[s] = reply[s]
    BY <1>0, <2>3, AfterEngineEffect
  <2>5. ASSUME faults = 0, request[s].kind = "ApplyProtocols"
        PROVE  Saved(file["xray"])'
    <3>1. CASE engine[s] = "xray"
      <4>1. seenOptions[s] = settings["xray"]
        BY <1>0, <2>1, <2>5, <3>1 DEF Applying
      <4>2. file'["xray"] = new
        BY <1>0, <2>3, <3>1
      <4> QED
        BY <2>3, <4>1, <4>2 DEF Saved, Whole, Document
    <3>2. CASE engine[s] = "singbox"
      <4>1. XrayWritten(s)
        BY <2>1, <3>2 DEF XrayWritten
      <4>2. file'["xray"] = file["xray"]
        BY <1>0, <2>3, <3>2
      <4> QED
        BY <1>0, <2>1, <2>3, <2>5, <4>1, <4>2 DEF Applying, Saved
    <3> QED
      BY <1>0, <3>1, <3>2
  <2> QED
    BY <1>0, <2>1, <2>3, <2>4, <2>5 DEF Applying, Saved
<1> QED
  BY <1>0, <1>2, <1>3, <1>4, <1>5, <1>6 DEF Regenerate

-----------------------------------------------------------------------------
LEMMA NextSerial ==
  ASSUME NEW s, Slots = {s}, Known, SerialInv(s), [Next]_vars, XrayContainer
  PROVE  SerialInv(s)'
<1>0. /\ Workers = {s, Boot} /\ s # Boot
      /\ Engines = {"xray", "singbox"} /\ "xray" # "singbox"
      /\ stage \in [Workers -> Stages] /\ engine \in [Workers -> Engines]
      /\ reply \in [Workers -> {"none", "ok", "notFound", "error", "lost"}]
      /\ request \in [Workers -> {None} \cup Requests]
      /\ running \in [Engines -> Processes] /\ crashes \in Nat
      /\ Alone(s) /\ Rendered(s) /\ AppliedInv /\ Applying(s)
  BY OneWorker DEF Known, SerialInv, TypeOK, Engines
<1>1. ASSUME NEW r \in Requests, Receive(s, r)
      PROVE  SerialInv(s)'
  <2>1. /\ agent = "up" /\ stage[s] = "idle" /\ stage'[Boot] = stage[Boot]
        /\ stage'[s] = FirstStage(r.kind) /\ request'[s] = r
        /\ reply'[s] = "none" /\ engine'[s] = "xray" /\ engine'[Boot] = engine[Boot]
        /\ UNCHANGED <<protocols, vpnUsers, settings, file, running, agent, crashes,
                       faults, undisturbed, healthy, applied>>
    BY <1>0, <1>1 DEF Receive, database, disk, containers
  <2>2. /\ FirstStage(r.kind) \in {"get", "commit", "listProtocols"}
        /\ r.kind = "ApplyProtocols" => FirstStage(r.kind) = "listProtocols"
    BY DEF FirstStage
  <2>3. Alone(s)'
    BY <1>0, <2>1, <2>2 DEF Alone, AfterListing
  <2>4. Rendered(s)'
    BY <1>0, <2>1, <2>2 DEF Rendered, XrayWritten, AtRest
  <2>5. AppliedInv'
    BY <1>0, <2>1 DEF AppliedInv, Current
  <2>6. Applying(s)'
    BY <1>0, <2>1, <2>2 DEF Applying, XrayWritten, AtRest
  <2> QED
    BY <2>3, <2>4, <2>5, <2>6 DEF SerialInv
<1>2. CASE Handle(s)
  BY <1>2, HandleSerial, HandleApplying DEF SerialInv
<1>3. ASSUME NEW w \in Workers, Regenerate(w)
      PROVE  SerialInv(s)'
  BY <1>3, RegenerateSerial, RegenerateApplying DEF SerialInv
<1>4. CASE Crash
  <2>1. /\ agent' = "down" /\ stage'[s] = "idle" /\ stage'[Boot] = "idle"
        /\ engine'[s] = "xray" /\ engine'[Boot] = "xray" /\ crashes' # 0
        /\ UNCHANGED <<protocols, vpnUsers, file, running, faults, applied>>
    BY <1>0, <1>4 DEF Crash, database, disk, containers
  <2>2. Alone(s)' /\ Rendered(s)' /\ Applying(s)'
    BY <1>0, <2>1 DEF Alone, AfterListing, Rendered, Applying
  <2>3. AppliedInv'
    BY <1>0, <2>1 DEF AppliedInv, Current
  <2> QED
    BY <2>2, <2>3 DEF SerialInv
<1>5. CASE Start
  <2>1. /\ agent = "down" /\ agent' = "booting"
        /\ stage'[s] = stage[s] /\ stage'[Boot] = "listProtocols"
        /\ UNCHANGED <<protocols, vpnUsers, engine, file, running, faults, applied,
                       crashes, undisturbed>>
    BY <1>0, <1>5 DEF Start, database, disk, containers, bounds, history
  <2>2. Alone(s)' /\ Rendered(s)' /\ Applying(s)'
    BY <1>0, <2>1 DEF Alone, AfterListing, Rendered, Applying
  <2>3. AppliedInv'
    BY <1>0, <2>1 DEF AppliedInv, Current
  <2> QED
    BY <2>2, <2>3 DEF SerialInv
<1>6. ASSUME NEW e \in Engines, EngineRestart(e)
      PROVE  SerialInv(s)'
  <2>1. /\ running'["xray"] \in {running["xray"], Load(file["xray"])}
        /\ UNCHANGED <<protocols, vpnUsers, settings, request, stage, engine, reply,
                       seenOptions, file, agent, crashes, faults, undisturbed, healthy,
                       applied>>
    BY <1>0, <1>6 DEF EngineRestart, database, control, locals, disk, bounds, history
  <2>2. Alone(s)' /\ Rendered(s)' /\ Applying(s)'
    BY <1>0, <2>1 DEF Alone, Rendered, XrayWritten, Applying, Saved
  <2>3. AppliedInv'
    BY <1>0, <2>1, LoadServes DEF AppliedInv, Current
  <2> QED
    BY <2>2, <2>3 DEF SerialInv
<1>7. CASE UNCHANGED vars
  <2>1. Alone(s)' /\ Rendered(s)' /\ Applying(s)' /\ AppliedInv'
    BY <1>0, <1>7 DEF vars, Alone, Rendered, XrayWritten, Applying, Saved, AppliedInv,
       Current
  <2> QED
    BY <2>1 DEF SerialInv
<1> QED
  BY <1>1, <1>2, <1>3, <1>4, <1>5, <1>6, <1>7 DEF Next

LEMMA SerialAlways ==
  ASSUME NEW CONSTANT s, Slots = {s}, XrayContainer
  PROVE  Spec => [](Known /\ SerialInv(s))
<1>1. Init => Known /\ SerialInv(s)
  BY InitTypeOK, InitFresh, InitSerial DEF Known
<1>2. Known /\ SerialInv(s) /\ [Next]_vars => (Known /\ SerialInv(s))'
  BY NextType, NextFresh, NextSerial DEF Known
<1> QED
  BY <1>1, <1>2, PTL DEF Spec

(* One request at a time, any number of kills: as long as no call has       *)
(* failed, whenever no request is in flight Xray's file is the rendering of *)
(* the database, and sing-box's is unless the agent was killed (the         *)
(* handlers, regenerateXray, bootstrapDefaultXray).                         *)
THEOREM QuietIsFresh ==
  ASSUME NEW CONSTANT s, Slots = {s}, XrayContainer
  PROVE  Spec => []QuietMeansFresh
<1>1. Known /\ SerialInv(s) => QuietMeansFresh
  <2> SUFFICES ASSUME Known, SerialInv(s), Idle, faults = 0
               PROVE  /\ Current("xray", file["xray"])
                      /\ crashes = 0 /\ file["singbox"] # Absent
                           => Current("singbox", file["singbox"])
    BY DEF QuietMeansFresh
  <2>1. agent = "up" /\ stage[s] = "idle" /\ Rendered(s) /\ FreshUnlessDisturbed
    BY OneWorker DEF Idle, Known, FreshInv, SerialInv
  <2> QED
    BY <2>1 DEF Rendered, XrayWritten, AtRest, FreshUnlessDisturbed
<1> QED
  BY <1>1, SerialAlways, PTL

(* One request at a time: from the answer to "apply" until the next change, *)
(* an Xray that runs serves what the database says, across kills of the     *)
(* agent and restarts of Xray (ApplyProtocols).                             *)
THEOREM ApplyIsServed ==
  ASSUME NEW CONSTANT s, Slots = {s}, XrayContainer
  PROVE  Spec => []AppliedIsServed
<1>1. Known /\ SerialInv(s) => AppliedIsServed
  BY DEF SerialInv, AppliedInv, AppliedIsServed
<1> QED
  BY <1>1, SerialAlways, PTL

(* One request at a time: the answer to "apply" finds Xray running with the *)
(* saved settings, whatever settings there are (loadXraySettings).          *)
THEOREM ApplyUsesSettings ==
  ASSUME NEW CONSTANT s, Slots = {s}, XrayContainer
  PROVE  Spec => ApplyBringsSettings
<1>1. Known /\ SerialInv(s) /\ [Next]_vars => [AppliesSettings]_vars
  <2> SUFFICES ASSUME Known, SerialInv(s), Next,
                      stage[s] = "restart", reply'[s] = "ok", faults' = 0
               PROVE  /\ running'["xray"].state = "whole"
                      /\ \A d \in running'["xray"].doc : d.options = settings["xray"]
    BY DEF AppliesSettings
  <2>1. /\ Workers = {s, Boot} /\ s # Boot /\ agent = "up" /\ stage[Boot] = "idle"
        /\ reply[s] = "none" /\ request[s].kind = "ApplyProtocols" /\ TypeOK
    BY OneWorker DEF SerialInv, Alone, Applying, Known
  <2>2. RestartXray(s)
    <3>1. \A r : ~Receive(s, r)
      BY DEF Receive
    <3>2. \A w \in Workers : ~Regenerate(w)
      BY <2>1 DEF Regenerate, ListProtocols, ListUsers, LoadOptions, SidecarEnv,
         Truncate, Write, RegenerationFails
    <3>3. ~Crash
      <4>1. ASSUME Crash PROVE reply'[s] = "lost"
        BY <2>1, <4>1 DEF Crash
      <4> QED
        BY <4>1
    <3>4. ~Start /\ \A e \in Engines : ~EngineRestart(e)
      BY <2>1 DEF Start, EngineRestart, control
    <3>5. Handle(s)
      BY <3>1, <3>2, <3>3, <3>4 DEF Next
    <3>6. ~DockerFails(s)
      BY <2>1 DEF DockerFails, TypeOK
    <3> QED
      BY <3>5, <3>6 DEF Handle, GetProtocol, GetUser, UserNotFound, PutProtocol,
         InstallProtocol, PatchUser, DeleteUser, CreateUser, PutSettings,
         StatementFails, InstallEnv, ListForSync, ComposeUp, AtCommit
  <2>3. running'["xray"] = Load(file["xray"]) /\ faults = 0
    BY <2>1, <2>2 DEF RestartXray, TypeOK, Engines, bounds
  <2>4. Saved(file["xray"])
    BY <2>1, <2>3 DEF SerialInv, Applying, XrayWritten, AtRest
  <2> QED
    BY <2>3, <2>4 DEF Saved, Load
<1> QED
  BY <1>1, SerialAlways, PTL DEF Spec, ApplyBringsSettings

-----------------------------------------------------------------------------
(***************************************************************************)
(* The secrets of ConfigSync with one request at a time: "apply" brings the *)
(* MTProto secret through both env files to the proxy.                      *)
(***************************************************************************)

(* What holds the secret of the database, if an MTProto preset is installed. *)
HasSecret(x) == InstalledMTProto(protocols) # {} => x = MTProtoEnv(protocols, None)

Proxying(s) ==
  /\ stage[s] \notin {"idle", "get", "commit"} /\ request[s].kind # "ApplyProtocols"
       => "xray" \notin applied
  /\ faults = 0 /\ stage[s] # "idle" /\ request[s].kind = "ApplyProtocols" =>
       /\ stage[s] \in {"truncate", "write"} /\ engine[s] = "singbox"
            => HasSecret(mtprotoEnv)
       /\ stage[s] \in {"listForSync", "composeUp", "restart"} => HasSecret(mtprotoEnv)
       /\ stage[s] = "composeUp" => seenProtocols[s] = protocols
       /\ stage[s] = "restart" => HasSecret(proxy)
  /\ faults = 0 /\ "xray" \in applied /\ proxy # None => HasSecret(proxy)

(* The secret of an installed MTProto row is one, not None.                 *)
LEMMA SecretIsConfig ==
  ASSUME NEW table \in ProtocolTables, InstalledMTProto(table) # {}, NEW x
  PROVE  /\ MTProtoEnv(table, x) = MTProtoEnv(table, None)
         /\ MTProtoEnv(table, x) # None
<1> DEFINE S == InstalledMTProto(table)
<1>1. S # {} /\ S \in SUBSET ProtocolIds
  BY DEF InstalledMTProto, OfType, VisibleIds
<1>2. \E p \in S : \A q \in S : ListOrder[q] <= ListOrder[p]
  BY <1>1, AgentConfigAssumption
<1>3. LastListed(S) \in S
  BY <1>2 DEF LastListed
<1>4. table[LastListed(S)].config \in Configs
  BY <1>1, <1>3 DEF ProtocolTables, Rows
<1> QED
  BY <1>1, <1>4, ConfigSyncAssumption DEF MTProtoEnv

LEMMA HandleProxying ==
  ASSUME NEW s, Slots = {s}, Known, SerialInv(s), Proxying(s), Handle(s),
         XrayContainer, ComposeWritable
  PROVE  Proxying(s)'
<1> USE DEF Known
<1>0. /\ Workers = {s, Boot} /\ s # Boot /\ TypeOK /\ Applying(s)
      /\ stage \in [Workers -> Stages] /\ engine \in [Workers -> Engines]
      /\ seenProtocols \in [Workers -> {None} \cup ProtocolTables]
      /\ protocols \in ProtocolTables
  BY OneWorker DEF TypeOK, SerialInv
<1>1. ASSUME NEW next, Goto(s, next)
      PROVE  stage'[s] = next /\ UNCHANGED <<request, engine>>
  BY <1>0, <1>1 DEF Goto
<1>2. ASSUME NEW st, Reply(s, st)
      PROVE  stage'[s] = "idle" /\ UNCHANGED <<request, engine>>
  BY <1>0, <1>2 DEF Reply
<1>3. CASE PutProtocol(s) \/ InstallProtocol(s) \/ PatchUser(s) \/ DeleteUser(s)
  <2>1. /\ applied' = {} /\ stage[s] = "commit"
        /\ Goto(s, "listProtocols") \/ Goto(s, "env")
    BY <1>3 DEF PutProtocol, InstallProtocol, PatchUser, DeleteUser, DatabaseChanges,
       AtCommit
  <2> QED
    BY <1>0, <1>1, <2>1 DEF Proxying, Applying
<1>4. CASE GetProtocol(s) \/ GetUser(s)
  <2>1. /\ stage[s] = "get" /\ Goto(s, "commit")
        /\ UNCHANGED <<protocols, mtprotoEnv, proxy, applied, faults>>
    BY <1>0, <1>4 DEF GetProtocol, GetUser, database, disk, containers, bounds, history
  <2> QED
    BY <1>0, <1>1, <2>1 DEF Proxying, Applying, HasSecret
<1>5. CASE UserNotFound(s) \/ CreateUser(s) \/ PutSettings(s) \/ StatementFails(s)
  <2>1. /\ \E st : Reply(s, st)
        /\ UNCHANGED <<protocols, proxy, applied>>
        /\ faults' = 0 => faults = 0
    BY <1>0, <1>5 DEF UserNotFound, CreateUser, PutSettings, StatementFails, TypeOK,
       database, containers, bounds, history
  <2> QED
    BY <1>2, <2>1 DEF Proxying, HasSecret
<1>6. CASE InstallEnv(s)
  <2>1. /\ stage[s] = "env" /\ Goto(s, "listProtocols")
        /\ UNCHANGED <<protocols, proxy, applied, faults>>
    BY <1>6 DEF InstallEnv, database, containers, bounds, history
  <2> QED
    BY <1>0, <1>1, <2>1 DEF Proxying, Applying, HasSecret
<1>7. CASE ListForSync(s)
  <2>1. /\ stage[s] = "listForSync" /\ Goto(s, "composeUp")
        /\ seenProtocols'[s] = protocols
        /\ UNCHANGED <<protocols, mtprotoEnv, proxy, applied, faults>>
    BY <1>0, <1>7 DEF ListForSync, database, disk, containers, bounds, history
  <2> QED
    BY <1>1, <2>1 DEF Proxying, HasSecret
<1>8. CASE ComposeUp(s)
  <2>1. /\ stage[s] = "composeUp" /\ AfterSync(s)
        /\ UNCHANGED <<protocols, mtprotoEnv, applied, faults>>
    BY <1>8 DEF ComposeUp, database, bounds, history
  <2>2. /\ IF request[s].kind = "ApplyProtocols" THEN stage'[s] = "restart"
           ELSE stage'[s] = "idle"
        /\ request' = request
    BY <1>1, <1>2, <2>1 DEF AfterSync
  <2>3. ASSUME faults = 0, request[s].kind = "ApplyProtocols"
        PROVE  HasSecret(mtprotoEnv) /\ HasSecret(proxy')
    <3>1. seenProtocols[s] = protocols /\ HasSecret(mtprotoEnv)
      BY <2>1, <2>3 DEF Proxying
    <3>2. ASSUME InstalledMTProto(protocols) # {}
          PROVE  proxy' = MTProtoEnv(protocols, None)
      <4>1. mtprotoEnv = MTProtoEnv(protocols, None) /\ mtprotoEnv # None
        BY <1>0, <3>1, <3>2, SecretIsConfig DEF HasSecret
      <4>2. CanMerge(protocols) /\ Merged(protocols) = mtprotoEnv
        BY <3>2, <4>1 DEF CanMerge, Merged
      <4> QED
        BY <1>8, <3>1, <3>2, <4>1, <4>2 DEF ComposeUp
    <3> QED
      BY <3>1, <3>2 DEF HasSecret
  <2>4. CASE request[s].kind = "ApplyProtocols"
    BY <2>1, <2>2, <2>3, <2>4 DEF Proxying, HasSecret
  <2>5. CASE request[s].kind # "ApplyProtocols"
    <3>1. "xray" \notin applied
      BY <2>1, <2>5 DEF Proxying
    <3> QED
      BY <2>1, <2>2, <2>5, <3>1 DEF Proxying
  <2> QED
    BY <2>4, <2>5
<1>9. CASE RestartXray(s)
  <2>1. /\ stage[s] = "restart" /\ request[s].kind = "ApplyProtocols" /\ stage'[s] = "idle"
        /\ UNCHANGED <<protocols, proxy, faults>>
    BY <1>0, <1>2, <1>9 DEF RestartXray, Applying, database, bounds
  <2>2. faults = 0 => HasSecret(proxy)
    BY <2>1 DEF Proxying
  <2> QED
    BY <2>1, <2>2 DEF Proxying, HasSecret
<1>10. CASE DockerFails(s)
  <2>1. /\ faults' # 0 /\ applied' = applied
        /\ stage[s] \in {"listForSync", "composeUp", "restart"}
        /\ Reply(s, "ok") \/ AfterSync(s)
    BY <1>0, <1>10 DEF DockerFails, TypeOK, history
  <2>2. stage'[s] \in {"restart", "idle"} /\ request' = request
    BY <1>1, <1>2, <2>1 DEF AfterSync
  <2> QED
    BY <2>1, <2>2 DEF Proxying
<1> QED
  BY <1>3, <1>4, <1>5, <1>6, <1>7, <1>8, <1>9, <1>10 DEF Handle

LEMMA RegenerateProxying ==
  ASSUME NEW s, Slots = {s}, Known, SerialInv(s), Proxying(s), NEW w \in Workers,
         Regenerate(w)
  PROVE  Proxying(s)'
<1> USE DEF Known
<1>0. /\ Workers = {s, Boot} /\ s # Boot /\ TypeOK /\ FreshInv /\ Alone(s)
      /\ Applying(s) /\ Engines = {"xray", "singbox"} /\ "xray" # "singbox"
      /\ stage \in [Workers -> Stages] /\ engine \in [Workers -> Engines]
      /\ seenProtocols \in [Workers -> {None} \cup ProtocolTables]
      /\ protocols \in ProtocolTables /\ faults \in Nat /\ w \in {s, Boot}
  BY OneWorker DEF TypeOK, SerialInv, Engines
<1>1. /\ stage[w] \in {"listProtocols"} \cup AfterListing
      /\ w = Boot => stage[s] = "idle"
  <2>1. stage[w] \in {"listProtocols"} \cup AfterListing
    BY DEF Regenerate, ListProtocols, ListUsers, LoadOptions, SidecarEnv, Truncate,
       Write, RegenerationFails, AfterListing
  <2> QED
    BY <1>0, <2>1 DEF Alone, FreshInv, BootOK, AfterListing
<1>2. /\ UNCHANGED <<protocols, proxy, applied>>
      /\ faults' = 0 => faults = 0
  BY <1>0 DEF Regenerate, ListProtocols, ListUsers, LoadOptions, SidecarEnv, Truncate,
     Write, RegenerationFails, database, containers, bounds, history
<1>3. CASE w = Boot
  <2>1. stage'[s] = "idle"
    <3>1. CASE AfterEngine(w)
      BY <1>0, <1>1, <1>3, <3>1, AfterEngineEffect
    <3>2. CASE \E next : Goto(w, next)
      BY <1>0, <1>1, <1>3, <3>2 DEF Goto
    <3> QED
      BY <1>0, <1>3, <3>1, <3>2 DEF Regenerate, ListProtocols, ListUsers, LoadOptions,
         SidecarEnv, Truncate, Write, RegenerationFails
  <2> QED
    BY <1>2, <2>1 DEF Proxying, HasSecret
<1>4. CASE w = s /\ (Write(w) \/ RegenerationFails(w))
  <2>1. AfterEngine(s) \/ Reply(s, "error")
    BY <1>4 DEF Write, RegenerationFails
  <2>2. /\ stage'[s] \in {"listProtocols", "listForSync", "idle"}
        /\ stage'[s] = "listForSync" => engine[s] = "singbox"
        /\ request' = request
    BY <1>0, <2>1, AfterEngineEffect DEF Reply
  <2>3. CASE Write(w)
    <3>1. stage[s] = "write" /\ mtprotoEnv' = mtprotoEnv
      BY <1>4, <2>3 DEF Write
    <3> QED
      BY <1>2, <2>2, <3>1 DEF Proxying, HasSecret
  <2>4. CASE RegenerationFails(w)
    <3>1. faults' # 0
      BY <1>0, <2>4 DEF RegenerationFails
    <3> QED
      BY <1>1, <1>2, <1>4, <2>2, <3>1 DEF Proxying, AfterListing
  <2> QED
    BY <1>4, <2>3, <2>4
<1>5. CASE w = s /\ SidecarEnv(w)
  <2>1. /\ stage[s] = "sidecarEnv" /\ stage'[s] = "truncate"
        /\ mtprotoEnv' = MTProtoEnv(seenProtocols[s], mtprotoEnv)
        /\ request' = request
    BY <1>0, <1>5 DEF SidecarEnv, Goto
  <2>2. s \in undisturbed
    BY <1>0, <2>1 DEF Alone, AfterListing
  <2>3. mtprotoEnv' = MTProtoEnv(protocols, mtprotoEnv)
    BY <1>0, <2>1, <2>2 DEF FreshInv, UndisturbedIsCurrent
  <2>4. HasSecret(mtprotoEnv')
    BY <1>0, <2>3, SecretIsConfig DEF HasSecret
  <2> QED
    BY <1>2, <2>1, <2>4 DEF Proxying, HasSecret
<1>6. CASE w = s /\ (ListProtocols(w) \/ ListUsers(w) \/ LoadOptions(w) \/ Truncate(w))
  <2>1. /\ UNCHANGED <<request, engine, mtprotoEnv>>
        /\ stage'[s] \in AfterListing
    BY <1>0, <1>6 DEF ListProtocols, ListUsers, LoadOptions, Truncate, Goto, AfterListing,
       disk
  <2>2. stage'[s] \in {"truncate", "write"} /\ engine[s] = "singbox" => stage[s] = "truncate"
    <3>1. CASE ListProtocols(w)
      BY <1>0, <1>6, <3>1 DEF ListProtocols, Goto
    <3>2. CASE ListUsers(w)
      BY <1>0, <1>6, <3>2 DEF ListUsers, Goto
    <3>3. CASE LoadOptions(w)
      BY <1>0, <1>6, <3>3 DEF LoadOptions, Goto, Applying
    <3>4. CASE Truncate(w)
      BY <3>4, <1>6 DEF Truncate
    <3> QED
      BY <1>6, <3>1, <3>2, <3>3, <3>4
  <2> QED
    BY <1>1, <1>2, <1>6, <2>1, <2>2 DEF Proxying, HasSecret, AfterListing
<1> QED
  BY <1>0, <1>3, <1>4, <1>5, <1>6 DEF Regenerate

LEMMA NextProxying ==
  ASSUME NEW s, Slots = {s}, XrayContainer, ComposeWritable,
         Known, SerialInv(s), Proxying(s), [Next]_vars
  PROVE  Proxying(s)'
<1>0. /\ Workers = {s, Boot} /\ s # Boot /\ TypeOK /\ Applying(s)
      /\ stage \in [Workers -> Stages] /\ request \in [Workers -> {None} \cup Requests]
  BY OneWorker DEF TypeOK, SerialInv, Known
<1>1. ASSUME NEW r \in Requests, Receive(s, r)
      PROVE  Proxying(s)'
  <2>1. /\ request'[s] = r /\ stage'[s] = FirstStage(r.kind)
        /\ UNCHANGED <<protocols, proxy, applied, faults>>
    BY <1>0, <1>1 DEF Receive, database, containers
  <2>2. /\ stage'[s] \in {"get", "commit", "listProtocols"}
        /\ stage'[s] = "listProtocols" => r.kind = "ApplyProtocols"
        /\ stage'[s] = "commit" => r.kind \notin {"PutProtocol", "InstallProtocol"}
    BY <2>1 DEF FirstStage
  <2> QED
    BY <2>1, <2>2 DEF Proxying, HasSecret
<1>2. CASE Handle(s)
  BY <1>2, HandleProxying
<1>3. ASSUME NEW w \in Workers, Regenerate(w)
      PROVE  Proxying(s)'
  BY <1>3, RegenerateProxying
<1>4. CASE Crash
  <2>1. stage'[s] = "idle" /\ UNCHANGED <<protocols, proxy, faults, applied>>
    BY <1>0, <1>4 DEF Crash, database, containers
  <2> QED
    BY <2>1 DEF Proxying, HasSecret
<1>5. CASE Start \/ (\E e \in Engines : EngineRestart(e)) \/ UNCHANGED vars
  <2>1. /\ stage'[s] = stage[s] /\ seenProtocols'[s] = seenProtocols[s]
        /\ UNCHANGED <<protocols, request, engine, mtprotoEnv, proxy, faults,
                       applied>>
    BY <1>0, <1>5 DEF Start, EngineRestart, vars, database, control, locals, disk,
       containers, bounds, history
  <2> QED
    BY <2>1 DEF Proxying, HasSecret
<1> QED
  BY <1>1, <1>2, <1>3, <1>4, <1>5 DEF Next

LEMMA ProxyingAlways ==
  ASSUME NEW CONSTANT s, Slots = {s}, XrayContainer, ComposeWritable
  PROVE  Spec => [](Known /\ SerialInv(s) /\ Proxying(s))
<1>1. Init => Known /\ SerialInv(s) /\ Proxying(s)
  BY InitTypeOK, InitFresh, InitSerial, OneWorker DEF Known, Init, Proxying
<1>2. Known /\ SerialInv(s) /\ Proxying(s) /\ [Next]_vars
        => (Known /\ SerialInv(s) /\ Proxying(s))'
  BY NextType, NextFresh, NextSerial, NextProxying DEF Known
<1> QED
  BY <1>1, <1>2, PTL DEF Spec

(* One request at a time, a compose directory the agent can write: from the *)
(* answer to "apply" until the next change, a proxy that runs has the       *)
(* secret of the database (regenerateSidecars, mergeMTProtoEnv).            *)
THEOREM ApplyBringsSecret ==
  ASSUME NEW CONSTANT s, Slots = {s}, XrayContainer, ComposeWritable
  PROVE  Spec => []AppliedProxySecret
<1>1. Known /\ Proxying(s) => AppliedProxySecret
  <2> SUFFICES ASSUME Known, Proxying(s), "xray" \in applied, faults = 0, proxy # None
               PROVE  proxy = MTProtoEnv(protocols, proxy)
    BY DEF AppliedProxySecret
  <2>1. CASE InstalledMTProto(protocols) = {}
    BY <2>1 DEF MTProtoEnv
  <2>2. CASE InstalledMTProto(protocols) # {}
    BY <2>2, SecretIsConfig DEF Proxying, HasSecret, Known, TypeOK
  <2> QED
    BY <2>1, <2>2
<1> QED
  BY <1>1, ProxyingAlways, PTL
=============================================================================
