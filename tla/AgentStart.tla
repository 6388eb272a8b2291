------------------------------ MODULE AgentStart ------------------------------
(***************************************************************************)
(* What the agent sets up at each start and what must outlive a restart:    *)
(* the default presets, the admin key, the JWT secret that signs sessions,  *)
(* and the two settings of the subscription form.                          *)
(*                                                                         *)
(* main() (agent/cmd/agent/main.go) seeds presets one by one, stores the    *)
(* admin key and loads or makes the JWT secret, each with one statement.    *)
(* It may be killed between any two of them, a statement may fail, and      *)
(* log.Fatalf ends the process; docker starts it again.  A run of the       *)
(* installer may give the next start another environment.                  *)
(***************************************************************************)
EXTENDS Naturals, Sequences

CONSTANTS
  Defaults,        \* ids of seedDefaultProtocols, in its order
  AdminKeys, Secrets,
  Environments,    \* what the container may be started with
  Admins,          \* subscription forms being saved at once
  Bases, Host,     \* base URLs, and the host name of each (or None)
  InitialPresets,  \* what an earlier version left in table protocols
  None,
  MaxCrashes, MaxFaults, MaxInstalls     \* bounds for model checking

Ids == {Defaults[i] : i \in DOMAIN Defaults}

PresetStates == {"absent", "default", "edited"}

EnvironmentType ==
  [adminToken : {None} \cup AdminKeys, installSecret : BOOLEAN,
   jwtSecret : {None} \cup Secrets]

ASSUME AgentStartAssumption ==
  /\ Defaults \in Seq(STRING)
  /\ Environments \subseteq EnvironmentType
  /\ Host \in [Bases -> {None} \cup STRING]
  /\ InitialPresets \subseteq [Ids -> PresetStates]
  /\ None \notin AdminKeys \cup Secrets \cup Bases \cup STRING
  /\ MaxCrashes \in Nat /\ MaxFaults \in Nat /\ MaxInstalls \in Nat

VARIABLES
  env,                                      \* the container's environment
  presets, adminKey, jwtSecret, base, host, \* the database
  stage, next, counted,                     \* where main() is
  adminToken, signing,                      \* the serving process's secrets
  sessions,                                 \* tokens that clients hold
  saving,                                   \* PutSubscriptionSettings calls
  crashes, faults, installs,                \* bounds
  mixed                                     \* history, read by no guard

database == <<presets, adminKey, jwtSecret, base, host>>
process  == <<stage, next, counted, adminToken, signing>>
agentBounds == <<crashes, faults, installs>>

agentVars == <<env, presets, adminKey, jwtSecret, base, host, stage, next, counted,
               adminToken, signing, sessions, saving, crashes, faults, installs, mixed>>

Init ==
  /\ env \in Environments
  /\ presets \in InitialPresets
  /\ adminKey = None /\ jwtSecret = None /\ base = None /\ host = None
  /\ stage = "down" /\ next = 1 /\ counted = FALSE
  /\ adminToken = None /\ signing = None
  /\ sessions = {}
  /\ saving = [a \in Admins |-> None]
  /\ crashes = 0 /\ faults = 0 /\ installs = 0
  /\ mixed = FALSE

(* The process is gone, with what it had in memory.                        *)
Exit ==
  /\ stage' = "down" /\ next' = 1 /\ counted' = FALSE
  /\ adminToken' = None /\ signing' = None

Fault == faults < MaxFaults /\ faults' = faults + 1

-----------------------------------------------------------------------------
(* Open, and the CREATE TABLE IF NOT EXISTS statements of Migrate.          *)
StartUp ==
  /\ stage = "down"
  /\ stage' = "count"
  /\ UNCHANGED <<env, database, next, counted, adminToken, signing, sessions, saving,
                 agentBounds, mixed>>

Seeding == next <= Len(Defaults)

(* Mutant: only rows nobody has edited are counted.                        *)
CountPresetUnedited ==
  /\ stage = "count"
  /\ Seeding
  /\ \/ counted' = (presets[Defaults[next]] = "default") /\ UNCHANGED faults
     \/ Fault /\ counted' = FALSE
  /\ stage' = "insert"
  /\ UNCHANGED <<env, database, next, adminToken, signing, sessions, saving,
                 crashes, installs, mixed>>

(* SELECT COUNT(1) ...; if it fails the count stays zero.                   *)
CountPreset ==
  /\ stage = "count"
  /\ Seeding
  /\ \/ counted' = (presets[Defaults[next]] # "absent") /\ UNCHANGED faults
     \/ Fault /\ counted' = FALSE
  /\ stage' = "insert"
  /\ UNCHANGED <<env, database, next, adminToken, signing, sessions, saving,
                 crashes, installs, mixed>>

(* Mutant: the first preset found ends the seeding.                        *)
SkipPresetBreak ==
  /\ stage = "insert"
  /\ counted
  /\ next' = Len(Defaults) + 1
  /\ stage' = "count"
  /\ counted' = FALSE
  /\ UNCHANGED <<env, database, adminToken, signing, sessions, saving, agentBounds,
                 mixed>>

SkipPreset ==
  /\ stage = "insert"
  /\ counted
  /\ next' = next + 1
  /\ stage' = "count"
  /\ counted' = FALSE
  /\ UNCHANGED <<env, database, adminToken, signing, sessions, saving, agentBounds,
                 mixed>>

(* Mutant: INSERT OR REPLACE.                                              *)
InsertPresetOrReplace ==
  /\ stage = "insert"
  /\ ~counted
  /\ presets' = [presets EXCEPT ![Defaults[next]] = "default"]
  /\ next' = next + 1
  /\ stage' = "count"
  /\ UNCHANGED <<env, adminKey, jwtSecret, base, host, counted, adminToken, signing,
                 sessions, saving, agentBounds, mixed>>

InsertPreset ==
  /\ stage = "insert"
  /\ ~counted
  /\ presets[Defaults[next]] = "absent"
  /\ presets' = [presets EXCEPT ![Defaults[next]] = "default"]
  /\ next' = next + 1
  /\ stage' = "count"
  /\ UNCHANGED <<env, adminKey, jwtSecret, base, host, counted, adminToken, signing,
                 sessions, saving, agentBounds, mixed>>

(* The row is there after all, and its id is the primary key.              *)
InsertRefused ==
  /\ stage = "insert"
  /\ ~counted
  /\ presets[Defaults[next]] # "absent"
  /\ Exit
  /\ UNCHANGED <<env, database, sessions, saving, agentBounds, mixed>>

(* EnsureAdminKey with KOSIRO_ADMIN_TOKEN, else with a key made from the    *)
(* install secret; with neither there is no key.                           *)
KeyChoices ==
  IF env.adminToken # None THEN {env.adminToken}
  ELSE IF env.installSecret THEN AdminKeys ELSE {None}

(* Mutant: a key that is stored is kept.                                   *)
EnsureAdminKeyOnce ==
  /\ stage = "count"
  /\ ~Seeding
  /\ adminToken' \in KeyChoices
  /\ adminKey' = IF adminKey = None THEN adminToken' ELSE adminKey
  /\ stage' = "jwt"
  /\ UNCHANGED <<env, presets, jwtSecret, base, host, next, counted, signing, sessions,
                 saving, agentBounds, mixed>>

EnsureAdminKey ==
  /\ stage = "count"
  /\ ~Seeding
  /\ adminToken' \in KeyChoices
  /\ adminKey' = IF adminToken' # None THEN adminToken' ELSE adminKey
  /\ stage' = "jwt"
  /\ UNCHANGED <<env, presets, jwtSecret, base, host, next, counted, signing, sessions,
                 saving, agentBounds, mixed>>

(* That a token of the environment is not stored is only logged.           *)
EnsureAdminKeyFails ==
  /\ stage = "count"
  /\ ~Seeding
  /\ env.adminToken # None
  /\ Fault
  /\ adminToken' = env.adminToken
  /\ stage' = "jwt"
  /\ UNCHANGED <<env, database, next, counted, signing, sessions, saving, crashes,
                 installs, mixed>>

(* Mutant: an empty secret is taken for a secret.                          *)
LoadJWTSecretEmpty ==
  /\ stage = "jwt"
  /\ signing' = IF env.jwtSecret # None THEN env.jwtSecret ELSE jwtSecret
  /\ stage' = "up"
  /\ UNCHANGED <<env, database, next, counted, adminToken, sessions, saving,
                 agentBounds, mixed>>

(* EnsureJWTSecret, unless KOSIRO_JWT_SECRET is set.  Its SELECT ...        *)
LoadJWTSecret ==
  /\ stage = "jwt"
  /\ signing' = IF env.jwtSecret # None THEN env.jwtSecret ELSE jwtSecret
  /\ stage' = IF signing' # None THEN "up" ELSE "saveJwt"
  /\ UNCHANGED <<env, database, next, counted, adminToken, sessions, saving,
                 agentBounds, mixed>>

(* Mutant: a secret that could not be stored is used nevertheless.         *)
SaveJWTSecretUnchecked ==
  /\ stage = "saveJwt"
  /\ signing' \in Secrets
  /\ \/ jwtSecret' = signing' /\ UNCHANGED faults
     \/ Fault /\ UNCHANGED jwtSecret
  /\ stage' = "up"
  /\ UNCHANGED <<env, presets, adminKey, base, host, next, counted, adminToken, sessions,
                 saving, crashes, installs, mixed>>

(* ... and the upsert of a new one.                                        *)
SaveJWTSecret ==
  /\ stage = "saveJwt"
  /\ signing' \in Secrets
  /\ jwtSecret' = signing'
  /\ stage' = "up"
  /\ UNCHANGED <<env, presets, adminKey, base, host, next, counted, adminToken, sessions,
                 saving, agentBounds, mixed>>

(* log.Fatalf after a failed INSERT of a preset, of a generated admin key,  *)
(* or of the JWT secret, or a failed SELECT of the latter.                 *)
StatementFatal ==
  /\ \/ stage = "insert" /\ ~counted
     \/ stage = "count" /\ ~Seeding /\ env.adminToken = None /\ env.installSecret
     \/ stage = "jwt" /\ env.jwtSecret = None
     \/ stage = "saveJwt"
  /\ Fault
  /\ Exit
  /\ UNCHANGED <<env, database, sessions, saving, crashes, installs, mixed>>

-----------------------------------------------------------------------------
(* IssueToken for somebody with the install secret or the admin key: a      *)
(* token is the secret it is signed with.                                  *)
IssueToken ==
  /\ stage = "up"
  /\ env.installSecret \/ adminToken # None
  /\ sessions' = sessions \cup
       {[secret |-> signing, fromEnv |-> env.jwtSecret # None]}
  /\ UNCHANGED <<env, database, process, saving, agentBounds, mixed>>

Edit(p) ==
  /\ stage = "up"
  /\ presets[p] # "absent"
  /\ presets' = [presets EXCEPT ![p] = "edited"]
  /\ UNCHANGED <<env, adminKey, jwtSecret, base, host, process, sessions, saving,
                 agentBounds, mixed>>

(* Mutant: the host is written also after the base could not be.           *)
SaveSubscriptionUnchecked(a, b) ==
  /\ stage = "up"
  /\ saving[a] = None
  /\ \/ base' = b /\ UNCHANGED faults
     \/ Fault /\ UNCHANGED base
  /\ saving' = [saving EXCEPT ![a] = b]
  /\ mixed' = (\E other \in Admins : saving[other] # None)
  /\ UNCHANGED <<env, presets, adminKey, jwtSecret, host, process, sessions, crashes,
                 installs>>

(* PutSubscriptionSettings: the whole record, which has the base URL (an    *)
(* error ends the request) ...                                             *)
SaveSubscription(a, b) ==
  /\ stage = "up"
  /\ saving[a] = None
  /\ base' = b
  /\ saving' = [saving EXCEPT ![a] = b]
  /\ mixed' = (\E other \in Admins : saving[other] # None)
  /\ UNCHANGED <<env, presets, adminKey, jwtSecret, host, process, sessions,
                 agentBounds>>

(* ... and the public host the links are made with, if the URL has one; an  *)
(* error here is dropped.                                                  *)
SavePublicHost(a) ==
  /\ saving[a] # None
  /\ \/ host' = (IF Host[saving[a]] = None THEN host ELSE Host[saving[a]])
        /\ UNCHANGED <<faults, mixed>>
     \/ Host[saving[a]] # None /\ Fault /\ mixed' = TRUE /\ UNCHANGED host
  /\ saving' = [saving EXCEPT ![a] = None]
  /\ UNCHANGED <<env, presets, adminKey, jwtSecret, base, process, sessions, crashes,
                 installs>>

-----------------------------------------------------------------------------
Crash ==
  /\ stage # "down"
  /\ crashes < MaxCrashes
  /\ crashes' = crashes + 1
  /\ Exit
  /\ saving' = [a \in Admins |-> None]
  /\ mixed' = (mixed \/ \E a \in Admins : saving[a] # None)
  /\ UNCHANGED <<env, database, sessions, faults, installs>>

(* install.sh writes a new .env and `docker compose up` uses it.           *)
Reinstall ==
  /\ stage = "down"
  /\ installs < MaxInstalls
  /\ installs' = installs + 1
  /\ env' \in Environments
  /\ UNCHANGED <<database, process, sessions, saving, crashes, faults, mixed>>

Boot ==
  \/ StartUp \/ CountPreset \/ SkipPreset \/ InsertPreset \/ InsertRefused
  \/ EnsureAdminKey \/ EnsureAdminKeyFails \/ LoadJWTSecret \/ SaveJWTSecret
  \/ StatementFatal

Serve ==
  \/ IssueToken
  \/ \E p \in Ids : Edit(p)
  \/ \E a \in Admins : (\E b \in Bases : SaveSubscription(a, b)) \/ SavePublicHost(a)

Next == Boot \/ Serve \/ Crash \/ Reinstall

Spec == Init /\ [][Next]_agentVars

(* docker starts an agent that has ended (restart: unless-stopped), and     *)
(* main() goes on.                                                         *)
FairSpec == Spec /\ WF_agentVars(Boot)

-----------------------------------------------------------------------------
(* Type correctness; in particular a serving agent always has a secret.    *)
TypeOK ==
  /\ env \in Environments
  /\ presets \in [Ids -> PresetStates]
  /\ adminKey \in {None} \cup AdminKeys /\ jwtSecret \in {None} \cup Secrets
  /\ base \in {None} \cup Bases /\ host \in {None} \cup STRING
  /\ stage \in {"down", "count", "insert", "jwt", "saveJwt", "up"}
  /\ next \in 1 .. Len(Defaults) + 1 /\ counted \in BOOLEAN
  /\ adminToken \in {None} \cup AdminKeys /\ signing \in {None} \cup Secrets
  /\ stage = "up" => signing # None
  /\ sessions \in SUBSET [secret : Secrets, fromEnv : BOOLEAN]
  /\ saving \in [Admins -> {None} \cup Bases]
  /\ crashes \in Nat /\ faults \in Nat /\ installs \in Nat
  /\ mixed \in BOOLEAN

(* A session outlives kills, failed starts and reinstallations of the agent *)
(* (EnsureJWTSecret): no secret signs anything before it is in the database. *)
(* Only KOSIRO_JWT_SECRET, set or taken away, ends sessions.               *)
SessionsSurvive ==
  stage = "up" /\ env.jwtSecret = None =>
    \A s \in sessions : s.fromEnv \/ s.secret = signing

(* Every start without KOSIRO_ADMIN_TOKEN makes a new admin key; the one in  *)
(* the database is the one the agent accepts (main, EnsureAdminKey).        *)
StoredKeyServes ==
  stage = "up" /\ env.adminToken = None /\ adminToken # None =>
    adminKey = adminToken

(* All default presets are there when the agent serves, wherever an earlier *)
(* start was interrupted and whatever an earlier version had left          *)
(* (seedDefaultProtocols).                                                 *)
SeedComplete == stage = "up" => \A p \in Ids : presets[p] # "absent"

(* No start resets a preset that somebody has edited, not even when its     *)
(* COUNT fails.                                                            *)
SeedKeepsEdits ==
  [][\A p \in Ids : presets[p] = "edited" => presets'[p] = "edited"]_agentVars

(* The host in the links is that of the saved base URL, unless two saves    *)
(* overlapped, or a kill or an error came between the two statements        *)
(* (PutSubscriptionSettings); the next save repairs it.                    *)
HostFollowsBase ==
  ~mixed /\ base # None /\ (\A a \in Admins : saving[a] = None) =>
    Host[base] \in {None, host}

(* Once kills, failing statements and reinstallations have ended, the agent *)
(* comes up and stays up, whatever they left in the database: no start ends *)
(* in log.Fatalf again and again (main, restart: unless-stopped).           *)
ComesUp == <>[](stage = "up")
=============================================================================
